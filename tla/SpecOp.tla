------------------------------- MODULE SpecOp -------------------------------
(***************************************************************************)
(* Special operations of the Yate link (lib/yxtlink.c): installing and     *)
(* removing handlers and watchers, writing and reading parameters.         *)
(*                                                                         *)
(* One operation at a time, guarded by the mutex spec_op, writes a command *)
(* and waits at most SPEC_OP_TIMEOUT for a reader thread to set sop_status *)
(* from the answer.  An answer names no operation: one that comes after    *)
(* the timeout meets whatever is going on by then.  The list of handlers   *)
(* is kept here and, by name, in the engine.                               *)
(*                                                                         *)
(* Operations are numbered so that properties can tell whose answer is     *)
(* whose; the code keeps no such number.  The engine and the pipes are     *)
(* external.                                                               *)
(***************************************************************************)
EXTENDS Integers, Sequences

CONSTANTS
  Callers,         \* threads that call yxt_add_handler(), yxt_set_param() ...
  Readers,         \* reader_thread()s
  Names,           \* names of handlers and watchers
  MaxOps,          \* bound: operations made
  MayFail,         \* whether bwrite() of a command can fail
  Nil

Ops == 1 .. MaxOps

ASSUME SpecOpAssumption ==
  /\ MaxOps \in Nat /\ MayFail \in BOOLEAN
  /\ Nil \notin Callers /\ Nil \notin Names /\ Nil \notin Ops

VARIABLES
  handlers,        \* ctx->handlers: the names in the list
  spec_op,         \* the mutex: the caller that holds it, or Nil
  sop_status,      \* how the operation under way stands
  sop_value,       \* the operation whose answer brought the value, or Nil
  caller,          \* what each caller is doing
  rd,              \* the answer each reader has read and not yet applied
  toEngine, toUs,  \* commands and answers in the pipes
  installed,       \* the engine's handlers and watchers
  made,            \* how many operations have been made
  verdict,         \* history: the engine's answer to each operation
  abandoned        \* history: some operation ended without its answer

sopVars == <<sop_status, sop_value>>
engineVars == <<toEngine, toUs, installed, verdict>>
vars == <<handlers, spec_op, sopVars, caller, rd, engineVars, made, abandoned>>

Kinds == {"add", "del", "set", "get"}
Answered == {"OK", "FAIL"}

\* A caller: its operation, whether the engine owed nothing when it cleared the
\* status (history), and what spec_op_wait() and the operation returned.
CallerIdle == [pc |-> "idle", op |-> Nil, kind |-> Nil, name |-> Nil, alone |-> FALSE,
               result |-> Nil, value |-> Nil]
Calling(n, kind, name) == [pc |-> "locked", op |-> n, kind |-> kind, name |-> name,
                           alone |-> FALSE, result |-> Nil, value |-> Nil]
At(c, pc) == caller' = [caller EXCEPT ![c].pc = pc]
-----------------------------------------------------------------------------
(* A call: add_hndlr_wtchr(), del_hndlr_wtchr(), yxt_set_param(),          *)
(* yxt_get_param().                                                        *)

LockSpecOp(c, kind, name) ==
  /\ caller[c].pc = "idle" /\ spec_op = Nil /\ made < MaxOps
  /\ kind \in {"add", "del"} <=> name # Nil
  /\ spec_op' = c /\ made' = made + 1
  /\ caller' = [caller EXCEPT ![c] = Calling(made + 1, kind, name)]
  /\ UNCHANGED <<handlers, sopVars, rd, engineVars, abandoned>>

\* insert_handler() or find_handler(); a handler that exists, or one that does
\* not, ends the call.
Prepared(c) == caller[c].kind \in {"set", "get"}
                 \/ (caller[c].kind = "add" <=> caller[c].name \notin handlers)

\* Mutant of Prepare(): the error path forgets to unlock.
Prepare_KeepsLock(c) ==
  /\ caller[c].pc = "locked"
  /\ \/ /\ Prepared(c) /\ At(c, "ready") /\ UNCHANGED spec_op
        /\ handlers' = IF caller[c].kind = "add" THEN handlers \cup {caller[c].name} ELSE handlers
     \/ ~Prepared(c) /\ caller' = [caller EXCEPT ![c] = CallerIdle] /\ UNCHANGED <<spec_op, handlers>>
  /\ UNCHANGED <<sopVars, rd, engineVars, made, abandoned>>

Prepare(c) ==
  /\ caller[c].pc = "locked"
  /\ \/ /\ Prepared(c) /\ At(c, "ready") /\ UNCHANGED spec_op
        /\ handlers' = IF caller[c].kind = "add" THEN handlers \cup {caller[c].name} ELSE handlers
     \/ /\ ~Prepared(c) /\ spec_op' = Nil /\ UNCHANGED handlers
        /\ caller' = [caller EXCEPT ![c] = CallerIdle]
  /\ UNCHANGED <<sopVars, rd, engineVars, made, abandoned>>

\* Mutant of spec_op_init(): the status the last answer left is kept.
spec_op_init_Keeps ==
  sop_value' = Nil /\ sop_status' = IF sop_status = "NONE" THEN "STARTED" ELSE sop_status

spec_op_init == sop_value' = Nil /\ sop_status' = "STARTED"

\* The engine owes no answer and no reader has one.
Quiet == toEngine = <<>> /\ toUs = <<>> /\ \A r \in Readers : rd[r] = Nil

\* spec_op_init() in its critical section of sop_info_mutex.
ClearStatus(c) ==
  /\ caller[c].pc = "ready"
  /\ spec_op_init
  /\ caller' = [caller EXCEPT ![c].pc = "cleared", ![c].alone = Quiet]
  /\ UNCHANGED <<handlers, spec_op, rd, engineVars, made, abandoned>>

\* bwrite(), whose result is not looked at.  wr_mutex is held since before
\* spec_op_init(), but no reader takes it: a late answer can get in between.
WriteCommand(c) ==
  /\ caller[c].pc = "cleared"
  /\ \/ toEngine' = Append(toEngine, [op |-> caller[c].op, kind |-> caller[c].kind,
                                      name |-> caller[c].name])
     \/ MayFail /\ UNCHANGED toEngine
  /\ At(c, "sent")
  /\ UNCHANGED <<handlers, spec_op, sopVars, rd, toUs, installed, made, verdict, abandoned>>

\* spec_op_wait() takes the status it finds; the value is left for later.
Take(c, result) ==
  /\ caller' = [caller EXCEPT ![c].pc = "ended", ![c].result = result]
  /\ sop_status' = "NONE"
  /\ abandoned' = (abandoned \/ result = "TIMEOUT")
  /\ UNCHANGED <<handlers, spec_op, sop_value, rd, engineVars, made>>

\* The loop of spec_op_wait() is entered, or its condition holds at once.
BeginWait(c) ==
  /\ caller[c].pc = "sent"
  /\ \/ sop_status \in Answered /\ Take(c, sop_status)
     \/ /\ sop_status \notin Answered /\ At(c, "asleep")
        /\ UNCHANGED <<handlers, spec_op, sopVars, rd, engineVars, made, abandoned>>

WakeUp(c) == caller[c].pc = "asleep" /\ sop_status \in Answered /\ Take(c, sop_status)

\* Mutant of TimeOut(): only an answer ends the wait.
TimeOut_IfAnswered(c) == caller[c].pc = "asleep" /\ sop_status \in Answered /\ Take(c, "TIMEOUT")

\* pthread_cond_timedwait() times out, even if an answer has just come.
TimeOut(c) == caller[c].pc = "asleep" /\ Take(c, "TIMEOUT")

\* Mutant of Finish(): a handler the engine refused stays in the list.
Finish_KeepsHandler(c) ==
  /\ caller[c].pc = "ended"
  /\ LET ok == caller[c].result = "OK"
     IN  handlers' = IF caller[c].kind = "del" /\ ok
                       THEN handlers \ {caller[c].name} ELSE handlers
  /\ UNCHANGED sop_value
  /\ spec_op' = Nil /\ At(c, "returned")
  /\ UNCHANGED <<sop_status, rd, engineVars, made, abandoned>>

\* yxt_get_param() fetches the value in a critical section of its own, whatever
\* the wait returned.
FetchValue(c) ==
  LET get == caller[c].kind = "get"
  IN  /\ sop_value' = IF get THEN Nil ELSE sop_value
      /\ caller' = [caller EXCEPT ![c].pc = "returned", ![c].value = IF get THEN sop_value ELSE Nil]

\* remove_handler() after an add that failed or a removal that succeeded.
Finish(c) ==
  /\ caller[c].pc = "ended"
  /\ LET ok == caller[c].result = "OK"
         remove == (caller[c].kind = "add" /\ ~ok) \/ (caller[c].kind = "del" /\ ok)
     IN  handlers' = IF remove THEN handlers \ {caller[c].name} ELSE handlers
  /\ FetchValue(c) /\ spec_op' = Nil
  /\ UNCHANGED <<sop_status, rd, engineVars, made, abandoned>>

Return(c) ==
  /\ caller[c].pc = "returned" /\ caller' = [caller EXCEPT ![c] = CallerIdle]
  /\ UNCHANGED <<handlers, spec_op, sopVars, rd, engineVars, made, abandoned>>
-----------------------------------------------------------------------------
(* reader_thread() and the engine.                                         *)

ReadAnswer(r) ==
  /\ rd[r] = Nil /\ toUs # <<>>
  /\ rd' = [rd EXCEPT ![r] = Head(toUs)] /\ toUs' = Tail(toUs)
  /\ UNCHANGED <<handlers, spec_op, sopVars, caller, toEngine, installed, made, verdict, abandoned>>

\* finalize_command() and finalize_param(): the status is set also when no
\* operation is waiting ("spurious command response").
Finalize(r) ==
  /\ rd[r] # Nil
  /\ sop_status' = verdict[rd[r].op]
  /\ sop_value' = IF rd[r].kind \in {"set", "get"} THEN rd[r].op ELSE sop_value
  /\ rd' = [rd EXCEPT ![r] = Nil]
  /\ UNCHANGED <<handlers, spec_op, caller, engineVars, made, abandoned>>

\* The engine takes commands in order, as it pleases, and answers in order.
EngineAnswers ==
  /\ toEngine # <<>>
  /\ LET cmd == Head(toEngine)
     IN  \E yes \in BOOLEAN :
           /\ verdict' = [verdict EXCEPT ![cmd.op] = IF yes THEN "OK" ELSE "FAIL"]
           /\ installed' = CASE yes /\ cmd.kind = "add" -> installed \cup {cmd.name}
                             [] yes /\ cmd.kind = "del" -> installed \ {cmd.name}
                             [] OTHER -> installed
           /\ toUs' = Append(toUs, cmd)
  /\ toEngine' = Tail(toEngine)
  /\ UNCHANGED <<handlers, spec_op, sopVars, caller, rd, made, abandoned>>
-----------------------------------------------------------------------------
Init ==
  /\ handlers = {} /\ spec_op = Nil /\ sop_status = "NONE" /\ sop_value = Nil
  /\ caller = [c \in Callers |-> CallerIdle] /\ rd = [r \in Readers |-> Nil]
  /\ toEngine = <<>> /\ toUs = <<>> /\ installed = {} /\ made = 0
  /\ verdict = [n \in Ops |-> "NONE"] /\ abandoned = FALSE

CallStep(c) ==
  \/ Prepare(c) \/ ClearStatus(c) \/ WriteCommand(c) \/ BeginWait(c)
  \/ WakeUp(c) \/ TimeOut(c) \/ Finish(c) \/ Return(c)

Next ==
  \/ \E c \in Callers :
       CallStep(c) \/ \E kind \in Kinds, name \in Names \cup {Nil} : LockSpecOp(c, kind, name)
  \/ \E r \in Readers : ReadAnswer(r) \/ Finalize(r)
  \/ EngineAnswers

Spec == Init /\ [][Next]_vars

\* Threads run and waits time out; the engine need not answer.
FairSpec == Spec /\ \A c \in Callers : WF_vars(CallStep(c))
-----------------------------------------------------------------------------
(* Properties.                                                             *)

Commands == [op : Ops, kind : Kinds, name : Names \cup {Nil}]

\* The type invariant; the mutex is held by the one caller that is inside.
SpecOpTypeOK ==
  /\ handlers \subseteq Names /\ installed \subseteq Names
  /\ spec_op \in Callers \cup {Nil}
  /\ sop_status \in {"NONE", "STARTED"} \cup Answered /\ sop_value \in Ops \cup {Nil}
  /\ caller \in [Callers ->
       [pc : {"idle", "locked", "ready", "cleared", "sent", "asleep", "ended", "returned"},
        op : Ops \cup {Nil}, kind : Kinds \cup {Nil}, name : Names \cup {Nil}, alone : BOOLEAN,
        result : Answered \cup {"TIMEOUT", Nil}, value : Ops \cup {Nil}]]
  /\ \A c \in Callers : caller[c].pc \notin {"idle", "returned"} <=> spec_op = c
  /\ rd \in [Readers -> Commands \cup {Nil}]
  /\ toEngine \in Seq(Commands) /\ toUs \in Seq(Commands)
  /\ made \in 0 .. MaxOps /\ verdict \in [Ops -> {"NONE"} \cup Answered]
  /\ abandoned \in BOOLEAN

\* An operation that cleared the status when the engine owed no answer is told
\* the engine's answer to that very operation, and a value only of that
\* operation: an answer that came too late, between two operations, is not taken
\* for the next one's (spec_op_init(), finalize_command(), finalize_param()).
\* It is not enough that nothing is owed when the command is written: a late
\* answer applied between spec_op_init() and the write is returned.
ResultIsItsOwn ==
  \A c \in Callers :
    caller[c].pc \in {"ended", "returned"} /\ caller[c].alone =>
      /\ caller[c].result \in Answered => verdict[caller[c].op] = caller[c].result
      /\ caller[c].value \in {caller[c].op, Nil}

\* While no operation was given up, the handlers in the list are those the
\* engine has, whenever no operation is under way (add_hndlr_wtchr() takes a
\* refused handler out again, del_hndlr_wtchr() keeps it).
HandlersAgree == spec_op = Nil /\ ~abandoned => handlers = installed

\* An operation that has taken the mutex returns and gives it back, whether or
\* not the engine answers (SPEC_OP_TIMEOUT).
OperationReturns == \A c \in Callers : (spec_op = c) ~> (spec_op # c)
=============================================================================
