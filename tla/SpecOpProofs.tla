---------------------------- MODULE SpecOpProofs ----------------------------
(***************************************************************************)
(* Proofs about SpecOp, for any number of callers, readers, names and      *)
(* operations.                                                             *)
(*                                                                         *)
(* The argument is about where the answer to an operation can be.  Numbers *)
(* are given out once, so a command is answered once.  An operation that   *)
(* cleared the status when the engine owed nothing is alone in the pipes   *)
(* until it ends: its command is in at most one place and whatever arrives *)
(* is its own answer.  As long as no operation was given up, every one     *)
(* begins that way, and the two lists of handlers differ by no more than   *)
(* the operation under way.                                                *)
(***************************************************************************)
EXTENDS SpecOp, TLAPS

CallerType ==
  [pc : {"idle", "locked", "ready", "cleared", "sent", "asleep", "ended", "returned"},
   op : Ops \cup {Nil}, kind : Kinds \cup {Nil}, name : Names \cup {Nil}, alone : BOOLEAN,
   result : Answered \cup {"TIMEOUT", Nil}, value : Ops \cup {Nil}]

\* An operation under way has a number that was given out, and a kind; its
\* value is fetched at the end.
CallsInv ==
  \A c \in Callers : caller[c].pc # "idle" =>
    /\ caller[c].op \in Ops /\ caller[c].op <= made /\ caller[c].kind \in Kinds
    /\ caller[c].kind \in {"add", "del"} => caller[c].name \in Names
    /\ caller[c].pc # "returned" => caller[c].value = Nil

\* A command is answered once: its number has no verdict while it is on its way
\* to the engine and has one afterwards.
PipesInv ==
  /\ \A n \in Ops : n > made => verdict[n] = "NONE"
  /\ \A i \in DOMAIN toEngine :
       /\ toEngine[i].op <= made /\ verdict[toEngine[i].op] = "NONE"
       /\ toEngine[i].kind = "add" => toEngine[i].name \in Names
  /\ \A i, j \in DOMAIN toEngine : i # j => toEngine[i].op # toEngine[j].op
  /\ \A i \in DOMAIN toUs : verdict[toUs[i].op] \in Answered
  /\ \A r \in Readers : rd[r] # Nil => verdict[rd[r].op] \in Answered
  /\ \A c \in Callers : caller[c].pc \in {"locked", "ready", "cleared"} =>
       /\ verdict[caller[c].op] = "NONE"
       /\ \A i \in DOMAIN toEngine : toEngine[i].op # caller[c].op

\* Where the command of caller c is when it is the only one.
Cmd(c) == [op |-> caller[c].op, kind |-> caller[c].kind, name |-> caller[c].name]
NoneRead == \A r \in Readers : rd[r] = Nil
AtEngine(c) == toEngine = <<Cmd(c)>> /\ toUs = <<>> /\ NoneRead
InPipe(c) == toEngine = <<>> /\ toUs = <<Cmd(c)>> /\ NoneRead
AtReader(c) ==
  /\ toEngine = <<>> /\ toUs = <<>>
  /\ \E r \in Readers : rd[r] = Cmd(c) /\ \A q \in Readers \ {r} : rd[q] = Nil

Inside == {"sent", "asleep", "ended"}

\* An operation that cleared the status when nothing was owed stays alone until
\* it ends; until it writes nothing can touch the status.
AloneInv ==
  \A c \in Callers :
    /\ caller[c].alone /\ caller[c].pc = "cleared" =>
         Quiet /\ sop_status = "STARTED" /\ sop_value = Nil
    /\ caller[c].alone /\ caller[c].pc \in Inside =>
         /\ Quiet \/ AtEngine(c) \/ InPipe(c) \/ AtReader(c)
         /\ sop_value \in {caller[c].op, Nil}
    /\ caller[c].alone /\ caller[c].pc \in {"sent", "asleep"} /\ sop_status \in Answered =>
         Quiet /\ sop_status = verdict[caller[c].op]

\* The lists while the engine has not decided, and once it has decided v.
Undecided(c) ==
  IF caller[c].kind = "add"
    THEN caller[c].name \notin installed /\ handlers = installed \cup {caller[c].name}
    ELSE handlers = installed
Decided(c, v) ==
  IF v # "OK" THEN Undecided(c)
  ELSE installed = IF caller[c].kind = "del" THEN handlers \ {caller[c].name} ELSE handlers

AgreeInv ==
  ~abandoned =>
    /\ spec_op = Nil => Quiet /\ handlers = installed
    /\ \A c \in Callers :
         /\ caller[c].pc = "locked" => Quiet /\ handlers = installed
         /\ caller[c].pc = "ready" => Quiet /\ Undecided(c)
         /\ caller[c].pc = "cleared" => caller[c].alone /\ Quiet /\ Undecided(c)
         /\ caller[c].pc \in {"sent", "asleep"} =>
              caller[c].alone /\ Decided(c, verdict[caller[c].op])
         /\ caller[c].pc = "ended" =>
              /\ Quiet /\ caller[c].result \in Answered
              /\ Decided(c, caller[c].result)

SpecOpInv ==
  SpecOpTypeOK /\ CallsInv /\ PipesInv /\ AloneInv /\ ResultIsItsOwn /\ AgreeInv
-----------------------------------------------------------------------------
(* What the actions have in common.                                        *)

USE SpecOpAssumption DEF Ops, Kinds, Answered

\* A queue grows at its end and shrinks at its head.
LEMMA AppendFacts ==
  ASSUME NEW S, NEW q \in Seq(S), NEW x \in S
  PROVE  /\ Append(q, x) \in Seq(S) /\ DOMAIN Append(q, x) = 1 .. Len(q) + 1
         /\ DOMAIN q = 1 .. Len(q) /\ Len(q) \in Nat /\ Append(q, x)[Len(q) + 1] = x
         /\ \A i \in DOMAIN q : Append(q, x)[i] = q[i]
  OBVIOUS

\* What taking the first element of a queue does.
LEMMA TailFacts ==
  ASSUME NEW S, NEW q \in Seq(S), q # <<>>
  PROVE  /\ Head(q) \in S /\ Head(q) = q[1] /\ 1 \in DOMAIN q /\ Tail(q) \in Seq(S)
         /\ \A i \in DOMAIN Tail(q) : i + 1 \in DOMAIN q /\ Tail(q)[i] = q[i + 1]
         /\ DOMAIN Tail(q) \subseteq Nat \ {0}
  OBVIOUS

\* The type invariant without the callers and the mutex.
RestType ==
  /\ handlers \subseteq Names /\ installed \subseteq Names
  /\ sop_status \in {"NONE", "STARTED", "OK", "FAIL"} /\ sop_value \in Ops \cup {Nil}
  /\ rd \in [Readers -> Commands \cup {Nil}]
  /\ toEngine \in Seq(Commands) /\ toUs \in Seq(Commands)
  /\ made \in 0 .. MaxOps /\ verdict \in [Ops -> {"NONE", "OK", "FAIL"}]
  /\ abandoned \in BOOLEAN

\* The parts of the type invariant that the steps refer to one by one.
LEMMA TypeParts ==
  SpecOpTypeOK <=>
    /\ RestType /\ spec_op \in Callers \cup {Nil} /\ caller \in [Callers -> CallerType]
    /\ \A c \in Callers : caller[c].pc \notin {"idle", "returned"} <=> spec_op = c
  BY DEF SpecOpTypeOK, RestType, CallerType

\* Only one caller is between LockSpecOp() and the end of its operation.
LEMMA OneInside ==
  ASSUME SpecOpTypeOK, NEW c \in Callers, caller[c].pc \notin {"idle", "returned"}
  PROVE  spec_op = c /\ \A d \in Callers \ {c} : caller[d].pc \in {"idle", "returned"}
  BY DEF SpecOpTypeOK

\* One caller moves on to k; the mutex follows it.
LEMMA CallerMoves ==
  ASSUME SpecOpTypeOK, NEW c \in Callers, NEW k \in CallerType,
         caller' = [caller EXCEPT ![c] = k], RestType', spec_op' \in Callers \cup {Nil},
         k.pc \notin {"idle", "returned"} <=> spec_op' = c,
         \A d \in Callers \ {c} : spec_op' = d <=> spec_op = d
  PROVE  SpecOpTypeOK' /\ caller'[c] = k /\ \A d \in Callers \ {c} : caller'[d] = caller[d]
  <1>1. /\ caller \in [Callers -> CallerType]
        /\ \A d \in Callers : caller[d].pc \notin {"idle", "returned"} <=> spec_op = d
    BY TypeParts
  <1>2. /\ caller' \in [Callers -> CallerType] /\ caller'[c] = k
        /\ \A d \in Callers \ {c} : caller'[d] = caller[d]
    BY <1>1
  <1>3. \A d \in Callers : caller'[d].pc \notin {"idle", "returned"} <=> spec_op' = d
    BY <1>1, <1>2
  <1> QED
    BY <1>2, <1>3 DEF SpecOpTypeOK, RestType, CallerType

\* A caller that changes no other variable's part of the invariant.
LEMMA CallsMove ==
  ASSUME CallsInv, made \in Nat, made' \in Nat, made <= made', NEW c \in Callers,
         \A d \in Callers \ {c} : caller'[d] = caller[d],
         caller'[c].pc # "idle" =>
           /\ caller'[c].op \in Ops /\ caller'[c].op <= made' /\ caller'[c].kind \in Kinds
           /\ caller'[c].kind \in {"add", "del"} => caller'[c].name \in Names
           /\ caller'[c].pc # "returned" => caller'[c].value = Nil,
         \A d \in Callers : caller[d].op \in Ops \cup {Nil}
  PROVE  CallsInv'
  BY DEF CallsInv

\* The operation of a caller that is not idle.
LEMMA CallFacts ==
  ASSUME SpecOpInv, NEW c \in Callers, caller[c].pc # "idle"
  PROVE  /\ caller[c] \in CallerType /\ caller[c].op \in Ops /\ caller[c].op <= made
         /\ caller[c].kind \in Kinds /\ caller[c].name \in Names \cup {Nil}
         /\ caller[c].kind \in {"add", "del"} => caller[c].name \in Names
         /\ caller[c].pc # "returned" => caller[c].value = Nil
         /\ Cmd(c) \in Commands
  BY TypeParts DEF SpecOpInv, CallsInv, CallerType, Commands, Cmd

\* What is in the pipes and with the readers are commands, by number.
LEMMA PipeFacts ==
  ASSUME RestType
  PROVE  /\ \A i \in DOMAIN toEngine : toEngine[i] \in Commands /\ toEngine[i].op \in Ops
         /\ \A i \in DOMAIN toUs : toUs[i] \in Commands /\ toUs[i].op \in Ops
         /\ \A r \in Readers : rd[r] # Nil => rd[r] \in Commands /\ rd[r].op \in Ops
  <1>1. \A x \in Commands : x.op \in Ops
    BY DEF Commands
  <1>2. \A i \in DOMAIN toEngine : toEngine[i] \in Commands
    BY DEF RestType
  <1>3. \A i \in DOMAIN toUs : toUs[i] \in Commands
    BY DEF RestType
  <1>4. \A r \in Readers : rd[r] # Nil => rd[r] \in Commands
    BY DEF RestType
  <1> QED
    BY <1>1, <1>2, <1>3, <1>4
-----------------------------------------------------------------------------
(* One lemma per action.                                                   *)

\* The mutex is taken.
LEMMA LockOK ==
  ASSUME SpecOpInv, NEW c \in Callers, NEW kind \in Kinds, NEW name \in Names \cup {Nil},
         LockSpecOp(c, kind, name)
  PROVE  SpecOpInv'
  <1> DEFINE k == Calling(made + 1, kind, name)
  <1>1. /\ caller[c].pc = "idle" /\ spec_op = Nil /\ made < MaxOps
        /\ kind \in {"add", "del"} <=> name # Nil
        /\ spec_op' = c /\ made' = made + 1 /\ caller' = [caller EXCEPT ![c] = k]
        /\ UNCHANGED <<handlers, sop_status, sop_value, rd, abandoned>>
        /\ UNCHANGED <<toEngine, toUs, installed, verdict>>
    BY DEF LockSpecOp, sopVars, engineVars
  <1>2. RestType /\ spec_op \in Callers \cup {Nil} /\ caller \in [Callers -> CallerType]
    BY TypeParts DEF SpecOpInv
  <1>3. RestType'
    BY <1>1, <1>2 DEF RestType
  <1>4. /\ k \in CallerType /\ k.pc = "locked" /\ k.op = made + 1 /\ k.kind = kind
        /\ k.name = name /\ k.alone = FALSE /\ k.op \in Ops /\ k.value = Nil
    BY <1>1, <1>2 DEF Calling, CallerType, RestType
  <1> HIDE DEF k
  <1>5. SpecOpTypeOK' /\ caller'[c] = k /\ \A d \in Callers \ {c} : caller'[d] = caller[d]
    BY <1>1, <1>2, <1>3, <1>4, CallerMoves DEF SpecOpInv
  <1>6. made \in Nat /\ \A d \in Callers : caller[d].op \in Ops \cup {Nil}
    BY <1>2 DEF RestType, CallerType
  <1>7. CallsInv'
    BY <1>1, <1>4, <1>5, <1>6, CallsMove DEF SpecOpInv
  <1>8. PipesInv'
    <2>1. \A n \in Ops : n > made' => verdict'[n] = "NONE"
      BY <1>1, <1>6 DEF SpecOpInv, PipesInv
    <2>2. \A i \in DOMAIN toEngine :
            toEngine[i].op <= made' /\ toEngine[i].op # made + 1
      BY <1>1, <1>2, <1>6, PipeFacts DEF SpecOpInv, PipesInv
    <2>3. verdict[made + 1] = "NONE"
      BY <1>1, <1>4, <1>6 DEF SpecOpInv, PipesInv
    <2> QED
      BY <1>1, <1>4, <1>5, <2>1, <2>2, <2>3 DEF SpecOpInv, PipesInv
  <1>9. AloneInv'
    BY <1>1, <1>4, <1>5 DEF SpecOpInv, AloneInv, Inside, Quiet, AtEngine, InPipe, AtReader,
                            NoneRead, Cmd
  <1>10. ResultIsItsOwn'
    BY <1>1, <1>4, <1>5 DEF SpecOpInv, ResultIsItsOwn
  <1>11. AgreeInv'
    <2>1. \A d \in Callers \ {c} : caller'[d].pc \in {"idle", "returned"}
      BY <1>5, <1>1 DEF SpecOpTypeOK
    <2> QED
      BY <1>1, <1>4, <1>5, <2>1 DEF SpecOpInv, AgreeInv, Quiet
  <1> QED
    BY <1>5, <1>7, <1>8, <1>9, <1>10, <1>11 DEF SpecOpInv

\* insert_handler() or find_handler().
LEMMA PrepareOK ==
  ASSUME SpecOpInv, NEW c \in Callers, Prepare(c)
  PROVE  SpecOpInv'
  <1>1. /\ caller[c].pc = "locked"
        /\ UNCHANGED <<sop_status, sop_value, rd, made, abandoned>>
        /\ UNCHANGED <<toEngine, toUs, installed, verdict>>
    BY DEF Prepare, sopVars, engineVars
  <1>2. RestType /\ caller \in [Callers -> CallerType] /\ SpecOpTypeOK
    BY TypeParts DEF SpecOpInv
  <1>3. spec_op = c /\ \A d \in Callers \ {c} : caller[d].pc \in {"idle", "returned"}
    BY <1>1, <1>2, OneInside
  <1>4. made \in Nat /\ \A d \in Callers : caller[d].op \in Ops \cup {Nil}
    BY <1>2 DEF RestType, CallerType
  <1>5. CASE Prepared(c)
    <2> DEFINE k == [caller[c] EXCEPT !.pc = "ready"]
    <2>1. /\ caller' = [caller EXCEPT ![c] = k] /\ spec_op' = c
          /\ handlers' = IF caller[c].kind = "add" THEN handlers \cup {caller[c].name}
                                                   ELSE handlers
      BY <1>2, <1>3, <1>5 DEF Prepare, At
    <2>2. /\ k \in CallerType /\ k.pc = "ready" /\ k.op = caller[c].op
          /\ k.kind = caller[c].kind /\ k.name = caller[c].name /\ k.value = caller[c].value
      BY <1>2 DEF CallerType
    <2> HIDE DEF k
    <2>3. RestType'
      BY <1>1, <1>2, <2>1, CallFacts DEF RestType
    <2>4. SpecOpTypeOK' /\ caller'[c] = k /\ \A d \in Callers \ {c} : caller'[d] = caller[d]
      BY <1>2, <1>3, <2>1, <2>2, <2>3, CallerMoves
    <2>5. CallsInv'
      BY <1>1, <1>4, <2>2, <2>4, CallFacts, CallsMove DEF SpecOpInv
    <2>6. PipesInv'
      BY <1>1, <2>2, <2>4 DEF SpecOpInv, PipesInv
    <2>7. AloneInv'
      BY <1>1, <2>2, <2>4 DEF SpecOpInv, AloneInv, Inside, Quiet, AtEngine, InPipe,
                              AtReader, NoneRead, Cmd
    <2>8. ResultIsItsOwn'
      BY <1>1, <2>2, <2>4 DEF SpecOpInv, ResultIsItsOwn
    <2>9. AgreeInv'
      <3>1. ~abandoned => Quiet /\ handlers = installed
        BY <1>1 DEF SpecOpInv, AgreeInv
      <3>2. ~abandoned => Undecided(c)'
        BY <1>1, <1>5, <2>1, <2>2, <2>4, <3>1 DEF Undecided, Prepared
      <3>3. Quiet' <=> Quiet
        BY <1>1 DEF Quiet
      <3> QED
        BY <1>1, <1>3, <2>1, <2>2, <2>4, <3>1, <3>2, <3>3 DEF AgreeInv
    <2> QED
      BY <2>4, <2>5, <2>6, <2>7, <2>8, <2>9 DEF SpecOpInv
  <1>6. CASE ~Prepared(c)
    <2>1. /\ caller' = [caller EXCEPT ![c] = CallerIdle] /\ spec_op' = Nil
          /\ handlers' = handlers
      BY <1>6 DEF Prepare
    <2>2. CallerIdle \in CallerType /\ CallerIdle.pc = "idle"
      BY DEF CallerType, CallerIdle
    <2>3. RestType'
      BY <1>1, <1>2, <2>1 DEF RestType
    <2>4. /\ SpecOpTypeOK' /\ caller'[c] = CallerIdle
          /\ \A d \in Callers \ {c} : caller'[d] = caller[d]
      BY <1>2, <1>3, <2>1, <2>2, <2>3, CallerMoves
    <2>5. CallsInv'
      BY <1>1, <1>4, <2>2, <2>4, CallsMove DEF SpecOpInv
    <2>6. PipesInv'
      BY <1>1, <2>2, <2>4 DEF SpecOpInv, PipesInv
    <2>7. AloneInv'
      BY <1>1, <2>2, <2>4 DEF SpecOpInv, AloneInv, Inside, Quiet, AtEngine, InPipe,
                              AtReader, NoneRead, Cmd
    <2>8. ResultIsItsOwn'
      BY <1>1, <2>2, <2>4 DEF SpecOpInv, ResultIsItsOwn
    <2>9. AgreeInv'
      <3>1. ~abandoned => Quiet /\ handlers = installed
        BY <1>1 DEF SpecOpInv, AgreeInv
      <3>2. Quiet' <=> Quiet
        BY <1>1 DEF Quiet
      <3> QED
        BY <1>1, <1>3, <2>1, <2>2, <2>4, <3>1, <3>2 DEF AgreeInv
    <2> QED
      BY <2>4, <2>5, <2>6, <2>7, <2>8, <2>9 DEF SpecOpInv
  <1> QED
    BY <1>5, <1>6

\* spec_op_init().
LEMMA ClearOK ==
  ASSUME SpecOpInv, NEW c \in Callers, ClearStatus(c)
  PROVE  SpecOpInv'
  <1> DEFINE k == [caller[c] EXCEPT !.pc = "cleared", !.alone = Quiet]
  <1>1. /\ caller[c].pc = "ready" /\ sop_status' = "STARTED" /\ sop_value' = Nil
        /\ UNCHANGED <<handlers, spec_op, rd, made, abandoned>>
        /\ UNCHANGED <<toEngine, toUs, installed, verdict>>
    BY DEF ClearStatus, spec_op_init, engineVars
  <1>2. RestType /\ caller \in [Callers -> CallerType] /\ SpecOpTypeOK
    BY TypeParts DEF SpecOpInv
  <1>3. caller' = [caller EXCEPT ![c] = k]
    BY <1>2 DEF ClearStatus
  <1>4. spec_op = c /\ \A d \in Callers \ {c} : caller[d].pc \in {"idle", "returned"}
    BY <1>1, <1>2, OneInside
  <1>5. made \in Nat /\ \A d \in Callers : caller[d].op \in Ops \cup {Nil}
    BY <1>2 DEF RestType, CallerType
  <1>6. Quiet \in BOOLEAN
    BY DEF Quiet
  <1>7. /\ k \in CallerType /\ k.pc = "cleared" /\ k.op = caller[c].op /\ k.alone = Quiet
        /\ k.kind = caller[c].kind /\ k.name = caller[c].name /\ k.value = caller[c].value
    BY <1>2, <1>6 DEF CallerType
  <1> HIDE DEF k
  <1>8. RestType'
    BY <1>1, <1>2 DEF RestType
  <1>9. SpecOpTypeOK' /\ caller'[c] = k /\ \A d \in Callers \ {c} : caller'[d] = caller[d]
    BY <1>1, <1>2, <1>3, <1>4, <1>7, <1>8, CallerMoves
  <1>10. CallsInv'
    BY <1>1, <1>5, <1>7, <1>9, CallFacts, CallsMove DEF SpecOpInv
  <1>11. PipesInv'
    BY <1>1, <1>7, <1>9 DEF SpecOpInv, PipesInv
  <1>12. Quiet' <=> Quiet
    BY <1>1 DEF Quiet
  <1>13. AloneInv'
    BY <1>1, <1>4, <1>7, <1>9, <1>12 DEF AloneInv, Inside
  <1>14. ResultIsItsOwn'
    BY <1>1, <1>7, <1>9 DEF SpecOpInv, ResultIsItsOwn
  <1>15. AgreeInv'
    <2>1. ~abandoned => Quiet /\ Undecided(c)
      BY <1>1 DEF SpecOpInv, AgreeInv
    <2>2. Undecided(c)' <=> Undecided(c)
      BY <1>1, <1>7, <1>9 DEF Undecided
    <2>3. ~abandoned => caller'[c].alone /\ Quiet' /\ Undecided(c)'
      BY <1>7, <1>9, <1>12, <2>1, <2>2
    <2> QED
      BY <1>1, <1>4, <1>7, <1>9, <2>3 DEF AgreeInv
  <1> QED
    BY <1>9, <1>10, <1>11, <1>13, <1>14, <1>15 DEF SpecOpInv

\* The write, whether or not it succeeds.
LEMMA WriteOK ==
  ASSUME SpecOpInv, NEW c \in Callers, WriteCommand(c)
  PROVE  SpecOpInv'
  <1> DEFINE k == [caller[c] EXCEPT !.pc = "sent"]
  <1>1. /\ caller[c].pc = "cleared" /\ UNCHANGED <<sop_status, sop_value>>
        /\ toEngine' = Append(toEngine, Cmd(c)) \/ toEngine' = toEngine
        /\ UNCHANGED <<handlers, spec_op, rd, toUs, installed, made, verdict, abandoned>>
    BY DEF WriteCommand, sopVars, Cmd
  <1>2. RestType /\ caller \in [Callers -> CallerType] /\ SpecOpTypeOK
    BY TypeParts DEF SpecOpInv
  <1>3. caller' = [caller EXCEPT ![c] = k]
    BY <1>2 DEF WriteCommand, At
  <1>4. spec_op = c /\ \A d \in Callers \ {c} : caller[d].pc \in {"idle", "returned"}
    BY <1>1, <1>2, OneInside
  <1>5. made \in Nat /\ \A d \in Callers : caller[d].op \in Ops \cup {Nil}
    BY <1>2 DEF RestType, CallerType
  <1>7. /\ k \in CallerType /\ k.pc = "sent" /\ k.op = caller[c].op /\ k.alone = caller[c].alone
        /\ k.kind = caller[c].kind /\ k.name = caller[c].name /\ k.value = caller[c].value
    BY <1>2 DEF CallerType
  <1> HIDE DEF k
  <1>8. /\ Cmd(c) \in Commands /\ Cmd(c).op = caller[c].op
        /\ Cmd(c).kind = "add" => Cmd(c).name \in Names
    BY <1>1, CallFacts DEF Cmd
  <1>9. RestType'
    <2>1. Append(toEngine, Cmd(c)) \in Seq(Commands)
      BY <1>2, <1>8, AppendFacts DEF RestType
    <2> QED
      BY <1>1, <1>2, <2>1 DEF RestType
  <1>10. SpecOpTypeOK' /\ caller'[c] = k /\ \A d \in Callers \ {c} : caller'[d] = caller[d]
    BY <1>1, <1>2, <1>3, <1>4, <1>7, <1>9, CallerMoves
  <1>11. Cmd(c)' = Cmd(c)
    BY <1>7, <1>10 DEF Cmd
  <1>12. CallsInv'
    BY <1>1, <1>5, <1>7, <1>10, CallFacts, CallsMove DEF SpecOpInv
  <1>13. PipesInv'
    <2>1. \A i \in DOMAIN toEngine : toEngine[i].op # caller[c].op
      BY <1>1 DEF SpecOpInv, PipesInv
    <2>2. caller[c].op <= made /\ verdict[caller[c].op] = "NONE"
      BY <1>1, CallFacts DEF SpecOpInv, PipesInv
    <2>3. \A i \in DOMAIN toEngine' :
            \/ i \in DOMAIN toEngine /\ toEngine'[i] = toEngine[i]
            \/ i = Len(toEngine) + 1 /\ toEngine'[i] = Cmd(c)
      <3>1. toEngine \in Seq(Commands)
        BY <1>2 DEF RestType
      <3> QED
        BY <1>1, <1>8, <3>1, AppendFacts
    <2>4. \A i \in DOMAIN toEngine : i # Len(toEngine) + 1
      BY <1>2 DEF RestType
    <2>5. \A i \in DOMAIN toEngine' :
            /\ toEngine'[i].op <= made' /\ verdict'[toEngine'[i].op] = "NONE"
            /\ toEngine'[i].kind = "add" => toEngine'[i].name \in Names
      BY <1>1, <1>8, <2>2, <2>3 DEF SpecOpInv, PipesInv
    <2>6. \A i, j \in DOMAIN toEngine' : i # j => toEngine'[i].op # toEngine'[j].op
      BY <1>8, <2>1, <2>3, <2>4 DEF SpecOpInv, PipesInv
    <2> QED
      BY <1>1, <1>4, <1>7, <1>10, <2>5, <2>6 DEF SpecOpInv, PipesInv
  <1>14. AloneInv'
    <2>1. ASSUME Quiet PROVE Quiet' \/ AtEngine(c)'
      BY <1>1, <1>11, <2>1 DEF Quiet, AtEngine, NoneRead
    <2>2. caller[c].alone => Quiet /\ sop_status = "STARTED" /\ sop_value = Nil
      BY <1>1 DEF SpecOpInv, AloneInv
    <2> QED
      BY <1>1, <1>4, <1>7, <1>10, <2>1, <2>2 DEF AloneInv, Inside
  <1>15. ResultIsItsOwn'
    BY <1>1, <1>7, <1>10 DEF SpecOpInv, ResultIsItsOwn
  <1>16. AgreeInv'
    <2>1. ~abandoned => caller[c].alone /\ Quiet /\ Undecided(c)
      BY <1>1 DEF SpecOpInv, AgreeInv
    <2>2. Undecided(c)' <=> Undecided(c)
      BY <1>1, <1>7, <1>10 DEF Undecided
    <2>3. verdict[caller[c].op] = "NONE"
      BY <1>1 DEF SpecOpInv, PipesInv
    <2>4. ~abandoned => Decided(c, verdict[caller[c].op])'
      BY <1>1, <1>7, <1>10, <2>1, <2>2, <2>3 DEF Decided
    <2>5. ~abandoned => caller'[c].alone
      BY <1>7, <1>10, <2>1
    <2> QED
      BY <1>1, <1>4, <1>7, <1>10, <2>4, <2>5 DEF AgreeInv
  <1> QED
    BY <1>10, <1>12, <1>13, <1>14, <1>15, <1>16 DEF SpecOpInv

\* The loop of spec_op_wait() is entered.
LEMMA SleepOK ==
  ASSUME SpecOpInv, NEW c \in Callers, caller[c].pc = "sent", At(c, "asleep"),
         UNCHANGED <<handlers, spec_op, sopVars, rd, engineVars, made, abandoned>>
  PROVE  SpecOpInv'
  <1> DEFINE k == [caller[c] EXCEPT !.pc = "asleep"]
  <1>1. /\ UNCHANGED <<handlers, spec_op, sop_status, sop_value, rd, made, abandoned>>
        /\ UNCHANGED <<toEngine, toUs, installed, verdict>>
    BY DEF sopVars, engineVars
  <1>2. RestType /\ caller \in [Callers -> CallerType] /\ SpecOpTypeOK
    BY TypeParts DEF SpecOpInv
  <1>3. caller' = [caller EXCEPT ![c] = k]
    BY <1>2 DEF At
  <1>4. spec_op = c /\ \A d \in Callers \ {c} : caller[d].pc \in {"idle", "returned"}
    BY <1>2, OneInside
  <1>5. made \in Nat /\ \A d \in Callers : caller[d].op \in Ops \cup {Nil}
    BY <1>2 DEF RestType, CallerType
  <1>6. /\ k \in CallerType /\ k.pc = "asleep" /\ k.op = caller[c].op /\ k.alone = caller[c].alone
        /\ k.kind = caller[c].kind /\ k.name = caller[c].name /\ k.value = caller[c].value
    BY <1>2 DEF CallerType
  <1> HIDE DEF k
  <1>7. RestType'
    BY <1>1, <1>2 DEF RestType
  <1>8. SpecOpTypeOK' /\ caller'[c] = k /\ \A d \in Callers \ {c} : caller'[d] = caller[d]
    BY <1>1, <1>2, <1>3, <1>4, <1>6, <1>7, CallerMoves
  <1>9. CallsInv'
    BY <1>1, <1>5, <1>6, <1>8, CallFacts, CallsMove DEF SpecOpInv
  <1>10. PipesInv'
    BY <1>1, <1>6, <1>8 DEF SpecOpInv, PipesInv
  <1>11. AloneInv'
    BY <1>1, <1>6, <1>8 DEF SpecOpInv, AloneInv, Inside, Quiet, AtEngine, InPipe,
                            AtReader, NoneRead, Cmd
  <1>12. ResultIsItsOwn'
    BY <1>1, <1>6, <1>8 DEF SpecOpInv, ResultIsItsOwn
  <1>13. AgreeInv'
    BY <1>1, <1>4, <1>6, <1>8 DEF SpecOpInv, AgreeInv, Decided, Undecided
  <1> QED
    BY <1>8, <1>9, <1>10, <1>11, <1>12, <1>13 DEF SpecOpInv

\* spec_op_wait() ends with the status it found, or with a timeout.
LEMMA TakeOK ==
  ASSUME SpecOpInv, NEW c \in Callers, caller[c].pc \in {"sent", "asleep"}, NEW result,
         Take(c, result), result = "TIMEOUT" \/ (result = sop_status /\ sop_status \in Answered)
  PROVE  SpecOpInv'
  <1> DEFINE k == [caller[c] EXCEPT !.pc = "ended", !.result = result]
  <1>1. /\ UNCHANGED <<handlers, spec_op, sop_value, rd, made>> /\ sop_status' = "NONE"
        /\ UNCHANGED <<toEngine, toUs, installed, verdict>>
        /\ abandoned' = (abandoned \/ result = "TIMEOUT")
    BY DEF Take, engineVars
  <1>2. RestType /\ caller \in [Callers -> CallerType] /\ SpecOpTypeOK
    BY TypeParts DEF SpecOpInv
  <1>3. caller' = [caller EXCEPT ![c] = k]
    BY <1>2 DEF Take
  <1>4. spec_op = c /\ \A d \in Callers \ {c} : caller[d].pc \in {"idle", "returned"}
    BY <1>2, OneInside
  <1>5. made \in Nat /\ \A d \in Callers : caller[d].op \in Ops \cup {Nil}
    BY <1>2 DEF RestType, CallerType
  <1>6. /\ k \in CallerType /\ k.pc = "ended" /\ k.op = caller[c].op /\ k.alone = caller[c].alone
        /\ k.kind = caller[c].kind /\ k.name = caller[c].name /\ k.value = caller[c].value
        /\ k.result = result
    BY <1>2 DEF CallerType
  <1> HIDE DEF k
  <1>7. RestType'
    BY <1>1, <1>2 DEF RestType
  <1>8. SpecOpTypeOK' /\ caller'[c] = k /\ \A d \in Callers \ {c} : caller'[d] = caller[d]
    BY <1>1, <1>2, <1>3, <1>4, <1>6, <1>7, CallerMoves
  <1>9. CallsInv'
    BY <1>1, <1>5, <1>6, <1>8, CallFacts, CallsMove DEF SpecOpInv
  <1>10. PipesInv'
    BY <1>1, <1>6, <1>8 DEF SpecOpInv, PipesInv
  <1>11. AloneInv'
    <2>1. /\ Quiet' <=> Quiet
          /\ AtEngine(c)' <=> AtEngine(c)
          /\ InPipe(c)' <=> InPipe(c)
          /\ AtReader(c)' <=> AtReader(c)
      BY <1>1, <1>6, <1>8 DEF Quiet, AtEngine, InPipe, AtReader, NoneRead, Cmd
    <2>2. caller[c].alone => /\ Quiet \/ AtEngine(c) \/ InPipe(c) \/ AtReader(c)
                             /\ sop_value \in {caller[c].op, Nil}
      BY DEF SpecOpInv, AloneInv, Inside
    <2> QED
      BY <1>1, <1>4, <1>6, <1>8, <2>1, <2>2 DEF AloneInv, Inside
  <1>12. ResultIsItsOwn'
    <2>1. caller[c].alone /\ result \in Answered => verdict[caller[c].op] = result
      BY DEF SpecOpInv, AloneInv
    <2>2. caller[c].value = Nil
      BY CallFacts
    <2> QED
      BY <1>1, <1>6, <1>8, <2>1, <2>2 DEF SpecOpInv, ResultIsItsOwn
  <1>13. AgreeInv'
    <2>1. ASSUME ~abandoned, result # "TIMEOUT"
          PROVE  Quiet /\ result \in Answered /\ Decided(c, result)
      BY <2>1 DEF SpecOpInv, AgreeInv, AloneInv
    <2>2. Quiet' <=> Quiet
      BY <1>1 DEF Quiet
    <2>3. Decided(c, result)' <=> Decided(c, result)
      BY <1>1, <1>6, <1>8 DEF Decided, Undecided
    <2> QED
      BY <1>1, <1>4, <1>6, <1>8, <2>1, <2>2, <2>3 DEF AgreeInv, Decided, Undecided
  <1> QED
    BY <1>8, <1>9, <1>10, <1>11, <1>12, <1>13 DEF SpecOpInv

\* remove_handler() and the fetch of the value, then the mutex is given back.
LEMMA FinishOK ==
  ASSUME SpecOpInv, NEW c \in Callers, Finish(c)
  PROVE  SpecOpInv'
  <1> DEFINE get == caller[c].kind = "get"
             ok == caller[c].result = "OK"
             k == [caller[c] EXCEPT !.pc = "returned",
                                    !.value = IF get THEN sop_value ELSE Nil]
  <1>1. /\ caller[c].pc = "ended" /\ spec_op' = Nil
        /\ UNCHANGED <<sop_status, rd, made, abandoned>>
        /\ UNCHANGED <<toEngine, toUs, installed, verdict>>
        /\ sop_value' = IF get THEN Nil ELSE sop_value
    BY DEF Finish, FetchValue, engineVars
  <1>2. handlers' = IF (caller[c].kind = "add" /\ ~ok) \/ (caller[c].kind = "del" /\ ok)
                      THEN handlers \ {caller[c].name} ELSE handlers
    BY DEF Finish
  <1>3. RestType /\ caller \in [Callers -> CallerType] /\ SpecOpTypeOK
    BY TypeParts DEF SpecOpInv
  <1>4. caller' = [caller EXCEPT ![c] = k]
    BY <1>3 DEF Finish, FetchValue
  <1>5. spec_op = c /\ \A d \in Callers \ {c} : caller[d].pc \in {"idle", "returned"}
    BY <1>1, <1>3, OneInside
  <1>6. made \in Nat /\ \A d \in Callers : caller[d].op \in Ops \cup {Nil}
    BY <1>3 DEF RestType, CallerType
  <1>7. sop_value \in Ops \cup {Nil}
    BY <1>3 DEF RestType
  <1>8. /\ k \in CallerType /\ k.pc = "returned" /\ k.op = caller[c].op
        /\ k.alone = caller[c].alone /\ k.kind = caller[c].kind /\ k.name = caller[c].name
        /\ k.value \in {sop_value, Nil} /\ k.result = caller[c].result
    BY <1>3, <1>7 DEF CallerType
  <1> HIDE DEF k
  <1>9. RestType'
    BY <1>1, <1>2, <1>3 DEF RestType
  <1>10. SpecOpTypeOK' /\ caller'[c] = k /\ \A d \in Callers \ {c} : caller'[d] = caller[d]
    BY <1>1, <1>3, <1>4, <1>5, <1>8, <1>9, CallerMoves
  <1>11. CallsInv'
    BY <1>1, <1>6, <1>8, <1>10, CallFacts, CallsMove DEF SpecOpInv
  <1>12. PipesInv'
    BY <1>1, <1>8, <1>10 DEF SpecOpInv, PipesInv
  <1>13. AloneInv'
    BY <1>5, <1>8, <1>10 DEF AloneInv, Inside
  <1>14. ResultIsItsOwn'
    <2>1. caller[c].alone => sop_value \in {caller[c].op, Nil}
      BY <1>1 DEF SpecOpInv, AloneInv, Inside
    <2> QED
      BY <1>1, <1>8, <1>10, <2>1 DEF SpecOpInv, ResultIsItsOwn
  <1>15. AgreeInv'
    <2>1. ~abandoned => Quiet /\ Decided(c, caller[c].result)
      BY <1>1 DEF SpecOpInv, AgreeInv
    <2>2. ~abandoned => handlers' = installed
      BY <1>2, <2>1 DEF Decided, Undecided
    <2>3. Quiet' <=> Quiet
      BY <1>1 DEF Quiet
    <2> QED
      BY <1>1, <1>5, <1>8, <1>10, <2>1, <2>2, <2>3 DEF AgreeInv
  <1> QED
    BY <1>10, <1>11, <1>12, <1>13, <1>14, <1>15 DEF SpecOpInv

\* The caller goes its way.
LEMMA ReturnOK ==
  ASSUME SpecOpInv, NEW c \in Callers, Return(c)
  PROVE  SpecOpInv'
  <1>1. /\ caller[c].pc = "returned" /\ caller' = [caller EXCEPT ![c] = CallerIdle]
        /\ UNCHANGED <<handlers, spec_op, sop_status, sop_value, rd, made, abandoned>>
        /\ UNCHANGED <<toEngine, toUs, installed, verdict>>
    BY DEF Return, sopVars, engineVars
  <1>2. RestType /\ caller \in [Callers -> CallerType] /\ SpecOpTypeOK
    BY TypeParts DEF SpecOpInv
  <1>3. spec_op # c /\ spec_op \in Callers \cup {Nil}
    BY <1>1, <1>2 DEF SpecOpTypeOK
  <1>4. made \in Nat /\ \A d \in Callers : caller[d].op \in Ops \cup {Nil}
    BY <1>2 DEF RestType, CallerType
  <1>5. CallerIdle \in CallerType /\ CallerIdle.pc = "idle"
    BY DEF CallerType, CallerIdle
  <1>6. RestType'
    BY <1>1, <1>2 DEF RestType
  <1>7. /\ SpecOpTypeOK' /\ caller'[c] = CallerIdle
        /\ \A d \in Callers \ {c} : caller'[d] = caller[d]
    BY <1>1, <1>2, <1>3, <1>5, <1>6, CallerMoves
  <1>8. CallsInv'
    BY <1>1, <1>4, <1>5, <1>7, CallsMove DEF SpecOpInv
  <1>9. PipesInv'
    BY <1>1, <1>5, <1>7 DEF SpecOpInv, PipesInv
  <1>10. AloneInv'
    BY <1>1, <1>5, <1>7 DEF SpecOpInv, AloneInv, Inside, Quiet, AtEngine, InPipe,
                            AtReader, NoneRead, Cmd
  <1>11. ResultIsItsOwn'
    BY <1>1, <1>5, <1>7 DEF SpecOpInv, ResultIsItsOwn
  <1>12. AgreeInv'
    BY <1>1, <1>5, <1>7 DEF SpecOpInv, AgreeInv, Quiet, Decided, Undecided
  <1> QED
    BY <1>7, <1>8, <1>9, <1>10, <1>11, <1>12 DEF SpecOpInv
-----------------------------------------------------------------------------
(* The readers and the engine.  The callers do not move.                   *)

\* A reader takes an answer out of the pipe.
LEMMA ReadOK ==
  ASSUME SpecOpInv, NEW r \in Readers, ReadAnswer(r)
  PROVE  SpecOpInv'
  <1>1. /\ rd[r] = Nil /\ toUs # <<>> /\ rd' = [rd EXCEPT ![r] = Head(toUs)]
        /\ toUs' = Tail(toUs)
        /\ UNCHANGED <<handlers, spec_op, sop_status, sop_value, caller, made, abandoned>>
        /\ UNCHANGED <<toEngine, installed, verdict>>
    BY DEF ReadAnswer, sopVars
  <1>2. RestType /\ SpecOpTypeOK
    BY TypeParts DEF SpecOpInv
  <1>3. /\ Head(toUs) \in Commands /\ Head(toUs) = toUs[1] /\ 1 \in DOMAIN toUs
        /\ Tail(toUs) \in Seq(Commands)
        /\ \A i \in DOMAIN Tail(toUs) : i + 1 \in DOMAIN toUs /\ Tail(toUs)[i] = toUs[i + 1]
    BY <1>1, <1>2, TailFacts DEF RestType
  <1>4. /\ rd' \in [Readers -> Commands \cup {Nil}] /\ rd'[r] = toUs[1]
        /\ \A q \in Readers \ {r} : rd'[q] = rd[q]
    BY <1>1, <1>2, <1>3 DEF RestType
  <1>5. SpecOpTypeOK'
    <2>1. RestType'
      BY <1>1, <1>2, <1>3, <1>4 DEF RestType
    <2> QED
      BY <1>1, <1>2, <2>1 DEF SpecOpTypeOK, RestType
  <1>6. CallsInv'
    BY <1>1 DEF SpecOpInv, CallsInv
  <1>7. PipesInv'
    BY <1>1, <1>3, <1>4 DEF SpecOpInv, PipesInv
  <1>8. ~Quiet /\ \A c \in Callers : ~AtEngine(c) /\ ~AtReader(c)
    BY <1>1 DEF Quiet, AtEngine, AtReader
  <1>9. AloneInv'
    <2>1. ASSUME NEW c \in Callers, InPipe(c)
          PROVE  AtReader(c)'
      <3>1. toUs = <<Cmd(c)>> /\ toEngine = <<>> /\ NoneRead
        BY <2>1 DEF InPipe
      <3>2. Tail(toUs) = <<>> /\ toUs[1] = Cmd(c)
        BY <3>1
      <3> QED
        BY <1>1, <1>4, <3>1, <3>2 DEF AtReader, NoneRead, Cmd
    <2> QED
      BY <1>1, <1>8, <2>1 DEF SpecOpInv, AloneInv
  <1>10. ResultIsItsOwn'
    BY <1>1 DEF SpecOpInv, ResultIsItsOwn
  <1>11. AgreeInv'
    BY <1>1, <1>8 DEF SpecOpInv, AgreeInv, Decided, Undecided
  <1> QED
    BY <1>5, <1>6, <1>7, <1>9, <1>10, <1>11 DEF SpecOpInv

\* finalize_command() or finalize_param().
LEMMA FinalizeOK ==
  ASSUME SpecOpInv, NEW r \in Readers, Finalize(r)
  PROVE  SpecOpInv'
  <1>1. /\ rd[r] # Nil /\ sop_status' = verdict[rd[r].op]
        /\ sop_value' \in {rd[r].op, sop_value} /\ rd' = [rd EXCEPT ![r] = Nil]
        /\ UNCHANGED <<handlers, spec_op, caller, made, abandoned>>
        /\ UNCHANGED <<toEngine, toUs, installed, verdict>>
    BY DEF Finalize, engineVars
  <1>2. RestType /\ SpecOpTypeOK
    BY TypeParts DEF SpecOpInv
  <1>3. rd[r].op \in Ops /\ verdict[rd[r].op] \in Answered
    BY <1>1, <1>2, PipeFacts DEF SpecOpInv, PipesInv
  <1>4. /\ rd' \in [Readers -> Commands \cup {Nil}] /\ rd'[r] = Nil
        /\ \A q \in Readers \ {r} : rd'[q] = rd[q]
    BY <1>1, <1>2 DEF RestType
  <1>5. SpecOpTypeOK'
    <2>1. RestType'
      BY <1>1, <1>2, <1>3, <1>4 DEF RestType
    <2> QED
      BY <1>1, <1>2, <2>1 DEF SpecOpTypeOK, RestType
  <1>6. CallsInv'
    BY <1>1 DEF SpecOpInv, CallsInv
  <1>7. PipesInv'
    BY <1>1, <1>4 DEF SpecOpInv, PipesInv
  <1>8. ~Quiet /\ \A c \in Callers : ~AtEngine(c) /\ ~InPipe(c)
    BY <1>1 DEF Quiet, AtEngine, InPipe, NoneRead
  <1>9. AloneInv'
    <2>1. ASSUME NEW c \in Callers, AtReader(c)
          PROVE  Quiet' /\ rd[r] = Cmd(c) /\ rd[r].op = caller[c].op
      <3>1. PICK q \in Readers : rd[q] = Cmd(c) /\ \A p \in Readers \ {q} : rd[p] = Nil
        BY <2>1 DEF AtReader
      <3>2. q = r
        BY <1>1, <3>1
      <3>3. toEngine = <<>> /\ toUs = <<>>
        BY <2>1 DEF AtReader
      <3> QED
        BY <1>1, <1>4, <3>1, <3>2, <3>3 DEF Quiet, Cmd
    <2> QED
      BY <1>1, <1>8, <2>1 DEF SpecOpInv, AloneInv, Inside
  <1>10. ResultIsItsOwn'
    BY <1>1 DEF SpecOpInv, ResultIsItsOwn
  <1>11. AgreeInv'
    BY <1>1, <1>8 DEF SpecOpInv, AgreeInv, Decided, Undecided
  <1> QED
    BY <1>5, <1>6, <1>7, <1>9, <1>10, <1>11 DEF SpecOpInv

\* The engine decides about the oldest command.
LEMMA EngineOK ==
  ASSUME SpecOpInv, EngineAnswers
  PROVE  SpecOpInv'
  <1> DEFINE cmd == Head(toEngine)
  <1>1. /\ toEngine # <<>> /\ toEngine' = Tail(toEngine) /\ toUs' = Append(toUs, cmd)
        /\ UNCHANGED <<handlers, spec_op, sop_status, sop_value, caller, rd, made, abandoned>>
    BY DEF EngineAnswers, sopVars
  <1>2. PICK v \in Answered :
          /\ verdict' = [verdict EXCEPT ![cmd.op] = v]
          /\ installed' = IF v = "OK" /\ cmd.kind = "add" THEN installed \cup {cmd.name}
                          ELSE IF v = "OK" /\ cmd.kind = "del" THEN installed \ {cmd.name}
                          ELSE installed
    BY DEF EngineAnswers
  <1>3. RestType /\ SpecOpTypeOK
    BY TypeParts DEF SpecOpInv
  <1>4. /\ cmd \in Commands /\ cmd = toEngine[1] /\ 1 \in DOMAIN toEngine
        /\ Tail(toEngine) \in Seq(Commands) /\ DOMAIN Tail(toEngine) \subseteq Nat \ {0}
        /\ \A i \in DOMAIN Tail(toEngine) :
             i + 1 \in DOMAIN toEngine /\ Tail(toEngine)[i] = toEngine[i + 1]
    BY <1>1, <1>3, TailFacts DEF RestType
  <1>5. cmd.op \in Ops /\ verdict[cmd.op] = "NONE" /\ cmd.op <= made
    BY <1>3, <1>4, PipeFacts DEF SpecOpInv, PipesInv
  <1>6. /\ verdict' \in [Ops -> {"NONE", "OK", "FAIL"}] /\ verdict'[cmd.op] = v
        /\ \A n \in Ops \ {cmd.op} : verdict'[n] = verdict[n]
    BY <1>2, <1>3, <1>5 DEF RestType
  <1>7. /\ Append(toUs, cmd) \in Seq(Commands)
        /\ \A i \in DOMAIN toUs' : toUs'[i] = cmd \/ (i \in DOMAIN toUs /\ toUs'[i] = toUs[i])
    <2>1. toUs \in Seq(Commands)
      BY <1>3 DEF RestType
    <2> QED
      BY <1>1, <1>4, <2>1, AppendFacts
  <1>8. SpecOpTypeOK'
    <2>1. cmd.kind = "add" => cmd.name \in Names
      BY <1>4 DEF SpecOpInv, PipesInv
    <2>2. installed' \subseteq Names
      BY <1>2, <1>3, <2>1 DEF RestType
    <2>3. RestType'
      BY <1>1, <1>3, <1>4, <1>6, <1>7, <2>2 DEF RestType
    <2> QED
      BY <1>1, <1>3, <2>3 DEF SpecOpTypeOK, RestType
  <1> HIDE DEF cmd
  <1>9. CallsInv'
    BY <1>1 DEF SpecOpInv, CallsInv
  <1>10. PipesInv'
    <2>1. \A n \in Ops : n > made' => verdict'[n] = "NONE"
      BY <1>1, <1>3, <1>5, <1>6 DEF SpecOpInv, PipesInv, RestType
    <2>2. \A i \in DOMAIN Tail(toEngine) : Tail(toEngine)[i].op # cmd.op
      BY <1>4 DEF SpecOpInv, PipesInv
    <2>3. \A i \in DOMAIN toEngine' :
            /\ toEngine'[i].op <= made' /\ verdict'[toEngine'[i].op] = "NONE"
            /\ toEngine'[i].kind = "add" => toEngine'[i].name \in Names
      BY <1>1, <1>3, <1>4, <1>6, <2>2, PipeFacts DEF SpecOpInv, PipesInv
    <2>4. \A i, j \in DOMAIN toEngine' : i # j => toEngine'[i].op # toEngine'[j].op
      BY <1>1, <1>4 DEF SpecOpInv, PipesInv
    <2>5. \A i \in DOMAIN toUs' : verdict'[toUs'[i].op] \in Answered
      BY <1>3, <1>5, <1>6, <1>7, PipeFacts DEF SpecOpInv, PipesInv
    <2>6. \A r \in Readers : rd'[r] # Nil => verdict'[rd'[r].op] \in Answered
      BY <1>1, <1>3, <1>5, <1>6, PipeFacts DEF SpecOpInv, PipesInv
    <2>7. \A c \in Callers : caller'[c].pc \in {"locked", "ready", "cleared"} =>
            /\ verdict'[caller'[c].op] = "NONE"
            /\ \A i \in DOMAIN toEngine' : toEngine'[i].op # caller'[c].op
      BY <1>1, <1>4, <1>6, CallFacts DEF SpecOpInv, PipesInv
    <2> QED
      BY <2>1, <2>3, <2>4, <2>5, <2>6, <2>7 DEF PipesInv
  <1>11. ~Quiet /\ \A c \in Callers : ~InPipe(c) /\ ~AtReader(c)
    BY <1>1 DEF Quiet, InPipe, AtReader
  <1>12. ASSUME NEW c \in Callers, AtEngine(c)
         PROVE  InPipe(c)' /\ cmd = Cmd(c)
    <2>1. toEngine = <<Cmd(c)>> /\ toUs = <<>> /\ NoneRead
      BY <1>12 DEF AtEngine
    <2>2. Tail(toEngine) = <<>> /\ cmd = Cmd(c) /\ Append(toUs, cmd) = <<Cmd(c)>>
      BY <1>4, <2>1
    <2> QED
      BY <1>1, <2>1, <2>2 DEF InPipe, NoneRead, Cmd
  <1>13. AloneInv'
    BY <1>1, <1>11, <1>12 DEF SpecOpInv, AloneInv, Inside
  <1>14. ResultIsItsOwn'
    <2>1. ASSUME NEW c \in Callers, caller[c].pc \in {"ended", "returned"},
                 verdict[caller[c].op] \in Answered
          PROVE  verdict'[caller[c].op] = verdict[caller[c].op]
      BY <1>5, <1>6, <2>1, CallFacts
    <2> QED
      BY <1>1, <2>1 DEF SpecOpInv, ResultIsItsOwn
  <1>15. AgreeInv'
    <2>1. ASSUME NEW c \in Callers, ~abandoned, caller[c].pc \in {"sent", "asleep"}
          PROVE  Decided(c, verdict[caller[c].op])'
      <3>1. caller[c].alone /\ Decided(c, verdict[caller[c].op])
        BY <2>1 DEF SpecOpInv, AgreeInv
      <3>2. cmd = Cmd(c)
        BY <1>11, <1>12, <2>1, <3>1 DEF SpecOpInv, AloneInv, Inside
      <3>3. cmd.op = caller[c].op /\ cmd.kind = caller[c].kind /\ cmd.name = caller[c].name
        BY <3>2 DEF Cmd
      <3>4. Undecided(c)
        BY <1>5, <3>1, <3>3 DEF Decided
      <3> QED
        BY <1>1, <1>2, <1>6, <3>3, <3>4 DEF Decided, Undecided
    <2> QED
      BY <1>1, <1>11, <2>1 DEF SpecOpInv, AgreeInv
  <1> QED
    BY <1>8, <1>9, <1>10, <1>13, <1>14, <1>15 DEF SpecOpInv
-----------------------------------------------------------------------------
(* The results.                                                            *)

\* The invariant holds throughout.
LEMMA SpecOpInvariant == Spec => []SpecOpInv
  <1>1. Init => SpecOpInv
    <2> SUFFICES ASSUME Init PROVE SpecOpInv
      OBVIOUS
    <2>1. CallerIdle \in CallerType /\ CallerIdle.pc = "idle"
      BY DEF CallerType, CallerIdle
    <2>2. \A c \in Callers : caller[c].pc = "idle"
      BY <2>1 DEF Init
    <2>3. SpecOpTypeOK
      <3>1. RestType
        <4>1. toEngine \in Seq(Commands) /\ toUs \in Seq(Commands)
          BY DEF Init
        <4>2. rd \in [Readers -> Commands \cup {Nil}]
          BY DEF Init
        <4>3. verdict \in [Ops -> {"NONE", "OK", "FAIL"}]
          BY DEF Init
        <4>4. made \in 0 .. MaxOps
          BY DEF Init
        <4> QED
          BY <4>1, <4>2, <4>3, <4>4 DEF Init, RestType
      <3>2. caller \in [Callers -> CallerType] /\ spec_op = Nil
        BY <2>1 DEF Init
      <3> QED
        BY <2>2, <3>1, <3>2, TypeParts
    <2>4. CallsInv /\ AloneInv /\ ResultIsItsOwn
      BY <2>2 DEF CallsInv, AloneInv, ResultIsItsOwn, Inside
    <2>5. PipesInv
      BY <2>2 DEF PipesInv, Init
    <2>6. AgreeInv
      BY <2>2 DEF AgreeInv, Quiet, Init
    <2> QED
      BY <2>3, <2>4, <2>5, <2>6 DEF SpecOpInv
  <1>2. SpecOpInv /\ [Next]_vars => SpecOpInv'
    <2> SUFFICES ASSUME SpecOpInv, [Next]_vars PROVE SpecOpInv'
      OBVIOUS
    <2>1. ASSUME NEW c \in Callers, BeginWait(c) \/ WakeUp(c) \/ TimeOut(c)
          PROVE  SpecOpInv'
      BY <2>1, SleepOK, TakeOK DEF BeginWait, WakeUp, TimeOut
    <2>2. ASSUME NEW c \in Callers, CallStep(c)
          PROVE  SpecOpInv'
      BY <2>1, <2>2, PrepareOK, ClearOK, WriteOK, FinishOK, ReturnOK DEF CallStep
    <2>3. CASE UNCHANGED vars
      BY <2>3 DEF vars, sopVars, engineVars, SpecOpInv, SpecOpTypeOK, CallsInv, PipesInv,
                  AloneInv, ResultIsItsOwn, AgreeInv, Quiet, AtEngine, InPipe, AtReader,
                  NoneRead, Cmd, Decided, Undecided
    <2> QED
      BY <2>2, <2>3, LockOK, ReadOK, FinalizeOK, EngineOK DEF Next
  <1> QED
    BY <1>1, <1>2, PTL DEF Spec

\* For any number of threads, names and operations: the mutex spec_op is held
\* by the one caller inside an operation and every status and value is in range.
THEOREM SpecOpTypeCorrect == Spec => []SpecOpTypeOK
  <1>1. SpecOpInv => SpecOpTypeOK
    BY DEF SpecOpInv
  <1> QED
    BY <1>1, SpecOpInvariant, PTL

\* An operation that cleared the status (spec_op_init()) when the engine owed no
\* answer is told the answer to that very operation, however many operations
\* timed out before and however late their answers came.
THEOREM OwnResult == Spec => []ResultIsItsOwn
  <1>1. SpecOpInv => ResultIsItsOwn
    BY DEF SpecOpInv
  <1> QED
    BY <1>1, SpecOpInvariant, PTL

\* While no operation has timed out, the handlers in the list are those the
\* engine has whenever no operation is under way.
THEOREM ListsAgree == Spec => []HandlersAgree
  <1>1. SpecOpInv => HandlersAgree
    BY DEF SpecOpInv, AgreeInv, HandlersAgree
  <1> QED
    BY <1>1, SpecOpInvariant, PTL
=============================================================================
