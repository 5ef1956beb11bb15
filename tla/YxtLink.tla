------------------------------ MODULE YxtLink ------------------------------
(***************************************************************************)
(* The link to the Yate engine (lib/yxtlink.c): the work queue and its     *)
(* writer thread, the hashed transaction table, the reader threads that    *)
(* deliver answers and run handlers, and the threads that call             *)
(* yxt_dispatch() and wait for the answer.                                 *)
(*                                                                         *)
(* A call is made by a thread that holds the mutex of a telephone line     *)
(* (call_control.c makes all its calls that way); a handler takes the      *)
(* mutex of the line its message is for while hndlr_mutex is held; a       *)
(* handler may leave work to a dwhook, which the reader runs after it has  *)
(* queued the reply and which may itself call yxt_dispatch().              *)
(*                                                                         *)
(* The engine and the two pipes are external.                              *)
(***************************************************************************)
EXTENDS Integers, Sequences, FiniteSets

CONSTANTS
  Calls,           \* calls of yxt_dispatch() and yxt_enqueue()
  Casts,           \* those of yxt_enqueue(), which wait for no answer
  Events,          \* requests the engine makes of us
  Readers,         \* reader_thread()s (YXT_WORKERS is 5)
  Lines,           \* telephone lines, each with a mutex
  LineOf,          \* the line a call is made for or an event is addressed to
  HookCall,        \* the call an event's dwhook makes, Nil if it makes none
  Number,          \* the transaction number of a call (gen_id())
  TabSize,         \* TRANS_TABLE_SIZE (64 in the code)
  MayFail,         \* whether send_message() can fail
  Nil

ASSUME CallsAssumption == Calls \cap Events = {} /\ Nil \notin Calls \cup Events
ASSUME ShapeAssumption ==
  /\ Casts \subseteq Calls
  /\ LineOf \in [Calls \cup Events -> Lines]
  /\ HookCall \in [Events -> Calls \cup {Nil}]
  /\ \A e, f \in Events : e # f /\ HookCall[e] = HookCall[f] => HookCall[e] = Nil
  /\ Number \in [Calls -> Nat] /\ TabSize \in Nat \ {0} /\ MayFail \in BOOLEAN
ASSUME FiniteAssumption == IsFiniteSet(Calls) /\ IsFiniteSet(Readers)

\* Calls made by threads other than the readers.
ClientCalls == Calls \ {HookCall[e] : e \in Events}

VARIABLES
  queue,           \* ctx->queue: calls and (answers to) events
  work,            \* ctx->work_available
  trtab,           \* ctx->trtab: head of each bucket
  next, prev,      \* the links of a queue block while it is in trtab
  reply,           \* qptr->reply of each call
  sem,             \* qptr->reply_sem
  frees,           \* how often each queue block has been freed
  wr,              \* the writer thread
  rd,              \* the reader threads
  hmx,             \* hndlr_mutex: the reader that holds it, or Nil
  lmx,             \* the line mutexes: the call that holds it, or Nil
  call,            \* how far each call has got
  toEngine,        \* what has been written to the engine
  toUs,            \* the lines the engine has written and no reader has read
  answered,        \* history: the requests the engine has answered
  raised           \* history: the events the engine has raised

tabVars == <<trtab, next, prev>>
blockVars == <<reply, sem, frees>>
pipeVars == <<toEngine, toUs, answered, raised>>
vars == <<queue, work, tabVars, blockVars, wr, rd, hmx, lmx, call, pipeVars>>

Items == Calls \cup Events
IsReply(i) == i \in Events
WantReply(i) == i \in Calls \ Casts
\* Mutant of id2hash(): the number in the id is not found.
id2hash_Zero(c) == 0
id2hash(c) == Number[c] % TabSize

\* The blocks on the chain that starts in bucket b: those in every set that has
\* the head of the bucket and, with a block, the next one.
Chain(b) ==
  LET Closed(S) == /\ trtab[b] \in S \cup {Nil}
                   /\ \A c \in S : next[c] \in S \cup {Nil}
  IN  {c \in Calls : \A S \in SUBSET Calls : Closed(S) => c \in S}
-----------------------------------------------------------------------------
(* The work queue.                                                         *)

enqueue_request(i) == queue' = Append(queue, i)

\* Mutant of enqueue_reply(): the branch for an empty queue is missing.
enqueue_reply_NoElse(i) ==
  queue' = IF queue = <<>> THEN queue ELSE Append(queue, i)

\* Walks over the replies at the head and inserts behind the block it stops at.
enqueue_reply(i) ==
  LET Stops(k) == k = Len(queue) \/ ~IsReply(queue[k]) IN
  \/ queue = <<>> /\ queue' = <<i>>
  \/ \E k \in DOMAIN queue :
       /\ Stops(k) /\ \A j \in 1 .. k - 1 : ~Stops(j)
       /\ queue' = SubSeq(queue, 1, k) \o <<i>> \o SubSeq(queue, k + 1, Len(queue))
-----------------------------------------------------------------------------
(* The transaction table.                                                  *)

\* Pushes the block on its bucket; the old head's prev is not set.
save_transaction(c) ==
  /\ trtab' = [trtab EXCEPT ![id2hash(c)] = c]
  /\ next' = [next EXCEPT ![c] = trtab[id2hash(c)]]
  /\ prev' = [prev EXCEPT ![c] = Nil]

\* Mutant of end_transaction(): the caller is not woken.
end_transaction_NoPost(c) ==
  /\ trtab' = [trtab EXCEPT ![id2hash(c)] = IF prev[c] = Nil THEN next[c] ELSE @]
  /\ UNCHANGED <<next, prev, sem>>

\* Mutant of end_transaction(): the block stays the head of its bucket.
end_transaction_KeepsHead(c) ==
  /\ sem' = [sem EXCEPT ![c] = @ + 1]
  /\ UNCHANGED tabVars

\* A block without prev is taken for the head of its bucket.
end_transaction(c) ==
  /\ trtab' = [trtab EXCEPT ![id2hash(c)] = IF prev[c] = Nil THEN next[c] ELSE @]
  /\ next' = [i \in Calls |-> IF i = c THEN Nil
                              ELSE IF i = prev[c] THEN next[c] ELSE next[i]]
  /\ prev' = [i \in Calls |-> IF i = c THEN Nil
                              ELSE IF i = next[c] THEN prev[c] ELSE prev[i]]
  /\ sem' = [sem EXCEPT ![c] = @ + 1]
-----------------------------------------------------------------------------
(* dispatch_or_enqueue() for a call.                                       *)

\* Called with the line's mutex held: either by a thread of its own, or by a
\* reader that runs a dwhook.
MayCall(c) ==
  \/ c \in ClientCalls
  \/ \E r \in Readers : rd[r].pc = "hook" /\ HookCall[rd[r].msg] = c

LockLine(c) ==
  /\ call[c] = "idle" /\ MayCall(c) /\ lmx[LineOf[c]] = Nil
  /\ lmx' = [lmx EXCEPT ![LineOf[c]] = c]
  /\ call' = [call EXCEPT ![c] = "locked"]
  /\ UNCHANGED <<queue, work, tabVars, blockVars, wr, rd, hmx, pipeVars>>

EnqueueCall(c) ==
  /\ call[c] = "locked"
  /\ enqueue_request(c)
  /\ call' = [call EXCEPT ![c] = "queued"]
  /\ UNCHANGED <<work, tabVars, blockVars, wr, rd, hmx, lmx, pipeVars>>

\* yxt_enqueue() returns as soon as it has posted.
PostWork(c) ==
  /\ call[c] = "queued"
  /\ work' = work + 1
  /\ IF WantReply(c)
       THEN call' = [call EXCEPT ![c] = "waiting"] /\ UNCHANGED lmx
       ELSE /\ call' = [call EXCEPT ![c] = "done"]
            /\ lmx' = [lmx EXCEPT ![LineOf[c]] = Nil]
  /\ UNCHANGED <<queue, tabVars, blockVars, wr, rd, hmx, pipeVars>>

\* sem_wait() returns, the block is freed and the caller unlocks its line.
ReturnCall(c) ==
  /\ call[c] = "waiting" /\ sem[c] > 0
  /\ sem' = [sem EXCEPT ![c] = @ - 1]
  /\ frees' = [frees EXCEPT ![c] = @ + 1]
  /\ call' = [call EXCEPT ![c] = "done"]
  /\ lmx' = [lmx EXCEPT ![LineOf[c]] = Nil]
  /\ UNCHANGED <<queue, work, tabVars, reply, wr, rd, hmx, pipeVars>>
-----------------------------------------------------------------------------
(* writer_thread().                                                        *)

Writer(pc, i) == [pc |-> pc, item |-> i]
WriterWaits == Writer("wait", Nil)

\* sem_wait() and dequeue_one(); an empty queue sends it back to sem_wait().
WriterDequeues ==
  /\ wr.pc = "wait" /\ work > 0 /\ work' = work - 1
  /\ IF queue = <<>>
       THEN UNCHANGED <<queue, wr>>
       ELSE /\ wr' = Writer("save", Head(queue))
            /\ queue' = Tail(queue)
  /\ UNCHANGED <<tabVars, blockVars, rd, hmx, lmx, call, pipeVars>>

WriterSaves ==
  /\ wr.pc = "save"
  /\ IF WantReply(wr.item) THEN save_transaction(wr.item) ELSE UNCHANGED tabVars
  /\ wr' = Writer("send", wr.item)
  /\ UNCHANGED <<queue, work, blockVars, rd, hmx, lmx, call, pipeVars>>

WriterSends ==
  /\ wr.pc = "send"
  /\ \/ toEngine' = toEngine \cup {wr.item} /\ wr' = Writer("sent", wr.item)
     \/ MayFail /\ UNCHANGED toEngine /\ wr' = Writer("failed", wr.item)
  /\ UNCHANGED <<queue, work, tabVars, blockVars, rd, hmx, lmx, call, toUs,
                 answered, raised>>

\* Mutant of WriterFinishes: the transaction is ended although it was sent.
WriterFinishes_AlwaysEnds ==
  /\ wr.pc \in {"sent", "failed"}
  /\ IF WantReply(wr.item)
       THEN end_transaction(wr.item) /\ UNCHANGED frees
       ELSE frees' = [frees EXCEPT ![wr.item] = @ + 1] /\ UNCHANGED <<tabVars, sem>>
  /\ wr' = WriterWaits
  /\ UNCHANGED <<queue, work, reply, rd, hmx, lmx, call, pipeVars>>

\* After the write the block's want_reply is read.  A block that is no
\* transaction is freed here.  A call that was sent may have returned by now:
\* its block is freed memory and the flag read from it is arbitrary.
WriterFinishes ==
  /\ wr.pc \in {"sent", "failed"}
  /\ LET i == wr.item
         FreeIt == frees' = [frees EXCEPT ![i] = @ + 1]
     IN  \/ ~WantReply(i) /\ FreeIt /\ UNCHANGED <<tabVars, sem>>
         \/ WantReply(i) /\ wr.pc = "failed" /\ end_transaction(i) /\ UNCHANGED frees
         \/ WantReply(i) /\ wr.pc = "sent" /\ UNCHANGED <<tabVars, sem, frees>>
         \/ WantReply(i) /\ frees[i] > 0 /\ FreeIt /\ UNCHANGED <<tabVars, sem>>
  /\ wr' = WriterWaits
  /\ UNCHANGED <<queue, work, reply, rd, hmx, lmx, call, pipeVars>>
-----------------------------------------------------------------------------
(* reader_thread().                                                        *)

Reader(pc, m, b) == [pc |-> pc, msg |-> m, block |-> b]
ReaderIdle == Reader("idle", Nil, Nil)
At(r, pc) == rd' = [rd EXCEPT ![r] = Reader(pc, rd[r].msg, Nil)]

\* One line is read under rd_mutex: an event, or the answer to a call.
ReadLine(r) ==
  /\ rd[r].pc = "idle" /\ toUs # <<>>
  /\ rd' = [rd EXCEPT ![r] = Reader(IF Head(toUs) \in Events THEN "event" ELSE "answer",
                                     Head(toUs), Nil)]
  /\ toUs' = Tail(toUs)
  /\ UNCHANGED <<queue, work, tabVars, blockVars, wr, hmx, lmx, call, toEngine,
                 answered, raised>>

\* process_reply(): find_transaction(), and then, in another critical section,
\* the reply is stored and the transaction ended.
find_transaction(r) ==
  /\ rd[r].pc = "answer"
  /\ LET found == {c \in Chain(id2hash(rd[r].msg)) : c = rd[r].msg}
     IN  rd' = [rd EXCEPT ![r] = IF found = {} THEN ReaderIdle
                                 ELSE Reader("found", rd[r].msg, CHOOSE c \in found : TRUE)]
  /\ UNCHANGED <<queue, work, tabVars, blockVars, wr, hmx, lmx, call, pipeVars>>

\* Mutant of StoreReply: the caller is woken before the reply is stored.
StoreReply_WakesFirst(r) ==
  /\ rd[r].pc = "found"
  /\ end_transaction(rd[r].block)
  /\ rd' = [rd EXCEPT ![r] = ReaderIdle]
  /\ UNCHANGED <<queue, work, reply, frees, wr, hmx, lmx, call, pipeVars>>

StoreReply(r) ==
  /\ rd[r].pc = "found"
  /\ reply' = [reply EXCEPT ![rd[r].block] = rd[r].msg]
  /\ end_transaction(rd[r].block)
  /\ rd' = [rd EXCEPT ![r] = ReaderIdle]
  /\ UNCHANGED <<queue, work, frees, wr, hmx, lmx, call, pipeVars>>

\* run_handlers(): hndlr_mutex, the handler (which needs the line), the queued
\* reply, the semaphore, and at last the dwhook.
LockHandlers(r) ==
  /\ rd[r].pc = "event" /\ hmx = Nil
  /\ hmx' = r /\ At(r, "handler")
  /\ UNCHANGED <<queue, work, tabVars, blockVars, wr, lmx, call, pipeVars>>

RunHandler(r) ==
  /\ rd[r].pc = "handler" /\ lmx[LineOf[rd[r].msg]] = Nil
  /\ hmx' = Nil /\ At(r, "handled")
  /\ UNCHANGED <<queue, work, tabVars, blockVars, wr, lmx, call, pipeVars>>

QueueReply(r) ==
  /\ rd[r].pc = "handled"
  /\ enqueue_reply(rd[r].msg) /\ At(r, "queued")
  /\ UNCHANGED <<work, tabVars, blockVars, wr, hmx, lmx, call, pipeVars>>

\* Mutant of PostReply: work_available is not posted.
PostReply_NoPost(r) ==
  /\ rd[r].pc = "queued"
  /\ rd' = [rd EXCEPT ![r] = IF HookCall[rd[r].msg] = Nil THEN ReaderIdle
                              ELSE Reader("hook", rd[r].msg, Nil)]
  /\ UNCHANGED <<queue, work, tabVars, blockVars, wr, hmx, lmx, call, pipeVars>>

PostReply(r) ==
  /\ rd[r].pc = "queued"
  /\ work' = work + 1
  /\ rd' = [rd EXCEPT ![r] = IF HookCall[rd[r].msg] = Nil THEN ReaderIdle
                              ELSE Reader("hook", rd[r].msg, Nil)]
  /\ UNCHANGED <<queue, tabVars, blockVars, wr, hmx, lmx, call, pipeVars>>

HookReturns(r) ==
  /\ rd[r].pc = "hook" /\ call[HookCall[rd[r].msg]] = "done"
  /\ rd' = [rd EXCEPT ![r] = ReaderIdle]
  /\ UNCHANGED <<queue, work, tabVars, blockVars, wr, hmx, lmx, call, pipeVars>>
-----------------------------------------------------------------------------
(* The engine (external).  It answers each request once, in any order, and *)
(* raises each event once.                                                 *)

EngineAnswers(c) ==
  /\ c \in (toEngine \cap Calls) \ answered
  /\ answered' = answered \cup {c} /\ toUs' = Append(toUs, c)
  /\ UNCHANGED <<queue, work, tabVars, blockVars, wr, rd, hmx, lmx, call,
                 toEngine, raised>>

EngineRaises(e) ==
  /\ e \notin raised
  /\ raised' = raised \cup {e} /\ toUs' = Append(toUs, e)
  /\ UNCHANGED <<queue, work, tabVars, blockVars, wr, rd, hmx, lmx, call,
                 toEngine, answered>>
-----------------------------------------------------------------------------
Init ==
  /\ queue = <<>> /\ work = 0
  /\ trtab = [b \in 0 .. TabSize - 1 |-> Nil]
  /\ next = [c \in Calls |-> Nil] /\ prev = next /\ reply = next
  /\ sem = [c \in Calls |-> 0] /\ frees = [i \in Items |-> 0]
  /\ wr = WriterWaits /\ rd = [r \in Readers |-> ReaderIdle]
  /\ hmx = Nil /\ lmx = [l \in Lines |-> Nil]
  /\ call = [c \in Calls |-> "idle"]
  /\ toEngine = {} /\ toUs = <<>> /\ answered = {} /\ raised = {}

CallStep(c) == LockLine(c) \/ EnqueueCall(c) \/ PostWork(c) \/ ReturnCall(c)

WriterStep == WriterDequeues \/ WriterSaves \/ WriterSends \/ WriterFinishes

ReaderStep(r) ==
  \/ ReadLine(r) \/ find_transaction(r) \/ StoreReply(r)
  \/ LockHandlers(r) \/ RunHandler(r) \/ QueueReply(r) \/ PostReply(r) \/ HookReturns(r)

\* Every call has returned and every event has been served.
Finished ==
  /\ \A c \in Calls : call[c] = "done"
  /\ raised = Events /\ rd = [r \in Readers |-> ReaderIdle] /\ toUs = <<>>
  /\ UNCHANGED vars

Next ==
  \/ \E c \in Calls : CallStep(c) \/ EngineAnswers(c)
  \/ WriterStep
  \/ \E r \in Readers : ReaderStep(r)
  \/ \E e \in Events : EngineRaises(e)
  \/ Finished

Spec == Init /\ [][Next]_vars

\* Threads that can run do run and the engine answers what it is asked; nobody
\* has to make a call.  A mutex that becomes free again and again is granted to
\* whoever waits for it (strong fairness of the steps that take one).
FairSpec ==
  /\ Spec /\ WF_vars(WriterStep)
  /\ \A c \in Calls :
       /\ WF_vars(EnqueueCall(c) \/ PostWork(c) \/ ReturnCall(c))
       /\ WF_vars(EngineAnswers(c))
       /\ c \notin ClientCalls => SF_vars(LockLine(c))
  /\ \A r \in Readers :
       WF_vars(ReaderStep(r)) /\ SF_vars(LockHandlers(r)) /\ SF_vars(RunHandler(r))
-----------------------------------------------------------------------------
(* Properties.                                                             *)

CallStates == {"idle", "locked", "queued", "waiting", "done"}
ReaderStates ==
  {"idle", "answer", "found", "event", "handler", "handled", "queued", "hook"}

\* The type invariant: in particular a caller is woken at most once
\* (end_transaction()).  How often a block is freed is FreedOnce's business.
YxtTypeOK ==
  /\ queue \in Seq(Items) /\ work \in Nat
  /\ trtab \in [0 .. TabSize - 1 -> Calls \cup {Nil}]
  /\ next \in [Calls -> Calls \cup {Nil}] /\ prev \in [Calls -> Calls \cup {Nil}]
  /\ reply \in [Calls -> Calls \cup {Nil}]
  /\ sem \in [Calls -> 0 .. 1] /\ frees \in [Items -> Nat]
  /\ wr \in [pc : {"wait", "save", "send", "sent", "failed"}, item : Items \cup {Nil}]
  /\ rd \in [Readers -> [pc : ReaderStates, msg : Items \cup {Nil},
                         block : Calls \cup {Nil}]]
  /\ hmx \in Readers \cup {Nil} /\ lmx \in [Lines -> Calls \cup {Nil}]
  /\ call \in [Calls -> CallStates]
  /\ toEngine \subseteq Items /\ toUs \in Seq(Items)
  /\ answered \subseteq Calls /\ raised \subseteq Events

\* The semaphore work_available counts the queue: the writer never sleeps on a
\* block nobody is about to post, and never wakes for nothing
\* (dispatch_or_enqueue() posts after it has queued; writer_thread()).
WorkIsCounted ==
  Len(queue) = work + Cardinality({c \in Calls : call[c] = "queued"})
                    + Cardinality({r \in Readers : rd[r].pc = "queued"})

\* An answer that some caller waits for is found in the transaction table: what
\* process_reply() discards as "no reply expected" really was not expected.
ExpectedIsFound ==
  \A r \in Readers : rd[r].pc = "answer" /\ WantReply(rd[r].msg)
                     => rd[r].msg \in Chain(id2hash(rd[r].msg))

\* A block that has been freed is out of everybody's reach: it is not queued, it
\* is neither the head of a bucket nor a link of a block in use, and no reader
\* has found it (dispatch_or_enqueue() frees it once end_transaction() has
\* posted).  The writer is the exception, see FreedOnce.
FreedIsForgotten ==
  \A i \in Items : frees[i] > 0 =>
    /\ \A k \in DOMAIN queue : queue[k] # i
    /\ \A b \in DOMAIN trtab : trtab[b] # i
    /\ \A c \in Calls : frees[c] = 0 => next[c] # i /\ prev[c] # i
    /\ \A r \in Readers : rd[r].pc = "found" => rd[r].block # i

\* writer_thread(): "item is freed by waiting dispatch() in case it's a
\* transaction", and by the writer otherwise: nobody frees a block twice.
FreedOnce == \A i \in Items : frees[i] <= 1

\* A call returns at most once, with the answer to that very call, or with none
\* if the request was not sent (process_reply(), dispatch_or_enqueue()).
Promise == INSTANCE Rpc WITH
  Calls <- Calls \ Casts,
  asked <- toEngine \cap (Calls \ Casts),
  answers <- answered \cap (Calls \ Casts),
  result <- [c \in Calls \ Casts |-> IF call[c] = "done" THEN reply[c] ELSE "none"]
ReturnsItsAnswer == Promise!Spec

\* yxt_dispatch(): "send the message to yate and wait for reply".  A message
\* that was queued is answered and the call returns.
DispatchReturns == \A c \in Calls : call[c] = "queued" ~> call[c] = "done"

\* Every request of the engine is answered, unless the write of the answer
\* fails: its block reaches the writer, which frees it (run_handlers()).
EventIsAnswered == \A e \in Events : e \in raised ~> frees[e] = 1
=============================================================================
