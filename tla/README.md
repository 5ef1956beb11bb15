# TLA+ models of dcpsymbiont

dcpsymbiont lets DCP telephones (the proprietary digital sets of an Avaya/Lucent
PBX) be used as lines of a Yate telephony engine. A telephone hangs on an HDLC
channel that a remote box carries over SCTP ("HUA"); the program `symbiont`
terminates the DCP link, turns key presses into call control events and places
or answers calls by exchanging messages with Yate over a pipe. The repository's
own code is `src/symbiont/` (C, plus two C++ Yate modules); DAHDI, Yate, bstrlib
and confuse are vendored and not looked at.

This directory holds the models of that code, the TLC configurations that check
them on small instances, and TLAPS proofs for every value of the constants.
`PROJECT.json` lists runs, mutants, the source lines each definition stands for,
hazards, findings and theorems.

    tlc -config LineAlone.cfg MCLineControl      # one run
    tlapm LineControlProofs.tla                  # one set of proofs

## 1. Inventory

| Component | Source | State | Operations | Modules |
|---|---|---|---|---|
| DCP data link, switch end | `symbiont/dcpmux/dcphdlc.c` | link state, NS/NR, two retry counters, the packet kept for retransmission, a POSIX timer, waiting senders | enable, disable, process a frame, transmit, timeout | DcpLink, DcpLinkProofs, OrderedService |
| DCP multiplexer | `symbiont/dcpmux/dcpmux.c` | worker pool, interface table | ifup, ifdown, send, worker loop, (ifadd, ifdel) | DcpMux, DcpMuxProofs |
| Yate link, messages | `lib/yxtlink.c` | work queue and semaphore, transaction table, handler list, state of the special operation, reader and writer threads | dispatch, enqueue, read a line, run handlers and dwhooks; install and remove handlers, set and get parameters | YxtLink, Rpc, SpecOp, YxtLinkProofs, SpecOpProofs |
| Yate link, text protocol | `lib/yxtlink.c` | none (pure) | escape, unescape, encode, decode | - |
| Line control | `call_control/call_control.c` | eleven-state machine per line, timer, hook, call ids, digits | 6 external calls, 6 kinds of events, 6 engine messages, timeout | LineControl, LineControlProofs, LineLookupProofs |
| Call database | `call_control/global_lookup.c`, `lib/strmap.c` | three maps from ids to lines | update, lookup | LineControl |
| Main program, preselectors | `ccmain.c`, `symbiont.c`, `commands.c` | start-up, console | find the line of a message, start stations, pass on telephone events | LineControl, StationControl |
| Station control | `call_control/station_control.c` | selected line, ring masks, two filters | select a line, pass events on, (filter commands) | StationControl, StationControlProofs |
| HUA transport | `lib/hua.c`, `lib/sigtran.c` | connection, interface table, pool of stream ids | connect, listen, add/drop interface, send, parse | - |
| Timer queue | `lib/tmqueue.c` | sorted doubly linked list | append, unlink, drop, change, expire | - |
| Configuration | `newcfdb/*.c` | tables loaded at start | load, lookup, filter | - |
| MMI transcoding | `mmi_transcode/transcode.c` | none (tables) | commands to DCP bytes and back | - |
| Overlapped dialling | `lib/overlapped.c` | a helper process of Yate | collect digits | - |
| IMT, RSE | `imt/*.cpp`, `rse/*.cpp` | Yate channels, ISUP mangling | Yate module callbacks | - |
| Tools | `symtool`, `cctool`, `dcpmuxtool`, `dcptool` | - | consoles | - |

How they interact:

- `dcpmux_send()` (any thread) and five `dcp_worker()` threads share a link under
  `dcp_mutex`; a sender sleeps on `cansend_cond`; the link's timer starts a
  thread per expiry (SIGEV_THREAD), which then waits for `dcp_mutex`.
- A worker hands data to the MMI decoder, which calls the station. The station
  works under its write lock `sml`, may switch lines first, and gives the event
  to the selected line (`cctl_process_evt()`) after it has released `sml`.
- A line is changed under its mutex `lmx` only, and keeps it while it waits for
  the engine in `yxt_dispatch()`.
- Five reader threads read the engine's pipe. An answer wakes the thread in
  `yxt_dispatch()`; a request runs a handler under `hndlr_mutex`, is answered,
  and may leave a "dwhook" that the reader runs afterwards.
- Special operations run one at a time under the mutex `spec_op`; a reader sets
  their status from an answer that names no operation.
- A preselector looks the line of a message up in the call database (or the
  configuration) without its mutex.

What is hard here: five kinds of threads and timers per line; timers whose
threads arrive late; workers that pass each other; state sampled without a lock;
hooks that run after the line has moved on; readers that wait for threads that
wait for readers; sequence numbers modulo eight; an engine that recycles ids and
answers with or without them. What must hold, component by component:

- link: whoever sends is woken, a link that is up is watched, an acknowledged
  payload has arrived, a dead telephone is noticed;
- multiplexer: payloads arrive in order, at most once;
- Yate link: a call returns once, with its own answer; an event is answered;
- special operations: the result is the engine's answer to this operation; the
  list of handlers is the engine's; the mutex comes back;
- line control: no line is stuck in a state only a timer ends; a line with a
  call can drop it; a line is found by the ids it goes by; a line that dials or
  talks listens to the telephone;
- station control: switching lines, in several steps that may fail, loses no call
  and does nothing to a line that line control does not allow.

## 2. Plan

Models: 1. `DcpLink`; 2. `DcpMux` (composes DcpLink with workers, transport and
telephone; implements `OrderedService` and `DcpLink!Spec`); 3. `YxtLink` (implements
`Rpc`); 4. `LineControl`; 5. `StationControl` (composes LineControl with the
station, the workers and the telephone; implements `LineControl!Spec`);
6. `SpecOp`. Each is done, and each has its proofs: every safety property that a
passing run checks, FreedIsForgotten excepted, is also stated by a theorem (section 6).

What is left: `FreedIsForgotten` as a theorem while no calls share a bucket; `LineIsFound` and
`LineListens` restated for the station, through
`StationImplementsLines`; what can still be said of acknowledgements when two workers
overlap; and the same of `ExpectedIsFound` when calls share a bucket but end in the
reverse order of their saving; and the leaked call and the message for the wrong call
(section 7), which no property states.

## 3. Models

### DcpLink (`dcphdlc.c`)

Variables are the fields of `struct dcp_hdlc_state` under their own names;
`armed` is the POSIX timer, `expired` counts timer threads that have started and
wait for the mutex, `xmt` says where each sender is in `dcp_xmt()`, `toPhone`
holds frames written, `accepted` numbers the payloads. Each function that runs
under `dcp_mutex` is one action; `dcp_xmt()` is split where it sleeps. A write
may fail anywhere. `Spec` lets any frame arrive at any time, so what is shown
holds for any telephone. `NoPkt` is an empty `xpkt`; `Dummy` is the body of a
keepalive.

### DcpMux (`dcpmux.c`) and OrderedService

Adds worker threads (read, sample the state, handle, report, as separate steps
because `handle_hua_pkt()` reads the state outside the mutex), `ifup`/`ifdown`,
the transport with loss and a telephone modelled from what `dcphdlc.c` expects
of it (external): it answers SABM with UA, I-frames with RR, and sends DM when it
has no link. `Budget` bounds how often the environment may act.

### YxtLink (`yxtlink.c`) and Rpc

One step per critical section of `dispatch_or_enqueue()`, `writer_thread()`,
`reader_thread()`, `process_reply()` and `run_handlers()`. Queue blocks carry their
`next`/`prev` links so that the transaction table is the code's linked list. The
engine is external: it answers each request once, in any order. Reading a block
that has been freed yields an arbitrary flag, and `frees` counts how often each block
was given back: `FreedOnce` says at most once (run yxt_free shows that the writer breaks
it), `FreedIsForgotten` that nothing else still leads to a freed block. `Casts` (messages of
`yxt_enqueue()`) are modelled but the instances have none.

### LineControl (`call_control.c`, `global_lookup.c`, preselectors)

A handler is an operator from a "world" (line number, line, call database) to
the set of worlds it may leave, one per outcome of the commands and requests in
it; an action picks one. This keeps the nested calls of the source
(`cctl_disable` > `cctl_hangup_nolock` > `do_hangup` > `call_drop`) as nested
operators, each mapped to its function. Handlers are atomic because the code
holds `lmx` throughout, `yxt_dispatch()` included (that the wait in it ends is a fairness
assumption, section 5). A message takes two or three
steps: the preselector finds the line (`Select`), `cctl_process_msg()` gets the
mutex, and the hook (`RunHook`) gets it again later. `expired` counts late timer
threads as in DcpLink.

Abstracted: displays, lamps, echo and ringing (no line state depends on them);
the wording of requests; digits to their number; ids to small numbers that are
handed out again once nothing refers to them; the hash tables of `strmap.c` to
functions. External: the engine. It is assumed to send `chan.disconnected` with an
`id` and a `lastpeerid` that belong to one call, and any line may receive
`chan.dtmf` (the station's selection is not part of this module). Look-ups made by
another reader in the middle of a handler are not interleaved.

### StationControl (`station_control.c`, event path of `ccmain.c`)

Extends LineControl by the station (`st`: state and selected line), the workers
(`wk`) and the telephone's hook (`phone`, external). A worker with an event takes
`sml` (`st_process_evt`); `handle_selection()` goes on in steps of their own for
each line mutex it takes: `UnselectOld`, `SelectNew`, `FallBack`; `Deliver` is
`cctl_process_evt()` after `sml` was released. Between these steps the readers
(`EngineSends`, `EngineHandled`) and the timers (`TimerFires`, `TimerRuns`) of
LineControl run. What `cctl_select()` and `cctl_unselect()` return is read off the
states before and after (`SelectOk`, `UnselectOk`). A telephone key is an event
with the number of its line. `SpeakerOn`/`SpeakerOff` follow the MMI_CMD_OFFHOOK
and MMI_CMD_ONHOOK a handler sends, so that the telephone's own hook is known.
`MaxStimuli` bounds keys, messages and timeouts together; `MayFail` says whether
selecting a line may fail.

### SpecOp (special operations of `yxtlink.c`)

One step per critical section: `LockSpecOp` (the mutex `spec_op`), `Prepare`
(`insert_handler()`, `find_handler()`), `ClearStatus` (`spec_op_init()`) and
`WriteCommand` (the write, whose result the code ignores), `BeginWait`, `WakeUp` and `TimeOut`
(`spec_op_wait()`), `Finish` (`remove_handler()`, `yxt_get_param()`'s value, unlock).
The caller holds `wr_mutex` over the clearing and the write,
but readers take only `sop_info_mutex` and may set the status in between.
A reader takes an answer and applies it in two steps. Handlers and watchers are
names in a set here (`handlers`) and in the engine (`installed`, external).
Operations carry numbers only so that properties can say whose answer was whose.

## 4. Runs

| Run | Shows | Bounds |
|---|---|---|
| mux_fifo | MuxTypeOK (with the link's TypeOK), AckedIsDelivered, UpIsWatched, NoMissedWakeup, DeadPhoneIsNoticed, AcceptedIsSettled | 1 worker, numbers mod 2, 1 payload, 1 ifup, 1 key, 1 loss, 1 restart or unplugging, 1 frame queued each way |
| mux_pool | DcpMux implements OrderedService (InOrderOnce) and DcpLink (ImplementsLink) although workers pass each other | 2 workers, numbers mod 3, 2 payloads, 1 ifup, 1 ifdown, no losses |
| mux_bringup | violation of BringUpIsRepeated | one lost frame |
| yxt_rpc | YxtTypeOK, WorkIsCounted, ExpectedIsFound, FreedIsForgotten, DispatchReturns, EventIsAnswered, and YxtLink implements Rpc | 3 calls (one made by a dwhook), 1 event, 2 readers, failing writes, 4 buckets |
| yxt_discard | violation of ExpectedIsFound | 2 calls in 1 bucket |
| yxt_free | violation of FreedOnce | 1 call, 2 readers, a bucket of its own |
| yxt_stall | violation of DispatchReturns | 1 call, 2 events, 2 readers |
| line_alone | LineTypeOK, TimedIsWatched, CallCanBeDropped, IdsAreFound, ActiveListens, TimedStateIsLeft | 1 line, 1 reader, 3 channel ids, 2 tracking ids, a 1-digit buffer, 1 late timer thread |
| line_inner | violation of IdsAreFound | 2 lines that call each other |
| station | StationTypeOK, CallSurvivesSwitch, and StationControl implements LineControl | 2 lines, 1 worker, 1 reader, 2 channel ids, 4 stimuli, every selection may fail |
| station_hook | violation of AnswersOffhook | 1 line, 8 stimuli, nothing fails |
| spec_op | SpecOpTypeOK, ResultIsItsOwn, HandlersAgree, OperationReturns | 2 callers, 2 readers, 1 name, 3 operations, failing writes |

Why the bounds are enough: numbers mod 3 tell "last", "this" and "next" apart;
keepalives use numbers too, so they wrap mod 2 with one payload and mod 3 with two. A
retry limit of one has both a retry and
a giving up; two of a kind of thread give every pairwise order; a line has at
most two channels of its own, so the third id is always one it does not know;
a one-digit buffer is full after one digit; three operations allow one that
times out, one that meets its answer and one after both.

Where they are narrow: mux_fifo has one worker and the code a pool of five. Two of its
properties, AckedIsDelivered and AcceptedIsSettled, are claimed for packets handled one
at a time only, and TLC refutes them with two workers (section 7). The other four are
claimed for any pool; the three that are safety properties are proved for it, and
DeadPhoneIsNoticed was explored with two workers on an instance without senders (3.3
million states, no violation). In station, four
stimuli are spent on a connected call and a key with one left, and a connected call uses
up both ids, so the second line seldom has a call of its own: the run shows
little interleaving, and CallsSurvive and StationImplementsLines (section 6) cover the
rest. ImplementsLink and ImplementsLines hold largely because the modules compose the
operators of DcpLink and LineControl; they are there so that what is proved of those
modules carries over. TimedIsWatched catches a line without a timer, not the call the
engine keeps when `provide_dialtone()` fails, and CallCanBeDropped does not cover the
states in which that call is left over.

The limits are CONSTANTS, and the theorems below hold for all of them. The link's
invariants are checked inside the multiplexer and proved for an arbitrary far end in
DcpLinkProofs. Deadlock is not checked where a system with its budget spent may stop (the
DCP compositions, the station, the special operations), nor in yxt_stall, whose
violation is that the threads stop.

### What the violations are

- **mux_bringup**: no timer runs in EXPECT_UA and the timer handler ignores it;
  after a lost UA the link stays there until the telephone sends DM, although
  `dcpmux.h` says the link is brought up periodically.
- **yxt_discard**: `save_transaction()` does not set the old head's `prev`, so
  ending the older of two calls in one bucket also unlinks the newer. With 64
  buckets this takes calls 64 apart in flight together, or two that hash alike.
- **yxt_free**: the writer puts a request on the pipe and then reads `item->want_reply`
  to see whether the block is its own to free. The answer may have come already and
  the caller may have freed the block. The flag is then whatever the memory holds, and
  the block may be freed again.
- **yxt_stall**: readers that hold events can all wait for `hndlr_mutex` and line
  mutexes while the owner of a line waits for an answer that no reader is left to
  read. With five readers it takes five events at once.
- **line_inner**: `call_drop()` removes the party's id from the map of our ids.
  When the party is another line of the station, that line's own entry goes, and
  the engine's messages no longer find it.
- **station_hook**: the handset is lifted as a call comes in; the OFFHOOK sets the
  line's `offhook`; the caller gives up, the line is IDLE, and `state_idle()` ignores
  the ONHOOK that follows. `process_chan_startup()` answers the next call at once,
  with the telephone on hook.

## 5. Fairness

- DCP (`FairMux`): worker threads, timers and the threads they start are scheduled;
  the telephone takes what it is sent and asks for a link when it has none. Nobody
  need send, press a key or operate an interface; only a bounded number of
  frames is lost.
- Yate link (`FairSpec`): every thread that can run does; the engine answers each
  request; a mutex that is free again and again is eventually granted to a waiter
  (strong fairness of the steps that take one: pthread mutexes under a scheduler
  that lets every thread run).
- Line control (`FairSpec`): an armed timer fires (`TimersExpire`) and its thread's
  handler comes to an end (`EngineAnswers`). The second is an assumption about the
  engine: the handler makes requests with the line's mutex held, and the `sem_wait()` of
  `yxt_dispatch()` (yxtlink.c:1644) has no timeout, so an engine that does not answer
  keeps the line in its state for ever. It is what DispatchReturns says of YxtLink,
  which yxt_rpc shows and which yxt_stall shows can fail. The engine need not send
  messages of its own accord, and users need do nothing. COLLECTING is exempt from
  TimedStateIsLeft because each digit restarts its timer.
- Special operations (`FairSpec`): the caller's thread runs and its wait times out.
  Nothing is assumed of the engine's answers or the readers, except that the waits without
  a time limit end: those for `spec_op` (which is shown to come back), for `hndlr_mutex`,
  and for the pipe in `bwrite()`.

## 6. Proofs

`DcpLinkProofs` (any modulus >= 2, limits, senders, bounds):

- `TypeCorrect`: Spec => []TypeOK, inductive as it stands; the counters stay within
  their limits because they are tested after the increment and before the use.
- `Watched`: Spec => []UpIsWatched, by the same induction with TypeOK.
- `Wakeups`: Spec => NoMissedWakeup, an action property: a step after which a sender
  sleeps on a free link found it asleep already, and the link free or waiting for the UA
  that brings it up free without a broadcast (dcphdlc.c:407). Each action either leaves
  no thread asleep, or changes neither the link's freedom nor the sleepers, or leaves
  the link occupied (`WakeFacts`); `SendingOccupies`: a frame sent takes a free link,
  because NS advances and NR stays. It needs TypeOK only, and no sequence number is
  exempt.

`LineControlProofs` (any lines, readers, ids, buffer, late threads):

- `LineTypeCorrect`, `LineWatched`, `LineCanDrop`, `LineListens`: Spec => []LineTypeOK,
  []TimedIsWatched, []CallCanBeDropped and []ActiveListens.
- The inductive invariant `LineInv` strengthens these in two places. `SlInv` adds
  that a held call has a party and that DIALTONE and COLLECTING occur on outgoing
  calls only: without the first, a pickup could end in a call that cannot be
  dropped; without the second, neither could the call a number is dialled on.
  `RdInv` says what a reader carries between steps.
- The argument follows the code's nesting. Lemmas describe what each helper
  leaves alone; `HandlerOK(v, w)` says that a handler that turns w into v either
  leaves the line watched or leaves state and timer alone, and keeps `SlInv`; one
  lemma per handler establishes it; `BecomesOK` lifts it to the whole state. The
  timer thread needs more: it uses up what watched the line, so `TimerOK` shows
  that it leaves a watched line behind.

`StationControlProofs` (any lines, workers, readers, stimuli; the run `station`
has one worker):

- `StationTypeCorrect`: StationSpec => []StationTypeOK, inductive as it stands.
  `WorkerOK` is what it says of one worker; each step moves one worker and leaves
  it `WorkerOK`. Its content is that a worker with sml, or past it, has the lines
  it goes on to, also when the target is looked up anew or the switch fails.
- `StationImplementsLines`: StationSpec => LineControl!Spec, by step simulation.
  Deselecting, selecting and the fallback are calls of the kind `External`
  allows, a delivered event is a `PhoneEvent`, the timer and the readers take
  their own steps, and everything else leaves the lines alone. The type invariant
  is needed for the line a worker goes to. So `LineWatched` and `LineCanDrop`
  hold of the lines of any telephone.
- `CallsSurvive`: StationSpec => CallSurvivesSwitch, from LineInv (through
  `StationImplementsLines`) and the type invariant. `KeepsCall(v, w)` says that
  a handler keeps the call of w; it holds of `hold()` and `pickup_held()`
  whether or not they succeed, hence of every call a switch makes and of every
  event but DROP and ONHOOK.

`LineLookupProofs` (any lines, readers, ids, late threads):

- `LineIsFound`: Spec /\ []NoInnerCalls => []IdsAreFound. IdsAreFound is inductive
  with LineInv once handlers cannot reach each other's entries: `Good(l)` is the set
  of worlds in which every line is found and line l goes by ids of its own; each
  operator and each handler leads from Good(l) to Good(l), because ids handed out
  are fresh and those a message carries are the line's. `NoInnerCalls` says that no
  two lines have an id in common, ids on their way in messages included; run
  line_inner is what happens without it. Tracking ids need no condition.
- `OnlyLineIsFound`: for one line the condition holds by itself.

`DcpMuxProofs` (any workers, senders, modulus >= 2, limits, budgets):

- `MuxTypeCorrect`: MuxSpec => []MuxTypeOK, with the link's TypeOK.
- `MuxImplementsLink`: MuxSpec => DcpLink!Spec, by step simulation: what a worker
  hands to `dcp_handle_data()` is a frame, whatever was queued, lost or passed by.
  `MuxLinkIsWatched` carries `Watched` and `Wakeups` over to the multiplexer.
- `Acknowledged`: MuxSpec /\ []OneAtATime => []AckedIsDelivered. OneAtATime: at most
  one worker is between reading a packet and handling it; the workers' number is
  not limited. It is what the code relies on and does not enforce (section 7).
  The invariant `SessionInv` has two parts. `AfterSabm` says that in EXPECT_UA nothing
  is written behind the SABM and the numbers are fresh; `InSync` relates, in a clean
  session, our number, the telephone's `vr`, the frames to it and the RRs from it: an
  RR that would acknowledge the outstanding frame exists only after the telephone
  took it.
- `OrderedOnce`: MuxSpec /\ SabmIsKept => OrderedService!Spec, with any number of
  workers that pass each other. `StreamInv` describes all that the telephone is still to
  see as one stream (frames under way, then the frame `resend_iframe()` would write):
  per session the numbers of its I-frames step by one with each new payload, and
  payloads never go back. SabmIsKept: the transport loses frames, but no SABM.
  Without it the theorem is false (section 7); run mux_pool has no losses.

`YxtLinkProofs` (any finite sets of calls and readers, any events, casts, table size):

- `YxtTypeCorrect`: Spec => []YxtTypeOK, which puts no bound on `frees`;
  `CallsKeepPromise`: Spec => Rpc!Spec.
  Both rest on `YxtInv`. A call's block is in one place at a time: queued, with the
  writer, written and waited for, or with one reader; before its answer is stored it
  carries no reply and has woken nobody. `Single` keeps two holders of one block
  apart. So no reader can store an answer in another call's block or end a
  transaction twice, also when calls share a bucket and the list is damaged:
  lookups compare the id.
- `WorkCounted`: Spec => []WorkIsCounted, by counting the threads between queueing and
  posting (the set of them changes by one element per step).
- `ExpectedFound`: Spec /\ []NoSharing => []ExpectedIsFound. NoSharing: no two calls in
  progress are in one bucket. Then a saved transaction is the head of its bucket
  (`AtHead`) and the lookup succeeds. Ids are consecutive, so with 64 buckets the
  condition is that a call ends before the 64th after it is made. Run yxt_discard
  is what happens without it.

`SpecOpProofs` (any callers, readers, names, operations):

- `SpecOpTypeCorrect`, `OwnResult`, `ListsAgree`: Spec => []SpecOpTypeOK,
  []ResultIsItsOwn, []HandlersAgree. `SpecOpInv` says, for the caller inside the
  mutex and by cases on its step, where the one command or answer it is owed is: in
  the pipe to the engine, in the pipe back, with a reader, or stored; and that
  an operation that cleared the status when nothing was owed meets no other answer,
  also between the clearing and the write.

Assumptions: only the named ASSUMEs on constants in DcpLink, DcpMux, YxtLink,
LineControl, StationControl and SpecOp; of these, `FiniteAssumption` (a process has
finitely many threads) is used for counting only. Four theorems have a
hypothesis on the behaviour, which they name: OneAtATime, SabmIsKept, NoSharing,
NoInnerCalls. Each is needed: a run or an observation below shows the
property violated without it.

Model-checked only: FreedIsForgotten, and all liveness properties (DeadPhoneIsNoticed,
AcceptedIsSettled,
DispatchReturns, EventIsAnswered, TimedStateIsLeft, OperationReturns; and
BringUpIsRepeated, DispatchReturns and AnswersOffhook in the violation runs). Liveness
under fairness is beyond the prover.

## 7. Observations

Met while modelling; no run is attached.

DCP link
- UA frees the link without a broadcast (dcphdlc.c:407, compare 431): a sender
  left from the previous link sleeps until it times out. NoMissedWakeup allows this step
  and no other.
- The data of an I-frame that is logged "disregarded" before UA is still delivered
  (dcphdlc.c:209, 518); it is not acknowledged, so it comes again.
- `remote_ns` is reset to 0, not 7: the first I-frames carry NR 1.
- UA is not matched to its SABM; AckedIsDelivered is stated for sessions that
  start without leftovers (`Settled`).
- A failed write is reported to the caller of `dcp_xmt()` although the frame is
  sent again later. DCPMUX_TRANSPORT_DOWN is never reported (dcpmux.h:48), and an
  UP report is lost when the state was sampled before a restart.
- The wait in `dcp_xmt()` starts its timeout anew after each wakeup.
- A lost SABM can duplicate a payload. The interface goes down and up again; the new
  SABM is lost, and a UA left over from an earlier one brings the link up although the
  telephone has not started anew. A stale RR then makes the switch repeat the packet
  it still keeps, under number SeqMod - 1 (the reset value). If that is the number the
  telephone expects, it takes the payload a second time. TLC finds this with one
  worker, modulus 2, four interface operations and one loss; hence SabmIsKept in
  `OrderedOnce`.
- Two workers that pass each other defeat more than order. A stale RR handled late
  breaks AckedIsDelivered. A frame of an earlier session that is handled after the
  next UA (dcpmux.c:209) acknowledges what was never sent; the timer thread then
  takes the branch of a retransmission, `resend_iframe()` has no packet, and no
  timer is set, so a telephone that goes dead then is never noticed. DeadPhoneIsNoticed
  and UpIsWatched leave out a link that has sent no I-frame. Where the packet is
  there, DeadPhoneIsNoticed is stated for any pool; with two workers TLC found no violation in
  3.3 million states of an instance without senders, and the full one is too large to
  keep as a run.
- `dcpmux_ifadd()` does not return the stream id of an interface that is already
  configured. `dcpmux_ifdel()` may free a link a worker has just looked up; only
  the console of dcpmuxtool calls it.

Yate link
- `enqueue_reply()` puts a second reply before the first when a request heads the
  queue (yxtlink.c:1561, 1575).
- A block that is freed can stay linked when calls share a bucket: the newer block's
  `next` still names the older one after that has ended. FreedIsForgotten is checked
  with a bucket for each call.
- Answers to special operations name no operation. One that comes after the
  timeout sets `sop_status` even as "spurious command response"; `spec_op_init()`
  of the next operation clears it, but an answer that comes still later is taken for
  the next operation's, also one that comes between `spec_op_init()` and the write: then
  the operation returns without waiting for the engine. ResultIsItsOwn is stated for
  operations that cleared the status when nothing was owed, HandlersAgree until
  an operation was given up.
- `yxt_disconnect()` removes the first handler in a loop: an engine that refuses keeps
  it there.

Line control
- `call_drop()` leaves the party in the party map; `process_chan_hangup()` compares
  no id, so a late hangup of an old party ends a later held call.
  `process_chan_disconnect()` compares none either.
- `provide_dialtone()` may fail after its call was made; through `cctl_select()` the
  line is then IDLE with a call the engine still holds. No property states this.
- A message that was looked up for a line reaches it although the line is in
  another call by then; IdsAreFound speaks of the maps only.
- Any reply to call.execute counts as success, also one without an id, or with a
  `peerid` only (`PartyGiven`): the line then has a party and no channel of its own.
- ONHOOK is dropped while a line is unselected and ignored in IDLE, so `sl->offhook`
  goes stale (station_hook).
- `answer_ringing()` selects its line whatever the station has selected.
- `digits[]` has no room for a NUL when it is full.
- `lookup_cdb()` asserts when only one of id and lastpeerid is present.

Station control
- Two lines can be CONNECTED and selected at once: a held line is picked up, the
  other line's key is pressed before chan.startup, and then chan.startup arrives.
- While the selected line is in RING, SIT, DROP or INCOMING the key of another line is
  refused: `cctl_unselect()` fails in these states.
- `handle_selection()` reads `sl->selected` and `sl->state` without the line's mutex; a
  `defselect` that names a missing line ends in the assert of `cctl_select()`.
- `filter_command()` computes the ring command under `rmask_mx` and sends it after
  unlocking.

## 8. Not modelled

- SCTP sockets, pipes, the console and the tools: I/O.
- Start-up and configuration loading, apart from the order in which a station and
  its lines are put into service: run once, single-threaded.
- The interface table and the pool of stream ids of `hua.c`, with `dcpmux_ifadd()` and
  `dcpmux_ifdel()`: the main program fills the table at start-up and removes nothing.
- Byte-level conversion (MMI transcoding, the Yate text protocol, the string matcher
  of `filter.c`): pure, without state, and nothing above depends on it.
- Ringer masks, lamps, displays, and the dcp.event and dcp.command filters of a
  station: no line and no selection depends on them.
- `yxt_disconnect()`, called by symtool only, and the catch-all handler, set before
  the link is used.
- `tmqueue.c`, which no program uses; `overlapped.c`, a separate helper program.
- The IMT and RSE modules, which live in the engine, and the engine itself (external);
  vendored code.

Real time is not modelled: a timer may fire at any moment after it was set.
