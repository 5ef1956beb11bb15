---------------------------- MODULE LineControl ----------------------------
(***************************************************************************)
(* Call control of telephone lines (call_control/call_control.c), the call *)
(* database (global_lookup.c, lib/strmap.c) and the message preselectors   *)
(* (ccmain.c).                                                             *)
(*                                                                         *)
(* A line is changed under its mutex only, and the mutex is kept while the *)
(* line waits for the engine, so a handler is one action.  A handler is    *)
(* written as an operator on a "world" w: the line's number w.l, its       *)
(* struct symline w.sl and the call database w.cdb.  It returns the world  *)
(* it leaves behind or, when commands or requests in it may fail, the set  *)
(* of worlds it may leave behind.                                          *)
(*                                                                         *)
(* A reader thread looks a message's line up before it has the line's      *)
(* mutex, and leaves most of the work to a dwhook that takes the mutex     *)
(* again: the line may have moved on in between.  Displays, lamps, echo    *)
(* and the wording of requests are left out.                               *)
(***************************************************************************)
EXTENDS Integers

CONSTANTS
  Lines,           \* the lines (struct symline)
  Readers,         \* the reader threads of the Yate link
  MaxChans,        \* bound: channel ids referred to at a time
  MaxTracks,       \* bound: tracking ids referred to at a time
  MaxDigits,       \* MAX_NUMBER_LENGTH
  PadOffhook,      \* sl->pad_offhook
  MaxExpired,      \* bound: timer threads of a line that wait for its mutex
  Nil

Chans == 1 .. MaxChans
Tracks == 1 .. MaxTracks

ASSUME LinesAssumption == Nil \notin Lines /\ Nil \notin Chans /\ Nil \notin Tracks
ASSUME LineBoundsAssumption ==
  /\ MaxChans \in Nat /\ MaxTracks \in Nat /\ MaxExpired \in Nat
  /\ MaxDigits \in Nat \ {0} /\ PadOffhook \in BOOLEAN

VARIABLES
  line,            \* struct symline of each line, its timer included
  cdb,             \* the three maps of the call database
  expired,         \* line_tmr_hndlr() threads started, not past mutex_lock()
  rd               \* what each reader thread is doing

vars == <<line, cdb, expired, rd>>

LineStates == {"DISABLED", "IDLE", "DIALTONE", "COLLECTING", "CALLING", "CONNECTED",
               "HOLD", "SIT", "INCOMING", "RING", "DROP"}

\* The messages the preselectors are installed for.
Messages == {"chan.dtmf", "call.answered", "call.execute", "chan.disconnected",
             "chan.hangup", "chan.startup"}
Texts == {"digit", "digit#", "#"}    \* what a chan.dtmf carries
ReaderIdle == [pc |-> "idle", msg |-> Nil, line |-> Nil, id |-> Nil, text |-> Nil]

World(l) == [l |-> l, sl |-> line[l], cdb |-> cdb]

\* The state and timer a handler leaves the line with (reset_timer()).
Enter(w, state, armed) == [w EXCEPT !.sl.state = state, !.sl.armed = armed]
-----------------------------------------------------------------------------
(* Ids and the call database.                                              *)

\* update_cdb(): sm_put() with a line enters the id, with NULL removes it,
\* whichever line had entered it.
update_cdb(w, map, id, l) == [w EXCEPT !.cdb[map][id] = l]

\* An id of the line is dropped together with its entry, or set with it.
Forget(w, map) ==
  IF w.sl[map] = Nil THEN w
  ELSE [update_cdb(w, map, w.sl[map], Nil) EXCEPT !.sl[map] = Nil]
Remember(w, map, id) == [update_cdb(w, map, id, w.l) EXCEPT !.sl[map] = id]

\* Ids nothing refers to: what the engine or uuid_generate() hands out next.
FreshChans ==
  {c \in Chans : /\ cdb.our[c] = Nil /\ cdb.party[c] = Nil
                 /\ \A l \in Lines : line[l].our # c /\ line[l].party # c
                 /\ \A r \in Readers : rd[r].id # c}
FreshTracks == {t \in Tracks : cdb.track[t] = Nil /\ \A l \in Lines : line[l].track # t}
Lowest(S) == {x \in S : \A y \in S : x <= y}

new_calltrack(w) == {Remember(Forget(w, "track"), "track", t) : t \in Lowest(FreshTracks)}
-----------------------------------------------------------------------------
(* Requests to the engine.                                                 *)

\* The id call.drop is sent with.
Droppable(sl) == IF sl.outgoing THEN sl.our # Nil ELSE sl.party # Nil

\* The party's id is removed from the map of our ids (CDB_ID_OUR).
call_drop(w) ==
  IF ~Droppable(w.sl) THEN w
  ELSE LET a == Forget(w, "our")
           b == IF a.sl.party = Nil THEN a
                ELSE [update_cdb(a, "our", a.sl.party, Nil) EXCEPT !.sl.party = Nil]
       IN  Forget(b, "track")

\* An outcome: whether the function returned SYM_OK, and the world it left.
Ok(w) == [ok |-> TRUE, w |-> w]
Failed(w) == [ok |-> FALSE, w |-> w]

\* Any reply to call.execute counts as success; it may carry the id of our
\* channel, that of the peer, both or neither.
NextChan == Lowest(FreshChans)
ChanAfter == Lowest(FreshChans \ NextChan)
OurGiven(w) == {Remember(w, "our", c) : c \in NextChan}
BothGiven(w) == {Remember(v, "party", c) : v \in OurGiven(w), c \in ChanAfter}
PartyGiven(w) == {Remember(w, "party", c) : c \in NextChan}
Replied(w) ==
  LET o == [w EXCEPT !.sl.outgoing = TRUE]
  IN  {o} \cup OurGiven(o) \cup PartyGiven(o) \cup BothGiven(o)

out_call_exec(w) ==
  LET asked == new_calltrack(Forget(Forget(w, "our"), "party"))
  IN  {Failed(v) : v \in asked} \cup {Ok(v) : v \in UNION {Replied(a) : a \in asked}}
-----------------------------------------------------------------------------
(* State change helpers.                                                   *)

\* Commands to the telephone may fail before the call, before the off-hook
\* and, at the end, after the call has been made.
provide_dialtone(w) ==
  LET selected == [w EXCEPT !.sl.selected = TRUE]
      calls == out_call_exec([selected EXCEPT !.sl.offhook = TRUE])
  IN  {Failed(w)} \cup (IF w.sl.offhook THEN {} ELSE {Failed(selected)})
        \cup calls \cup {Failed(o.w) : o \in calls}

do_hangup(w, force_onhook) ==
  LET d == call_drop(w)
  IN  IF force_onhook THEN [d EXCEPT !.sl.offhook = FALSE] ELSE d

\* Mutant of enter_sit(): the timer is not set.
enter_sit_NoTimer(w) == Enter(w, "SIT", w.sl.armed)

enter_sit(w) == Enter(w, "SIT", TRUE)
enter_drop(w) == Enter(do_hangup(w, FALSE), "DROP", TRUE)
enter_dialtone(w) == Enter([w EXCEPT !.sl.digits = 0], "DIALTONE", TRUE)
enter_dialtone_or_sit(w) ==
  {IF o.ok THEN enter_dialtone(o.w) ELSE enter_sit(o.w) : o \in provide_dialtone(w)}

cease_ringing(w) == Enter(call_drop(w), "IDLE", w.sl.armed)

\* routed_call() and out_call_replace(): CALLING if there is a route and the
\* call is replaced, which takes a channel of ours; otherwise enter_sit().
routed_call(w) ==
  {enter_sit(w)}
    \cup (IF w.sl.our = Nil THEN {} ELSE {Enter(w, "CALLING", w.sl.armed)})

\* Mutant of answer_ringing(): the line is not selected.
answer_ringing_Deaf(w) == Enter(w, "CONNECTED", FALSE)

answer_ringing(w) == Enter([w EXCEPT !.sl.selected = TRUE], "CONNECTED", FALSE)

\* transfer_party() to music, then enter_hold(); fails without a party.
hold(w) ==
  {w} \cup (IF w.sl.party = Nil THEN {}
            ELSE {Enter([w EXCEPT !.sl.selected = FALSE], "HOLD", w.sl.armed)})

\* pickup_held(): the line stays in HOLD until the engine's chan.startup.
pickup_held(w) == [w EXCEPT !.sl.offhook = TRUE, !.sl.selected = TRUE]

\* Mutant of add_digits(): the space that is left is not looked at.
add_digits_NoLimit(sl, n) == [sl EXCEPT !.digits = @ + n]

add_digits(sl, n) == [sl EXCEPT !.digits = IF @ + n > MaxDigits THEN MaxDigits ELSE @ + n]
-----------------------------------------------------------------------------
(* External calls (the console and the station's line selection).          *)

cctl_hangup_nolock(w) ==
  CASE w.sl.state \in {"DISABLED", "IDLE"} -> w
    [] w.sl.state = "HOLD" ->
         Enter(do_hangup([w EXCEPT !.sl.outgoing = FALSE], TRUE), "IDLE", FALSE)
    [] w.sl.state = "INCOMING" -> Enter(call_drop(w), "IDLE", TRUE)
    [] w.sl.state = "RING" -> cease_ringing(w)
    [] OTHER -> Enter(do_hangup(w, TRUE), "IDLE", FALSE)

cctl_enable(w) ==
  IF w.sl.state # "DISABLED" THEN {w}
  ELSE {Enter([w EXCEPT !.sl.selected = FALSE, !.sl.offhook = FALSE], "IDLE", FALSE)}

cctl_disable(w) ==
  LET h == cctl_hangup_nolock(w)
  IN  {Enter([h EXCEPT !.sl.selected = FALSE], "DISABLED", h.sl.armed)}

cctl_select(w) ==
  CASE w.sl.state = "IDLE" ->
         {IF o.ok THEN enter_dialtone(o.w) ELSE o.w : o \in provide_dialtone(w)}
    [] w.sl.state = "HOLD" -> {pickup_held(w)}
    [] w.sl.state = "RING" ->
         {answer_ringing([w EXCEPT !.sl.offhook = TRUE])}
           \cup (IF w.sl.offhook THEN {} ELSE {w})
    [] OTHER -> {w}

cctl_hold(w) == IF w.sl.state = "CONNECTED" THEN hold(w) ELSE {w}

\* Mutant of cctl_unselect(): a call is hung up instead of being held.
cctl_unselect_HangsUp(w) ==
  CASE w.sl.state \in {"DISABLED", "IDLE", "HOLD"} -> {[w EXCEPT !.sl.selected = FALSE]}
    [] w.sl.state \in {"DIALTONE", "COLLECTING", "CALLING", "CONNECTED"} ->
         {[cctl_hangup_nolock(w) EXCEPT !.sl.selected = FALSE]}
    [] OTHER -> {w}

cctl_unselect(w) ==
  CASE w.sl.state \in {"DISABLED", "IDLE", "HOLD"} -> {[w EXCEPT !.sl.selected = FALSE]}
    [] w.sl.state \in {"DIALTONE", "COLLECTING", "CALLING"} ->
         {[cctl_hangup_nolock(w) EXCEPT !.sl.selected = FALSE]}
    [] OTHER -> cctl_hold(w)

cctl_hangup(w) == {cctl_hangup_nolock(w)}
-----------------------------------------------------------------------------
(* Events from the telephone: cctl_process_evt().                          *)

LineEvents == {"blf", "pad", "drop", "hold", "offhook", "onhook"}

state_idle(w, evt) ==
  CASE evt = "blf" -> enter_dialtone_or_sit(w)
    [] evt = "offhook" -> enter_dialtone_or_sit([w EXCEPT !.sl.offhook = TRUE])
    [] evt = "pad" /\ PadOffhook ->
         {IF o.ok
            THEN Enter([o.w EXCEPT !.sl = add_digits([@ EXCEPT !.digits = 0], 1)],
                       "COLLECTING", TRUE)
            ELSE enter_sit(o.w) : o \in provide_dialtone(w)}
    [] OTHER -> {w}

state_hold(w, evt) ==
  CASE evt \in {"blf", "offhook"} -> {pickup_held(w)}
    [] evt = "onhook" -> {[w EXCEPT !.sl.offhook = FALSE]}
    [] OTHER -> {w}

\* state_dialtone(), state_collect(), state_sit(), state_calling(): the timer
\* is left running.
state_dropped_or_onhook(w, evt) ==
  CASE evt = "drop" -> {enter_drop(w)}
    [] evt = "onhook" -> {Enter(do_hangup(w, TRUE), "IDLE", w.sl.armed)}
    [] OTHER -> {w}

state_connected(w, evt) ==
  IF evt = "hold" THEN hold(w) ELSE state_dropped_or_onhook(w, evt)

state_drop(w, evt) ==
  IF evt = "onhook" THEN {Enter([w EXCEPT !.sl.offhook = FALSE], "IDLE", FALSE)} ELSE {w}

state_incoming(w, evt) ==
  IF evt \in {"offhook", "onhook"} THEN {[w EXCEPT !.sl.offhook = (evt = "offhook")]} ELSE {w}

state_ring(w, evt) ==
  CASE evt = "drop" -> {cease_ringing(w)}
    [] evt = "offhook" -> {answer_ringing([w EXCEPT !.sl.offhook = TRUE])}
    [] evt = "blf" -> {answer_ringing([w EXCEPT !.sl.offhook = TRUE])}
                        \cup (IF w.sl.offhook THEN {} ELSE {w})
    [] OTHER -> {w}

cctl_process_evt(w, evt) ==
  CASE ~w.sl.selected \/ w.sl.state = "DISABLED" -> {w}
    [] w.sl.selected /\ w.sl.state = "IDLE" -> state_idle(w, evt)
    [] w.sl.selected /\ w.sl.state \in {"DIALTONE", "COLLECTING", "SIT", "CALLING"} ->
         state_dropped_or_onhook(w, evt)
    [] w.sl.selected /\ w.sl.state = "CONNECTED" -> state_connected(w, evt)
    [] w.sl.selected /\ w.sl.state = "HOLD" -> state_hold(w, evt)
    [] w.sl.selected /\ w.sl.state = "INCOMING" -> state_incoming(w, evt)
    [] w.sl.selected /\ w.sl.state = "RING" -> state_ring(w, evt)
    [] w.sl.selected /\ w.sl.state = "DROP" -> state_drop(w, evt)
-----------------------------------------------------------------------------
(* The line's timer.                                                       *)

\* Mutant of TimerActs: only a seized line is cleared.
TimerActs_NotSit(w) == IF w.sl.state = "INCOMING" THEN {Enter(call_drop(w), "IDLE", FALSE)}
                       ELSE {w}

\* What line_tmr_hndlr() does when the timer has not been set again.
TimerActs(w) ==
  CASE w.sl.state \in {"DIALTONE", "COLLECTING"} ->
         IF w.sl.digits > 0 THEN routed_call(w) ELSE {enter_sit(w)}
    [] w.sl.state = "DROP" ->
         IF w.sl.offhook
           THEN {IF o.ok THEN enter_dialtone(o.w) ELSE Enter(o.w, "IDLE", o.w.sl.armed)
                   : o \in provide_dialtone(w)}
           ELSE {Enter(w, "IDLE", FALSE)}
    [] w.sl.state \in {"INCOMING", "SIT"} -> {Enter(do_hangup(w, TRUE), "IDLE", FALSE)}
    [] OTHER -> {w}
-----------------------------------------------------------------------------
(* Messages from the engine.                                               *)

\* Mutant of process_call_execute(): the direction of the last call is kept.
process_call_execute_NoReset(w, id) ==
  IF w.sl.state # "IDLE" THEN {w}
  ELSE {Enter(t, "INCOMING", TRUE) : t \in new_calltrack(Remember(w, "party", id))}

process_call_execute(w, id) ==
  IF w.sl.state # "IDLE" THEN {w}
  ELSE {Enter(t, "INCOMING", TRUE) :
          t \in new_calltrack(Remember([w EXCEPT !.sl.outgoing = FALSE], "party", id))}

\* Mutant of process_call_answered(): the new party is not entered.
process_call_answered_NoPut(w, id) ==
  IF w.sl.state # "CALLING" THEN w
  ELSE Enter(IF id = Nil THEN w ELSE [Forget(w, "party") EXCEPT !.sl.party = id],
             "CONNECTED", TRUE)

process_call_answered(w, id) ==
  IF w.sl.state # "CALLING" THEN w
  ELSE Enter(IF id = Nil THEN w ELSE Remember(Forget(w, "party"), "party", id),
             "CONNECTED", TRUE)

preprocess_chan_startup(w, id) ==
  IF w.sl.state \in {"INCOMING", "HOLD"} THEN Remember(Forget(w, "our"), "our", id) ELSE w

process_chan_startup(w) ==
  IF w.sl.state \notin {"INCOMING", "HOLD"} THEN {w}
  ELSE IF w.sl.offhook THEN {answer_ringing(w)} ELSE {Enter(w, "RING", FALSE)}

\* A '#' at the end completes the number.
process_chan_dtmf(w, text) ==
  IF w.sl.state \notin {"DIALTONE", "COLLECTING"} THEN {w}
  ELSE LET c == Enter([w EXCEPT !.sl = add_digits(@, IF text = "#" THEN 0 ELSE 1)],
                      "COLLECTING", TRUE)
       IN  IF text # "digit" /\ c.sl.digits > 0
             THEN routed_call([c EXCEPT !.sl.armed = FALSE]) ELSE {c}

process_chan_disconnect(w, id) ==
  LET v == IF w.sl.our = Nil THEN Remember(w, "our", id) ELSE w
  IN  CASE v.sl.state \in {"CALLING", "CONNECTED"} -> {enter_sit(o.w) : o \in out_call_exec(v)}
        [] v.sl.state = "INCOMING" -> {Enter(v, "IDLE", FALSE)}
        [] v.sl.state = "RING" -> {cease_ringing(v)}
        [] OTHER -> {v}

process_chan_hangup(w) ==
  IF w.sl.state # "HOLD" THEN {w}
  ELSE IF w.sl.offhook THEN {enter_sit(o.w) : o \in out_call_exec(w)}
       ELSE {Enter(do_hangup(w, TRUE), "IDLE", FALSE)}
-----------------------------------------------------------------------------
(* Actions.                                                                *)

\* Line l changes as the handler that had world w wants it.
Becomes(w) == line' = [line EXCEPT ![w.l] = w.sl] /\ cdb' = w.cdb

External(l) ==
  /\ \E w \in UNION {cctl_enable(World(l)), cctl_disable(World(l)), cctl_select(World(l)),
                     cctl_unselect(World(l)), cctl_hold(World(l)), cctl_hangup(World(l))} :
       Becomes(w)
  /\ UNCHANGED <<expired, rd>>

PhoneEvent(l) ==
  /\ \E evt \in LineEvents : \E w \in cctl_process_evt(World(l), evt) : Becomes(w)
  /\ UNCHANGED <<expired, rd>>

Expire(l) ==
  /\ line[l].armed /\ expired[l] < MaxExpired
  /\ line' = [line EXCEPT ![l].armed = FALSE]
  /\ expired' = [expired EXCEPT ![l] = @ + 1]
  /\ UNCHANGED <<cdb, rd>>

line_tmr_hndlr(l) ==
  /\ expired[l] > 0
  /\ expired' = [expired EXCEPT ![l] = @ - 1]
  /\ \/ line[l].armed /\ UNCHANGED <<line, cdb>>
     \/ ~line[l].armed /\ \E w \in TimerActs(World(l)) : Becomes(w)
  /\ UNCHANGED rd

\* A preselector finds line l and calls cctl_process_msg(), which waits for the
\* line's mutex; hndlr_mutex lets one reader at a time do this.
Select(r, msg, l, id, text) ==
  /\ rd[r].pc = "idle" /\ \A q \in Readers : rd[q].pc # "selected"
  /\ rd' = [rd EXCEPT ![r] = [pc |-> "selected", msg |-> msg, line |-> l, id |-> id,
                              text |-> text]]
  /\ UNCHANGED <<line, cdb, expired>>

\* Channels of other lines that place a call: the far end of a call within
\* the station.
InnerChans(l) == {line[k].our : k \in {j \in Lines \ {l} : line[j].state = "CALLING"}} \ {Nil}

address_preselect(r, l) == \E text \in Texts : Select(r, "chan.dtmf", l, Nil, text)

callto_preselect(r, l) ==
  \E id \in NextChan \cup InnerChans(l) : Select(r, "call.execute", l, id, Nil)

\* The channel that answers is the one the call was made to, or another one.
peerid_preselect(r, l) ==
  /\ \E c \in Chans : cdb.our[c] = l
  /\ \E id \in NextChan \cup {line[k].our : k \in Lines \ {l}} \cup {Nil} :
       Select(r, "call.answered", l, id, Nil)

sym_id_preselect(r, l) ==
  /\ \E t \in Tracks : cdb.track[t] = l
  /\ \E id \in NextChan : Select(r, "chan.startup", l, id, Nil)

\* Our channel, or else the channel our party was last connected to: never one
\* that belongs to another line's call only.
chan_disc_preselect(r, l) ==
  \E id \in Chans :
    /\ \/ cdb.our[id] = l
       \/ /\ cdb.our[id] = Nil /\ \E lastpeerid \in Chans : cdb.party[lastpeerid] = l
          /\ id = line[l].our \/ \A k \in Lines \ {l} : id \notin {line[k].our, line[k].party}
    /\ Select(r, "chan.disconnected", l, id, Nil)

chan_hangup_preselect(r, l) ==
  (\E id \in Chans : cdb.party[id] = l) /\ Select(r, "chan.hangup", l, Nil, Nil)

\* What cctl_process_msg() does at once, and whether it leaves a dwhook.
cctl_process_msg(r) ==
  LET m == rd[r]
      w == World(m.line)
      Done(hook) == rd' = [rd EXCEPT ![r] = IF hook THEN [m EXCEPT !.pc = "hook"] ELSE ReaderIdle]
  IN  /\ m.pc = "selected"
      /\ \/ /\ m.msg \in {"chan.dtmf", "chan.disconnected", "chan.hangup"}
            /\ Done(TRUE) /\ UNCHANGED <<line, cdb>>
         \/ /\ m.msg = "call.answered"
            /\ Becomes(process_call_answered(w, m.id)) /\ Done(FALSE)
         \/ /\ m.msg = "call.execute"
            /\ \E v \in process_call_execute(w, m.id) : Becomes(v)
            /\ Done(FALSE)
         \/ /\ m.msg = "chan.startup"
            /\ Becomes(preprocess_chan_startup(w, m.id))
            /\ Done(w.sl.state \in {"INCOMING", "HOLD"})
      /\ UNCHANGED expired

RunHook(r) ==
  LET m == rd[r]
      w == World(m.line)
  IN  /\ m.pc = "hook"
      /\ \/ /\ m.msg = "chan.dtmf"
            /\ \E v \in process_chan_dtmf(w, m.text) : Becomes(v)
         \/ /\ m.msg = "chan.disconnected"
            /\ \E v \in process_chan_disconnect(w, m.id) : Becomes(v)
         \/ /\ m.msg = "chan.hangup"
            /\ \E v \in process_chan_hangup(w) : Becomes(v)
         \/ /\ m.msg = "chan.startup"
            /\ \E v \in process_chan_startup(w) : Becomes(v)
      /\ rd' = [rd EXCEPT ![r] = ReaderIdle]
      /\ UNCHANGED expired

\* new_symline() and init_cdb().
Init ==
  /\ line = [l \in Lines |->
       [state |-> "DISABLED", offhook |-> FALSE, outgoing |-> FALSE, selected |-> FALSE,
        digits |-> 0, our |-> Nil, party |-> Nil, track |-> Nil, armed |-> FALSE]]
  /\ cdb = [our |-> [c \in Chans |-> Nil], party |-> [c \in Chans |-> Nil],
            track |-> [t \in Tracks |-> Nil]]
  /\ expired = [l \in Lines |-> 0]
  /\ rd = [r \in Readers |-> ReaderIdle]

Preselect(r, l) ==
  \/ address_preselect(r, l) \/ callto_preselect(r, l) \/ peerid_preselect(r, l)
  \/ sym_id_preselect(r, l) \/ chan_disc_preselect(r, l) \/ chan_hangup_preselect(r, l)

Next ==
  \/ \E l \in Lines : External(l) \/ PhoneEvent(l) \/ Expire(l) \/ line_tmr_hndlr(l)
  \/ \E r \in Readers, l \in Lines : Preselect(r, l)
  \/ \E r \in Readers : cctl_process_msg(r) \/ RunHook(r)

Spec == Init /\ [][Next]_vars

\* The kernel's part: a timer that is set runs out.
TimersExpire == \A l \in Lines : WF_vars(Expire(l))

\* The engine's part.  line_tmr_hndlr() keeps the line's mutex while the requests
\* it makes wait in yxt_dispatch() for their answers, without a time limit, and
\* waits for that mutex while a handler does the same.  That the timer's threads
\* come to an end supposes that the engine answers every request made for the
\* line: DispatchReturns of YxtLink.
EngineAnswers == \A l \in Lines : WF_vars(line_tmr_hndlr(l))

\* Nobody has to lift a handset, press a key or send a message.
FairSpec == Spec /\ TimersExpire /\ EngineAnswers
-----------------------------------------------------------------------------
(* Properties.                                                             *)

\* The type invariant of struct symline, the call database and the readers.
LineTypeOK ==
  /\ line \in [Lines ->
       [state : LineStates, offhook : BOOLEAN, outgoing : BOOLEAN, selected : BOOLEAN,
        digits : 0 .. MaxDigits, our : Chans \cup {Nil}, party : Chans \cup {Nil},
        track : Tracks \cup {Nil}, armed : BOOLEAN]]
  /\ cdb \in [our : [Chans -> Lines \cup {Nil}], party : [Chans -> Lines \cup {Nil}],
              track : [Tracks -> Lines \cup {Nil}]]
  /\ expired \in [Lines -> 0 .. MaxExpired]
  /\ rd \in [Readers -> [pc : {"idle", "selected", "hook"}, msg : Messages \cup {Nil},
                         line : Lines \cup {Nil}, id : Chans \cup {Nil},
                         text : Texts \cup {Nil}]]

\* The states a line must not be forgotten in.
Timed == {"DIALTONE", "COLLECTING", "SIT", "INCOMING", "DROP"}

\* A line in a state that only its timer is sure to end has a running timer or
\* a timer thread on its way, whatever handlers, late hooks and late timer
\* threads ran before (line_tmr_hndlr(), reset_timer() in every handler).
TimedIsWatched ==
  \A l \in Lines : line[l].state \in Timed => line[l].armed \/ expired[l] > 0

\* A line that has a call can drop it: call_drop() never finds "no call id -
\* nothing to drop" while the engine holds a call for the line, whichever side
\* placed it and however often it was held and picked up.
CallCanBeDropped ==
  \A l \in Lines :
    line[l].state \in {"CALLING", "CONNECTED", "HOLD", "INCOMING", "RING"} => Droppable(line[l])

\* A line that dials or talks listens to the telephone, so that hanging up ends
\* the call: cctl_process_evt() ignores events of a line that is not selected.
ActiveListens ==
  \A l \in Lines :
    line[l].state \in {"DIALTONE", "COLLECTING", "CALLING", "CONNECTED"} => line[l].selected

\* "a preselector should find the line from the message content" (ccmain.c):
\* the ids a line goes by lead to it through the call database.
IdsAreFound ==
  \A l \in Lines :
    /\ line[l].our # Nil => cdb.our[line[l].our] = l
    /\ line[l].party # Nil => cdb.party[line[l].party] = l
    /\ line[l].track # Nil => cdb.track[line[l].track] = l

\* A timed state is left, also when the user does nothing more and the engine
\* sends no message, provided that it answers what it is asked (EngineAnswers):
\* a silent engine keeps the line as it is.  (COLLECTING is left out: every digit
\* starts its timer anew.)
TimedStateIsLeft ==
  \A l \in Lines : \A s \in Timed \ {"COLLECTING"} : line[l].state = s ~> line[l].state # s
=============================================================================
