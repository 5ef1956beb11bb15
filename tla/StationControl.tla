--------------------------- MODULE StationControl ---------------------------
(***************************************************************************)
(* A telephone with several lines (call_control/station_control.c, the     *)
(* event path of ccmain.c) composed with the lines of LineControl.         *)
(*                                                                         *)
(* The worker threads of the multiplexer hand the telephone's events to    *)
(* st_process_evt(), which works under the station's write lock sml.  A    *)
(* line key, or lifting the handset, may first switch lines: unselect the  *)
(* old line, select the new one, go back to the old one if that fails.     *)
(* Each of these takes the line's mutex on its own, so messages and timers *)
(* come in between.  The event itself is given to the selected line after  *)
(* sml has been released.                                                  *)
(*                                                                         *)
(* Lamps, displays, the ringer masks and the dcp.event and dcp.command     *)
(* filters change neither a line nor the selection and are left out; so    *)
(* are the console's commands, which LineControl allows at any time.       *)
(***************************************************************************)
EXTENDS LineControl

CONSTANTS
  Workers,         \* the worker threads of the multiplexer
  DefSelect,       \* st->defselect, Nil if there is none (or -1)
  MayFail,         \* whether selecting a line or its dial tone may fail
  MaxStimuli       \* bound: telephone events, messages and timeouts

\* Lines are known by their number: the line on key blfN is line N.
ASSUME StationAssumption ==
  /\ Lines \subseteq Nat /\ DefSelect \in Lines \cup {Nil} /\ MayFail \in BOOLEAN
  /\ MaxStimuli \in Nat

VARIABLES
  st,              \* struct ccstation: its state and its selected line
  wk,              \* what each worker is doing
  phone,           \* the telephone: handset lifted, speaker turned on
  spent            \* how many of the MaxStimuli there have been

stationVars == <<line, cdb, expired, rd, st, wk, phone, spent>>

StationEvents ==
  [type : {"init", "other", "pad", "drop", "hold", "offhook", "onhook"}, blf : {Nil}]
    \cup [type : {"blf"}, blf : Lines]

\* Where a worker is: it has an event, it is inside handle_selection() with
\* sml, or it has released sml and waits for the mutex of the line to be told.
Selecting == {"unselect", "select", "fallback"}
WorkerPcs == {"idle", "event", "deliver"} \cup Selecting
WorkerIdle == [pc |-> "idle", evt |-> Nil, old |-> Nil, new |-> Nil]

\* The write lock of the station is free.
SmlFree == \A w \in Workers : wk[w].pc \notin Selecting

Spend == spent < MaxStimuli /\ spent' = spent + 1
-----------------------------------------------------------------------------
(* What the line's functions return and what they tell the telephone.      *)

\* Line l, which is sl now, is left as new by cctl_select(), cctl_unselect().
SelectOk(sl, new) ==
  \/ sl.state = "IDLE" /\ new.state = "DIALTONE"
  \/ sl.state = "HOLD"
  \/ sl.state = "RING" /\ new.state = "CONNECTED"

UnselectOk(sl, new) ==
  \/ sl.state \in {"DISABLED", "IDLE", "HOLD"} /\ sl.selected
  \/ sl.state \in {"DIALTONE", "COLLECTING", "CALLING"}
  \/ sl.state = "CONNECTED" /\ new.state = "HOLD"

\* MMI_CMD_OFFHOOK is sent by a handler that sets the line's offhook flag for
\* another reason than the telephone's own event, and to pick up a held call.
SpeakerOn(held) ==
  phone' = [phone EXCEPT !.speaker =
              @ \/ held \/ \E l \in Lines : ~line[l].offhook /\ line'[l].offhook]

\* MMI_CMD_ONHOOK: do_hangup() sends it when the timer clears the line.
SpeakerOff ==
  phone' = [phone EXCEPT !.speaker =
              @ /\ \A l \in Lines : line[l].offhook => line'[l].offhook]
-----------------------------------------------------------------------------
(* Event handling.                                                         *)

line_enabled(l) == line[l].state # "DISABLED"

\* The line handle_selection() goes for: the hinted one, the default one, or
\* the first line in service.
FirstEnabled == {l \in Lines : line_enabled(l) /\ \A k \in Lines : line_enabled(k) => l <= k}
Target(hint) ==
  CASE hint # Nil -> {hint}
    [] hint = Nil /\ DefSelect # Nil -> {DefSelect}
    [] OTHER -> FirstEnabled

\* Mutant of Release(): the event goes on without a selected line.
Release_NoCheck(w, selected) ==
  wk' = [wk EXCEPT ![w] = [@ EXCEPT !.pc = "deliver", !.old = Nil, !.new = selected]]

\* state_running() after handle_selection(): sml is released, and the event is
\* for the line that is selected now; without one it is dropped.
Release(w, selected) ==
  wk' = [wk EXCEPT ![w] = IF selected = Nil THEN WorkerIdle
                          ELSE [@ EXCEPT !.pc = "deliver", !.old = Nil, !.new = selected]]

\* handle_selection() up to the first call that takes a line's mutex.  The old
\* line's flag is read without its mutex.
handle_selection(w, hint) ==
  LET old == st.selected
      Go(pc, fallback, new) ==
        wk' = [wk EXCEPT ![w] = [@ EXCEPT !.pc = pc, !.old = fallback, !.new = new]]
  IN  \/ Target(hint) = {} /\ Release(w, old)
      \/ \E new \in Target(hint) :
           \/ old = new /\ line[old].selected /\ Release(w, old)
           \/ old = new /\ ~line[old].selected /\ Go("select", Nil, new)
           \/ old = Nil /\ Go("select", Nil, new)
           \/ old \notin {Nil, new} /\ line[old].selected /\ Go("unselect", old, new)
           \/ old \notin {Nil, new} /\ ~line[old].selected /\ Go("select", old, new)

state_init(w, evt) ==
  /\ wk' = [wk EXCEPT ![w] = WorkerIdle]
  /\ \/ st' = st
     \/ evt.type = "init" /\ st' = [st EXCEPT !.state = "RUNNING"]

state_running(w, evt) ==
  /\ st' = st
  /\ \/ evt.type = "blf" /\ line_enabled(evt.blf) /\ handle_selection(w, evt.blf)
     \/ evt.type = "offhook" /\ st.selected = Nil /\ handle_selection(w, Nil)
     \/ /\ ~(evt.type = "blf" /\ line_enabled(evt.blf))
        /\ ~(evt.type = "offhook" /\ st.selected = Nil)
        /\ Release(w, st.selected)

st_process_evt(w) ==
  /\ wk[w].pc = "event" /\ SmlFree
  /\ \/ st.state = "DISABLED" /\ wk' = [wk EXCEPT ![w] = WorkerIdle] /\ st' = st
     \/ st.state = "INIT" /\ state_init(w, wk[w].evt)
     \/ st.state = "RUNNING" /\ state_running(w, wk[w].evt)
  /\ UNCHANGED <<vars, phone, spent>>

\* Mutant of UnselectOld(): the old line is deselected whatever state it is in.
UnselectOld_Forced(w) ==
  LET l == wk[w].old
  IN  /\ wk[w].pc = "unselect"
      /\ \E v \in cctl_unselect(World(l)) : Becomes([v EXCEPT !.sl.selected = FALSE])
      /\ wk' = [wk EXCEPT ![w].pc = "select"]
      /\ UNCHANGED <<expired, rd, st, phone, spent>>

UnselectOld(w) ==
  LET l == wk[w].old
  IN  /\ wk[w].pc = "unselect"
      /\ \E v \in cctl_unselect(World(l)) :
           /\ Becomes(v)
           /\ \/ UnselectOk(line[l], v.sl) /\ wk' = [wk EXCEPT ![w].pc = "select"]
              \/ ~UnselectOk(line[l], v.sl) /\ Release(w, st.selected)
      /\ UNCHANGED <<expired, rd, st, phone, spent>>

SelectNew(w) ==
  LET l == wk[w].new
  IN  /\ wk[w].pc = "select"
      /\ \E v \in cctl_select(World(l)) :
           /\ Becomes(v)
           /\ \/ SelectOk(line[l], v.sl) /\ st' = [st EXCEPT !.selected = l] /\ Release(w, l)
              \/ /\ ~SelectOk(line[l], v.sl) /\ st' = st
                 /\ MayFail \/ line[l].state \notin {"IDLE", "RING"}
                 /\ IF wk[w].old = Nil THEN Release(w, st.selected)
                    ELSE wk' = [wk EXCEPT ![w].pc = "fallback"]
      /\ SpeakerOn(line[l].state = "HOLD")
      /\ UNCHANGED <<expired, rd, spent>>

FallBack(w) ==
  /\ wk[w].pc = "fallback"
  /\ \E v \in cctl_select(World(wk[w].old)) : Becomes(v)
  /\ Release(w, st.selected) /\ SpeakerOn(line[wk[w].old].state = "HOLD")
  /\ UNCHANGED <<expired, rd, st, spent>>

\* cctl_process_evt() of the line that was selected when sml was released.  The
\* key of another line means nothing to it.
Deliver(w) ==
  LET l == wk[w].new
      evt == wk[w].evt
  IN  /\ wk[w].pc = "deliver"
      /\ \/ /\ evt.type \in LineEvents /\ evt.blf \in {Nil, l}
            /\ \E v \in cctl_process_evt(World(l), evt.type) : Becomes(v)
            /\ IF evt.type = "offhook" THEN UNCHANGED phone ELSE SpeakerOn(FALSE)
         \/ /\ evt.type \notin LineEvents \/ evt.blf \notin {Nil, l}
            /\ UNCHANGED <<line, cdb, phone>>
      /\ wk' = [wk EXCEPT ![w] = WorkerIdle]
      /\ UNCHANGED <<expired, rd, st, spent>>
-----------------------------------------------------------------------------
(* The surroundings.                                                       *)

\* dmrcv_handler(): an event of the telephone reaches an idle worker.  The
\* telephone goes off hook and on hook in turn, and answers MMI_CMD_IDENTIFY.
PhoneSends(w) ==
  /\ wk[w].pc = "idle"
  /\ \E e \in StationEvents :
       /\ IF st.state = "INIT" /\ e.type = "init" THEN UNCHANGED spent ELSE Spend
       /\ wk' = [wk EXCEPT ![w] = [@ EXCEPT !.pc = "event", !.evt = e]]
       /\ \/ e.type \notin {"offhook", "onhook"} /\ phone' = phone
          \/ e.type = "offhook" /\ ~phone.handset /\ phone' = [phone EXCEPT !.handset = TRUE]
          \/ /\ e.type = "onhook" /\ (phone.handset \/ phone.speaker)
             /\ phone' = [handset |-> FALSE, speaker |-> FALSE]
  /\ UNCHANGED <<vars, st>>

\* The name, the channel and the interface number of a station are there: the
\* configuration is complete.
st_enable ==
  /\ st.state = "DISABLED" /\ SmlFree
  /\ st' = [st EXCEPT !.state = "INIT"]
  /\ UNCHANGED <<vars, wk, phone, spent>>

\* start_station() puts the lines into service one after the other; init_mmi()
\* turns the speaker off.
StartLine(l) ==
  /\ line[l].state = "DISABLED" /\ st.state # "DISABLED"
  /\ \A k \in Lines : k < l => line_enabled(k)
  /\ \E v \in cctl_enable(World(l)) : Becomes(v)
  /\ phone' = [phone EXCEPT !.speaker = FALSE]
  /\ UNCHANGED <<expired, rd, st, wk, spent>>

EngineSends(r, l) == Preselect(r, l) /\ Spend /\ UNCHANGED <<st, wk, phone>>
EngineHandled(r) == (cctl_process_msg(r) \/ RunHook(r)) /\ UNCHANGED <<st, wk, phone, spent>>
TimerFires(l) == Expire(l) /\ Spend /\ UNCHANGED <<st, wk, phone>>
TimerRuns(l) ==
  /\ line_tmr_hndlr(l) /\ UNCHANGED <<st, wk, spent>>
  /\ MayFail \/ ~(line[l].state = "DROP" /\ line[l].offhook /\ line'[l].state = "IDLE")
  /\ IF line[l].state = "DROP" THEN SpeakerOn(FALSE) ELSE SpeakerOff

StationInit ==
  /\ Init
  /\ st = [state |-> "DISABLED", selected |-> Nil]
  /\ wk = [w \in Workers |-> WorkerIdle]
  /\ phone = [handset |-> FALSE, speaker |-> FALSE]
  /\ spent = 0

WorkerStep(w) == st_process_evt(w) \/ UnselectOld(w) \/ SelectNew(w) \/ FallBack(w) \/ Deliver(w)

StationNext ==
  \/ st_enable
  \/ \E w \in Workers : PhoneSends(w) \/ WorkerStep(w)
  \/ \E l \in Lines : StartLine(l) \/ TimerFires(l) \/ TimerRuns(l)
  \/ \E r \in Readers : EngineHandled(r) \/ \E l \in Lines : EngineSends(r, l)

StationSpec == StationInit /\ [][StationNext]_stationVars
-----------------------------------------------------------------------------
(* Properties.                                                             *)

\* Type invariant of the station and its workers: a worker that goes on to a
\* line has one to go to (the asserts of cctl_select() and cctl_process_evt()).
StationTypeOK ==
  /\ st \in [state : {"DISABLED", "INIT", "RUNNING"}, selected : Lines \cup {Nil}]
  /\ wk \in [Workers -> [pc : WorkerPcs, evt : StationEvents \cup {Nil},
                        old : Lines \cup {Nil}, new : Lines \cup {Nil}]]
  /\ \A w \in Workers :
       /\ wk[w].pc # "idle" => wk[w].evt \in StationEvents
       /\ wk[w].pc \in Selecting \cup {"deliver"} => wk[w].new \in Lines
       /\ wk[w].pc \in {"unselect", "fallback"} => wk[w].old \in Lines
  /\ phone \in [handset : BOOLEAN, speaker : BOOLEAN]
  /\ spent \in 0 .. MaxStimuli

\* The lines of a station behave as LineControl says, so what is proved of
\* lines in general holds of the lines of a telephone.
ImplementsLines == Spec

\* Switching lines never loses a call: while a worker handles a line key or a
\* lifted handset, whatever comes in between and whether or not the new line
\* can be had, a call that is connected or held stays so, with its party.
HasCall(sl) == sl.state \in {"CONNECTED", "HOLD"}
CallSurvivesSwitch ==
  [][\A w \in Workers, l \in Lines :
       WorkerStep(w) /\ HasCall(line[l])
         /\ wk[w].evt.type \notin {"drop", "onhook"}
       => HasCall(line'[l]) /\ line'[l].party = line[l].party]_stationVars

\* "station is off-hook" (call_control.h): an incoming call is answered without
\* ringing (process_chan_startup()) only if the telephone is off hook; no event
\* of the telephone is under way.
AnswersOffhook ==
  [][\A l \in Lines :
       /\ line[l].state = "INCOMING" /\ line'[l].state = "CONNECTED"
       /\ \A w \in Workers : wk[w].pc = "idle"
       => phone.handset \/ phone.speaker]_stationVars
=============================================================================
