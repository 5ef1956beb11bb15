------------------------ MODULE StationControlProofs ------------------------
(***************************************************************************)
(* Proofs about StationControl, for any number of lines, workers and       *)
(* readers and any number of stimuli: the station and its workers keep     *)
(* their types, every step of the station is a step of LineControl or      *)
(* leaves the lines alone, and switching lines loses no call.              *)
(***************************************************************************)
EXTENDS StationControl, LineControlProofs

WorkerType == [pc : WorkerPcs, evt : StationEvents \cup {Nil},
               old : Lines \cup {Nil}, new : Lines \cup {Nil}]

\* What StationTypeOK says of one worker.
WorkerOK(k) ==
  /\ k \in WorkerType
  /\ k.pc # "idle" => k.evt \in StationEvents
  /\ k.pc \in Selecting \cup {"deliver"} => k.new \in Lines
  /\ k.pc \in {"unselect", "fallback"} => k.old \in Lines

StationType == [state : {"DISABLED", "INIT", "RUNNING"}, selected : Lines \cup {Nil}]
PhoneType == [handset : BOOLEAN, speaker : BOOLEAN]
-----------------------------------------------------------------------------
(* Types.                                                                  *)

\* The type invariant, worker by worker.
LEMMA TypeByWorker ==
  StationTypeOK <=>
    /\ st \in StationType /\ phone \in PhoneType /\ spent \in 0 .. MaxStimuli
    /\ wk \in [Workers -> WorkerType] /\ \A w \in Workers : WorkerOK(wk[w])
  BY DEF StationTypeOK, StationType, PhoneType, WorkerType, WorkerOK

\* One worker moves on; the others do not.
LEMMA WorkerMoves ==
  ASSUME StationTypeOK, NEW w \in Workers, NEW k, WorkerOK(k), wk' = [wk EXCEPT ![w] = k],
         st' \in StationType, phone' \in PhoneType, spent' \in 0 .. MaxStimuli
  PROVE  StationTypeOK'
  <1>1. wk \in [Workers -> WorkerType] /\ \A v \in Workers : WorkerOK(wk[v])
    BY TypeByWorker
  <1>2. k \in WorkerType
    BY DEF WorkerOK
  <1>3. wk' \in [Workers -> WorkerType] /\ \A v \in Workers : WorkerOK(wk'[v])
    BY <1>1, <1>2
  <1> QED
    BY <1>3 DEF StationTypeOK, StationType, PhoneType, WorkerType, WorkerOK

\* An idle worker has nothing to do.
LEMMA IdleWorkerOK == WorkerOK(WorkerIdle)
  <1>1. WorkerIdle.pc = "idle"
    BY DEF WorkerIdle
  <1>2. "idle" \in WorkerPcs
    BY DEF WorkerPcs
  <1>3. WorkerIdle \in WorkerType
    BY <1>2 DEF WorkerIdle, WorkerType
  <1> QED
    BY <1>1, <1>3 DEF WorkerOK, Selecting

\* Release() leaves a worker that delivers its event, or an idle one.
LEMMA ReleaseOK ==
  ASSUME StationTypeOK, NEW w \in Workers, wk[w].pc # "idle", NEW s \in Lines \cup {Nil},
         Release(w, s)
  PROVE  \E k : WorkerOK(k) /\ wk' = [wk EXCEPT ![w] = k]
  <1>1. WorkerOK(wk[w]) /\ wk \in [Workers -> WorkerType]
    BY TypeByWorker
  <1> DEFINE d == [wk[w] EXCEPT !.pc = "deliver", !.old = Nil, !.new = s]
  <1>2. s # Nil => WorkerOK(d)
    BY <1>1 DEF WorkerOK, WorkerType, WorkerPcs, Selecting
  <1>3. wk' = [wk EXCEPT ![w] = IF s = Nil THEN WorkerIdle ELSE d]
    BY DEF Release
  <1> HIDE DEF d
  <1>4. CASE s = Nil
    <2>1. wk' = [wk EXCEPT ![w] = WorkerIdle]
      BY <1>3, <1>4
    <2> QED
      BY <2>1, IdleWorkerOK
  <1>5. CASE s # Nil
    <2>1. wk' = [wk EXCEPT ![w] = d]
      BY <1>3, <1>5
    <2> QED
      BY <1>2, <1>5, <2>1
  <1> QED
    BY <1>4, <1>5

\* handle_selection() goes on with a line to go to.
LEMMA SelectionOK ==
  ASSUME StationTypeOK, NEW w \in Workers, wk[w].pc # "idle", NEW hint \in Lines \cup {Nil},
         handle_selection(w, hint)
  PROVE  \E k : WorkerOK(k) /\ wk' = [wk EXCEPT ![w] = k]
  <1>1. WorkerOK(wk[w]) /\ wk \in [Workers -> WorkerType] /\ st.selected \in Lines \cup {Nil}
    BY TypeByWorker DEF StationType
  <1>2. Target(hint) \subseteq Lines
    BY StationAssumption DEF Target, FirstEnabled
  <1>3. \/ Release(w, st.selected)
        \/ \E new \in Lines : \E old \in Lines \cup {Nil} :
             \/ wk' = [wk EXCEPT ![w] = [wk[w] EXCEPT !.pc = "select", !.old = old, !.new = new]]
             \/ /\ old \in Lines
                /\ wk' = [wk EXCEPT ![w] = [wk[w] EXCEPT !.pc = "unselect", !.old = old, !.new = new]]
    BY <1>1, <1>2 DEF handle_selection
  <1>4. \A new \in Lines, old \in Lines \cup {Nil} :
          WorkerOK([wk[w] EXCEPT !.pc = "select", !.old = old, !.new = new])
    BY <1>1 DEF WorkerOK, WorkerType, WorkerPcs, Selecting
  <1>5. \A new \in Lines, old \in Lines :
          WorkerOK([wk[w] EXCEPT !.pc = "unselect", !.old = old, !.new = new])
    BY <1>1 DEF WorkerOK, WorkerType, WorkerPcs, Selecting
  <1> QED
    BY <1>1, <1>3, <1>4, <1>5, ReleaseOK

\* st_process_evt() up to the first mutex of a line.
LEMMA ProcessEventOK ==
  ASSUME StationTypeOK, NEW w \in Workers, st_process_evt(w)
  PROVE  StationTypeOK'
  <1>1. /\ wk[w].pc = "event" /\ UNCHANGED <<phone, spent>>
        /\ \/ wk' = [wk EXCEPT ![w] = WorkerIdle] /\ st' = st
           \/ state_init(w, wk[w].evt)
           \/ state_running(w, wk[w].evt)
    BY DEF st_process_evt
  <1>2. /\ st \in StationType /\ phone' \in PhoneType /\ spent' \in 0 .. MaxStimuli
        /\ wk[w].evt \in StationEvents
    BY <1>1, TypeByWorker DEF WorkerOK
  <1>3. wk[w].pc # "idle"
    BY <1>1
  <1>4. CASE wk' = [wk EXCEPT ![w] = WorkerIdle] /\ st' \in StationType
    BY <1>2, <1>4, IdleWorkerOK, WorkerMoves
  <1>5. CASE state_init(w, wk[w].evt)
    <2>1. st' \in StationType
      BY <1>2, <1>5 DEF state_init, StationType
    <2> QED
      BY <1>4, <1>5, <2>1 DEF state_init
  <1>6. CASE state_running(w, wk[w].evt)
    <2>1. st' \in StationType /\ st.selected \in Lines \cup {Nil}
      BY <1>2, <1>6 DEF state_running, StationType
    <2>2. wk[w].evt.type = "blf" => wk[w].evt.blf \in Lines
      BY <1>2 DEF StationEvents
    <2>3. \/ \E hint \in Lines \cup {Nil} : handle_selection(w, hint)
          \/ Release(w, st.selected)
      BY <1>6, <2>2 DEF state_running
    <2>4. PICK k : WorkerOK(k) /\ wk' = [wk EXCEPT ![w] = k]
      BY <1>3, <2>1, <2>3, SelectionOK, ReleaseOK
    <2> QED
      BY <1>2, <2>1, <2>4, WorkerMoves
  <1> QED
    BY <1>1, <1>2, <1>4, <1>5, <1>6

\* The speaker is on or off.
LEMMA SpeakerOK ==
  ASSUME StationTypeOK, NEW held, SpeakerOn(held) \/ SpeakerOff \/ UNCHANGED phone
  PROVE  phone' \in PhoneType
  <1>1. phone \in PhoneType
    BY TypeByWorker
  <1>2. CASE SpeakerOn(held)
    BY <1>1, <1>2 DEF SpeakerOn, PhoneType
  <1>3. CASE SpeakerOff
    BY <1>1, <1>3 DEF SpeakerOff, PhoneType
  <1> QED
    BY <1>1, <1>2, <1>3

\* The steps of a switch and the delivery of an event.
LEMMA SwitchStepOK ==
  ASSUME StationTypeOK, NEW w \in Workers,
         UnselectOld(w) \/ SelectNew(w) \/ FallBack(w) \/ Deliver(w)
  PROVE  StationTypeOK'
  <1>1. /\ st \in StationType /\ st.selected \in Lines \cup {Nil}
        /\ phone \in PhoneType /\ spent \in 0 .. MaxStimuli
        /\ WorkerOK(wk[w]) /\ wk \in [Workers -> WorkerType]
    BY TypeByWorker DEF StationType
  <1>2. CASE UnselectOld(w)
    <2>1. wk[w].pc = "unselect" /\ UNCHANGED <<st, phone, spent>>
      BY <1>2 DEF UnselectOld
    <2>2. Release(w, st.selected) \/ wk' = [wk EXCEPT ![w] = [wk[w] EXCEPT !.pc = "select"]]
      BY <1>1, <1>2 DEF UnselectOld
    <2>3. WorkerOK([wk[w] EXCEPT !.pc = "select"])
      BY <1>1, <2>1 DEF WorkerOK, WorkerType, WorkerPcs, Selecting
    <2>4. PICK k : WorkerOK(k) /\ wk' = [wk EXCEPT ![w] = k]
      BY <1>1, <2>1, <2>2, <2>3, ReleaseOK
    <2> QED
      BY <1>1, <2>1, <2>4, WorkerMoves
  <1>3. CASE SelectNew(w)
    <2>1. wk[w].pc = "select" /\ UNCHANGED spent /\ \E held : SpeakerOn(held)
      BY <1>3 DEF SelectNew
    <2>2. wk[w].new \in Lines
      BY <1>1, <2>1 DEF WorkerOK, Selecting
    <2>3. \/ st' = [st EXCEPT !.selected = wk[w].new] /\ Release(w, wk[w].new)
          \/ st' = st /\ Release(w, st.selected)
          \/ /\ st' = st /\ wk[w].old # Nil
             /\ wk' = [wk EXCEPT ![w] = [wk[w] EXCEPT !.pc = "fallback"]]
      BY <1>1, <1>3 DEF SelectNew
    <2>4. st' \in StationType
      BY <1>1, <2>2, <2>3 DEF StationType
    <2>5. wk[w].old # Nil => WorkerOK([wk[w] EXCEPT !.pc = "fallback"])
      BY <1>1, <2>1, <2>2 DEF WorkerOK, WorkerType, WorkerPcs, Selecting
    <2>6. PICK k : WorkerOK(k) /\ wk' = [wk EXCEPT ![w] = k]
      BY <1>1, <2>1, <2>2, <2>3, <2>5, ReleaseOK
    <2>7. phone' \in PhoneType
      BY <2>1, SpeakerOK
    <2> QED
      BY <1>1, <2>1, <2>4, <2>6, <2>7, WorkerMoves
  <1>4. CASE FallBack(w)
    <2>1. /\ wk[w].pc = "fallback" /\ UNCHANGED <<st, spent>> /\ \E held : SpeakerOn(held)
          /\ Release(w, st.selected)
      BY <1>4 DEF FallBack
    <2>2. PICK k : WorkerOK(k) /\ wk' = [wk EXCEPT ![w] = k]
      BY <1>1, <2>1, ReleaseOK
    <2>3. phone' \in PhoneType
      BY <2>1, SpeakerOK
    <2> QED
      BY <1>1, <2>1, <2>2, <2>3, WorkerMoves
  <1>5. CASE Deliver(w)
    <2>1. /\ wk' = [wk EXCEPT ![w] = WorkerIdle] /\ UNCHANGED <<st, spent>>
          /\ SpeakerOn(FALSE) \/ UNCHANGED phone
      BY <1>5 DEF Deliver
    <2>2. phone' \in PhoneType
      BY <2>1, SpeakerOK
    <2> QED
      BY <1>1, <2>1, <2>2, IdleWorkerOK, WorkerMoves
  <1> QED
    BY <1>2, <1>3, <1>4, <1>5

\* The telephone, the start-up, the readers and the timers.
LEMMA SurroundingsOK ==
  ASSUME StationTypeOK,
         \/ st_enable
         \/ \E w \in Workers : PhoneSends(w)
         \/ \E l \in Lines : StartLine(l) \/ TimerFires(l) \/ TimerRuns(l)
         \/ \E r \in Readers : EngineHandled(r) \/ \E l \in Lines : EngineSends(r, l)
  PROVE  StationTypeOK'
  <1>1. /\ st \in StationType /\ phone \in PhoneType /\ spent \in 0 .. MaxStimuli
        /\ wk \in [Workers -> WorkerType] /\ \A w \in Workers : WorkerOK(wk[w])
    BY TypeByWorker
  <1>2. Spend \/ UNCHANGED spent => spent' \in 0 .. MaxStimuli
    BY <1>1, StationAssumption DEF Spend
  <1>3. ASSUME UNCHANGED wk, st' \in StationType, phone' \in PhoneType, Spend \/ UNCHANGED spent
        PROVE  StationTypeOK'
    BY <1>1, <1>2, <1>3 DEF StationTypeOK, StationType, PhoneType, WorkerType, WorkerOK
  <1>4. CASE st_enable
    BY <1>1, <1>3, <1>4 DEF st_enable, StationType
  <1>5. ASSUME NEW w \in Workers, PhoneSends(w)
        PROVE  StationTypeOK'
    <2>1. PICK e \in StationEvents :
            /\ wk' = [wk EXCEPT ![w] = [wk[w] EXCEPT !.pc = "event", !.evt = e]]
            /\ \/ phone' = phone
               \/ phone' = [phone EXCEPT !.handset = TRUE]
               \/ phone' = [handset |-> FALSE, speaker |-> FALSE]
      BY <1>1, <1>5 DEF PhoneSends
    <2>2. UNCHANGED st /\ (Spend \/ UNCHANGED spent)
      BY <1>5 DEF PhoneSends
    <2>3. phone' \in PhoneType
      <3>1. [phone EXCEPT !.handset = TRUE] \in PhoneType
        BY <1>1 DEF PhoneType
      <3>2. [handset |-> FALSE, speaker |-> FALSE] \in PhoneType
        BY DEF PhoneType
      <3> QED
        BY <1>1, <2>1, <3>1, <3>2
    <2>4. WorkerOK([wk[w] EXCEPT !.pc = "event", !.evt = e])
      BY <1>1 DEF WorkerOK, WorkerType, WorkerPcs, Selecting
    <2> QED
      BY <1>1, <1>2, <2>1, <2>2, <2>3, <2>4, WorkerMoves
  <1>6. ASSUME NEW l \in Lines, StartLine(l)
        PROVE  StationTypeOK'
    BY <1>1, <1>3, <1>6 DEF StartLine, PhoneType
  <1>7. ASSUME NEW l \in Lines, TimerFires(l)
        PROVE  StationTypeOK'
    BY <1>1, <1>3, <1>7 DEF TimerFires
  <1>8. ASSUME NEW l \in Lines, TimerRuns(l)
        PROVE  StationTypeOK'
    <2>1. UNCHANGED <<st, wk, spent>> /\ (SpeakerOn(FALSE) \/ SpeakerOff)
      BY <1>8 DEF TimerRuns
    <2> QED
      BY <1>1, <1>3, <2>1, SpeakerOK
  <1>9. ASSUME NEW r \in Readers, EngineHandled(r) \/ \E l \in Lines : EngineSends(r, l)
        PROVE  StationTypeOK'
    BY <1>1, <1>3, <1>9 DEF EngineHandled, EngineSends
  <1> QED
    BY <1>4, <1>5, <1>6, <1>7, <1>8, <1>9

\* A worker that goes on to a line has one to go to, for any number of workers,
\* lines and events: the asserts on the line in cctl_select(), cctl_unselect()
\* and cctl_process_evt() do not fail.
THEOREM StationTypeCorrect == StationSpec => []StationTypeOK
  <1>1. StationInit => StationTypeOK
    <2> SUFFICES ASSUME StationInit PROVE StationTypeOK
      OBVIOUS
    <2>1. st \in StationType /\ phone \in PhoneType /\ spent \in 0 .. MaxStimuli
      BY StationAssumption DEF StationInit, StationType, PhoneType
    <2>2. wk \in [Workers -> WorkerType] /\ \A w \in Workers : WorkerOK(wk[w])
      BY IdleWorkerOK DEF StationInit, WorkerOK
    <2> QED
      BY <2>1, <2>2, TypeByWorker
  <1>2. StationTypeOK /\ [StationNext]_stationVars => StationTypeOK'
    <2> SUFFICES ASSUME StationTypeOK, [StationNext]_stationVars PROVE StationTypeOK'
      OBVIOUS
    <2>1. ASSUME NEW w \in Workers, WorkerStep(w) PROVE StationTypeOK'
      BY <2>1, ProcessEventOK, SwitchStepOK DEF WorkerStep
    <2>2. CASE UNCHANGED stationVars
      BY <2>2 DEF stationVars, StationTypeOK
    <2> QED
      BY <2>1, <2>2, SurroundingsOK DEF StationNext
  <1> QED
    BY <1>1, <1>2, PTL DEF StationSpec
-----------------------------------------------------------------------------
(* The lines of a station.                                                 *)

\* Every step of the station is a step of some line, or none of any line.
LEMMA StationSimulates == StationTypeOK /\ [StationNext]_stationVars => [Next]_vars
  <1> SUFFICES ASSUME StationTypeOK, [StationNext]_stationVars PROVE [Next]_vars
    OBVIOUS
  <1>1. \A w \in Workers : WorkerOK(wk[w])
    BY TypeByWorker
  <1>2. ASSUME NEW w \in Workers, WorkerStep(w)
        PROVE  [Next]_vars
    <2>1. CASE st_process_evt(w)
      BY <2>1 DEF st_process_evt
    <2>2. CASE UnselectOld(w)
      <3>1. wk[w].old \in Lines
        BY <1>1, <2>2 DEF UnselectOld, WorkerOK
      <3>2. External(wk[w].old)
        BY <2>2 DEF UnselectOld, External
      <3> QED
        BY <3>1, <3>2 DEF Next
    <2>3. CASE SelectNew(w)
      <3>1. wk[w].new \in Lines
        BY <1>1, <2>3 DEF SelectNew, WorkerOK, Selecting
      <3>2. External(wk[w].new)
        BY <2>3 DEF SelectNew, External
      <3> QED
        BY <3>1, <3>2 DEF Next
    <2>4. CASE FallBack(w)
      <3>1. wk[w].old \in Lines
        BY <1>1, <2>4 DEF FallBack, WorkerOK
      <3>2. External(wk[w].old)
        BY <2>4 DEF FallBack, External
      <3> QED
        BY <3>1, <3>2 DEF Next
    <2>5. CASE Deliver(w)
      <3>1. wk[w].new \in Lines
        BY <1>1, <2>5 DEF Deliver, WorkerOK
      <3>2. PhoneEvent(wk[w].new) \/ UNCHANGED vars
        BY <2>5 DEF Deliver, PhoneEvent, vars
      <3> QED
        BY <3>1, <3>2 DEF Next
    <2> QED
      BY <1>2, <2>1, <2>2, <2>3, <2>4, <2>5 DEF WorkerStep
  <1>3. ASSUME NEW l \in Lines, StartLine(l)
        PROVE  [Next]_vars
    <2>1. External(l)
      BY <1>3 DEF StartLine, External
    <2> QED
      BY <2>1 DEF Next
  <1>4. ASSUME NEW l \in Lines, TimerFires(l) \/ TimerRuns(l)
        PROVE  [Next]_vars
    BY <1>4 DEF TimerFires, TimerRuns, Next
  <1>5. ASSUME NEW r \in Readers, EngineHandled(r) \/ \E l \in Lines : EngineSends(r, l)
        PROVE  [Next]_vars
    BY <1>5 DEF EngineHandled, EngineSends, Next
  <1>6. st_enable => UNCHANGED vars
    BY DEF st_enable
  <1>7. \A w \in Workers : PhoneSends(w) => UNCHANGED vars
    BY DEF PhoneSends
  <1>8. UNCHANGED stationVars => UNCHANGED vars
    BY DEF stationVars, vars
  <1> QED
    BY <1>2, <1>3, <1>4, <1>5, <1>6, <1>7, <1>8 DEF StationNext

\* The lines of a telephone behave as LineControl says, whatever number of
\* workers switches between them and hands them events.
THEOREM StationImplementsLines == StationSpec => ImplementsLines
  <1>1. StationInit => Init
    BY DEF StationInit
  <1> QED
    BY <1>1, StationSimulates, StationTypeCorrect, PTL DEF StationSpec, ImplementsLines, Spec
-----------------------------------------------------------------------------
(* Calls survive a switch.                                                 *)

\* The call of world w is still there in world v.
KeepsCall(v, w) == HasCall(w.sl) => HasCall(v.sl) /\ v.sl.party = w.sl.party

\* hold(), with or without success, keeps the call.
LEMMA HoldKeeps ==
  ASSUME NEW w \in WorldType, NEW v \in hold(w)
  PROVE  KeepsCall(v, w)
  <1> DEFINE u == [w EXCEPT !.sl.selected = FALSE]
  <1>1. u \in WorldType /\ u.l = w.l /\ u.sl.party = w.sl.party
    BY DEF WorldType, SlType
  <1>2. v = w \/ v = Enter(u, "HOLD", w.sl.armed)
    BY DEF hold
  <1>3. w.sl.armed \in BOOLEAN
    BY DEF WorldType, SlType
  <1> HIDE DEF u
  <1>4. "HOLD" \in LineStates
    BY DEF LineStates
  <1> QED
    BY <1>1, <1>2, <1>3, <1>4, EnterFacts DEF KeepsCall, HasCall, SameCall

\* So does cctl_unselect(), whatever it returns.
LEMMA UnselectKeeps ==
  ASSUME NEW w \in WorldType, NEW v \in cctl_unselect(w), HasCall(w.sl)
  PROVE  KeepsCall(v, w)
  <1>1. CASE w.sl.state = "HOLD"
    <2>1. v = [w EXCEPT !.sl.selected = FALSE]
      BY <1>1 DEF cctl_unselect
    <2> QED
      BY <2>1 DEF KeepsCall, HasCall, WorldType, SlType
  <1>2. CASE w.sl.state = "CONNECTED"
    <2>1. v \in hold(w)
      BY <1>2 DEF cctl_unselect, cctl_hold
    <2> QED
      BY <2>1, HoldKeeps
  <1> QED
    BY <1>1, <1>2 DEF HasCall

\* pickup_held() waits for the engine with the call still held.
LEMMA PickupKeeps ==
  ASSUME NEW w \in WorldType
  PROVE  KeepsCall(pickup_held(w), w)
  BY DEF pickup_held, KeepsCall, HasCall, WorldType, SlType

\* cctl_select() of a line with a call picks it up or refuses.
LEMMA SelectKeeps ==
  ASSUME NEW w \in WorldType, NEW v \in cctl_select(w), HasCall(w.sl)
  PROVE  KeepsCall(v, w)
  <1>1. v = pickup_held(w) \/ v = w
    BY DEF cctl_select, HasCall
  <1> QED
    BY <1>1, PickupKeeps DEF KeepsCall

\* An event other than DROP and ONHOOK leaves a call connected or held.
LEMMA EventKeeps ==
  ASSUME NEW w \in WorldType, NEW evt \in LineEvents \ {"drop", "onhook"},
         NEW v \in cctl_process_evt(w, evt), HasCall(w.sl)
  PROVE  KeepsCall(v, w)
  <1>1. CASE ~w.sl.selected
    BY <1>1 DEF cctl_process_evt, KeepsCall
  <1>2. CASE w.sl.selected /\ w.sl.state = "CONNECTED"
    <2>1. v \in state_connected(w, evt)
      BY <1>2 DEF cctl_process_evt
    <2>2. v \in hold(w) \/ v = w
      BY <2>1 DEF state_connected, state_dropped_or_onhook
    <2> QED
      BY <2>2, HoldKeeps DEF KeepsCall
  <1>3. CASE w.sl.selected /\ w.sl.state = "HOLD"
    <2>1. v \in state_hold(w, evt)
      BY <1>3 DEF cctl_process_evt
    <2>2. v = pickup_held(w) \/ v = w
      BY <2>1 DEF state_hold
    <2> QED
      BY <2>2, PickupKeeps DEF KeepsCall
  <1>4. w.sl.selected \in BOOLEAN
    BY DEF WorldType, SlType
  <1> QED
    BY <1>1, <1>2, <1>3, <1>4 DEF HasCall

\* One line becomes what a handler leaves that keeps the call; the others stay.
LEMMA BecomesKeeps ==
  ASSUME LineInv, NEW k \in Lines, NEW l \in Lines, NEW v, HandlerOK(v, World(k)),
         HasCall(World(k).sl) => KeepsCall(v, World(k)), Becomes(v), HasCall(line[l])
  PROVE  HasCall(line'[l]) /\ line'[l].party = line[l].party
  <1>1. World(k).l = k /\ World(k).sl = line[k]
    BY WorldFacts
  <1>2. line \in [Lines -> SlType]
    BY DEF LineInv, LineTypeOK, SlType
  <1>3. line' = [line EXCEPT ![k] = v.sl]
    BY <1>1 DEF Becomes, HandlerOK
  <1>4. CASE k = l
    BY <1>1, <1>2, <1>3, <1>4 DEF KeepsCall
  <1>5. CASE k # l
    BY <1>2, <1>3, <1>5
  <1> QED
    BY <1>4, <1>5

\* One step of a worker, other than for DROP and ONHOOK, keeps every call.
LEMMA WorkerKeeps ==
  ASSUME LineInv, StationTypeOK, NEW w \in Workers, NEW l \in Lines, WorkerStep(w),
         HasCall(line[l]), wk[w].evt.type \notin {"drop", "onhook"}
  PROVE  HasCall(line'[l]) /\ line'[l].party = line[l].party
  <1>1. WorkerOK(wk[w])
    BY TypeByWorker
  <1>2. \A k \in Lines : World(k) \in WorldType
    BY WorldFacts
  <1>3. CASE UNCHANGED line
    BY <1>3
  <1>4. CASE UnselectOld(w)
    <2>1. wk[w].old \in Lines
      BY <1>1, <1>4 DEF UnselectOld, WorkerOK
    <2>2. PICK v \in cctl_unselect(World(wk[w].old)) : Becomes(v)
      BY <1>4 DEF UnselectOld
    <2>3. HandlerOK(v, World(wk[w].old))
      BY <1>2, <2>1, ExternalOK
    <2> QED
      BY <1>2, <2>1, <2>2, <2>3, UnselectKeeps, BecomesKeeps
  <1>5. ASSUME NEW k \in Lines, NEW v \in cctl_select(World(k)), Becomes(v)
        PROVE  HasCall(line'[l]) /\ line'[l].party = line[l].party
    <2>1. HandlerOK(v, World(k))
      BY <1>2, ExternalOK
    <2> QED
      BY <1>2, <1>5, <2>1, SelectKeeps, BecomesKeeps
  <1>6. CASE SelectNew(w)
    <2>1. wk[w].new \in Lines
      BY <1>1, <1>6 DEF SelectNew, WorkerOK, Selecting
    <2>2. PICK v \in cctl_select(World(wk[w].new)) : Becomes(v)
      BY <1>6 DEF SelectNew
    <2> QED
      BY <1>5, <2>1, <2>2
  <1>7. CASE FallBack(w)
    <2>1. wk[w].old \in Lines
      BY <1>1, <1>7 DEF FallBack, WorkerOK
    <2>2. PICK v \in cctl_select(World(wk[w].old)) : Becomes(v)
      BY <1>7 DEF FallBack
    <2> QED
      BY <1>5, <2>1, <2>2
  <1>8. CASE Deliver(w)
    <2>1. wk[w].new \in Lines
      BY <1>1, <1>8 DEF Deliver, WorkerOK
    <2>2. \/ UNCHANGED line
          \/ /\ wk[w].evt.type \in LineEvents
             /\ \E v \in cctl_process_evt(World(wk[w].new), wk[w].evt.type) : Becomes(v)
      BY <1>8 DEF Deliver
    <2>3. ASSUME NEW v \in cctl_process_evt(World(wk[w].new), wk[w].evt.type), Becomes(v),
                 wk[w].evt.type \in LineEvents
          PROVE  HasCall(line'[l]) /\ line'[l].party = line[l].party
      <3>1. HandlerOK(v, World(wk[w].new))
        BY <1>2, <2>1, EventOK
      <3>2. HasCall(World(wk[w].new).sl) => KeepsCall(v, World(wk[w].new))
        BY <1>2, <2>1, <2>3, EventKeeps
      <3> QED
        BY <2>1, <2>3, <3>1, <3>2, BecomesKeeps
    <2> QED
      BY <1>3, <2>2, <2>3
  <1>9. st_process_evt(w) => UNCHANGED line
    BY DEF st_process_evt, vars
  <1> QED
    BY <1>3, <1>4, <1>6, <1>7, <1>8, <1>9 DEF WorkerStep

\* handle_selection() and the delivery of events lose no call, however the steps
\* of several workers, the engine's messages and the timers fall between them.
THEOREM CallsSurvive == StationSpec => CallSurvivesSwitch
  <1>1. LineInv /\ StationTypeOK =>
          [\A w \in Workers, l \in Lines :
             WorkerStep(w) /\ HasCall(line[l])
               /\ wk[w].evt.type \notin {"drop", "onhook"}
             => HasCall(line'[l]) /\ line'[l].party = line[l].party]_stationVars
    BY WorkerKeeps
  <1>2. StationSpec => []LineInv
    BY StationImplementsLines, LineInvariant DEF ImplementsLines
  <1> QED
    BY <1>1, <1>2, StationTypeCorrect, PTL DEF CallSurvivesSwitch
=============================================================================
