------------------------- MODULE LineControlProofs -------------------------
(***************************************************************************)
(* Proofs about LineControl, for any number of lines and reader threads.   *)
(* The operators a handler is built from are described by lemmas: what     *)
(* they return is a world again, and which fields of the line they leave   *)
(* alone.  A handler then either sets the timer when it enters a timed     *)
(* state or leaves state and timer alone, and keeps the line's own part of *)
(* the invariant; the actions follow from their handlers.                  *)
(***************************************************************************)
EXTENDS LineControl, TLAPS

\* The types of a line, of the call database and of a world.
SlType ==
  [state : LineStates, offhook : BOOLEAN, outgoing : BOOLEAN, selected : BOOLEAN,
   digits : 0 .. MaxDigits, our : Chans \cup {Nil}, party : Chans \cup {Nil},
   track : Tracks \cup {Nil}, armed : BOOLEAN]
CdbType == [our : [Chans -> Lines \cup {Nil}], party : [Chans -> Lines \cup {Nil}],
            track : [Tracks -> Lines \cup {Nil}]]
WorldType == [l : Lines, sl : SlType, cdb : CdbType]

\* The states in which the user of the line hears it or speaks on it.
Active == {"DIALTONE", "COLLECTING", "CALLING", "CONNECTED"}

\* A line's own part of the inductive invariant: besides what is to be shown, a
\* held call has a party and a number is only dialled on a call we placed.
SlInv(sl) ==
  /\ sl.state \in {"CALLING", "CONNECTED", "HOLD", "INCOMING", "RING"} => Droppable(sl)
  /\ sl.state = "HOLD" => sl.party # Nil
  /\ sl.state \in {"DIALTONE", "COLLECTING"} => sl.outgoing
  /\ sl.state \in Active => sl.selected

Watched(sl) == sl.state \in Timed => sl.armed

\* The fields that decide about SlInv and Watched.
SameLine(v, w) == v.l = w.l /\ v.sl.state = w.sl.state /\ v.sl.armed = w.sl.armed
SameCall(v, w) ==
  v.sl.our = w.sl.our /\ v.sl.party = w.sl.party /\ v.sl.outgoing = w.sl.outgoing
SameSelection(v, w) == v.sl.selected = w.sl.selected

\* What every handler does to the line.
HandlerOK(v, w) ==
  /\ v \in WorldType /\ v.l = w.l
  /\ Watched(v.sl) \/ SameLine(v, w)
  /\ SlInv(w.sl) => SlInv(v.sl)

\* What a reader carries.
RdInv ==
  \A r \in Readers :
    rd[r].pc # "idle" =>
      /\ rd[r].line \in Lines
      /\ rd[r].msg \in {"call.execute", "chan.startup", "chan.disconnected"} => rd[r].id \in Chans

LineInv ==
  LineTypeOK /\ RdInv /\ TimedIsWatched /\ \A l \in Lines : SlInv(line[l])
-----------------------------------------------------------------------------
(* The operators handlers are built from.                                  *)

\* Enter() sets state and timer and nothing else.
LEMMA EnterFacts ==
  ASSUME NEW w \in WorldType, NEW s \in LineStates, NEW a \in BOOLEAN
  PROVE  /\ Enter(w, s, a) \in WorldType /\ Enter(w, s, a).l = w.l
         /\ Enter(w, s, a).sl.state = s /\ Enter(w, s, a).sl.armed = a
         /\ SameCall(Enter(w, s, a), w) /\ SameSelection(Enter(w, s, a), w)
  BY DEF Enter, WorldType, SlType, SameCall, SameSelection

\* update_cdb() leaves the line alone.
LEMMA UpdateFacts ==
  ASSUME NEW w \in WorldType, NEW v \in Lines \cup {Nil}
  PROVE  /\ \A c \in Chans : update_cdb(w, "our", c, v) \in WorldType
         /\ \A c \in Chans : update_cdb(w, "party", c, v) \in WorldType
         /\ \A t \in Tracks : update_cdb(w, "track", t, v) \in WorldType
         /\ \A m, i : update_cdb(w, m, i, v).l = w.l /\ update_cdb(w, m, i, v).sl = w.sl
  BY DEF update_cdb, WorldType, CdbType

\* Forget() clears the one id it is asked to clear.
LEMMA ForgetFacts ==
  ASSUME NEW w \in WorldType
  PROVE  /\ Forget(w, "our") \in WorldType /\ SameLine(Forget(w, "our"), w)
         /\ SameSelection(Forget(w, "our"), w)
         /\ Forget(w, "our").sl.party = w.sl.party /\ Forget(w, "our").sl.outgoing = w.sl.outgoing
         /\ Forget(w, "party") \in WorldType /\ SameLine(Forget(w, "party"), w)
         /\ SameSelection(Forget(w, "party"), w)
         /\ Forget(w, "party").sl.our = w.sl.our /\ Forget(w, "party").sl.outgoing = w.sl.outgoing
         /\ Forget(w, "track") \in WorldType /\ SameLine(Forget(w, "track"), w)
         /\ SameSelection(Forget(w, "track"), w)
         /\ SameCall(Forget(w, "track"), w)
  <1>1. w.sl.our \in Chans \cup {Nil} /\ w.sl.party \in Chans \cup {Nil}
          /\ w.sl.track \in Tracks \cup {Nil}
    BY DEF WorldType, SlType
  <1>2. /\ Forget(w, "our") \in WorldType /\ SameLine(Forget(w, "our"), w)
        /\ Forget(w, "our").sl.party = w.sl.party /\ Forget(w, "our").sl.outgoing = w.sl.outgoing
    BY <1>1, UpdateFacts DEF Forget, SameLine, WorldType, SlType
  <1>5. SameSelection(Forget(w, "our"), w)
    BY <1>1, UpdateFacts DEF Forget, SameSelection, WorldType, SlType
  <1>3. /\ Forget(w, "party") \in WorldType /\ SameLine(Forget(w, "party"), w)
        /\ Forget(w, "party").sl.our = w.sl.our /\ Forget(w, "party").sl.outgoing = w.sl.outgoing
    BY <1>1, UpdateFacts DEF Forget, SameLine, WorldType, SlType
  <1>6. SameSelection(Forget(w, "party"), w)
    BY <1>1, UpdateFacts DEF Forget, SameSelection, WorldType, SlType
  <1>4. /\ Forget(w, "track") \in WorldType /\ SameLine(Forget(w, "track"), w)
        /\ SameCall(Forget(w, "track"), w)
    BY <1>1, UpdateFacts DEF Forget, SameLine, SameCall, WorldType, SlType
  <1>7. SameSelection(Forget(w, "track"), w)
    BY <1>1, UpdateFacts DEF Forget, SameSelection, WorldType, SlType
  <1> QED
    BY <1>2, <1>3, <1>4, <1>5, <1>6, <1>7

\* Remember() sets the one id it is asked to set.
LEMMA RememberFacts ==
  ASSUME NEW w \in WorldType
  PROVE  /\ \A c \in Chans :
              /\ Remember(w, "our", c) \in WorldType /\ SameLine(Remember(w, "our", c), w)
              /\ SameSelection(Remember(w, "our", c), w)
              /\ Remember(w, "our", c).sl.our = c
              /\ Remember(w, "our", c).sl.party = w.sl.party
              /\ Remember(w, "our", c).sl.outgoing = w.sl.outgoing
         /\ \A c \in Chans :
              /\ Remember(w, "party", c) \in WorldType /\ SameLine(Remember(w, "party", c), w)
              /\ SameSelection(Remember(w, "party", c), w)
              /\ Remember(w, "party", c).sl.party = c
              /\ Remember(w, "party", c).sl.our = w.sl.our
              /\ Remember(w, "party", c).sl.outgoing = w.sl.outgoing
         /\ \A t \in Tracks :
              /\ Remember(w, "track", t) \in WorldType /\ SameLine(Remember(w, "track", t), w)
              /\ SameSelection(Remember(w, "track", t), w)
              /\ SameCall(Remember(w, "track", t), w)
  <1>1. w.l \in Lines \cup {Nil}
    BY DEF WorldType
  <1>2. ASSUME NEW c \in Chans
        PROVE  /\ Remember(w, "our", c) \in WorldType /\ SameLine(Remember(w, "our", c), w)
               /\ SameSelection(Remember(w, "our", c), w)
               /\ Remember(w, "our", c).sl.our = c
               /\ Remember(w, "our", c).sl.party = w.sl.party
               /\ Remember(w, "our", c).sl.outgoing = w.sl.outgoing
    BY <1>1, UpdateFacts DEF Remember, SameLine, SameSelection, WorldType, SlType
  <1>3. ASSUME NEW c \in Chans
        PROVE  /\ Remember(w, "party", c) \in WorldType /\ SameLine(Remember(w, "party", c), w)
               /\ SameSelection(Remember(w, "party", c), w)
               /\ Remember(w, "party", c).sl.party = c
               /\ Remember(w, "party", c).sl.our = w.sl.our
               /\ Remember(w, "party", c).sl.outgoing = w.sl.outgoing
    BY <1>1, UpdateFacts DEF Remember, SameLine, SameSelection, WorldType, SlType
  <1>4. ASSUME NEW t \in Tracks
        PROVE  /\ Remember(w, "track", t) \in WorldType /\ SameLine(Remember(w, "track", t), w)
               /\ SameSelection(Remember(w, "track", t), w)
               /\ SameCall(Remember(w, "track", t), w)
    BY <1>1, UpdateFacts DEF Remember, SameLine, SameCall, SameSelection, WorldType, SlType
  <1> QED
    BY <1>2, <1>3, <1>4

\* new_calltrack() changes the tracking id only.
LEMMA CalltrackFacts ==
  ASSUME NEW w \in WorldType, NEW v \in new_calltrack(w)
  PROVE  v \in WorldType /\ SameLine(v, w) /\ SameCall(v, w) /\ SameSelection(v, w)
  <1>1. PICK t \in Tracks : v = Remember(Forget(w, "track"), "track", t)
    BY DEF new_calltrack, Lowest, FreshTracks
  <1> QED
    BY <1>1, ForgetFacts, RememberFacts DEF SameLine, SameCall, SameSelection

\* call_drop() changes ids only.
LEMMA DropFacts ==
  ASSUME NEW w \in WorldType
  PROVE  call_drop(w) \in WorldType /\ SameLine(call_drop(w), w)
  <1> DEFINE a == Forget(w, "our")
             b == [update_cdb(a, "our", a.sl.party, Nil) EXCEPT !.sl.party = Nil]
  <1>1. a \in WorldType /\ SameLine(a, w)
    BY ForgetFacts
  <1>2. ASSUME a.sl.party # Nil
        PROVE  b \in WorldType /\ SameLine(b, a)
    <2>1. a.sl.party \in Chans
      BY <1>1, <1>2 DEF WorldType, SlType
    <2> DEFINE u == update_cdb(a, "our", a.sl.party, Nil)
    <2> HIDE DEF a
    <2>2. u \in WorldType /\ u.l = a.l /\ u.sl = a.sl
      BY <1>1, <2>1, UpdateFacts
    <2> HIDE DEF u
    <2>3. [u EXCEPT !.sl.party = Nil] \in WorldType /\ SameLine([u EXCEPT !.sl.party = Nil], u)
      BY <2>2 DEF SameLine, WorldType, SlType
    <2> QED
      BY <2>2, <2>3 DEF SameLine, u
  <1> HIDE DEF a, b
  <1>3. CASE ~Droppable(w.sl)
    BY <1>3 DEF call_drop, SameLine
  <1>4. CASE Droppable(w.sl)
    <2>1. call_drop(w) = Forget(IF a.sl.party = Nil THEN a ELSE b, "track")
      BY <1>4 DEF call_drop, a, b
    <2> QED
      BY <2>1, <1>1, <1>2, ForgetFacts DEF SameLine
  <1> QED
    BY <1>3, <1>4

\* do_hangup() changes ids and the hook only.
LEMMA HangupFacts ==
  ASSUME NEW w \in WorldType, NEW f \in BOOLEAN
  PROVE  do_hangup(w, f) \in WorldType /\ SameLine(do_hangup(w, f), w)
  BY DropFacts DEF do_hangup, SameLine, WorldType, SlType
-----------------------------------------------------------------------------
(* Outcomes.                                                               *)

\* The ids the engine hands out are channel ids.
LEMMA ChanFacts == NextChan \subseteq Chans /\ ChanAfter \subseteq Chans
  BY DEF NextChan, ChanAfter, Lowest, FreshChans

\* A reply gives ids and marks the call as outgoing, whatever it carries.
LEMMA RepliedFacts ==
  ASSUME NEW w \in WorldType, NEW v \in Replied(w)
  PROVE  v \in WorldType /\ SameLine(v, w) /\ v.sl.outgoing /\ SameSelection(v, w)
  <1> DEFINE o == [w EXCEPT !.sl.outgoing = TRUE]
  <1>1. o \in WorldType /\ SameLine(o, w) /\ o.sl.outgoing /\ SameSelection(o, w)
    BY DEF SameLine, SameSelection, WorldType, SlType
  <1>2. v = o \/ v \in OurGiven(o) \/ v \in PartyGiven(o) \/ v \in BothGiven(o)
    BY DEF Replied
  <1> HIDE DEF o
  <1>3. ASSUME NEW u \in OurGiven(o)
        PROVE  u \in WorldType /\ SameLine(u, w) /\ u.sl.outgoing /\ SameSelection(u, w)
    BY <1>1, ChanFacts, RememberFacts DEF OurGiven, SameLine, SameSelection
  <1>4. ASSUME NEW u \in BothGiven(o)
        PROVE  u \in WorldType /\ SameLine(u, w) /\ u.sl.outgoing /\ SameSelection(u, w)
    BY <1>3, ChanFacts, RememberFacts DEF BothGiven, SameLine, SameSelection
  <1>5. ASSUME NEW u \in PartyGiven(o)
        PROVE  u \in WorldType /\ SameLine(u, w) /\ u.sl.outgoing /\ SameSelection(u, w)
    BY <1>1, ChanFacts, RememberFacts DEF PartyGiven, SameLine, SameSelection
  <1> QED
    BY <1>1, <1>2, <1>3, <1>4, <1>5

\* A call made for the line leaves its state and timer alone; once it has been
\* made it counts as outgoing.
LEMMA ExecFacts ==
  ASSUME NEW w \in WorldType, NEW o \in out_call_exec(w)
  PROVE  /\ o.w \in WorldType /\ SameLine(o.w, w) /\ (o.ok => o.w.sl.outgoing)
         /\ SameSelection(o.w, w)
  <1> DEFINE cleared == Forget(Forget(w, "our"), "party")
  <1>1. cleared \in WorldType /\ SameLine(cleared, w) /\ SameSelection(cleared, w)
    BY ForgetFacts DEF SameLine, SameSelection
  <1>2. \/ \E v \in new_calltrack(cleared) : o = Failed(v)
        \/ \E v \in new_calltrack(cleared) : \E u \in Replied(v) : o = Ok(u)
    BY DEF out_call_exec
  <1> HIDE DEF cleared
  <1>3. \A v \in new_calltrack(cleared) :
          v \in WorldType /\ SameLine(v, w) /\ SameSelection(v, w)
    BY <1>1, CalltrackFacts DEF SameLine, SameSelection
  <1>4. \A v \in new_calltrack(cleared) : \A u \in Replied(v) :
          u \in WorldType /\ SameLine(u, w) /\ u.sl.outgoing /\ SameSelection(u, w)
    BY <1>3, RepliedFacts DEF SameLine, SameSelection
  <1> QED
    BY <1>2, <1>3, <1>4 DEF Ok, Failed

\* The same of provide_dialtone(), which selects the line.
LEMMA DialtoneFacts ==
  ASSUME NEW w \in WorldType, NEW o \in provide_dialtone(w)
  PROVE  /\ o.w \in WorldType /\ SameLine(o.w, w)
         /\ o.ok => o.w.sl.outgoing /\ o.w.sl.selected
  <1> DEFINE sel == [w EXCEPT !.sl.selected = TRUE]
             up == [sel EXCEPT !.sl.offhook = TRUE]
  <1>1. sel \in WorldType /\ SameLine(sel, w)
    BY DEF SameLine, WorldType, SlType
  <1>2. up \in WorldType /\ SameLine(up, w) /\ up.sl.selected
    BY DEF SameLine, WorldType, SlType
  <1>3. \/ o = Failed(w) \/ o = Failed(sel) \/ o \in out_call_exec(up)
        \/ \E c \in out_call_exec(up) : o = Failed(c.w)
    BY DEF provide_dialtone
  <1> HIDE DEF sel, up
  <1>4. \A c \in out_call_exec(up) :
          c.w \in WorldType /\ SameLine(c.w, w) /\ (c.ok => c.w.sl.outgoing /\ c.w.sl.selected)
    BY <1>2, ExecFacts DEF SameLine, SameSelection
  <1> QED
    BY <1>1, <1>3, <1>4 DEF Failed, SameLine
-----------------------------------------------------------------------------
(* Handlers.                                                               *)

\* When a handler that ends in Enter() keeps its line's invariant.
LEMMA EnterOK ==
  ASSUME NEW w \in WorldType, NEW v \in WorldType, v.l = w.l,
         NEW s \in LineStates, NEW a \in BOOLEAN,
         s \in Timed => a,
         SlInv(w.sl) /\ s \in {"CALLING", "CONNECTED", "HOLD", "INCOMING", "RING"}
           => Droppable(v.sl),
         SlInv(w.sl) /\ s = "HOLD" => v.sl.party # Nil,
         SlInv(w.sl) /\ s \in {"DIALTONE", "COLLECTING"} => v.sl.outgoing,
         SlInv(w.sl) /\ s \in Active => v.sl.selected
  PROVE  HandlerOK(Enter(v, s, a), w)
  <1> DEFINE e == Enter(v, s, a)
  <1>1. /\ e \in WorldType /\ e.l = w.l /\ e.sl.state = s /\ e.sl.armed = a
        /\ e.sl.our = v.sl.our /\ e.sl.party = v.sl.party /\ e.sl.outgoing = v.sl.outgoing
        /\ e.sl.selected = v.sl.selected
    BY EnterFacts DEF SameCall, SameSelection
  <1> HIDE DEF e
  <1>2. Droppable(e.sl) <=> Droppable(v.sl)
    BY <1>1 DEF Droppable
  <1>3. Watched(e.sl)
    BY <1>1 DEF Watched
  <1>4. ASSUME SlInv(w.sl)
        PROVE  SlInv(e.sl)
    <2>1. e.sl.state \in {"CALLING", "CONNECTED", "HOLD", "INCOMING", "RING"} => Droppable(e.sl)
      BY <1>1, <1>2, <1>4
    <2>2. e.sl.state = "HOLD" => e.sl.party # Nil
      BY <1>1, <1>4
    <2>3. e.sl.state \in {"DIALTONE", "COLLECTING"} => e.sl.outgoing
      BY <1>1, <1>4
    <2>4. e.sl.state \in Active => e.sl.selected
      BY <1>1, <1>4
    <2> QED
      BY <2>1, <2>2, <2>3, <2>4 DEF SlInv
  <1> QED
    BY <1>1, <1>3, <1>4 DEF HandlerOK, e

\* Leaving the line for good, for a tone, or as it is.
LEMMA SimpleOK ==
  ASSUME NEW w \in WorldType, NEW v \in WorldType, v.l = w.l, NEW a \in BOOLEAN
  PROVE  /\ HandlerOK(w, w)
         /\ HandlerOK(Enter(v, "IDLE", a), w) /\ HandlerOK(Enter(v, "DISABLED", a), w)
         /\ HandlerOK(enter_sit(v), w) /\ HandlerOK(Enter(v, "DROP", TRUE), w)
         /\ v.sl.outgoing /\ v.sl.selected => HandlerOK(enter_dialtone(v), w)
  <1>1. HandlerOK(w, w)
    BY DEF HandlerOK, SameLine
  <1>2. ASSUME NEW s \in {"IDLE", "DISABLED"}
        PROVE  HandlerOK(Enter(v, s, a), w)
    <2>1. s \in LineStates /\ s \notin Timed /\ s \notin Active
      BY DEF LineStates, Timed, Active
    <2> QED
      BY <2>1, EnterOK
  <1>3. ASSUME NEW s \in {"SIT", "DROP"}
        PROVE  HandlerOK(Enter(v, s, TRUE), w)
    <2>1. s \in LineStates /\ s \notin Active
      BY DEF LineStates, Active
    <2> QED
      BY <2>1, EnterOK
  <1>4. ASSUME v.sl.outgoing, v.sl.selected
        PROVE  HandlerOK(enter_dialtone(v), w)
    <2> DEFINE u == [v EXCEPT !.sl.digits = 0]
    <2>1. u \in WorldType /\ u.l = w.l /\ u.sl.outgoing /\ u.sl.selected
      BY <1>4, LineBoundsAssumption DEF WorldType, SlType
    <2> HIDE DEF u
    <2>2. "DIALTONE" \in LineStates
      BY DEF LineStates
    <2>3. HandlerOK(Enter(u, "DIALTONE", TRUE), w)
      BY <2>1, <2>2, EnterOK
    <2> QED
      BY <2>3 DEF enter_dialtone, u
  <1> QED
    BY <1>1, <1>2, <1>3, <1>4 DEF enter_sit

\* provide_dialtone() and what its callers make of its outcome.
LEMMA ProvidedOK ==
  ASSUME NEW w \in WorldType, NEW v \in WorldType, SameLine(v, w), SlInv(v.sl) \/ ~SlInv(w.sl),
         v.sl.state \in {"IDLE", "DROP"}, NEW o \in provide_dialtone(v)
  PROVE  /\ o.w \in WorldType /\ o.w.l = w.l
         /\ HandlerOK(o.w, w) /\ HandlerOK(enter_sit(o.w), w)
         /\ o.ok => HandlerOK(enter_dialtone(o.w), w)
  <1>1. o.w \in WorldType /\ SameLine(o.w, v) /\ (o.ok => o.w.sl.outgoing /\ o.w.sl.selected)
    BY DialtoneFacts
  <1>2. HandlerOK(o.w, w)
    BY <1>1 DEF HandlerOK, SameLine, SlInv, Active
  <1> QED
    BY <1>1, <1>2, SimpleOK DEF SameLine

\* answer_ringing(), for a line that has a call to answer.
LEMMA AnswerOK ==
  ASSUME NEW w \in WorldType, NEW v \in WorldType, SameLine(v, w), SameCall(v, w),
         w.sl.state \in {"INCOMING", "RING", "HOLD"}
  PROVE  HandlerOK(answer_ringing(v), w)
  <1> DEFINE u == [v EXCEPT !.sl.selected = TRUE]
  <1>1. u \in WorldType /\ u.l = w.l /\ SameCall(u, w) /\ u.sl.selected
    BY DEF WorldType, SlType, SameLine, SameCall
  <1> HIDE DEF u
  <1>2. "CONNECTED" \in LineStates /\ "CONNECTED" \notin Timed
    BY DEF LineStates, Timed
  <1>3. SlInv(w.sl) => Droppable(u.sl)
    BY <1>1 DEF SlInv, Droppable, SameCall
  <1>4. HandlerOK(Enter(u, "CONNECTED", FALSE), w)
    BY <1>1, <1>2, <1>3, EnterOK
  <1> QED
    BY <1>4 DEF answer_ringing, u

\* cease_ringing().
LEMMA CeaseOK ==
  ASSUME NEW w \in WorldType, NEW v \in WorldType, v.l = w.l
  PROVE  HandlerOK(cease_ringing(v), w)
  <1>1. call_drop(v) \in WorldType /\ call_drop(v).l = w.l
    BY DropFacts DEF SameLine
  <1>2. v.sl.armed \in BOOLEAN
    BY DEF WorldType, SlType
  <1> QED
    BY <1>1, <1>2, SimpleOK DEF cease_ringing

\* routed_call(), for a call we placed.
LEMMA RoutedOK ==
  ASSUME NEW w \in WorldType, NEW v \in WorldType, v.l = w.l,
         SlInv(w.sl) => v.sl.outgoing /\ v.sl.selected, NEW u \in routed_call(v)
  PROVE  HandlerOK(u, w)
  <1>1. CASE u = enter_sit(v)
    BY <1>1, SimpleOK
  <1>2. CASE v.sl.our # Nil /\ u = Enter(v, "CALLING", v.sl.armed)
    <2>1. v.sl.armed \in BOOLEAN
      BY DEF WorldType, SlType
    <2>2. "CALLING" \in LineStates /\ "CALLING" \notin Timed
      BY DEF LineStates, Timed
    <2>3. SlInv(w.sl) => Droppable(v.sl)
      BY <1>2 DEF Droppable
    <2> QED
      BY <1>2, <2>1, <2>2, <2>3, EnterOK
  <1> QED
    BY <1>1, <1>2 DEF routed_call

\* Putting a connected call on hold.
LEMMA HoldOK ==
  ASSUME NEW w \in WorldType, w.sl.state = "CONNECTED", NEW v \in hold(w)
  PROVE  HandlerOK(v, w)
  <1> DEFINE u == [w EXCEPT !.sl.selected = FALSE]
  <1>1. u \in WorldType /\ u.l = w.l /\ SameCall(u, w)
    BY DEF WorldType, SlType, SameCall
  <1>2. v = w \/ (w.sl.party # Nil /\ v = Enter(u, "HOLD", w.sl.armed))
    BY DEF hold
  <1> HIDE DEF u
  <1>3. w.sl.armed \in BOOLEAN
    BY DEF WorldType, SlType
  <1>4. CASE w.sl.party # Nil /\ v = Enter(u, "HOLD", w.sl.armed)
    <2>1. "HOLD" \in LineStates /\ "HOLD" \notin Timed /\ "HOLD" \notin Active
      BY DEF LineStates, Timed, Active
    <2>2. SlInv(w.sl) => Droppable(u.sl)
      BY <1>1 DEF SlInv, Droppable, SameCall
    <2>3. u.sl.party # Nil
      BY <1>1, <1>4 DEF SameCall
    <2> QED
      BY <1>1, <1>3, <1>4, <2>1, <2>2, <2>3, EnterOK
  <1> QED
    BY <1>2, <1>4, SimpleOK

\* The hook plays no part in the invariant, the selection only in a line that
\* is active.
LEMMA FlagsOK ==
  ASSUME NEW w \in WorldType, NEW a \in BOOLEAN, NEW b \in BOOLEAN
  PROVE  LET p == [w EXCEPT !.sl.offhook = a]
             q == [w EXCEPT !.sl.selected = a]
             r == [w EXCEPT !.sl.offhook = a, !.sl.selected = b]
         IN  /\ p \in WorldType /\ SameLine(p, w) /\ SameCall(p, w) /\ HandlerOK(p, w)
             /\ q \in WorldType /\ SameLine(q, w) /\ SameCall(q, w)
             /\ r \in WorldType /\ SameLine(r, w) /\ SameCall(r, w)
             /\ w.sl.state \notin Active => HandlerOK(q, w) /\ HandlerOK(r, w)
  <1> DEFINE p == [w EXCEPT !.sl.offhook = a]
             q == [w EXCEPT !.sl.selected = a]
             r == [w EXCEPT !.sl.offhook = a, !.sl.selected = b]
  <1>1. p \in WorldType /\ SameLine(p, w) /\ SameCall(p, w) /\ SameSelection(p, w)
    BY DEF WorldType, SlType, SameLine, SameCall, SameSelection
  <1>2. q \in WorldType /\ SameLine(q, w) /\ SameCall(q, w)
    BY DEF WorldType, SlType, SameLine, SameCall
  <1>3. r \in WorldType /\ SameLine(r, w) /\ SameCall(r, w)
    BY DEF WorldType, SlType, SameLine, SameCall
  <1>4. ASSUME NEW u \in WorldType, SameLine(u, w), SameCall(u, w),
               SameSelection(u, w) \/ w.sl.state \notin Active
        PROVE  HandlerOK(u, w)
    BY <1>4 DEF HandlerOK, SameLine, SameCall, SameSelection, SlInv, Droppable
  <1> HIDE DEF p, q, r
  <1>5. HandlerOK(p, w) /\ (w.sl.state \notin Active => HandlerOK(q, w) /\ HandlerOK(r, w))
    BY <1>1, <1>2, <1>3, <1>4
  <1> QED
    BY <1>1, <1>2, <1>3, <1>5 DEF p, q, r

\* Handlers may be chained.
LEMMA ChainOK ==
  ASSUME NEW w \in WorldType, NEW v, NEW u, HandlerOK(v, w), HandlerOK(u, v)
  PROVE  HandlerOK(u, w)
  BY DEF HandlerOK, SameLine, Watched

\* A number that is added to stays within its buffer.
LEMMA DigitsFacts ==
  ASSUME NEW sl \in SlType, NEW n \in Nat
  PROVE  /\ add_digits(sl, n) \in SlType
         /\ add_digits(sl, n).outgoing = sl.outgoing
         /\ add_digits(sl, n).selected = sl.selected
  <1>1. sl.digits \in 0 .. MaxDigits
    BY DEF SlType
  <1> DEFINE d == IF sl.digits + n > MaxDigits THEN MaxDigits ELSE sl.digits + n
  <1>2. d \in 0 .. MaxDigits
    BY <1>1, LineBoundsAssumption
  <1>3. add_digits(sl, n) = [sl EXCEPT !.digits = d]
    BY DEF add_digits
  <1> HIDE DEF d
  <1> QED
    BY <1>2, <1>3 DEF SlType

\* cctl_hangup_nolock() ends whatever the line does.
LEMMA HangupOK ==
  ASSUME NEW w \in WorldType
  PROVE  /\ HandlerOK(cctl_hangup_nolock(w), w)
         /\ cctl_hangup_nolock(w).sl.state \in {"DISABLED", "IDLE"}
  <1>0. "IDLE" \in LineStates
    BY DEF LineStates
  <1>1. CASE w.sl.state \in {"DISABLED", "IDLE"}
    BY <1>1, SimpleOK DEF cctl_hangup_nolock
  <1>2. CASE w.sl.state = "HOLD"
    <2> DEFINE u == [w EXCEPT !.sl.outgoing = FALSE]
    <2>1. u \in WorldType /\ u.l = w.l
      BY DEF WorldType, SlType
    <2>2. cctl_hangup_nolock(w) = Enter(do_hangup(u, TRUE), "IDLE", FALSE)
      BY <1>2 DEF cctl_hangup_nolock
    <2> HIDE DEF u
    <2>3. do_hangup(u, TRUE) \in WorldType /\ do_hangup(u, TRUE).l = w.l
      BY <2>1, HangupFacts DEF SameLine
    <2>4. cctl_hangup_nolock(w).sl.state = "IDLE"
      BY <2>2, <2>3 DEF Enter, WorldType, SlType
    <2>5. HandlerOK(cctl_hangup_nolock(w), w)
      BY <2>2, <2>3, SimpleOK
    <2> QED
      BY <2>4, <2>5
  <1>3. CASE w.sl.state = "INCOMING"
    <2>1. call_drop(w) \in WorldType /\ call_drop(w).l = w.l
      BY DropFacts DEF SameLine
    <2>2. cctl_hangup_nolock(w) = Enter(call_drop(w), "IDLE", TRUE)
      BY <1>3 DEF cctl_hangup_nolock
    <2>3. cctl_hangup_nolock(w).sl.state = "IDLE"
      BY <2>1, <2>2 DEF Enter, WorldType, SlType
    <2>4. HandlerOK(cctl_hangup_nolock(w), w)
      BY <2>1, <2>2, SimpleOK
    <2> QED
      BY <2>3, <2>4
  <1>4. CASE w.sl.state = "RING"
    <2>1. call_drop(w) \in WorldType /\ w.sl.armed \in BOOLEAN
      BY DropFacts DEF WorldType, SlType
    <2>2. cctl_hangup_nolock(w) = cease_ringing(w)
      BY <1>4 DEF cctl_hangup_nolock
    <2>3. cease_ringing(w).sl.state = "IDLE"
      BY <1>0, <2>1, EnterFacts DEF cease_ringing
    <2> QED
      BY <2>2, <2>3, CeaseOK
  <1>5. CASE w.sl.state \notin {"DISABLED", "IDLE", "HOLD", "INCOMING", "RING"}
    <2>1. do_hangup(w, TRUE) \in WorldType /\ do_hangup(w, TRUE).l = w.l
      BY HangupFacts DEF SameLine
    <2>2. cctl_hangup_nolock(w) = Enter(do_hangup(w, TRUE), "IDLE", FALSE)
      BY <1>5 DEF cctl_hangup_nolock
    <2>3. cctl_hangup_nolock(w).sl.state = "IDLE"
      BY <2>1, <2>2 DEF Enter, WorldType, SlType
    <2>4. HandlerOK(cctl_hangup_nolock(w), w)
      BY <2>1, <2>2, SimpleOK
    <2> QED
      BY <2>3, <2>4
  <1> QED
    BY <1>1, <1>2, <1>3, <1>4, <1>5

\* The calls of the console and of the station.
LEMMA ExternalOK ==
  ASSUME NEW w \in WorldType,
         NEW v \in UNION {cctl_enable(w), cctl_disable(w), cctl_select(w), cctl_unselect(w),
                          cctl_hold(w), cctl_hangup(w)}
  PROVE  HandlerOK(v, w)
  <1> DEFINE h == cctl_hangup_nolock(w)
  <1>1. HandlerOK(h, w) /\ h \in WorldType /\ h.l = w.l /\ h.sl.state \notin Active
    BY HangupOK DEF HandlerOK, Active
  <1>2. CASE v \in cctl_enable(w)
    <2> DEFINE u == [w EXCEPT !.sl.selected = FALSE, !.sl.offhook = FALSE]
    <2>1. u \in WorldType /\ u.l = w.l
      BY DEF WorldType, SlType
    <2>2. v = w \/ v = Enter(u, "IDLE", FALSE)
      BY <1>2 DEF cctl_enable
    <2> HIDE DEF u
    <2> QED
      BY <2>1, <2>2, SimpleOK
  <1> HIDE DEF h
  <1>3. [h EXCEPT !.sl.selected = FALSE] \in WorldType
          /\ [h EXCEPT !.sl.selected = FALSE].l = w.l /\ HandlerOK([h EXCEPT !.sl.selected = FALSE], w)
    <2>1. HandlerOK([h EXCEPT !.sl.selected = FALSE], h)
      BY <1>1, FlagsOK
    <2> QED
      BY <1>1, <2>1, ChainOK DEF HandlerOK
  <1>4. CASE v \in cctl_disable(w)
    <2> DEFINE q == [h EXCEPT !.sl.selected = FALSE]
    <2>1. v = Enter(q, "DISABLED", h.sl.armed)
      BY <1>4 DEF cctl_disable, h
    <2>2. h.sl.armed \in BOOLEAN
      BY <1>1 DEF WorldType, SlType
    <2> HIDE DEF q
    <2>3. q \in WorldType /\ q.l = w.l
      BY <1>3 DEF q
    <2> QED
      BY <2>1, <2>2, <2>3, SimpleOK
  <1>5. CASE v \in cctl_hold(w)
    BY <1>5, HoldOK, SimpleOK DEF cctl_hold
  <1>6. CASE v \in cctl_unselect(w)
    <2>1. \/ v = [w EXCEPT !.sl.selected = FALSE] /\ w.sl.state \notin Active
          \/ v = [h EXCEPT !.sl.selected = FALSE]
          \/ v \in cctl_hold(w)
      BY <1>6 DEF cctl_unselect, h, Active
    <2> QED
      BY <2>1, <1>3, FlagsOK, HoldOK, SimpleOK DEF cctl_hold
  <1>7. CASE v \in cctl_hangup(w)
    BY <1>7, <1>1 DEF cctl_hangup, h
  <1>8. CASE v \in cctl_select(w)
    <2>1. CASE w.sl.state = "IDLE"
      <3>1. PICK o \in provide_dialtone(w) : v = IF o.ok THEN enter_dialtone(o.w) ELSE o.w
        BY <1>8, <2>1 DEF cctl_select
      <3> QED
        BY <2>1, <3>1, ProvidedOK DEF SameLine
    <2>2. CASE w.sl.state = "HOLD"
      <3>1. v = [w EXCEPT !.sl.offhook = TRUE, !.sl.selected = TRUE]
        BY <1>8, <2>2 DEF cctl_select, pickup_held
      <3> QED
        BY <2>2, <3>1, FlagsOK DEF Active
    <2>3. CASE w.sl.state = "RING"
      <3> DEFINE u == [w EXCEPT !.sl.offhook = TRUE]
      <3>1. u \in WorldType /\ SameLine(u, w) /\ SameCall(u, w)
        BY FlagsOK
      <3>2. v = w \/ v = answer_ringing(u)
        BY <1>8, <2>3 DEF cctl_select
      <3> HIDE DEF u
      <3> QED
        BY <2>3, <3>1, <3>2, AnswerOK, SimpleOK
    <2>4. CASE w.sl.state \notin {"IDLE", "HOLD", "RING"}
      BY <1>8, <2>4, SimpleOK DEF cctl_select
    <2> QED
      BY <2>1, <2>2, <2>3, <2>4
  <1> QED
    BY <1>2, <1>4, <1>5, <1>6, <1>7, <1>8

\* A key that is pressed, or a digit that is heard, joins the number.
LEMMA CollectOK ==
  ASSUME NEW w \in WorldType, NEW v \in WorldType, v.l = w.l,
         SlInv(w.sl) => v.sl.outgoing /\ v.sl.selected, NEW n \in Nat
  PROVE  LET c == Enter([v EXCEPT !.sl = add_digits(v.sl, n)], "COLLECTING", TRUE)
         IN  /\ c \in WorldType /\ c.l = w.l /\ HandlerOK(c, w)
             /\ SlInv(w.sl) => c.sl.outgoing /\ c.sl.selected
  <1> DEFINE u == [v EXCEPT !.sl = add_digits(v.sl, n)]
             c == Enter(u, "COLLECTING", TRUE)
  <1>1. v.sl \in SlType
    BY DEF WorldType
  <1>2. u \in WorldType /\ u.l = w.l /\ (SlInv(w.sl) => u.sl.outgoing /\ u.sl.selected)
    BY <1>1, DigitsFacts DEF WorldType
  <1> HIDE DEF u
  <1>3. "COLLECTING" \in LineStates
    BY DEF LineStates
  <1>4. c \in WorldType /\ c.l = w.l /\ (SlInv(w.sl) => c.sl.outgoing /\ c.sl.selected)
    BY <1>2, <1>3, EnterFacts DEF SameCall, SameSelection
  <1>5. HandlerOK(c, w)
    BY <1>2, <1>3, EnterOK
  <1> QED
    BY <1>4, <1>5 DEF u

\* state_idle().
LEMMA IdleOK ==
  ASSUME NEW w \in WorldType, w.sl.state = "IDLE", NEW evt, NEW v \in state_idle(w, evt)
  PROVE  HandlerOK(v, w)
  <1>1. ASSUME NEW u \in WorldType, SameLine(u, w), SameCall(u, w), v \in enter_dialtone_or_sit(u)
        PROVE  HandlerOK(v, w)
    <2>1. PICK o \in provide_dialtone(u) : v = IF o.ok THEN enter_dialtone(o.w) ELSE enter_sit(o.w)
      BY <1>1 DEF enter_dialtone_or_sit
    <2>2. SlInv(u.sl) /\ u.sl.state = "IDLE"
      BY <1>1 DEF SlInv, SameLine, Active
    <2> QED
      BY <1>1, <2>1, <2>2, ProvidedOK
  <1>2. CASE evt = "blf"
    BY <1>1, <1>2 DEF state_idle, SameLine, SameCall
  <1>3. CASE evt = "offhook"
    <2> DEFINE u == [w EXCEPT !.sl.offhook = TRUE]
    <2>1. u \in WorldType /\ SameLine(u, w) /\ SameCall(u, w)
      BY FlagsOK
    <2>2. v \in enter_dialtone_or_sit(u)
      BY <1>3 DEF state_idle
    <2> HIDE DEF u
    <2> QED
      BY <2>1, <2>2, <1>1
  <1>4. CASE evt = "pad" /\ PadOffhook
    <2>1. PICK o \in provide_dialtone(w) :
            v = IF o.ok
                  THEN Enter([o.w EXCEPT !.sl = add_digits([o.w.sl EXCEPT !.digits = 0], 1)],
                             "COLLECTING", TRUE)
                  ELSE enter_sit(o.w)
      BY <1>4 DEF state_idle
    <2>2. /\ o.w \in WorldType /\ o.w.l = w.l /\ HandlerOK(enter_sit(o.w), w)
          /\ o.ok => o.w.sl.outgoing /\ o.w.sl.selected
      BY ProvidedOK, DialtoneFacts DEF SameLine, SlInv
    <2>3. CASE o.ok
      <3> DEFINE x == [o.w EXCEPT !.sl.digits = 0]
      <3>1. x \in WorldType /\ x.l = w.l /\ x.sl.outgoing /\ x.sl.selected
        BY <2>2, <2>3, LineBoundsAssumption DEF WorldType, SlType
      <3>2. [o.w EXCEPT !.sl = add_digits([o.w.sl EXCEPT !.digits = 0], 1)]
              = [x EXCEPT !.sl = add_digits(x.sl, 1)]
        BY <2>2 DEF WorldType
      <3> HIDE DEF x
      <3>3. v = Enter([x EXCEPT !.sl = add_digits(x.sl, 1)], "COLLECTING", TRUE)
        BY <2>1, <2>3, <3>2
      <3> QED
        BY <3>1, <3>3, CollectOK
    <2> QED
      BY <2>1, <2>2, <2>3
  <1>5. CASE evt \notin {"blf", "offhook"} /\ ~(evt = "pad" /\ PadOffhook)
    BY <1>5, SimpleOK DEF state_idle
  <1> QED
    BY <1>2, <1>3, <1>4, <1>5

\* state_dropped_or_onhook().
LEMMA OnhookOK ==
  ASSUME NEW w \in WorldType, NEW evt, NEW v \in state_dropped_or_onhook(w, evt)
  PROVE  HandlerOK(v, w)
  <1>1. \A f \in BOOLEAN : do_hangup(w, f) \in WorldType /\ do_hangup(w, f).l = w.l
    BY HangupFacts DEF SameLine
  <1>2. w.sl.armed \in BOOLEAN
    BY DEF WorldType, SlType
  <1>3. \/ v = w \/ v = Enter(do_hangup(w, FALSE), "DROP", TRUE)
        \/ v = Enter(do_hangup(w, TRUE), "IDLE", w.sl.armed)
    BY DEF state_dropped_or_onhook, enter_drop
  <1> QED
    BY <1>1, <1>2, <1>3, SimpleOK

\* cctl_process_evt().
LEMMA EventOK ==
  ASSUME NEW w \in WorldType, NEW evt, NEW v \in cctl_process_evt(w, evt)
  PROVE  HandlerOK(v, w)
  <1>1. CASE v = w
    BY <1>1, SimpleOK
  <1>2. CASE w.sl.state = "IDLE" /\ v \in state_idle(w, evt)
    BY <1>2, IdleOK
  <1>3. CASE v \in state_dropped_or_onhook(w, evt)
    BY <1>3, OnhookOK
  <1>4. CASE w.sl.state = "CONNECTED" /\ v \in state_connected(w, evt)
    BY <1>4, OnhookOK, HoldOK DEF state_connected
  <1>5. CASE w.sl.state = "HOLD" /\ v \in state_hold(w, evt)
    <2>1. \/ v = w \/ v = [w EXCEPT !.sl.offhook = TRUE, !.sl.selected = TRUE]
          \/ v = [w EXCEPT !.sl.offhook = FALSE]
      BY <1>5 DEF state_hold, pickup_held
    <2> QED
      BY <1>5, <2>1, SimpleOK, FlagsOK DEF Active
  <1>6. CASE v \in state_incoming(w, evt)
    <2>1. v = w \/ \E b \in BOOLEAN : v = [w EXCEPT !.sl.offhook = b]
      BY <1>6 DEF state_incoming
    <2> QED
      BY <2>1, SimpleOK, FlagsOK
  <1>7. CASE w.sl.state = "RING" /\ v \in state_ring(w, evt)
    <2> DEFINE u == [w EXCEPT !.sl.offhook = TRUE]
    <2>1. u \in WorldType /\ SameLine(u, w) /\ SameCall(u, w)
      BY FlagsOK
    <2>2. v = w \/ v = cease_ringing(w) \/ v = answer_ringing(u)
      BY <1>7 DEF state_ring
    <2> HIDE DEF u
    <2> QED
      BY <1>7, <2>1, <2>2, SimpleOK, CeaseOK, AnswerOK
  <1>8. CASE v \in state_drop(w, evt)
    <2> DEFINE u == [w EXCEPT !.sl.offhook = FALSE]
    <2>1. u \in WorldType /\ u.l = w.l
      BY FlagsOK DEF SameLine
    <2>2. v = w \/ v = Enter(u, "IDLE", FALSE)
      BY <1>8 DEF state_drop
    <2> HIDE DEF u
    <2> QED
      BY <2>1, <2>2, SimpleOK
  <1>9. w.sl.state \in LineStates
    BY DEF WorldType, SlType
  <1>10. \/ v = w
         \/ w.sl.state = "IDLE" /\ v \in state_idle(w, evt)
         \/ v \in state_dropped_or_onhook(w, evt)
         \/ w.sl.state = "CONNECTED" /\ v \in state_connected(w, evt)
         \/ w.sl.state = "HOLD" /\ v \in state_hold(w, evt)
         \/ v \in state_incoming(w, evt)
         \/ w.sl.state = "RING" /\ v \in state_ring(w, evt)
         \/ v \in state_drop(w, evt)
    BY <1>9 DEF cctl_process_evt, LineStates
  <1> QED
    BY <1>1, <1>2, <1>3, <1>4, <1>5, <1>6, <1>7, <1>8, <1>10

\* Entering a state with the timer it needs.
LEMMA EnterWatched ==
  ASSUME NEW w \in WorldType, NEW s \in LineStates, NEW a \in BOOLEAN, s \in Timed => a
  PROVE  Watched(Enter(w, s, a).sl)
  BY EnterFacts DEF Watched

\* line_tmr_hndlr(): the line it leaves behind is watched again, or in a state
\* that needs no watching.
LEMMA TimerOK ==
  ASSUME NEW w \in WorldType, NEW v \in TimerActs(w)
  PROVE  HandlerOK(v, w) /\ Watched(v.sl)
  <1> USE DEF enter_sit
  <1>1. {"SIT", "CALLING", "IDLE", "DIALTONE"} \subseteq LineStates
          /\ "CALLING" \notin Timed /\ "IDLE" \notin Timed
    BY DEF LineStates, Timed
  <1>2. w.sl.armed \in BOOLEAN
    BY DEF WorldType, SlType
  <1>3. CASE w.sl.state \in {"DIALTONE", "COLLECTING"}
    <2>1. v \in routed_call(w) \/ v = enter_sit(w)
      BY <1>3 DEF TimerActs
    <2>2. v = Enter(w, "SIT", TRUE) \/ v = Enter(w, "CALLING", w.sl.armed)
      BY <2>1 DEF routed_call
    <2>3. SlInv(w.sl) => w.sl.outgoing /\ w.sl.selected
      BY <1>3 DEF SlInv, Active
    <2>4. HandlerOK(v, w)
      BY <2>1, <2>3, RoutedOK, SimpleOK
    <2> QED
      BY <1>1, <1>2, <2>2, <2>4, EnterWatched
  <1>4. CASE w.sl.state = "DROP"
    <2>1. CASE v = Enter(w, "IDLE", FALSE)
      BY <1>1, <2>1, SimpleOK, EnterWatched
    <2>2. ASSUME NEW o \in provide_dialtone(w),
                 v = IF o.ok THEN enter_dialtone(o.w) ELSE Enter(o.w, "IDLE", o.w.sl.armed)
          PROVE  HandlerOK(v, w) /\ Watched(v.sl)
      <3>1. o.w \in WorldType /\ o.w.l = w.l /\ (o.ok => o.w.sl.outgoing /\ o.w.sl.selected)
        BY DialtoneFacts DEF SameLine
      <3>2. o.w.sl.armed \in BOOLEAN
        BY <3>1 DEF WorldType, SlType
      <3>3. HandlerOK(v, w)
        BY <2>2, <3>1, <3>2, SimpleOK
      <3> DEFINE u == [o.w EXCEPT !.sl.digits = 0]
      <3>4. u \in WorldType
        BY <3>1, LineBoundsAssumption DEF WorldType, SlType
      <3>5. v = Enter(u, "DIALTONE", TRUE) \/ v = Enter(o.w, "IDLE", o.w.sl.armed)
        BY <2>2 DEF enter_dialtone
      <3> HIDE DEF u
      <3> QED
        BY <1>1, <3>1, <3>2, <3>3, <3>4, <3>5, EnterWatched
    <2>3. \/ v = Enter(w, "IDLE", FALSE)
          \/ \E o \in provide_dialtone(w) :
               v = IF o.ok THEN enter_dialtone(o.w) ELSE Enter(o.w, "IDLE", o.w.sl.armed)
      BY <1>4 DEF TimerActs
    <2> QED
      BY <2>1, <2>2, <2>3
  <1>5. CASE w.sl.state \in {"INCOMING", "SIT"}
    <2>1. do_hangup(w, TRUE) \in WorldType /\ do_hangup(w, TRUE).l = w.l
      BY HangupFacts DEF SameLine
    <2>2. v = Enter(do_hangup(w, TRUE), "IDLE", FALSE)
      BY <1>5 DEF TimerActs
    <2> QED
      BY <1>1, <2>1, <2>2, SimpleOK, EnterWatched
  <1>6. CASE w.sl.state \notin {"DIALTONE", "COLLECTING", "DROP", "INCOMING", "SIT"}
    <2>1. v = w
      BY <1>6 DEF TimerActs
    <2> QED
      BY <1>6, <2>1, SimpleOK DEF Watched, Timed
  <1> QED
    BY <1>3, <1>4, <1>5, <1>6
-----------------------------------------------------------------------------
(* Messages from the engine.                                               *)

\* process_call_execute().
LEMMA CallExecuteOK ==
  ASSUME NEW w \in WorldType, NEW id \in Chans, NEW v \in process_call_execute(w, id)
  PROVE  HandlerOK(v, w)
  <1> DEFINE u == [w EXCEPT !.sl.outgoing = FALSE]
  <1>1. u \in WorldType /\ u.l = w.l /\ u.sl.outgoing = FALSE
    BY DEF WorldType, SlType
  <1>2. v = w \/ \E x \in new_calltrack(Remember(u, "party", id)) : v = Enter(x, "INCOMING", TRUE)
    BY DEF process_call_execute
  <1> HIDE DEF u
  <1>3. ASSUME NEW x \in new_calltrack(Remember(u, "party", id)), v = Enter(x, "INCOMING", TRUE)
        PROVE  HandlerOK(v, w)
    <2>1. /\ Remember(u, "party", id) \in WorldType /\ Remember(u, "party", id).l = w.l
          /\ Remember(u, "party", id).sl.party = id
          /\ Remember(u, "party", id).sl.outgoing = FALSE
      BY <1>1, RememberFacts DEF SameLine
    <2>2. x \in WorldType /\ x.l = w.l /\ x.sl.party = id /\ x.sl.outgoing = FALSE
      BY <2>1, CalltrackFacts DEF SameLine, SameCall
    <2>3. Droppable(x.sl)
      BY <2>2, LinesAssumption DEF Droppable
    <2>4. "INCOMING" \in LineStates /\ "INCOMING" \notin Active
      BY DEF LineStates, Active
    <2> QED
      BY <1>3, <2>2, <2>3, <2>4, EnterOK
  <1> QED
    BY <1>2, <1>3, SimpleOK

\* process_call_answered().
LEMMA CallAnsweredOK ==
  ASSUME NEW w \in WorldType, NEW id \in Chans \cup {Nil}
  PROVE  HandlerOK(process_call_answered(w, id), w)
  <1> DEFINE x == IF id = Nil THEN w ELSE Remember(Forget(w, "party"), "party", id)
  <1>1. CASE w.sl.state # "CALLING"
    BY <1>1, SimpleOK DEF process_call_answered
  <1>2. CASE w.sl.state = "CALLING"
    <2>1. /\ x \in WorldType /\ x.l = w.l /\ x.sl.our = w.sl.our
          /\ x.sl.outgoing = w.sl.outgoing /\ (w.sl.party # Nil => x.sl.party # Nil)
          /\ x.sl.selected = w.sl.selected
      <3>1. CASE id = Nil
        BY <3>1
      <3>2. CASE id # Nil
        BY <3>2, ForgetFacts, RememberFacts DEF SameLine, SameSelection
      <3> QED
        BY <3>1, <3>2
    <2>2. process_call_answered(w, id) = Enter(x, "CONNECTED", TRUE)
      BY <1>2 DEF process_call_answered
    <2> HIDE DEF x
    <2>3. SlInv(w.sl) => Droppable(x.sl) /\ x.sl.selected
      BY <1>2, <2>1 DEF SlInv, Droppable, Active
    <2>4. "CONNECTED" \in LineStates
      BY DEF LineStates
    <2> QED
      BY <2>1, <2>2, <2>3, <2>4, EnterOK
  <1> QED
    BY <1>1, <1>2

\* preprocess_chan_startup().
LEMMA PreStartupOK ==
  ASSUME NEW w \in WorldType, NEW id \in Chans
  PROVE  HandlerOK(preprocess_chan_startup(w, id), w)
  <1> DEFINE x == Remember(Forget(w, "our"), "our", id)
  <1>1. /\ x \in WorldType /\ SameLine(x, w) /\ x.sl.our = id
        /\ x.sl.party = w.sl.party /\ x.sl.outgoing = w.sl.outgoing
        /\ x.sl.selected = w.sl.selected
    BY ForgetFacts, RememberFacts DEF SameLine, SameSelection
  <1>2. preprocess_chan_startup(w, id) \in {w, x}
    BY DEF preprocess_chan_startup
  <1> HIDE DEF x
  <1>3. SlInv(w.sl) => SlInv(x.sl)
    BY <1>1, LinesAssumption DEF SlInv, Droppable, SameLine
  <1> QED
    BY <1>1, <1>2, <1>3, SimpleOK DEF HandlerOK, SameLine

\* process_chan_startup().
LEMMA StartupOK ==
  ASSUME NEW w \in WorldType, NEW v \in process_chan_startup(w)
  PROVE  HandlerOK(v, w)
  <1>1. CASE w.sl.state \notin {"INCOMING", "HOLD"}
    BY <1>1, SimpleOK DEF process_chan_startup
  <1>2. CASE w.sl.state \in {"INCOMING", "HOLD"}
    <2>1. v = answer_ringing(w) \/ v = Enter(w, "RING", FALSE)
      BY <1>2 DEF process_chan_startup
    <2>2. HandlerOK(answer_ringing(w), w)
      BY <1>2, AnswerOK DEF SameLine, SameCall
    <2>3. "RING" \in LineStates /\ "RING" \notin Timed /\ "RING" \notin Active
      BY DEF LineStates, Timed, Active
    <2>4. SlInv(w.sl) => Droppable(w.sl)
      BY <1>2 DEF SlInv
    <2>5. HandlerOK(Enter(w, "RING", FALSE), w)
      BY <2>3, <2>4, EnterOK
    <2> QED
      BY <2>1, <2>2, <2>5
  <1> QED
    BY <1>1, <1>2

\* process_chan_dtmf().
LEMMA DtmfOK ==
  ASSUME NEW w \in WorldType, NEW text, NEW v \in process_chan_dtmf(w, text)
  PROVE  HandlerOK(v, w)
  <1>1. CASE w.sl.state \notin {"DIALTONE", "COLLECTING"}
    BY <1>1, SimpleOK DEF process_chan_dtmf
  <1>2. CASE w.sl.state \in {"DIALTONE", "COLLECTING"}
    <2> DEFINE n == IF text = "#" THEN 0 ELSE 1
               c == Enter([w EXCEPT !.sl = add_digits(w.sl, n)], "COLLECTING", TRUE)
               d == [c EXCEPT !.sl.armed = FALSE]
    <2>1. SlInv(w.sl) => w.sl.outgoing /\ w.sl.selected
      BY <1>2 DEF SlInv, Active
    <2>2. n \in Nat
      OBVIOUS
    <2>3. /\ c \in WorldType /\ c.l = w.l /\ HandlerOK(c, w)
          /\ SlInv(w.sl) => c.sl.outgoing /\ c.sl.selected
      <3> HIDE DEF n
      <3> QED
        BY <2>1, <2>2, CollectOK
    <2>4. v \in routed_call(d) \/ v = c
      BY <1>2 DEF process_chan_dtmf
    <2> HIDE DEF c
    <2>5. d \in WorldType /\ d.l = w.l /\ (SlInv(w.sl) => d.sl.outgoing /\ d.sl.selected)
      BY <2>3 DEF WorldType, SlType
    <2> HIDE DEF d
    <2> QED
      BY <2>3, <2>4, <2>5, RoutedOK
  <1> QED
    BY <1>1, <1>2

\* process_chan_disconnect().
LEMMA DisconnectOK ==
  ASSUME NEW w \in WorldType, NEW id \in Chans, NEW v \in process_chan_disconnect(w, id)
  PROVE  HandlerOK(v, w)
  <1> DEFINE x == IF w.sl.our = Nil THEN Remember(w, "our", id) ELSE w
  <1>1. /\ x \in WorldType /\ SameLine(x, w)
        /\ x.sl.party = w.sl.party /\ x.sl.outgoing = w.sl.outgoing
        /\ x.sl.selected = w.sl.selected
        /\ w.sl.our # Nil => x.sl.our # Nil
    BY RememberFacts DEF SameLine, SameSelection
  <1>2. \/ \E o \in out_call_exec(x) : v = enter_sit(o.w)
        \/ v = Enter(x, "IDLE", FALSE)
        \/ v = cease_ringing(x)
        \/ v = x
    BY DEF process_chan_disconnect
  <1> HIDE DEF x
  <1>3. HandlerOK(x, w)
    BY <1>1 DEF HandlerOK, SlInv, Droppable, SameLine
  <1>4. \A o \in out_call_exec(x) : o.w \in WorldType /\ o.w.l = w.l
    BY <1>1, ExecFacts DEF SameLine
  <1>5. x.l = w.l
    BY <1>1 DEF SameLine
  <1> QED
    BY <1>1, <1>2, <1>3, <1>4, <1>5, SimpleOK, CeaseOK

\* process_chan_hangup().
LEMMA ChanHangupOK ==
  ASSUME NEW w \in WorldType, NEW v \in process_chan_hangup(w)
  PROVE  HandlerOK(v, w)
  <1>1. \/ v = w
        \/ \E o \in out_call_exec(w) : v = enter_sit(o.w)
        \/ v = Enter(do_hangup(w, TRUE), "IDLE", FALSE)
    BY DEF process_chan_hangup
  <1>2. \A o \in out_call_exec(w) : o.w \in WorldType /\ o.w.l = w.l
    BY ExecFacts DEF SameLine
  <1>3. do_hangup(w, TRUE) \in WorldType /\ do_hangup(w, TRUE).l = w.l
    BY HangupFacts DEF SameLine
  <1> QED
    BY <1>1, <1>2, <1>3, SimpleOK
-----------------------------------------------------------------------------
(* The invariant.                                                          *)

RdType == [Readers -> [pc : {"idle", "selected", "hook"}, msg : Messages \cup {Nil},
                       line : Lines \cup {Nil}, id : Chans \cup {Nil}, text : Texts \cup {Nil}]]

\* A line's world, while the invariant holds.
LEMMA WorldFacts ==
  ASSUME LineInv, NEW l \in Lines
  PROVE  World(l) \in WorldType /\ World(l).l = l /\ World(l).sl = line[l] /\ SlInv(World(l).sl)
  BY DEF World, WorldType, SlType, CdbType, LineInv, LineTypeOK

\* A line that does what its handler wants keeps the invariant, also when a
\* timer thread ended, provided that the thread left the line watched.
LEMMA BecomesOK ==
  ASSUME LineInv, NEW l \in Lines, NEW w, HandlerOK(w, World(l)), Becomes(w),
         expired' \in [Lines -> 0 .. MaxExpired],
         \A k \in Lines \ {l} : expired'[k] = expired[k],
         expired'[l] = expired[l] \/ Watched(w.sl),
         rd' \in RdType, RdInv'
  PROVE  LineInv'
  <1>1. World(l).l = l /\ World(l).sl = line[l] /\ SlInv(line[l])
    BY WorldFacts
  <1>2. w \in WorldType /\ w.l = l /\ (Watched(w.sl) \/ SameLine(w, World(l))) /\ SlInv(w.sl)
    BY <1>1 DEF HandlerOK
  <1>3. line' = [line EXCEPT ![l] = w.sl] /\ cdb' = w.cdb
    BY <1>2 DEF Becomes
  <1>4. w.sl \in SlType /\ w.cdb \in CdbType
    BY <1>2 DEF WorldType
  <1>5. line \in [Lines -> SlType] /\ TimedIsWatched /\ \A k \in Lines : SlInv(line[k])
    BY DEF LineInv, LineTypeOK, SlType
  <1>6. line' \in [Lines -> SlType] /\ line'[l] = w.sl
          /\ \A k \in Lines \ {l} : line'[k] = line[k]
    BY <1>3, <1>4, <1>5
  <1>7. LineTypeOK'
    BY <1>3, <1>4, <1>6 DEF LineTypeOK, SlType, CdbType, RdType
  <1>8. \A k \in Lines : SlInv(line'[k])
    BY <1>2, <1>5, <1>6
  <1>9. TimedIsWatched'
    <2>1. ASSUME NEW k \in Lines, line'[k].state \in Timed
          PROVE  line'[k].armed \/ expired'[k] > 0
      <3>1. CASE k # l
        BY <1>5, <1>6, <2>1, <3>1 DEF TimedIsWatched
      <3>2. CASE k = l /\ Watched(w.sl)
        BY <1>6, <2>1, <3>2 DEF Watched
      <3>3. CASE k = l /\ ~Watched(w.sl)
        <4>1. w.sl.state = line[l].state /\ w.sl.armed = line[l].armed /\ expired'[l] = expired[l]
          BY <1>1, <1>2, <3>3 DEF SameLine
        <4> QED
          BY <1>5, <1>6, <2>1, <3>3, <4>1 DEF TimedIsWatched
      <3> QED
        BY <3>1, <3>2, <3>3
    <2> QED
      BY <2>1 DEF TimedIsWatched
  <1> QED
    BY <1>7, <1>8, <1>9 DEF LineInv

\* Initially every line is disabled.
LEMMA InitOK == Init => LineInv
  <1> SUFFICES ASSUME Init PROVE LineInv
    OBVIOUS
  <1>1. LineTypeOK
    BY LineBoundsAssumption DEF Init, LineTypeOK, LineStates, ReaderIdle
  <1>2. RdInv
    BY DEF Init, RdInv, ReaderIdle
  <1>3. TimedIsWatched
    BY DEF Init, TimedIsWatched, Timed
  <1>4. \A l \in Lines : SlInv(line[l])
    BY DEF Init, SlInv, Active
  <1> QED
    BY <1>1, <1>2, <1>3, <1>4 DEF LineInv

\* A reader that picks up a message carries a line and, where the handler needs
\* one, an id.
LEMMA SelectOK ==
  ASSUME LineInv, NEW r \in Readers, NEW l \in Lines, Preselect(r, l)
  PROVE  LineInv'
  <1>1. \E msg \in Messages, id \in Chans \cup {Nil}, text \in Texts \cup {Nil} :
          /\ Select(r, msg, l, id, text)
          /\ msg \in {"call.execute", "chan.startup", "chan.disconnected"} => id \in Chans
    <2>1. line \in [Lines -> SlType]
      BY DEF LineInv, LineTypeOK, SlType
    <2>2. NextChan \subseteq Chans
      BY ChanFacts
    <2>3. \A k \in Lines : line[k].our \in Chans \cup {Nil}
      BY <2>1 DEF SlType
    <2>4. CASE address_preselect(r, l)
      BY <2>4 DEF address_preselect, Messages
    <2>5. CASE callto_preselect(r, l)
      <3>1. InnerChans(l) \subseteq Chans
        BY <2>3 DEF InnerChans
      <3> QED
        BY <2>2, <2>5, <3>1 DEF callto_preselect, Messages
    <2>6. CASE peerid_preselect(r, l)
      BY <2>2, <2>3, <2>6 DEF peerid_preselect, Messages
    <2>7. CASE sym_id_preselect(r, l)
      BY <2>2, <2>7 DEF sym_id_preselect, Messages
    <2>8. CASE chan_disc_preselect(r, l)
      BY <2>8 DEF chan_disc_preselect, Messages
    <2>9. CASE chan_hangup_preselect(r, l)
      BY <2>9 DEF chan_hangup_preselect, Messages
    <2> QED
      BY <2>4, <2>5, <2>6, <2>7, <2>8, <2>9 DEF Preselect
  <1>2. PICK msg \in Messages, id \in Chans \cup {Nil}, text \in Texts \cup {Nil} :
          /\ Select(r, msg, l, id, text)
          /\ msg \in {"call.execute", "chan.startup", "chan.disconnected"} => id \in Chans
    BY <1>1
  <1> DEFINE m == [pc |-> "selected", msg |-> msg, line |-> l, id |-> id, text |-> text]
  <1>3. rd' = [rd EXCEPT ![r] = m] /\ UNCHANGED <<line, cdb, expired>>
    BY <1>2 DEF Select
  <1>4. rd \in RdType
    BY DEF LineInv, LineTypeOK, RdType
  <1>5. rd' \in RdType
    BY <1>3, <1>4 DEF RdType
  <1>6. RdInv'
    BY <1>2, <1>3, <1>4 DEF LineInv, RdInv, RdType
  <1>7. LineTypeOK'
    BY <1>3, <1>5 DEF LineInv, LineTypeOK, RdType
  <1> QED
    BY <1>3, <1>6, <1>7 DEF LineInv, TimedIsWatched

\* A reader that is done, or leaves the rest to a hook.
LEMMA ReaderDone ==
  ASSUME LineInv, NEW r \in Readers,
         \/ rd' = [rd EXCEPT ![r] = ReaderIdle]
         \/ rd[r].pc # "idle" /\ rd' = [rd EXCEPT ![r] = [rd[r] EXCEPT !.pc = "hook"]]
  PROVE  rd' \in RdType /\ RdInv'
  <1>1. rd \in RdType /\ RdInv
    BY DEF LineInv, LineTypeOK, RdType
  <1>2. CASE rd' = [rd EXCEPT ![r] = ReaderIdle]
    <2>1. rd' \in RdType
      BY <1>1, <1>2 DEF RdType, ReaderIdle
    <2>2. RdInv'
      BY <1>1, <1>2 DEF RdType, RdInv, ReaderIdle
    <2> QED
      BY <2>1, <2>2
  <1>3. CASE rd[r].pc # "idle" /\ rd' = [rd EXCEPT ![r] = [rd[r] EXCEPT !.pc = "hook"]]
    <2>1. rd' \in RdType
      BY <1>1, <1>3 DEF RdType
    <2>2. RdInv'
      BY <1>1, <1>3 DEF RdType, RdInv
    <2> QED
      BY <2>1, <2>2
  <1> QED
    BY <1>2, <1>3

\* cctl_process_msg().
LEMMA MessageOK ==
  ASSUME LineInv, NEW r \in Readers, cctl_process_msg(r)
  PROVE  LineInv'
  <1> DEFINE m == rd[r]
             w == World(m.line)
  <1>1. m.pc = "selected" /\ UNCHANGED expired
    BY DEF cctl_process_msg
  <1>2. /\ m.line \in Lines /\ m.id \in Chans \cup {Nil}
        /\ m.msg \in {"call.execute", "chan.startup", "chan.disconnected"} => m.id \in Chans
    BY <1>1 DEF LineInv, LineTypeOK, RdInv
  <1>3. rd' \in RdType /\ RdInv'
    <2>1. \/ rd' = [rd EXCEPT ![r] = ReaderIdle]
          \/ rd' = [rd EXCEPT ![r] = [rd[r] EXCEPT !.pc = "hook"]]
      BY DEF cctl_process_msg
    <2> QED
      BY <1>1, <2>1, ReaderDone
  <1>4. w \in WorldType
    BY <1>2, WorldFacts
  <1>5. \/ UNCHANGED <<line, cdb>>
        \/ m.msg = "call.answered" /\ Becomes(process_call_answered(w, m.id))
        \/ m.msg = "call.execute" /\ \E v \in process_call_execute(w, m.id) : Becomes(v)
        \/ m.msg = "chan.startup" /\ Becomes(preprocess_chan_startup(w, m.id))
    BY DEF cctl_process_msg
  <1>6. CASE UNCHANGED <<line, cdb>>
    BY <1>1, <1>3, <1>6 DEF LineInv, LineTypeOK, TimedIsWatched, RdType
  <1>7. ASSUME NEW v, HandlerOK(v, w), Becomes(v)
        PROVE  LineInv'
    <2>1. expired' \in [Lines -> 0 .. MaxExpired]
      BY <1>1 DEF LineInv, LineTypeOK
    <2> HIDE DEF m
    <2> QED
      BY <1>1, <1>2, <1>3, <1>7, <2>1, BecomesOK
  <1> HIDE DEF m, w
  <1> QED
    BY <1>2, <1>4, <1>5, <1>6, <1>7, CallAnsweredOK, CallExecuteOK, PreStartupOK

\* The dwhooks, whatever became of the line since the message was looked at.
LEMMA HookOK ==
  ASSUME LineInv, NEW r \in Readers, RunHook(r)
  PROVE  LineInv'
  <1> DEFINE m == rd[r]
             w == World(m.line)
  <1>1. m.pc = "hook" /\ UNCHANGED expired /\ rd' = [rd EXCEPT ![r] = ReaderIdle]
    BY DEF RunHook
  <1>2. m.line \in Lines /\ (m.msg = "chan.disconnected" => m.id \in Chans)
    BY <1>1 DEF LineInv, LineTypeOK, RdInv
  <1>3. rd' \in RdType /\ RdInv'
    BY <1>1, ReaderDone
  <1>4. w \in WorldType
    BY <1>2, WorldFacts
  <1>5. \/ \E v \in process_chan_dtmf(w, m.text) : Becomes(v)
        \/ m.msg = "chan.disconnected" /\ \E v \in process_chan_disconnect(w, m.id) : Becomes(v)
        \/ \E v \in process_chan_hangup(w) : Becomes(v)
        \/ \E v \in process_chan_startup(w) : Becomes(v)
    BY DEF RunHook
  <1>6. ASSUME NEW v, HandlerOK(v, w), Becomes(v)
        PROVE  LineInv'
    <2>1. expired' \in [Lines -> 0 .. MaxExpired]
      BY <1>1 DEF LineInv, LineTypeOK
    <2> HIDE DEF m
    <2> QED
      BY <1>1, <1>2, <1>3, <1>6, <2>1, BecomesOK
  <1> HIDE DEF m, w
  <1> QED
    BY <1>2, <1>4, <1>5, <1>6, DtmfOK, DisconnectOK, ChanHangupOK, StartupOK

\* External calls and events from the telephone.
LEMMA UserOK ==
  ASSUME LineInv, NEW l \in Lines, External(l) \/ PhoneEvent(l)
  PROVE  LineInv'
  <1>1. World(l) \in WorldType
    BY WorldFacts
  <1>2. /\ UNCHANGED <<expired, rd>> /\ expired \in [Lines -> 0 .. MaxExpired]
        /\ rd \in RdType /\ RdInv
    BY DEF External, PhoneEvent, LineInv, LineTypeOK, RdType
  <1>3. RdInv'
    BY <1>2 DEF RdInv
  <1>4. \E v : HandlerOK(v, World(l)) /\ Becomes(v)
    <2>1. CASE External(l)
      BY <1>1, <2>1, ExternalOK DEF External
    <2>2. CASE PhoneEvent(l)
      BY <1>1, <2>2, EventOK DEF PhoneEvent
    <2> QED
      BY <2>1, <2>2
  <1> QED
    BY <1>2, <1>3, <1>4, BecomesOK

\* A timer that runs out stays watched: its thread is on its way.
LEMMA ExpireOK ==
  ASSUME LineInv, NEW l \in Lines, Expire(l)
  PROVE  LineInv'
  <1>1. /\ line' = [line EXCEPT ![l].armed = FALSE]
        /\ expired' = [expired EXCEPT ![l] = @ + 1]
        /\ expired[l] < MaxExpired /\ UNCHANGED <<cdb, rd>>
    BY DEF Expire
  <1>2. line \in [Lines -> SlType] /\ expired \in [Lines -> 0 .. MaxExpired]
    BY DEF LineInv, LineTypeOK, SlType
  <1>3. line' \in [Lines -> SlType]
    BY <1>1, <1>2 DEF SlType
  <1>4. expired' \in [Lines -> 0 .. MaxExpired]
    BY <1>1, <1>2, LineBoundsAssumption
  <1>5. LineTypeOK'
    BY <1>1, <1>3, <1>4 DEF LineInv, LineTypeOK, SlType
  <1>6. TimedIsWatched'
    BY <1>1, <1>2, LineBoundsAssumption DEF LineInv, TimedIsWatched, SlType
  <1>7. \A k \in Lines : SlInv(line'[k])
    BY <1>1, <1>2 DEF LineInv, SlInv, Droppable, SlType
  <1>8. RdInv'
    BY <1>1 DEF LineInv, RdInv
  <1> QED
    BY <1>5, <1>6, <1>7, <1>8 DEF LineInv

\* A timer thread that gets the mutex.
LEMMA TimerThreadOK ==
  ASSUME LineInv, NEW l \in Lines, line_tmr_hndlr(l)
  PROVE  LineInv'
  <1>1. expired[l] > 0 /\ expired' = [expired EXCEPT ![l] = @ - 1] /\ UNCHANGED rd
    BY DEF line_tmr_hndlr
  <1>2. line \in [Lines -> SlType] /\ expired \in [Lines -> 0 .. MaxExpired] /\ rd \in RdType
    BY DEF LineInv, LineTypeOK, SlType, RdType
  <1>3. expired' \in [Lines -> 0 .. MaxExpired] /\ \A k \in Lines \ {l} : expired'[k] = expired[k]
    BY <1>1, <1>2, LineBoundsAssumption
  <1>4. RdInv' /\ rd' \in RdType
    BY <1>1, <1>2 DEF LineInv, RdInv
  <1>5. CASE line[l].armed /\ UNCHANGED <<line, cdb>>
    <2>1. LineTypeOK'
      BY <1>1, <1>3, <1>5 DEF LineInv, LineTypeOK
    <2>2. TimedIsWatched'
      BY <1>3, <1>5 DEF LineInv, TimedIsWatched
    <2> QED
      BY <1>4, <1>5, <2>1, <2>2 DEF LineInv
  <1>6. ASSUME NEW w \in TimerActs(World(l)), Becomes(w)
        PROVE  LineInv'
    <2>1. HandlerOK(w, World(l)) /\ Watched(w.sl)
      BY <1>6, WorldFacts, TimerOK
    <2> QED
      BY <1>3, <1>4, <1>6, <2>1, BecomesOK
  <1> QED
    BY <1>5, <1>6 DEF line_tmr_hndlr

\* LineInv is an inductive invariant of line control.
LEMMA LineInvariant == Spec => []LineInv
  <1>1. Init => LineInv
    BY InitOK
  <1>2. LineInv /\ [Next]_vars => LineInv'
    <2> SUFFICES ASSUME LineInv, [Next]_vars PROVE LineInv'
      OBVIOUS
    <2>1. ASSUME NEW l \in Lines, External(l) \/ PhoneEvent(l) PROVE LineInv'
      BY <2>1, UserOK
    <2>2. ASSUME NEW l \in Lines, Expire(l) PROVE LineInv'
      BY <2>2, ExpireOK
    <2>3. ASSUME NEW l \in Lines, line_tmr_hndlr(l) PROVE LineInv'
      BY <2>3, TimerThreadOK
    <2>4. ASSUME NEW r \in Readers, NEW l \in Lines, Preselect(r, l) PROVE LineInv'
      BY <2>4, SelectOK
    <2>5. ASSUME NEW r \in Readers, cctl_process_msg(r) PROVE LineInv'
      BY <2>5, MessageOK
    <2>6. ASSUME NEW r \in Readers, RunHook(r) PROVE LineInv'
      BY <2>6, HookOK
    <2>7. CASE UNCHANGED vars
      BY <2>7 DEF vars, LineInv, LineTypeOK, RdInv, TimedIsWatched
    <2> QED
      BY <2>1, <2>2, <2>3, <2>4, <2>5, <2>6, <2>7 DEF Next
  <1> QED
    BY <1>1, <1>2, PTL DEF Spec

\* Whatever users, timers and the engine do, a line's fields, the number it has
\* collected (add_digits()) and the call database keep their ranges.
THEOREM LineTypeCorrect == Spec => []LineTypeOK
  <1>1. LineInv => LineTypeOK
    BY DEF LineInv
  <1> QED
    BY <1>1, LineInvariant, PTL

\* No line is ever stuck in a tone, a seizure or a release without a timer that
\* will end it, for any number of lines, readers and late timer threads.
THEOREM LineWatched == Spec => []TimedIsWatched
  <1>1. LineInv => TimedIsWatched
    BY DEF LineInv
  <1> QED
    BY <1>1, LineInvariant, PTL

\* A line with a call always knows the id call_drop() has to name.
THEOREM LineCanDrop == Spec => []CallCanBeDropped
  <1>1. LineInv => CallCanBeDropped
    BY DEF LineInv, SlInv, CallCanBeDropped
  <1> QED
    BY <1>1, LineInvariant, PTL

\* A line that dials or talks is selected, so that cctl_process_evt() hears the
\* telephone hang up, through hold, pickup, late hooks and late timer threads and
\* for any number of lines and readers.
THEOREM LineListens == Spec => []ActiveListens
  <1>1. LineInv => ActiveListens
    BY DEF LineInv, SlInv, Active, ActiveListens
  <1> QED
    BY <1>1, LineInvariant, PTL
=============================================================================
