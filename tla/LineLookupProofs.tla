-------------------------- MODULE LineLookupProofs --------------------------
(***************************************************************************)
(* That the engine's messages find their line (IdsAreFound), for stations  *)
(* without inner calls.                                                    *)
(*                                                                         *)
(* A handler of line l changes the call database under ids of line l and   *)
(* under ids nobody has.  Good(l) is the set of worlds in which every line *)
(* is found and line l goes by ids of its own; each operator a handler is  *)
(* built from leads from Good(l) to Good(l), and so does each handler.     *)
(***************************************************************************)
EXTENDS LineControlProofs

\* The channel ids of line l: those it goes by and those that messages on their
\* way to it carry.
IdsOf(l) ==
  ({line[l].our, line[l].party} \cup {rd[r].id : r \in {q \in Readers : rd[q].line = l}}) \ {Nil}

\* No two lines have an id in common: no line of the station is the other
\* party of another one.
NoInnerCalls == \A k, l \in Lines : k # l => IdsOf(k) \cap IdsOf(l) = {}

\* The ids of a line lead to it.
Found(d, sl, l) ==
  /\ sl.our # Nil => d.our[sl.our] = l
  /\ sl.party # Nil => d.party[sl.party] = l
  /\ sl.track # Nil => d.track[sl.track] = l

\* Ids that no line but l goes by.
OwnChans(l) == {c \in Chans : \A k \in Lines \ {l} : line[k].our # c /\ line[k].party # c}
OwnTracks(l) == {t \in Tracks : \A k \in Lines \ {l} : line[k].track # t}

Good(l) ==
  {w \in WorldType :
     /\ w.l = l
     /\ w.sl.our \in OwnChans(l) \cup {Nil} /\ w.sl.party \in OwnChans(l) \cup {Nil}
     /\ w.sl.track \in OwnTracks(l) \cup {Nil}
     /\ Found(w.cdb, w.sl, l)
     /\ \A k \in Lines \ {l} : line[k] \in SlType /\ Found(w.cdb, line[k], k)}
-----------------------------------------------------------------------------
(* The operators handlers are built from.                                  *)

\* What is no id and no entry of the call database does not matter.
LEMMA GoodSame ==
  ASSUME NEW l \in Lines, NEW w \in Good(l), NEW v \in WorldType, v.l = w.l, v.cdb = w.cdb,
         v.sl.our = w.sl.our, v.sl.party = w.sl.party, v.sl.track = w.sl.track
  PROVE  v \in Good(l)
  BY DEF Good, Found

\* State, timer and flags.
LEMMA GoodFields ==
  ASSUME NEW l \in Lines, NEW w \in Good(l)
  PROVE  /\ \A s \in LineStates, a \in BOOLEAN : Enter(w, s, a) \in Good(l)
         /\ \A b \in BOOLEAN : [w EXCEPT !.sl.outgoing = b] \in Good(l)
         /\ \A b \in BOOLEAN : [w EXCEPT !.sl.selected = b] \in Good(l)
         /\ \A b \in BOOLEAN : [w EXCEPT !.sl.offhook = b] \in Good(l)
         /\ \A b \in BOOLEAN : [w EXCEPT !.sl.armed = b] \in Good(l)
         /\ \A n \in 0 .. MaxDigits : [w EXCEPT !.sl.digits = n] \in Good(l)
  <1>0. w \in WorldType
    BY DEF Good
  <1>1. ASSUME NEW s \in LineStates, NEW a \in BOOLEAN
        PROVE  Enter(w, s, a) \in Good(l)
    BY <1>0, GoodSame DEF Enter, WorldType, SlType
  <1>2. \A b \in BOOLEAN : [w EXCEPT !.sl.outgoing = b] \in Good(l)
    BY <1>0, GoodSame DEF WorldType, SlType
  <1>3. \A b \in BOOLEAN : [w EXCEPT !.sl.selected = b] \in Good(l)
    BY <1>0, GoodSame DEF WorldType, SlType
  <1>4. \A b \in BOOLEAN : [w EXCEPT !.sl.offhook = b] \in Good(l)
    BY <1>0, GoodSame DEF WorldType, SlType
  <1>5. \A b \in BOOLEAN : [w EXCEPT !.sl.armed = b] \in Good(l)
    BY <1>0, GoodSame DEF WorldType, SlType
  <1>6. \A n \in 0 .. MaxDigits : [w EXCEPT !.sl.digits = n] \in Good(l)
    BY <1>0, GoodSame DEF WorldType, SlType
  <1> QED
    BY <1>1, <1>2, <1>3, <1>4, <1>5, <1>6

\* Entries of the line's own ids may change, as long as the line is found.
LEMMA GoodChange ==
  ASSUME NEW l \in Lines, NEW w \in Good(l), NEW v \in WorldType, v.l = w.l,
         \A c \in Chans \ OwnChans(l) :
           v.cdb.our[c] = w.cdb.our[c] /\ v.cdb.party[c] = w.cdb.party[c],
         \A t \in Tracks \ OwnTracks(l) : v.cdb.track[t] = w.cdb.track[t],
         v.sl.our \in OwnChans(l) \cup {Nil}, v.sl.party \in OwnChans(l) \cup {Nil},
         v.sl.track \in OwnTracks(l) \cup {Nil}, Found(v.cdb, v.sl, l)
  PROVE  v \in Good(l)
  <1>1. ASSUME NEW k \in Lines \ {l}
        PROVE  line[k] \in SlType /\ Found(v.cdb, line[k], k)
    <2>1. line[k] \in SlType /\ Found(w.cdb, line[k], k)
      BY <1>1 DEF Good
    <2>2. /\ line[k].our # Nil => line[k].our \in Chans \ OwnChans(l)
          /\ line[k].party # Nil => line[k].party \in Chans \ OwnChans(l)
          /\ line[k].track # Nil => line[k].track \in Tracks \ OwnTracks(l)
      BY <1>1, <2>1 DEF OwnChans, OwnTracks, SlType
    <2> QED
      BY <2>1, <2>2 DEF Found
  <1> QED
    BY <1>1 DEF Good

\* Forget().
LEMMA GoodForget ==
  ASSUME NEW l \in Lines, NEW w \in Good(l)
  PROVE  /\ Forget(w, "our") \in Good(l) /\ Forget(w, "our").sl.our = Nil
         /\ Forget(w, "party") \in Good(l) /\ Forget(w, "track") \in Good(l)
  <1>0. w \in WorldType /\ w.l = l
    BY DEF Good
  <1>1. Forget(w, "our") \in Good(l) /\ Forget(w, "our").sl.our = Nil
    <2> DEFINE u == update_cdb(w, "our", w.sl.our, Nil)
               v == [u EXCEPT !.sl.our = Nil]
    <2>1. CASE w.sl.our = Nil
      BY <2>1 DEF Forget
    <2>2. CASE w.sl.our # Nil
      <3>1. w.sl.our \in OwnChans(l) /\ w.sl.our \in Chans
        BY <2>2 DEF Good, OwnChans
      <3>2. u \in WorldType /\ u.l = l /\ u.sl = w.sl
        BY <1>0, <3>1, UpdateFacts
      <3>3. /\ u.cdb.party = w.cdb.party /\ u.cdb.track = w.cdb.track
           /\ u.cdb.our = [w.cdb.our EXCEPT ![w.sl.our] = Nil]
        BY <1>0, <3>1 DEF update_cdb, WorldType, CdbType
      <3> HIDE DEF u
      <3>4. /\ v \in WorldType /\ v.l = w.l /\ v.cdb = u.cdb /\ v.sl.our = Nil
           /\ v.sl.party = w.sl.party /\ v.sl.track = w.sl.track
        BY <1>0, <3>1, <3>2 DEF WorldType, SlType
      <3> HIDE DEF v
      <3>5. /\ \A d \in Chans \ OwnChans(l) : v.cdb.our[d] = w.cdb.our[d]
        BY <1>0, <3>1, <3>3, <3>4 DEF WorldType, CdbType
      <3>6. Found(v.cdb, v.sl, l)
        BY <3>3, <3>4, <3>5 DEF Good, Found
      <3>7. v \in Good(l)
        <4>1. /\ v.sl.our \in OwnChans(l) \cup {Nil} /\ v.sl.party \in OwnChans(l) \cup {Nil}
              /\ v.sl.track \in OwnTracks(l) \cup {Nil}
          BY <3>1, <3>4 DEF Good
        <4> QED
          BY <3>3, <3>4, <3>5, <3>6, <4>1, GoodChange
      <3> QED
        BY <2>2, <3>4, <3>7 DEF Forget, u, v
    <2> QED
      BY <2>1, <2>2
  <1>2. Forget(w, "party") \in Good(l)
    <2> DEFINE u == update_cdb(w, "party", w.sl.party, Nil)
               v == [u EXCEPT !.sl.party = Nil]
    <2>1. CASE w.sl.party = Nil
      BY <2>1 DEF Forget
    <2>2. CASE w.sl.party # Nil
      <3>1. w.sl.party \in OwnChans(l) /\ w.sl.party \in Chans
        BY <2>2 DEF Good, OwnChans
      <3>2. u \in WorldType /\ u.l = l /\ u.sl = w.sl
        BY <1>0, <3>1, UpdateFacts
      <3>3. /\ u.cdb.our = w.cdb.our /\ u.cdb.track = w.cdb.track
           /\ u.cdb.party = [w.cdb.party EXCEPT ![w.sl.party] = Nil]
        BY <1>0, <3>1 DEF update_cdb, WorldType, CdbType
      <3> HIDE DEF u
      <3>4. /\ v \in WorldType /\ v.l = w.l /\ v.cdb = u.cdb /\ v.sl.party = Nil
           /\ v.sl.our = w.sl.our /\ v.sl.track = w.sl.track
        BY <1>0, <3>1, <3>2 DEF WorldType, SlType
      <3> HIDE DEF v
      <3>5. /\ \A d \in Chans \ OwnChans(l) : v.cdb.party[d] = w.cdb.party[d]
        BY <1>0, <3>1, <3>3, <3>4 DEF WorldType, CdbType
      <3>6. Found(v.cdb, v.sl, l)
        BY <3>3, <3>4, <3>5 DEF Good, Found
      <3>7. v \in Good(l)
        <4>1. /\ v.sl.our \in OwnChans(l) \cup {Nil} /\ v.sl.party \in OwnChans(l) \cup {Nil}
              /\ v.sl.track \in OwnTracks(l) \cup {Nil}
          BY <3>1, <3>4 DEF Good
        <4> QED
          BY <3>3, <3>4, <3>5, <3>6, <4>1, GoodChange
      <3> QED
        BY <2>2, <3>4, <3>7 DEF Forget, u, v
    <2> QED
      BY <2>1, <2>2
  <1>3. Forget(w, "track") \in Good(l)
    <2> DEFINE u == update_cdb(w, "track", w.sl.track, Nil)
               v == [u EXCEPT !.sl.track = Nil]
    <2>1. CASE w.sl.track = Nil
      BY <2>1 DEF Forget
    <2>2. CASE w.sl.track # Nil
      <3>1. w.sl.track \in OwnTracks(l) /\ w.sl.track \in Tracks
        BY <2>2 DEF Good, OwnTracks
      <3>2. u \in WorldType /\ u.l = l /\ u.sl = w.sl
        BY <1>0, <3>1, UpdateFacts
      <3>3. /\ u.cdb.our = w.cdb.our /\ u.cdb.party = w.cdb.party
           /\ u.cdb.track = [w.cdb.track EXCEPT ![w.sl.track] = Nil]
        BY <1>0, <3>1 DEF update_cdb, WorldType, CdbType
      <3> HIDE DEF u
      <3>4. /\ v \in WorldType /\ v.l = w.l /\ v.cdb = u.cdb /\ v.sl.track = Nil
           /\ v.sl.our = w.sl.our /\ v.sl.party = w.sl.party
        BY <1>0, <3>1, <3>2 DEF WorldType, SlType
      <3> HIDE DEF v
      <3>5. /\ \A d \in Tracks \ OwnTracks(l) : v.cdb.track[d] = w.cdb.track[d]
        BY <1>0, <3>1, <3>3, <3>4 DEF WorldType, CdbType
      <3>6. Found(v.cdb, v.sl, l)
        BY <3>3, <3>4, <3>5 DEF Good, Found
      <3>7. v \in Good(l)
        <4>1. /\ v.sl.our \in OwnChans(l) \cup {Nil} /\ v.sl.party \in OwnChans(l) \cup {Nil}
              /\ v.sl.track \in OwnTracks(l) \cup {Nil}
          BY <3>1, <3>4 DEF Good
        <4> QED
          BY <3>3, <3>4, <3>5, <3>6, <4>1, GoodChange
      <3> QED
        BY <2>2, <3>4, <3>7 DEF Forget, u, v
    <2> QED
      BY <2>1, <2>2
  <1> QED
    BY <1>1, <1>2, <1>3

\* Remember(), of an id no other line goes by.
LEMMA GoodRemember ==
  ASSUME NEW l \in Lines, NEW w \in Good(l)
  PROVE  /\ \A c \in OwnChans(l) : Remember(w, "our", c) \in Good(l)
         /\ \A c \in OwnChans(l) : Remember(w, "party", c) \in Good(l)
         /\ \A t \in OwnTracks(l) : Remember(w, "track", t) \in Good(l)
  <1>0. w \in WorldType /\ w.l = l
    BY DEF Good
  <1>1. ASSUME NEW c \in OwnChans(l)
        PROVE  Remember(w, "our", c) \in Good(l)
    <2> DEFINE u == update_cdb(w, "our", c, w.l)
               v == [u EXCEPT !.sl.our = c]
    <2>1. c \in OwnChans(l) /\ c \in Chans
      BY DEF OwnChans
    <2>2. u \in WorldType /\ u.l = l /\ u.sl = w.sl
      BY <1>0, <2>1, UpdateFacts
    <2>3. /\ u.cdb.party = w.cdb.party /\ u.cdb.track = w.cdb.track
         /\ u.cdb.our = [w.cdb.our EXCEPT ![c] = l]
      BY <1>0, <2>1 DEF update_cdb, WorldType, CdbType
    <2> HIDE DEF u
    <2>4. /\ v \in WorldType /\ v.l = w.l /\ v.cdb = u.cdb /\ v.sl.our = c
         /\ v.sl.party = w.sl.party /\ v.sl.track = w.sl.track
      BY <1>0, <2>1, <2>2 DEF WorldType, SlType
    <2> HIDE DEF v
    <2>5. /\ \A d \in Chans \ OwnChans(l) : v.cdb.our[d] = w.cdb.our[d]
         /\ v.cdb.our[c] = l
      BY <1>0, <2>1, <2>3, <2>4 DEF WorldType, CdbType
    <2>6. Found(v.cdb, v.sl, l)
      BY <2>3, <2>4, <2>5 DEF Good, Found
    <2>7. v \in Good(l)
      <3>1. /\ v.sl.our \in OwnChans(l) \cup {Nil} /\ v.sl.party \in OwnChans(l) \cup {Nil}
            /\ v.sl.track \in OwnTracks(l) \cup {Nil}
        BY <2>1, <2>4 DEF Good
      <3> QED
        BY <2>3, <2>4, <2>5, <2>6, <3>1, GoodChange
    <2> QED
      BY <2>7 DEF Remember, u, v
  <1>2. ASSUME NEW c \in OwnChans(l)
        PROVE  Remember(w, "party", c) \in Good(l)
    <2> DEFINE u == update_cdb(w, "party", c, w.l)
               v == [u EXCEPT !.sl.party = c]
    <2>1. c \in OwnChans(l) /\ c \in Chans
      BY DEF OwnChans
    <2>2. u \in WorldType /\ u.l = l /\ u.sl = w.sl
      BY <1>0, <2>1, UpdateFacts
    <2>3. /\ u.cdb.our = w.cdb.our /\ u.cdb.track = w.cdb.track
         /\ u.cdb.party = [w.cdb.party EXCEPT ![c] = l]
      BY <1>0, <2>1 DEF update_cdb, WorldType, CdbType
    <2> HIDE DEF u
    <2>4. /\ v \in WorldType /\ v.l = w.l /\ v.cdb = u.cdb /\ v.sl.party = c
         /\ v.sl.our = w.sl.our /\ v.sl.track = w.sl.track
      BY <1>0, <2>1, <2>2 DEF WorldType, SlType
    <2> HIDE DEF v
    <2>5. /\ \A d \in Chans \ OwnChans(l) : v.cdb.party[d] = w.cdb.party[d]
         /\ v.cdb.party[c] = l
      BY <1>0, <2>1, <2>3, <2>4 DEF WorldType, CdbType
    <2>6. Found(v.cdb, v.sl, l)
      BY <2>3, <2>4, <2>5 DEF Good, Found
    <2>7. v \in Good(l)
      <3>1. /\ v.sl.our \in OwnChans(l) \cup {Nil} /\ v.sl.party \in OwnChans(l) \cup {Nil}
            /\ v.sl.track \in OwnTracks(l) \cup {Nil}
        BY <2>1, <2>4 DEF Good
      <3> QED
        BY <2>3, <2>4, <2>5, <2>6, <3>1, GoodChange
    <2> QED
      BY <2>7 DEF Remember, u, v
  <1>3. ASSUME NEW t \in OwnTracks(l)
        PROVE  Remember(w, "track", t) \in Good(l)
    <2> DEFINE u == update_cdb(w, "track", t, w.l)
               v == [u EXCEPT !.sl.track = t]
    <2>1. t \in OwnTracks(l) /\ t \in Tracks
      BY DEF OwnTracks
    <2>2. u \in WorldType /\ u.l = l /\ u.sl = w.sl
      BY <1>0, <2>1, UpdateFacts
    <2>3. /\ u.cdb.our = w.cdb.our /\ u.cdb.party = w.cdb.party
         /\ u.cdb.track = [w.cdb.track EXCEPT ![t] = l]
      BY <1>0, <2>1 DEF update_cdb, WorldType, CdbType
    <2> HIDE DEF u
    <2>4. /\ v \in WorldType /\ v.l = w.l /\ v.cdb = u.cdb /\ v.sl.track = t
         /\ v.sl.our = w.sl.our /\ v.sl.party = w.sl.party
      BY <1>0, <2>1, <2>2 DEF WorldType, SlType
    <2> HIDE DEF v
    <2>5. /\ \A d \in Tracks \ OwnTracks(l) : v.cdb.track[d] = w.cdb.track[d]
         /\ v.cdb.track[t] = l
      BY <1>0, <2>1, <2>3, <2>4 DEF WorldType, CdbType
    <2>6. Found(v.cdb, v.sl, l)
      BY <2>3, <2>4, <2>5 DEF Good, Found
    <2>7. v \in Good(l)
      <3>1. /\ v.sl.our \in OwnChans(l) \cup {Nil} /\ v.sl.party \in OwnChans(l) \cup {Nil}
            /\ v.sl.track \in OwnTracks(l) \cup {Nil}
        BY <2>1, <2>4 DEF Good
      <3> QED
        BY <2>3, <2>4, <2>5, <2>6, <3>1, GoodChange
    <2> QED
      BY <2>7 DEF Remember, u, v
  <1> QED
    BY <1>1, <1>2, <1>3

\* call_drop(): the party's id, which it removes from the map of our ids, is
\* nobody else's.
LEMMA GoodDrop ==
  ASSUME NEW l \in Lines, NEW w \in Good(l)
  PROVE  call_drop(w) \in Good(l)
  <1> DEFINE a == Forget(w, "our")
             u == update_cdb(a, "our", a.sl.party, Nil)
             b == [u EXCEPT !.sl.party = Nil]
  <1>1. a \in Good(l) /\ a.sl.our = Nil
    BY GoodForget
  <1>2. a \in WorldType /\ a.l = l
    BY <1>1 DEF Good
  <1> HIDE DEF a
  <1>3. ASSUME a.sl.party # Nil
        PROVE  b \in Good(l)
    <2>1. a.sl.party \in OwnChans(l) /\ a.sl.party \in Chans
      BY <1>1, <1>3 DEF Good, OwnChans
    <2>2. u \in WorldType /\ u.l = l /\ u.sl = a.sl
      BY <1>2, <2>1, UpdateFacts
    <2>3. /\ u.cdb.party = a.cdb.party /\ u.cdb.track = a.cdb.track
          /\ u.cdb.our = [a.cdb.our EXCEPT ![a.sl.party] = Nil]
      BY <1>2, <2>1 DEF update_cdb, WorldType, CdbType
    <2> HIDE DEF u
    <2>4. /\ b \in WorldType /\ b.l = a.l /\ b.cdb = u.cdb /\ b.sl.party = Nil
          /\ b.sl.our = a.sl.our /\ b.sl.track = a.sl.track
      BY <1>2, <2>2 DEF WorldType, SlType
    <2> HIDE DEF b
    <2>5. \A d \in Chans \ OwnChans(l) : b.cdb.our[d] = a.cdb.our[d]
      BY <1>2, <2>1, <2>3, <2>4 DEF WorldType, CdbType
    <2>6. Found(b.cdb, b.sl, l)
      BY <1>1, <2>3, <2>4 DEF Good, Found
    <2>7. /\ b.sl.our \in OwnChans(l) \cup {Nil} /\ b.sl.party \in OwnChans(l) \cup {Nil}
          /\ b.sl.track \in OwnTracks(l) \cup {Nil}
      BY <1>1, <2>4 DEF Good
    <2> QED
      BY <1>1, <2>3, <2>4, <2>5, <2>6, <2>7, GoodChange
  <1>4. CASE ~Droppable(w.sl)
    BY <1>4 DEF call_drop
  <1>5. CASE Droppable(w.sl)
    <2>1. call_drop(w) = Forget(IF a.sl.party = Nil THEN a ELSE b, "track")
      BY <1>5 DEF call_drop, a
    <2> HIDE DEF b
    <2> QED
      BY <1>1, <1>3, <2>1, GoodForget
  <1> QED
    BY <1>4, <1>5

\* do_hangup().
LEMMA GoodHangup ==
  ASSUME NEW l \in Lines, NEW w \in Good(l)
  PROVE  \A f \in BOOLEAN : do_hangup(w, f) \in Good(l)
  <1>1. call_drop(w) \in Good(l)
    BY GoodDrop
  <1>2. [call_drop(w) EXCEPT !.sl.offhook = FALSE] \in Good(l)
    BY <1>1, GoodFields
  <1> QED
    BY <1>1, <1>2 DEF do_hangup

\* Ids that are handed out are no other line's.
LEMMA FreshOwn ==
  ASSUME NEW l \in Lines
  PROVE  /\ NextChan \subseteq OwnChans(l) /\ ChanAfter \subseteq OwnChans(l)
         /\ Lowest(FreshTracks) \subseteq OwnTracks(l)
  BY DEF NextChan, ChanAfter, Lowest, FreshChans, FreshTracks, OwnChans, OwnTracks

\* new_calltrack().
LEMMA GoodCalltrack ==
  ASSUME NEW l \in Lines, NEW w \in Good(l), NEW v \in new_calltrack(w)
  PROVE  v \in Good(l)
  <1>1. PICK t \in Lowest(FreshTracks) : v = Remember(Forget(w, "track"), "track", t)
    BY DEF new_calltrack
  <1>2. t \in OwnTracks(l)
    BY <1>1, FreshOwn
  <1>3. Forget(w, "track") \in Good(l)
    BY GoodForget
  <1> QED
    BY <1>1, <1>2, <1>3, GoodRemember

\* The reply to call.execute.
LEMMA GoodReplied ==
  ASSUME NEW l \in Lines, NEW w \in Good(l), NEW v \in Replied(w)
  PROVE  v \in Good(l)
  <1> DEFINE o == [w EXCEPT !.sl.outgoing = TRUE]
  <1>1. o \in Good(l)
    BY GoodFields
  <1>2. v = o \/ v \in OurGiven(o) \/ v \in PartyGiven(o) \/ v \in BothGiven(o)
    BY DEF Replied
  <1> HIDE DEF o
  <1>3. ASSUME NEW x \in OurGiven(o)
        PROVE  x \in Good(l)
    BY <1>1, FreshOwn, GoodRemember DEF OurGiven
  <1>4. ASSUME NEW x \in BothGiven(o)
        PROVE  x \in Good(l)
    BY <1>3, FreshOwn, GoodRemember DEF BothGiven
  <1>5. ASSUME NEW x \in PartyGiven(o)
        PROVE  x \in Good(l)
    BY <1>1, FreshOwn, GoodRemember DEF PartyGiven
  <1> QED
    BY <1>1, <1>2, <1>3, <1>4, <1>5

\* out_call_exec().
LEMMA GoodExec ==
  ASSUME NEW l \in Lines, NEW w \in Good(l), NEW o \in out_call_exec(w)
  PROVE  o.w \in Good(l)
  <1> DEFINE cleared == Forget(Forget(w, "our"), "party")
  <1>1. cleared \in Good(l)
    BY GoodForget
  <1>2. \/ \E v \in new_calltrack(cleared) : o = Failed(v)
        \/ \E v \in new_calltrack(cleared) : \E u \in Replied(v) : o = Ok(u)
    BY DEF out_call_exec
  <1> HIDE DEF cleared
  <1> QED
    BY <1>1, <1>2, GoodCalltrack, GoodReplied DEF Ok, Failed

\* provide_dialtone().
LEMMA GoodDialtone ==
  ASSUME NEW l \in Lines, NEW w \in Good(l), NEW o \in provide_dialtone(w)
  PROVE  o.w \in Good(l)
  <1> DEFINE sel == [w EXCEPT !.sl.selected = TRUE]
             up == [sel EXCEPT !.sl.offhook = TRUE]
  <1>1. sel \in Good(l)
    BY GoodFields
  <1>2. \/ o = Failed(w) \/ o = Failed(sel) \/ o \in out_call_exec(up)
        \/ \E c \in out_call_exec(up) : o = Failed(c.w)
    BY DEF provide_dialtone
  <1> HIDE DEF sel
  <1>3. up \in Good(l)
    BY <1>1, GoodFields
  <1> HIDE DEF up
  <1> QED
    BY <1>1, <1>2, <1>3, GoodExec DEF Failed

\* The operators that enter a state.
LEMMA GoodEnter ==
  ASSUME NEW l \in Lines, NEW w \in Good(l)
  PROVE  /\ \A s \in LineStates : Enter(w, s, w.sl.armed) \in Good(l)
         /\ \A s \in LineStates : Enter(w, s, TRUE) \in Good(l) /\ Enter(w, s, FALSE) \in Good(l)
         /\ enter_sit(w) \in Good(l) /\ enter_drop(w) \in Good(l)
         /\ enter_dialtone(w) \in Good(l) /\ cease_ringing(w) \in Good(l)
         /\ answer_ringing(w) \in Good(l) /\ pickup_held(w) \in Good(l)
         /\ hold(w) \subseteq Good(l) /\ routed_call(w) \subseteq Good(l)
  <1>0. /\ w.sl.armed \in BOOLEAN /\ 0 \in 0 .. MaxDigits
        /\ {"SIT", "DROP", "DIALTONE", "IDLE", "CONNECTED", "HOLD", "CALLING"} \subseteq LineStates
    BY LineBoundsAssumption DEF Good, WorldType, SlType, LineStates
  <1>1. ASSUME NEW s \in LineStates
        PROVE  /\ Enter(w, s, w.sl.armed) \in Good(l)
               /\ Enter(w, s, TRUE) \in Good(l) /\ Enter(w, s, FALSE) \in Good(l)
    BY <1>0, GoodFields
  <1>2. enter_sit(w) \in Good(l)
    BY <1>0, <1>1 DEF enter_sit
  <1>3. enter_drop(w) \in Good(l)
    BY <1>0, GoodHangup, GoodFields DEF enter_drop
  <1>4. enter_dialtone(w) \in Good(l)
    <2>1. [w EXCEPT !.sl.digits = 0] \in Good(l)
      BY <1>0, GoodFields
    <2> QED
      BY <1>0, <2>1, GoodFields DEF enter_dialtone
  <1>5. cease_ringing(w) \in Good(l)
    BY <1>0, GoodDrop, GoodFields DEF cease_ringing
  <1>6. answer_ringing(w) \in Good(l)
    <2>1. [w EXCEPT !.sl.selected = TRUE] \in Good(l)
      BY GoodFields
    <2> QED
      BY <1>0, <2>1, GoodFields DEF answer_ringing
  <1>7. pickup_held(w) \in Good(l)
    <2>1. w \in WorldType
      BY DEF Good
    <2> QED
      BY <2>1, GoodSame DEF pickup_held, WorldType, SlType
  <1>8. hold(w) \subseteq Good(l)
    <2>1. [w EXCEPT !.sl.selected = FALSE] \in Good(l)
      BY GoodFields
    <2>2. Enter([w EXCEPT !.sl.selected = FALSE], "HOLD", w.sl.armed) \in Good(l)
      BY <1>0, <2>1, GoodFields
    <2> QED
      BY <2>2 DEF hold
  <1>9. routed_call(w) \subseteq Good(l)
    BY <1>0, <1>1, <1>2 DEF routed_call
  <1> QED
    BY <1>1, <1>2, <1>3, <1>4, <1>5, <1>6, <1>7, <1>8, <1>9
-----------------------------------------------------------------------------
(* Handlers.                                                               *)

\* add_digits(): a number keeps a line good.
LEMMA GoodDigits ==
  ASSUME NEW l \in Lines, NEW w \in Good(l), NEW n \in Nat
  PROVE  [w EXCEPT !.sl = add_digits(@, n)] \in Good(l)
  <1>1. w \in WorldType /\ w.sl \in SlType
    BY DEF Good, WorldType
  <1>2. add_digits(w.sl, n) \in SlType
    BY <1>1, DigitsFacts
  <1>3. /\ add_digits(w.sl, n).our = w.sl.our /\ add_digits(w.sl, n).party = w.sl.party
        /\ add_digits(w.sl, n).track = w.sl.track
    BY <1>1 DEF add_digits, SlType
  <1> QED
    BY <1>1, <1>2, <1>3, GoodSame DEF WorldType

\* cctl_hangup_nolock().
LEMMA GoodHangupNolock ==
  ASSUME NEW l \in Lines, NEW w \in Good(l)
  PROVE  cctl_hangup_nolock(w) \in Good(l)
  <1>0. "IDLE" \in LineStates
    BY DEF LineStates
  <1>1. CASE w.sl.state \in {"DISABLED", "IDLE"}
    BY <1>1 DEF cctl_hangup_nolock
  <1>2. CASE w.sl.state = "HOLD"
    <2>1. [w EXCEPT !.sl.outgoing = FALSE] \in Good(l)
      BY GoodFields
    <2>2. do_hangup([w EXCEPT !.sl.outgoing = FALSE], TRUE) \in Good(l)
      BY <2>1, GoodHangup
    <2> QED
      BY <1>0, <1>2, <2>2, GoodEnter DEF cctl_hangup_nolock
  <1>3. CASE w.sl.state = "INCOMING"
    BY <1>0, <1>3, GoodDrop, GoodEnter DEF cctl_hangup_nolock
  <1>4. CASE w.sl.state = "RING"
    BY <1>4, GoodEnter DEF cctl_hangup_nolock
  <1>5. CASE w.sl.state \notin {"DISABLED", "IDLE", "HOLD", "INCOMING", "RING"}
    <2>1. do_hangup(w, TRUE) \in Good(l)
      BY GoodHangup
    <2> QED
      BY <1>0, <1>5, <2>1, GoodEnter DEF cctl_hangup_nolock
  <1> QED
    BY <1>1, <1>2, <1>3, <1>4, <1>5

\* The calls of the console and of the station.
LEMMA GoodExternal ==
  ASSUME NEW l \in Lines, NEW w \in Good(l),
         NEW v \in UNION {cctl_enable(w), cctl_disable(w), cctl_select(w), cctl_unselect(w),
                          cctl_hold(w), cctl_hangup(w)}
  PROVE  v \in Good(l)
  <1> DEFINE h == cctl_hangup_nolock(w)
  <1>0. "IDLE" \in LineStates /\ "DISABLED" \in LineStates
    BY DEF LineStates
  <1>1. h \in Good(l)
    BY GoodHangupNolock
  <1>2. CASE v \in cctl_enable(w)
    <2> DEFINE u == [w EXCEPT !.sl.selected = FALSE, !.sl.offhook = FALSE]
    <2>1. u \in Good(l)
      <3>1. w \in WorldType
        BY DEF Good
      <3> QED
        BY <3>1, GoodSame DEF WorldType, SlType
    <2>2. v = w \/ v = Enter(u, "IDLE", FALSE)
      BY <1>2 DEF cctl_enable
    <2> HIDE DEF u
    <2> QED
      BY <1>0, <2>1, <2>2, GoodEnter
  <1>3. CASE v \in cctl_disable(w)
    <2>1. v = Enter([h EXCEPT !.sl.selected = FALSE], "DISABLED", h.sl.armed)
      BY <1>3 DEF cctl_disable
    <2> HIDE DEF h
    <2>2. [h EXCEPT !.sl.selected = FALSE] \in Good(l)
      BY <1>1, GoodFields
    <2>3. h.sl.armed \in BOOLEAN
      BY <1>1 DEF Good, WorldType, SlType
    <2> QED
      BY <1>0, <2>1, <2>2, <2>3, GoodFields
  <1>4. CASE v \in cctl_select(w)
    <2>1. \/ \E o \in provide_dialtone(w) : v = enter_dialtone(o.w) \/ v = o.w
          \/ v = pickup_held(w) \/ v = w \/ v = answer_ringing([w EXCEPT !.sl.offhook = TRUE])
      BY <1>4 DEF cctl_select
    <2>2. [w EXCEPT !.sl.offhook = TRUE] \in Good(l)
      BY GoodFields
    <2> QED
      BY <2>1, <2>2, GoodDialtone, GoodEnter
  <1>5. CASE v \in cctl_hold(w)
    BY <1>5, GoodEnter DEF cctl_hold
  <1>6. CASE v \in cctl_unselect(w)
    <2>1. \/ v = [w EXCEPT !.sl.selected = FALSE] \/ v = [h EXCEPT !.sl.selected = FALSE]
          \/ v \in cctl_hold(w)
      BY <1>6 DEF cctl_unselect
    <2> HIDE DEF h
    <2> QED
      BY <1>1, <1>5, <2>1, GoodFields, GoodEnter DEF cctl_hold
  <1>7. CASE v \in cctl_hangup(w)
    BY <1>1, <1>7 DEF cctl_hangup
  <1> QED
    BY <1>2, <1>3, <1>4, <1>5, <1>6, <1>7

\* Events from the telephone.
LEMMA GoodEvent ==
  ASSUME NEW l \in Lines, NEW w \in Good(l), NEW evt \in LineEvents,
         NEW v \in cctl_process_evt(w, evt)
  PROVE  v \in Good(l)
  <1>0. "IDLE" \in LineStates /\ "COLLECTING" \in LineStates /\ 0 \in 0 .. MaxDigits
    BY LineBoundsAssumption DEF LineStates
  <1>1. w.sl.armed \in BOOLEAN /\ w.sl.state \in LineStates /\ w.sl.selected \in BOOLEAN
    BY DEF Good, WorldType, SlType
  <1>2. /\ [w EXCEPT !.sl.offhook = TRUE] \in Good(l) /\ [w EXCEPT !.sl.offhook = FALSE] \in Good(l)
        /\ do_hangup(w, TRUE) \in Good(l)
    BY GoodFields, GoodHangup
  <1>3. ASSUME NEW x \in Good(l), NEW y \in enter_dialtone_or_sit(x)
        PROVE  y \in Good(l)
    <2>1. PICK o \in provide_dialtone(x) : y = enter_dialtone(o.w) \/ y = enter_sit(o.w)
      BY <1>3 DEF enter_dialtone_or_sit
    <2>2. o.w \in Good(l)
      BY <1>3, <2>1, GoodDialtone
    <2> QED
      BY <2>1, <2>2, GoodEnter
  <1>4. ASSUME v \in state_idle(w, evt)
        PROVE  v \in Good(l)
    <2> DEFINE Dialled(x) == Enter([x EXCEPT !.sl = add_digits([@ EXCEPT !.digits = 0], 1)],
                                   "COLLECTING", TRUE)
    <2>1. \/ v \in enter_dialtone_or_sit(w)
          \/ v \in enter_dialtone_or_sit([w EXCEPT !.sl.offhook = TRUE])
          \/ \E o \in provide_dialtone(w) : v = Dialled(o.w) \/ v = enter_sit(o.w)
          \/ v = w
      BY <1>4 DEF state_idle
    <2>2. ASSUME NEW x \in Good(l)
          PROVE  Dialled(x) \in Good(l)
      <3> DEFINE z == [x EXCEPT !.sl.digits = 0]
      <3>1. z \in Good(l)
        BY <1>0, GoodFields
      <3>2. [x EXCEPT !.sl = add_digits([@ EXCEPT !.digits = 0], 1)]
              = [z EXCEPT !.sl = add_digits(@, 1)]
        <4>1. x \in WorldType
          BY DEF Good
        <4> QED
          BY <4>1 DEF WorldType
      <3> HIDE DEF z
      <3>3. [z EXCEPT !.sl = add_digits(@, 1)] \in Good(l)
        BY <3>1, GoodDigits
      <3> QED
        BY <1>0, <3>2, <3>3, GoodEnter
    <2> HIDE DEF Dialled
    <2> QED
      BY <1>2, <1>3, <2>1, <2>2, GoodDialtone, GoodEnter
  <1>5. ASSUME v \in state_dropped_or_onhook(w, evt)
        PROVE  v \in Good(l)
    <2>1. v = enter_drop(w) \/ v = Enter(do_hangup(w, TRUE), "IDLE", w.sl.armed) \/ v = w
      BY <1>5 DEF state_dropped_or_onhook
    <2>2. Enter(do_hangup(w, TRUE), "IDLE", w.sl.armed) \in Good(l)
      BY <1>0, <1>1, <1>2, GoodFields
    <2> QED
      BY <2>1, <2>2, GoodEnter
  <1>6. ASSUME v \in state_connected(w, evt)
        PROVE  v \in Good(l)
    BY <1>5, <1>6, GoodEnter DEF state_connected
  <1>7. ASSUME v \in state_hold(w, evt)
        PROVE  v \in Good(l)
    <2>1. v = pickup_held(w) \/ v = [w EXCEPT !.sl.offhook = FALSE] \/ v = w
      BY <1>7 DEF state_hold
    <2> QED
      BY <1>2, <2>1, GoodEnter
  <1>8. ASSUME v \in state_incoming(w, evt)
        PROVE  v \in Good(l)
    BY <1>8, GoodFields DEF state_incoming
  <1>9. ASSUME v \in state_ring(w, evt)
        PROVE  v \in Good(l)
    <2>1. v = cease_ringing(w) \/ v = answer_ringing([w EXCEPT !.sl.offhook = TRUE]) \/ v = w
      BY <1>9 DEF state_ring
    <2> QED
      BY <1>2, <2>1, GoodEnter
  <1>10. ASSUME v \in state_drop(w, evt)
         PROVE  v \in Good(l)
    <2>1. v = Enter([w EXCEPT !.sl.offhook = FALSE], "IDLE", FALSE) \/ v = w
      BY <1>10 DEF state_drop
    <2> QED
      BY <1>0, <1>2, <2>1, GoodEnter
  <1>11. \/ v = w \/ v \in state_idle(w, evt) \/ v \in state_dropped_or_onhook(w, evt)
         \/ v \in state_connected(w, evt) \/ v \in state_hold(w, evt)
         \/ v \in state_incoming(w, evt) \/ v \in state_ring(w, evt)
         \/ v \in state_drop(w, evt)
    BY <1>1 DEF cctl_process_evt, LineStates
  <1> QED
    BY <1>4, <1>5, <1>6, <1>7, <1>8, <1>9, <1>10, <1>11

\* The line's timer.
LEMMA GoodTimer ==
  ASSUME NEW l \in Lines, NEW w \in Good(l), NEW v \in TimerActs(w)
  PROVE  v \in Good(l)
  <1>0. "IDLE" \in LineStates
    BY DEF LineStates
  <1>1. \/ v \in routed_call(w) \/ v = enter_sit(w) \/ v = w \/ v = Enter(w, "IDLE", FALSE)
        \/ v = Enter(do_hangup(w, TRUE), "IDLE", FALSE)
        \/ \E o \in provide_dialtone(w) :
             v = enter_dialtone(o.w) \/ v = Enter(o.w, "IDLE", o.w.sl.armed)
    BY DEF TimerActs
  <1>2. do_hangup(w, TRUE) \in Good(l)
    BY GoodHangup
  <1> QED
    BY <1>0, <1>1, <1>2, GoodEnter, GoodDialtone

\* Messages of the engine that carry an id, which must be no other line's.
LEMMA GoodMessage ==
  ASSUME NEW l \in Lines, NEW w \in Good(l), NEW id \in OwnChans(l)
  PROVE  /\ process_call_answered(w, id) \in Good(l)
         /\ process_call_execute(w, id) \subseteq Good(l)
         /\ preprocess_chan_startup(w, id) \in Good(l)
         /\ process_chan_disconnect(w, id) \subseteq Good(l)
  <1>0. "IDLE" \in LineStates /\ "CONNECTED" \in LineStates /\ "INCOMING" \in LineStates
    BY DEF LineStates
  <1>1. process_call_answered(w, id) \in Good(l)
    <2>1. Remember(Forget(w, "party"), "party", id) \in Good(l)
      BY GoodForget, GoodRemember
    <2>2. \/ process_call_answered(w, id) = w
          \/ process_call_answered(w, id) = Enter(w, "CONNECTED", TRUE)
          \/ process_call_answered(w, id)
               = Enter(Remember(Forget(w, "party"), "party", id), "CONNECTED", TRUE)
      BY DEF process_call_answered
    <2> QED
      BY <1>0, <2>1, <2>2, GoodEnter
  <1>2. ASSUME NEW v \in process_call_execute(w, id)
        PROVE  v \in Good(l)
    <2> DEFINE p == Remember([w EXCEPT !.sl.outgoing = FALSE], "party", id)
    <2>1. [w EXCEPT !.sl.outgoing = FALSE] \in Good(l)
      BY GoodFields
    <2>2. p \in Good(l)
      BY <2>1, GoodRemember
    <2>3. v = w \/ \E t \in new_calltrack(p) : v = Enter(t, "INCOMING", TRUE)
      BY <1>2 DEF process_call_execute
    <2> HIDE DEF p
    <2> QED
      BY <1>0, <2>2, <2>3, GoodCalltrack, GoodEnter
  <1>3. preprocess_chan_startup(w, id) \in Good(l)
    BY GoodForget, GoodRemember DEF preprocess_chan_startup
  <1>4. ASSUME NEW v \in process_chan_disconnect(w, id)
        PROVE  v \in Good(l)
    <2> DEFINE x == IF w.sl.our = Nil THEN Remember(w, "our", id) ELSE w
    <2>1. x \in Good(l)
      BY GoodRemember
    <2>2. \/ \E o \in out_call_exec(x) : v = enter_sit(o.w)
          \/ v = Enter(x, "IDLE", FALSE) \/ v = cease_ringing(x) \/ v = x
      BY <1>4 DEF process_chan_disconnect
    <2> HIDE DEF x
    <2> QED
      BY <1>0, <2>1, <2>2, GoodExec, GoodEnter
  <1> QED
    BY <1>1, <1>2, <1>3, <1>4

\* Messages that carry none.
LEMMA GoodPlainMessage ==
  ASSUME NEW l \in Lines, NEW w \in Good(l)
  PROVE  /\ process_call_answered(w, Nil) \in Good(l)
         /\ \A text : process_chan_dtmf(w, text) \subseteq Good(l)
         /\ process_chan_hangup(w) \subseteq Good(l)
         /\ process_chan_startup(w) \subseteq Good(l)
  <1>0. /\ "IDLE" \in LineStates /\ "CONNECTED" \in LineStates /\ "RING" \in LineStates
        /\ "COLLECTING" \in LineStates
    BY DEF LineStates
  <1>1. process_call_answered(w, Nil) \in Good(l)
    BY <1>0, GoodEnter DEF process_call_answered
  <1>2. ASSUME NEW text, NEW v \in process_chan_dtmf(w, text)
        PROVE  v \in Good(l)
    <2> DEFINE n == IF text = "#" THEN 0 ELSE 1
               c == Enter([w EXCEPT !.sl = add_digits(@, n)], "COLLECTING", TRUE)
    <2>1. [w EXCEPT !.sl = add_digits(@, n)] \in Good(l)
      BY GoodDigits
    <2>2. v = w \/ v = c \/ v \in routed_call([c EXCEPT !.sl.armed = FALSE])
      BY <1>2 DEF process_chan_dtmf
    <2> HIDE DEF n
    <2>3. c \in Good(l)
      BY <1>0, <2>1, GoodEnter
    <2> HIDE DEF c
    <2>4. [c EXCEPT !.sl.armed = FALSE] \in Good(l)
      BY <2>3, GoodFields
    <2> QED
      BY <2>2, <2>3, <2>4, GoodEnter
  <1>3. ASSUME NEW v \in process_chan_hangup(w)
        PROVE  v \in Good(l)
    <2>1. \/ v = w \/ \E o \in out_call_exec(w) : v = enter_sit(o.w)
          \/ v = Enter(do_hangup(w, TRUE), "IDLE", FALSE)
      BY <1>3 DEF process_chan_hangup
    <2>2. do_hangup(w, TRUE) \in Good(l)
      BY GoodHangup
    <2> QED
      BY <1>0, <2>1, <2>2, GoodExec, GoodEnter
  <1>4. process_chan_startup(w) \subseteq Good(l)
    BY <1>0, GoodEnter DEF process_chan_startup
  <1> QED
    BY <1>1, <1>2, <1>3, <1>4
-----------------------------------------------------------------------------
(* The actions.                                                            *)

\* Where all lines are found and share no id, a line's world is good.
LEMMA WorldGood ==
  ASSUME LineInv, IdsAreFound, NoInnerCalls, NEW l \in Lines
  PROVE  World(l) \in Good(l)
  <1>1. line \in [Lines -> SlType] /\ cdb \in CdbType
    BY DEF LineInv, LineTypeOK, SlType, CdbType
  <1>2. \A k \in Lines : Found(cdb, line[k], k)
    BY DEF IdsAreFound, Found
  <1>3. World(l) \in WorldType /\ World(l).l = l /\ World(l).sl = line[l] /\ World(l).cdb = cdb
    BY <1>1 DEF World, WorldType
  <1>4. ASSUME NEW k \in Lines \ {l}
        PROVE  /\ line[l].our # Nil => line[k].our # line[l].our /\ line[k].party # line[l].our
               /\ line[l].party # Nil => line[k].our # line[l].party /\ line[k].party # line[l].party
    BY <1>4 DEF NoInnerCalls, IdsOf
  <1>5. ASSUME NEW k \in Lines \ {l}
        PROVE  line[l].track # Nil => line[k].track # line[l].track
    BY <1>2, <1>5 DEF Found
  <1>6. line[l].our \in OwnChans(l) \cup {Nil} /\ line[l].party \in OwnChans(l) \cup {Nil}
    BY <1>1, <1>4 DEF OwnChans, SlType
  <1>7. line[l].track \in OwnTracks(l) \cup {Nil}
    BY <1>1, <1>5 DEF OwnTracks, SlType
  <1> QED
    BY <1>1, <1>2, <1>3, <1>6, <1>7 DEF Good

\* A step to a good world keeps every line found.
LEMMA GoodStep ==
  ASSUME LineInv, NEW l \in Lines, NEW v \in Good(l), Becomes(v)
  PROVE  IdsAreFound'
  <1>1. line \in [Lines -> SlType]
    BY DEF LineInv, LineTypeOK, SlType
  <1>2. line' = [line EXCEPT ![l] = v.sl] /\ cdb' = v.cdb
    BY DEF Becomes, Good
  <1>3. ASSUME NEW k \in Lines
        PROVE  Found(cdb', line'[k], k)
    <2>1. CASE k = l
      BY <1>1, <1>2, <2>1 DEF Good
    <2>2. CASE k # l
      BY <1>1, <1>2, <2>2 DEF Good
    <2> QED
      BY <2>1, <2>2
  <1> QED
    BY <1>3 DEF IdsAreFound, Found

\* The id a message carries to a line is no other line's.
LEMMA CarriedOwn ==
  ASSUME NoInnerCalls, NEW r \in Readers, rd[r].line \in Lines, rd[r].id \in Chans
  PROVE  rd[r].id \in OwnChans(rd[r].line)
  <1> DEFINE l == rd[r].line
             i == rd[r].id
  <1>1. i # Nil
    BY LinesAssumption
  <1>2. i \in IdsOf(l)
    BY <1>1 DEF IdsOf
  <1>3. ASSUME NEW k \in Lines \ {l}
        PROVE  line[k].our # i /\ line[k].party # i
    <2>1. i \notin IdsOf(k)
      BY <1>2, <1>3 DEF NoInnerCalls
    <2> QED
      BY <1>1, <2>1 DEF IdsOf
  <1> QED
    BY <1>3 DEF OwnChans

\* Every step keeps the lines found.
LEMMA FoundStep ==
  ASSUME LineInv, IdsAreFound, NoInnerCalls, [Next]_vars
  PROVE  IdsAreFound'
  <1>0. \A l \in Lines : World(l) \in Good(l)
    BY WorldGood
  <1>1. ASSUME NEW l \in Lines, External(l) PROVE IdsAreFound'
    BY <1>0, <1>1, GoodExternal, GoodStep DEF External
  <1>2. ASSUME NEW l \in Lines, PhoneEvent(l) PROVE IdsAreFound'
    BY <1>0, <1>2, GoodEvent, GoodStep DEF PhoneEvent
  <1>3. ASSUME NEW l \in Lines, Expire(l) PROVE IdsAreFound'
    <2>1. line' = [line EXCEPT ![l].armed = FALSE] /\ UNCHANGED cdb
      BY <1>3 DEF Expire
    <2>2. line \in [Lines -> SlType]
      BY DEF LineInv, LineTypeOK, SlType
    <2>3. \A k \in Lines : /\ line'[k].our = line[k].our /\ line'[k].party = line[k].party
                          /\ line'[k].track = line[k].track
      BY <2>1, <2>2 DEF SlType
    <2> QED
      BY <2>1, <2>3 DEF IdsAreFound
  <1>4. ASSUME NEW l \in Lines, line_tmr_hndlr(l) PROVE IdsAreFound'
    <2>1. CASE UNCHANGED <<line, cdb>>
      BY <2>1 DEF IdsAreFound
    <2>2. CASE \E w \in TimerActs(World(l)) : Becomes(w)
      BY <1>0, <2>2, GoodTimer, GoodStep
    <2> QED
      BY <1>4, <2>1, <2>2 DEF line_tmr_hndlr
  <1>5. ASSUME NEW r \in Readers, NEW l \in Lines, Preselect(r, l) PROVE IdsAreFound'
    <2>1. UNCHANGED <<line, cdb>>
      BY <1>5 DEF Preselect, Select, address_preselect, callto_preselect, peerid_preselect,
                  sym_id_preselect, chan_disc_preselect, chan_hangup_preselect
    <2> QED
      BY <2>1 DEF IdsAreFound
  <1>6. ASSUME NEW r \in Readers, rd[r].pc # "idle"
        PROVE  /\ rd[r].line \in Lines /\ rd[r].id \in Chans \cup {Nil}
               /\ rd[r].msg \in {"call.execute", "chan.startup", "chan.disconnected"}
                    => rd[r].id \in Chans
    BY <1>6 DEF LineInv, LineTypeOK, RdInv
  <1>7. ASSUME NEW r \in Readers, cctl_process_msg(r) PROVE IdsAreFound'
    <2> DEFINE m == rd[r]
               w == World(m.line)
    <2>1. m.pc = "selected"
      BY <1>7 DEF cctl_process_msg
    <2>2. /\ m.line \in Lines /\ m.id \in Chans \cup {Nil}
          /\ m.msg \in {"call.execute", "chan.startup"} => m.id \in Chans
      BY <1>6, <2>1
    <2>3. m.id \in Chans => m.id \in OwnChans(m.line)
      BY <2>2, CarriedOwn
    <2>4. w \in Good(m.line)
      BY <1>0, <2>2
    <2>5. \/ UNCHANGED <<line, cdb>>
          \/ m.msg = "call.answered" /\ Becomes(process_call_answered(w, m.id))
          \/ m.msg = "call.execute" /\ \E v \in process_call_execute(w, m.id) : Becomes(v)
          \/ m.msg = "chan.startup" /\ Becomes(preprocess_chan_startup(w, m.id))
      BY <1>7 DEF cctl_process_msg
    <2>6. CASE UNCHANGED <<line, cdb>>
      BY <2>6 DEF IdsAreFound
    <2> HIDE DEF m, w
    <2>7. CASE Becomes(process_call_answered(w, m.id))
      <3>1. process_call_answered(w, m.id) \in Good(m.line)
        BY <2>2, <2>3, <2>4, GoodMessage, GoodPlainMessage
      <3> QED
        BY <2>2, <2>7, <3>1, GoodStep
    <2>8. CASE m.msg = "call.execute" /\ \E v \in process_call_execute(w, m.id) : Becomes(v)
      BY <2>2, <2>3, <2>4, <2>8, GoodMessage, GoodStep
    <2>9. CASE m.msg = "chan.startup" /\ Becomes(preprocess_chan_startup(w, m.id))
      BY <2>2, <2>3, <2>4, <2>9, GoodMessage, GoodStep
    <2> QED
      BY <2>5, <2>6, <2>7, <2>8, <2>9
  <1>8. ASSUME NEW r \in Readers, RunHook(r) PROVE IdsAreFound'
    <2> DEFINE m == rd[r]
               w == World(m.line)
    <2>1. m.pc = "hook"
      BY <1>8 DEF RunHook
    <2>2. m.line \in Lines /\ (m.msg = "chan.disconnected" => m.id \in Chans)
      BY <1>6, <2>1
    <2>3. m.id \in Chans => m.id \in OwnChans(m.line)
      BY <2>2, CarriedOwn
    <2>4. w \in Good(m.line)
      BY <1>0, <2>2
    <2>5. \/ \E v \in process_chan_dtmf(w, m.text) : Becomes(v)
          \/ m.msg = "chan.disconnected" /\ \E v \in process_chan_disconnect(w, m.id) : Becomes(v)
          \/ \E v \in process_chan_hangup(w) : Becomes(v)
          \/ \E v \in process_chan_startup(w) : Becomes(v)
      BY <1>8 DEF RunHook
    <2> HIDE DEF m, w
    <2>6. ASSUME NEW v \in Good(m.line), Becomes(v)
          PROVE  IdsAreFound'
      BY <2>2, <2>6, GoodStep
    <2>7. CASE m.msg = "chan.disconnected" /\ \E v \in process_chan_disconnect(w, m.id) : Becomes(v)
      BY <2>2, <2>3, <2>4, <2>6, <2>7, GoodMessage
    <2> QED
      BY <2>2, <2>4, <2>5, <2>6, <2>7, GoodPlainMessage
  <1>9. CASE UNCHANGED vars
    BY <1>9 DEF vars, IdsAreFound
  <1> QED
    BY <1>1, <1>2, <1>3, <1>4, <1>5, <1>7, <1>8, <1>9 DEF Next

\* As long as no line of the station is the party of another one, the engine's
\* messages find every line by the ids it goes by (our channel, the party's and
\* the tracking id), for any number of lines, readers, late hooks and late timer
\* threads.  With inner calls they do not: call_drop() removes the party's id
\* from the map of our ids, whichever line entered it.
THEOREM LineIsFound == Spec /\ []NoInnerCalls => []IdsAreFound
  <1>1. Init => IdsAreFound
    <2> SUFFICES ASSUME Init, NEW l \in Lines
                 PROVE  line[l].our = Nil /\ line[l].party = Nil /\ line[l].track = Nil
      BY DEF IdsAreFound
    <2>1. line[l] = [state |-> "DISABLED", offhook |-> FALSE, outgoing |-> FALSE,
                     selected |-> FALSE, digits |-> 0, our |-> Nil, party |-> Nil,
                     track |-> Nil, armed |-> FALSE]
      BY DEF Init
    <2> QED
      BY <2>1
  <1>2. LineInv /\ IdsAreFound /\ NoInnerCalls /\ [Next]_vars => IdsAreFound'
    BY FoundStep
  <1> QED
    BY <1>1, <1>2, LineInvariant, PTL DEF Spec

\* In particular a station with one line, as in the run line_alone, needs no
\* condition.
THEOREM OnlyLineIsFound ==
  ASSUME \A k, l \in Lines : k = l
  PROVE  Spec => []IdsAreFound
  <1>1. NoInnerCalls
    BY DEF NoInnerCalls
  <1> QED
    BY <1>1, LineIsFound, PTL
=============================================================================
