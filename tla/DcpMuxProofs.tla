---------------------------- MODULE DcpMuxProofs ----------------------------
(***************************************************************************)
(* Proofs about DcpMux, for every sequence space, retry limit, transport   *)
(* capacity and budget of the environment.                                 *)
(***************************************************************************)
EXTENDS DcpMux, DcpLinkProofs

\* What appending does to the members of a sequence.
LEMMA AppendFacts ==
  ASSUME NEW S, NEW q \in Seq(S), NEW e \in S
  PROVE  /\ Append(q, e) \in Seq(S) /\ Len(Append(q, e)) = Len(q) + 1
         /\ DOMAIN Append(q, e) = 1 .. Len(q) + 1 /\ DOMAIN q = 1 .. Len(q)
         /\ Len(q) \in Nat /\ Append(q, e)[Len(q) + 1] = e
         /\ \A i \in 1 .. Len(q) : Append(q, e)[i] = q[i] /\ q[i] \in S
  OBVIOUS

\* What taking the head off does to them.
LEMMA TailFacts ==
  ASSUME NEW S, NEW q \in Seq(S), q # <<>>
  PROVE  /\ Tail(q) \in Seq(S) /\ Len(Tail(q)) = Len(q) - 1 /\ Len(q) \in Nat \ {0}
         /\ DOMAIN Tail(q) = 1 .. Len(q) - 1 /\ DOMAIN q = 1 .. Len(q)
         /\ Head(q) = q[1] /\ Head(q) \in S
         /\ \A i \in 1 .. Len(q) - 1 : Tail(q)[i] = q[i + 1] /\ q[i + 1] \in S
  OBVIOUS

\* A sequence that is not empty has a last member.
LEMMA LastFacts ==
  ASSUME NEW S, NEW q \in Seq(S), q # <<>>
  PROVE  Len(q) \in DOMAIN q /\ q[Len(q)] \in S
  OBVIOUS

\* An appended member is the last, and makes a different sequence.
LEMMA AppendLast ==
  ASSUME NEW S, NEW q \in Seq(S), NEW e \in S
  PROVE  Append(q, e) # <<>> /\ Append(q, e)[Len(Append(q, e))] = e /\ Append(q, e) # q
  OBVIOUS

-----------------------------------------------------------------------------
(* Type correctness, and the link inside the multiplexer.                  *)

\* Only frames a far end can send are on the way to dcp_process_pkt(), and the
\* environment stays within its budget.
FarFrames ==
  /\ toSwitch \in Seq(AnyFrame)
  /\ \A w \in Workers : wk[w].frame \in AnyFrame
  /\ spent \in [DOMAIN Budget -> Nat]
  /\ \A k \in DOMAIN Budget : spent[k] <= Budget[k]

MuxInv == MuxTypeOK /\ FarFrames

\* The frames of the telephone are frames of a far end.
LEMMA FarFrameTypes ==
  /\ UFrame("UA") \in AnyFrame /\ UFrame("DM") \in AnyFrame /\ NoFrame \in AnyFrame
  /\ \A n \in SeqNums : RRFrame(n) \in AnyFrame
  /\ \A m, n \in SeqNums, b \in Bodies : IFrame(m, n, b) \in AnyFrame
  <1>1. UFrame("UA") \in AnyFrame /\ UFrame("DM") \in AnyFrame /\ NoFrame \in AnyFrame
    BY DEF AnyFrame, NoFrame
  <1>2. \A n \in SeqNums : RRFrame(n) \in AnyFrame
    BY DEF AnyFrame
  <1>3. ASSUME NEW m \in SeqNums, NEW n \in SeqNums, NEW b \in Bodies
        PROVE  IFrame(m, n, b) \in AnyFrame
    <2>1. <<m, n>> \in SeqNums \X SeqNums /\ <<m, n>>[1] = m /\ <<m, n>>[2] = n
      OBVIOUS
    <2>2. IFrame(<<m, n>>[1], <<m, n>>[2], b) \in
             {IFrame(f[1], f[2], c) : f \in SeqNums \X SeqNums, c \in Bodies}
      BY <2>1
    <2>. QED  BY <2>1, <2>2 DEF AnyFrame
  <1>. QED  BY <1>1, <1>2, <1>3

\* A frame has the fields of a frame.
LEMMA FrameFields ==
  ASSUME NEW f \in Frames
  PROVE  /\ f.ns \in SeqNums /\ f.nr \in SeqNums /\ f.body \in Bodies
         /\ f.type \in {"SABM", "UA", "DM", "RR", "I"}
  BY DEF Frames

\* The link's part of every step of the multiplexer is a step of DcpLink.
LEMMA LinkStep ==
  ASSUME MuxInv, [MuxNext]_muxVars
  PROVE  [Next]_linkVars
  <1>1. CASE PhoneTakes
    BY <1>1 DEF PhoneTakes, TakeFrame, Next
  <1>2. CASE PhoneDM \/ PhoneKey \/ PhoneRestart
    BY <1>2 DEF PhoneDM, PhoneKey, PhoneRestart
  <1>3. CASE LoseFrame
    BY <1>3 DEF LoseFrame, Next
  <1>4. ASSUME NEW w \in Workers, WorkerReads(w) \/ WorkerSamples(w) \/ WorkerReports(w)
        PROVE  UNCHANGED linkVars
    BY <1>4 DEF WorkerReads, WorkerSamples, WorkerReports
  <1>5. ASSUME NEW w \in Workers, dcp_handle_data(w)
        PROVE  Next
    BY <1>5 DEF dcp_handle_data, MuxInv, FarFrames, Next
  <1>6. CASE dcpmux_ifup \/ dcpmux_ifdown \/ LinkThreads
    BY <1>6 DEF dcpmux_ifup, dcpmux_ifdown, LinkThreads, Next, LinkLocal
  <1>7. CASE UNCHANGED muxVars
    BY <1>7 DEF muxVars
  <1>. QED
    BY <1>1, <1>2, <1>3, <1>4, <1>5, <1>6, <1>7 DEF MuxNext

\* The environment's budget is respected.
LEMMA SpendFacts ==
  ASSUME MuxInv, NEW k \in {"ifup", "ifdown", "restart", "key", "loss"}, Spend(k)
  PROVE  /\ spent' \in [DOMAIN Budget -> Nat]
         /\ \A j \in DOMAIN Budget : spent'[j] <= Budget[j]
         /\ spent[k] + 1 \in 1 .. Budget[k]
  <1>1. DOMAIN Budget = {"ifup", "ifdown", "restart", "key", "loss"} /\ \A j \in DOMAIN Budget : Budget[j] \in Nat
    BY BudgetAssumption
  <1>2. /\ spent \in [DOMAIN Budget -> Nat] /\ k \in DOMAIN Budget
        /\ \A j \in DOMAIN Budget : spent[j] <= Budget[j]
    BY <1>1 DEF MuxInv, FarFrames
  <1>3. spent[k] < Budget[k] /\ spent' = [spent EXCEPT ![k] = spent[k] + 1] /\ spent[k] \in Nat
    BY <1>2 DEF Spend
  <1>. QED  BY <1>1, <1>2, <1>3

\* What the telephone sends is queued or lost.
LEMMA PhoneSendsType ==
  ASSUME MuxInv, NEW f \in AnyFrame, PhoneSends(f)
  PROVE  toSwitch' \in Seq(AnyFrame) /\ toSwitch' \in Seq(Frames)
  <1>1. f \in Frames
    BY AnyFrameIsFrame
  <1>2. toSwitch' \in Seq(AnyFrame)
    BY DEF MuxInv, FarFrames, PhoneSends
  <1>3. toSwitch' \in Seq(Frames)
    BY <1>1 DEF MuxInv, MuxTypeOK, PhoneSends
  <1>. QED  BY <1>2, <1>3

WorkerType == [pc : {"idle", "got", "sampled", "handled"}, frame : Frames,
               prev : States, data : Bodies]

\* A worker that moves on carries a frame of the far end.
LEMMA WorkerMoves ==
  ASSUME MuxInv, NEW w \in Workers, NEW pc \in {"idle", "got", "sampled", "handled"},
         NEW f \in AnyFrame, NEW prev \in States, NEW data \in Bodies,
         wk' = [wk EXCEPT ![w] = At(pc, f, prev, data)]
  PROVE  /\ wk' \in [Workers -> WorkerType]
         /\ \A v \in Workers : wk'[v].frame \in AnyFrame
         /\ wk'[w] = At(pc, f, prev, data)
         /\ \A v \in Workers \ {w} : wk'[v] = wk[v]
  <1>1. wk \in [Workers -> WorkerType]
    BY DEF MuxInv, MuxTypeOK, WorkerType
  <1>2. At(pc, f, prev, data) \in WorkerType /\ At(pc, f, prev, data).frame = f
    BY AnyFrameIsFrame DEF At, WorkerType
  <1>3. \A v \in Workers : wk[v].frame \in AnyFrame
    BY DEF MuxInv, FarFrames
  <1>. QED  BY <1>1, <1>2, <1>3

\* A step keeps the rest of the multiplexer's state well formed.
LEMMA MuxInvStep ==
  ASSUME MuxInv, [MuxNext]_muxVars
  PROVE  MuxInv'
  <1>1. TypeOK'
    BY LinkStep, TypeStep DEF MuxInv, MuxTypeOK
  <1>2. wk \in [Workers -> WorkerType] /\ \A w \in Workers : wk[w].frame \in AnyFrame
    BY DEF MuxInv, MuxTypeOK, FarFrames, WorkerType
  <1> SUFFICES /\ toSwitch' \in Seq(Frames) /\ toSwitch' \in Seq(AnyFrame)
               /\ wk' \in [Workers -> WorkerType]
               /\ \A w \in Workers : wk'[w].frame \in AnyFrame
               /\ phone' \in {"down", "up", "dead"} /\ vr' \in SeqNums /\ vs' \in SeqNums
               /\ plog' \in Seq(1 .. MaxSend) /\ told' \in {"none", "UP"}
               /\ session' \in [clean : BOOLEAN, base : 0 .. MaxSend]
               /\ spent' \in [DOMAIN Budget -> Nat]
               /\ \A k \in DOMAIN Budget : spent'[k] <= Budget[k]
    BY <1>1 DEF MuxInv, MuxTypeOK, FarFrames, WorkerType
  <1>3. CASE PhoneTakes
    <2> DEFINE f == Head(toPhone)
    <2>1. f \in Frames
      BY <1>3 DEF PhoneTakes, MuxInv, MuxTypeOK, TypeOK
    <2>2. f.body \in Bodies
      BY <2>1, FrameFields
    <2>3. UNCHANGED <<wk, told, session, spent>>
      BY <1>3 DEF PhoneTakes
    <2>4. CASE f.type = "SABM" /\ phone' = "up" /\ vr' = 0 /\ vs' = 0
                /\ PhoneSends(UFrame("UA")) /\ UNCHANGED plog
      BY <1>2, <2>3, <2>4, PhoneSendsType, FarFrameTypes, IncrFacts
         DEF MuxInv, MuxTypeOK, FarFrames
    <2>5. CASE /\ vr' = (IF f.ns = vr THEN Incr(vr) ELSE vr)
               /\ plog' = (IF f.ns = vr /\ f.body # Dummy THEN Append(plog, f.body) ELSE plog)
               /\ PhoneSends(RRFrame(vr'))
               /\ UNCHANGED <<phone, vs>>
      <3>1. vr' \in SeqNums
        BY <2>5, IncrFacts DEF MuxInv, MuxTypeOK
      <3>2. plog' \in Seq(1 .. MaxSend)
        <4>1. f.body # Dummy => f.body \in 1 .. MaxSend
          BY <2>2, BoundAssumption DEF Bodies, Dummy
        <4>2. plog \in Seq(1 .. MaxSend)
          BY DEF MuxInv, MuxTypeOK
        <4>3. CASE f.ns = vr /\ f.body # Dummy
          BY <2>5, <4>1, <4>2, <4>3, AppendFacts
        <4>. QED  BY <2>5, <4>2, <4>3
      <3>3. toSwitch' \in Seq(AnyFrame) /\ toSwitch' \in Seq(Frames)
        BY <2>5, <3>1, PhoneSendsType, FarFrameTypes
      <3>. QED
        BY <1>2, <2>3, <2>5, <3>1, <3>2, <3>3 DEF MuxInv, MuxTypeOK, FarFrames
    <2>6. CASE UNCHANGED <<phoneVars, toSwitch>>
      BY <1>2, <2>3, <2>6 DEF MuxInv, MuxTypeOK, FarFrames, phoneVars
    <2>. QED  BY <1>3, <2>4, <2>5, <2>6 DEF PhoneTakes
  <1>4. CASE PhoneDM
    BY <1>2, <1>4, PhoneSendsType, FarFrameTypes
       DEF PhoneDM, phoneVars, MuxInv, MuxTypeOK, FarFrames
  <1>5. CASE PhoneKey
    <2>1. spent["key"] + 1 \in Bodies
      BY <1>5, SpendFacts, BudgetAssumption, BoundAssumption DEF PhoneKey, Bodies, Dummy
    <2>2. IFrame(vs, vr, spent["key"] + 1) \in AnyFrame
      BY <2>1, FarFrameTypes DEF MuxInv, MuxTypeOK
    <2>3. /\ spent' \in [DOMAIN Budget -> Nat]
          /\ \A k \in DOMAIN Budget : spent'[k] <= Budget[k]
      BY <1>5, SpendFacts DEF PhoneKey
    <2>4. toSwitch' \in Seq(AnyFrame) /\ toSwitch' \in Seq(Frames)
      BY <1>5, <2>2, PhoneSendsType DEF PhoneKey
    <2>. QED
      BY <1>2, <1>5, <2>3, <2>4, IncrFacts DEF PhoneKey, MuxInv, MuxTypeOK
  <1>6. CASE PhoneRestart
    <2>1. /\ spent' \in [DOMAIN Budget -> Nat]
          /\ \A k \in DOMAIN Budget : spent'[k] <= Budget[k]
      BY <1>6, SpendFacts DEF PhoneRestart
    <2>. QED
      BY <1>2, <1>6, <2>1 DEF PhoneRestart, MuxInv, MuxTypeOK, FarFrames
  <1>7. CASE LoseFrame
    <2>1. /\ spent' \in [DOMAIN Budget -> Nat]
          /\ \A k \in DOMAIN Budget : spent'[k] <= Budget[k]
      BY <1>7, SpendFacts DEF LoseFrame
    <2>2. toSwitch' \in Seq(AnyFrame) /\ toSwitch' \in Seq(Frames)
      <3>1. toSwitch \in Seq(AnyFrame) /\ toSwitch \in Seq(Frames)
        BY DEF MuxInv, MuxTypeOK, FarFrames
      <3>2. UNCHANGED toSwitch \/ (toSwitch # <<>> /\ toSwitch' = Tail(toSwitch))
        BY <1>7 DEF LoseFrame
      <3>. QED  BY <3>1, <3>2, TailFacts
    <2>. QED
      BY <1>2, <1>7, <2>1, <2>2 DEF LoseFrame, phoneVars, MuxInv, MuxTypeOK
  <1>8. ASSUME NEW w \in Workers, WorkerReads(w)
        PROVE  MuxInv'
    <2>1. /\ toSwitch # <<>> /\ toSwitch' = Tail(toSwitch)
          /\ wk' = [wk EXCEPT ![w] = At("got", Head(toSwitch), "DISABLE", Dummy)]
          /\ UNCHANGED <<phoneVars, told, session, spent>>
      BY <1>8 DEF WorkerReads
    <2>2. toSwitch \in Seq(AnyFrame) /\ toSwitch \in Seq(Frames)
      BY DEF MuxInv, MuxTypeOK, FarFrames
    <2>3. toSwitch' \in Seq(AnyFrame) /\ toSwitch' \in Seq(Frames) /\ Head(toSwitch) \in AnyFrame
      BY <2>1, <2>2, TailFacts
    <2>4. "DISABLE" \in States /\ Dummy \in Bodies
      BY BoundAssumption DEF States, Bodies, Dummy
    <2>5. wk' \in [Workers -> WorkerType] /\ \A v \in Workers : wk'[v].frame \in AnyFrame
      BY <2>1, <2>3, <2>4, WorkerMoves
    <2>. QED
      BY <1>1, <2>1, <2>3, <2>5 DEF MuxInv, MuxTypeOK, FarFrames, WorkerType, phoneVars
  <1>9. ASSUME NEW w \in Workers, WorkerSamples(w)
        PROVE  MuxInv'
    <2>1. /\ wk' = [wk EXCEPT ![w] = At("sampled", wk[w].frame, state, Dummy)]
          /\ UNCHANGED <<toSwitch, phoneVars, told, session, spent>>
      BY <1>9 DEF WorkerSamples
    <2>2. state \in States /\ Dummy \in Bodies
      BY BoundAssumption DEF Bodies, Dummy, MuxInv, MuxTypeOK, TypeOK
    <2>3. wk' \in [Workers -> WorkerType] /\ \A v \in Workers : wk'[v].frame \in AnyFrame
      BY <1>2, <2>1, <2>2, WorkerMoves
    <2>. QED
      BY <1>1, <2>1, <2>3 DEF MuxInv, MuxTypeOK, FarFrames, WorkerType, phoneVars
  <1>10. ASSUME NEW w \in Workers, dcp_handle_data(w)
         PROVE  MuxInv'
    <2>1. /\ wk' = [wk EXCEPT ![w] = At("handled", NoFrame, wk[w].prev, DataOf(wk[w].frame))]
          /\ session' = IF state = "EXPECT_UA" /\ state' = "LINK_UP"
                          THEN [clean |-> Settled(w), base |-> accepted] ELSE session
          /\ UNCHANGED <<toSwitch, phoneVars, told, spent>>
      BY <1>10 DEF dcp_handle_data
    <2>2. wk[w].prev \in States /\ wk[w].frame \in Frames
      BY <1>2 DEF WorkerType
    <2>3. DataOf(wk[w].frame) \in Bodies
      BY <2>2, FrameFields, BoundAssumption DEF DataOf, Bodies, Dummy
    <2>4. wk' \in [Workers -> WorkerType] /\ \A v \in Workers : wk'[v].frame \in AnyFrame
      BY <2>1, <2>2, <2>3, FarFrameTypes, WorkerMoves
    <2>5. session' \in [clean : BOOLEAN, base : 0 .. MaxSend]
      <3>1. Settled(w) \in BOOLEAN
        BY DEF Settled
      <3>. QED  BY <2>1, <3>1 DEF MuxInv, MuxTypeOK, TypeOK
    <2>. QED
      BY <1>1, <2>1, <2>4, <2>5 DEF MuxInv, MuxTypeOK, FarFrames, WorkerType, phoneVars
  <1>11. ASSUME NEW w \in Workers, WorkerReports(w)
         PROVE  MuxInv'
    <2>1. /\ wk' = [wk EXCEPT ![w] = At("idle", NoFrame, "DISABLE", Dummy)]
          /\ told' \in {told, "UP"}
          /\ UNCHANGED <<toSwitch, phoneVars, session, spent>>
      BY <1>11 DEF WorkerReports, Idle
    <2>2. "DISABLE" \in States /\ Dummy \in Bodies
      BY BoundAssumption DEF States, Bodies, Dummy
    <2>3. wk' \in [Workers -> WorkerType] /\ \A v \in Workers : wk'[v].frame \in AnyFrame
      BY <2>1, <2>2, FarFrameTypes, WorkerMoves
    <2>. QED
      BY <1>1, <2>1, <2>3 DEF MuxInv, MuxTypeOK, FarFrames, WorkerType, phoneVars
  <1>12. CASE dcpmux_ifup \/ dcpmux_ifdown
    <2>1. /\ spent' \in [DOMAIN Budget -> Nat]
          /\ \A k \in DOMAIN Budget : spent'[k] <= Budget[k]
      BY <1>12, SpendFacts DEF dcpmux_ifup, dcpmux_ifdown
    <2>. QED
      BY <1>2, <1>12, <2>1
         DEF dcpmux_ifup, dcpmux_ifdown, MuxInv, MuxTypeOK, FarFrames, phoneVars
  <1>13. CASE LinkThreads
    BY <1>2, <1>13 DEF LinkThreads, MuxInv, MuxTypeOK, FarFrames, phoneVars
  <1>14. CASE UNCHANGED muxVars
    BY <1>2, <1>14 DEF muxVars, phoneVars, MuxInv, MuxTypeOK, FarFrames
  <1>. QED
    BY <1>3, <1>4, <1>5, <1>6, <1>7, <1>8, <1>9, <1>10, <1>11, <1>12, <1>13, <1>14
       DEF MuxNext, MuxInv, MuxTypeOK, FarFrames, WorkerType

\* The multiplexer starts well formed.
LEMMA MuxInvInit ==
  ASSUME MuxInit
  PROVE  MuxInv
  <1>1. TypeOK
    BY InitType DEF MuxInit
  <1>2. toSwitch \in Seq(Frames) /\ toSwitch \in Seq(AnyFrame) /\ plog \in Seq(1 .. MaxSend)
    BY DEF MuxInit
  <1>3. Idle \in WorkerType /\ Idle.frame = NoFrame
    BY FarFrameTypes, AnyFrameIsFrame, BoundAssumption
       DEF Idle, At, WorkerType, States, Bodies, Dummy
  <1>4. wk \in [Workers -> WorkerType] /\ \A w \in Workers : wk[w].frame \in AnyFrame
    BY <1>3, FarFrameTypes DEF MuxInit
  <1>5. /\ spent \in [DOMAIN Budget -> Nat]
        /\ \A k \in DOMAIN Budget : spent[k] <= Budget[k]
    BY BudgetAssumption DEF MuxInit
  <1>6. session \in [clean : BOOLEAN, base : 0 .. MaxSend]
    <2>1. FALSE \in BOOLEAN /\ 0 \in 0 .. MaxSend
      BY BoundAssumption
    <2>. QED  BY <2>1 DEF MuxInit
  <1>. QED
    BY <1>1, <1>2, <1>4, <1>5, <1>6, IncrFacts DEF MuxInit, MuxInv, MuxTypeOK, FarFrames, WorkerType

\* MuxInv holds in every reachable state.
LEMMA MuxInvariant == MuxSpec => []MuxInv
  BY MuxInvInit, MuxInvStep, PTL DEF MuxSpec

\* The multiplexer's own state, its workers' included, stays well formed: in
\* particular a worker never hands dcp_process_pkt() anything but a frame, and
\* what the telephone is given are payloads that dcpmux_send() accepted.
THEOREM MuxTypeCorrect == MuxSpec => []MuxTypeOK
  BY MuxInvariant, PTL DEF MuxInv

\* Every behaviour of the multiplexer is, seen from the link, a behaviour of
\* DcpLink: what is proved of the link for any far end holds for the link as
\* the workers, the timer threads and the interface operations drive it.
THEOREM MuxImplementsLink == MuxSpec => ImplementsLink
  <1>1. MuxInit => LinkInit
    BY DEF MuxInit
  <1>2. MuxInv /\ [MuxNext]_muxVars => [Next]_linkVars
    BY LinkStep
  <1>. QED  BY <1>1, <1>2, MuxInvariant, PTL DEF MuxSpec, ImplementsLink, Spec

\* With it the two guarantees of the link carry over to the multiplexer: a link
\* that is up is watched, and no step of a worker, a timer thread or an interface
\* operation frees a link that is up and leaves a sender asleep.
THEOREM MuxLinkIsWatched == MuxSpec => []UpIsWatched /\ NoMissedWakeup
  BY MuxImplementsLink, Watched, Wakeups, PTL DEF ImplementsLink

-----------------------------------------------------------------------------
(* What the link does to the sequence numbers and the frames, in six moves. *)

Quiet == UNCHANGED <<state, local_ns, remote_nr, xpkt, accepted, toPhone>>

\* dcp_send_sabm() and dcp_reset_state().
StartsOver ==
  /\ local_ns' = SeqMod - 1 /\ remote_nr' = 0 /\ UNCHANGED <<xpkt, accepted>>
  /\ \/ state' = "EXPECT_UA" /\ toPhone' = Append(toPhone, UFrame("SABM"))
     \/ state' = "RESET" /\ toPhone' = toPhone

Disables ==
  state' = "DISABLE" /\ UNCHANGED <<local_ns, remote_nr, xpkt, accepted, toPhone>>

ComesUp ==
  /\ state = "EXPECT_UA" /\ state' = "LINK_UP"
  /\ UNCHANGED <<local_ns, remote_nr, xpkt, accepted, toPhone>>

\* dcp_process_rr(), dcp_ack_iframe() and the timer's retry: nr becomes the last
\* NR, and an RR or the kept packet may be written.
Hears(nr) ==
  /\ state = "LINK_UP" /\ state' = "LINK_UP" /\ remote_nr' = nr
  /\ UNCHANGED <<local_ns, xpkt, accepted>>
  /\ \/ toPhone' = toPhone
     \/ \E n \in SeqNums : toPhone' = Append(toPhone, RRFrame(n))
     \/ xpkt # NoPkt /\ \E n \in SeqNums : toPhone' = Append(toPhone, IFrame(local_ns, n, xpkt))

\* dcp_xmt() and send_dummy(): a new frame on a free link.
SendsNew ==
  /\ CanSend /\ state' = state /\ remote_nr' = remote_nr /\ local_ns' = Incr(local_ns)
  /\ \/ xpkt' = Dummy /\ accepted' = accepted
     \/ xpkt' = accepted + 1 /\ accepted' = accepted + 1 /\ accepted < MaxSend
  /\ \/ toPhone' = toPhone
     \/ \E n \in SeqNums : toPhone' = Append(toPhone, IFrame(Incr(local_ns), n, xpkt'))

\* resend_iframe() writes nothing, or the frame it is given.
LEMMA ResendWrites ==
  ASSUME TypeOK, NEW ns \in SeqNums, NEW b \in Bodies \cup {NoPkt}, resend_iframe(ns, b)
  PROVE  \/ toPhone' = toPhone
         \/ b # NoPkt /\ \E n \in SeqNums : toPhone' = Append(toPhone, IFrame(ns, n, b))
  <1>1. Incr(remote_ns) \in SeqNums
    BY IncrFacts DEF TypeOK
  <1>2. CASE b = NoPkt
    BY <1>2 DEF resend_iframe, NotWritten
  <1>3. CASE b # NoPkt
    BY <1>1, <1>3 DEF resend_iframe, write_packet, Wrote, NotWritten
  <1>. QED  BY <1>2, <1>3

\* dcp_send_sabm() is a restart.
LEMMA SabmStartsOver ==
  ASSUME dcp_send_sabm, UNCHANGED <<xpkt, accepted>>
  PROVE  StartsOver
  BY DEF dcp_send_sabm, ClearCounts, Wrote, NotWritten, StartsOver

\* A retry repeats the kept packet with its number, or resets the link.
LEMMA RetryMoves ==
  ASSUME TypeOK, state = "LINK_UP", NEW nr \in SeqNums, RetryOrGiveUp(nr),
         UNCHANGED <<xpkt, accepted>>
  PROVE  StartsOver \/ Hears(nr)
  <1>1. CASE iretr_cnt + 1 > MaxIretr
    BY <1>1 DEF RetryOrGiveUp, dcp_reset_state, ClearCounts, NotWritten, StartsOver
  <1>2. CASE ~(iretr_cnt + 1 > MaxIretr)
    <2>1. /\ remote_nr' = nr /\ resend_iframe(local_ns, xpkt)
          /\ UNCHANGED <<state, remote_ns, local_ns, keepalive_cnt>>
      BY <1>2 DEF RetryOrGiveUp
    <2>2. \/ toPhone' = toPhone
          \/ xpkt # NoPkt /\ \E n \in SeqNums : toPhone' = Append(toPhone, IFrame(local_ns, n, xpkt))
      BY <2>1, ResendWrites DEF TypeOK
    <2>. QED  BY <2>1, <2>2 DEF Hears
  <1>. QED  BY <1>1, <1>2

\* dcp_process_pkt(): what a received frame can do.
LEMMA FrameMoves ==
  ASSUME TypeOK, NEW f \in AnyFrame, dcp_process_pkt(f)
  PROVE  \/ Quiet \/ StartsOver
         \/ f.type = "UA" /\ ComesUp
         \/ f.type \in {"RR", "I"} /\ Hears(f.nr)
  <1>0. f.nr \in SeqNums /\ f.ns \in SeqNums
    BY AnyFrameIsFrame, FrameFields
  <1>1. CASE RcvDM(f)
    BY <1>1, SabmStartsOver DEF RcvDM
  <1>2. CASE RcvUA(f)
    BY <1>2 DEF RcvUA, ComesUp, seqVars
  <1>3. CASE RcvRR(f)
    <2>1. CASE Acked(local_ns, f.nr)
      BY <1>3, <2>1 DEF RcvRR, Hears
    <2>2. CASE ~Acked(local_ns, f.nr)
      BY <1>0, <1>3, <2>2, RetryMoves DEF RcvRR
    <2>. QED  BY <1>3, <2>1, <2>2 DEF RcvRR
  <1>4. CASE RcvI(f)
    <2>1. Incr(f.ns) \in SeqNums
      BY <1>0, IncrFacts
    <2>. QED
      BY <1>4, <2>1 DEF RcvI, Hears, write_packet, Wrote, NotWritten
  <1>5. CASE RcvStrange(f)
    BY <1>5 DEF RcvStrange, Quiet, seqVars
  <1>. QED  BY <1>1, <1>2, <1>3, <1>4, <1>5 DEF dcp_process_pkt

\* The senders and the timer.
LEMMA ThreadMoves ==
  ASSUME TypeOK, LinkThreads
  PROVE  Quiet \/ StartsOver \/ Hears(remote_nr) \/ SendsNew
  <1>1. ASSUME NEW s \in Senders, dcp_xmt(s) \/ SpuriousWakeup(s) \/ XmtTimeout(s)
        PROVE  Quiet \/ SendsNew
    <2>1. CASE CanSend /\ SendNew(s)
      <3>1. /\ accepted < MaxSend /\ accepted' = accepted + 1 /\ xpkt' = accepted + 1
            /\ local_ns' = Incr(local_ns) /\ UNCHANGED <<state, remote_nr>>
            /\ resend_iframe(Incr(local_ns), accepted + 1)
        BY <2>1 DEF SendNew
      <3>2. accepted + 1 \in Bodies /\ Incr(local_ns) \in SeqNums
        BY <3>1, BoundAssumption, IncrFacts DEF TypeOK, Bodies, Dummy
      <3>. QED  BY <2>1, <3>1, <3>2, ResendWrites DEF SendsNew
    <2>2. ASSUME NEW where, Goes(s, where) PROVE Quiet
      BY <2>2 DEF Goes, Quiet, seqVars
    <2>. QED  BY <1>1, <2>1, <2>2 DEF dcp_xmt, SpuriousWakeup, XmtTimeout
  <1>2. CASE Expire
    BY <1>2 DEF Expire, Quiet, seqVars
  <1>3. CASE dcp_timeout_hndlr
    <2>1. CASE UNCHANGED <<state, seqVars, cntVars, xpkt, armed, toPhone>>
      BY <1>3, <2>1 DEF dcp_timeout_hndlr, Quiet, seqVars
    <2>2. CASE state = "LINK_UP" /\ RetryOrGiveUp(remote_nr) /\ UNCHANGED xpkt
      BY <1>3, <2>2, RetryMoves DEF dcp_timeout_hndlr, TypeOK
    <2>3. CASE dcp_reset_state /\ UNCHANGED <<xpkt, armed, toPhone>>
      BY <1>3, <2>3 DEF dcp_timeout_hndlr, dcp_reset_state, ClearCounts, StartsOver
    <2>4. CASE CanSend /\ send_dummy /\ UNCHANGED <<state, remote_nr>>
      <3>1. Dummy \in Bodies /\ Incr(local_ns) \in SeqNums
        BY BoundAssumption, IncrFacts DEF TypeOK, Bodies, Dummy
      <3>2. /\ xpkt' = Dummy /\ local_ns' = Incr(local_ns) /\ accepted' = accepted
            /\ resend_iframe(Incr(local_ns), Dummy)
        BY <1>3, <2>4 DEF send_dummy, dcp_timeout_hndlr
      <3>. QED  BY <2>4, <3>1, <3>2, ResendWrites DEF SendsNew
    <2>. QED  BY <1>3, <2>1, <2>2, <2>3, <2>4 DEF dcp_timeout_hndlr
  <1>. QED  BY <1>1, <1>2, <1>3 DEF LinkThreads

-----------------------------------------------------------------------------
(* What is acknowledged has been delivered, while packets are handled one  *)
(* at a time.                                                              *)

\* Frames whose NR dcp_process_pkt() looks at, and the frame a worker has read
\* and not yet handled.
Acks(f) == f.type \in {"RR", "I"}
Carries(w) == wk[w].pc \in {"got", "sampled"} /\ Acks(wk[w].frame)

\* A new link starts from its SABM: nothing is written after it until the UA.
AfterSabm ==
  state = "EXPECT_UA" =>
    /\ FreshNumbers
    /\ toPhone = <<>> \/ toPhone[Len(toPhone)].type = "SABM"

\* The telephone expects the last frame sent (vr = local_ns), or has it.
InWindow == vr \in {local_ns, Incr(local_ns)}

\* What is under way to the telephone: no SABM, copies of the last frame, and
\* before them copies of the frame acknowledged last.
SentFrames ==
  /\ \A i \in DOMAIN toPhone : toPhone[i].type # "SABM"
  /\ \A i \in DOMAIN toPhone : toPhone[i].type = "I" =>
       \/ toPhone[i].ns = local_ns /\ (vr = local_ns => toPhone[i].body = xpkt)
       \/ vr = local_ns /\ Incr(toPhone[i].ns) = local_ns
  /\ \A i, j \in DOMAIN toPhone :
       i < j /\ toPhone[i].type = "I" /\ toPhone[j].type = "I" /\ toPhone[i].ns = local_ns
         => toPhone[j].ns = local_ns

\* What is under way to dcp_process_pkt(), the packet in the worker first: it
\* asks for the last frame, then, once the telephone has that, for the next.
AckFrames ==
  LET Next1 == Incr(local_ns) IN
  /\ \A i \in DOMAIN toSwitch : Acks(toSwitch[i]) =>
       toSwitch[i].nr = local_ns \/ (vr = Next1 /\ toSwitch[i].nr = Next1)
  /\ \A w \in Workers : Carries(w) =>
       wk[w].frame.nr = local_ns \/ (vr = Next1 /\ wk[w].frame.nr = Next1)
  /\ \A i, j \in DOMAIN toSwitch :
       i < j /\ Acks(toSwitch[i]) /\ Acks(toSwitch[j]) /\ toSwitch[i].nr = Next1
         => toSwitch[j].nr = Next1
  /\ \A w \in Workers : Carries(w) /\ wk[w].frame.nr = Next1 =>
       \A j \in DOMAIN toSwitch : Acks(toSwitch[j]) => toSwitch[j].nr = Next1

\* A frame taken for acknowledged has been accepted, and no older
\* acknowledgement is left.
AckedFrame ==
  LET Next1 == Incr(local_ns) IN
  remote_nr = Next1 =>
    /\ vr = Next1
    /\ \A j \in DOMAIN toSwitch : Acks(toSwitch[j]) => toSwitch[j].nr = Next1
    /\ \A w \in Workers : Carries(w) => wk[w].frame.nr = Next1

\* Every payload of the session is with the telephone, except the last one
\* while the telephone still expects it.
Delivered ==
  \A n \in session.base + 1 .. accepted :
    (\E i \in DOMAIN plog : plog[i] = n) \/ (vr = local_ns /\ n = xpkt)

InSync == InWindow /\ SentFrames /\ AckFrames /\ AckedFrame /\ Delivered

SessionInv == AfterSabm /\ (state = "LINK_UP" /\ session.clean => InSync)

\* No worker reads a packet while another still carries one, so no packet
\* passes another.  dcpmux.c starts DCPMUX_MAXWRK workers and does not ensure
\* this: it is a hypothesis about the behaviour.
OneAtATime ==
  \A v, w \in Workers :
    wk[v].pc \in {"got", "sampled"} /\ wk[w].pc \in {"got", "sampled"} => v = w

\* The facts about the sequence numbers every step below needs.
LEMMA NumberFacts ==
  ASSUME MuxInv
  PROVE  /\ local_ns \in SeqNums /\ remote_nr \in SeqNums /\ vr \in SeqNums
         /\ Incr(local_ns) \in SeqNums /\ Incr(local_ns) # local_ns
         /\ toPhone \in Seq(Frames) /\ toSwitch \in Seq(Frames)
         /\ accepted \in Nat /\ session.base \in Nat
  BY IncrFacts, BoundAssumption DEF MuxInv, MuxTypeOK, TypeOK

\* An RR, or a copy of the last frame, may follow what is under way.
LEMMA SentAppend ==
  ASSUME MuxInv, SentFrames, NEW e \in Frames, toPhone' = Append(toPhone, e),
         UNCHANGED <<local_ns, vr, xpkt>>,
         e.type = "RR" \/ (e.type = "I" /\ e.ns = local_ns /\ e.body = xpkt)
  PROVE  SentFrames'
  <1>1. /\ toPhone \in Seq(Frames)
    BY NumberFacts
  <1>2. /\ DOMAIN toPhone = 1 .. Len(toPhone) /\ DOMAIN toPhone' = 1 .. Len(toPhone) + 1
        /\ Len(toPhone) \in Nat /\ toPhone'[Len(toPhone) + 1] = e
        /\ \A i \in 1 .. Len(toPhone) : toPhone'[i] = toPhone[i]
    BY <1>1, AppendFacts
  <1>. QED  BY <1>2 DEF SentFrames

\* The oldest frame under way may go.
LEMMA SentTail ==
  ASSUME MuxInv, SentFrames, toPhone # <<>>, toPhone' = Tail(toPhone),
         UNCHANGED <<local_ns, vr, xpkt>>
  PROVE  SentFrames'
  <1>1. toPhone \in Seq(Frames)
    BY NumberFacts
  <1>2. /\ DOMAIN toPhone = 1 .. Len(toPhone) /\ DOMAIN toPhone' = 1 .. Len(toPhone) - 1
        /\ Len(toPhone) \in Nat \ {0}
        /\ \A i \in 1 .. Len(toPhone) - 1 : toPhone'[i] = toPhone[i + 1]
    BY <1>1, TailFacts
  <1>3. \A i \in DOMAIN toPhone' : i + 1 \in DOMAIN toPhone /\ toPhone'[i] = toPhone[i + 1]
    BY <1>2
  <1>4. \A i, j \in DOMAIN toPhone' : i < j => i + 1 < j + 1
    BY <1>2
  <1>. QED  BY <1>3, <1>4 DEF SentFrames

\* What the telephone sends carries the number it expects next.
LEMMA AckAppend ==
  ASSUME MuxInv, InWindow, AckFrames, AckedFrame, NEW e \in AnyFrame, PhoneSends(e),
         Acks(e) => e.nr = vr, UNCHANGED <<local_ns, remote_nr, vr, wk>>
  PROVE  AckFrames' /\ AckedFrame'
  <1>1. toSwitch \in Seq(Frames) /\ e \in Frames /\ Incr(local_ns) # local_ns
    BY NumberFacts, AnyFrameIsFrame
  <1>2. CASE UNCHANGED toSwitch
    BY <1>2 DEF AckFrames, AckedFrame, Carries
  <1>3. CASE toSwitch' = Append(toSwitch, e)
    <2>1. /\ DOMAIN toSwitch = 1 .. Len(toSwitch) /\ DOMAIN toSwitch' = 1 .. Len(toSwitch) + 1
          /\ Len(toSwitch) \in Nat /\ toSwitch'[Len(toSwitch) + 1] = e
          /\ \A i \in 1 .. Len(toSwitch) : toSwitch'[i] = toSwitch[i]
      BY <1>1, <1>3, AppendFacts
    <2>2. AckFrames'
      BY <1>1, <2>1 DEF AckFrames, InWindow, Carries
    <2>3. AckedFrame'
      BY <1>1, <2>1 DEF AckedFrame, Carries
    <2>. QED  BY <2>2, <2>3
  <1>. QED  BY <1>2, <1>3 DEF PhoneSends

\* A frame on its way to the switch may be lost, or be read by the worker.
LEMMA AckTail ==
  ASSUME MuxInv, AckFrames, AckedFrame, toSwitch # <<>>, toSwitch' = Tail(toSwitch),
         UNCHANGED <<local_ns, remote_nr, vr>>,
         \/ UNCHANGED wk
         \/ \A w \in Workers : Carries(w)' => wk'[w].frame = Head(toSwitch) /\ Acks(Head(toSwitch))
  PROVE  AckFrames' /\ AckedFrame'
  <1>1. toSwitch \in Seq(Frames)
    BY NumberFacts
  <1>2. /\ DOMAIN toSwitch = 1 .. Len(toSwitch) /\ DOMAIN toSwitch' = 1 .. Len(toSwitch) - 1
        /\ Len(toSwitch) \in Nat \ {0} /\ Head(toSwitch) = toSwitch[1]
        /\ \A i \in 1 .. Len(toSwitch) - 1 : toSwitch'[i] = toSwitch[i + 1]
    BY <1>1, TailFacts
  <1>3. /\ \A i \in DOMAIN toSwitch' : /\ i + 1 \in DOMAIN toSwitch /\ 1 < i + 1
                                      /\ toSwitch'[i] = toSwitch[i + 1]
        /\ \A i, j \in DOMAIN toSwitch' : i < j => i + 1 < j + 1
        /\ 1 \in DOMAIN toSwitch
    BY <1>2
  <1>4. CASE UNCHANGED wk
    BY <1>3, <1>4 DEF AckFrames, AckedFrame, Carries
  <1>5. CASE \A w \in Workers : Carries(w)' => wk'[w].frame = toSwitch[1] /\ Acks(toSwitch[1])
    <2>1. AckFrames'
      BY <1>3, <1>5 DEF AckFrames
    <2>2. AckedFrame'
      BY <1>3, <1>5 DEF AckedFrame
    <2>. QED  BY <2>1, <2>2
  <1>. QED  BY <1>2, <1>4, <1>5

\* The telephone takes a frame.
LEMMA PhoneInSync ==
  ASSUME MuxInv, InSync, PhoneTakes
  PROVE  InSync'
  <1> DEFINE f == Head(toPhone)
  <1>1. /\ toPhone # <<>> /\ toPhone' = Tail(toPhone)
        /\ UNCHANGED <<local_ns, remote_nr, xpkt, accepted, wk, session>>
    BY DEF PhoneTakes, seqVars
  <1>2. /\ local_ns \in SeqNums /\ Incr(local_ns) # local_ns /\ Incr(local_ns) \in SeqNums
        /\ toPhone \in Seq(Frames)
    BY NumberFacts
  <1>3. /\ f = toPhone[1] /\ 1 \in DOMAIN toPhone
        /\ \A i \in DOMAIN toPhone' :
              i + 1 \in DOMAIN toPhone /\ 1 < i + 1 /\ toPhone'[i] = toPhone[i + 1]
    BY <1>1, <1>2, TailFacts
  <1>4. f.type # "SABM"
    BY <1>3 DEF InSync, SentFrames
  <1>5. CASE UNCHANGED <<phoneVars, toSwitch>>
    <2>1. SentFrames'
      BY <1>1, <1>5, SentTail DEF InSync, phoneVars
    <2>2. AckFrames' /\ AckedFrame'
      BY <1>1, <1>5 DEF InSync, AckFrames, AckedFrame, Carries, phoneVars
    <2>3. InWindow' /\ Delivered'
      BY <1>1, <1>5 DEF InSync, InWindow, Delivered, phoneVars
    <2>. QED  BY <2>1, <2>2, <2>3 DEF InSync
  <1>6. CASE /\ f.type = "I"
             /\ vr' = (IF f.ns = vr THEN Incr(vr) ELSE vr)
             /\ plog' = (IF f.ns = vr /\ f.body # Dummy THEN Append(plog, f.body) ELSE plog)
             /\ PhoneSends(RRFrame(vr'))
    <2>0. vr' \in SeqNums /\ vr \in SeqNums
      BY MuxInvStep DEF MuxInv, MuxTypeOK, MuxNext
    <2>1. RRFrame(vr') \in AnyFrame /\ RRFrame(vr').nr = vr'
      BY <2>0, FarFrameTypes DEF RRFrame
    <2>2. CASE f.ns # vr
      <3>1. vr' = vr /\ plog' = plog
        BY <1>6, <2>2
      <3>2. SentFrames'
        BY <1>1, <3>1, SentTail DEF InSync
      <3>3. AckFrames' /\ AckedFrame'
        BY <1>1, <1>6, <2>1, <3>1, AckAppend DEF InSync
      <3>4. InWindow' /\ Delivered'
        BY <1>1, <3>1 DEF InSync, InWindow, Delivered
      <3>. QED  BY <3>2, <3>3, <3>4 DEF InSync
    <2>3. CASE f.ns = vr
      <3>1. vr = local_ns /\ f.ns = local_ns /\ f.body = xpkt /\ vr' = Incr(local_ns)
        <4>1. \/ f.ns = local_ns /\ (vr = local_ns => f.body = xpkt)
              \/ vr = local_ns /\ Incr(f.ns) = local_ns
          BY <1>3, <1>6 DEF InSync, SentFrames
        <4>2. Incr(vr) # vr
          BY <2>0, IncrFacts
        <4>. QED  BY <1>6, <2>3, <4>1, <4>2 DEF InSync, InWindow
      <3>2. SentFrames'
        <4>1. \A i \in DOMAIN toPhone' : toPhone'[i].type # "SABM"
          BY <1>3 DEF InSync, SentFrames
        <4>2. \A i \in DOMAIN toPhone' : toPhone'[i].type = "I" => toPhone'[i].ns = local_ns
          BY <1>3, <1>6, <3>1 DEF InSync, SentFrames
        <4>. QED  BY <1>1, <1>2, <3>1, <4>1, <4>2 DEF SentFrames
      <3>3. AckFrames' /\ AckedFrame'
        <4>1. /\ \A i \in DOMAIN toSwitch : Acks(toSwitch[i]) => toSwitch[i].nr = local_ns
              /\ \A w \in Workers : Carries(w) => wk[w].frame.nr = local_ns
              /\ remote_nr # Incr(local_ns)
          BY <1>2, <3>1 DEF InSync, AckFrames, AckedFrame
        <4>2. CASE UNCHANGED toSwitch
          BY <1>1, <1>2, <4>1, <4>2 DEF AckFrames, AckedFrame, Carries
        <4>3. CASE toSwitch' = Append(toSwitch, RRFrame(vr'))
          <5>1. RRFrame(vr') \in Frames /\ toSwitch \in Seq(Frames)
            BY <2>1, AnyFrameIsFrame, NumberFacts
          <5>2. /\ DOMAIN toSwitch = 1 .. Len(toSwitch) /\ Len(toSwitch) \in Nat
                /\ DOMAIN toSwitch' = 1 .. Len(toSwitch) + 1
                /\ toSwitch'[Len(toSwitch) + 1] = RRFrame(vr')
                /\ \A i \in 1 .. Len(toSwitch) : toSwitch'[i] = toSwitch[i]
            BY <4>3, <5>1, AppendFacts
          <5>3. /\ \A i \in DOMAIN toSwitch' : Acks(toSwitch'[i]) =>
                     toSwitch'[i].nr = local_ns
                       \/ (i = Len(toSwitch) + 1 /\ toSwitch'[i].nr = Incr(local_ns))
                /\ \A i, j \in DOMAIN toSwitch' : i < j => i # Len(toSwitch) + 1
            BY <2>1, <3>1, <4>1, <5>2
          <5>4. AckFrames'
            BY <1>1, <1>2, <3>1, <4>1, <5>3 DEF AckFrames, Carries
          <5>5. AckedFrame'
            BY <1>1, <4>1 DEF AckedFrame
          <5>. QED  BY <5>4, <5>5
        <4>. QED  BY <1>6, <4>2, <4>3 DEF PhoneSends
      <3>4. InWindow'
        BY <1>1, <3>1 DEF InWindow
      <3>5. Delivered'
        <4>1. plog \in Seq(1 .. MaxSend)
          BY DEF MuxInv, MuxTypeOK
        <4>2. \A n \in session.base + 1 .. accepted :
                (\E i \in DOMAIN plog : plog[i] = n) \/ n = xpkt
          BY DEF InSync, Delivered
        <4>3. CASE xpkt = Dummy
          <5>1. \A n \in session.base + 1 .. accepted : n # xpkt
            BY <4>3, NumberFacts DEF Dummy
          <5>. QED  BY <1>1, <1>6, <3>1, <4>2, <4>3, <5>1 DEF Delivered
        <4>4. CASE xpkt # Dummy
          <5>1. plog' = Append(plog, xpkt)
            BY <1>6, <2>3, <3>1, <4>4
          <5>2. f.body \in Bodies
            BY <1>1, <1>2, TailFacts, FrameFields
          <5>3. xpkt \in 1 .. MaxSend
            BY <3>1, <4>4, <5>2, BoundAssumption DEF Bodies, Dummy
          <5>4. /\ \A i \in DOMAIN plog : i \in DOMAIN plog' /\ plog'[i] = plog[i]
                /\ \E i \in DOMAIN plog' : plog'[i] = xpkt
            BY <4>1, <5>1, <5>3, AppendFacts
          <5>. QED  BY <1>1, <4>2, <5>4 DEF Delivered
        <4>. QED  BY <4>3, <4>4
      <3>. QED  BY <3>2, <3>3, <3>4, <3>5 DEF InSync
    <2>. QED  BY <2>2, <2>3
  <1>. QED  BY <1>4, <1>5, <1>6 DEF PhoneTakes

\* The link notes an NR, and may repeat the last frame or write an RR.
LEMMA HearsInSync ==
  ASSUME MuxInv, InSync, NEW nr \in SeqNums, Hears(nr),
         UNCHANGED <<toSwitch, vr, plog, session>>,
         \A w \in Workers : Carries(w)' => Carries(w) /\ wk'[w].frame = wk[w].frame,
         nr = Incr(local_ns) =>
           /\ vr = nr
           /\ \A j \in DOMAIN toSwitch : Acks(toSwitch[j]) => toSwitch[j].nr = nr
           /\ \A w \in Workers : Carries(w)' => wk'[w].frame.nr = nr
  PROVE  InSync'
  <1>1. remote_nr' = nr /\ UNCHANGED <<local_ns, xpkt, accepted>>
    BY DEF Hears
  <1>2. SentFrames'
    <2>1. CASE toPhone' = toPhone
      BY <1>1, <2>1 DEF InSync, SentFrames
    <2>2. ASSUME NEW n \in SeqNums, toPhone' = Append(toPhone, RRFrame(n))
          PROVE  SentFrames'
      <3>1. RRFrame(n) \in Frames /\ RRFrame(n).type = "RR"
        BY FrameTypes DEF RRFrame
      <3>. QED  BY <1>1, <2>2, <3>1, SentAppend DEF InSync
    <2>3. ASSUME NEW n \in SeqNums, toPhone' = Append(toPhone, IFrame(local_ns, n, xpkt)),
                 xpkt # NoPkt
          PROVE  SentFrames'
      <3>1. xpkt \in Bodies
        BY <2>3 DEF MuxInv, MuxTypeOK, TypeOK
      <3>2. /\ IFrame(local_ns, n, xpkt) \in Frames /\ IFrame(local_ns, n, xpkt).type = "I"
            /\ IFrame(local_ns, n, xpkt).ns = local_ns /\ IFrame(local_ns, n, xpkt).body = xpkt
        BY <3>1, FrameTypes, NumberFacts DEF IFrame
      <3>. QED  BY <1>1, <2>3, <3>2, SentAppend DEF InSync
    <2>. QED  BY <2>1, <2>2, <2>3 DEF Hears
  <1>3. AckFrames'
    BY <1>1 DEF InSync, AckFrames
  <1>4. AckedFrame'
    BY <1>1 DEF AckedFrame
  <1>5. InWindow' /\ Delivered'
    BY <1>1 DEF InSync, InWindow, Delivered
  <1>. QED  BY <1>2, <1>3, <1>4, <1>5 DEF InSync

\* A new frame goes out on a free link.
LEMMA SendsInSync ==
  ASSUME MuxInv, InSync, SendsNew, UNCHANGED <<toSwitch, wk, vr, plog, session>>
  PROVE  InSync'
  <1>1. /\ remote_nr = Incr(local_ns) /\ local_ns' = Incr(local_ns) /\ remote_nr' = remote_nr
    BY DEF SendsNew, CanSend, Acked
  <1>2. /\ vr = Incr(local_ns) /\ vr = local_ns' /\ vr' = local_ns'
        /\ local_ns \in SeqNums /\ local_ns' \in SeqNums
        /\ Incr(local_ns) # local_ns /\ Incr(local_ns') # local_ns'
    BY <1>1, NumberFacts, IncrFacts DEF InSync, AckedFrame
  <1>3. \A i \in DOMAIN toPhone :
          toPhone[i].type # "SABM" /\ (toPhone[i].type = "I" => toPhone[i].ns = local_ns)
    BY <1>2 DEF InSync, SentFrames
  <1>4. SentFrames'
    <2>1. CASE toPhone' = toPhone
      BY <1>1, <1>2, <1>3, <2>1 DEF SentFrames
    <2>2. ASSUME NEW n \in SeqNums,
                 toPhone' = Append(toPhone, IFrame(Incr(local_ns), n, xpkt'))
          PROVE  SentFrames'
      <3> DEFINE e == IFrame(Incr(local_ns), n, xpkt')
      <3>1. xpkt' \in Bodies
        BY BoundAssumption DEF SendsNew, MuxInv, MuxTypeOK, TypeOK, Bodies, Dummy
      <3>2. e \in Frames /\ e.type = "I" /\ e.ns = local_ns' /\ e.body = xpkt'
        BY <1>1, <1>2, <3>1, FrameTypes DEF IFrame
      <3>3. toPhone \in Seq(Frames)
        BY NumberFacts
      <3>4. toPhone' = Append(toPhone, e)
        BY <2>2
      <3> HIDE DEF e
      <3>5. /\ DOMAIN toPhone = 1 .. Len(toPhone) /\ DOMAIN toPhone' = 1 .. Len(toPhone) + 1
            /\ Len(toPhone) \in Nat /\ toPhone'[Len(toPhone) + 1] = e
            /\ \A i \in 1 .. Len(toPhone) : toPhone'[i] = toPhone[i]
        BY <3>2, <3>3, <3>4, AppendFacts
      <3>6. \A i \in DOMAIN toPhone' :
              \/ i = Len(toPhone) + 1 /\ toPhone'[i] = e
              \/ /\ toPhone'[i].type # "SABM" /\ i < Len(toPhone) + 1
                 /\ toPhone'[i].type = "I" => toPhone'[i].ns = local_ns
        BY <1>3, <3>5
      <3>7. \A i, j \in DOMAIN toPhone' : i < j => i # Len(toPhone) + 1
        BY <3>5
      <3>. QED  BY <1>1, <1>2, <3>2, <3>6, <3>7 DEF SentFrames
    <2>. QED  BY <2>1, <2>2 DEF SendsNew
  <1>5. AckFrames' /\ AckedFrame'
    <2>1. /\ \A j \in DOMAIN toSwitch : Acks(toSwitch[j]) => toSwitch[j].nr = local_ns'
          /\ \A w \in Workers : Carries(w) => wk[w].frame.nr = local_ns'
      BY <1>1 DEF InSync, AckedFrame
    <2>. QED  BY <1>1, <1>2, <2>1 DEF AckFrames, AckedFrame, Carries
  <1>6. InWindow'
    BY <1>2 DEF InWindow
  <1>7. Delivered'
    <2>1. \A n \in session.base + 1 .. accepted : \E i \in DOMAIN plog : plog[i] = n
      BY <1>2 DEF InSync, Delivered
    <2>2. \A n \in session.base + 1 .. accepted' :
            n \in session.base + 1 .. accepted \/ n = xpkt'
      BY NumberFacts DEF SendsNew
    <2>. QED  BY <1>2, <2>1, <2>2 DEF Delivered
  <1>. QED  BY <1>4, <1>5, <1>6, <1>7 DEF InSync

\* Nothing is written between a SABM and its UA, whatever the workers do.
LEMMA AfterSabmMoves ==
  ASSUME MuxInv, AfterSabm,
         Quiet \/ StartsOver \/ Disables \/ ComesUp \/ SendsNew \/ \E nr \in SeqNums : Hears(nr)
  PROVE  AfterSabm'
  <1>1. CASE Quiet
    BY <1>1 DEF Quiet, AfterSabm, FreshNumbers
  <1>2. CASE StartsOver
    <2>1. toPhone \in Seq(Frames) /\ UFrame("SABM") \in Frames /\ UFrame("SABM").type = "SABM"
      BY NumberFacts, FrameTypes DEF UFrame
    <2>2. CASE state' = "EXPECT_UA" /\ toPhone' = Append(toPhone, UFrame("SABM"))
      BY <1>2, <2>1, <2>2, AppendFacts DEF StartsOver, AfterSabm, FreshNumbers
    <2>3. CASE state' = "RESET"
      BY <2>3 DEF AfterSabm
    <2>. QED  BY <1>2, <2>2, <2>3 DEF StartsOver
  <1>3. CASE Disables \/ ComesUp \/ SendsNew \/ \E nr \in SeqNums : Hears(nr)
    BY <1>3 DEF Disables, ComesUp, SendsNew, Hears, CanSend, AfterSabm
  <1>. QED  BY <1>1, <1>2, <1>3

\* A frame taken or lost leaves the SABM last.
LEMMA AfterSabmTail ==
  ASSUME MuxInv, AfterSabm, toPhone # <<>>, toPhone' = Tail(toPhone),
         UNCHANGED <<state, local_ns, remote_nr>>
  PROVE  AfterSabm'
  <1>1. toPhone \in Seq(Frames)
    BY NumberFacts
  <1>2. CASE Tail(toPhone) = <<>>
    BY <1>2 DEF AfterSabm, FreshNumbers
  <1>3. CASE Tail(toPhone) # <<>>
    <2>1. Tail(toPhone) \in Seq(Frames) /\ Len(Tail(toPhone)) = Len(toPhone) - 1 /\ Len(toPhone) \in Nat
      BY <1>1, TailFacts
    <2>2. Len(Tail(toPhone)) \in 1 .. Len(toPhone) - 1
      BY <1>3, <2>1
    <2>3. Tail(toPhone)[Len(toPhone) - 1] = toPhone[Len(toPhone) - 1 + 1]
      BY <1>1, <2>1, <2>2, TailFacts
    <2>4. Len(toPhone) - 1 + 1 = Len(toPhone)
      BY <2>1
    <2>. QED  BY <1>3, <2>1, <2>3, <2>4 DEF AfterSabm, FreshNumbers
  <1>. QED  BY <1>2, <1>3

\* The moves of the link, by step of the multiplexer.
LEMMA MuxMovesButTaking ==
  ASSUME MuxInv, [MuxNext]_muxVars, ~PhoneTakes, ~LoseFrame
  PROVE  \/ Quiet \/ StartsOver \/ Disables \/ ComesUp \/ SendsNew \/ \E nr \in SeqNums : Hears(nr)
  <1>0. TypeOK /\ remote_nr \in SeqNums
    BY NumberFacts DEF MuxInv, MuxTypeOK
  <1>2. CASE PhoneDM \/ PhoneKey \/ PhoneRestart \/ UNCHANGED muxVars
    BY <1>2 DEF PhoneDM, PhoneKey, PhoneRestart, muxVars, linkVars, Quiet
  <1>4. ASSUME NEW w \in Workers, WorkerReads(w) \/ WorkerSamples(w) \/ WorkerReports(w)
        PROVE  Quiet
    BY <1>4 DEF WorkerReads, WorkerSamples, WorkerReports, linkVars, Quiet
  <1>5. ASSUME NEW w \in Workers, dcp_handle_data(w)
        PROVE  Quiet \/ StartsOver \/ ComesUp \/ \E nr \in SeqNums : Hears(nr)
    <2>1. wk[w].frame \in AnyFrame /\ wk[w].frame.nr \in SeqNums
      BY AnyFrameIsFrame, FrameFields DEF MuxInv, FarFrames
    <2>. QED  BY <1>0, <1>5, <2>1, FrameMoves DEF dcp_handle_data
  <1>6. CASE dcpmux_ifup
    BY <1>6, SabmStartsOver DEF dcpmux_ifup, dcp_enable_link
  <1>7. CASE dcpmux_ifdown
    BY <1>7 DEF dcpmux_ifdown, dcp_disable_link, seqVars, Disables
  <1>8. CASE LinkThreads
    BY <1>0, <1>8, ThreadMoves
  <1>. QED
    BY <1>2, <1>4, <1>5, <1>6, <1>7, <1>8 DEF MuxNext

\* A frame may also be taken, or lost.
LEMMA MuxMoves ==
  ASSUME MuxInv, [MuxNext]_muxVars
  PROVE  \/ Quiet \/ StartsOver \/ Disables \/ ComesUp \/ SendsNew \/ \E nr \in SeqNums : Hears(nr)
         \/ /\ toPhone # <<>> /\ toPhone' = Tail(toPhone)
            /\ UNCHANGED <<state, local_ns, remote_nr, xpkt, accepted>>
  <1>1. CASE PhoneTakes
    BY <1>1 DEF PhoneTakes, seqVars
  <1>2. CASE LoseFrame
    BY <1>2 DEF LoseFrame, TakeFrame, seqVars, linkVars, Quiet
  <1>. QED  BY <1>1, <1>2, MuxMovesButTaking

\* AfterSabm holds for any number of workers.
LEMMA AfterSabmStep ==
  ASSUME MuxInv, AfterSabm, [MuxNext]_muxVars
  PROVE  AfterSabm'
  BY MuxMoves, AfterSabmMoves, AfterSabmTail

\* A clean session starts in sync.
LEMMA CleanStart ==
  ASSUME MuxInv, AfterSabm, NEW w \in Workers, dcp_handle_data(w), ComesUp, session'.clean
  PROVE  InSync'
  <1>1. /\ session' = [clean |-> Settled(w), base |-> accepted]
        /\ wk' = [wk EXCEPT ![w] = At("handled", NoFrame, wk[w].prev, DataOf(wk[w].frame))]
        /\ UNCHANGED <<toSwitch, vr, plog, local_ns, remote_nr, xpkt, accepted, toPhone>>
    BY DEF dcp_handle_data, ComesUp, phoneVars
  <1>2. Settled(w) /\ session'.base = accepted
    BY <1>1
  <1>3. local_ns = SeqMod - 1 /\ remote_nr = 0 /\ vr = 0 /\ Incr(local_ns) = 0
    BY <1>2, IncrFacts DEF ComesUp, AfterSabm, FreshNumbers, Settled
  <1>4. toPhone = <<>>
    <2>1. toPhone \in Seq(Frames)
      BY NumberFacts
    <2>2. toPhone # <<>> => Len(toPhone) \in DOMAIN toPhone
      BY <2>1
    <2>. QED  BY <1>2, <2>2 DEF ComesUp, AfterSabm, Settled
  <1>5. \A v \in Workers : ~Carries(v)'
    <2>1. wk'[w].pc = "handled" /\ \A v \in Workers \ {w} : wk'[v] = wk[v]
      BY <1>1 DEF At, MuxInv, MuxTypeOK
    <2>. QED  BY <1>2, <2>1 DEF Settled, Carries
  <1>6. \A i \in DOMAIN toSwitch : toSwitch[i].nr = 0
    BY <1>2 DEF Settled
  <1>7. SentFrames'
    BY <1>1, <1>4 DEF SentFrames
  <1>8. AckFrames' /\ AckedFrame'
    BY <1>1, <1>3, <1>5, <1>6 DEF AckFrames, AckedFrame
  <1>9. InWindow'
    BY <1>1, <1>3 DEF InWindow
  <1>10. Delivered'
    BY <1>1, <1>2, NumberFacts DEF Delivered
  <1>. QED  BY <1>7, <1>8, <1>9, <1>10 DEF InSync

\* Steps that leave frames, numbers and deliveries alone.
LEMMA IdleInSync ==
  ASSUME InSync, UNCHANGED <<local_ns, remote_nr, xpkt, accepted, toPhone, toSwitch, vr, plog, session>>,
         \A w \in Workers : Carries(w)' => Carries(w) /\ wk'[w].frame = wk[w].frame
  PROVE  InSync'
  <1>1. SentFrames' /\ InWindow' /\ Delivered'
    BY DEF InSync, SentFrames, InWindow, Delivered
  <1>2. AckFrames'
    BY DEF InSync, AckFrames
  <1>3. AckedFrame'
    BY DEF InSync, AckedFrame
  <1>. QED  BY <1>1, <1>2, <1>3 DEF InSync

\* Every step of an established, clean session keeps it in sync.
LEMMA InSyncStep ==
  ASSUME MuxInv, OneAtATime, OneAtATime', SessionInv, [MuxNext]_muxVars,
         state' = "LINK_UP", session'.clean
  PROVE  InSync'
  <1>0. TypeOK /\ remote_nr \in SeqNums /\ wk \in [Workers -> WorkerType] /\ vr \in SeqNums
    BY NumberFacts DEF MuxInv, MuxTypeOK, WorkerType
  <1>1. ASSUME NEW w \in Workers, dcp_handle_data(w)
        PROVE  InSync'
    <2>1. /\ wk[w].pc = "sampled" /\ dcp_process_pkt(wk[w].frame)
          /\ wk' = [wk EXCEPT ![w] = At("handled", NoFrame, wk[w].prev, DataOf(wk[w].frame))]
          /\ UNCHANGED <<toSwitch, vr, plog>>
          /\ (state # "EXPECT_UA" => session' = session)
      BY <1>1 DEF dcp_handle_data, phoneVars
    <2>2. wk[w].frame \in AnyFrame /\ wk[w].frame.nr \in SeqNums
      BY AnyFrameIsFrame, FrameFields DEF MuxInv, FarFrames
    <2>3. \A v \in Workers : ~Carries(v)'
      <3>1. wk'[w].pc = "handled" /\ \A v \in Workers \ {w} : wk'[v] = wk[v]
        BY <1>0, <2>1 DEF At
      <3>. QED  BY <2>1, <3>1 DEF OneAtATime, Carries
    <2>4. CASE Quiet
      <3>1. state = "LINK_UP" /\ session' = session
        BY <2>1, <2>4 DEF Quiet
      <3>. QED  BY <2>1, <2>3, <2>4, <3>1, IdleInSync DEF SessionInv, Quiet
    <2>5. CASE StartsOver
      BY <2>5 DEF StartsOver
    <2>6. CASE ComesUp
      BY <1>1, <2>6, CleanStart DEF SessionInv
    <2>7. CASE wk[w].frame.type \in {"RR", "I"} /\ Hears(wk[w].frame.nr)
      <3>1. InSync /\ session' = session
        BY <2>1, <2>7 DEF Hears, SessionInv
      <3>2. Carries(w)
        BY <2>1, <2>7 DEF Carries, Acks
      <3>3. wk[w].frame.nr = Incr(local_ns) =>
              /\ vr = wk[w].frame.nr
              /\ \A j \in DOMAIN toSwitch : Acks(toSwitch[j]) => toSwitch[j].nr = wk[w].frame.nr
        BY <3>1, <3>2, NumberFacts DEF InSync, AckFrames
      <3>. QED  BY <2>1, <2>2, <2>3, <2>7, <3>1, <3>3, HearsInSync
    <2>. QED  BY <1>0, <2>1, <2>2, <2>4, <2>5, <2>6, <2>7, FrameMoves
  <1>2. CASE PhoneTakes
    BY <1>2, PhoneInSync DEF PhoneTakes, SessionInv
  <1>3. CASE PhoneDM \/ PhoneKey
    <2>1. InSync /\ UNCHANGED <<linkVars, wk, vr, plog, session>>
      BY <1>3 DEF PhoneDM, PhoneKey, phoneVars, linkVars, SessionInv
    <2>2. \E e \in AnyFrame : PhoneSends(e) /\ (Acks(e) => e.nr = vr)
      <3>1. CASE PhoneDM
        <4>1. UFrame("DM").type = "DM" /\ PhoneSends(UFrame("DM"))
          BY <3>1 DEF UFrame, PhoneDM
        <4>. QED  BY <4>1, FarFrameTypes DEF Acks
      <3>2. CASE PhoneKey
        <4> DEFINE e == IFrame(vs, vr, spent["key"] + 1)
        <4>1. spent["key"] + 1 \in Bodies
          BY <3>2, SpendFacts, BudgetAssumption, BoundAssumption DEF PhoneKey, Bodies, Dummy
        <4>2. e \in AnyFrame /\ e.nr = vr /\ PhoneSends(e)
          BY <3>2, <4>1, FarFrameTypes DEF MuxInv, MuxTypeOK, IFrame, PhoneKey
        <4>. QED  BY <4>2
      <3>. QED  BY <1>3, <3>1, <3>2
    <2>3. AckFrames' /\ AckedFrame'
      BY <2>1, <2>2, AckAppend DEF InSync, linkVars
    <2>4. SentFrames' /\ InWindow' /\ Delivered'
      BY <2>1 DEF InSync, SentFrames, InWindow, Delivered, linkVars
    <2>. QED  BY <2>3, <2>4 DEF InSync
  <1>4. CASE PhoneRestart \/ UNCHANGED muxVars
    <2>1. /\ UNCHANGED <<state, wk, local_ns, remote_nr, xpkt, accepted>>
          /\ UNCHANGED <<toPhone, toSwitch, vr, plog, session>>
      BY <1>4 DEF PhoneRestart, muxVars, linkVars
    <2>. QED  BY <2>1, IdleInSync DEF Carries, SessionInv
  <1>5. CASE LoseFrame
    <2>1. UNCHANGED <<state, local_ns, remote_nr, xpkt, accepted, wk, vr, plog, session>>
      BY <1>5 DEF LoseFrame, TakeFrame, linkVars, seqVars, phoneVars
    <2>2. InSync
      BY <2>1 DEF SessionInv
    <2>3. CASE toPhone # <<>> /\ toPhone' = Tail(toPhone) /\ UNCHANGED toSwitch
      <3>1. SentFrames'
        BY <2>1, <2>2, <2>3, SentTail DEF InSync
      <3>2. AckFrames' /\ AckedFrame' /\ InWindow' /\ Delivered'
        BY <2>1, <2>2, <2>3 DEF InSync, AckFrames, AckedFrame, InWindow, Delivered, Carries
      <3>. QED  BY <3>1, <3>2 DEF InSync
    <2>4. CASE toSwitch # <<>> /\ toSwitch' = Tail(toSwitch) /\ UNCHANGED toPhone
      <3>1. AckFrames' /\ AckedFrame'
        BY <2>1, <2>2, <2>4, AckTail DEF InSync
      <3>2. SentFrames' /\ InWindow' /\ Delivered'
        BY <2>1, <2>2, <2>4 DEF InSync, SentFrames, InWindow, Delivered
      <3>. QED  BY <3>1, <3>2 DEF InSync
    <2>. QED  BY <1>5, <2>3, <2>4 DEF LoseFrame, TakeFrame, linkVars
  <1>6. ASSUME NEW w \in Workers, WorkerReads(w)
        PROVE  InSync'
    <2>1. /\ UNCHANGED <<linkVars, vr, plog, session>>
          /\ toSwitch # <<>> /\ toSwitch' = Tail(toSwitch)
          /\ wk' = [wk EXCEPT ![w] = At("got", Head(toSwitch), "DISABLE", Dummy)]
      BY <1>6 DEF WorkerReads, phoneVars
    <2>2. InSync
      BY <2>1 DEF SessionInv, linkVars
    <2>3. wk'[w].frame = Head(toSwitch) /\ wk'[w].pc = "got"
      BY <1>0, <2>1 DEF At
    <2>4. \A v \in Workers : Carries(v)' => wk'[v].frame = Head(toSwitch) /\ Acks(Head(toSwitch))
      BY <2>3 DEF OneAtATime, Carries
    <2>5. AckFrames' /\ AckedFrame'
      BY <2>1, <2>2, <2>4, AckTail DEF InSync, linkVars
    <2>6. SentFrames' /\ InWindow' /\ Delivered'
      BY <2>1, <2>2 DEF InSync, SentFrames, InWindow, Delivered, linkVars
    <2>. QED  BY <2>5, <2>6 DEF InSync
  <1>7. ASSUME NEW w \in Workers, WorkerSamples(w) \/ WorkerReports(w)
        PROVE  InSync'
    <2>1. UNCHANGED <<linkVars, toSwitch, vr, plog, session>>
      BY <1>7 DEF WorkerSamples, WorkerReports, phoneVars
    <2>2. InSync
      BY <2>1 DEF SessionInv, linkVars
    <2>3. \A v \in Workers : Carries(v)' => Carries(v) /\ wk'[v].frame = wk[v].frame
      <3>1. CASE WorkerSamples(w)
        <4>1. /\ wk'[w].frame = wk[w].frame /\ wk[w].pc = "got"
              /\ \A v \in Workers \ {w} : wk'[v] = wk[v]
          BY <1>0, <3>1 DEF WorkerSamples, At
        <4>. QED  BY <4>1 DEF Carries
      <3>2. CASE WorkerReports(w)
        <4>1. wk'[w].pc = "idle" /\ \A v \in Workers \ {w} : wk'[v] = wk[v]
          BY <1>0, <3>2 DEF WorkerReports, Idle, At
        <4>. QED  BY <4>1 DEF Carries
      <3>. QED  BY <1>7, <3>1, <3>2
    <2>. QED  BY <2>1, <2>2, <2>3, IdleInSync DEF linkVars
  <1>8. CASE dcpmux_ifup
    BY <1>8 DEF dcpmux_ifup, dcp_enable_link, dcp_send_sabm
  <1>9. CASE dcpmux_ifdown
    BY <1>9 DEF dcpmux_ifdown, dcp_disable_link
  <1>10. CASE LinkThreads
    <2>1. UNCHANGED <<toSwitch, wk, vr, plog, session>>
      BY <1>10 DEF LinkThreads, phoneVars
    <2>2. CASE Quiet
      <3>1. InSync
        BY <2>1, <2>2 DEF Quiet, SessionInv
      <3>. QED  BY <2>1, <2>2, <3>1, IdleInSync DEF Quiet, Carries
    <2>3. CASE StartsOver
      BY <2>3 DEF StartsOver
    <2>4. CASE Hears(remote_nr)
      <3>1. InSync
        BY <2>1, <2>4 DEF Hears, SessionInv
      <3>2. \A w \in Workers : Carries(w)' => Carries(w) /\ wk'[w].frame = wk[w].frame
        BY <2>1 DEF Carries
      <3>3. remote_nr = Incr(local_ns) =>
              /\ vr = remote_nr
              /\ \A j \in DOMAIN toSwitch : Acks(toSwitch[j]) => toSwitch[j].nr = remote_nr
              /\ \A w \in Workers : Carries(w)' => wk'[w].frame.nr = remote_nr
        BY <3>1, <3>2 DEF InSync, AckedFrame
      <3>. QED  BY <1>0, <2>1, <2>4, <3>1, <3>2, <3>3, HearsInSync
    <2>5. CASE SendsNew
      BY <2>1, <2>5, SendsInSync DEF SendsNew, SessionInv
    <2>. QED  BY <1>0, <1>10, <2>2, <2>3, <2>4, <2>5, ThreadMoves
  <1>. QED
    BY <1>1, <1>2, <1>3, <1>4, <1>5, <1>6, <1>7, <1>8, <1>9, <1>10 DEF MuxNext

\* As long as packets are handled one at a time, with as many workers, senders,
\* retries, losses and restarts as there may be and any sequence space of at
\* least two numbers: in a session that came up cleanly the link is free only
\* when the telephone has every payload accepted in it.
THEOREM Acknowledged == MuxSpec /\ []OneAtATime => []AckedIsDelivered
  <1>1. MuxInit => SessionInv
    BY DEF MuxInit, LinkInit, SessionInv, AfterSabm
  <1>2. MuxInv /\ SessionInv /\ OneAtATime /\ OneAtATime' /\ [MuxNext]_muxVars => SessionInv'
    BY AfterSabmStep, InSyncStep DEF SessionInv
  <1>3. MuxInv /\ SessionInv => AckedIsDelivered
    <2> SUFFICES ASSUME MuxInv, SessionInv, CanSend, session.clean
                 PROVE  \A n \in session.base + 1 .. accepted : \E i \in DOMAIN plog : plog[i] = n
      BY DEF AckedIsDelivered
    <2>1. InSync /\ remote_nr = Incr(local_ns)
      BY DEF SessionInv, CanSend, Acked
    <2>2. vr # local_ns
      BY <2>1, NumberFacts DEF InSync, AckedFrame
    <2>. QED  BY <2>1, <2>2 DEF InSync, Delivered
  <1>. QED  BY <1>1, <1>2, <1>3, MuxInvariant, PTL DEF MuxSpec

-----------------------------------------------------------------------------
(* In order and at most once, for any number of workers.                   *)

\* What the telephone is still to see: the frames under way, then the frame
\* resend_iframe() would write next.  A link that is neither up nor coming up
\* writes a SABM before anything else, and numbers start over behind it.
Starting == state \in {"EXPECT_UA", "LINK_UP"}
StreamLen == Len(toPhone) + (IF Starting THEN 1 ELSE 2)
Kept == IFrame(IF Starting THEN local_ns ELSE SeqMod - 1, 0, xpkt)
Stream ==
  [i \in 1 .. StreamLen |->
     IF i <= Len(toPhone) THEN toPhone[i]
     ELSE IF i = StreamLen THEN Kept ELSE UFrame("SABM")]

LastDelivered == IF plog = <<>> THEN 0 ELSE plog[Len(plog)]

\* Frame i of s carries a payload; a SABM lies between frames i and j.
Loaded(s, i) == s[i].type = "I" /\ s[i].body >= 1
SabmIn(s, i, j) == \E k \in i + 1 .. j - 1 : s[k].type = "SABM"

\* Payloads of the stream s of n frames: none is older than the one delivered
\* last or newer than the one accepted last, and they come in order.
InOrder(s, n, last, acc) ==
  /\ \A i \in 1 .. n : Loaded(s, i) => last <= s[i].body /\ s[i].body <= acc
  /\ \A i, j \in 1 .. n : i < j /\ Loaded(s, i) /\ Loaded(s, j) => s[i].body <= s[j].body

\* Copies of a payload follow each other, also after its delivery: no keepalive
\* takes a number between them.
Together(s, n, last) ==
  /\ \A i, k, j \in 1 .. n :
       i < k /\ k < j /\ Loaded(s, i) /\ Loaded(s, j) /\ s[i].body = s[j].body /\ s[k].type = "I"
         => s[k].body = s[i].body
  /\ \A k, j \in 1 .. n :
       k < j /\ Loaded(s, j) /\ s[j].body = last /\ s[k].type = "I" => s[k].body = last

\* Copies of a payload have one number, which is not the one the telephone, at
\* v, accepts once it has the payload; behind a SABM it is the number before 0.
Numbered(s, n, v, last) ==
  /\ \A i, j \in 1 .. n :
       i < j /\ Loaded(s, i) /\ Loaded(s, j) /\ s[i].body = s[j].body
         => s[j].ns = IF SabmIn(s, i, j) THEN SeqMod - 1 ELSE s[i].ns
  /\ \A j \in 1 .. n :
       Loaded(s, j) /\ s[j].body = last
         => IF SabmIn(s, 0, j) THEN s[j].ns = SeqMod - 1 ELSE Incr(s[j].ns) = v

Good(s, n, v, last, acc) ==
  InOrder(s, n, last, acc) /\ Together(s, n, last) /\ Numbered(s, n, v, last)

StreamInv == LastDelivered <= accepted /\ Good(Stream, StreamLen, vr, LastDelivered, accepted)

\* The transport loses no SABM.
SabmKept == LoseFrame /\ toPhone' # toPhone => Head(toPhone).type # "SABM"
SabmIsKept == [][SabmKept]_muxVars

\* The fields of a stream of n frames.
Typed(s, n) == \A i \in 1 .. n : s[i].body \in Int /\ s[i].ns \in SeqNums

\* A SABM, an RR, or a copy of the kept frame comes before the kept frame; behind
\* the SABM the kept frame is numbered anew.
LEMMA GoodInsert ==
  ASSUME NEW s, NEW t, NEW n \in Nat \ {0}, NEW v, NEW last, NEW acc,
         Good(s, n, v, last, acc), Typed(s, n), last \in Nat, acc \in Nat,
         \A i \in 1 .. n - 1 : t[i] = s[i],
         s[n].type = "I", t[n + 1].type = "I", t[n + 1].body = s[n].body,
         \/ t[n].type = "SABM" /\ t[n + 1].ns = SeqMod - 1
         \/ t[n].type = "RR" /\ t[n + 1].ns = s[n].ns
         \/ /\ t[n].type = "I" /\ t[n].body = s[n].body
            /\ t[n].ns = s[n].ns /\ t[n + 1].ns = s[n].ns
  PROVE  Good(t, n + 1, v, last, acc)
  <1> DEFINE M(i) == IF i = n + 1 THEN n ELSE i
  <1>1. \A i \in 1 .. n + 1 :
          M(i) \in 1 .. n /\ (t[i].type = "I" => s[M(i)].type = "I" /\ s[M(i)].body = t[i].body)
    OBVIOUS
  <1>2. \A i, j \in 1 .. n + 1 : i < j => M(i) < M(j) \/ M(i) = M(j)
    OBVIOUS
  <1>3. \A i \in 1 .. n + 1 : Loaded(t, i) => Loaded(s, M(i)) /\ s[M(i)].body = t[i].body
    BY <1>1 DEF Loaded
  <1>4. \A i \in 1 .. n : s[i].body \in Int
    BY DEF Typed
  <1>5. InOrder(t, n + 1, last, acc)
    <2> HIDE DEF M
    <2>1. \A i \in 1 .. n + 1 : Loaded(t, i) => last <= t[i].body /\ t[i].body <= acc
      BY <1>1, <1>3 DEF Good, InOrder
    <2>2. ASSUME NEW i \in 1 .. n + 1, NEW j \in 1 .. n + 1, i < j, Loaded(t, i), Loaded(t, j)
          PROVE  t[i].body <= t[j].body
      <3>1. CASE M(i) < M(j)
        BY <1>1, <1>3, <2>2, <3>1 DEF Good, InOrder
      <3>2. CASE M(i) = M(j)
        <4>1. t[i].body = t[j].body /\ t[i].body \in Int
          BY <1>1, <1>3, <1>4, <2>2, <3>2
        <4>. QED  BY <4>1
      <3>. QED  BY <1>2, <2>2, <3>1, <3>2
    <2>. QED  BY <2>1, <2>2 DEF InOrder
  <1>6. Together(t, n + 1, last)
    <2> HIDE DEF M
    <2>1. ASSUME NEW i \in 1 .. n + 1, NEW k \in 1 .. n + 1, NEW j \in 1 .. n + 1,
                 i < k, k < j, Loaded(t, i), Loaded(t, j), t[i].body = t[j].body, t[k].type = "I"
          PROVE  t[k].body = t[i].body
      <3>1. CASE M(i) < M(k) /\ M(k) < M(j)
        BY <1>1, <1>3, <2>1, <3>1 DEF Good, Together
      <3>2. CASE M(i) = M(k) \/ M(k) = M(j)
        BY <1>1, <1>3, <2>1, <3>2
      <3>. QED  BY <1>2, <2>1, <3>1, <3>2
    <2>2. ASSUME NEW k \in 1 .. n + 1, NEW j \in 1 .. n + 1,
                 k < j, Loaded(t, j), t[j].body = last, t[k].type = "I"
          PROVE  t[k].body = last
      <3>1. CASE M(k) < M(j)
        BY <1>1, <1>3, <2>2, <3>1 DEF Good, Together
      <3>2. CASE M(k) = M(j)
        BY <1>1, <1>3, <2>2, <3>2
      <3>. QED  BY <1>2, <2>2, <3>1, <3>2
    <2>. QED  BY <2>1, <2>2 DEF Together
  <1>7. \A i \in 0 .. n, j \in 1 .. n : SabmIn(t, i, j) <=> SabmIn(s, i, j)
    BY DEF SabmIn
  <1>8. \A i \in 0 .. n - 1 :
          SabmIn(t, i, n + 1) <=> (SabmIn(s, i, n) \/ t[n].type = "SABM")
    BY DEF SabmIn
  <1>9. ~SabmIn(t, n, n + 1)
    BY DEF SabmIn
  <1>10. ASSUME NEW i \in 1 .. n + 1, NEW j \in 1 .. n + 1,
                i < j, Loaded(t, i), Loaded(t, j), t[i].body = t[j].body
         PROVE  t[j].ns = IF SabmIn(t, i, j) THEN SeqMod - 1 ELSE t[i].ns
    <2>1. CASE j \in 1 .. n - 1
      <3>1. Loaded(s, i) /\ Loaded(s, j) /\ s[i].body = s[j].body /\ i \in 1 .. n /\ i \in 0 .. n /\ j \in 1 .. n
        BY <1>10, <2>1 DEF Loaded
      <3>2. s[j].ns = IF SabmIn(s, i, j) THEN SeqMod - 1 ELSE s[i].ns
        BY <1>10, <3>1 DEF Good, Numbered
      <3>. QED  BY <1>7, <1>10, <2>1, <3>1, <3>2
    <2>2. CASE j = n
      <3>1. t[n].ns = s[n].ns /\ t[n].body = s[n].body /\ i \in 1 .. n - 1
        BY <1>10, <2>2 DEF Loaded
      <3>2. Loaded(s, i) /\ Loaded(s, n) /\ s[i].body = s[n].body
        BY <1>10, <2>2, <3>1 DEF Loaded
      <3>3. s[n].ns = IF SabmIn(s, i, n) THEN SeqMod - 1 ELSE s[i].ns
        BY <3>1, <3>2 DEF Good, Numbered
      <3>. QED  BY <1>7, <2>2, <3>1, <3>3
    <2>3. CASE j = n + 1 /\ i \in 1 .. n - 1
      <3>1. Loaded(s, i) /\ Loaded(s, n) /\ s[i].body = s[n].body
        BY <1>10, <2>3 DEF Loaded
      <3>2. s[n].ns = IF SabmIn(s, i, n) THEN SeqMod - 1 ELSE s[i].ns
        BY <2>3, <3>1 DEF Good, Numbered
      <3>. QED  BY <1>8, <2>3, <3>2
    <2>4. CASE j = n + 1 /\ i = n
      <3>1. t[n].ns = s[n].ns /\ t[n + 1].ns = s[n].ns
        BY <1>10, <2>4 DEF Loaded
      <3>. QED  BY <1>9, <2>4, <3>1
    <2>. QED  BY <1>10, <2>1, <2>2, <2>3, <2>4
  <1>11. ASSUME NEW j \in 1 .. n + 1, Loaded(t, j), t[j].body = last
         PROVE  IF SabmIn(t, 0, j) THEN t[j].ns = SeqMod - 1 ELSE Incr(t[j].ns) = v
    <2>1. CASE j \in 1 .. n
      <3>0. t[j].ns = s[j].ns /\ t[j].body = s[j].body /\ s[j].type = "I"
        BY <1>11, <2>1 DEF Loaded
      <3>1. Loaded(s, j) /\ s[j].body = last
        BY <1>11, <3>0 DEF Loaded
      <3>2. IF SabmIn(s, 0, j) THEN s[j].ns = SeqMod - 1 ELSE Incr(s[j].ns) = v
        BY <2>1, <3>1 DEF Good, Numbered
      <3>. QED  BY <1>7, <2>1, <3>0, <3>2
    <2>2. CASE j = n + 1
      <3>1. Loaded(s, n) /\ s[n].body = last
        BY <1>11, <2>2 DEF Loaded
      <3>2. IF SabmIn(s, 0, n) THEN s[n].ns = SeqMod - 1 ELSE Incr(s[n].ns) = v
        BY <3>1 DEF Good, Numbered
      <3>. QED  BY <1>8, <2>2, <3>2
    <2>. QED  BY <2>1, <2>2
  <1>12. Numbered(t, n + 1, v, last)
    BY <1>10, <1>11 DEF Numbered
  <1>. QED  BY <1>5, <1>6, <1>12 DEF Good

\* A new frame, a keepalive or the next payload, becomes the kept one.
LEMMA GoodNew ==
  ASSUME NEW s, NEW t, NEW n \in Nat \ {0}, NEW v, NEW last \in Nat, NEW acc \in Nat, NEW acc2 \in Nat,
         Good(s, n, v, last, acc), Typed(s, n), last <= acc,
         \A i \in 1 .. n - 1 : t[i] = s[i],
         \/ t[n].body = Dummy /\ acc2 = acc
         \/ t[n].body = acc + 1 /\ acc2 = acc + 1
  PROVE  Good(t, n, v, last, acc2)
  <1>1. \A i \in 1 .. n - 1 :
          Loaded(t, i) => Loaded(s, i) /\ t[i].body <= acc /\ last <= t[i].body
    BY DEF Loaded, Good, InOrder
  <1>2. Loaded(t, n) => t[n].body = acc + 1 /\ acc2 = acc + 1
    BY DEF Loaded, Dummy
  <1>3. \A i \in 1 .. n - 1 : i \in 1 .. n /\ s[i].body \in Int /\ t[i] = s[i]
    BY DEF Typed
  <1>4. \A i \in 1 .. n - 1 : Loaded(t, i) /\ Loaded(t, n) => t[i].body < t[n].body
    BY <1>1, <1>2, <1>3
  <1>5. Loaded(t, n) => t[n].body # last /\ last <= t[n].body /\ t[n].body <= acc2
    BY <1>2
  <1>0. \A i \in 1 .. n : i = n \/ i \in 1 .. n - 1
    OBVIOUS
  <1>6. InOrder(t, n, last, acc2)
    <2>1. \A i \in 1 .. n - 1 : Loaded(t, i) => last <= t[i].body /\ t[i].body <= acc2
      BY <1>1, <1>3
    <2>2. \A i, j \in 1 .. n - 1 : i < j /\ Loaded(t, i) /\ Loaded(t, j) => t[i].body <= t[j].body
      BY <1>1, <1>3 DEF Good, InOrder
    <2>3. \A i \in 1 .. n - 1 : Loaded(t, i) /\ Loaded(t, n) => t[i].body <= t[n].body
      BY <1>2, <1>3, <1>4
    <2>4. \A i, j \in 1 .. n : i < j => i \in 1 .. n - 1
      OBVIOUS
    <2>. QED  BY <1>0, <1>5, <2>1, <2>2, <2>3, <2>4 DEF InOrder
  <1>7. Together(t, n, last)
    <2>1. ASSUME NEW i \in 1 .. n, NEW k \in 1 .. n, NEW j \in 1 .. n,
                 i < k, k < j, Loaded(t, i), Loaded(t, j), t[i].body = t[j].body, t[k].type = "I"
          PROVE  t[k].body = t[i].body
      <3>1. i \in 1 .. n - 1 /\ k \in 1 .. n - 1 /\ j \in 1 .. n - 1
        <4>1. i \in 1 .. n - 1 /\ k \in 1 .. n - 1
          BY <2>1
        <4>2. j # n
          BY <1>3, <1>4, <2>1, <4>1
        <4>. QED  BY <1>0, <4>1, <4>2
      <3>. QED  BY <1>1, <1>3, <2>1, <3>1 DEF Good, Together
    <2>2. ASSUME NEW k \in 1 .. n, NEW j \in 1 .. n,
                 k < j, Loaded(t, j), t[j].body = last, t[k].type = "I"
          PROVE  t[k].body = last
      <3>1. k \in 1 .. n - 1 /\ j \in 1 .. n - 1
        BY <1>0, <1>5, <2>2
      <3>. QED  BY <1>1, <1>3, <2>2, <3>1 DEF Good, Together
    <2>. QED  BY <2>1, <2>2 DEF Together
  <1>8. \A i \in 0 .. n, j \in 1 .. n : SabmIn(t, i, j) <=> SabmIn(s, i, j)
    BY DEF SabmIn
  <1>9. Numbered(t, n, v, last)
    <2>1. ASSUME NEW i \in 1 .. n, NEW j \in 1 .. n,
                 i < j, Loaded(t, i), Loaded(t, j), t[i].body = t[j].body
          PROVE  t[j].ns = IF SabmIn(t, i, j) THEN SeqMod - 1 ELSE t[i].ns
      <3>1. i \in 1 .. n - 1 /\ j \in 1 .. n - 1
        <4>1. i \in 1 .. n - 1
          BY <2>1
        <4>2. j # n
          BY <1>3, <1>4, <2>1, <4>1
        <4>. QED  BY <1>0, <4>1, <4>2
      <3>2. s[j].ns = IF SabmIn(s, i, j) THEN SeqMod - 1 ELSE s[i].ns
        BY <1>1, <1>3, <2>1, <3>1 DEF Good, Numbered
      <3>3. i \in 0 .. n
        OBVIOUS
      <3>. QED  BY <1>3, <1>8, <3>1, <3>2, <3>3
    <2>2. ASSUME NEW j \in 1 .. n, Loaded(t, j), t[j].body = last
          PROVE  IF SabmIn(t, 0, j) THEN t[j].ns = SeqMod - 1 ELSE Incr(t[j].ns) = v
      <3>1. j \in 1 .. n - 1
        BY <1>0, <1>5, <2>2
      <3>2. IF SabmIn(s, 0, j) THEN s[j].ns = SeqMod - 1 ELSE Incr(s[j].ns) = v
        BY <1>1, <1>3, <2>2, <3>1 DEF Good, Numbered
      <3>3. 0 \in 0 .. n
        OBVIOUS
      <3>. QED  BY <1>3, <1>8, <3>1, <3>2, <3>3
    <2>. QED  BY <2>1, <2>2 DEF Numbered
  <1>. QED  BY <1>6, <1>7, <1>9 DEF Good

\* The telephone takes the first frame, or it is lost: a SABM sets v to 0, and an
\* expected I-frame moves v on and delivers its payload, which is a new one.
LEMMA GoodTake ==
  ASSUME NEW s, NEW t, NEW n \in Nat, n > 1, NEW v \in SeqNums, NEW last \in Nat, NEW acc \in Nat,
         NEW v2, NEW last2,
         Good(s, n, v, last, acc), Typed(s, n),
         \A i \in 1 .. n - 1 : t[i] = s[i + 1],
         \/ s[1].type # "SABM" /\ v2 = v /\ last2 = last
         \/ s[1].type = "SABM" /\ v2 = 0 /\ last2 = last
         \/ s[1].type = "I" /\ s[1].ns = v /\ v2 = Incr(v) /\ s[1].body = Dummy /\ last2 = last
         \/ Loaded(s, 1) /\ s[1].ns = v /\ v2 = Incr(v) /\ last2 = s[1].body
  PROVE  /\ Good(t, n - 1, v2, last2, acc)
         /\ Loaded(s, 1) /\ s[1].ns = v => s[1].body \in last + 1 .. acc
  <1>1. \A i \in 1 .. n : s[i].body \in Int /\ s[i].ns \in SeqNums
    BY DEF Typed
  <1>2. \A i \in 1 .. n - 1 : /\ i + 1 \in 1 .. n /\ 1 < i + 1 /\ t[i] = s[i + 1]
                             /\ Loaded(t, i) <=> Loaded(s, i + 1)
    BY DEF Loaded
  <1>3. \A i, j \in 1 .. n - 1 : i < j => i + 1 < j + 1
    OBVIOUS
  <1>4. ~SabmIn(s, 0, 1)
    BY DEF SabmIn
  <1>5. Loaded(s, 1) => last <= s[1].body /\ s[1].body <= acc
    BY DEF Good, InOrder
  <1>6. Loaded(s, 1) /\ s[1].body = last => s[1].ns # v
    <2>1. Loaded(s, 1) /\ s[1].body = last => Incr(s[1].ns) = v
      BY <1>4 DEF Good, Numbered
    <2>. QED  BY <1>1, <2>1, IncrFacts
  <1>7. Loaded(s, 1) /\ s[1].ns = v => s[1].body \in last + 1 .. acc
    BY <1>1, <1>5, <1>6
  <1>8. last2 = last \/ (Loaded(s, 1) /\ last2 = s[1].body)
    OBVIOUS
  <1>9. InOrder(t, n - 1, last2, acc)
    <2>1. \A j \in 1 .. n - 1 : Loaded(t, j) => last2 <= t[j].body /\ t[j].body <= acc
      BY <1>2, <1>8 DEF Good, InOrder
    <2>2. \A i, j \in 1 .. n - 1 : i < j /\ Loaded(t, i) /\ Loaded(t, j) => t[i].body <= t[j].body
      BY <1>2, <1>3 DEF Good, InOrder
    <2>. QED  BY <2>1, <2>2 DEF InOrder
  <1>10. Together(t, n - 1, last2)
    <2>1. ASSUME NEW i \in 1 .. n - 1, NEW k \in 1 .. n - 1, NEW j \in 1 .. n - 1,
                 i < k, k < j, Loaded(t, i), Loaded(t, j), t[i].body = t[j].body, t[k].type = "I"
          PROVE  t[k].body = t[i].body
      BY <1>2, <1>3, <2>1 DEF Good, Together
    <2>2. ASSUME NEW k \in 1 .. n - 1, NEW j \in 1 .. n - 1,
                 k < j, Loaded(t, j), t[j].body = last2, t[k].type = "I"
          PROVE  t[k].body = last2
      <3>1. CASE last2 = last
        BY <1>2, <1>3, <2>2, <3>1 DEF Good, Together
      <3>2. CASE Loaded(s, 1) /\ last2 = s[1].body
        BY <1>2, <1>3, <2>2, <3>2 DEF Good, Together
      <3>. QED  BY <1>8, <3>1, <3>2
    <2>. QED  BY <2>1, <2>2 DEF Together
  <1>11. \A i \in 0 .. n - 1, j \in 1 .. n - 1 : SabmIn(t, i, j) <=> SabmIn(s, i + 1, j + 1)
    <2> SUFFICES ASSUME NEW i \in 0 .. n - 1, NEW j \in 1 .. n - 1
                 PROVE  SabmIn(t, i, j) <=> SabmIn(s, i + 1, j + 1)
      OBVIOUS
    <2>1. \A k \in i + 1 .. j - 1 : k + 1 \in i + 1 + 1 .. j + 1 - 1 /\ t[k] = s[k + 1]
      OBVIOUS
    <2>2. \A k \in i + 1 + 1 .. j + 1 - 1 : k - 1 \in i + 1 .. j - 1 /\ t[k - 1] = s[k]
      OBVIOUS
    <2>. QED  BY <2>1, <2>2 DEF SabmIn
  <1>12. \A j \in 1 .. n - 1 : SabmIn(s, 0, j + 1) <=> (s[1].type = "SABM" \/ SabmIn(t, 0, j))
    <2>1. \A j \in 1 .. n - 1 : SabmIn(s, 0, j + 1) <=> (s[1].type = "SABM" \/ SabmIn(s, 0 + 1, j + 1))
      BY DEF SabmIn
    <2>. QED  BY <1>11, <2>1
  <1>13. ASSUME NEW i \in 1 .. n - 1, NEW j \in 1 .. n - 1,
                i < j, Loaded(t, i), Loaded(t, j), t[i].body = t[j].body
         PROVE  t[j].ns = IF SabmIn(t, i, j) THEN SeqMod - 1 ELSE t[i].ns
    <2>1. s[j + 1].ns = IF SabmIn(s, i + 1, j + 1) THEN SeqMod - 1 ELSE s[i + 1].ns
      BY <1>2, <1>3, <1>13 DEF Good, Numbered
    <2>. QED  BY <1>2, <1>11, <1>13, <2>1
  <1>14. ASSUME NEW j \in 1 .. n - 1, Loaded(t, j), t[j].body = last2
         PROVE  IF SabmIn(t, 0, j) THEN t[j].ns = SeqMod - 1 ELSE Incr(t[j].ns) = v2
    <2>1. /\ Loaded(s, j + 1) /\ s[j + 1] = t[j] /\ j + 1 \in 1 .. n /\ 1 \in 1 .. n /\ 1 < j + 1
          /\ Loaded(s, j + 1) /\ s[j + 1].body = last2
      BY <1>2, <1>14
    <2>2. CASE last2 = last /\ s[1].type # "SABM" /\ v2 = v
      <3>1. IF SabmIn(s, 0, j + 1) THEN s[j + 1].ns = SeqMod - 1 ELSE Incr(s[j + 1].ns) = v
        BY <2>1, <2>2 DEF Good, Numbered
      <3>. QED  BY <1>12, <2>1, <2>2, <3>1
    <2>3. CASE last2 = last /\ s[1].type = "SABM" /\ v2 = 0
      <3>1. s[j + 1].ns = SeqMod - 1
        BY <1>12, <2>1, <2>3 DEF Good, Numbered
      <3>. QED  BY <2>1, <2>3, <3>1, IncrFacts
    <2>4. CASE last2 = last /\ s[1].type = "I" /\ s[1].body = Dummy
      <3>1. s[1].body = last
        BY <2>1, <2>4 DEF Good, Together
      <3>2. s[j + 1].body >= 1
        BY <2>1 DEF Loaded
      <3>. QED  BY <2>1, <2>4, <3>1, <3>2 DEF Dummy
    <2>5. CASE Loaded(s, 1) /\ s[1].ns = v /\ v2 = Incr(v) /\ last2 = s[1].body
      <3>1. s[j + 1].ns = IF SabmIn(s, 1, j + 1) THEN SeqMod - 1 ELSE s[1].ns
        BY <2>1, <2>5 DEF Good, Numbered
      <3>2. SabmIn(t, 0, j) <=> SabmIn(s, 1, j + 1)
        <4>1. 0 \in 0 .. n - 1 /\ 0 + 1 = 1
          OBVIOUS
        <4>. QED  BY <1>11, <4>1
      <3>. QED  BY <2>1, <2>5, <3>1, <3>2
    <2>. QED  BY <2>2, <2>3, <2>4, <2>5
  <1>15. Numbered(t, n - 1, v2, last2)
    BY <1>13, <1>14 DEF Numbered
  <1>. QED  BY <1>7, <1>9, <1>10, <1>15 DEF Good

\* The stream has the kept frame at its end.
StreamShape ==
  /\ Len(toPhone) \in Nat /\ StreamLen \in Nat \ {0} /\ Typed(Stream, StreamLen)
  /\ StreamLen = IF Starting THEN Len(toPhone) + 1 ELSE Len(toPhone) + 2
  /\ \A i \in 1 .. Len(toPhone) : Stream[i] = toPhone[i] /\ toPhone[i] \in Frames
  /\ Stream[StreamLen] = Kept
  /\ ~Starting => Stream[Len(toPhone) + 1] = UFrame("SABM")
  /\ Kept.type = "I" /\ Kept.body = xpkt /\ xpkt \in Int
  /\ Kept.ns = IF Starting THEN local_ns ELSE SeqMod - 1
  /\ LastDelivered \in Nat /\ accepted \in Nat

\* It always has that shape.
LEMMA StreamFacts ==
  ASSUME MuxInv
  PROVE  StreamShape
  <1>1. toPhone \in Seq(Frames) /\ local_ns \in SeqNums /\ accepted \in Nat
    BY NumberFacts
  <1>2. Len(toPhone) \in Nat /\ \A i \in 1 .. Len(toPhone) : toPhone[i] \in Frames
    BY <1>1
  <1>3. /\ StreamLen \in Nat \ {0}
        /\ StreamLen = IF Starting THEN Len(toPhone) + 1 ELSE Len(toPhone) + 2
    BY <1>2 DEF StreamLen
  <1>4. xpkt \in Int
    BY BoundAssumption DEF MuxInv, MuxTypeOK, TypeOK, Bodies, Dummy, NoPkt
  <1>5. /\ Kept.type = "I" /\ Kept.body = xpkt /\ Kept.ns \in SeqNums
        /\ Kept.ns = IF Starting THEN local_ns ELSE SeqMod - 1
    BY <1>1, IncrFacts DEF Kept, IFrame
  <1>6. \A i \in 1 .. StreamLen :
          Stream[i] = IF i <= Len(toPhone) THEN toPhone[i]
                      ELSE IF i = StreamLen THEN Kept ELSE UFrame("SABM")
    BY DEF Stream
  <1>7. \A i \in 1 .. Len(toPhone) : i \in 1 .. StreamLen
    BY <1>2, <1>3
  <1>8. Stream[StreamLen] = Kept
    BY <1>2, <1>3, <1>6
  <1>9. ~Starting => Stream[Len(toPhone) + 1] = UFrame("SABM")
    BY <1>2, <1>3, <1>6
  <1>10. UFrame("SABM").body \in Int /\ UFrame("SABM").ns \in SeqNums
    BY IncrFacts DEF UFrame, Dummy
  <1>11. \A f \in Frames : f.body \in Int /\ f.ns \in SeqNums
    BY BoundAssumption DEF Frames, Bodies, Dummy
  <1>12. Typed(Stream, StreamLen)
    <2>1. ASSUME NEW i \in 1 .. StreamLen
          PROVE  Stream[i].body \in Int /\ Stream[i].ns \in SeqNums
      <3>1. CASE i <= Len(toPhone)
        BY <1>2, <1>6, <1>11, <3>1
      <3>2. CASE ~(i <= Len(toPhone))
        BY <1>4, <1>5, <1>6, <1>10, <3>2
      <3>. QED  BY <3>1, <3>2
    <2>. QED  BY <2>1 DEF Typed
  <1>13. LastDelivered \in Nat
    <2>1. plog \in Seq(1 .. MaxSend)
      BY DEF MuxInv, MuxTypeOK
    <2>2. plog # <<>> => plog[Len(plog)] \in 1 .. MaxSend
      BY <2>1, LastFacts
    <2>. QED  BY <2>2, BoundAssumption DEF LastDelivered
  <1>. QED
    BY <1>1, <1>2, <1>3, <1>4, <1>5, <1>6, <1>7, <1>8, <1>9, <1>12, <1>13 DEF StreamShape

\* Steps of the link write before the kept frame, renumber or replace it.
LEMMA MovesStream ==
  ASSUME MuxInv, MuxInv', StreamInv, UNCHANGED <<vr, plog>>,
         Quiet \/ StartsOver \/ Disables \/ ComesUp \/ SendsNew \/ \E nr \in SeqNums : Hears(nr)
  PROVE  StreamInv' /\ accepted' \in {accepted, accepted + 1}
  <1> DEFINE s == Stream  t == Stream'  n == StreamLen  P == toPhone
  <1>1. /\ Len(P) \in Nat /\ n \in Nat \ {0} /\ Typed(s, n)
        /\ n = (IF Starting THEN Len(P) + 1 ELSE Len(P) + 2)
        /\ \A i \in 1 .. Len(P) : s[i] = P[i]
        /\ s[n] = Kept /\ (~Starting => s[Len(P) + 1] = UFrame("SABM"))
        /\ Kept.type = "I" /\ Kept.body = xpkt /\ xpkt \in Int
        /\ Kept.ns = (IF Starting THEN local_ns ELSE SeqMod - 1)
        /\ LastDelivered \in Nat /\ accepted \in Nat
    BY StreamFacts DEF StreamShape
  <1>0. StreamShape'
    BY StreamFacts, PTL
  <1>2. /\ Len(P') \in Nat
        /\ StreamLen' = (IF Starting' THEN Len(P') + 1 ELSE Len(P') + 2)
        /\ \A i \in 1 .. Len(P') : t[i] = P'[i]
        /\ t[StreamLen'] = Kept' /\ (~Starting' => t[Len(P') + 1] = UFrame("SABM"))
        /\ Kept'.type = "I" /\ Kept'.body = xpkt' /\ xpkt' \in Int
        /\ Kept'.ns = (IF Starting' THEN local_ns' ELSE SeqMod - 1)
    BY <1>0 DEF StreamShape
  <1>3. Good(s, n, vr, LastDelivered, accepted) /\ LastDelivered <= accepted /\ LastDelivered' = LastDelivered
    BY DEF StreamInv, LastDelivered
  <1>4. ASSUME NEW e \in Frames
        PROVE  /\ Len(Append(P, e)) = Len(P) + 1 /\ Append(P, e)[Len(P) + 1] = e
               /\ \A i \in 1 .. Len(P) : Append(P, e)[i] = P[i]
    BY NumberFacts, AppendFacts
  <1>5. UFrame("SABM").type = "SABM" /\ UFrame("SABM") \in Frames
    BY FrameTypes DEF UFrame
  <1>6. ASSUME toPhone' = toPhone, Starting' = Starting, xpkt' = xpkt, local_ns' = local_ns
        PROVE  Stream' = Stream /\ StreamLen' = StreamLen
    BY <1>6 DEF Stream, StreamLen, Kept
  <1>7. CASE Quiet \/ ComesUp
    <2>1. toPhone' = toPhone /\ Starting' = Starting /\ xpkt' = xpkt /\ local_ns' = local_ns /\ accepted' = accepted
      BY <1>7 DEF Quiet, ComesUp, Starting
    <2>. QED  BY <1>3, <1>6, <2>1 DEF StreamInv
  <1>8. CASE StartsOver \/ Disables
    <2>1. UNCHANGED <<xpkt, accepted>>
      BY <1>8 DEF StartsOver, Disables
    <2>2. \/ Starting' /\ toPhone' = Append(toPhone, UFrame("SABM")) /\ local_ns' = SeqMod - 1
          \/ ~Starting' /\ toPhone' = toPhone
      BY <1>8 DEF StartsOver, Disables, Starting
    <2>3. /\ StreamLen' = Len(P) + 2 /\ \A i \in 1 .. Len(P) : t[i] = P[i]
          /\ t[Len(P) + 1] = UFrame("SABM")
          /\ t[Len(P) + 2] = Kept' /\ Kept'.ns = SeqMod - 1 /\ Kept'.body = xpkt
      <3>1. CASE Starting' /\ toPhone' = Append(toPhone, UFrame("SABM")) /\ local_ns' = SeqMod - 1
        BY <1>1, <1>2, <1>4, <1>5, <2>1, <3>1
      <3>2. CASE ~Starting' /\ toPhone' = toPhone
        BY <1>1, <1>2, <2>1, <3>2
      <3>. QED  BY <2>2, <3>1, <3>2
    <2>4. CASE Starting
      <3>1. n = Len(P) + 1 /\ n - 1 = Len(P) /\ n + 1 = Len(P) + 2
        BY <1>1, <2>4
      <3>2. /\ \A i \in 1 .. n - 1 : t[i] = s[i]
            /\ s[n].type = "I" /\ t[n + 1].type = "I" /\ t[n + 1].body = s[n].body
            /\ t[n].type = "SABM" /\ t[n + 1].ns = SeqMod - 1
        BY <1>1, <1>2, <1>5, <2>3, <3>1
      <3> HIDE DEF s, t, n
      <3>3. Good(t, n + 1, vr, LastDelivered, accepted)
        BY <1>1, <1>3, <3>2, GoodInsert
      <3>. QED  BY <1>3, <2>1, <2>3, <3>1, <3>3 DEF StreamInv, t
    <2>5. CASE ~Starting
      <3>1. n = Len(P) + 2 /\ StreamLen' = n
        BY <1>1, <2>3, <2>5
      <3>2. Kept' = Kept
        BY <1>1, <1>2, <2>1, <2>2, <2>5 DEF Kept
      <3>3. \A i \in 1 .. n : t[i] = s[i]
        BY <1>1, <2>3, <2>5, <3>1, <3>2
      <3>4. t = s
        BY <3>1, <3>3 DEF Stream
      <3>. QED  BY <1>3, <2>1, <3>1, <3>4 DEF StreamInv
    <2>. QED  BY <2>1, <2>4, <2>5
  <1>9. ASSUME NEW nr \in SeqNums, Hears(nr) PROVE StreamInv' /\ accepted' = accepted
    <2>1. UNCHANGED <<xpkt, accepted, local_ns>> /\ Starting /\ Starting'
      BY <1>9 DEF Hears, Starting
    <2>2. CASE toPhone' = toPhone
      BY <1>3, <1>6, <2>1, <2>2 DEF StreamInv
    <2>3. ASSUME NEW e \in Frames, toPhone' = Append(toPhone, e),
                 e.type = "RR" \/ (e.type = "I" /\ e.ns = local_ns /\ e.body = xpkt)
          PROVE  StreamInv'
      <3>1. n = Len(P) + 1 /\ n - 1 = Len(P) /\ n + 1 = Len(P) + 2 /\ Len(P') = Len(P) + 1
            /\ StreamLen' = n + 1
        BY <1>1, <1>2, <1>4, <2>1, <2>3
      <3>2. t[n] = e /\ t[n + 1] = Kept' /\ \A i \in 1 .. n - 1 : t[i] = s[i]
        BY <1>1, <1>2, <1>4, <2>3, <3>1
      <3>3. s[n].type = "I" /\ s[n].ns = local_ns /\ s[n].body = xpkt
        BY <1>1, <2>1
      <3>4. t[n + 1].type = "I" /\ t[n + 1].ns = local_ns /\ t[n + 1].body = xpkt
        BY <1>2, <2>1, <3>2
      <3> HIDE DEF s, t, n
      <3>5. Good(t, n + 1, vr, LastDelivered, accepted)
        BY <1>1, <1>3, <2>3, <3>2, <3>3, <3>4, GoodInsert
      <3>. QED  BY <1>3, <2>1, <3>1, <3>5 DEF StreamInv, t
    <2>4. ASSUME NEW m \in SeqNums, toPhone' = Append(toPhone, RRFrame(m))
          PROVE  StreamInv'
      <3>1. RRFrame(m) \in Frames /\ RRFrame(m).type = "RR"
        BY FrameTypes DEF RRFrame
      <3>. QED  BY <2>3, <2>4, <3>1
    <2>5. ASSUME NEW m \in SeqNums, xpkt # NoPkt, toPhone' = Append(toPhone, IFrame(local_ns, m, xpkt))
          PROVE  StreamInv'
      <3>1. xpkt \in Bodies /\ local_ns \in SeqNums
        BY <2>5, NumberFacts DEF MuxInv, MuxTypeOK, TypeOK
      <3>2. /\ IFrame(local_ns, m, xpkt) \in Frames /\ IFrame(local_ns, m, xpkt).type = "I"
            /\ IFrame(local_ns, m, xpkt).ns = local_ns /\ IFrame(local_ns, m, xpkt).body = xpkt
        BY <3>1, FrameTypes DEF IFrame
      <3>. QED  BY <2>3, <2>5, <3>2
    <2>. QED  BY <1>9, <2>1, <2>2, <2>4, <2>5 DEF Hears
  <1>10. CASE SendsNew
    <2>1. /\ Starting /\ Starting' /\ local_ns' = Incr(local_ns)
          /\ \/ xpkt' = Dummy /\ accepted' = accepted
             \/ xpkt' = accepted + 1 /\ accepted' = accepted + 1
      BY <1>10 DEF SendsNew, CanSend, Starting
    <2>2. n = Len(P) + 1 /\ n - 1 = Len(P) /\ n + 1 = Len(P) + 2
      BY <1>1, <2>1
    <2>3. accepted' \in Nat /\ LastDelivered' <= accepted'
      BY <1>1, <1>3, <2>1
    <2> DEFINE u == [s EXCEPT ![n] = Kept']
    <2>4. u[n] = Kept' /\ \A i \in 1 .. n - 1 : u[i] = s[i]
      BY <1>1 DEF Stream
    <2>5. Kept'.ns \in SeqNums
      BY <1>2, <2>1, NumberFacts
    <2>6. Typed(u, n)
      BY <1>1, <1>2, <2>4, <2>5 DEF Typed
    <2>7. Good(u, n, vr, LastDelivered, accepted')
      <3> HIDE DEF s, n, u
      <3>. QED  BY <1>1, <1>2, <1>3, <2>1, <2>3, <2>4, GoodNew
    <2>8. CASE toPhone' = toPhone
      <3>1. StreamLen' = n /\ t[n] = Kept' /\ \A i \in 1 .. n - 1 : t[i] = s[i]
        BY <1>1, <1>2, <2>1, <2>2, <2>8
      <3> HIDE DEF s, n, t
      <3>2. Good(t, n, vr, LastDelivered, accepted')
        BY <1>1, <1>2, <1>3, <2>1, <2>3, <3>1, GoodNew
      <3>. QED  BY <1>3, <2>1, <2>3, <3>1, <3>2 DEF StreamInv, t
    <2>9. ASSUME NEW m \in SeqNums, toPhone' = Append(toPhone, IFrame(Incr(local_ns), m, xpkt'))
          PROVE  StreamInv'
      <3> DEFINE e == IFrame(Incr(local_ns), m, xpkt')
      <3>1. xpkt' \in Bodies
        BY <1>10, BoundAssumption DEF SendsNew, MuxInv, MuxTypeOK, TypeOK, Bodies, Dummy
      <3>2. e \in Frames /\ e.type = "I" /\ e.ns = local_ns' /\ e.body = xpkt'
        BY <2>1, <3>1, FrameTypes, NumberFacts DEF IFrame
      <3>3. P' = Append(P, e)
        BY <2>9
      <3> HIDE DEF e
      <3>4. Len(P') = Len(P) + 1 /\ StreamLen' = n + 1
        BY <1>2, <1>4, <2>1, <2>2, <3>2, <3>3
      <3>5. t[n] = e /\ t[n + 1] = Kept' /\ \A i \in 1 .. n - 1 : t[i] = u[i]
        BY <1>1, <1>2, <1>4, <2>2, <2>4, <3>2, <3>3, <3>4
      <3>6. u[n].type = "I" /\ u[n].ns = local_ns' /\ u[n].body = xpkt'
        BY <1>2, <2>1, <2>4
      <3>7. t[n + 1].type = "I" /\ t[n + 1].ns = local_ns' /\ t[n + 1].body = xpkt'
        BY <1>2, <2>1, <3>5
      <3> HIDE DEF s, t, n, u
      <3>8. Good(t, n + 1, vr, LastDelivered, accepted')
        BY <1>1, <2>3, <2>6, <2>7, <3>2, <3>5, <3>6, <3>7, GoodInsert
      <3>. QED  BY <1>3, <2>3, <3>4, <3>8 DEF StreamInv, t
    <2>. QED  BY <1>10, <2>1, <2>8, <2>9 DEF SendsNew
  <1>. QED  BY <1>7, <1>8, <1>9, <1>10

\* The telephone, or the loss of a frame that is no SABM, takes from the front.
LEMMA TakesStream ==
  ASSUME MuxInv, MuxInv', StreamInv, toPhone # <<>>, toPhone' = Tail(toPhone),
         UNCHANGED <<state, local_ns, xpkt, accepted>>,
         LET f == Head(toPhone) IN
           \/ f.type # "SABM" /\ UNCHANGED <<vr, plog>>
           \/ f.type = "SABM" /\ vr' = 0 /\ UNCHANGED plog
           \/ f.type = "I" /\ f.ns = vr /\ vr' = Incr(vr) /\ f.body = Dummy /\ UNCHANGED plog
           \/ f.type = "I" /\ f.ns = vr /\ vr' = Incr(vr) /\ f.body # Dummy
                /\ plog' = Append(plog, f.body)
  PROVE  /\ StreamInv'
         /\ \/ UNCHANGED plog
            \/ \E m \in LastDelivered + 1 .. accepted : plog' = Append(plog, m)
  <1> DEFINE s == Stream  t == Stream'  n == StreamLen  P == toPhone  f == Head(toPhone)
  <1>1. /\ Len(P) \in Nat /\ n \in Nat \ {0} /\ Typed(s, n)
        /\ n = (IF Starting THEN Len(P) + 1 ELSE Len(P) + 2)
        /\ \A i \in 1 .. Len(P) : s[i] = P[i]
        /\ s[n] = Kept /\ (~Starting => s[Len(P) + 1] = UFrame("SABM"))
        /\ LastDelivered \in Nat /\ accepted \in Nat
    BY StreamFacts DEF StreamShape
  <1>2. StreamShape'
    BY StreamFacts, PTL
  <1>3. /\ Len(P') \in Nat
        /\ StreamLen' = (IF Starting' THEN Len(P') + 1 ELSE Len(P') + 2)
        /\ \A i \in 1 .. Len(P') : t[i] = P'[i]
        /\ t[StreamLen'] = Kept' /\ (~Starting' => t[Len(P') + 1] = UFrame("SABM"))
    BY <1>2 DEF StreamShape
  <1>4. Starting' = Starting /\ Kept' = Kept
    BY DEF Starting, Kept
  <1>5. P \in Seq(Frames) /\ vr \in SeqNums
    BY NumberFacts
  <1>6. /\ Len(P') = Len(P) - 1 /\ Len(P) \in Nat \ {0} /\ f = P[1] /\ f \in Frames
        /\ \A i \in 1 .. Len(P) - 1 : P'[i] = P[i + 1]
    BY <1>5, TailFacts
  <1>7. n > 1 /\ StreamLen' = n - 1 /\ s[1] = f
    BY <1>1, <1>3, <1>4, <1>6
  <1>8. \A i \in 1 .. n - 1 : t[i] = s[i + 1]
    <2> SUFFICES ASSUME NEW i \in 1 .. n - 1 PROVE t[i] = s[i + 1]
      OBVIOUS
    <2>1. CASE i \in 1 .. Len(P) - 1
      <3>1. i + 1 \in 1 .. Len(P)
        BY <1>6, <2>1
      <3>. QED  BY <1>1, <1>3, <1>6, <2>1, <3>1
    <2>2. CASE i = Len(P) /\ ~Starting
      BY <1>1, <1>3, <1>4, <1>6, <2>2
    <2>3. CASE i = n - 1
      BY <1>1, <1>3, <1>4, <1>7, <2>3
    <2>4. CASE Starting
      BY <1>1, <1>6, <2>1, <2>3, <2>4
    <2>5. CASE ~Starting
      <3>1. n - 1 = Len(P) + 1
        BY <1>1, <2>5
      <3>2. i \in 1 .. Len(P) - 1 \/ i = Len(P) \/ i = n - 1
        BY <1>6, <3>1
      <3>. QED  BY <2>1, <2>2, <2>3, <2>5, <3>2
    <2>. QED  BY <2>4, <2>5
  <1>9. Good(s, n, vr, LastDelivered, accepted) /\ LastDelivered <= accepted
    BY DEF StreamInv
  <1>10. f.body \in Bodies /\ (f.body # Dummy => f.body >= 1)
    BY <1>6, FrameFields, BoundAssumption DEF Bodies, Dummy
  <1>11. CASE UNCHANGED plog
    <2>1. LastDelivered' = LastDelivered
      BY <1>11 DEF LastDelivered
    <2>2. \/ s[1].type # "SABM" /\ vr' = vr
          \/ s[1].type = "SABM" /\ vr' = 0
          \/ s[1].type = "I" /\ s[1].ns = vr /\ vr' = Incr(vr) /\ s[1].body = Dummy
      <3>1. f.body # Dummy => plog' # Append(plog, f.body)
        <4>1. plog \in Seq(Int) /\ f.body \in Int
          BY <1>10, BoundAssumption DEF MuxInv, MuxTypeOK, Bodies, Dummy
        <4>. QED  BY <1>11, <4>1, AppendLast
      <3>. QED  BY <1>7, <3>1
    <2> HIDE DEF s, t, n
    <2>3. Good(t, n - 1, vr', LastDelivered, accepted)
      BY <1>1, <1>5, <1>7, <1>8, <1>9, <2>2, GoodTake
    <2>. QED  BY <1>7, <1>9, <1>11, <2>1, <2>3 DEF StreamInv, t
  <1>12. CASE /\ f.type = "I" /\ f.ns = vr /\ vr' = Incr(vr) /\ f.body # Dummy
              /\ plog' = Append(plog, f.body)
    <2>1. Loaded(s, 1) /\ s[1].ns = vr
      BY <1>7, <1>10, <1>12 DEF Loaded
    <2>2. LastDelivered' = s[1].body
      <3>1. plog \in Seq(1 .. MaxSend) /\ f.body \in 1 .. MaxSend
        BY <1>10, <1>12, BoundAssumption DEF MuxInv, MuxTypeOK, Bodies, Dummy
      <3>2. plog' # <<>> /\ plog'[Len(plog')] = f.body
        BY <1>12, <3>1, AppendLast
      <3>. QED  BY <1>7, <3>2 DEF LastDelivered
    <2> DEFINE b == s[1].body  v2 == vr'
    <2>0. v2 = Incr(vr) /\ b = s[1].body
      BY <1>12
    <2> HIDE DEF s, t, n, b, v2
    <2>a. /\ Good(t, n - 1, v2, b, accepted)
          /\ s[1].body \in LastDelivered + 1 .. accepted
      BY <1>1, <1>5, <1>7, <1>8, <1>9, <2>0, <2>1, GoodTake
    <2>3. /\ Good(t, n - 1, vr', s[1].body, accepted)
          /\ s[1].body \in LastDelivered + 1 .. accepted
      BY <2>a, <2>0 DEF v2
    <2>4. s[1].body <= accepted
      BY <1>1, <2>3
    <2>. QED  BY <1>7, <1>12, <2>2, <2>3, <2>4 DEF StreamInv, t
  <1>. QED  BY <1>11, <1>12

\* Every step either leaves the service alone, accepts the next payload or
\* delivers a payload newer than the last.
LEMMA StreamStep ==
  ASSUME MuxInv, StreamInv, [MuxNext]_muxVars, [SabmKept]_muxVars
  PROVE  StreamInv' /\ [Service!Next]_(Service!vars)
  <1>1. MuxInv'
    BY MuxInvStep
  <1>2. ASSUME UNCHANGED <<vr, plog>>,
               Quiet \/ StartsOver \/ Disables \/ ComesUp \/ SendsNew \/ \E nr \in SeqNums : Hears(nr)
        PROVE  StreamInv' /\ [Service!Next]_(Service!vars)
    <2>1. StreamInv' /\ accepted' \in {accepted, accepted + 1}
      BY <1>1, <1>2, MovesStream
    <2>. QED  BY <1>2, <2>1 DEF Service!Next, Service!Accept, Service!vars
  <1>3. CASE PhoneTakes
    <2>1. /\ toPhone # <<>> /\ toPhone' = Tail(toPhone)
          /\ UNCHANGED <<state, local_ns, xpkt, accepted>>
      BY <1>3 DEF PhoneTakes, seqVars
    <2>2. LET f == Head(toPhone) IN
           \/ f.type # "SABM" /\ UNCHANGED <<vr, plog>>
           \/ f.type = "SABM" /\ vr' = 0 /\ UNCHANGED plog
           \/ f.type = "I" /\ f.ns = vr /\ vr' = Incr(vr) /\ f.body = Dummy /\ UNCHANGED plog
           \/ f.type = "I" /\ f.ns = vr /\ vr' = Incr(vr) /\ f.body # Dummy
                /\ plog' = Append(plog, f.body)
      BY <1>3 DEF PhoneTakes, phoneVars
    <2>3. /\ StreamInv'
          /\ \/ UNCHANGED plog
             \/ \E m \in LastDelivered + 1 .. accepted : plog' = Append(plog, m)
      BY <1>1, <2>1, <2>2, TakesStream
    <2>. QED
      BY <2>1, <2>3 DEF Service!Next, Service!Deliver, Service!vars, Service!LastDelivered, LastDelivered
  <1>4. CASE LoseFrame
    <2>1. UNCHANGED <<state, local_ns, xpkt, accepted, vr, plog>>
      BY <1>4 DEF LoseFrame, TakeFrame, seqVars, linkVars, phoneVars
    <2>2. CASE toPhone' = toPhone
      <3>1. Stream' = Stream /\ StreamLen' = StreamLen /\ LastDelivered' = LastDelivered
        BY <2>1, <2>2 DEF Stream, StreamLen, Kept, Starting, LastDelivered
      <3>. QED  BY <2>1, <3>1 DEF StreamInv, Service!vars
    <2>3. CASE toPhone' # toPhone
      <3>1. toPhone # <<>> /\ toPhone' = Tail(toPhone)
        BY <1>4, <2>3 DEF LoseFrame, TakeFrame, linkVars
      <3>2. Head(toPhone).type # "SABM"
        BY <1>4, <2>3 DEF SabmKept, muxVars, linkVars
      <3>3. StreamInv'
        BY <1>1, <2>1, <3>1, <3>2, TakesStream
      <3>. QED  BY <2>1, <3>3 DEF Service!vars
    <2>. QED  BY <2>2, <2>3
  <1>5. CASE ~PhoneTakes /\ ~LoseFrame
    <2>1. UNCHANGED <<vr, plog>>
      BY <1>5 DEF MuxNext, PhoneDM, PhoneKey, PhoneRestart, WorkerReads, WorkerSamples,
         dcp_handle_data, WorkerReports, dcpmux_ifup, dcpmux_ifdown, LinkThreads,
         muxVars, phoneVars
    <2>2. \/ Quiet \/ StartsOver \/ Disables \/ ComesUp \/ SendsNew \/ \E nr \in SeqNums : Hears(nr)
      BY <1>5, MuxMovesButTaking
    <2>. QED  BY <1>2, <2>1, <2>2
  <1>. QED  BY <1>3, <1>4, <1>5

\* Whatever the workers, the timer, the senders and the operator do, and however
\* stale the acknowledgements: a payload is delivered at most once and never
\* after a newer one, as long as the transport loses no SABM.  (When it does, a
\* late UA of an earlier SABM can bring up a link that the telephone has not
\* started anew, and a stale RR makes resend_iframe() repeat the last payload
\* as number SeqMod - 1, which may be the one the telephone expects.)
THEOREM OrderedOnce == MuxSpec /\ SabmIsKept => InOrderOnce
  <1>1. MuxInit => StreamInv /\ Service!Init
    <2> SUFFICES ASSUME MuxInit PROVE StreamInv /\ Service!Init
      OBVIOUS
    <2>1. MuxInv
      BY MuxInvInit
    <2>2. plog = <<>> /\ toPhone = <<>> /\ xpkt = -1 /\ accepted = 0
      BY DEF MuxInit, LinkInit, NoPkt
    <2>3. LastDelivered = 0 /\ Len(toPhone) = 0
      BY <2>2 DEF LastDelivered
    <2>4. ~Starting
      BY DEF MuxInit, LinkInit, Starting
    <2>5. StreamLen = 2 /\ Stream[1] = UFrame("SABM") /\ Stream[2].body = -1
      BY <2>1, <2>2, <2>3, <2>4, StreamFacts DEF StreamShape
    <2>6. \A i \in 1 .. 2 : ~Loaded(Stream, i)
      BY <2>5 DEF Loaded, UFrame
    <2>7. Good(Stream, 2, vr, 0, 0)
      BY <2>6 DEF Good, InOrder, Together, Numbered
    <2>. QED  BY <2>2, <2>3, <2>5, <2>7 DEF StreamInv, Service!Init
  <1>2. MuxInv /\ StreamInv /\ [MuxNext]_muxVars /\ [SabmKept]_muxVars
          => StreamInv' /\ [Service!Next]_(Service!vars)
    BY StreamStep
  <1>. QED
    BY <1>1, <1>2, MuxInvariant, PTL DEF MuxSpec, SabmIsKept, InOrderOnce, Service!Spec
=============================================================================
