--------------------------- MODULE DcpLinkProofs ---------------------------
(***************************************************************************)
(* Proofs about DcpLink, for every sequence space, retry limit, set of     *)
(* sender threads and far end.                                             *)
(***************************************************************************)
EXTENDS DcpLink, TLAPS

\* The sequence numbers dcp_reset_nsnr() leaves behind.
FreshNumbers == local_ns = SeqMod - 1 /\ remote_nr = 0

\* (n + 1) & NSNR_MASK stays in the sequence space, moves, and wraps to 0.
LEMMA IncrFacts ==
  /\ \A n \in SeqNums : Incr(n) \in SeqNums
  /\ \A n \in SeqNums : Incr(n) # n
  /\ Incr(SeqMod - 1) = 0
  /\ SeqMod - 1 \in SeqNums /\ 0 \in SeqNums
  BY SeqModAssumption DEF SeqNums, Incr

\* Every frame of the far end has the fields of a frame.
LEMMA AnyFrameIsFrame == AnyFrame \subseteq Frames
  BY IncrFacts, BoundAssumption DEF AnyFrame, Frames, UFrame, RRFrame, IFrame, Bodies, Dummy

-----------------------------------------------------------------------------
(* Type correctness.                                                       *)

\* Appending a frame keeps toPhone a sequence of frames.
LEMMA WriteType ==
  ASSUME toPhone \in Seq(Frames), NEW f \in Frames, write_packet(f)
  PROVE  toPhone' \in Seq(Frames)
  BY DEF write_packet, Wrote, NotWritten

\* The frames the link writes are frames.
LEMMA FrameTypes ==
  /\ UFrame("SABM") \in Frames
  /\ \A n \in SeqNums : RRFrame(n) \in Frames
  /\ \A m, n \in SeqNums, b \in Bodies : IFrame(m, n, b) \in Frames
  BY IncrFacts, BoundAssumption DEF Frames, UFrame, RRFrame, IFrame, Bodies, Dummy

\* resend_iframe() writes at most one frame and can only arm the timer.
LEMMA ResendType ==
  ASSUME TypeOK, NEW ns \in SeqNums, NEW b \in Bodies \cup {NoPkt}, resend_iframe(ns, b)
  PROVE  toPhone' \in Seq(Frames) /\ armed' \in BOOLEAN
                /\ (b # NoPkt => armed') /\ (armed => armed')
  <1>1. CASE b = NoPkt
    BY <1>1 DEF resend_iframe, NotWritten, TypeOK
  <1>2. CASE b # NoPkt
    <2>1. IFrame(ns, Incr(remote_ns), b) \in Frames
      BY <1>2, IncrFacts, FrameTypes DEF TypeOK
    <2>2. write_packet(IFrame(ns, Incr(remote_ns), b)) /\ armed' = TRUE
      BY <1>2 DEF resend_iframe
    <2>. QED  BY <2>1, <2>2, WriteType, <1>2 DEF TypeOK
  <1>. QED  BY <1>1, <1>2

\* dcp_send_sabm() leaves a well-formed link that is not up.
LEMMA SabmType ==
  ASSUME TypeOK, dcp_send_sabm
  PROVE  /\ state' \in {"EXPECT_UA", "RESET"} /\ FreshNumbers'
         /\ remote_nr' \in SeqNums /\ remote_ns' \in SeqNums /\ local_ns' \in SeqNums
         /\ iretr_cnt' \in 0 .. MaxIretr /\ keepalive_cnt' \in 0 .. MaxKeepalives
         /\ toPhone' \in Seq(Frames)
  <1>1. toPhone' \in Seq(Frames)
    BY FrameTypes, WriteType DEF dcp_send_sabm, write_packet, TypeOK
  <1>. QED
    BY <1>1, IncrFacts, LimitAssumption DEF dcp_send_sabm, ClearCounts, FreshNumbers

\* RetryOrGiveUp either resends with one more retry counted or resets the link.
LEMMA RetryType ==
  ASSUME TypeOK, NEW nr \in SeqNums, RetryOrGiveUp(nr)
  PROVE  /\ state' \in {state, "RESET"}
         /\ remote_nr' \in SeqNums /\ remote_ns' \in SeqNums /\ local_ns' \in SeqNums
         /\ iretr_cnt' \in 0 .. MaxIretr /\ keepalive_cnt' \in 0 .. MaxKeepalives
         /\ toPhone' \in Seq(Frames) /\ armed' \in BOOLEAN
         /\ \/ state' = "RESET" /\ FreshNumbers'
            \/ /\ state' = state /\ remote_nr' = nr /\ local_ns' = local_ns
               /\ (xpkt # NoPkt => armed') /\ (armed => armed')
  <1>1. CASE iretr_cnt + 1 > MaxIretr
    BY <1>1, IncrFacts, LimitAssumption
       DEF RetryOrGiveUp, dcp_reset_state, ClearCounts, FreshNumbers, NotWritten, TypeOK
  <1>2. CASE ~(iretr_cnt + 1 > MaxIretr)
    <2>1. /\ iretr_cnt' = iretr_cnt + 1 /\ remote_nr' = nr
          /\ resend_iframe(local_ns, xpkt)
          /\ UNCHANGED <<state, remote_ns, local_ns, keepalive_cnt>>
      BY <1>2 DEF RetryOrGiveUp
    <2>2. toPhone' \in Seq(Frames) /\ armed' \in BOOLEAN
                /\ (xpkt # NoPkt => armed') /\ (armed => armed')
      BY <2>1, ResendType DEF TypeOK
    <2>. QED  BY <1>2, <2>1, <2>2, LimitAssumption DEF TypeOK
  <1>. QED  BY <1>1, <1>2

\* A new frame (a payload or a keepalive) keeps the fields typed and arms the
\* timer.
LEMMA NewFrameType ==
  ASSUME TypeOK, NEW b \in Bodies, resend_iframe(Incr(local_ns), b)
  PROVE  toPhone' \in Seq(Frames) /\ armed' = TRUE
  <1>1. Incr(local_ns) \in SeqNums /\ b # NoPkt
    BY IncrFacts, BoundAssumption DEF TypeOK, Bodies, Dummy, NoPkt
  <1>. QED  BY <1>1, ResendType

\* A broadcast keeps every sender in a known place and leaves none waiting.
LEMMA WokenType ==
  ASSUME TypeOK
  PROVE  /\ Woken \in [Senders -> {"idle", "waiting", "woken"}]
         /\ \A s \in Senders : Woken[s] # "waiting"
  BY DEF TypeOK, Woken

\* dcp_init() leaves a well-formed link.
LEMMA InitType ==
  ASSUME LinkInit
  PROVE  TypeOK
  <1>1. armed \in BOOLEAN
    BY DEF LinkInit
  <1>2. state \in States /\ xpkt \in Bodies \cup {NoPkt}
    BY DEF LinkInit, States
  <1>3. toPhone \in Seq(Frames)
    BY DEF LinkInit
  <1>4. xmt \in [Senders -> {"idle", "waiting", "woken"}]
    BY DEF LinkInit
  <1>. QED
    BY <1>1, <1>2, <1>3, <1>4, IncrFacts, LimitAssumption, BoundAssumption
       DEF LinkInit, TypeOK

\* Every step of the link keeps it well formed.
LEMMA TypeStep ==
  ASSUME TypeOK, [Next]_linkVars
  PROVE  TypeOK'
  <1>1. CASE dcp_enable_link
    BY <1>1, SabmType DEF dcp_enable_link, TypeOK, States
  <1>2. CASE dcp_disable_link
    BY <1>2 DEF dcp_disable_link, TypeOK, States, seqVars, cntVars
  <1>3. ASSUME NEW s \in Senders, dcp_xmt(s) PROVE TypeOK'
    <2>1. CASE CanSend /\ SendNew(s)
      <3>1. accepted + 1 \in Bodies /\ accepted + 1 \in 0 .. MaxSend
        BY <2>1, BoundAssumption DEF SendNew, TypeOK, Bodies, Dummy
      <3>2. resend_iframe(Incr(local_ns), accepted + 1)
        BY <2>1 DEF SendNew
      <3>3. toPhone' \in Seq(Frames) /\ armed' = TRUE
        BY <3>1, <3>2, NewFrameType
      <3>. QED
        BY <2>1, <3>1, <3>3, IncrFacts DEF SendNew, TypeOK, cntVars
    <2>2. ASSUME NEW where \in {"idle", "waiting", "woken"}, Goes(s, where)
          PROVE  TypeOK'
      BY <2>2 DEF Goes, TypeOK, seqVars, cntVars, timerVars
    <2>. QED  BY <1>3, <2>1, <2>2 DEF dcp_xmt
  <1>4. ASSUME NEW s \in Senders, SpuriousWakeup(s) \/ XmtTimeout(s) PROVE TypeOK'
    BY <1>4 DEF SpuriousWakeup, XmtTimeout, Goes, TypeOK, seqVars, cntVars, timerVars
  <1>5. CASE Expire
    <2>1. armed' \in BOOLEAN
      BY <1>5 DEF Expire
    <2>2. expired' \in 0 .. MaxExpired
      BY <1>5, BoundAssumption DEF Expire, TypeOK
    <2>. QED  BY <1>5, <2>1, <2>2 DEF Expire, TypeOK, seqVars, cntVars
  <1>6. CASE dcp_timeout_hndlr
    <2>0. expired' \in 0 .. MaxExpired /\ UNCHANGED <<xmt, accepted>>
      BY <1>6, BoundAssumption DEF dcp_timeout_hndlr, TypeOK
    <2>1. CASE UNCHANGED <<state, seqVars, cntVars, xpkt, armed, toPhone>>
      BY <2>0, <2>1 DEF TypeOK, seqVars, cntVars
    <2>2. CASE RetryOrGiveUp(remote_nr) /\ UNCHANGED xpkt
      BY <2>0, <2>2, RetryType DEF TypeOK, States
    <2>3. CASE dcp_reset_state /\ UNCHANGED <<xpkt, armed, toPhone>>
      BY <2>0, <2>3, IncrFacts, LimitAssumption
         DEF dcp_reset_state, ClearCounts, TypeOK, States
    <2>4. CASE /\ ~(keepalive_cnt + 1 > MaxKeepalives)
               /\ keepalive_cnt' = keepalive_cnt + 1 /\ send_dummy
               /\ UNCHANGED <<state, remote_nr, remote_ns, iretr_cnt>>
      <3>1. Dummy \in Bodies
        BY BoundAssumption DEF Bodies, Dummy
      <3>2. toPhone' \in Seq(Frames) /\ armed' = TRUE
        BY <2>4, <3>1, NewFrameType DEF send_dummy
      <3>. QED
        BY <2>0, <2>4, <3>1, <3>2, IncrFacts, LimitAssumption DEF send_dummy, TypeOK
    <2>. QED  BY <1>6, <2>1, <2>2, <2>3, <2>4 DEF dcp_timeout_hndlr
  <1>7. CASE TakeFrame
    BY <1>7 DEF TakeFrame, TypeOK, seqVars, cntVars, timerVars
  <1>8. ASSUME NEW f \in AnyFrame, dcp_process_pkt(f) PROVE TypeOK'
    <2>0. f \in Frames /\ f.nr \in SeqNums /\ f.ns \in SeqNums
      BY AnyFrameIsFrame DEF Frames
    <2>1. CASE RcvDM(f)
      BY <2>1, SabmType DEF RcvDM, TypeOK, States
    <2>2. CASE RcvUA(f)
      BY <2>2 DEF RcvUA, TypeOK, States, seqVars, cntVars
    <2>3. CASE RcvRR(f)
      <3>1. CASE Acked(local_ns, f.nr)
        BY <2>0, <2>3, <3>1, WokenType, LimitAssumption DEF RcvRR, TypeOK
      <3>2. CASE ~Acked(local_ns, f.nr)
        BY <2>0, <2>3, <3>2, RetryType DEF RcvRR, TypeOK, States
      <3>. QED  BY <3>1, <3>2
    <2>4. CASE RcvI(f)
      <3>1. toPhone' \in Seq(Frames)
        BY <2>0, <2>4, IncrFacts, FrameTypes, WriteType DEF RcvI, TypeOK
      <3>. QED
        BY <2>0, <2>4, <3>1, WokenType DEF RcvI, TypeOK, cntVars
    <2>5. CASE RcvStrange(f)
      BY <2>5, WokenType DEF RcvStrange, seqVars, cntVars, timerVars, TypeOK
    <2>. QED  BY <1>8, <2>1, <2>2, <2>3, <2>4, <2>5 DEF dcp_process_pkt
  <1>9. CASE UNCHANGED linkVars
    BY <1>9 DEF linkVars, TypeOK
  <1>. QED
    BY <1>1, <1>2, <1>3, <1>4, <1>5, <1>6, <1>7, <1>8, <1>9 DEF Next, LinkLocal

\* The fields of struct dcp_hdlc_state keep their ranges: sequence numbers stay
\* below SeqMod and the retry counters at or below their limits, whatever
\* frames arrive.
THEOREM TypeCorrect == Spec => []TypeOK
  BY InitType, TypeStep, PTL DEF Spec

-----------------------------------------------------------------------------
(* The link is watched.                                                    *)

\* Every step of the link keeps the timer, or a handler thread, on an
\* established link that has sent something.
THEOREM Watched == Spec => []UpIsWatched
  <1>1. LinkInit => UpIsWatched
    BY DEF LinkInit, UpIsWatched
  <1>2. TypeOK /\ UpIsWatched /\ [Next]_linkVars => UpIsWatched'
    <2> SUFFICES ASSUME TypeOK, UpIsWatched, [Next]_linkVars PROVE UpIsWatched'
      OBVIOUS
    <2>1. CASE dcp_enable_link
      BY <2>1, SabmType DEF dcp_enable_link, UpIsWatched
    <2>2. CASE dcp_disable_link
      BY <2>2 DEF dcp_disable_link, UpIsWatched
    <2>3. ASSUME NEW s \in Senders, dcp_xmt(s) PROVE UpIsWatched'
      <3>1. CASE CanSend /\ SendNew(s)
        <4>1. accepted + 1 \in Bodies
          BY <3>1, BoundAssumption DEF SendNew, TypeOK, Bodies, Dummy
        <4>2. armed' = TRUE
          BY <3>1, <4>1, NewFrameType DEF SendNew
        <4>. QED  BY <4>2 DEF UpIsWatched
      <3>2. ASSUME NEW where \in {"idle", "waiting", "woken"}, Goes(s, where)
            PROVE  UpIsWatched'
        BY <3>2 DEF Goes, UpIsWatched, timerVars
      <3>. QED  BY <2>3, <3>1, <3>2 DEF dcp_xmt
    <2>4. ASSUME NEW s \in Senders, SpuriousWakeup(s) \/ XmtTimeout(s)
          PROVE  UpIsWatched'
      BY <2>4 DEF SpuriousWakeup, XmtTimeout, Goes, UpIsWatched, timerVars
    <2>5. CASE Expire
      BY <2>5 DEF Expire, TypeOK, UpIsWatched
    <2>6. CASE dcp_timeout_hndlr
      <3>1. CASE /\ armed \/ state # "LINK_UP"
                 /\ UNCHANGED <<state, seqVars, cntVars, xpkt, armed, toPhone>>
        BY <3>1 DEF UpIsWatched
      <3>2. CASE RetryOrGiveUp(remote_nr) /\ UNCHANGED xpkt
        BY <3>2, RetryType DEF TypeOK, UpIsWatched
      <3>3. CASE dcp_reset_state
        BY <3>3 DEF dcp_reset_state, UpIsWatched
      <3>4. CASE send_dummy
        <4>1. Dummy \in Bodies
          BY BoundAssumption DEF Bodies, Dummy
        <4>2. armed' = TRUE
          BY <3>4, <4>1, NewFrameType DEF send_dummy
        <4>. QED  BY <4>2 DEF UpIsWatched
      <3>. QED  BY <2>6, <3>1, <3>2, <3>3, <3>4 DEF dcp_timeout_hndlr
    <2>7. CASE TakeFrame
      BY <2>7 DEF TakeFrame, UpIsWatched, timerVars
    <2>8. ASSUME NEW f \in AnyFrame, dcp_process_pkt(f) PROVE UpIsWatched'
      <3>0. f.nr \in SeqNums
        BY AnyFrameIsFrame DEF Frames
      <3>1. CASE RcvDM(f)
        BY <3>1, SabmType DEF RcvDM, UpIsWatched
      <3>2. CASE RcvUA(f) \/ RcvI(f)
        BY <3>2 DEF RcvUA, RcvI, UpIsWatched
      <3>3. CASE RcvRR(f)
        <4>1. CASE Acked(local_ns, f.nr)
          BY <3>3, <4>1 DEF RcvRR, UpIsWatched
        <4>2. CASE ~Acked(local_ns, f.nr)
          BY <3>0, <3>3, <4>2, RetryType DEF RcvRR, UpIsWatched
        <4>. QED  BY <4>1, <4>2
      <3>4. CASE RcvStrange(f)
        BY <3>4 DEF RcvStrange, seqVars, cntVars, timerVars, UpIsWatched
      <3>. QED  BY <2>8, <3>1, <3>2, <3>3, <3>4 DEF dcp_process_pkt
    <2>9. CASE UNCHANGED linkVars
      BY <2>9 DEF linkVars, UpIsWatched
    <2>. QED
      BY <2>1, <2>2, <2>3, <2>4, <2>5, <2>6, <2>7, <2>8, <2>9 DEF Next, LinkLocal
  <1>. QED  BY <1>1, <1>2, TypeCorrect, PTL DEF Spec

-----------------------------------------------------------------------------
(* No wakeup is missed.                                                    *)

\* A new frame, payload or keepalive, takes a number that is not acknowledged.
LEMMA SendingOccupies ==
  ASSUME TypeOK, CanSend, local_ns' = Incr(local_ns), remote_nr' = remote_nr
  PROVE  ~CanSend'
  <1>1. remote_nr = Incr(local_ns) /\ Incr(local_ns) \in SeqNums
    BY IncrFacts DEF CanSend, Acked, TypeOK
  <1>2. Incr(local_ns') # remote_nr'
    BY <1>1, IncrFacts
  <1>. QED  BY <1>2 DEF CanSend, Acked

\* What NoMissedWakeup says of one step.
WakeStep ==
  \A s \in Senders :
    CanSend' /\ xmt'[s] = "waiting"
      => xmt[s] = "waiting" /\ (CanSend \/ state = "EXPECT_UA")

\* A step that leaves no thread asleep, or that leaves the link's freedom and the
\* sleepers as they were, or the link occupied, misses no wakeup.
LEMMA WakeFacts ==
  /\ (\A s \in Senders : xmt'[s] # "waiting") => WakeStep
  /\ (CanSend' = CanSend /\ xmt' = xmt) => WakeStep
  /\ ~CanSend' => WakeStep
  BY DEF WakeStep

\* Whatever frames arrive, no step frees a link that is up and leaves a thread
\* asleep in dcp_xmt(), and none puts a thread to sleep on a free link.
THEOREM Wakeups == Spec => NoMissedWakeup
  <1>1. TypeOK /\ [Next]_linkVars => WakeStep
    <2> SUFFICES ASSUME TypeOK, [Next]_linkVars PROVE WakeStep
      OBVIOUS
    <2>1. CASE dcp_enable_link
      <3>1. ~CanSend'
        BY <2>1, SabmType DEF dcp_enable_link, CanSend
      <3>. QED  BY <3>1, WakeFacts
    <2>2. CASE dcp_disable_link
      <3>1. ~CanSend'
        BY <2>2 DEF dcp_disable_link, CanSend
      <3>. QED  BY <3>1, WakeFacts
    <2>3. ASSUME NEW s \in Senders, dcp_xmt(s) PROVE WakeStep
      <3>1. CASE CanSend /\ SendNew(s)
        <4>1. ~CanSend'
          BY <3>1, SendingOccupies DEF SendNew
        <4>. QED  BY <4>1, WakeFacts
      <3>2. CASE state = "LINK_UP" /\ ~CanSend /\ Goes(s, "waiting")
        <4>1. ~CanSend'
          BY <3>2 DEF Goes, seqVars, CanSend, Acked
        <4>. QED  BY <4>1, WakeFacts
      <3>3. CASE state # "LINK_UP" /\ Goes(s, "idle")
        <4>1. ~CanSend'
          BY <3>3 DEF Goes, CanSend
        <4>. QED  BY <4>1, WakeFacts
      <3>. QED  BY <2>3, <3>1, <3>2, <3>3 DEF dcp_xmt
    <2>4. ASSUME NEW s \in Senders, SpuriousWakeup(s) \/ XmtTimeout(s)
          PROVE  WakeStep
      <3>1. CanSend' => CanSend
        BY <2>4 DEF SpuriousWakeup, XmtTimeout, Goes, seqVars, CanSend, Acked
      <3>2. \A t \in Senders : xmt'[t] = "waiting" => xmt[t] = "waiting"
        BY <2>4 DEF SpuriousWakeup, XmtTimeout, Goes, TypeOK
      <3>. QED  BY <3>1, <3>2 DEF WakeStep
    <2>5. CASE Expire
      <3>1. CanSend' = CanSend /\ xmt' = xmt
        BY <2>5 DEF Expire, seqVars, CanSend, Acked
      <3>. QED  BY <3>1, WakeFacts
    <2>6. CASE dcp_timeout_hndlr
      <3>1. xmt' = xmt
        BY <2>6 DEF dcp_timeout_hndlr
      <3>2. CASE UNCHANGED <<state, seqVars, cntVars, xpkt, armed, toPhone>>
        <4>1. CanSend' = CanSend
          BY <3>2 DEF seqVars, CanSend, Acked
        <4>. QED  BY <3>1, <4>1, WakeFacts
      <3>3. CASE state = "LINK_UP" /\ ~CanSend /\ RetryOrGiveUp(remote_nr)
        <4>1. ~CanSend'
          BY <3>3, RetryType DEF TypeOK, CanSend, Acked
        <4>. QED  BY <4>1, WakeFacts
      <3>4. CASE dcp_reset_state
        <4>1. ~CanSend'
          BY <3>4 DEF dcp_reset_state, CanSend
        <4>. QED  BY <4>1, WakeFacts
      <3>5. CASE CanSend /\ send_dummy /\ UNCHANGED <<state, remote_nr>>
        <4>1. ~CanSend'
          BY <3>5, SendingOccupies DEF send_dummy
        <4>. QED  BY <4>1, WakeFacts
      <3>. QED  BY <2>6, <3>2, <3>3, <3>4, <3>5 DEF dcp_timeout_hndlr
    <2>7. CASE TakeFrame
      <3>1. CanSend' = CanSend /\ xmt' = xmt
        BY <2>7 DEF TakeFrame, seqVars, CanSend, Acked
      <3>. QED  BY <3>1, WakeFacts
    <2>8. ASSUME NEW f \in AnyFrame, dcp_process_pkt(f) PROVE WakeStep
      <3>0. f.nr \in SeqNums
        BY AnyFrameIsFrame DEF Frames
      <3>1. CASE RcvDM(f)
        <4>1. ~CanSend'
          BY <3>1, SabmType DEF RcvDM, CanSend
        <4>. QED  BY <4>1, WakeFacts
      <3>2. CASE RcvUA(f)
        BY <3>2 DEF RcvUA, WakeStep
      <3>3. CASE RcvRR(f)
        <4>1. CASE Acked(local_ns, f.nr)
          <5>1. \A s \in Senders : xmt'[s] # "waiting"
            BY <3>3, <4>1, WokenType DEF RcvRR
          <5>. QED  BY <5>1, WakeFacts
        <4>2. CASE ~Acked(local_ns, f.nr)
          <5>1. ~CanSend'
            BY <3>0, <3>3, <4>2, RetryType DEF RcvRR, CanSend, Acked
          <5>. QED  BY <5>1, WakeFacts
        <4>. QED  BY <4>1, <4>2
      <3>4. CASE RcvI(f)
        <4>1. CASE Acked(local_ns, f.nr)
          <5>1. \A s \in Senders : xmt'[s] # "waiting"
            BY <3>4, <4>1, WokenType DEF RcvI
          <5>. QED  BY <5>1, WakeFacts
        <4>2. CASE ~Acked(local_ns, f.nr)
          <5>1. ~CanSend'
            BY <3>4, <4>2 DEF RcvI, CanSend, Acked
          <5>. QED  BY <5>1, WakeFacts
        <4>. QED  BY <4>1, <4>2
      <3>5. CASE RcvStrange(f)
        <4>1. CanSend' = CanSend
          BY <3>5 DEF RcvStrange, seqVars, CanSend, Acked
        <4>2. CASE CanSend
          <5>1. \A s \in Senders : xmt'[s] # "waiting"
            BY <3>5, <4>2, WokenType DEF RcvStrange
          <5>. QED  BY <5>1, WakeFacts
        <4>3. CASE ~CanSend
          BY <4>1, <4>3, WakeFacts
        <4>. QED  BY <4>2, <4>3
      <3>. QED  BY <2>8, <3>1, <3>2, <3>3, <3>4, <3>5 DEF dcp_process_pkt
    <2>9. CASE UNCHANGED linkVars
      <3>1. CanSend' = CanSend /\ xmt' = xmt
        BY <2>9 DEF linkVars, CanSend, Acked
      <3>. QED  BY <3>1, WakeFacts
    <2>. QED
      BY <2>1, <2>2, <2>3, <2>4, <2>5, <2>6, <2>7, <2>8, <2>9 DEF Next, LinkLocal
  <1>2. WakeStep => [\A s \in Senders :
                       CanSend' /\ xmt'[s] = "waiting"
                         => xmt[s] = "waiting" /\ (CanSend \/ state = "EXPECT_UA")]_linkVars
    BY DEF WakeStep
  <1>. QED  BY <1>1, <1>2, TypeCorrect, PTL DEF Spec, NoMissedWakeup
=============================================================================
