------------------------------ MODULE DcpLink ------------------------------
(***************************************************************************)
(* The switch end of one DCP data link (dcpmux/dcphdlc.c): a stop-and-wait *)
(* HDLC subset with one frame outstanding, a retransmit/keepalive timer    *)
(* and any number of threads that wait in dcp_xmt() for the link to become *)
(* free.  Every function that runs under dcp_mutex is one action; a thread *)
(* gives the mutex up in pthread_cond_timedwait() only.                    *)
(*                                                                         *)
(* Specification Spec puts no condition on the far end: any frame may      *)
(* arrive at any time and written frames may vanish.  What holds here      *)
(* holds for every telephone and every transport.  DcpMux composes the     *)
(* link with its worker threads, the transport and the telephone.          *)
(***************************************************************************)
EXTENDS Integers, Sequences

CONSTANTS
  SeqMod,          \* NSNR_MASK + 1, the sequence number space (8 in the code)
  MaxIretr,        \* MAX_IRETR
  MaxKeepalives,   \* MAX_KEEPALIVES
  Senders,         \* threads that call dcp_xmt()
  MaxSend,         \* bound: payloads accepted by dcp_xmt()
  MaxExpired,      \* bound: timer handler threads that wait for dcp_mutex
  Cap              \* bound: frames the transport holds in one direction

ASSUME SeqModAssumption == SeqMod \in Nat /\ SeqMod >= 2
ASSUME LimitAssumption == MaxIretr \in Nat /\ MaxKeepalives \in Nat
ASSUME BoundAssumption == MaxSend \in Nat /\ MaxExpired \in Nat /\ Cap \in Nat

VARIABLES
  state,           \* enum dcp_switch_state
  remote_nr,       \* last NR received: the frame the far end wants next
  remote_ns,       \* NS of the last I-frame received
  local_ns,        \* NS of the last new I-frame sent
  iretr_cnt, keepalive_cnt,
  xpkt,            \* body of the packet kept for retransmission
  armed,           \* the POSIX timer `retransmit' is running
  expired,         \* SIGEV_THREAD threads started, not yet past mutex_lock()
  xmt,             \* where each sender thread is in dcp_xmt()
  toPhone,         \* frames written and not yet taken by the far end
  accepted         \* payloads dcp_xmt() has put in xpkt; numbers them 1, 2, ...

seqVars   == <<remote_nr, remote_ns, local_ns>>
cntVars   == <<iretr_cnt, keepalive_cnt>>
timerVars == <<armed, expired>>
linkVars  == <<state, remote_nr, remote_ns, local_ns, iretr_cnt, keepalive_cnt,
               xpkt, armed, expired, xmt, toPhone, accepted>>

States == {"DISABLE", "RESET", "EXPECT_UA", "LINK_UP"}

NoPkt == -1        \* xpkt.pktlen = 0: nothing has been sent yet
Dummy == 0         \* the body of a keepalive
Bodies == Dummy .. MaxSend
SeqNums == 0 .. SeqMod - 1
Incr(n) == (n + 1) % SeqMod          \* (n + 1) & NSNR_MASK

(* Frames.  A body other than Dummy is the number of a payload.            *)
UFrame(t)         == [type |-> t, ns |-> 0, nr |-> 0, body |-> Dummy]
RRFrame(nr)       == [type |-> "RR", ns |-> 0, nr |-> nr, body |-> Dummy]
IFrame(ns, nr, b) == [type |-> "I", ns |-> ns, nr |-> nr, body |-> b]
Frames == [type : {"SABM", "UA", "DM", "RR", "I"}, ns : SeqNums, nr : SeqNums,
           body : Bodies]
\* The frames a far end can send.
AnyFrame == {UFrame(t) : t \in {"SABM", "UA", "DM"}}
              \cup {RRFrame(nr) : nr \in SeqNums}
              \cup {IFrame(f[1], f[2], b) : f \in SeqNums \X SeqNums, b \in Bodies}

-----------------------------------------------------------------------------
(* Helpers that run inside the actions.                                    *)

\* write_packet(): the transport takes the frame, or the write fails.
Wrote(f) == Len(toPhone) < Cap /\ toPhone' = Append(toPhone, f)
NotWritten == UNCHANGED toPhone
write_packet(f) == Wrote(f) \/ NotWritten

\* The frame outstanding, if any, has been acknowledged: what dcp_cansend(),
\* dcp_process_rr() and the timer handler test.
Acked(ns, nr) == Incr(ns) = nr
CanSend == state = "LINK_UP" /\ Acked(local_ns, remote_nr)

\* pthread_cond_broadcast(&cansend_cond)
Woken == [s \in Senders |-> IF xmt[s] = "waiting" THEN "woken" ELSE xmt[s]]

\* Mutant of resend_iframe(): the timer is set after a successful write only.
resend_iframe_ArmsAfterWrite(ns, body) ==
  \/ NotWritten /\ UNCHANGED armed
  \/ body # NoPkt /\ Wrote(IFrame(ns, Incr(remote_ns), body)) /\ armed' = TRUE

\* resend_iframe(): NS and NR are written into xpkt afresh, the timer is set
\* before the write and stays set when the write fails.
resend_iframe(ns, body) ==
  IF body = NoPkt
    THEN NotWritten /\ UNCHANGED armed
    ELSE write_packet(IFrame(ns, Incr(remote_ns), body)) /\ armed' = TRUE

\* dcp_reset_nsnr() with the counters its two callers clear.
ClearCounts ==
  /\ remote_nr' = 0 /\ remote_ns' = 0 /\ local_ns' = SeqMod - 1
  /\ iretr_cnt' = 0 /\ keepalive_cnt' = 0

dcp_reset_state == state' = "RESET" /\ ClearCounts

\* dcp_send_sabm(): a failed write leaves the link in RESET.
dcp_send_sabm ==
  /\ ClearCounts
  /\ \/ Wrote(UFrame("SABM")) /\ state' = "EXPECT_UA"
     \/ NotWritten /\ state' = "RESET"

\* Mutants of RetryOrGiveUp: the limit tested before the increment, a retry that
\* takes a new sequence number, and one that is not counted.
RetryOrGiveUp_Late(nr) ==
  IF iretr_cnt > MaxIretr
    THEN dcp_reset_state /\ NotWritten /\ UNCHANGED armed
    ELSE /\ iretr_cnt' = iretr_cnt + 1 /\ remote_nr' = nr
         /\ resend_iframe(local_ns, xpkt)
         /\ UNCHANGED <<state, remote_ns, local_ns, keepalive_cnt>>
RetryOrGiveUp_NewNumber(nr) ==
  IF iretr_cnt + 1 > MaxIretr
    THEN dcp_reset_state /\ NotWritten /\ UNCHANGED armed
    ELSE /\ iretr_cnt' = iretr_cnt + 1 /\ remote_nr' = nr
         /\ local_ns' = Incr(local_ns) /\ resend_iframe(Incr(local_ns), xpkt)
         /\ UNCHANGED <<state, remote_ns, keepalive_cnt>>
RetryOrGiveUp_Uncounted(nr) ==
  /\ remote_nr' = nr /\ resend_iframe(local_ns, xpkt)
  /\ UNCHANGED <<state, remote_ns, local_ns, iretr_cnt, keepalive_cnt>>

\* The retry both dcp_process_rr() and the timer handler make when the
\* outstanding frame is not acknowledged; nr is the last NR received.
RetryOrGiveUp(nr) ==
  IF iretr_cnt + 1 > MaxIretr
    THEN dcp_reset_state /\ NotWritten /\ UNCHANGED armed
    ELSE /\ iretr_cnt' = iretr_cnt + 1 /\ remote_nr' = nr
         /\ resend_iframe(local_ns, xpkt)
         /\ UNCHANGED <<state, remote_ns, local_ns, keepalive_cnt>>
-----------------------------------------------------------------------------
(* Operator actions.                                                       *)

dcp_enable_link ==
  /\ dcp_send_sabm
  /\ UNCHANGED <<xpkt, armed, expired, xmt, accepted>>

dcp_disable_link ==
  /\ state' = "DISABLE" /\ armed' = FALSE
  /\ UNCHANGED <<seqVars, cntVars, xpkt, expired, xmt, toPhone, accepted>>

-----------------------------------------------------------------------------
(* Received frames: dcp_process_pkt() as dcp_handle_data() calls it.       *)

\* Frames the switch in dcp_process_pkt() has no case for, and every frame
\* while the link is administratively down.
Strange(f) ==
  \/ state = "DISABLE"
  \/ state = "RESET" /\ f.type # "DM"
  \/ state = "EXPECT_UA" /\ f.type \notin {"UA", "DM"}
  \/ state = "LINK_UP" /\ f.type \in {"SABM", "UA"}

\* DM asks for a new link in every enabled state.
RcvDM(f) ==
  /\ f.type = "DM" /\ state # "DISABLE"
  /\ dcp_send_sabm
  /\ UNCHANGED <<xpkt, armed, expired, xmt, accepted>>

RcvUA(f) ==
  /\ f.type = "UA" /\ state = "EXPECT_UA"
  /\ state' = "LINK_UP" /\ armed' = TRUE
  /\ UNCHANGED <<seqVars, cntVars, xpkt, expired, xmt, toPhone, accepted>>

\* dcp_process_rr(), then the broadcast when the link is free.
RcvRR(f) ==
  /\ f.type = "RR" /\ state = "LINK_UP"
  /\ IF Acked(local_ns, f.nr)
       THEN /\ remote_nr' = f.nr
            /\ iretr_cnt' = 0 /\ keepalive_cnt' = 0 /\ armed' = TRUE
            /\ xmt' = Woken
            /\ UNCHANGED <<state, remote_ns, local_ns, toPhone>>
       ELSE RetryOrGiveUp(f.nr) /\ UNCHANGED xmt
  /\ UNCHANGED <<xpkt, expired, accepted>>

\* Mutant of RcvI: no broadcast after a piggybacked acknowledgement.
RcvI_NoBroadcast(f) ==
  /\ f.type = "I" /\ state = "LINK_UP"
  /\ remote_nr' = f.nr /\ remote_ns' = f.ns /\ armed' = TRUE
  /\ write_packet(RRFrame(Incr(f.ns)))
  /\ UNCHANGED <<state, local_ns, cntVars, xpkt, expired, xmt, accepted>>

\* dcp_ack_iframe(), then the broadcast when the NR it carried freed the link.
RcvI(f) ==
  /\ f.type = "I" /\ state = "LINK_UP"
  /\ remote_nr' = f.nr /\ remote_ns' = f.ns /\ armed' = TRUE
  /\ write_packet(RRFrame(Incr(f.ns)))
  /\ xmt' = IF Acked(local_ns, f.nr) THEN Woken ELSE xmt
  /\ UNCHANGED <<state, local_ns, cntVars, xpkt, expired, accepted>>

\* strange_frame() only logs, but on a link that is up and free the broadcast at
\* the end of dcp_process_pkt() follows.
RcvStrange(f) ==
  /\ Strange(f)
  /\ xmt' = IF CanSend THEN Woken ELSE xmt
  /\ UNCHANGED <<state, seqVars, cntVars, xpkt, timerVars, toPhone, accepted>>

dcp_process_pkt(f) ==
  RcvDM(f) \/ RcvUA(f) \/ RcvRR(f) \/ RcvI(f) \/ RcvStrange(f)

\* What dcp_handle_data() hands to its caller: the data of every I-frame,
\* whatever dcp_process_pkt() made of it, unless the link is disabled.
\* (The state is the one at mutex_lock(): no frame moves the link into or
\* out of DISABLE.)
DataOf(f) == IF f.type = "I" /\ state # "DISABLE" THEN f.body ELSE Dummy
-----------------------------------------------------------------------------
(* dcp_xmt().                                                              *)

\* The tail of dcp_xmt(): a new I-frame in xpkt, sent for the first time.
SendNew(s) ==
  /\ accepted < MaxSend
  /\ accepted' = accepted + 1 /\ xpkt' = accepted + 1
  /\ local_ns' = Incr(local_ns)
  /\ resend_iframe(Incr(local_ns), accepted + 1)
  /\ xmt' = [xmt EXCEPT ![s] = "idle"]
  /\ UNCHANGED <<state, remote_nr, remote_ns, cntVars, expired>>

Goes(s, where) ==
  /\ xmt' = [xmt EXCEPT ![s] = where]
  /\ UNCHANGED <<state, seqVars, cntVars, xpkt, timerVars, toPhone, accepted>>

\* Mutant of dcp_xmt(): a link that is up is taken for free.
dcp_xmt_NotWaiting(s) ==
  /\ xmt[s] \in {"idle", "woken"}
  /\ \/ state = "LINK_UP" /\ SendNew(s)
     \/ state # "LINK_UP" /\ xmt[s] = "woken" /\ Goes(s, "idle")

\* The loop in dcp_xmt(): on entry, and after every wakeup, dcp_cansend()
\* decides between sending, waiting (again) and giving up with DCP_ERR.
dcp_xmt(s) ==
  /\ xmt[s] \in {"idle", "woken"}
  /\ \/ CanSend /\ SendNew(s)
     \/ state = "LINK_UP" /\ ~CanSend /\ Goes(s, "waiting")
     \/ state # "LINK_UP" /\ xmt[s] = "woken" /\ Goes(s, "idle")

\* pthread_cond_timedwait() comes back by itself, or the time is up and the
\* caller gets DCP_BUSY.
SpuriousWakeup(s) == xmt[s] = "waiting" /\ Goes(s, "woken")
XmtTimeout(s) == xmt[s] = "waiting" /\ Goes(s, "idle")
-----------------------------------------------------------------------------
(* The timer.                                                              *)

Expire ==
  /\ armed /\ expired < MaxExpired
  /\ armed' = FALSE /\ expired' = expired + 1
  /\ UNCHANGED <<state, seqVars, cntVars, xpkt, xmt, toPhone, accepted>>

\* send_dummy(): its dcp_cansend() always agrees with the caller's test.
send_dummy ==
  /\ xpkt' = Dummy /\ local_ns' = Incr(local_ns)
  /\ resend_iframe(Incr(local_ns), Dummy)

\* Mutant of dcp_timeout_hndlr(): only the keepalive, no retransmission.
dcp_timeout_hndlr_KeepaliveOnly ==
  /\ expired > 0 /\ expired' = expired - 1
  /\ \/ /\ armed \/ ~CanSend
        /\ UNCHANGED <<state, seqVars, cntVars, xpkt, armed, toPhone>>
     \/ /\ ~armed /\ CanSend
        /\ IF keepalive_cnt + 1 > MaxKeepalives
             THEN dcp_reset_state /\ UNCHANGED <<xpkt, armed, toPhone>>
             ELSE /\ keepalive_cnt' = keepalive_cnt + 1
                  /\ send_dummy
                  /\ UNCHANGED <<state, remote_nr, remote_ns, iretr_cnt>>
  /\ UNCHANGED <<xmt, accepted>>

dcp_timeout_hndlr ==
  /\ expired > 0 /\ expired' = expired - 1
  /\ \/ /\ armed \/ state # "LINK_UP"
        /\ UNCHANGED <<state, seqVars, cntVars, xpkt, armed, toPhone>>
     \/ /\ ~armed /\ state = "LINK_UP" /\ ~CanSend
        /\ RetryOrGiveUp(remote_nr) /\ UNCHANGED xpkt
     \/ /\ ~armed /\ CanSend
        /\ IF keepalive_cnt + 1 > MaxKeepalives
             THEN dcp_reset_state /\ UNCHANGED <<xpkt, armed, toPhone>>
             ELSE /\ keepalive_cnt' = keepalive_cnt + 1
                  /\ send_dummy
                  /\ UNCHANGED <<state, remote_nr, remote_ns, iretr_cnt>>
  /\ UNCHANGED <<xmt, accepted>>
-----------------------------------------------------------------------------
\* dcp_init(): the state structure is zeroed, then dcp_reset_state() runs and
\* the link is disabled.
LinkInit ==
  /\ state = "DISABLE"
  /\ remote_nr = 0 /\ remote_ns = 0 /\ local_ns = SeqMod - 1
  /\ iretr_cnt = 0 /\ keepalive_cnt = 0
  /\ xpkt = NoPkt /\ armed = FALSE /\ expired = 0
  /\ xmt = [s \in Senders |-> "idle"]
  /\ toPhone = <<>> /\ accepted = 0

\* What the endpoint does without a frame.
LinkLocal ==
  \/ dcp_enable_link \/ dcp_disable_link
  \/ \E s \in Senders : dcp_xmt(s) \/ SpuriousWakeup(s) \/ XmtTimeout(s)
  \/ Expire \/ dcp_timeout_hndlr

\* The unconstrained far end takes, or loses, what was written.
TakeFrame ==
  /\ toPhone # <<>> /\ toPhone' = Tail(toPhone)
  /\ UNCHANGED <<state, seqVars, cntVars, xpkt, timerVars, xmt, accepted>>

Next == LinkLocal \/ TakeFrame \/ \E f \in AnyFrame : dcp_process_pkt(f)

Spec == LinkInit /\ [][Next]_linkVars
-----------------------------------------------------------------------------
(* Properties.                                                             *)

\* Type invariant of the link state kept by struct dcp_hdlc_state.
TypeOK ==
  /\ state \in States
  /\ remote_nr \in SeqNums /\ remote_ns \in SeqNums /\ local_ns \in SeqNums
  /\ iretr_cnt \in 0 .. MaxIretr /\ keepalive_cnt \in 0 .. MaxKeepalives
  /\ xpkt \in Bodies \cup {NoPkt}
  /\ armed \in BOOLEAN /\ expired \in 0 .. MaxExpired
  /\ xmt \in [Senders -> {"idle", "waiting", "woken"}]
  /\ toPhone \in Seq(Frames)
  /\ accepted \in 0 .. MaxSend

\* A link that is up is being watched: whatever frames arrive, and however
\* late a timer thread gets dcp_mutex, either the timer runs or a handler
\* thread is on its way.  Only a link that never sent a frame is exempt:
\* resend_iframe() sets no timer when xpkt is empty.
UpIsWatched ==
  state = "LINK_UP" /\ xpkt # NoPkt => armed \/ expired > 0

\* No wakeup is missed: a thread asleep in dcp_xmt() while the link is free has
\* slept there ever since the UA brought the link up free, which is the one
\* step that frees a link without a broadcast (dcp_process_pkt()).  No
\* acknowledgement, RR or piggybacked, at any sequence number, frees a link
\* that is up and leaves a thread asleep, and no thread goes to sleep on a free
\* link.
NoMissedWakeup ==
  [][\A s \in Senders :
       CanSend' /\ xmt'[s] = "waiting"
         => xmt[s] = "waiting" /\ (CanSend \/ state = "EXPECT_UA")]_linkVars
=============================================================================
