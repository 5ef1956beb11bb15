------------------------------- MODULE DcpMux -------------------------------
(***************************************************************************)
(* One interface of the DCP multiplexer (dcpmux/dcpmux.c): the link end of *)
(* DcpLink, the pool of dcp_worker() threads that read the HUA connection  *)
(* and call the datahandler, the transport in both directions and the      *)
(* telephone.                                                              *)
(*                                                                         *)
(* A worker reads a packet under poll_mutex and handles it after unlocking *)
(* it, so two workers may carry packets of one interface at a time and     *)
(* pass each other.  handle_hua_pkt() reads dcps->state twice without      *)
(* dcp_mutex.  The telephone and the HUA transport are external; they are  *)
(* modelled from what dcphdlc.c and dcphdlc.h expect of them.              *)
(***************************************************************************)
EXTENDS DcpLink

CONSTANTS
  Workers,         \* dcp_worker() threads (DCPMUX_MAXWRK is 5)
  Budget           \* bounds: how often the environment may take each step of
                   \* {"ifup", "ifdown", "restart", "key", "loss"}

ASSUME BudgetAssumption ==
  Budget \in [{"ifup", "ifdown", "restart", "key", "loss"} -> Nat] /\ Budget["key"] <= MaxSend

VARIABLES
  toSwitch,        \* frames on their way to the HUA connection
  wk,              \* what each worker is doing
  phone,           \* "down": sends DM; "up": link established; "dead": unplugged
  vr,              \* NS the telephone accepts next
  vs,              \* NS of the telephone's next I-frame
  plog,            \* payloads the telephone has accepted
  told,            \* last transport event given to the datahandler
  session,         \* history: how the link last came up
  spent            \* history: environment steps taken

muxVars == <<linkVars, toSwitch, wk, phone, vr, vs, plog, told, session, spent>>
phoneVars == <<phone, vr, vs, plog>>

NoFrame == UFrame("SABM")
\* A worker in handle_hua_pkt(): the packet it carries, the state it sampled
\* and the data it has for the datahandler.
At(pc, f, prev, data) == [pc |-> pc, frame |-> f, prev |-> prev, data |-> data]
Idle == At("idle", NoFrame, "DISABLE", Dummy)

Spend(k) == spent[k] < Budget[k] /\ spent' = [spent EXCEPT ![k] = @ + 1]

-----------------------------------------------------------------------------
(* The telephone and the transport (external).                             *)

\* A frame the telephone sends is queued, or lost when the transport is full.
PhoneSends(f) ==
  toSwitch' = IF Len(toSwitch) < Cap THEN Append(toSwitch, f) ELSE toSwitch

\* The telephone takes the next frame.  SABM (re)starts the link from zero;
\* an I-frame is accepted if it is the expected one and is answered with RR
\* in any case; it acts on no NR.
PhoneTakes ==
  /\ toPhone # <<>> /\ phone # "dead"
  /\ toPhone' = Tail(toPhone)
  /\ LET f == Head(toPhone) IN
       \/ /\ f.type = "SABM"
          /\ phone' = "up" /\ vr' = 0 /\ vs' = 0
          /\ PhoneSends(UFrame("UA"))
          /\ UNCHANGED plog
       \/ /\ f.type = "I" /\ phone = "up"
          /\ LET new == f.ns = vr IN
               /\ vr' = IF new THEN Incr(vr) ELSE vr
               /\ plog' = IF new /\ f.body # Dummy THEN Append(plog, f.body) ELSE plog
               /\ PhoneSends(RRFrame(vr'))
          /\ UNCHANGED <<phone, vs>>
       \/ /\ f.type = "RR" \/ (f.type = "I" /\ phone # "up")
          /\ UNCHANGED <<phoneVars, toSwitch>>
  /\ UNCHANGED <<state, seqVars, cntVars, xpkt, timerVars, xmt, accepted,
                 wk, told, session, spent>>

\* A telephone without a link asks for one.
PhoneDM ==
  /\ phone = "down" /\ Len(toSwitch) < Cap
  /\ PhoneSends(UFrame("DM"))
  /\ UNCHANGED <<linkVars, wk, phoneVars, told, session, spent>>

\* A key is pressed: an I-frame from the telephone.
PhoneKey ==
  /\ phone = "up" /\ Spend("key")
  /\ PhoneSends(IFrame(vs, vr, spent["key"] + 1)) /\ vs' = Incr(vs)
  /\ UNCHANGED <<linkVars, wk, phone, vr, plog, told, session>>

\* Power is cycled, or the cable is pulled for good.
PhoneRestart ==
  /\ phone # "dead" /\ Spend("restart")
  /\ phone' \in {"down", "dead"}
  /\ UNCHANGED <<linkVars, toSwitch, wk, vr, vs, plog, told, session>>

LoseFrame ==
  /\ Spend("loss")
  /\ \/ TakeFrame /\ UNCHANGED toSwitch
     \/ toSwitch # <<>> /\ toSwitch' = Tail(toSwitch) /\ UNCHANGED linkVars
  /\ UNCHANGED <<wk, phoneVars, told, session>>
-----------------------------------------------------------------------------
(* The workers.                                                            *)

\* dcp_worker(): read one packet under poll_mutex.
WorkerReads(w) ==
  /\ wk[w].pc = "idle" /\ toSwitch # <<>>
  /\ wk' = [wk EXCEPT ![w] = At("got", Head(toSwitch), "DISABLE", Dummy)]
  /\ toSwitch' = Tail(toSwitch)
  /\ UNCHANGED <<linkVars, phoneVars, told, session, spent>>

\* handle_hua_pkt(): prevstate = dcps->state, without dcp_mutex.
WorkerSamples(w) ==
  /\ wk[w].pc = "got"
  /\ wk' = [wk EXCEPT ![w] = At("sampled", wk[w].frame, state, Dummy)]
  /\ UNCHANGED <<linkVars, toSwitch, phoneVars, told, session, spent>>

\* Both ends start a session together: the telephone expects frame 0 and
\* nothing of an earlier attempt is under way (no SABM, no other UA, no
\* acknowledgement of an I-frame).
Settled(w) ==
  /\ phone = "up" /\ vr = 0
  /\ \A i \in DOMAIN toPhone : toPhone[i].type # "SABM"
  /\ \A i \in DOMAIN toSwitch : toSwitch[i].type # "UA" /\ toSwitch[i].nr = 0
  /\ \A v \in Workers \ {w} : wk[v].pc \in {"idle", "handled"}

\* dcp_handle_data() under dcp_mutex.
dcp_handle_data(w) ==
  /\ wk[w].pc = "sampled"
  /\ dcp_process_pkt(wk[w].frame)
  /\ wk' = [wk EXCEPT ![w] = At("handled", NoFrame, wk[w].prev, DataOf(wk[w].frame))]
  /\ session' = IF state = "EXPECT_UA" /\ state' = "LINK_UP"
                  THEN [clean |-> Settled(w), base |-> accepted] ELSE session
  /\ UNCHANGED <<toSwitch, phoneVars, told, spent>>

\* The rest of handle_hua_pkt(): data goes to the datahandler; without data
\* the state is read again and a link that has come up is reported.
WorkerReports(w) ==
  /\ wk[w].pc = "handled"
  /\ told' = IF wk[w].data = Dummy /\ wk[w].prev # "LINK_UP" /\ state = "LINK_UP"
               THEN "UP" ELSE told
  /\ wk' = [wk EXCEPT ![w] = Idle]
  /\ UNCHANGED <<linkVars, toSwitch, phoneVars, session, spent>>
-----------------------------------------------------------------------------
\* dcpmux_ifup() and dcpmux_ifdown().
dcpmux_ifup ==
  /\ Spend("ifup") /\ dcp_enable_link
  /\ UNCHANGED <<toSwitch, wk, phoneVars, told, session>>

\* Mutant of dcpmux_ifdown(): the timer is left running.
dcpmux_ifdown_TimerRuns ==
  /\ Spend("ifdown") /\ state # "DISABLE" /\ state' = "DISABLE"
  /\ UNCHANGED <<seqVars, cntVars, xpkt, timerVars, xmt, toPhone, accepted>>
  /\ UNCHANGED <<toSwitch, wk, phoneVars, told, session>>

dcpmux_ifdown ==
  /\ Spend("ifdown") /\ state # "DISABLE" /\ dcp_disable_link
  /\ UNCHANGED <<toSwitch, wk, phoneVars, told, session>>

\* Senders and the timer, unchanged from DcpLink.
LinkThreads ==
  /\ \/ \E s \in Senders : dcp_xmt(s) \/ SpuriousWakeup(s) \/ XmtTimeout(s)
     \/ Expire \/ dcp_timeout_hndlr
  /\ UNCHANGED <<toSwitch, wk, phoneVars, told, session, spent>>

MuxInit ==
  /\ LinkInit
  /\ toSwitch = <<>> /\ wk = [w \in Workers |-> Idle]
  /\ phone \in {"down", "up"} /\ vr \in SeqNums /\ vs = 0 /\ plog = <<>>
  /\ (phone = "down" => vr = 0)
  /\ told = "none"
  /\ session = [clean |-> FALSE, base |-> 0]
  /\ spent = [k \in DOMAIN Budget |-> 0]

MuxNext ==
  \/ PhoneTakes \/ PhoneDM \/ PhoneKey \/ PhoneRestart \/ LoseFrame
  \/ \E w \in Workers : WorkerReads(w) \/ WorkerSamples(w)
                          \/ dcp_handle_data(w) \/ WorkerReports(w)
  \/ dcpmux_ifup \/ dcpmux_ifdown \/ LinkThreads

MuxSpec == MuxInit /\ [][MuxNext]_muxVars

\* Fairness: the worker threads, the timer and the handler threads it starts
\* are scheduled; a waiting sender comes back; the telephone takes what it is
\* sent and keeps asking for a link.  Nobody has to press a key, pull a cable,
\* send a payload or operate an interface, and only Budget["loss"] frames are
\* lost.
FairMux ==
  /\ MuxSpec
  /\ \A w \in Workers : WF_muxVars(WorkerReads(w) \/ WorkerSamples(w)
                                       \/ dcp_handle_data(w) \/ WorkerReports(w))
  /\ WF_muxVars(Expire /\ UNCHANGED <<toSwitch, wk, phoneVars, told, session, spent>>)
  /\ WF_muxVars(dcp_timeout_hndlr
                   /\ UNCHANGED <<toSwitch, wk, phoneVars, told, session, spent>>)
  /\ WF_muxVars(PhoneTakes) /\ WF_muxVars(PhoneDM)
-----------------------------------------------------------------------------
(* Properties.                                                             *)

\* Type invariant of the multiplexer's own state and its surroundings.
MuxTypeOK ==
  /\ TypeOK
  /\ toSwitch \in Seq(Frames)
  /\ wk \in [Workers -> [pc : {"idle", "got", "sampled", "handled"}, frame : Frames,
                        prev : States, data : Bodies]]
  /\ phone \in {"down", "up", "dead"} /\ vr \in SeqNums /\ vs \in SeqNums
  /\ plog \in Seq(1 .. MaxSend) /\ told \in {"none", "UP"}
  /\ session \in [clean : BOOLEAN, base : 0 .. MaxSend]

\* The link inside the multiplexer behaves as DcpLink says, so everything
\* proved of DcpLink for an arbitrary far end holds here.
ImplementsLink == Spec

\* What dcpmux_send() accepts reaches the telephone in order and at most
\* once, across retransmissions, stale acknowledgements, links that are given
\* up and established again, and workers that pass each other.
Service == INSTANCE OrderedService WITH delivered <- plog
InOrderOnce == Service!Spec

\* In a session that came up cleanly (Settled: the UA answers the last SABM and
\* nothing of an earlier attempt is under way) the switch takes its last frame
\* for acknowledged only when the telephone has every payload accepted in that
\* session: dcp_process_rr() is not misled by a stale RR, nor by sequence
\* numbers that wrap.
AckedIsDelivered ==
  CanSend /\ session.clean =>
    \A n \in session.base + 1 .. accepted : \E i \in DOMAIN plog : plog[i] = n

\* A telephone that is gone is noticed once the link has sent it an I-frame: the
\* timer handler's two counters bring a link that is up down after a bounded
\* number of attempts.  (A link that never sent one has an empty xpkt, which
\* resend_iframe() neither sends nor times: UpIsWatched exempts it too.  There
\* one stale frame handled by a second worker is enough to leave the link up
\* for ever with no timer.)
DeadPhoneIsNoticed == (phone = "dead" /\ xpkt # NoPkt) ~> (state # "LINK_UP")

\* As long as packets are handled one at a time (one worker), a payload accepted
\* in a session that came up cleanly is delivered, or the session ends: the link
\* does not stay up for ever over a payload that the telephone does not have.
InSession(n) ==
  state = "LINK_UP" /\ session.clean /\ session.base < n /\ n <= accepted
AcceptedIsSettled ==
  \A n \in 1 .. MaxSend :
    InSession(n) ~> (\E i \in DOMAIN plog : plog[i] = n) \/ ~InSession(n)

\* dcpmux_ifup(): "dcpmux will periodically attempt to bring up the dcp link":
\* an enabled interface whose link is not up does not wait for ever.
BringUpIsRepeated == (state = "EXPECT_UA") ~> (state # "EXPECT_UA")
=============================================================================
