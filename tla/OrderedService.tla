--------------------------- MODULE OrderedService ---------------------------
(***************************************************************************)
(* What dcpmux_send() promises for one interface: payloads are numbered    *)
(* in the order they are accepted and reach the telephone in that order,   *)
(* each at most once.  A payload may be lost with the link it was sent on; *)
(* it is never delivered late, twice or out of turn.                       *)
(***************************************************************************)
EXTENDS Naturals, Sequences

VARIABLES accepted,    \* number of payloads accepted so far
          delivered    \* the payloads delivered, in order of delivery

vars == <<accepted, delivered>>

LastDelivered == IF delivered = <<>> THEN 0 ELSE delivered[Len(delivered)]

Init == accepted = 0 /\ delivered = <<>>

Accept == accepted' = accepted + 1 /\ UNCHANGED delivered

Deliver ==
  /\ \E n \in LastDelivered + 1 .. accepted : delivered' = Append(delivered, n)
  /\ UNCHANGED accepted

Next == Accept \/ Deliver

Spec == Init /\ [][Next]_vars
=============================================================================
