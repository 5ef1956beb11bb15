-------------------------------- MODULE Rpc --------------------------------
(***************************************************************************)
(* What yxt_dispatch() promises: a call is asked of the engine at most     *)
(* once and returns at most once, with the answer to that very call, or    *)
(* with none when the request could not be sent.                           *)
(***************************************************************************)
EXTENDS Naturals

CONSTANTS Calls, Nil

VARIABLES asked,       \* calls the engine has been asked
          answers,     \* calls the engine has answered
          result       \* what each returned call returned; "none" before

vars == <<asked, answers, result>>

Init == asked = {} /\ answers = {} /\ result = [c \in Calls |-> "none"]

Ask(c) == c \notin asked /\ asked' = asked \cup {c} /\ UNCHANGED <<answers, result>>

Answer(c) ==
  /\ c \in asked \ answers
  /\ answers' = answers \cup {c} /\ UNCHANGED <<asked, result>>

Return(c) ==
  /\ result[c] = "none"
  /\ \/ c \in answers /\ result' = [result EXCEPT ![c] = c]
     \/ c \notin asked /\ result' = [result EXCEPT ![c] = Nil]
  /\ UNCHANGED <<asked, answers>>

Next == \E c \in Calls : Ask(c) \/ Answer(c) \/ Return(c)

Spec == Init /\ [][Next]_vars
=============================================================================
