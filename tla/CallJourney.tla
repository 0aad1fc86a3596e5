------------------------------ MODULE CallJourney ------------------------------
(***************************************************************************)
(* What a call flow promises to a caller, whatever the flow says: a call   *)
(* goes through the flow, rings agents, is talked to, or leaves a message; *)
(* it never goes back from a talk to the flow, nor from a message; it does *)
(* not ring more than Limit times, and it always comes to an end.          *)
(* FlowRouter implements it.                                               *)
(***************************************************************************)
EXTENDS Naturals

CONSTANT Limit   \* how often agents may be rung

VARIABLES phase, rung

vars == <<phase, rung>>

Start   == phase = "none" /\ phase' = "flow" /\ UNCHANGED rung
Ring    == phase = "flow" /\ rung < Limit /\ phase' = "ringing" /\ rung' = rung + 1
Miss    == phase = "ringing" /\ phase' = "flow" /\ UNCHANGED rung
Answer  == phase = "ringing" /\ phase' = "talking" /\ UNCHANGED rung
\* The next destination is rung at once, without a step of the flow between the two.
RingOn  == phase = "ringing" /\ rung < Limit /\ rung' = rung + 1 /\ UNCHANGED phase
Message == phase \in {"flow", "ringing"} /\ phase' = "message" /\ UNCHANGED rung
End     == phase \notin {"none", "ended"} /\ phase' = "ended" /\ UNCHANGED rung

Proceed == Ring \/ Miss \/ Answer \/ RingOn \/ Message \/ End

Init == phase = "none" /\ rung = 0
Next == Start \/ Proceed
Spec == Init /\ [][Next]_vars /\ WF_vars(Proceed)
=============================================================================
