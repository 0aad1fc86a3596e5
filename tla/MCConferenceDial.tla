-------------------------- MODULE MCConferenceDial --------------------------
(* Small instances of ConferenceDial for TLC: the call flows of the runs.   *)
EXTENDS ConferenceDial, TLC

DialStage       == [kind |-> "dial", targets |-> 1]
SimulcallStage  == [kind |-> "simulcall", targets |-> 2]
RoundRobinStage == [kind |-> "round_robin", targets |-> 1]

OneDial       == <<DialStage>>
TwoDials      == <<DialStage, DialStage>>
ThreeDials    == <<DialStage, DialStage, DialStage>>
OneSimulcall  == <<SimulcallStage>>
TwoRoundRobin == <<RoundRobinStage, RoundRobinStage>>
SimulcallDial == <<SimulcallStage, DialStage>>

Symmetry == Permutations(Sids)

\* The part of the state space in which no agent answers and the caller holds.
NobodyAnswers == Joined = {} /\ caller.at # "ended"
=============================================================================
