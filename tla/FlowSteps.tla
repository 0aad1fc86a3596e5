------------------------------- MODULE FlowSteps -------------------------------
(* The steps a call flow is made of, as far as they decide where a call goes. *)

\* A step; `lists' are the step lists of its options or branches, in their order,
\* `other' those for invalid input or any other time.
Step(type)           == [type |-> type, dests |-> <<>>, keys |-> <<>>, lists |-> <<>>, other |-> <<>>]
Hunting(type, dests) == [Step(type) EXCEPT !.dests = dests]
Branching(type, keys, lists, other) ==
  [Step(type) EXCEPT !.keys = keys, !.lists = lists, !.other = other]
=============================================================================
