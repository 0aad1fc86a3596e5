------------------------------- MODULE Telephony -------------------------------
(***************************************************************************)
(* The parts of the system around a conversation that share no variable:   *)
(* an inbound call on its way through a call flow, its rows in the log,    *)
(* text messages, and the presence of a user.  A behaviour is one of one   *)
(* of them; scope says of which.  Small instances for TLC are at the end.  *)
(***************************************************************************)
EXTENDS FlowSteps, Naturals, Sequences

CONSTANTS
  Messages,                                          \* SmsDelivery
  Sockets, Requests, Tenants, MaxOpens, InFlight,    \* Presence
  Flows, Users, Times, MaxEdits, MaxRung, RowFails,  \* FlowRouter
  Last, Recorded                                     \* CallLog

ASSUME BoundsAssumption ==
  MaxOpens \in Nat /\ MaxEdits \in Nat /\ MaxRung \in Nat /\ Last \in Nat

\* The steps of the flows and of the lists in them that a call can get to.
StepsOf(list) == {list[i] : i \in DOMAIN list}
TopSteps      == UNION {StepsOf(steps) : steps \in Flows}
ListsOf(s)    == {s.lists[k] : k \in DOMAIN s.keys} \cup {s.other}
AllSteps      == TopSteps \cup UNION {StepsOf(list) : list \in UNION {ListsOf(s) : s \in TopSteps}}

\* Lists are lists, of steps that have a list of destinations (which may be empty: the
\* DTOs of the steps' configs ask for more, but config is not validated).
ASSUME FlowsAssumption ==
  /\ Flows \subseteq Seq(AllSteps)
  /\ \A s \in TopSteps : ListsOf(s) \subseteq Seq(AllSteps) /\ DOMAIN s.keys \subseteq Nat
  /\ \A s \in AllSteps : s.dests \in Seq(STRING)

ASSUME RecordedAssumption == Recorded \subseteq SUBSET (0 .. Last + 1)

VARIABLES
  scope,
  sms, send, carrier, posted, handlers, screen,
  socket, key, roster, isOnline, told, tasks, opens, called,
  flow, edits, caller, row, meta, rung, by,
  rows, jobs, recordings, logEdits

Sms      == INSTANCE SmsDelivery
Presence == INSTANCE Presence
Router   == INSTANCE FlowRouter
Log      == INSTANCE CallLog WITH edits <- logEdits
Journey  == INSTANCE CallJourney WITH Limit <- MaxRung, phase <- Router!Phase

smsVars == <<sms, send, carrier, posted, handlers, screen>>
presenceVars == <<socket, key, roster, isOnline, told, tasks, opens, called>>
routerVars == <<flow, edits, caller, row, meta, rung, by>>
logVars == <<rows, jobs, recordings, logEdits>>

vars == <<scope, smsVars, presenceVars, routerVars, logVars>>

\* The flow and the recordings of a call that is not looked at do not matter.
Init ==
  /\ scope \in {"sms", "presence", "router", "log"}
  /\ Sms!Init /\ Presence!Init /\ Router!Init /\ Log!Init
  /\ scope # "router" => flow.steps = CHOOSE steps \in Flows : TRUE
  /\ scope # "log" => recordings = CHOOSE recs \in Recorded : TRUE

SmsNext ==
  /\ scope = "sms" /\ Sms!Next
  /\ UNCHANGED <<scope, presenceVars, routerVars, logVars>>
PresenceNext ==
  /\ scope = "presence" /\ Presence!Next
  /\ UNCHANGED <<scope, smsVars, routerVars, logVars>>
RouterNext ==
  /\ scope = "router" /\ Router!Next
  /\ UNCHANGED <<scope, smsVars, presenceVars, logVars>>
LogNext ==
  /\ scope = "log" /\ Log!Next
  /\ UNCHANGED <<scope, smsVars, presenceVars, routerVars>>

Next == SmsNext \/ PresenceNext \/ RouterNext \/ LogNext

\* The process runs on, Redis forgets, Twilio asks for the next document, a caller whom
\* nobody is called for hangs up in the end.
Handlers == /\ scope = "presence" /\ Presence!Handler
            /\ UNCHANGED <<scope, smsVars, routerVars, logVars>>
Ages     == /\ scope = "presence" /\ Presence!Age
            /\ UNCHANGED <<scope, smsVars, routerVars, logVars>>
Goes     == /\ scope = "router" /\ Router!Progress
            /\ UNCHANGED <<scope, smsVars, presenceVars, logVars>>
GivesUp  == /\ scope = "router" /\ Router!GivesUp
            /\ UNCHANGED <<scope, smsVars, presenceVars, logVars>>
Works    == /\ scope = "log" /\ Log!Work
            /\ UNCHANGED <<scope, smsVars, presenceVars, routerVars>>

Spec ==
  /\ Init /\ [][Next]_vars
  /\ WF_vars(Handlers) /\ WF_vars(Ages) /\ WF_vars(Goes) /\ WF_vars(GivesUp) /\ WF_vars(Works)

-----------------------------------------------------------------------------
(* Each is stated and commented in the module of its component. *)

\* The rows, requests and handlers of every component have their types.
TypeOK == Sms!TypeOK /\ Presence!TypeOK /\ Router!TypeOK /\ Log!TypeOK

\* sms.service.ts: a message shown as delivered has a time of delivery.
DeliveredHasTime == Sms!DeliveredHasTime

\* presence.service.ts: a user who stays away is in the end no longer among the online users.
AbsentGoesOffline == Presence!AbsentGoesOffline

\* twiml-generator.service.ts: a call is credited to the agent who has answered it.
CreditedToAnswerer == Router!CreditedToAnswerer

\* twiml-generator.service.ts, twilio-webhook.controller.ts: every call goes the way that
\* CallJourney promises, to its end.
ImplementsJourney == Journey!Spec

\* transcription.service.ts: a transcription that has begun comes to an end.
ProcessingEnds == Log!ProcessingEnds

-----------------------------------------------------------------------------
(* A small instance *)

Office  == [days |-> 1 .. 5, allDay |-> FALSE, from |-> 540, to |-> 1020]
Weekend == [days |-> {0, 6}, allDay |-> TRUE, from |-> 0, to |-> 0]
TwoUsers == {"ana", "bob"}
FewTimes == {[day |-> 1, minute |-> 540], [day |-> 1, minute |-> 1020], [day |-> 6, minute |-> 0]}

Call(type, dests) == Hunting(type, dests)
Do(type)          == Step(type)

\* Every type of step, hunts after hunts, nested lists with and without an end.
FourFlows ==
  {<<Do("greeting"), Call("dial", <<"ana">>), Call("round_robin", <<"bob", "phone">>), Do("voicemail")>>,
   <<Do("tag"),
     Branching("menu", <<1, 2, 2>>,
       <<<<Do("greeting"), Call("round_robin", <<"ana", "phone">>), Call("dial", <<"bob">>), Do("voicemail")>>,
         <<>>, <<Do("voicemail")>>>>,
       <<Do("silent"), Do("voicemail")>>),
     Do("keypad"), Call("round_robin", <<"ana">>)>>,
   <<Branching("schedule", <<{Office}, {Weekend}>>,
       <<<<Call("simulcall", <<"ana", "bob">>), Do("keypad")>>, <<>>>>, <<Do("greeting")>>),
     Call("simulcall", <<"bob", "phone">>), Do("hangup")>>,
   <<Call("round_robin", <<"phone", "ana">>),
     Branching("menu", <<3>>,
       <<<<Do("greeting"), Call("dial", <<"ana">>), Call("dial", <<"bob">>)>>>>, <<>>)>>}

\* A call is recorded as a whole (a voicemail), or segment by segment (a conference).
OneWay == {{2}, {0, 1}}
=============================================================================
