---------------------------- MODULE CallSegments ----------------------------
(***************************************************************************)
(* The transfers of an answered call.  Every transfer ends one segment of  *)
(* the call and starts the next: a phone_calls row of its own, a Twilio    *)
(* conference of its own and one agent's leg.  The caller's leg is one and *)
(* the same throughout; it is redirected from conference to conference.    *)
(*                                                                         *)
(* The model starts when the first agent (segment 0) is in the call; the   *)
(* dialling before that, and the races of the handlers that write one      *)
(* row's metaValue, are the subject of ConferenceDial.  Here an update of  *)
(* metaValue is one step.                                                  *)
(***************************************************************************)
EXTENDS Naturals

CONSTANTS
  MaxSeg,       \* bound: the transfers a call goes through
  MaxRequests,  \* bound: the transfer requests the API receives
  Env           \* which of the unkind behaviours below are possible

(* "rest_error":   Twilio may refuse a REST request                         *)
(* "early_status": a leg may answer or end before its SID is recorded       *)
(* "late_join":    a transfer may be requested before the webhook about the *)
(*                 agent's participant-join is handled                      *)
(* "hasty_agent":  an agent may hang up while a transfer is being handled   *)
(* "overlap":      a transfer may be requested while another is handled     *)
Behaviours == {"rest_error", "early_status", "late_join", "hasty_agent", "overlap"}
Refused    == "rest_error" \in Env

ASSUME BoundsAssumption == MaxSeg \in Nat \ {0} /\ MaxRequests \in Nat
ASSUME EnvAssumption    == Env \subseteq Behaviours

VARIABLES
  row,      \* status and transferredAt of the row of every segment
  sid,      \* is the agent's SID in the agentCallSids of the segment's row?
  caller,   \* the caller's leg and the segment whose conference it is in
  leg,      \* the agent's leg of every segment
  requests, \* the number of transfer requests so far
  tasks     \* the handlers on the wire or running

vars == <<row, sid, caller, leg, requests, tasks>>

Segs      == 0 .. MaxSeg
Statuses  == {"none", "ringing", "in-progress", "transferred", "failed", "completed"}
Final     == {"failed", "completed"}
LegStates == {"unused", "ringing", "joined", "missed", "done"}
Row       == [status : Statuses, transferred : BOOLEAN]
Caller    == [at : {"conference", "fetch", "ended"}, seg : Segs]

TaskKinds == {"transfer", "agentJoin", "agentLeave", "callerLeave", "agentStatus",
              "flowAction", "voiceStatus"}
Points    == {"read", "check", "update", "create", "redirect", "dial", "store",
              "write", "terminate"}
Task      == [kind : TaskKinds, pc : Points, seg : Segs, id : 0 .. MaxRequests]

Event(kind, seg) == [kind |-> kind, pc |-> "read", seg |-> seg, id |-> 0]

Exists(k)    == row[k].status # "none"
Live(k)      == leg[k] \in {"ringing", "joined"}
Transfers    == {t \in tasks : t.kind = "transfer"}
Others(t)    == tasks \ {t}
Goto(t, pc)  == tasks' = Others(t) \cup {[t EXCEPT !.pc = pc]}
Done(t)      == tasks' = Others(t)

Newest(S) == CHOOSE k \in S : \A j \in S : j <= k

\* getLatestCallSegment: the newest row that is not 'transferred', else the newest.
Latest ==
  LET rows == {k \in Segs : Exists(k)}
      open == {k \in rows : row[k].status # "transferred"}
  IN IF open # {} THEN Newest(open) ELSE Newest(rows)

(***************************************************************************)
(* Twilio's side.  Everyone enters a conference with endConferenceOnExit,  *)
(* so whoever leaves it ends it for the other.                             *)
(***************************************************************************)

\* The caller goes out of the conference: the agent's leg ends with it.
EmptiedLegs ==
  IF caller.at = "conference" /\ leg[caller.seg] = "joined"
  THEN [leg EXCEPT ![caller.seg] = "done"] ELSE leg

\* The webhooks of that (participant-leave of the caller and conference-end run
\* the same handler: one event stands for both).
LeaveEvents ==
  IF caller.at # "conference" THEN {}
  ELSE {Event("callerLeave", caller.seg)}
       \cup (IF leg[caller.seg] = "joined" THEN {Event("agentLeave", caller.seg)} ELSE {})

\* The end of the caller's leg, by the caller or by the REST API.
CallerEnds(rest) ==
  /\ caller' = [caller EXCEPT !.at = "ended"]
  /\ leg' = EmptiedLegs
  /\ tasks' = rest \cup LeaveEvents \cup {Event("voiceStatus", 0)}

TerminateCaller(rest) ==
  \/ caller.at # "ended" /\ CallerEnds(rest)
  \/ /\ caller.at = "ended" \/ Refused
     /\ tasks' = rest
     /\ UNCHANGED <<caller, leg>>

\* The end of the agent's leg of segment k.  The caller of the flow's conference
\* then requests the <Dial action>; a transfer's TwiML has nothing after <Dial>.
LegEnds(k, rest) ==
  \/ /\ leg[k] = "ringing"
     /\ leg' = [leg EXCEPT ![k] = "missed"]
     /\ tasks' = rest \cup {Event("agentStatus", k)}
     /\ UNCHANGED caller
  \/ /\ leg[k] = "joined"
     /\ IF caller.at # "conference" \/ caller.seg # k
        THEN /\ leg' = [leg EXCEPT ![k] = "done"]
             /\ tasks' = rest \cup {Event("agentLeave", k)}
             /\ UNCHANGED caller
        ELSE IF k > 0 THEN CallerEnds(rest)
        ELSE /\ leg' = EmptiedLegs
             /\ tasks' = rest \cup LeaveEvents \cup {Event("flowAction", 0)}
             /\ caller' = [caller EXCEPT !.at = "fetch"]

CallerHangsUp ==
  /\ caller.at # "ended"
  /\ CallerEnds(tasks)
  /\ UNCHANGED <<row, sid, requests>>

\* The server has recorded the SID of leg k, or may be overtaken.
Recorded(k) ==
  \/ "early_status" \in Env
  \/ \A t \in tasks : ~(t.kind = "transfer" /\ t.pc = "store" /\ t.seg + 1 = k)

AgentAnswers(k) ==
  /\ leg[k] = "ringing"
  /\ Recorded(k)
  /\ leg' = [leg EXCEPT ![k] = "joined"]
  /\ tasks' = tasks \cup {Event("agentJoin", k)}
  /\ UNCHANGED <<row, sid, caller, requests>>

\* No answer within the timeout, busy, declined or failed.
AgentMisses(k) ==
  /\ leg[k] = "ringing"
  /\ Recorded(k)
  /\ LegEnds(k, tasks)
  /\ UNCHANGED <<row, sid, requests>>

AgentHangsUp(k) ==
  /\ leg[k] = "joined"
  /\ Transfers = {} \/ "hasty_agent" \in Env
  /\ LegEnds(k, tasks)
  /\ UNCHANGED <<row, sid, requests>>

(***************************************************************************)
(* transferCall.                                                           *)
(***************************************************************************)

\* An agent in the call asks for a transfer.
TransferRequest ==
  /\ requests < MaxRequests
  /\ \E k \in Segs :
       /\ leg[k] = "joined"
       /\ "late_join" \in Env \/ row[k].status # "ringing"
  /\ Transfers = {} \/ "overlap" \in Env
  /\ requests' = requests + 1
  /\ tasks' = tasks \cup {[kind |-> "transfer", pc |-> "read", seg |-> 0,
                           id |-> requests + 1]}
  /\ UNCHANGED <<row, sid, caller, leg>>

\* Which segment is active?
TransferRead(t) ==
  /\ t.kind = "transfer" /\ t.pc = "read"
  /\ tasks' = Others(t) \cup {[t EXCEPT !.pc = "check", !.seg = Latest]}
  /\ UNCHANGED <<row, sid, caller, leg, requests>>

\* "Allow transfer for calls that are not in a terminal state".  The last segment
\* of the model is never transferred.
TransferCheck(t) ==
  /\ t.kind = "transfer" /\ t.pc = "check"
  /\ IF row[t.seg].status \in Final \cup {"transferred"} \/ t.seg = MaxSeg
     THEN Done(t) ELSE Goto(t, "update")
  /\ UNCHANGED <<row, sid, caller, leg, requests>>

\* Mutated form: the new segment is created first, the old one updated after.
TransferUpdateLast(t) ==
  /\ t.kind = "transfer" /\ t.pc = "update"
  /\ Goto(t, "create")
  /\ UNCHANGED <<row, sid, caller, leg, requests>>

\* 1. The active segment becomes 'transferred'.
TransferUpdate(t) ==
  /\ t.kind = "transfer" /\ t.pc = "update"
  /\ row' = [row EXCEPT ![t.seg] = [status |-> "transferred", transferred |-> TRUE]]
  /\ Goto(t, "create")
  /\ UNCHANGED <<sid, caller, leg, requests>>

\* 2. The next segment gets its row; twilioCallSid is unique, a second one throws.
TransferCreate(t) ==
  /\ t.kind = "transfer" /\ t.pc = "create"
  /\ IF Exists(t.seg + 1) THEN Done(t) /\ UNCHANGED row
     ELSE /\ row' = [row EXCEPT ![t.seg + 1].status = "ringing"]
          /\ Goto(t, "redirect")
  /\ UNCHANGED <<sid, caller, leg, requests>>

\* Mutated form: the caller is sent to the conference of the old segment.
TransferRedirectSame(t) ==
  /\ t.kind = "transfer" /\ t.pc = "redirect"
  /\ \/ /\ caller.at # "ended"
        /\ caller' = [at |-> "conference", seg |-> t.seg]
        /\ leg' = EmptiedLegs
        /\ tasks' = Others(t) \cup {[t EXCEPT !.pc = "dial"]} \cup LeaveEvents
     \/ /\ caller.at = "ended"
        /\ Done(t)
        /\ UNCHANGED <<caller, leg>>
  /\ UNCHANGED <<row, sid, requests>>

\* 3. The caller is redirected to the next segment's conference.  (The caller's
\* participant-join dials nobody: the row has agentDialedFromTransfer.)
TransferRedirect(t) ==
  /\ t.kind = "transfer" /\ t.pc = "redirect"
  /\ \/ /\ caller.at # "ended"
        /\ caller' = [at |-> "conference", seg |-> t.seg + 1]
        /\ leg' = EmptiedLegs
        /\ tasks' = Others(t) \cup {[t EXCEPT !.pc = "dial"]} \cup LeaveEvents
     \/ /\ caller.at = "ended" \/ Refused
        /\ Done(t)
        /\ UNCHANGED <<caller, leg>>
  /\ UNCHANGED <<row, sid, requests>>

\* 4. The new agent is dialled; a refusal makes the segment 'failed'.
TransferDial(t) ==
  /\ t.kind = "transfer" /\ t.pc = "dial"
  /\ \/ /\ leg' = [leg EXCEPT ![t.seg + 1] = "ringing"]
        /\ Goto(t, "store")
        /\ UNCHANGED row
     \/ /\ Refused
        /\ row' = [row EXCEPT ![t.seg + 1].status = "failed"]
        /\ Done(t)
        /\ UNCHANGED leg
  /\ UNCHANGED <<sid, caller, requests>>

\* storeAgentCallSid.
TransferStore(t) ==
  /\ t.kind = "transfer" /\ t.pc = "store"
  /\ sid' = [sid EXCEPT ![t.seg + 1] = TRUE]
  /\ Done(t)
  /\ UNCHANGED <<row, caller, leg, requests>>

(***************************************************************************)
(* The webhooks.                                                           *)
(***************************************************************************)

\* handleAgentJoinedConference: find the row and the answering user ...
JoinRead(t) ==
  /\ t.kind = "agentJoin" /\ t.pc = "read"
  /\ Goto(t, "write")
  /\ UNCHANGED <<row, sid, caller, leg, requests>>

\* ... and write 'in-progress', whatever the row's status is by now.
JoinWrite(t) ==
  /\ t.kind = "agentJoin" /\ t.pc = "write"
  /\ row' = [row EXCEPT ![t.seg].status = "in-progress"]
  /\ Done(t)
  /\ UNCHANGED <<sid, caller, leg, requests>>

\* Mutated form: whoever leaves, the caller is terminated.
LeaveReadAlways(t) ==
  /\ t.kind = "agentLeave" /\ t.pc = "read"
  /\ Goto(t, "terminate")
  /\ UNCHANGED <<row, sid, caller, leg, requests>>

\* participant-leave of an agent: "if the call was transferred, don't terminate
\* the caller".
LeaveRead(t) ==
  /\ t.kind = "agentLeave" /\ t.pc = "read"
  /\ IF row[t.seg].status = "transferred" THEN Done(t) ELSE Goto(t, "terminate")
  /\ UNCHANGED <<row, sid, caller, leg, requests>>

LeaveTerminate(t) ==
  /\ t.kind = "agentLeave" /\ t.pc = "terminate"
  /\ TerminateCaller(Others(t))
  /\ UNCHANGED <<row, sid, requests>>

\* terminatePendingAgentCalls.
CallerLeave(t) ==
  /\ t.kind = "callerLeave"
  /\ IF sid[t.seg] /\ Live(t.seg)
     THEN \/ LegEnds(t.seg, Others(t))
          \/ Refused /\ Done(t) /\ UNCHANGED <<caller, leg>>
     ELSE Done(t) /\ UNCHANGED <<caller, leg>>
  /\ sid' = [sid EXCEPT ![t.seg] = FALSE]
  /\ UNCHANGED <<row, requests>>

\* handleAgentCallStatus of a leg that nobody answered: forget the SID ...
StatusRemove(t) ==
  /\ t.kind = "agentStatus" /\ t.pc = "read"
  /\ sid' = [sid EXCEPT ![t.seg] = FALSE]
  /\ Goto(t, "check")
  /\ UNCHANGED <<row, caller, leg, requests>>

\* Mutated form: the transfer's caller is forgotten.
StatusCheckGivesUp(t) ==
  /\ t.kind = "agentStatus" /\ t.pc = "check"
  /\ Done(t)
  /\ UNCHANGED <<row, sid, caller, leg, requests>>

\* ... and when no other agent is being called, the attempt has failed: the
\* transfer's caller is terminated ...
StatusCheck(t) ==
  /\ t.kind = "agentStatus" /\ t.pc = "check"
  /\ IF sid[t.seg] THEN Done(t) ELSE Goto(t, "terminate")
  /\ UNCHANGED <<row, sid, caller, leg, requests>>

StatusTerminate(t) ==
  /\ t.kind = "agentStatus" /\ t.pc = "terminate"
  /\ TerminateCaller(Others(t) \cup {[t EXCEPT !.pc = "write"]})
  /\ UNCHANGED <<row, sid, requests>>

\* ... and the segment becomes 'failed'.
StatusWrite(t) ==
  /\ t.kind = "agentStatus" /\ t.pc = "write"
  /\ row' = [row EXCEPT ![t.seg].status = "failed"]
  /\ Done(t)
  /\ UNCHANGED <<sid, caller, leg, requests>>

\* The <Dial action> of segment 0: the call was answered, or the flow has no
\* further step; either way its TwiML ends the call.
FlowAction(t) ==
  /\ t.kind = "flowAction"
  /\ IF caller.at = "fetch" THEN CallerEnds(Others(t))
     ELSE Done(t) /\ UNCHANGED <<caller, leg>>
  /\ UNCHANGED <<row, sid, requests>>

\* handleVoiceStatus for the end of the caller's leg: find the active segment ...
VoiceRead(t) ==
  /\ t.kind = "voiceStatus" /\ t.pc = "read"
  /\ IF row[Latest].status = "transferred" THEN Done(t)
     ELSE tasks' = Others(t) \cup {[t EXCEPT !.pc = "write", !.seg = Latest]}
  /\ UNCHANGED <<row, sid, caller, leg, requests>>

\* ... and complete it.
VoiceWrite(t) ==
  /\ t.kind = "voiceStatus" /\ t.pc = "write"
  /\ row' = [row EXCEPT ![t.seg].status = "completed"]
  /\ Done(t)
  /\ UNCHANGED <<sid, caller, leg, requests>>

-----------------------------------------------------------------------------

Init ==
  /\ row      = [k \in Segs |-> [status |-> IF k = 0 THEN "ringing" ELSE "none",
                                 transferred |-> FALSE]]
  /\ sid      = [k \in Segs |-> k = 0]
  /\ caller   = [at |-> "conference", seg |-> 0]
  /\ leg      = [k \in Segs |-> IF k = 0 THEN "joined" ELSE "unused"]
  /\ requests = 0
  /\ tasks    = {Event("agentJoin", 0)}

TransferStep(t) ==
  TransferRead(t) \/ TransferCheck(t) \/ TransferUpdate(t) \/ TransferCreate(t)
  \/ TransferRedirect(t) \/ TransferDial(t) \/ TransferStore(t)
AgentStep(t) ==
  JoinRead(t) \/ JoinWrite(t) \/ LeaveRead(t) \/ LeaveTerminate(t)
  \/ StatusRemove(t) \/ StatusCheck(t) \/ StatusTerminate(t) \/ StatusWrite(t)
CallerStep(t) == CallerLeave(t) \/ FlowAction(t) \/ VoiceRead(t) \/ VoiceWrite(t)

Server == \E t \in tasks : TransferStep(t) \/ AgentStep(t) \/ CallerStep(t)

Next ==
  \/ Server
  \/ TransferRequest
  \/ CallerHangsUp
  \/ \E k \in Segs : AgentAnswers(k) \/ AgentMisses(k) \/ AgentHangsUp(k)

Spec == Init /\ [][Next]_vars

(* Handlers run to their end; a ringing leg is given up after its timeout.  *)
FairSpec == Spec /\ WF_vars(Server) /\ WF_vars(\E k \in Segs : AgentMisses(k))

-----------------------------------------------------------------------------

\* The columns and resources have their types.
TypeOK ==
  /\ row \in [Segs -> Row]
  /\ sid \in [Segs -> BOOLEAN]
  /\ caller \in Caller
  /\ leg \in [Segs -> LegStates]
  /\ requests \in 0 .. MaxRequests
  /\ tasks \subseteq Task

\* transferCall: the segments of a call form a chain, each but the last ended by
\* the transfer that started the next, and the caller is only ever sent to the
\* conference of a segment that has its row (the webhooks look it up).
SegmentChain ==
  /\ \A k \in 1 .. MaxSeg : Exists(k) => Exists(k - 1) /\ row[k - 1].transferred
  /\ caller.at = "conference" => Exists(caller.seg)
  /\ \A k \in Segs : Live(k) => Exists(k)

\* handleConferenceStatus and handleAgentCallStatus: what happens to the agent of
\* one segment never ends the caller's conversation in another segment (agents who
\* transfer wait for the answer, and joins are handled before transfers).
NoForeignHangup ==
  \A t \in tasks :
    t.pc = "terminate" /\ caller.at = "conference" => t.seg = caller.seg

\* transferCall and the webhooks of the new agent's leg: the caller a transfer left
\* alone in a conference gets an agent, or the call ends.
TransferSettles ==
  caller.at = "conference" /\ leg[caller.seg] # "joined"
    ~> caller.at = "ended" \/ leg[caller.seg] = "joined"

\* transferCall: between transfers, the caller is in the newest segment.
CallerInNewest ==
  Transfers = {} /\ caller.at = "conference" => Latest = caller.seg

-----------------------------------------------------------------------------
(***************************************************************************)
(* What comments or messages of the code say and the code does not keep:   *)
(* TLC finds a counterexample to each of these (README, "Counterexamples"). *)
(***************************************************************************)

\* handleAgentCallStatus, "terminate the caller's call": when every handler is done, a
\* caller in a conference has an agent there or one being rung.
NotStranded == tasks = {} /\ caller.at = "conference" => Live(caller.seg)

\* getLatestCallSegment: when the call is over and every handler is done, no
\* segment is left ringing or in progress.
RecordsClosed ==
  caller.at = "ended" /\ tasks = {} =>
    \A k \in Segs : row[k].status \notin {"ringing", "in-progress"}

\* handleVoiceStatus completes a non-terminal segment: a failed transfer stays failed.
FailedStays ==
  [][ \A k \in Segs : row[k].status = "failed" => row'[k].status = "failed" ]_vars
=============================================================================
