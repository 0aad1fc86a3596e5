--------------------------- MODULE ConferenceDial ---------------------------
(***************************************************************************)
(* One inbound call on its way through a call flow, up to its first        *)
(* transfer: the caller is put into a Twilio conference, the server dials  *)
(* the agents of the current stage into it, and the webhooks Twilio sends  *)
(* about the caller, the conference and the agents' legs are handled by    *)
(* NestJS handlers that interleave at every await.  All of them share one  *)
(* phone_calls row, whose metaValue column is a JSON document that every   *)
(* handler reads, changes in memory and writes back WHOLE.                 *)
(*                                                                         *)
(* A handler is a record in `tasks'; it is born when Twilio issues the     *)
(* webhook, so the time before its first step is also the time the webhook *)
(* spends on the wire, and webhooks are reordered freely.                  *)
(*                                                                         *)
(* Twilio itself (the caller's leg, the agents' legs, the conference) is   *)
(* external: it is modelled from the options the server gives it and from  *)
(* what the handlers say they are called for.                              *)
(***************************************************************************)
EXTENDS Naturals, Sequences, FiniteSets

CONSTANTS
  Sids,     \* call SIDs of the agent legs; bounds the legs one call can dial
  NoSid,    \* the SID of a task that is not about an agent leg
  Stages,   \* the dialling stages of the flow, in the order they are tried:
            \* a dial or simulcall step is one stage, each destination of a
            \* round_robin step is one stage
  Env       \* which of the environment's unkind behaviours are possible

Kinds == {"dial", "simulcall", "round_robin"}

(* "rest_error":   Twilio may refuse a REST request (the callers of every   *)
(*                 request of this module swallow the error)                *)
(* "early_status": a leg may answer or end before the server has recorded   *)
(*                 its SID                                                  *)
(* "late_action":  the <Dial action> URL is also requested when the caller  *)
(*                 hangs up                                                 *)
Behaviours == {"rest_error", "early_status", "late_action"}
Refused    == "rest_error" \in Env

ASSUME StagesAssumption == Stages \in Seq([kind : Kinds, targets : Nat \ {0}])
ASSUME NoSidAssumption  == NoSid \notin Sids
ASSUME EnvAssumption    == Env \subseteq Behaviours

VARIABLES
  row,      \* status and answeredAt of the phone_calls row
  meta,     \* its metaValue: conference target, agentCallSids, failed flag
  caller,   \* the caller's leg: what it does, its TwiML request, its stage
  leg,      \* the state of every agent leg
  legStage, \* the stage whose step and attempt are in the leg's callback URL
  tasks     \* the webhook handlers on the wire or running

vars == <<row, meta, caller, leg, legStage, tasks>>

NumStages == Len(Stages)
Stage     == 0 .. NumStages + 1      \* 0: none;  NumStages + 1: "Goodbye."

Statuses  == {"ringing", "in-progress", "completed"}
LegStates == {"unused", "ringing", "joined", "missed", "done"}
Row       == [status : Statuses, answered : BOOLEAN]
Meta      == [target : 0 .. NumStages, sids : SUBSET Sids, failed : BOOLEAN]
Caller    == [at : {"fetch", "conference", "ended"}, req : Nat, stage : Stage]

TaskKinds == {"flow", "callerJoin", "callerLeave", "conferenceEnd",
              "agentJoin", "agentLeave", "agentStatus", "voiceStatus"}
Points    == {"action", "read", "write", "call", "storeRead", "storeWrite",
              "answer", "hang", "metaWrite", "removeRead", "removeWrite",
              "check", "failWrite", "test", "redirect", "clearRead", "clearWrite"}
Task == [kind : TaskKinds, pc : Points, req : Nat, sid : Sids \cup {NoSid},
         stage : Stage, left : Nat, snap : Meta, todo : SUBSET Sids]

NoMeta == [target |-> 0, sids |-> {}, failed |-> FALSE]

NewTask(kind, pc, req, sid, stage) ==
  [kind |-> kind, pc |-> pc, req |-> req, sid |-> sid, stage |-> stage,
   left |-> 0, snap |-> NoMeta, todo |-> {}]

FlowTask(pc, req, stage) == NewTask("flow", pc, req, NoSid, stage)
CallerTask(kind, req)    == NewTask(kind, "read", req, NoSid, 0)
AgentTask(kind, pc, s)   == NewTask(kind, pc, 0, s, 0)
VoiceTask                == NewTask("voiceStatus", "write", 0, NoSid, 0)

Live(s)   == leg[s] \in {"ringing", "joined"}
Joined    == {s \in Sids : leg[s] = "joined"}
Answered  == row.status \in {"in-progress", "completed"} \/ row.answered

(***************************************************************************)
(* Twilio's side.  Caller and agents enter the conference with             *)
(* endConferenceOnExit, so whoever leaves ends it for everyone.            *)
(***************************************************************************)

EmptiedLegs == [s \in Sids |-> IF leg[s] = "joined" THEN "done" ELSE leg[s]]

\* The webhooks of a conference that ends: the agents' leave and final
\* status, the caller's leave and the end of the conference.
ConferenceEndEvents ==
  {AgentTask("agentLeave", "read", s) : s \in Joined}
  \cup {AgentTask("agentStatus", "removeRead", s) : s \in Joined}
  \cup (IF caller.at = "conference"
        THEN {CallerTask("callerLeave", caller.req),
              CallerTask("conferenceEnd", caller.req)}
        ELSE {})

\* The end of agent leg s, by its owner or by the REST API: events it causes.
LegEnds(s, rest) ==
  \/ /\ leg[s] = "ringing"
     /\ leg' = [leg EXCEPT ![s] = "missed"]
     /\ tasks' = rest \cup {AgentTask("agentStatus", "removeRead", s)}
     /\ UNCHANGED caller
  \/ /\ leg[s] = "joined"
     /\ leg' = EmptiedLegs
     /\ IF caller.at = "conference"
        THEN /\ caller' = [caller EXCEPT !.at = "fetch", !.req = @ + 1]
             /\ tasks' = rest \cup ConferenceEndEvents
                  \cup {FlowTask("action", caller.req + 1, caller.stage)}
        ELSE /\ tasks' = rest \cup ConferenceEndEvents
             /\ UNCHANGED caller

\* calls(sid).update({status: 'completed'}); an ended leg throws, and every
\* caller of hangupCall swallows the error.
HangupLeg(s, rest) ==
  \/ LegEnds(s, rest)
  \/ /\ ~Live(s) \/ Refused
     /\ tasks' = rest
     /\ UNCHANGED <<leg, caller>>

\* The end of the caller's leg, by the caller or by the REST API.
CallerEnds(rest) ==
  /\ caller' = [caller EXCEPT !.at = "ended"]
  /\ leg' = IF caller.at = "conference" THEN EmptiedLegs ELSE leg
  /\ tasks' = rest \cup {VoiceTask}
       \cup (IF caller.at = "conference" THEN ConferenceEndEvents ELSE {})
       \cup (IF caller.at = "conference" /\ "late_action" \in Env
             THEN {FlowTask("action", caller.req + 1, caller.stage)}
             ELSE {})

TerminateCallerCall(rest) ==
  \/ caller.at # "ended" /\ CallerEnds(rest)
  \/ /\ caller.at = "ended" \/ Refused
     /\ tasks' = rest
     /\ UNCHANGED <<caller, leg>>

\* calls(sid).update({twiml}) with a <Redirect> to the given stage.
RedirectCallerCall(stage, rest) ==
  \/ /\ caller.at # "ended"
     /\ caller' = [at |-> "fetch", req |-> caller.req + 1, stage |-> stage]
     /\ leg' = IF caller.at = "conference" THEN EmptiedLegs ELSE leg
     /\ tasks' = rest \cup {FlowTask("read", caller.req + 1, stage)}
          \cup (IF caller.at = "conference" THEN ConferenceEndEvents ELSE {})
  \/ /\ caller.at = "ended" \/ Refused
     /\ tasks' = rest
     /\ UNCHANGED <<caller, leg>>

CallerHangsUp ==
  /\ caller.at # "ended"
  /\ CallerEnds(tasks)
  /\ UNCHANGED <<row, meta, legStage>>

\* The server has recorded the SID of this leg, or may be overtaken.
Recorded(s) ==
  \/ "early_status" \in Env
  \/ \A t \in tasks :
       ~(t.kind = "callerJoin" /\ t.pc \in {"storeRead", "storeWrite"} /\ t.sid = s)

AgentAnswers(s) ==
  /\ leg[s] = "ringing"
  /\ Recorded(s)
  /\ leg' = [leg EXCEPT ![s] = "joined"]
  /\ tasks' = tasks \cup {AgentTask("agentJoin", "read", s)}
  /\ UNCHANGED <<row, meta, caller, legStage>>

\* No answer within the timeout, busy, declined or failed.
AgentMisses(s) ==
  /\ leg[s] = "ringing"
  /\ Recorded(s)
  /\ LegEnds(s, tasks)
  /\ UNCHANGED <<row, meta, legStage>>

AgentHangsUp(s) ==
  /\ leg[s] = "joined"
  /\ LegEnds(s, tasks)
  /\ UNCHANGED <<row, meta, legStage>>

(***************************************************************************)
(* The call flow: executeStep and the <Dial action> callbacks.             *)
(***************************************************************************)

Others(t)  == tasks \ {t}
Become(t, u) == tasks' = Others(t) \cup {u}
IsCurrent(t) == caller.at = "fetch" /\ caller.req = t.req

\* The <Dial action> callback: an answered call is hung up, an unanswered one
\* goes on to the next step, except that round_robin (whose callback is the
\* flow URL with action=round_robin) hangs up either way.
FlowAction(t) ==
  /\ t.kind = "flow" /\ t.pc = "action"
  /\ LET over == Answered \/ Stages[t.stage].kind = "round_robin"
     IN /\ row' = [row EXCEPT !.answered = @ \/ (Answered /\ Stages[t.stage].targets = 1)]
        /\ IF ~over
           THEN /\ Become(t, [t EXCEPT !.pc = "read", !.stage = @ + 1])
                /\ UNCHANGED <<caller, leg>>
           ELSE IF IsCurrent(t) THEN CallerEnds(Others(t))
           ELSE tasks' = Others(t) /\ UNCHANGED <<caller, leg>>
  /\ UNCHANGED <<meta, legStage>>

\* No step is left: "Goodbye." and hang up.
FlowGoodbye(t) ==
  /\ t.kind = "flow" /\ t.pc = "read"
  /\ t.stage > NumStages
  /\ IF IsCurrent(t) THEN CallerEnds(Others(t))
     ELSE tasks' = Others(t) /\ UNCHANGED <<caller, leg>>
  /\ UNCHANGED <<row, meta, legStage>>

\* storeConferenceTarget: find the row, keep its metaValue ...
FlowRead(t) ==
  /\ t.kind = "flow" /\ t.pc = "read"
  /\ t.stage <= NumStages
  /\ Become(t, [t EXCEPT !.pc = "write", !.snap = meta])
  /\ UNCHANGED <<row, meta, caller, leg, legStage>>

\* ... write it back with the stage's target, and answer Twilio with the
\* <Dial><Conference>: the caller joins.
FlowWrite(t) ==
  /\ t.kind = "flow" /\ t.pc = "write"
  /\ meta' = [t.snap EXCEPT !.target = t.stage]
  /\ IF IsCurrent(t)
     THEN /\ caller' = [caller EXCEPT !.at = "conference", !.stage = t.stage]
          /\ tasks' = Others(t) \cup {CallerTask("callerJoin", t.req)}
     ELSE tasks' = Others(t) /\ UNCHANGED caller
  /\ UNCHANGED <<row, leg, legStage>>

(***************************************************************************)
(* participant-join of the caller: dialAgentIntoConference.                *)
(***************************************************************************)

\* Mutated form: the caller's own participant-join is taken for an answer.
DialReadAsAnswer(t) ==
  /\ t.kind = "callerJoin" /\ t.pc = "read"
  /\ row' = [status |-> "in-progress", answered |-> TRUE]
  /\ IF meta.target = 0
     THEN tasks' = Others(t)
     ELSE Become(t, [t EXCEPT !.pc = "call", !.stage = meta.target,
                              !.left = Stages[meta.target].targets])
  /\ UNCHANGED <<meta, caller, leg, legStage>>

DialRead(t) ==
  /\ t.kind = "callerJoin" /\ t.pc = "read"
  /\ IF meta.target = 0
     THEN tasks' = Others(t)
     ELSE Become(t, [t EXCEPT !.pc = "call", !.stage = meta.target,
                              !.left = Stages[meta.target].targets])
  /\ UNCHANGED <<row, meta, caller, leg, legStage>>

Finish(t, u) == IF u.left = 0 THEN tasks' = Others(t) ELSE Become(t, u)

\* Mutated form: the next attempt's index goes into the callback's URL.
DialCallNextStage(t, s) ==
  /\ t.kind = "callerJoin" /\ t.pc = "call"
  /\ leg[s] = "unused"
  /\ leg' = [leg EXCEPT ![s] = "ringing"]
  /\ legStage' = [legStage EXCEPT ![s] = t.stage + 1]
  /\ Become(t, [t EXCEPT !.pc = "storeRead", !.sid = s])
  /\ UNCHANGED <<row, meta, caller>>

\* dialSingleAgentIntoConference: create the next target's leg.
DialCall(t, s) ==
  /\ t.kind = "callerJoin" /\ t.pc = "call"
  /\ leg[s] = "unused"
  /\ leg' = [leg EXCEPT ![s] = "ringing"]
  /\ legStage' = [legStage EXCEPT ![s] = t.stage]
  /\ Become(t, [t EXCEPT !.pc = "storeRead", !.sid = s])
  /\ UNCHANGED <<row, meta, caller>>

\* calls.create throws and the loop over the targets goes on.  Running out of
\* SIDs, the bound of the model, is treated as such an error.
DialFails(t) ==
  /\ t.kind = "callerJoin" /\ t.pc = "call"
  /\ Refused \/ \A s \in Sids : leg[s] # "unused"
  /\ Finish(t, [t EXCEPT !.left = @ - 1])
  /\ UNCHANGED <<row, meta, caller, leg, legStage>>

\* storeAgentCallSid.
DialStoreRead(t) ==
  /\ t.kind = "callerJoin" /\ t.pc = "storeRead"
  /\ Become(t, [t EXCEPT !.pc = "storeWrite", !.snap = meta])
  /\ UNCHANGED <<row, meta, caller, leg, legStage>>

DialStoreWrite(t) ==
  /\ t.kind = "callerJoin" /\ t.pc = "storeWrite"
  /\ meta' = [t.snap EXCEPT !.sids = @ \cup {t.sid}]
  /\ Finish(t, [t EXCEPT !.pc = "call", !.left = @ - 1, !.sid = NoSid, !.snap = NoMeta])
  /\ UNCHANGED <<row, caller, leg, legStage>>

(***************************************************************************)
(* participant-join of an agent: handleAgentJoinedConference.              *)
(***************************************************************************)

JoinRead(t) ==
  /\ t.kind = "agentJoin" /\ t.pc = "read"
  /\ Become(t, [t EXCEPT !.pc = "answer", !.snap = meta])
  /\ UNCHANGED <<row, meta, caller, leg, legStage>>

JoinAnswer(t) ==
  /\ t.kind = "agentJoin" /\ t.pc = "answer"
  /\ row' = [status |-> "in-progress", answered |-> TRUE]
  /\ LET others == t.snap.sids \ {t.sid}
     IN IF others = {} THEN tasks' = Others(t)
        ELSE Become(t, [t EXCEPT !.pc = "hang", !.todo = others])
  /\ UNCHANGED <<meta, caller, leg, legStage>>

\* The loops over agentCallSids of handleAgentJoinedConference and of
\* terminatePendingAgentCalls (the order of the array is abstracted).
HangNext(t, s) ==
  /\ t.pc = "hang"
  /\ s \in t.todo
  /\ LET u == [t EXCEPT !.todo = @ \ {s},
                        !.pc = IF t.todo = {s} THEN "metaWrite" ELSE "hang"]
     IN HangupLeg(s, Others(t) \cup {u})
  /\ UNCHANGED <<row, meta, legStage>>

JoinMetaWrite(t) ==
  /\ t.kind = "agentJoin" /\ t.pc = "metaWrite"
  /\ meta' = [t.snap EXCEPT !.sids = {t.sid}]
  /\ tasks' = Others(t)
  /\ UNCHANGED <<row, caller, leg, legStage>>

(***************************************************************************)
(* participant-leave of the caller and conference-end:                     *)
(* terminatePendingAgentCalls.                                             *)
(***************************************************************************)

TermRead(t) ==
  /\ t.kind \in {"callerLeave", "conferenceEnd"} /\ t.pc = "read"
  /\ IF meta.sids = {} THEN tasks' = Others(t)
     ELSE Become(t, [t EXCEPT !.pc = "hang", !.snap = meta, !.todo = meta.sids])
  /\ UNCHANGED <<row, meta, caller, leg, legStage>>

TermMetaWrite(t) ==
  /\ t.kind \in {"callerLeave", "conferenceEnd"} /\ t.pc = "metaWrite"
  /\ meta' = [t.snap EXCEPT !.sids = {}]
  /\ tasks' = Others(t)
  /\ UNCHANGED <<row, caller, leg, legStage>>

\* participant-leave of an agent (the call is not transferred in this module).
AgentLeave(t) ==
  /\ t.kind = "agentLeave"
  /\ TerminateCallerCall(Others(t))
  /\ UNCHANGED <<row, meta, legStage>>

(***************************************************************************)
(* The final status of an agent leg: handleAgentCallStatus.                *)
(***************************************************************************)

\* 'completed': the agent had answered, nothing to do.
StatusCompleted(t) ==
  /\ t.kind = "agentStatus" /\ t.pc = "removeRead"
  /\ leg[t.sid] = "done"
  /\ tasks' = Others(t)
  /\ UNCHANGED <<row, meta, caller, leg, legStage>>

\* removeAgentCallSid.
StatusRemoveRead(t) ==
  /\ t.kind = "agentStatus" /\ t.pc = "removeRead"
  /\ leg[t.sid] = "missed"
  /\ Become(t, [t EXCEPT !.pc = "removeWrite", !.snap = meta])
  /\ UNCHANGED <<row, meta, caller, leg, legStage>>

\* Mutated form: the array is written back without the filter.
StatusRemoveWriteKeeps(t) ==
  /\ t.kind = "agentStatus" /\ t.pc = "removeWrite"
  /\ meta' = t.snap
  /\ Become(t, [t EXCEPT !.pc = "check", !.snap = NoMeta])
  /\ UNCHANGED <<row, caller, leg, legStage>>

StatusRemoveWrite(t) ==
  /\ t.kind = "agentStatus" /\ t.pc = "removeWrite"
  /\ meta' = [t.snap EXCEPT !.sids = @ \ {t.sid}]
  /\ Become(t, [t EXCEPT !.pc = "check", !.snap = NoMeta])
  /\ UNCHANGED <<row, caller, leg, legStage>>

\* Is any agent still being called?
StatusCheck(t) ==
  /\ t.kind = "agentStatus" /\ t.pc = "check"
  /\ Become(t, IF meta.sids = {} THEN [t EXCEPT !.pc = "failWrite", !.snap = meta]
                                 ELSE [t EXCEPT !.pc = "test"])
  /\ UNCHANGED <<row, meta, caller, leg, legStage>>

StatusFailWrite(t) ==
  /\ t.kind = "agentStatus" /\ t.pc = "failWrite"
  /\ meta' = [t.snap EXCEPT !.failed = TRUE]
  /\ Become(t, [t EXCEPT !.pc = "test", !.snap = NoMeta])
  /\ UNCHANGED <<row, caller, leg, legStage>>

\* didConferenceAttemptFail; the call flow is then read, an await of its own.
StatusTest(t) ==
  /\ t.kind = "agentStatus" /\ t.pc = "test"
  /\ IF meta.failed THEN Become(t, [t EXCEPT !.pc = "redirect"])
                    ELSE tasks' = Others(t)
  /\ UNCHANGED <<row, meta, caller, leg, legStage>>

\* Mutated form: the attempts go round, after the last one the first is tried again.
StatusRedirectRound(t) ==
  /\ t.kind = "agentStatus" /\ t.pc = "redirect"
  /\ RedirectCallerCall((legStage[t.sid] % NumStages) + 1,
                        Others(t) \cup {[t EXCEPT !.pc = "clearRead"]})
  /\ UNCHANGED <<row, meta, legStage>>

\* Redirect the caller to the stage after the one in the callback's URL.
StatusRedirect(t) ==
  /\ t.kind = "agentStatus" /\ t.pc = "redirect"
  /\ RedirectCallerCall(legStage[t.sid] + 1, Others(t) \cup {[t EXCEPT !.pc = "clearRead"]})
  /\ UNCHANGED <<row, meta, legStage>>

\* clearConferenceAttemptFailed.
StatusClearRead(t) ==
  /\ t.kind = "agentStatus" /\ t.pc = "clearRead"
  /\ Become(t, [t EXCEPT !.pc = "clearWrite", !.snap = meta])
  /\ UNCHANGED <<row, meta, caller, leg, legStage>>

StatusClearWrite(t) ==
  /\ t.kind = "agentStatus" /\ t.pc = "clearWrite"
  /\ meta' = [t.snap EXCEPT !.failed = FALSE]
  /\ tasks' = Others(t)
  /\ UNCHANGED <<row, caller, leg, legStage>>

\* The final status of the caller's own leg: handleVoiceStatus.
VoiceStatus(t) ==
  /\ t.kind = "voiceStatus"
  /\ row' = [row EXCEPT !.status = "completed"]
  /\ tasks' = Others(t)
  /\ UNCHANGED <<meta, caller, leg, legStage>>

-----------------------------------------------------------------------------

Init ==
  /\ row      = [status |-> "ringing", answered |-> FALSE]
  /\ meta     = NoMeta
  /\ caller   = [at |-> "fetch", req |-> 1, stage |-> 1]
  /\ leg      = [s \in Sids |-> "unused"]
  /\ legStage = [s \in Sids |-> 0]
  /\ tasks    = {FlowTask("read", 1, 1)}

FlowStep(t)   == FlowAction(t) \/ FlowGoodbye(t) \/ FlowRead(t) \/ FlowWrite(t)
DialStep(t)   == DialRead(t) \/ (\E s \in Sids : DialCall(t, s)) \/ DialFails(t)
                 \/ DialStoreRead(t) \/ DialStoreWrite(t)
JoinStep(t)   == JoinRead(t) \/ JoinAnswer(t) \/ JoinMetaWrite(t)
TermStep(t)   == TermRead(t) \/ TermMetaWrite(t)
StatusStep(t) == StatusCompleted(t) \/ StatusRemoveRead(t) \/ StatusRemoveWrite(t)
                 \/ StatusCheck(t) \/ StatusFailWrite(t) \/ StatusTest(t)
                 \/ StatusRedirect(t) \/ StatusClearRead(t) \/ StatusClearWrite(t)

TaskStep(t) ==
  \/ FlowStep(t) \/ DialStep(t) \/ JoinStep(t) \/ TermStep(t) \/ StatusStep(t)
  \/ (\E s \in Sids : HangNext(t, s))
  \/ AgentLeave(t) \/ VoiceStatus(t)

Server == \E t \in tasks : TaskStep(t)

Next ==
  \/ Server
  \/ CallerHangsUp
  \/ \E s \in Sids : AgentAnswers(s) \/ AgentMisses(s) \/ AgentHangsUp(s)

Spec == Init /\ [][Next]_vars

(* The event loop runs every handler to its end, and a leg that rings is    *)
(* given up after the step's timeout (parameter `timeout' of calls.create). *)
Fairness == WF_vars(Server) /\ WF_vars(\E s \in Sids : AgentMisses(s))

FairSpec == Spec /\ Fairness

-----------------------------------------------------------------------------

\* Every variable has the type of the column or resource it stands for.
TypeOK ==
  /\ row \in Row
  /\ meta \in Meta
  /\ caller \in Caller
  /\ leg \in [Sids -> LegStates]
  /\ legStage \in [Sids -> 0 .. NumStages]
  /\ tasks \subseteq Task

\* wasCallAnswered: as long as the caller is there, what it takes for an answer (a status
\* written by one webhook, a time written by another) means that an agent has been in the
\* conference, whatever is refused, early or late: no caller is hung up as answered whom
\* nobody has talked to.
AnsweredOrGone ==
  Answered => caller.at = "ended" \/ \E s \in Sids : leg[s] \in {"joined", "done"}

\* handleAgentCallStatus: a caller who waits alone in the conference gets an agent or
\* is moved on, provided that SIDs are recorded in time and Twilio refuses nothing.
WaitingCallerIsServed ==
  caller.at = "conference" /\ Joined = {}
    ~> caller.at # "conference" \/ Joined # {}

\* The flow only goes forward: no webhook sends the caller back to a stage the
\* call has already left (in a flow of at most two stages, each of one agent: in
\* a longer one a handler that is late writes an old target back).
StageAdvances == [][caller'.stage >= caller.stage]_vars

-----------------------------------------------------------------------------
(***************************************************************************)
(* What comments or messages of the code say and the code does not keep:   *)
(* TLC finds a counterexample to each of these (README, "Counterexamples"). *)
(***************************************************************************)

\* wasCallAnswered ("agent joined the conference"): answeredAt means that an agent has
\* been in the conference, even when the caller is gone.
AnsweredOnlyByAgent == row.answered => \E s \in Sids : leg[s] \in {"joined", "done"}

\* terminatePendingAgentCalls hangs up agents for a caller who is gone, never those of a
\* conference the caller is waiting in.
TermOnlyAfterCallerLeft ==
  \A t \in tasks :
    /\ t.kind \in {"callerLeave", "conferenceEnd"}
    /\ t.pc = "hang"
    /\ \E s \in t.todo : Live(s)
    => caller.at # "conference"

\* handleAgentCallStatus: when no agent is being called any more, the caller is
\* moved on; nobody waits in a conference that no one will ever enter.
\* (WaitingCallerIsServed as an invariant.)
NotStranded ==
  ~(caller.at = "conference" /\ tasks = {} /\ \A s \in Sids : ~Live(s))

\* handleAgentJoinedConference: once one agent answered and every handler is
\* done, no other agent is in the call or still rung for it.
OneAgentLeft ==
  tasks = {} /\ Joined # {} => Cardinality({s \in Sids : Live(s)}) = 1

\* terminatePendingAgentCalls: when the caller has hung up and every handler is
\* done, no agent is still rung for the call.
NoOrphanRinging ==
  caller.at = "ended" /\ tasks = {} => \A s \in Sids : ~Live(s)

\* A caller who is talking to an agent is not redirected to another step; only
\* the end of the conference itself gives the caller a new TwiML request.
NoRedirectWhileTalking ==
  [][ caller'.req > caller.req /\ caller.at = "conference" /\ Joined # {}
        => FlowTask("action", caller'.req, caller.stage) \in tasks' ]_vars
=============================================================================
