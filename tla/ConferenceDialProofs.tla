------------------------ MODULE ConferenceDialProofs ------------------------
(***************************************************************************)
(* Proofs about ConferenceDial: type correctness; that a caller who is     *)
(* there counts as answered only when an agent has been in the conference; *)
(* that a flow of one agent per stage rings one agent at a time and, of    *)
(* two stages, never goes back.                                            *)
(***************************************************************************)
EXTENDS ConferenceDial, TLAPS

\* What TypeOK needs to be inductive: a task only names stages that exist, the
\* dialling loop has a target left, and a handler of an agent leg names the leg.
TaskOK(t) ==
  /\ t.kind = "flow" /\ t.pc \in {"action", "write"} => t.stage <= NumStages
  /\ t.kind = "callerJoin" /\ t.pc # "read" => t.stage <= NumStages
  /\ t.kind = "callerJoin" /\ t.pc \in {"call", "storeRead", "storeWrite"} => t.left > 0
  /\ t.kind = "callerJoin" /\ t.pc \in {"storeRead", "storeWrite"} => t.sid \in Sids
  /\ t.kind \in {"agentJoin", "agentLeave", "agentStatus"} => t.sid \in Sids

WellFormed(u) == u \in Task /\ TaskOK(u)

IndInv ==
  /\ TypeOK
  /\ caller.at = "conference" => caller.stage <= NumStages
  /\ \A t \in tasks : TaskOK(t)

\* Stages is a sequence of at least no stage, so its length is a number.
LEMMA NumStagesType == NumStages \in Nat
  BY StagesAssumption DEF NumStages

\* The type and the fields of the task that runs the call flow.
LEMMA FlowTaskType ==
  ASSUME NEW pc \in Points, NEW req \in Nat, NEW stage \in Stage
  PROVE  LET u == FlowTask(pc, req, stage)
         IN /\ u \in Task
            /\ u.kind = "flow" /\ u.pc = pc /\ u.req = req /\ u.stage = stage
  BY NumStagesType DEF FlowTask, NewTask, Task, TaskKinds, Points, Stage, Meta, NoMeta

\* The type and the fields of the handlers of the caller's events.
LEMMA CallerTaskType ==
  ASSUME NEW kind \in {"callerJoin", "callerLeave", "conferenceEnd"}, NEW req \in Nat
  PROVE  LET u == CallerTask(kind, req)
         IN /\ u \in Task
            /\ u.kind = kind /\ u.pc = "read" /\ u.req = req
  BY NumStagesType DEF CallerTask, NewTask, Task, TaskKinds, Points, Stage, Meta, NoMeta

\* The type and the fields of the handlers of an agent leg's events.
LEMMA AgentTaskType ==
  ASSUME NEW kind \in {"agentJoin", "agentLeave", "agentStatus"},
         NEW pc \in Points, NEW s \in Sids
  PROVE  LET u == AgentTask(kind, pc, s)
         IN /\ u \in Task
            /\ u.kind = kind /\ u.pc = pc /\ u.sid = s
  BY NumStagesType DEF AgentTask, NewTask, Task, TaskKinds, Points, Stage, Meta, NoMeta

\* The type and the fields of the handler of the caller's final status.
LEMMA VoiceTaskType ==
  VoiceTask \in Task /\ VoiceTask.kind = "voiceStatus"
  BY NumStagesType DEF VoiceTask, NewTask, Task, TaskKinds, Points, Stage, Meta, NoMeta

\* The events of a conference that ends are well-formed tasks, none of which
\* runs the call flow or dials.
LEMMA ConferenceEndEventsType ==
  ASSUME IndInv
  PROVE  \A u \in ConferenceEndEvents :
           /\ u \in Task
           /\ u.kind \notin {"flow", "callerJoin"}
           /\ u.kind \in {"agentJoin", "agentLeave", "agentStatus"} => u.sid \in Sids
<1>1. caller.req \in Nat
  BY DEF IndInv, TypeOK, Caller
<1>2. ASSUME NEW s \in Joined
      PROVE  /\ AgentTask("agentLeave", "read", s) \in Task
             /\ AgentTask("agentLeave", "read", s).kind = "agentLeave"
             /\ AgentTask("agentLeave", "read", s).sid \in Sids
             /\ AgentTask("agentStatus", "removeRead", s) \in Task
             /\ AgentTask("agentStatus", "removeRead", s).kind = "agentStatus"
             /\ AgentTask("agentStatus", "removeRead", s).sid \in Sids
  BY AgentTaskType DEF Joined, Points
<1>3. /\ CallerTask("callerLeave", caller.req) \in Task
      /\ CallerTask("callerLeave", caller.req).kind = "callerLeave"
      /\ CallerTask("conferenceEnd", caller.req) \in Task
      /\ CallerTask("conferenceEnd", caller.req).kind = "conferenceEnd"
  BY <1>1, CallerTaskType
<1> QED
  BY <1>2, <1>3 DEF ConferenceEndEvents

\* A step that leaves the caller alone keeps IndInv when the variables it writes
\* keep their types and every task it adds is well-formed.
LEMMA CallerUnchangedStep ==
  ASSUME IndInv, UNCHANGED caller,
         row' \in Row, meta' \in Meta,
         leg' \in [Sids -> LegStates], legStage' \in [Sids -> 0 .. NumStages],
         \A u \in tasks' : u \in tasks \/ (u \in Task /\ TaskOK(u))
  PROVE  IndInv'
  BY DEF IndInv, TypeOK, TaskOK

\* The fields of a task that runs a handler.
LEMMA TaskFields ==
  ASSUME NEW t \in Task
  PROVE  /\ t.kind \in TaskKinds /\ t.pc \in Points /\ t.req \in Nat
         /\ t.sid \in Sids \cup {NoSid} /\ t.stage \in Stage /\ t.left \in Nat
         /\ t.snap \in Meta /\ t.todo \subseteq Sids
  BY DEF Task

LEMMA DialStepOK ==
  ASSUME IndInv, NEW t \in tasks, DialStep(t)
  PROVE  IndInv'
<1> USE NumStagesType
<1>0. t \in Task /\ TaskOK(t) /\ row \in Row /\ meta \in Meta
      /\ leg \in [Sids -> LegStates] /\ legStage \in [Sids -> 0 .. NumStages]
  BY DEF IndInv, TypeOK
<1>1. CASE DialRead(t)
  <2>1. meta.target # 0 => /\ Stages[meta.target].targets \in Nat
                           /\ Stages[meta.target].targets > 0
    <3>1. meta.target # 0 => meta.target \in 1 .. Len(Stages)
      <4>1. meta.target \in 0 .. NumStages
        BY <1>0 DEF Meta
      <4> QED
        BY <4>1 DEF NumStages
    <3>2. \A i \in 1 .. Len(Stages) : Stages[i] \in [kind : Kinds, targets : Nat \ {0}]
      <4>1. \A S : Stages \in Seq(S) => \A i \in 1 .. Len(Stages) : Stages[i] \in S
        OBVIOUS
      <4> QED
        BY <4>1, StagesAssumption
    <3> QED
      BY <3>1, <3>2
  <2> DEFINE u == [t EXCEPT !.pc = "call", !.stage = meta.target,
                            !.left = Stages[meta.target].targets]
  <2>2. meta.target # 0 => meta.target \in Stage /\ meta.target <= NumStages
    BY <1>0 DEF Meta, Stage
  <2>3. meta.target # 0 => u \in Task
    BY <1>0, <2>1, <2>2 DEF Task, Points
  <2>4. u.kind = "callerJoin" /\ u.pc = "call" /\ u.stage = meta.target
        /\ u.left = Stages[meta.target].targets
    BY <1>0, <1>1 DEF DialRead, Task
  <2>5. meta.target # 0 => TaskOK(u)
    BY <2>1, <2>2, <2>4 DEF TaskOK
  <2> QED
    BY <1>0, <1>1, <2>3, <2>5, CallerUnchangedStep DEF DialRead, Become, Others
<1>2. ASSUME NEW s \in Sids, DialCall(t, s) PROVE IndInv'
  <2> DEFINE u == [t EXCEPT !.pc = "storeRead", !.sid = s]
  <2>1. u \in Task
    BY <1>0 DEF Task, Points
  <2>3. u.kind = "callerJoin" /\ u.pc = "storeRead" /\ u.stage = t.stage
        /\ u.left = t.left /\ u.sid = s
    BY <1>0, <1>2 DEF DialCall, Task
  <2>4. TaskOK(u)
    BY <1>0, <1>2, <2>3 DEF DialCall, TaskOK
  <2>2. leg' \in [Sids -> LegStates] /\ legStage' \in [Sids -> 0 .. NumStages]
    BY <1>0, <1>2 DEF DialCall, Task, TaskOK, Stage, LegStates
  <2> QED
    BY <1>0, <1>2, <2>1, <2>2, <2>4, CallerUnchangedStep DEF DialCall, Become, Others
<1>3. CASE DialFails(t)
  <2>1. [t EXCEPT !.left = @ - 1].left # 0 =>
          /\ [t EXCEPT !.left = @ - 1] \in Task
          /\ TaskOK([t EXCEPT !.left = @ - 1])
    BY <1>0, <1>3 DEF DialFails, Task, TaskOK
  <2> QED
    BY <1>0, <1>3, <2>1, CallerUnchangedStep DEF DialFails, Finish, Become, Others
<1>4. CASE DialStoreRead(t)
  <2>1. [t EXCEPT !.pc = "storeWrite", !.snap = meta] \in Task
        /\ TaskOK([t EXCEPT !.pc = "storeWrite", !.snap = meta])
    BY <1>0, <1>4 DEF DialStoreRead, Task, TaskOK, Points
  <2> QED
    BY <1>0, <1>4, <2>1, CallerUnchangedStep DEF DialStoreRead, Become, Others
<1>5. CASE DialStoreWrite(t)
  <2> DEFINE u == [t EXCEPT !.pc = "call", !.left = @ - 1, !.sid = NoSid, !.snap = NoMeta]
  <2>1. u \in Task
    <3>1. t.left - 1 \in Nat
      BY <1>0, <1>5 DEF DialStoreWrite, Task, TaskOK
    <3>2. NoMeta \in Meta
      BY DEF NoMeta, Meta
    <3> QED
      BY <1>0, <3>1, <3>2 DEF Task, Points
  <2>3. u.kind = "callerJoin" /\ u.pc = "call" /\ u.stage = t.stage /\ u.left = t.left - 1
    BY <1>0, <1>5 DEF DialStoreWrite, Task
  <2>4. u.left # 0 => TaskOK(u)
    BY <1>0, <1>5, <2>1, <2>3 DEF DialStoreWrite, TaskOK, Task
  <2>2. meta' \in Meta
    BY <1>0, <1>5 DEF DialStoreWrite, Task, TaskOK, Meta
  <2> QED
    BY <1>0, <1>5, <2>1, <2>2, <2>4, CallerUnchangedStep DEF DialStoreWrite, Finish, Become, Others
<1> QED
  BY <1>1, <1>2, <1>3, <1>4, <1>5 DEF DialStep

\* What the ways in which Twilio moves a leg leave behind.
Moved ==
  /\ caller' \in Caller
  /\ caller'.at = "conference" => caller'.stage <= NumStages
  /\ leg' \in [Sids -> LegStates]
  /\ \A u \in tasks' : WellFormed(u)

\* A step that moves legs keeps IndInv when it keeps the types of the rest.
LEMMA MovedStep ==
  ASSUME IndInv, Moved, row' \in Row, meta' = meta, legStage' = legStage
  PROVE  IndInv'
  BY DEF IndInv, TypeOK, Moved, WellFormed, TaskOK

\* The tasks of the invariant are well-formed.
LEMMA TasksWellFormed ==
  ASSUME IndInv
  PROVE  \A u \in tasks : WellFormed(u)
  BY DEF IndInv, TypeOK, WellFormed

LEMMA EndEventsWellFormed ==
  ASSUME IndInv
  PROVE  \A u \in ConferenceEndEvents : WellFormed(u)
  BY ConferenceEndEventsType DEF TaskOK, WellFormed

\* The events of an agent leg that ends.
LEMMA AgentTaskWellFormed ==
  ASSUME NEW kind \in {"agentJoin", "agentLeave", "agentStatus"},
         NEW pc \in Points, NEW s \in Sids
  PROVE  WellFormed(AgentTask(kind, pc, s))
<1> DEFINE u == AgentTask(kind, pc, s)
<1>1. u \in Task /\ u.kind = kind /\ u.sid = s
  BY AgentTaskType
<1> HIDE DEF u
<1>2. WellFormed(u)
  BY <1>1 DEF WellFormed, TaskOK
<1> QED
  BY <1>2 DEF u

\* The call flow's requests for TwiML.
LEMMA FlowTaskWellFormed ==
  ASSUME NEW pc \in {"read", "action"}, NEW req \in Nat, NEW stage \in Stage,
         pc = "action" => stage <= NumStages
  PROVE  WellFormed(FlowTask(pc, req, stage))
<1> DEFINE u == FlowTask(pc, req, stage)
<1>1. u \in Task /\ u.kind = "flow" /\ u.pc = pc /\ u.stage = stage
  BY FlowTaskType DEF Points
<1> HIDE DEF u
<1>2. WellFormed(u)
  BY <1>1 DEF WellFormed, TaskOK
<1> QED
  BY <1>2 DEF u

\* The caller's participant-join.
LEMMA CallerTaskWellFormed ==
  ASSUME NEW kind \in {"callerJoin", "callerLeave", "conferenceEnd"}, NEW req \in Nat
  PROVE  WellFormed(CallerTask(kind, req))
<1> DEFINE u == CallerTask(kind, req)
<1>1. u \in Task /\ u.kind = kind /\ u.pc = "read"
  BY CallerTaskType
<1> HIDE DEF u
<1>2. WellFormed(u)
  BY <1>1 DEF WellFormed, TaskOK
<1> QED
  BY <1>2 DEF u

LEMMA VoiceTaskWellFormed == WellFormed(VoiceTask)
<1> DEFINE u == VoiceTask
<1>1. u \in Task /\ u.kind = "voiceStatus"
  BY VoiceTaskType
<1> HIDE DEF u
<1>2. WellFormed(u)
  BY <1>1 DEF WellFormed, TaskOK
<1> QED
  BY <1>2 DEF u

LEMMA LegEndsOK ==
  ASSUME IndInv, NEW s \in Sids, NEW STATE rest,
         \A u \in rest : WellFormed(u),
         LegEnds(s, rest)
  PROVE  Moved
<1> USE NumStagesType
<1>0. caller \in Caller /\ leg \in [Sids -> LegStates]
      /\ (caller.at = "conference" => caller.stage <= NumStages)
  BY DEF IndInv, TypeOK
<1>1. leg' \in [Sids -> LegStates]
  BY <1>0 DEF LegEnds, EmptiedLegs, LegStates
<1>2. WellFormed(AgentTask("agentStatus", "removeRead", s))
  BY AgentTaskWellFormed DEF Points
<1>3. CASE UNCHANGED caller
  <2>1. tasks' \subseteq rest \cup ConferenceEndEvents
           \cup {AgentTask("agentStatus", "removeRead", s)}
    BY <1>0, <1>3 DEF LegEnds, Caller
  <2> QED
    BY <1>0, <1>1, <1>2, <1>3, <2>1, EndEventsWellFormed DEF Moved
<1>4. CASE caller' # caller
  <2>1. /\ caller.at = "conference"
        /\ caller' = [caller EXCEPT !.at = "fetch", !.req = @ + 1]
        /\ tasks' = rest \cup ConferenceEndEvents
             \cup {FlowTask("action", caller.req + 1, caller.stage)}
    BY <1>4 DEF LegEnds
  <2>2. caller.req + 1 \in Nat /\ caller.stage \in Stage /\ caller.stage <= NumStages
    BY <1>0, <2>1 DEF Caller
  <2>3. caller' \in Caller /\ caller'.at = "fetch"
    <3>1. \A n \in Nat : [caller EXCEPT !.at = "fetch", !.req = n] \in Caller
      BY <1>0 DEF Caller
    <3>2. \A n \in Nat : [caller EXCEPT !.at = "fetch", !.req = n].at = "fetch"
      BY <1>0 DEF Caller
    <3> QED
      BY <2>1, <2>2, <3>1, <3>2
  <2>4. WellFormed(FlowTask("action", caller.req + 1, caller.stage))
    BY <2>2, FlowTaskWellFormed
  <2> QED
    BY <1>1, <2>1, <2>3, <2>4, EndEventsWellFormed DEF Moved
<1> QED
  BY <1>3, <1>4

\* A hang-up that is refused or comes too late changes nothing.
LEMMA NothingMoves ==
  ASSUME IndInv, NEW STATE rest, \A u \in rest : WellFormed(u),
         tasks' = rest, UNCHANGED <<caller, leg>>
  PROVE  Moved
  BY DEF IndInv, TypeOK, Moved

LEMMA HangupLegOK ==
  ASSUME IndInv, NEW s \in Sids, NEW STATE rest,
         \A u \in rest : WellFormed(u),
         HangupLeg(s, rest)
  PROVE  Moved
  BY LegEndsOK, NothingMoves DEF HangupLeg

LEMMA CallerEndsOK ==
  ASSUME IndInv, NEW STATE rest, \A u \in rest : WellFormed(u), CallerEnds(rest)
  PROVE  Moved
<1> USE NumStagesType
<1>0. caller \in Caller /\ leg \in [Sids -> LegStates]
      /\ (caller.at = "conference" => caller.stage <= NumStages)
  BY DEF IndInv, TypeOK
<1>1. caller' \in Caller /\ caller'.at = "ended"
  BY <1>0 DEF CallerEnds, Caller
<1>2. leg' \in [Sids -> LegStates]
  BY <1>0 DEF CallerEnds, EmptiedLegs, LegStates
<1>3. caller.at = "conference" =>
        WellFormed(FlowTask("action", caller.req + 1, caller.stage))
  <2>1. caller.req + 1 \in Nat /\ caller.stage \in Stage
    BY <1>0 DEF Caller
  <2> QED
    BY <1>0, <2>1, FlowTaskWellFormed
<1>4. \A u \in tasks' : WellFormed(u)
  BY <1>3, VoiceTaskWellFormed, EndEventsWellFormed DEF CallerEnds
<1> QED
  BY <1>1, <1>2, <1>4 DEF Moved

LEMMA TerminateCallerCallOK ==
  ASSUME IndInv, NEW STATE rest, \A u \in rest : WellFormed(u), TerminateCallerCall(rest)
  PROVE  Moved
  BY CallerEndsOK, NothingMoves DEF TerminateCallerCall

LEMMA RedirectCallerCallOK ==
  ASSUME IndInv, NEW stage \in Stage, NEW STATE rest, \A u \in rest : WellFormed(u),
         RedirectCallerCall(stage, rest)
  PROVE  Moved
<1>0. caller \in Caller /\ leg \in [Sids -> LegStates]
  BY DEF IndInv, TypeOK
<1>1. CASE UNCHANGED <<caller, leg>> /\ tasks' = rest
  BY <1>1, NothingMoves
<1>2. CASE /\ caller' = [at |-> "fetch", req |-> caller.req + 1, stage |-> stage]
           /\ leg' = IF caller.at = "conference" THEN EmptiedLegs ELSE leg
           /\ tasks' = rest \cup {FlowTask("read", caller.req + 1, stage)}
                \cup (IF caller.at = "conference" THEN ConferenceEndEvents ELSE {})
  <2>1. caller.req + 1 \in Nat
    BY <1>0 DEF Caller
  <2>2. caller' \in Caller /\ caller'.at = "fetch"
    BY <1>2, <2>1 DEF Caller
  <2>3. leg' \in [Sids -> LegStates]
    BY <1>0, <1>2 DEF EmptiedLegs, LegStates
  <2>4. WellFormed(FlowTask("read", caller.req + 1, stage))
    BY <2>1, FlowTaskWellFormed
  <2>5. \A u \in tasks' : WellFormed(u)
    BY <1>2, <2>4, EndEventsWellFormed
  <2> QED
    BY <2>2, <2>3, <2>5 DEF Moved
<1> QED
  BY <1>1, <1>2 DEF RedirectCallerCall

\* The variables a handler reads, as IndInv types them.
LEMMA Typed ==
  ASSUME IndInv
  PROVE  /\ row \in Row /\ meta \in Meta /\ caller \in Caller
         /\ leg \in [Sids -> LegStates] /\ legStage \in [Sids -> 0 .. NumStages]
         /\ caller.at = "conference" => caller.stage <= NumStages
  BY DEF IndInv, TypeOK

\* Handlers that write the row's metaValue or nothing, and leave the legs alone.
LEMMA HandlerStep ==
  ASSUME IndInv, NEW t \in tasks, row' \in Row, meta' \in Meta,
         UNCHANGED <<caller, leg, legStage>>,
         \A u \in tasks' : u \in Others(t) \/ WellFormed(u)
  PROVE  IndInv'
  BY Typed, CallerUnchangedStep DEF Others, WellFormed

\* The call flow's steps keep the invariant.
LEMMA FlowStepOK ==
  ASSUME IndInv, NEW t \in tasks, FlowStep(t)
  PROVE  IndInv'
<1> USE NumStagesType
<1>0. WellFormed(t)
  BY TasksWellFormed
<1>1. \A u \in Others(t) : WellFormed(u)
  BY TasksWellFormed DEF Others
<1>2. CASE FlowAction(t)
  <2> DEFINE u == [t EXCEPT !.pc = "read", !.stage = @ + 1]
  <2>1. t.stage + 1 \in Stage
    BY <1>0, <1>2 DEF FlowAction, WellFormed, TaskOK, Task, Stage
  <2>2. u \in Task /\ u.kind = "flow" /\ u.pc = "read"
    <3>1. \A n \in Stage : /\ [t EXCEPT !.pc = "read", !.stage = n] \in Task
                           /\ [t EXCEPT !.pc = "read", !.stage = n].kind = t.kind
                           /\ [t EXCEPT !.pc = "read", !.stage = n].pc = "read"
      BY <1>0 DEF WellFormed, Task, Points
    <3> QED
      BY <1>2, <2>1, <3>1 DEF FlowAction
  <2> HIDE DEF u
  <2>3. WellFormed(u)
    BY <2>2 DEF WellFormed, TaskOK
  <2>4. row' \in Row
    BY <1>2, Typed DEF FlowAction, Row, Answered
  <2>5. CASE UNCHANGED <<caller, leg>> /\ tasks' \subseteq Others(t) \cup {u}
    BY <1>2, <2>3, <2>4, <2>5, Typed, HandlerStep DEF FlowAction
  <2>6. CASE CallerEnds(Others(t))
    BY <1>1, <1>2, <2>4, <2>6, CallerEndsOK, MovedStep DEF FlowAction
  <2> QED
    BY <1>2, <2>5, <2>6 DEF FlowAction, Become, u
<1>3. CASE FlowGoodbye(t)
  <2>1. CASE UNCHANGED <<caller, leg>> /\ tasks' = Others(t)
    BY <1>3, <2>1, Typed, HandlerStep DEF FlowGoodbye
  <2>2. CASE CallerEnds(Others(t))
    BY <1>1, <1>3, <2>2, Typed, CallerEndsOK, MovedStep DEF FlowGoodbye
  <2> QED
    BY <1>3, <2>1, <2>2 DEF FlowGoodbye
<1>4. CASE FlowRead(t)
  <2> DEFINE u == [t EXCEPT !.pc = "write", !.snap = meta]
  <2>1. u \in Task /\ u.kind = "flow" /\ u.stage = t.stage
    BY <1>0, <1>4, Typed DEF FlowRead, WellFormed, Task, Points
  <2>2. t.stage <= NumStages
    BY <1>4 DEF FlowRead
  <2>3. tasks' = Others(t) \cup {u}
    BY <1>4 DEF FlowRead, Become
  <2> HIDE DEF u
  <2>4. WellFormed(u)
    BY <2>1, <2>2 DEF WellFormed, TaskOK
  <2> QED
    BY <1>4, <2>3, <2>4, Typed, HandlerStep DEF FlowRead
<1>5. CASE FlowWrite(t)
  <2>1. /\ t.stage \in 0 .. NumStages /\ t.stage \in Stage
        /\ t.req \in Nat /\ t.snap \in Meta
    BY <1>0, <1>5 DEF FlowWrite, WellFormed, TaskOK, Task, Stage
  <2>2. meta' \in Meta
    BY <1>5, <2>1 DEF FlowWrite, Meta
  <2>3. CASE UNCHANGED caller /\ tasks' = Others(t)
    BY <1>5, <2>2, <2>3, Typed, HandlerStep DEF FlowWrite
  <2>4. CASE /\ caller' = [caller EXCEPT !.at = "conference", !.stage = t.stage]
             /\ tasks' = Others(t) \cup {CallerTask("callerJoin", t.req)}
    <3>1. caller' \in Caller /\ caller'.stage <= NumStages
      <4> DEFINE c == [caller EXCEPT !.at = "conference"]
                 d == [c EXCEPT !.stage = t.stage]
      <4>1. c \in Caller
        BY Typed DEF Caller
      <4>2. d \in Caller /\ d.stage = t.stage
        BY <2>1, <4>1 DEF Caller
      <4>3. caller' = d
        BY <2>4
      <4> QED
        BY <2>1, <4>2, <4>3
    <3>2. \A u \in tasks' : WellFormed(u)
      BY <1>1, <2>1, <2>4, CallerTaskWellFormed
    <3> QED
      BY <1>5, <2>2, <3>1, <3>2, Typed DEF FlowWrite, IndInv, TypeOK, WellFormed, TaskOK
  <2> QED
    BY <1>5, <2>3, <2>4 DEF FlowWrite
<1> QED
  BY <1>2, <1>3, <1>4, <1>5 DEF FlowStep

\* The steps of an agent's participant-join keep the invariant.
LEMMA JoinStepOK ==
  ASSUME IndInv, NEW t \in tasks, JoinStep(t)
  PROVE  IndInv'
<1> USE NumStagesType
<1>0. WellFormed(t)
  BY TasksWellFormed
<1>1. CASE JoinRead(t)
  <2> DEFINE u == [t EXCEPT !.pc = "answer", !.snap = meta]
  <2>1. u \in Task /\ u.kind = "agentJoin" /\ u.sid = t.sid
    BY <1>0, <1>1, Typed DEF JoinRead, WellFormed, Task, Points
  <2>2. t.sid \in Sids
    BY <1>0, <1>1 DEF JoinRead, WellFormed, TaskOK
  <2>3. tasks' = Others(t) \cup {u}
    BY <1>1 DEF JoinRead, Become
  <2> HIDE DEF u
  <2>4. WellFormed(u)
    BY <2>1, <2>2 DEF WellFormed, TaskOK
  <2> QED
    BY <1>1, <2>3, <2>4, Typed, HandlerStep DEF JoinRead
<1>2. CASE JoinAnswer(t)
  <2> DEFINE others == t.snap.sids \ {t.sid}
             u == [t EXCEPT !.pc = "hang", !.todo = others]
  <2>1. others \subseteq Sids
    BY <1>0 DEF WellFormed, Task, Meta
  <2>2. u \in Task /\ u.kind = "agentJoin" /\ u.sid = t.sid
    BY <1>0, <1>2, <2>1 DEF JoinAnswer, WellFormed, Task, Points
  <2>3. t.sid \in Sids
    BY <1>0, <1>2 DEF JoinAnswer, WellFormed, TaskOK
  <2>4. tasks' \subseteq Others(t) \cup {u}
    BY <1>2 DEF JoinAnswer, Become
  <2>5. row' \in Row
    BY <1>2 DEF JoinAnswer, Row, Statuses
  <2> HIDE DEF u
  <2>6. WellFormed(u)
    BY <2>2, <2>3 DEF WellFormed, TaskOK
  <2> QED
    BY <1>2, <2>4, <2>5, <2>6, Typed, HandlerStep DEF JoinAnswer
<1>3. CASE JoinMetaWrite(t)
  <2>1. t.sid \in Sids /\ t.snap \in Meta
    BY <1>0, <1>3 DEF JoinMetaWrite, WellFormed, TaskOK, Task
  <2>2. meta' \in Meta
    BY <1>3, <2>1 DEF JoinMetaWrite, Meta
  <2> QED
    BY <1>3, <2>2, Typed, HandlerStep DEF JoinMetaWrite
<1> QED
  BY <1>1, <1>2, <1>3 DEF JoinStep

\* The steps of terminatePendingAgentCalls keep the invariant.
LEMMA TermStepOK ==
  ASSUME IndInv, NEW t \in tasks, TermStep(t)
  PROVE  IndInv'
<1>0. WellFormed(t)
  BY TasksWellFormed
<1>1. CASE TermRead(t)
  <2> DEFINE u == [t EXCEPT !.pc = "hang", !.snap = meta, !.todo = meta.sids]
  <2>1. meta.sids \subseteq Sids
    BY Typed DEF Meta
  <2>2. u \in Task /\ u.kind \in {"callerLeave", "conferenceEnd"}
    BY <1>0, <1>1, <2>1, Typed DEF TermRead, WellFormed, Task, Points
  <2>3. tasks' \subseteq Others(t) \cup {u}
    BY <1>1 DEF TermRead, Become
  <2> HIDE DEF u
  <2>4. WellFormed(u)
    BY <2>2 DEF WellFormed, TaskOK
  <2> QED
    BY <1>1, <2>3, <2>4, Typed, HandlerStep DEF TermRead
<1>2. CASE TermMetaWrite(t)
  <2>1. meta' \in Meta
    BY <1>0, <1>2 DEF TermMetaWrite, WellFormed, Task, Meta
  <2> QED
    BY <1>2, <2>1, Typed, HandlerStep DEF TermMetaWrite
<1> QED
  BY <1>1, <1>2 DEF TermStep

\* Hanging up the next leg of the list keeps the invariant.
LEMMA HangNextOK ==
  ASSUME IndInv, NEW t \in tasks, NEW s \in Sids, HangNext(t, s)
  PROVE  IndInv'
<1> USE NumStagesType
<1>0. WellFormed(t)
  BY TasksWellFormed
<1> DEFINE point == IF t.todo = {s} THEN "metaWrite" ELSE "hang"
           u == [t EXCEPT !.todo = @ \ {s}, !.pc = point]
<1>1. HangupLeg(s, Others(t) \cup {u}) /\ UNCHANGED <<row, meta, legStage>> /\ t.pc = "hang"
  BY DEF HangNext
<1>2. point \in {"metaWrite", "hang"} /\ point \in Points
  BY DEF Points
<1> HIDE DEF point
<1>3. t.todo \ {s} \subseteq Sids
  BY <1>0 DEF WellFormed, Task
<1>4. u \in Task /\ u.kind = t.kind /\ u.pc = point /\ u.sid = t.sid
      /\ u.stage = t.stage
  BY <1>0, <1>2, <1>3 DEF WellFormed, Task
<1> HIDE DEF u
<1>5. WellFormed(u)
  BY <1>0, <1>1, <1>2, <1>4 DEF WellFormed, TaskOK
<1>6. \A w \in Others(t) \cup {u} : WellFormed(w)
  BY <1>5, TasksWellFormed DEF Others
<1> QED
  BY <1>1, <1>6, HangupLegOK, MovedStep, Typed

\* The steps of handleAgentCallStatus keep the invariant.
LEMMA StatusStepOK ==
  ASSUME IndInv, NEW t \in tasks, StatusStep(t)
  PROVE  IndInv'
<1> USE NumStagesType
<1>0. WellFormed(t) /\ t.kind = "agentStatus" /\ t.sid \in Sids /\ t \in Task
  <2>1. WellFormed(t)
    BY TasksWellFormed
  <2>2. t.kind = "agentStatus"
    BY DEF StatusStep, StatusCompleted, StatusRemoveRead, StatusRemoveWrite, StatusCheck,
           StatusFailWrite, StatusTest, StatusRedirect, StatusClearRead,
           StatusClearWrite
  <2> QED
    BY <2>1, <2>2 DEF WellFormed, TaskOK
\* Its successors only change the point and the copy of metaValue.
<1>1. ASSUME NEW pc \in Points, NEW snap \in Meta
      PROVE  WellFormed([t EXCEPT !.pc = pc, !.snap = snap])
  <2> DEFINE u == [t EXCEPT !.pc = pc, !.snap = snap]
  <2>1. u \in Task /\ u.kind = "agentStatus" /\ u.sid = t.sid
    BY <1>0 DEF Task
  <2> HIDE DEF u
  <2>2. WellFormed(u)
    BY <1>0, <2>1 DEF WellFormed, TaskOK
  <2> QED
    BY <2>2 DEF u
<1>2. ASSUME NEW pc \in Points
      PROVE  WellFormed([t EXCEPT !.pc = pc])
  <2> DEFINE u == [t EXCEPT !.pc = pc]
  <2>1. u \in Task /\ u.kind = "agentStatus" /\ u.sid = t.sid
    BY <1>0 DEF Task
  <2> HIDE DEF u
  <2>2. WellFormed(u)
    BY <1>0, <2>1 DEF WellFormed, TaskOK
  <2> QED
    BY <2>2 DEF u
<1>3. t.snap \in Meta /\ NoMeta \in Meta
  BY <1>0 DEF Task, Meta, NoMeta
<1>4. CASE StatusCompleted(t)
  BY <1>4, Typed, HandlerStep DEF StatusCompleted
<1>5. CASE StatusRemoveRead(t)
  BY <1>1, <1>5, Typed, HandlerStep DEF StatusRemoveRead, Become, Points
<1>6. CASE StatusRemoveWrite(t)
  <2>1. meta' \in Meta
    BY <1>3, <1>6 DEF StatusRemoveWrite, Meta
  <2> QED
    BY <1>1, <1>3, <1>6, <2>1, Typed, HandlerStep DEF StatusRemoveWrite, Become, Points
<1>7. CASE StatusCheck(t)
  <2>1. /\ WellFormed([t EXCEPT !.pc = "failWrite", !.snap = meta])
        /\ WellFormed([t EXCEPT !.pc = "test"])
    BY <1>1, <1>2, Typed DEF Points
  <2>2. \A u \in tasks' : u \in Others(t) \/ WellFormed(u)
    BY <1>7, <2>1 DEF StatusCheck, Become
  <2> QED
    BY <1>7, <2>2, Typed, HandlerStep DEF StatusCheck
<1>8. CASE StatusFailWrite(t)
  <2>1. meta' \in Meta
    BY <1>3, <1>8 DEF StatusFailWrite, Meta
  <2> QED
    BY <1>1, <1>3, <1>8, <2>1, Typed, HandlerStep DEF StatusFailWrite, Become, Points
<1>9. CASE StatusRedirect(t)
  <2>1. legStage[t.sid] + 1 \in Stage
    BY <1>0, Typed DEF Stage
  <2>2. \A w \in Others(t) \cup {[t EXCEPT !.pc = "clearRead"]} : WellFormed(w)
    BY <1>2, TasksWellFormed DEF Others, Points
  <2> QED
    BY <1>9, <2>1, <2>2, RedirectCallerCallOK, MovedStep, Typed DEF StatusRedirect
<1>10. CASE StatusClearRead(t)
  BY <1>1, <1>10, Typed, HandlerStep DEF StatusClearRead, Become, Points
<1>11. CASE StatusClearWrite(t)
  <2>1. meta' \in Meta
    BY <1>3, <1>11 DEF StatusClearWrite, Meta
  <2> QED
    BY <1>11, <2>1, Typed, HandlerStep DEF StatusClearWrite
<1>12. CASE StatusTest(t)
  <2>1. WellFormed([t EXCEPT !.pc = "redirect"])
    BY <1>2 DEF Points
  <2>2. \A u \in tasks' : u \in Others(t) \/ WellFormed(u)
    BY <1>12, <2>1 DEF StatusTest, Become
  <2> QED
    BY <1>12, <2>2, Typed, HandlerStep DEF StatusTest
<1> QED
  BY <1>4, <1>5, <1>6, <1>7, <1>8, <1>9, <1>10, <1>11, <1>12 DEF StatusStep

\* The leave of an agent and the final status of the caller's leg.
LEMMA EndStepOK ==
  ASSUME IndInv, NEW t \in tasks, AgentLeave(t) \/ VoiceStatus(t)
  PROVE  IndInv'
<1>1. CASE AgentLeave(t)
  <2>1. \A u \in Others(t) : WellFormed(u)
    BY TasksWellFormed DEF Others
  <2> QED
    BY <1>1, <2>1, TerminateCallerCallOK, MovedStep, Typed DEF AgentLeave
<1>2. CASE VoiceStatus(t)
  <2>1. row' \in Row
    BY <1>2, Typed DEF VoiceStatus, Row, Statuses
  <2> QED
    BY <1>2, <2>1, Typed, HandlerStep DEF VoiceStatus
<1> QED
  BY <1>1, <1>2

\* What caller and agents do on their own keeps the invariant.
LEMMA EnvironmentOK ==
  ASSUME IndInv,
         \/ CallerHangsUp
         \/ \E s \in Sids : AgentAnswers(s) \/ AgentMisses(s) \/ AgentHangsUp(s)
  PROVE  IndInv'
<1>1. CASE CallerHangsUp
  BY <1>1, TasksWellFormed, CallerEndsOK, MovedStep, Typed DEF CallerHangsUp
<1>2. ASSUME NEW s \in Sids, AgentAnswers(s) PROVE IndInv'
  <2>1. WellFormed(AgentTask("agentJoin", "read", s))
    BY AgentTaskWellFormed DEF Points
  <2>2. leg' \in [Sids -> LegStates]
    BY <1>2, Typed DEF AgentAnswers, LegStates
  <2> QED
    BY <1>2, <2>1, <2>2, Typed, CallerUnchangedStep DEF AgentAnswers, WellFormed
<1>3. ASSUME NEW s \in Sids, AgentMisses(s) \/ AgentHangsUp(s) PROVE IndInv'
  BY <1>3, TasksWellFormed, LegEndsOK, MovedStep, Typed DEF AgentMisses, AgentHangsUp
<1> QED
  BY <1>1, <1>2, <1>3

\* A step that changes nothing.
LEMMA StutterOK ==
  ASSUME IndInv, UNCHANGED vars
  PROVE  IndInv'
  BY DEF IndInv, TypeOK, TaskOK, vars

LEMMA InitOK ==
  ASSUME Init
  PROVE  IndInv
<1> USE NumStagesType
<1>1. WellFormed(FlowTask("read", 1, 1))
  BY FlowTaskWellFormed DEF Stage
<1>2. row \in Row /\ meta \in Meta /\ caller \in Caller
  BY DEF Init, Row, Statuses, Meta, NoMeta, Caller, Stage
<1>3. leg \in [Sids -> LegStates] /\ legStage \in [Sids -> 0 .. NumStages]
  BY DEF Init, LegStates
<1>4. caller.at # "conference"
  BY DEF Init
<1> QED
  BY <1>1, <1>2, <1>3, <1>4 DEF Init, IndInv, TypeOK, WellFormed

\* Every step keeps the invariant.
LEMMA NextOK ==
  ASSUME IndInv, [Next]_vars
  PROVE  IndInv'
<1>1. ASSUME NEW t \in tasks, TaskStep(t) PROVE IndInv'
  BY <1>1, FlowStepOK, DialStepOK, JoinStepOK, TermStepOK, StatusStepOK,
     HangNextOK, EndStepOK DEF TaskStep
<1> QED
  BY <1>1, EnvironmentOK, StutterOK DEF Next, Server

\* Whatever the flow, the number of legs and the behaviour of Twilio, the row and
\* the handlers stay within their types: in particular no webhook ever redirects
\* the caller past the step after the last one.
THEOREM TypeCorrect == Spec => []TypeOK
<1>1. Init => IndInv
  BY InitOK
<1>2. IndInv /\ [Next]_vars => IndInv'
  BY NextOK
<1>3. IndInv => TypeOK
  BY DEF IndInv
<1> QED
  BY <1>1, <1>2, <1>3, PTL DEF Spec

-----------------------------------------------------------------------------
(***************************************************************************)
(* What wasCallAnswered takes for an answer is one, as long as the caller  *)
(* is there.                                                               *)
(***************************************************************************)

HasJoined(state) == state \in {"joined", "done"}
AnAgentJoined    == \E s \in Sids : HasJoined(leg[s])

\* A handler that may write what counts as an answer is the trace of an agent who joined
\* (the handler of the agent's own participant-join) or of a caller who is gone (that of
\* the final status).  The legs and the caller are parameters, so that the same formula
\* speaks of the state before and the state after a step.
Backed(t, legs, c) ==
  /\ t.kind = "agentJoin" => HasJoined(legs[t.sid])
  /\ t.kind = "voiceStatus" => c.at = "ended"

AnsweredInv ==
  /\ AnsweredOrGone
  /\ \A t \in tasks : Backed(t, leg, caller)

\* A leg that has joined keeps having joined, and a caller who is gone stays away.
JoinedKept ==
  /\ \A s \in Sids : HasJoined(leg[s]) => HasJoined(leg'[s])
  /\ caller.at = "ended" => caller'.at = "ended"

\* The row counts as answered after the step only for a reason.
AnswerBacked == Answered' => Answered \/ AnAgentJoined \/ caller.at = "ended"

\* The tasks after the step are backed by the legs after the step.
AllBacked == JoinedKept /\ \A u \in tasks' : Backed(u, leg', caller')

\* A backed task that is well-formed stays backed.
LEMMA BackedKept ==
  ASSUME JoinedKept, NEW u, WellFormed(u), Backed(u, leg, caller)
  PROVE  Backed(u, leg', caller')
  BY DEF JoinedKept, Backed, WellFormed, TaskOK

\* No event of a conference that ends can mark the row answered.
LEMMA EndEventsBacked ==
  ASSUME IndInv, NEW legs, NEW c
  PROVE  \A u \in ConferenceEndEvents : Backed(u, legs, c)
<1>1. ASSUME NEW s \in Joined
      PROVE  /\ AgentTask("agentLeave", "read", s).kind = "agentLeave"
             /\ AgentTask("agentStatus", "removeRead", s).kind = "agentStatus"
  BY AgentTaskType DEF Joined, Points
<1>2. /\ CallerTask("callerLeave", caller.req).kind = "callerLeave"
      /\ CallerTask("conferenceEnd", caller.req).kind = "conferenceEnd"
  BY CallerTaskType, Typed DEF Caller
<1>3. \A u \in ConferenceEndEvents :
        u.kind \in {"agentLeave", "agentStatus", "callerLeave", "conferenceEnd"}
  BY <1>1, <1>2 DEF ConferenceEndEvents
<1> QED
  BY <1>3 DEF Backed

\* Emptying the conference turns joined legs into done ones.
LEMMA EmptiedLegsKeep ==
  ASSUME leg \in [Sids -> LegStates], leg' = EmptiedLegs,
         caller.at = "ended" => caller'.at = "ended"
  PROVE  JoinedKept
  BY DEF JoinedKept, HasJoined, EmptiedLegs

\* How a leg ends: an agent who was in the conference has joined it.
LEMMA LegEndsBacked ==
  ASSUME IndInv, NEW s \in Sids, NEW STATE rest,
         \A u \in rest : WellFormed(u) /\ Backed(u, leg, caller),
         LegEnds(s, rest)
  PROVE  AllBacked
<1>1. CASE leg[s] = "ringing"
  <2>1. /\ leg' = [leg EXCEPT ![s] = "missed"]
        /\ tasks' = rest \cup {AgentTask("agentStatus", "removeRead", s)}
    BY <1>1 DEF LegEnds
  <2>2. JoinedKept
    BY <1>1, <2>1, Typed DEF LegEnds, JoinedKept, HasJoined
  <2>3. AgentTask("agentStatus", "removeRead", s).kind = "agentStatus"
    BY AgentTaskType DEF Points
  <2>4. Backed(AgentTask("agentStatus", "removeRead", s), leg', caller')
    BY <2>3 DEF Backed
  <2> QED
    BY <2>1, <2>2, <2>4, BackedKept DEF AllBacked
<1>2. CASE leg[s] = "joined"
  <2>1. leg' = EmptiedLegs
    BY <1>2 DEF LegEnds
  <2>2. JoinedKept
    <3>1. caller.at = "ended" => caller' = caller
      BY <1>2 DEF LegEnds
    <3> QED
      BY <2>1, <3>1, EmptiedLegsKeep, Typed
  <2>3. HasJoined(leg'[s])
    BY <1>2, <2>2 DEF JoinedKept, HasJoined
  <2>4. \A u : (u.kind = "flow") => Backed(u, leg', caller')
    BY DEF Backed
  <2>5. CASE caller.at = "conference"
    <3>1. caller.req + 1 \in Nat /\ caller.stage \in Stage
      BY Typed DEF Caller
    <3>2. FlowTask("action", caller.req + 1, caller.stage).kind = "flow"
      BY <3>1, FlowTaskType DEF Points
    <3>3. Backed(FlowTask("action", caller.req + 1, caller.stage), leg', caller')
      BY <2>4, <3>2
    <3>4. tasks' = rest \cup ConferenceEndEvents
             \cup {FlowTask("action", caller.req + 1, caller.stage)}
      BY <1>2, <2>5 DEF LegEnds
    <3> QED
      BY <2>2, <3>3, <3>4, BackedKept, EndEventsBacked DEF AllBacked
  <2>6. CASE caller.at # "conference"
    <3>1. tasks' = rest \cup ConferenceEndEvents
      BY <1>2, <2>6 DEF LegEnds
    <3> QED
      BY <2>2, <3>1, BackedKept, EndEventsBacked DEF AllBacked
  <2> QED
    BY <2>5, <2>6
<1> QED
  BY <1>1, <1>2 DEF LegEnds

\* A request that changes nothing.
LEMMA NothingMovesBacked ==
  ASSUME NEW STATE rest, \A u \in rest : WellFormed(u) /\ Backed(u, leg, caller),
         tasks' = rest, leg' = leg, caller' = caller
  PROVE  AllBacked
  BY DEF AllBacked, JoinedKept

\* The caller's leg ends, with or without a late <Dial action>.
LEMMA CallerEndsBacked ==
  ASSUME IndInv, NEW STATE rest,
         \A u \in rest : WellFormed(u) /\ Backed(u, leg, caller),
         CallerEnds(rest)
  PROVE  AllBacked
<1> DEFINE late == FlowTask("action", caller.req + 1, caller.stage)
<1>1. /\ tasks' \subseteq rest \cup {VoiceTask} \cup ConferenceEndEvents \cup {late}
      /\ leg' \in {leg, EmptiedLegs}
  BY DEF CallerEnds
<1>2. caller'.at = "ended"
  BY Typed DEF CallerEnds, Caller
<1>3. JoinedKept
  <2>1. CASE leg' = leg
    BY <1>2, <2>1 DEF JoinedKept
  <2>2. CASE leg' = EmptiedLegs
    BY <1>2, <2>2, EmptiedLegsKeep, Typed
  <2> QED
    BY <1>1, <2>1, <2>2
<1>4. Backed(VoiceTask, leg', caller')
  BY <1>2, VoiceTaskType DEF Backed
<1>5. late.kind = "flow"
  <2>1. caller.req + 1 \in Nat /\ caller.stage \in Stage
    BY Typed DEF Caller
  <2> QED
    BY <2>1, FlowTaskType DEF Points
<1> HIDE DEF late
<1>6. Backed(late, leg', caller')
  BY <1>5 DEF Backed
<1> QED
  BY <1>1, <1>3, <1>4, <1>6, BackedKept, EndEventsBacked DEF AllBacked

LEMMA RedirectCallerCallBacked ==
  ASSUME IndInv, NEW stage \in Stage, NEW STATE rest,
         \A u \in rest : WellFormed(u) /\ Backed(u, leg, caller),
         RedirectCallerCall(stage, rest)
  PROVE  AllBacked
<1>1. CASE UNCHANGED <<caller, leg>> /\ tasks' = rest
  BY <1>1, NothingMovesBacked
<1>2. CASE /\ caller.at # "ended"
           /\ leg' = IF caller.at = "conference" THEN EmptiedLegs ELSE leg
           /\ tasks' = rest \cup {FlowTask("read", caller.req + 1, stage)}
                \cup (IF caller.at = "conference" THEN ConferenceEndEvents ELSE {})
  <2>1. caller.req + 1 \in Nat
    BY Typed DEF Caller
  <2>2. /\ FlowTask("read", caller.req + 1, stage).kind = "flow"
        /\ FlowTask("read", caller.req + 1, stage).pc = "read"
    BY <2>1, FlowTaskType DEF Points
  <2>3. Backed(FlowTask("read", caller.req + 1, stage), leg', caller')
    BY <2>2 DEF Backed
  <2>4. JoinedKept
    <3>1. CASE leg' = leg
      BY <1>2, <3>1 DEF JoinedKept
    <3>2. CASE leg' = EmptiedLegs
      BY <1>2, <3>2, EmptiedLegsKeep, Typed
    <3> QED
      BY <1>2, <3>1, <3>2
  <2> QED
    BY <1>2, <2>3, <2>4, BackedKept, EndEventsBacked DEF AllBacked
<1> QED
  BY <1>1, <1>2 DEF RedirectCallerCall

\* A step that keeps joined legs joined and only adds backed tasks.
LEMMA BackedStep ==
  ASSUME IndInv, AnsweredInv, JoinedKept,
         AnswerBacked,
         \A u \in tasks' : u \in tasks \/ Backed(u, leg', caller')
  PROVE  AnsweredInv'
<1>1. \A u \in tasks' : Backed(u, leg', caller')
  BY BackedKept, TasksWellFormed DEF AnsweredInv
<1>2. AnsweredOrGone'
  BY DEF AnsweredInv, AnsweredOrGone, AnswerBacked, AnAgentJoined, JoinedKept, HasJoined
<1> QED
  BY <1>1, <1>2 DEF AnsweredInv

\* A step of Twilio's that leaves the row alone.
LEMMA AllBackedStep ==
  ASSUME AnsweredInv, AllBacked, row' = row
  PROVE  AnsweredInv'
  BY DEF AnsweredInv, AnsweredOrGone, Answered, AllBacked, JoinedKept, HasJoined

\* A handler's own next record: it stays the handler it was.
LEMMA Successor ==
  ASSUME IndInv, AnsweredInv, NEW t \in tasks, NEW u,
         u.kind = t.kind, u.sid = t.sid
  PROVE  Backed(u, leg, caller)
  BY DEF AnsweredInv, Backed

\* A handler's step that leaves the legs alone, goes on as u or ends.
LEMMA QuietStep ==
  ASSUME IndInv, AnsweredInv, NEW t \in tasks, NEW u,
         UNCHANGED leg, caller.at = "ended" => caller'.at = "ended",
         tasks' \subseteq Others(t) \cup {u}, Backed(u, leg, caller),
         AnswerBacked
  PROVE  AnsweredInv'
<1>1. JoinedKept
  BY DEF JoinedKept
<1>2. \A w \in tasks' : w \in tasks \/ Backed(w, leg', caller')
  BY DEF Others, Backed
<1> QED
  BY <1>1, <1>2, BackedStep

LEMMA FlowStepBacked ==
  ASSUME IndInv, AnsweredInv, NEW t \in tasks, FlowStep(t)
  PROVE  AnsweredInv'
<1>0. WellFormed(t) /\ \A u \in Others(t) : WellFormed(u) /\ Backed(u, leg, caller)
  BY TasksWellFormed DEF Others, AnsweredInv
<1>1. CASE FlowAction(t)
  <2>1. AnswerBacked
    BY <1>1, Typed DEF FlowAction, AnswerBacked, Answered, Row
  <2> DEFINE u == [t EXCEPT !.pc = "read", !.stage = @ + 1]
  <2>2. CASE UNCHANGED <<caller, leg>> /\ tasks' \subseteq Others(t) \cup {u}
    <3>1. u.kind = "flow" /\ u.pc = "read"
      BY <1>0, <1>1 DEF FlowAction, WellFormed, Task
    <3> HIDE DEF u
    <3>2. Backed(u, leg, caller)
      BY <3>1 DEF Backed
    <3> QED
      BY <2>1, <2>2, <3>2, QuietStep
  <2>3. CASE CallerEnds(Others(t))
    <3>1. AllBacked
      BY <1>0, <2>3, CallerEndsBacked
    <3> QED
      BY <2>1, <3>1, BackedStep DEF AllBacked
  <2> QED
    BY <1>1, <2>2, <2>3 DEF FlowAction, Become
<1>2. CASE FlowGoodbye(t)
  <2>1. CASE CallerEnds(Others(t))
    BY <1>0, <1>2, <2>1, CallerEndsBacked, AllBackedStep DEF FlowGoodbye
  <2>2. CASE UNCHANGED <<caller, leg>> /\ tasks' = Others(t)
    BY <1>0, <1>2, <2>2, NothingMovesBacked, AllBackedStep DEF FlowGoodbye
  <2> QED
    BY <1>2, <2>1, <2>2 DEF FlowGoodbye
<1>3. CASE FlowRead(t)
  <2> DEFINE u == [t EXCEPT !.pc = "write", !.snap = meta]
  <2>1. u.kind = "flow" /\ u.pc = "write"
    BY <1>0, <1>3 DEF FlowRead, WellFormed, Task
  <2>2. tasks' \subseteq Others(t) \cup {u}
    BY <1>3 DEF FlowRead, Become
  <2> HIDE DEF u
  <2>3. Backed(u, leg, caller)
    BY <2>1 DEF Backed
  <2> QED
    BY <1>3, <2>2, <2>3, QuietStep DEF FlowRead, AnswerBacked, Answered
<1>4. CASE FlowWrite(t)
  <2> DEFINE u == CallerTask("callerJoin", t.req)
  <2>1. u.kind = "callerJoin"
    BY <1>0, CallerTaskType DEF WellFormed, Task
  <2>2. tasks' \subseteq Others(t) \cup {u}
    BY <1>4 DEF FlowWrite
  <2> HIDE DEF u
  <2>3. Backed(u, leg, caller)
    BY <2>1 DEF Backed
  <2> QED
    BY <1>4, <2>2, <2>3, QuietStep DEF FlowWrite, IsCurrent, AnswerBacked, Answered
<1> QED
  BY <1>1, <1>2, <1>3, <1>4 DEF FlowStep

\* A caller's participant-join, however it goes on, cannot set answeredAt.
LEMMA DialStepBacked ==
  ASSUME IndInv, AnsweredInv, NEW t \in tasks, DialStep(t)
  PROVE  AnsweredInv'
<1>0. t \in Task
  BY DEF IndInv, TypeOK
<1>1. PICK u : tasks' \subseteq Others(t) \cup {u} /\ u.kind = "callerJoin"
  <2>1. CASE DialRead(t)
    <3> DEFINE w == [t EXCEPT !.pc = "call", !.stage = meta.target,
                              !.left = Stages[meta.target].targets]
    <3>1. w.kind = "callerJoin" /\ tasks' \subseteq Others(t) \cup {w}
      BY <1>0, <2>1 DEF DialRead, Become, Task
    <3> QED
      BY <3>1
  <2>2. ASSUME NEW s \in Sids, DialCall(t, s)
        PROVE  \E u : tasks' \subseteq Others(t) \cup {u} /\ u.kind = "callerJoin"
    <3> DEFINE w == [t EXCEPT !.pc = "storeRead", !.sid = s]
    <3>1. w.kind = "callerJoin" /\ tasks' \subseteq Others(t) \cup {w}
      BY <1>0, <2>2 DEF DialCall, Become, Task
    <3> QED
      BY <3>1
  <2>3. CASE DialFails(t)
    <3> DEFINE w == [t EXCEPT !.left = @ - 1]
    <3>1. w.kind = "callerJoin" /\ tasks' \subseteq Others(t) \cup {w}
      BY <1>0, <2>3 DEF DialFails, Finish, Become, Task
    <3> QED
      BY <3>1
  <2>4. CASE DialStoreRead(t)
    <3> DEFINE w == [t EXCEPT !.pc = "storeWrite", !.snap = meta]
    <3>1. w.kind = "callerJoin" /\ tasks' \subseteq Others(t) \cup {w}
      BY <1>0, <2>4 DEF DialStoreRead, Become, Task
    <3> QED
      BY <3>1
  <2>5. CASE DialStoreWrite(t)
    <3> DEFINE w == [t EXCEPT !.pc = "call", !.left = @ - 1, !.sid = NoSid,
                              !.snap = NoMeta]
    <3>1. w.kind = "callerJoin" /\ tasks' \subseteq Others(t) \cup {w}
      BY <1>0, <2>5 DEF DialStoreWrite, Finish, Become, Task
    <3> QED
      BY <3>1
  <2> QED
    BY <2>1, <2>2, <2>3, <2>4, <2>5 DEF DialStep
<1>2. JoinedKept
  BY Typed DEF DialStep, DialRead, DialCall, DialFails, DialStoreRead, DialStoreWrite,
               JoinedKept, HasJoined
<1>3. row' = row
  BY DEF DialStep, DialRead, DialCall, DialFails, DialStoreRead, DialStoreWrite
<1>4. Backed(u, leg', caller')
  BY <1>1 DEF Backed
<1> QED
  BY <1>1, <1>2, <1>3, <1>4, BackedStep DEF Others, AnswerBacked, Answered

\* The steps of an agent's participant-join: the row is only marked answered by
\* the handler of an agent who joined.
LEMMA JoinStepBacked ==
  ASSUME IndInv, AnsweredInv, NEW t \in tasks, JoinStep(t)
  PROVE  AnsweredInv'
<1>0. t \in Task /\ t.kind = "agentJoin" /\ t.sid \in Sids /\ HasJoined(leg[t.sid])
  <2>1. t.kind = "agentJoin"
    BY DEF JoinStep, JoinRead, JoinAnswer, JoinMetaWrite
  <2>2. WellFormed(t) /\ Backed(t, leg, caller)
    BY TasksWellFormed DEF AnsweredInv
  <2> QED
    BY <2>1, <2>2 DEF WellFormed, TaskOK, Backed
<1>1. CASE JoinRead(t)
  <2> DEFINE u == [t EXCEPT !.pc = "answer", !.snap = meta]
  <2>1. u.kind = t.kind /\ u.sid = t.sid
    BY <1>0 DEF Task
  <2>2. tasks' \subseteq Others(t) \cup {u}
    BY <1>1 DEF JoinRead, Become
  <2> HIDE DEF u
  <2>3. Backed(u, leg, caller)
    BY <1>0, <2>1, Successor
  <2> QED
    BY <1>1, <2>2, <2>3, QuietStep DEF JoinRead, AnswerBacked, Answered
<1>2. CASE JoinAnswer(t)
  <2> DEFINE u == [t EXCEPT !.pc = "hang", !.todo = t.snap.sids \ {t.sid}]
  <2>1. u.kind = t.kind /\ u.sid = t.sid
    BY <1>0 DEF Task
  <2>2. tasks' \subseteq Others(t) \cup {u}
    BY <1>2 DEF JoinAnswer, Become
  <2> HIDE DEF u
  <2>3. Backed(u, leg, caller)
    BY <1>0, <2>1, Successor
  <2>4. AnAgentJoined
    BY <1>0 DEF AnAgentJoined
  <2> QED
    BY <1>2, <2>2, <2>3, <2>4, QuietStep DEF JoinAnswer, AnswerBacked, Answered
<1>3. CASE JoinMetaWrite(t)
  <2>1. Backed(t, leg, caller)
    BY DEF AnsweredInv
  <2> QED
    BY <1>3, <2>1, QuietStep DEF JoinMetaWrite, AnswerBacked, Answered
<1> QED
  BY <1>1, <1>2, <1>3 DEF JoinStep

LEMMA TermStepBacked ==
  ASSUME IndInv, AnsweredInv, NEW t \in tasks, TermStep(t)
  PROVE  AnsweredInv'
<1>0. t \in Task
  BY DEF IndInv, TypeOK
<1>1. CASE TermRead(t)
  <2> DEFINE u == [t EXCEPT !.pc = "hang", !.snap = meta, !.todo = meta.sids]
  <2>1. u.kind = t.kind
    BY <1>0 DEF Task
  <2>2. u.kind \notin {"agentJoin", "voiceStatus"}
    BY <1>1, <2>1 DEF TermRead
  <2>3. tasks' \subseteq Others(t) \cup {u}
    BY <1>1 DEF TermRead, Become
  <2> HIDE DEF u
  <2>4. Backed(u, leg, caller)
    BY <2>2 DEF Backed
  <2> QED
    BY <1>1, <2>3, <2>4, QuietStep DEF TermRead, AnswerBacked, Answered
<1>2. CASE TermMetaWrite(t)
  <2>1. Backed(t, leg, caller)
    BY DEF AnsweredInv
  <2> QED
    BY <1>2, <2>1, QuietStep DEF TermMetaWrite, AnswerBacked, Answered
<1> QED
  BY <1>1, <1>2 DEF TermStep

LEMMA HangNextBacked ==
  ASSUME IndInv, AnsweredInv, NEW t \in tasks, NEW s \in Sids, HangNext(t, s)
  PROVE  AnsweredInv'
<1>0. WellFormed(t)
  BY TasksWellFormed
<1> DEFINE point == IF t.todo = {s} THEN "metaWrite" ELSE "hang"
           u == [t EXCEPT !.todo = @ \ {s}, !.pc = point]
<1>1. HangupLeg(s, Others(t) \cup {u}) /\ row' = row /\ t.pc = "hang"
  BY DEF HangNext
<1>2. point \in {"metaWrite", "hang"} /\ point \in Points
  BY DEF Points
<1> HIDE DEF point
<1>3. t.todo \ {s} \subseteq Sids
  BY <1>0 DEF WellFormed, Task
<1>4. u \in Task /\ u.kind = t.kind /\ u.pc = point /\ u.sid = t.sid
      /\ u.stage = t.stage
  BY <1>0, <1>2, <1>3 DEF WellFormed, Task
<1> HIDE DEF u
<1>5. WellFormed(u)
  BY <1>0, <1>1, <1>2, <1>4 DEF WellFormed, TaskOK
<1>6. Backed(u, leg, caller)
  BY <1>2, <1>4, Successor
<1>7. \A w \in Others(t) \cup {u} : WellFormed(w) /\ Backed(w, leg, caller)
  BY <1>5, <1>6, TasksWellFormed DEF Others, AnsweredInv
<1>8. AllBacked
  BY <1>1, <1>7, LegEndsBacked, NothingMovesBacked DEF HangupLeg
<1> QED
  BY <1>1, <1>8, AllBackedStep

LEMMA StatusStepBacked ==
  ASSUME IndInv, AnsweredInv, NEW t \in tasks, StatusStep(t)
  PROVE  AnsweredInv'
<1>0. t \in Task /\ WellFormed(t) /\ t.kind = "agentStatus" /\ t.sid \in Sids
  <2>1. t.kind = "agentStatus"
    BY DEF StatusStep, StatusCompleted, StatusRemoveRead, StatusRemoveWrite, StatusCheck,
           StatusFailWrite, StatusTest, StatusRedirect, StatusClearRead,
           StatusClearWrite
  <2> QED
    BY <2>1, TasksWellFormed DEF WellFormed, TaskOK
<1>1. CASE StatusRedirect(t)
  <2> DEFINE u == [t EXCEPT !.pc = "clearRead"]
  <2>1. RedirectCallerCall(legStage[t.sid] + 1, Others(t) \cup {u})
    BY <1>1 DEF StatusRedirect
  <2>2. u \in Task /\ u.kind = t.kind /\ u.sid = t.sid
    BY <1>0 DEF Task, Points
  <2>3. legStage[t.sid] + 1 \in Stage
    BY <1>0, NumStagesType, Typed DEF Stage
  <2> HIDE DEF u
  <2>4. WellFormed(u) /\ Backed(u, leg, caller)
    BY <1>0, <2>2 DEF WellFormed, TaskOK, Backed
  <2>5. \A w \in Others(t) \cup {u} : WellFormed(w) /\ Backed(w, leg, caller)
    BY <2>4, TasksWellFormed DEF Others, AnsweredInv
  <2> QED
    BY <1>1, <2>1, <2>3, <2>5, RedirectCallerCallBacked, AllBackedStep
    DEF StatusRedirect
<1>2. CASE ~StatusRedirect(t)
  <2>1. leg' = leg /\ row' = row /\ caller' = caller
    BY <1>2 DEF StatusStep, StatusCompleted, StatusRemoveRead, StatusRemoveWrite,
           StatusCheck, StatusFailWrite, StatusTest, StatusClearRead, StatusClearWrite
  <2> DEFINE OfStatus(w) == w.kind = "agentStatus"
  <2>2. ASSUME NEW pc, NEW snap
        PROVE  OfStatus([t EXCEPT !.pc = pc]) /\ OfStatus([t EXCEPT !.pc = pc, !.snap = snap])
    BY <1>0 DEF Task
  <2>3. OfStatus(t)
    BY <1>0
  <2> HIDE DEF OfStatus
  <2>4. PICK u : tasks' \subseteq Others(t) \cup {u} /\ OfStatus(u)
    <3>1. CASE StatusCompleted(t)
      BY <2>3, <3>1 DEF StatusCompleted
    <3>2. CASE StatusRemoveRead(t)
      BY <2>2, <3>2 DEF StatusRemoveRead, Become
    <3>3. CASE StatusRemoveWrite(t)
      BY <2>2, <3>3 DEF StatusRemoveWrite, Become
    <3>4. CASE StatusCheck(t)
      BY <2>2, <3>4 DEF StatusCheck, Become
    <3>5. CASE StatusFailWrite(t)
      BY <2>2, <3>5 DEF StatusFailWrite, Become
    <3>6. CASE StatusClearRead(t)
      BY <2>2, <3>6 DEF StatusClearRead, Become
    <3>7. CASE StatusClearWrite(t)
      BY <2>3, <3>7 DEF StatusClearWrite
    <3>8. CASE StatusTest(t)
      BY <2>2, <2>3, <3>8 DEF StatusTest, Become
    <3> QED
      BY <1>2, <3>1, <3>2, <3>3, <3>4, <3>5, <3>6, <3>7, <3>8 DEF StatusStep
  <2>5. Backed(u, leg, caller)
    BY <2>4 DEF Backed, OfStatus
  <2> QED
    BY <2>1, <2>4, <2>5, QuietStep DEF AnswerBacked, Answered
<1> QED
  BY <1>1, <1>2

LEMMA EndStepBacked ==
  ASSUME IndInv, AnsweredInv, NEW t \in tasks,
         AgentLeave(t) \/ VoiceStatus(t)
  PROVE  AnsweredInv'
<1>1. CASE AgentLeave(t)
  <2>1. \A u \in Others(t) : WellFormed(u) /\ Backed(u, leg, caller)
    BY TasksWellFormed DEF Others, AnsweredInv
  <2>2. AllBacked
    BY <1>1, <2>1, CallerEndsBacked, NothingMovesBacked DEF AgentLeave, TerminateCallerCall
  <2> QED
    BY <1>1, <2>2, AllBackedStep DEF AgentLeave
<1>2. CASE VoiceStatus(t)
  <2>1. Backed(t, leg, caller)
    BY DEF AnsweredInv
  <2>2. AnswerBacked
    BY <1>2, <2>1 DEF VoiceStatus, Backed, AnswerBacked
  <2> QED
    BY <1>2, <2>1, <2>2, QuietStep DEF VoiceStatus
<1> QED
  BY <1>1, <1>2

LEMMA EnvironmentBacked ==
  ASSUME IndInv, AnsweredInv,
         \/ CallerHangsUp
         \/ \E s \in Sids : AgentAnswers(s) \/ AgentMisses(s) \/ AgentHangsUp(s)
  PROVE  AnsweredInv'
<1>0. \A u \in tasks : WellFormed(u) /\ Backed(u, leg, caller)
  BY TasksWellFormed DEF AnsweredInv
<1>1. CASE CallerHangsUp
  BY <1>0, <1>1, CallerEndsBacked, AllBackedStep DEF CallerHangsUp
<1>2. ASSUME NEW s \in Sids, AgentAnswers(s) PROVE AnsweredInv'
  <2> DEFINE u == AgentTask("agentJoin", "read", s)
  <2>1. JoinedKept /\ HasJoined(leg'[s])
    BY <1>2, Typed DEF AgentAnswers, JoinedKept, HasJoined
  <2>2. u.kind = "agentJoin" /\ u.sid = s
    BY AgentTaskType DEF Points
  <2>3. tasks' = tasks \cup {u}
    BY <1>2 DEF AgentAnswers
  <2> HIDE DEF u
  <2>4. Backed(u, leg', caller')
    BY <2>1, <2>2 DEF Backed
  <2> QED
    BY <1>2, <2>1, <2>3, <2>4, BackedStep DEF AgentAnswers, AnswerBacked, Answered
<1>3. ASSUME NEW s \in Sids, AgentMisses(s) \/ AgentHangsUp(s) PROVE AnsweredInv'
  BY <1>0, <1>3, LegEndsBacked, AllBackedStep DEF AgentMisses, AgentHangsUp
<1> QED
  BY <1>1, <1>2, <1>3

\* wasCallAnswered and its callers: in every flow and whatever Twilio does, a caller who
\* is there counts as answered only when an agent has been in the conference.
THEOREM AnsweredCorrect == Spec => []AnsweredOrGone
<1>1. Init => IndInv /\ AnsweredInv
  <2> SUFFICES ASSUME Init PROVE AnsweredInv
    BY InitOK
  <2>1. FlowTask("read", 1, 1).kind = "flow" /\ FlowTask("read", 1, 1).pc = "read"
    BY NumStagesType, FlowTaskType DEF Points, Stage
  <2> QED
    BY <2>1 DEF Init, AnsweredInv, AnsweredOrGone, Answered, Backed
<1>2. IndInv /\ AnsweredInv /\ [Next]_vars => IndInv' /\ AnsweredInv'
  <2> SUFFICES ASSUME IndInv, AnsweredInv, [Next]_vars PROVE IndInv' /\ AnsweredInv'
    OBVIOUS
  <2>1. ASSUME NEW t \in tasks, TaskStep(t) PROVE AnsweredInv'
    BY <2>1, FlowStepBacked, DialStepBacked, JoinStepBacked, TermStepBacked,
       StatusStepBacked, HangNextBacked, EndStepBacked DEF TaskStep
  <2>2. UNCHANGED vars => AnsweredInv'
    BY DEF vars, AnsweredInv, AnsweredOrGone, Answered, Backed
  <2> QED
    BY <2>1, <2>2, EnvironmentBacked, NextOK DEF Next, Server
<1>3. AnsweredInv => AnsweredOrGone
  BY DEF AnsweredInv
<1> QED
  BY <1>1, <1>2, <1>3, PTL DEF Spec

-----------------------------------------------------------------------------
(***************************************************************************)
(* Flows whose stages dial one agent each: one attempt at a time, and in a *)
(* flow of two stages none that has been left is gone back to.             *)
(***************************************************************************)

OneEach == \A i \in 1 .. NumStages : Stages[i].targets = 1

\* The caller's leg, at c, waits for the answer of this handler.
Current(u, c) == u.kind = "flow" /\ c.at = "fetch" /\ u.req = c.req

\* What the attempt the caller is at is carried on by, when no agent is: the request for
\* TwiML, the caller's participant-join before it dials, or the final status of the agent
\* who did not answer before it redirects.  Whoever carries it on hands it on.
Carries(u, c, legs) ==
  \/ Current(u, c)
  \/ u.kind = "callerJoin" /\ u.pc \in {"read", "call"}
  \/ u.kind = "agentStatus" /\ legs[u.sid] = "missed" /\ u.pc \notin {"clearRead", "clearWrite"}

Up(state) == state \in {"ringing", "joined"}

\* What a handler knows of the caller, the legs and the stages.
Fits(u, c, legs) ==
  /\ u.kind = "flow" /\ c.at # "ended" => u.req <= c.req
  /\ Current(u, c) => u.stage >= c.stage
  /\ u.kind = "callerJoin" /\ u.pc # "read" => u.left = 1 /\ u.stage >= 1
  /\ u.kind = "agentStatus" => legs[u.sid] \in {"missed", "done"}
  /\ u.kind = "agentStatus" /\ u.pc # "removeRead" => legs[u.sid] = "missed"
  /\ u.pc = "hang" => u.kind \notin {"flow", "callerJoin", "agentStatus"}

\* One handler or one agent at most carries the attempt on.
Alone(ts, c, legs) ==
  /\ \A u, v \in ts : Carries(u, c, legs) /\ Carries(v, c, legs) => u = v
  /\ \A r, s \in Sids : Up(legs[r]) /\ Up(legs[s]) => r = s
  /\ \A u \in ts, s \in Sids : ~ (Carries(u, c, legs) /\ Up(legs[s]))

AloneInv ==
  /\ Alone(tasks, caller, leg)
  /\ \A u \in tasks : Fits(u, caller, leg)
  /\ caller.at = "fetch" => \E u \in tasks : Current(u, caller)
  /\ \A s \in Sids : leg[s] # "unused" => legStage[s] >= 1

\* While an agent is rung or talks, no handler carries the attempt on.
LEMMA NobodyCarries ==
  ASSUME AloneInv, NEW s \in Sids, Up(leg[s])
  PROVE  /\ \A u \in tasks : ~ Carries(u, caller, leg)
         /\ \A r \in Sids : r # s => ~ Up(leg[r])
         /\ caller.at # "fetch"
BY DEF AloneInv, Alone, Carries

LEMMA EndEventsQuiet ==
  ASSUME IndInv
  PROVE  \A u \in ConferenceEndEvents :
           /\ u.kind \notin {"flow", "callerJoin"}
           /\ u.kind = "agentStatus" => u.sid \in Joined /\ u.pc = "removeRead"
<1>1. ASSUME NEW s \in Joined
      PROVE  /\ AgentTask("agentLeave", "read", s).kind = "agentLeave"
             /\ AgentTask("agentStatus", "removeRead", s).kind = "agentStatus"
             /\ AgentTask("agentStatus", "removeRead", s).sid = s
             /\ AgentTask("agentStatus", "removeRead", s).pc = "removeRead"
  BY AgentTaskType DEF Joined, Points
<1>2. /\ CallerTask("callerLeave", caller.req).kind = "callerLeave"
      /\ CallerTask("conferenceEnd", caller.req).kind = "conferenceEnd"
  BY CallerTaskType, Typed DEF Caller
<1> QED
  BY <1>1, <1>2 DEF ConferenceEndEvents

\* When the conference is emptied, none of its events carries anything on.
LEMMA EndEventsFit ==
  ASSUME IndInv, NEW c, leg' = EmptiedLegs
  PROVE  \A u \in ConferenceEndEvents : Fits(u, c, leg') /\ ~ Carries(u, c, leg')
<1>1. \A s \in Joined : leg'[s] = "done"
  BY Typed DEF Joined, EmptiedLegs
<1> QED
  BY <1>1, EndEventsQuiet DEF Fits, Carries, Current

LEMMA EmptiedSame ==
  ASSUME IndInv, leg' = EmptiedLegs
  PROVE  \A s \in Sids : /\ leg[s] # "joined" => leg'[s] = leg[s]
                         /\ leg[s] = "joined" => leg'[s] = "done"
BY Typed DEF EmptiedLegs

\* A handler's step that leaves caller and legs alone: it hands on what it carried, if
\* anything, or drops it when nobody waits for it.
LEMMA AloneQuiet ==
  ASSUME IndInv, AloneInv, NEW t \in tasks, NEW u, UNCHANGED <<caller, leg, legStage>>,
         \/ tasks' = Others(t) \cup {u}
         \/ tasks' = Others(t) /\ ~ Current(t, caller),
         Fits(u, caller, leg), Carries(u, caller, leg) => Carries(t, caller, leg),
         Current(t, caller) => Current(u, caller)
  PROVE  AloneInv'
<1>1. Alone(tasks', caller, leg)
  BY DEF AloneInv, Alone, Others
<1>2. \A v \in tasks' : Fits(v, caller, leg)
  BY DEF AloneInv, Others
<1>3. caller.at = "fetch" => \E v \in tasks' : Current(v, caller)
  BY DEF AloneInv, Others
<1> QED
  BY <1>1, <1>2, <1>3 DEF AloneInv

\* What AloneInv says of the state after a step of Twilio's; the stage the caller was sent
\* to is not taken back.
AloneMoved ==
  /\ Alone(tasks', caller', leg')
  /\ \A u \in tasks' : Fits(u, caller', leg')
  /\ caller'.at = "fetch" => \E u \in tasks' : Current(u, caller')
  /\ \A s \in Sids : leg'[s] # "unused" => leg[s] # "unused"

LEMMA AloneMovedStep ==
  ASSUME AloneInv, AloneMoved, legStage' = legStage
  PROVE  AloneInv'
BY DEF AloneInv, AloneMoved

\* The handlers that go on while Twilio moves: of those of before the step they are all
\* that carry anything on.
Rest(rest) ==
  /\ \A u \in rest : WellFormed(u) /\ Fits(u, caller, leg)
  /\ \A u \in rest : Carries(u, caller, leg) => u \in tasks
  /\ \A u \in tasks : Current(u, caller) => u \in rest

LEMMA LegEndsAlone ==
  ASSUME IndInv, AloneInv, NEW s \in Sids, NEW STATE rest, Rest(rest), LegEnds(s, rest)
  PROVE  AloneMoved /\ caller'.stage = caller.stage
<1>0. /\ caller \in Caller /\ leg \in [Sids -> LegStates]
      /\ Up(leg[s]) /\ caller.at # "fetch"
      /\ \A u \in rest : ~ Carries(u, caller, leg)
      /\ \A r \in Sids : r # s => ~ Up(leg[r])
      /\ \A u \in rest : u.kind = "agentStatus" => u.sid \in Sids
  <2>1. Up(leg[s])
    BY DEF LegEnds, Up
  <2> QED
    BY <2>1, NobodyCarries, Typed DEF Rest, WellFormed, TaskOK
<1>1. CASE leg[s] = "ringing"
  <2> DEFINE u == AgentTask("agentStatus", "removeRead", s)
  <2>1. leg' = [leg EXCEPT ![s] = "missed"] /\ tasks' = rest \cup {u} /\ caller' = caller
    BY <1>1 DEF LegEnds
  <2>2. u.kind = "agentStatus" /\ u.sid = s /\ u.pc = "removeRead"
    BY AgentTaskType DEF Points
  <2> HIDE DEF u
  <2>3. leg'[s] = "missed" /\ \A r \in Sids : r # s => leg'[r] = leg[r]
    BY <1>0, <2>1
  <2>4. \A v \in rest : v.kind = "agentStatus" => v.sid # s /\ leg'[v.sid] = leg[v.sid]
    BY <1>0, <1>1, <2>3 DEF Rest, Fits
  <2>5. \A v \in rest : Fits(v, caller, leg') /\ ~ Carries(v, caller, leg')
    BY <1>0, <2>4 DEF Rest, Fits, Carries
  <2>6. Fits(u, caller, leg')
    BY <2>2, <2>3 DEF Fits, Current
  <2>7. \A r \in Sids : ~ Up(leg'[r])
    BY <1>0, <2>3 DEF Up
  <2>8. Alone(tasks', caller', leg')
    BY <2>1, <2>5, <2>7 DEF Alone
  <2> QED
    BY <1>0, <1>1, <2>1, <2>3, <2>5, <2>6, <2>8 DEF AloneMoved
<1>2. CASE leg[s] = "joined"
  <2>1. leg' = EmptiedLegs
    BY <1>2 DEF LegEnds
  <2>2. \A r \in Sids : ~ Up(leg'[r]) /\ (leg'[r] # "unused" => leg[r] # "unused")
    BY <1>0, <1>2, <2>1, EmptiedSame DEF Up
  <2>3. \A v \in rest : v.kind = "agentStatus" => leg'[v.sid] = leg[v.sid]
    BY <1>0, <2>1, EmptiedSame DEF Rest, Fits
  <2>4. CASE caller.at = "conference"
    <3> DEFINE n == caller.req + 1
               u == FlowTask("action", n, caller.stage)
    <3>1. /\ n \in Nat /\ caller.stage \in Stage /\ caller.req \in Nat
          /\ \A m \in Nat : m <= caller.req => m <= n /\ m # n
      BY <1>0 DEF Caller
    <3>2. caller' = [caller EXCEPT !.at = "fetch", !.req = n]
          /\ tasks' = rest \cup ConferenceEndEvents \cup {u}
      BY <1>2, <2>4 DEF LegEnds
    <3>3. u.kind = "flow" /\ u.pc = "action" /\ u.req = n /\ u.stage = caller.stage
      BY <3>1, FlowTaskType DEF Points
    <3> HIDE DEF n, u
    <3>4. caller'.at = "fetch" /\ caller'.req = n /\ caller'.stage = caller.stage
      BY <1>0, <3>2 DEF Caller
    <3>5. \A v \in rest : v.kind = "flow" => v.req \in Nat /\ v.req <= n /\ v.req # n
      BY <2>4, <3>1 DEF Rest, Fits, WellFormed, Task
    <3>6. \A v \in rest : Fits(v, caller', leg') /\ ~ Carries(v, caller', leg')
      BY <1>0, <2>3, <3>4, <3>5 DEF Rest, Fits, Carries, Current
    <3>7. Fits(u, caller', leg') /\ Current(u, caller')
      BY <3>1, <3>3, <3>4, NumStagesType DEF Fits, Current, Stage
    <3>8. \A v \in ConferenceEndEvents : Fits(v, caller', leg') /\ ~ Carries(v, caller', leg')
      BY <2>1, EndEventsFit
    <3>9. Alone(tasks', caller', leg')
      BY <2>2, <3>2, <3>6, <3>8 DEF Alone
    <3> QED
      BY <2>2, <3>2, <3>4, <3>6, <3>7, <3>8, <3>9 DEF AloneMoved
  <2>5. CASE caller.at # "conference"
    <3>1. caller' = caller /\ tasks' = rest \cup ConferenceEndEvents
      BY <1>2, <2>5 DEF LegEnds
    <3>2. \A v \in rest : Fits(v, caller, leg') /\ ~ Carries(v, caller, leg')
      BY <1>0, <2>3 DEF Rest, Fits, Carries
    <3>3. \A v \in ConferenceEndEvents : Fits(v, caller, leg') /\ ~ Carries(v, caller, leg')
      BY <2>1, EndEventsFit
    <3>4. Alone(tasks', caller', leg')
      BY <2>2, <3>1, <3>2, <3>3 DEF Alone
    <3> QED
      BY <1>0, <2>2, <3>1, <3>2, <3>3, <3>4 DEF AloneMoved
  <2> QED
    BY <2>4, <2>5
<1> QED
  BY <1>1, <1>2 DEF LegEnds

LEMMA CallerEndsAlone ==
  ASSUME IndInv, AloneInv, NEW STATE rest, CallerEnds(rest),
         \A u \in rest : WellFormed(u) /\ Fits(u, caller, leg),
         \A u \in rest : Carries(u, caller, leg) => u \in tasks
  PROVE  AloneMoved /\ caller'.stage = caller.stage
<1>0. /\ caller \in Caller /\ leg \in [Sids -> LegStates]
      /\ caller.req + 1 \in Nat /\ caller.stage \in Stage
  BY Typed DEF Caller
<1>1. caller' = [caller EXCEPT !.at = "ended"]
  BY DEF CallerEnds
<1>2. caller'.at = "ended" /\ caller'.stage = caller.stage
  BY <1>0, <1>1 DEF Caller
<1>3. \/ leg' = leg
      \/ leg' = EmptiedLegs /\ caller.at = "conference"
  BY DEF CallerEnds
<1>4. \A s \in Sids : /\ Up(leg'[s]) => Up(leg[s])
                      /\ leg'[s] # "unused" => leg[s] # "unused"
                      /\ leg[s] \in {"missed", "done"} => leg'[s] = leg[s]
                      /\ leg'[s] = "missed" => leg[s] = "missed"
  BY <1>3, EmptiedSame DEF Up
<1>5. \A u : ~ Current(u, caller')
  BY <1>2 DEF Current
<1>6. ASSUME NEW u \in rest
      PROVE  Fits(u, caller', leg') /\ (Carries(u, caller', leg') => Carries(u, caller, leg))
  <2>1. u.kind = "agentStatus" => u.sid \in Sids
    BY DEF WellFormed, TaskOK
  <2> QED
    BY <1>2, <1>4, <1>5, <2>1 DEF Fits, Carries
<1>7. ASSUME NEW u, u = VoiceTask \/ u = FlowTask("action", caller.req + 1, caller.stage)
      PROVE  Fits(u, caller', leg') /\ ~ Carries(u, caller', leg')
  <2>1. \/ u.kind = "voiceStatus"
        \/ u.kind = "flow" /\ u.pc = "action"
    <3>1. "action" \in Points
      BY DEF Points
    <3> QED
      BY <1>0, <1>7, <3>1, VoiceTaskType, FlowTaskType
  <2> QED
    BY <1>2, <1>5, <2>1 DEF Fits, Carries
<1>8. ASSUME NEW u \in ConferenceEndEvents, caller.at = "conference"
      PROVE  Fits(u, caller', leg') /\ ~ Carries(u, caller', leg')
  BY <1>8, EndEventsFit DEF CallerEnds
<1>9. \A u \in tasks' : \/ u \in rest
                        \/ Fits(u, caller', leg') /\ ~ Carries(u, caller', leg')
  <2>1. ASSUME NEW u \in tasks', u \notin rest
        PROVE  Fits(u, caller', leg') /\ ~ Carries(u, caller', leg')
    <3>1. \/ u = VoiceTask \/ u = FlowTask("action", caller.req + 1, caller.stage)
          \/ u \in ConferenceEndEvents /\ caller.at = "conference"
      BY <2>1 DEF CallerEnds
    <3> QED
      BY <1>7, <1>8, <3>1
  <2> QED
    BY <2>1
<1>10. Alone(tasks', caller', leg')
  BY <1>4, <1>6, <1>9 DEF Alone, AloneInv
<1>11. \A u \in tasks' : Fits(u, caller', leg')
  BY <1>6, <1>9
<1> QED
  BY <1>2, <1>4, <1>10, <1>11 DEF AloneMoved

\* A request that changes nothing.
LEMMA NothingMovesAlone ==
  ASSUME IndInv, AloneInv, NEW STATE rest, Rest(rest), tasks' = rest, UNCHANGED <<caller, leg>>
  PROVE  AloneMoved /\ caller'.stage = caller.stage
<1>1. Alone(rest, caller, leg)
  BY DEF AloneInv, Alone, Rest
<1> QED
  BY <1>1 DEF AloneMoved, AloneInv, Rest

\* The final status of an agent who did not answer sends the caller on: the caller is in
\* the conference, because a caller who waits for TwiML is carried on by somebody else.
LEMMA RedirectAlone ==
  ASSUME IndInv, AloneInv, NEW t \in tasks, StatusRedirect(t)
  PROVE  /\ AloneMoved
         /\ \/ caller'.stage = caller.stage
            \/ /\ caller.at = "conference" /\ t.sid \in Sids /\ leg[t.sid] # "unused"
               /\ caller'.stage = legStage[t.sid] + 1
<1> DEFINE u == [t EXCEPT !.pc = "clearRead"]
           stage == legStage[t.sid] + 1
           rest == Others(t) \cup {u}
<1>0. /\ WellFormed(t) /\ t.kind = "agentStatus" /\ t.sid \in Sids
      /\ t.pc = "redirect" /\ leg[t.sid] = "missed"
      /\ caller \in Caller /\ leg \in [Sids -> LegStates] /\ stage \in Stage
  <2>1. WellFormed(t) /\ t.kind = "agentStatus" /\ t.pc = "redirect" /\ Fits(t, caller, leg)
    BY TasksWellFormed DEF AloneInv, StatusRedirect
  <2> QED
    BY <2>1, NumStagesType, Typed DEF WellFormed, TaskOK, Fits, Stage
<1>1. RedirectCallerCall(stage, rest) /\ legStage' = legStage
  BY DEF StatusRedirect
<1>2. u \in Task /\ u.kind = "agentStatus" /\ u.sid = t.sid /\ u.pc = "clearRead"
  BY <1>0 DEF WellFormed, Task, Points
<1> HIDE DEF u, stage
<1>3. WellFormed(u) /\ Fits(u, caller, leg) /\ ~ Carries(u, caller, leg)
  BY <1>0, <1>2 DEF WellFormed, TaskOK, Fits, Carries, Current
<1>4. Carries(t, caller, leg) /\ ~ Current(t, caller)
  BY <1>0 DEF Carries, Current
<1>5. \A v \in tasks : v # t => ~ Carries(v, caller, leg)
  BY <1>4 DEF AloneInv, Alone
<1>6. caller.at # "fetch" /\ \A s \in Sids : ~ Up(leg[s])
  BY <1>4, <1>5 DEF AloneInv, Alone, Carries
<1>7. \A v \in rest : /\ WellFormed(v) /\ Fits(v, caller, leg) /\ ~ Carries(v, caller, leg)
                      /\ v.kind = "agentStatus" => v.sid \in Sids
  BY <1>3, <1>5, TasksWellFormed DEF AloneInv, Others, WellFormed, TaskOK
<1> HIDE DEF rest
<1>8. CASE tasks' = rest /\ UNCHANGED <<caller, leg>>
  <2>1. \A v \in tasks : ~ Current(v, caller)
    BY <1>6 DEF Current
  <2>2. Rest(rest)
    BY <1>7, <2>1 DEF Rest
  <2> QED
    BY <1>8, <2>2, NothingMovesAlone
<1>9. CASE /\ caller.at # "ended"
           /\ caller' = [at |-> "fetch", req |-> caller.req + 1, stage |-> stage]
           /\ leg' = IF caller.at = "conference" THEN EmptiedLegs ELSE leg
           /\ tasks' = rest \cup {FlowTask("read", caller.req + 1, stage)}
                \cup (IF caller.at = "conference" THEN ConferenceEndEvents ELSE {})
  <2> DEFINE n == caller.req + 1
             w == FlowTask("read", n, stage)
  <2>1. /\ n \in Nat /\ caller.req \in Nat /\ \A m \in Nat : m <= caller.req => m <= n /\ m # n
    BY <1>0 DEF Caller
  <2>2. caller.at = "conference" /\ leg' = EmptiedLegs
    BY <1>0, <1>6, <1>9 DEF Caller
  <2>3. /\ caller' = [at |-> "fetch", req |-> n, stage |-> stage]
        /\ tasks' = rest \cup {w} \cup ConferenceEndEvents
    BY <1>9, <2>2
  <2>4. w.kind = "flow" /\ w.pc = "read" /\ w.req = n /\ w.stage = stage
    BY <1>0, <2>1, FlowTaskType DEF Points
  <2> HIDE DEF n, w
  <2>5. caller'.at = "fetch" /\ caller'.req = n /\ caller'.stage = stage
    BY <2>3
  <2>6. \A r \in Sids : /\ ~ Up(leg'[r]) /\ (leg'[r] # "unused" => leg[r] # "unused")
                       /\ leg'[r] = leg[r]
    BY <1>6, <2>2, EmptiedSame DEF Up
  <2>7. \A v \in rest : v.kind = "flow" => v.req <= n /\ v.req # n
    BY <1>7, <2>1, <2>2 DEF Fits, WellFormed, Task
  <2>8. \A v \in rest : Fits(v, caller', leg') /\ ~ Carries(v, caller', leg')
    BY <1>7, <2>5, <2>6, <2>7 DEF Fits, Carries, Current
  <2>9. Fits(w, caller', leg') /\ Current(w, caller')
    BY <1>0, <2>1, <2>4, <2>5, NumStagesType DEF Fits, Current, Stage
  <2>10. \A v \in ConferenceEndEvents : Fits(v, caller', leg') /\ ~ Carries(v, caller', leg')
    BY <2>2, EndEventsFit
  <2>11. Alone(tasks', caller', leg')
    BY <2>3, <2>6, <2>8, <2>10 DEF Alone
  <2> QED
    BY <1>0, <2>2, <2>3, <2>5, <2>6, <2>8, <2>9, <2>10, <2>11 DEF AloneMoved, stage
<1> QED
  BY <1>1, <1>8, <1>9 DEF RedirectCallerCall

LEMMA FlowStepAlone ==
  ASSUME IndInv, AloneInv, NEW t \in tasks, FlowStep(t)
  PROVE  AloneInv' /\ caller'.stage >= caller.stage
<1>0. /\ t \in Task /\ TaskOK(t) /\ t.kind = "flow" /\ Fits(t, caller, leg)
      /\ caller \in Caller /\ t.stage \in Nat /\ t.req \in Nat
      /\ caller.stage \in Nat /\ caller.stage >= caller.stage
      /\ \A u \in Others(t) : u \in tasks /\ WellFormed(u) /\ Fits(u, caller, leg)
  <2>1. t.kind = "flow"
    BY DEF FlowStep, FlowAction, FlowGoodbye, FlowRead, FlowWrite
  <2>2. t \in Task /\ TaskOK(t) /\ Fits(t, caller, leg) /\ caller.stage \in Stage
    BY TasksWellFormed, Typed DEF WellFormed, AloneInv, Caller
  <2> QED
    BY <2>1, <2>2, NumStagesType, Typed, TasksWellFormed DEF Others, AloneInv, Task, Stage
<1>current. IsCurrent(t) <=> Current(t, caller)
  BY <1>0 DEF IsCurrent, Current
<1>1. CASE CallerEnds(Others(t)) /\ legStage' = legStage
  BY <1>0, <1>1, CallerEndsAlone, AloneMovedStep
<1>2. CASE tasks' = Others(t) /\ ~ IsCurrent(t) /\ UNCHANGED <<caller, leg, legStage>>
  BY <1>0, <1>2, <1>current, AloneQuiet
<1>3. CASE FlowAction(t)
  <2> DEFINE n == t.stage + 1
             u == [t EXCEPT !.pc = "read", !.stage = n]
  <2>1. n \in Nat /\ n >= t.stage
    BY <1>0
  <2>2. u.kind = "flow" /\ u.pc = "read" /\ u.req = t.req /\ u.stage = n
    BY <1>0 DEF Task
  <2>3. CASE UNCHANGED <<caller, leg>> /\ tasks' = Others(t) \cup {u}
    <3> HIDE DEF u, n
    <3>1. Current(u, caller) <=> Current(t, caller)
      BY <1>0, <2>2 DEF Current
    <3>2. Current(u, caller) => u.stage >= caller.stage
      BY <1>0, <2>1, <2>2, <3>1 DEF Fits
    <3>3. Fits(u, caller, leg) /\ (Carries(u, caller, leg) => Carries(t, caller, leg))
      BY <1>0, <2>2, <3>1, <3>2 DEF Fits, Carries
    <3> QED
      BY <1>0, <1>3, <2>3, <3>1, <3>3, AloneQuiet DEF FlowAction
  <2> QED
    BY <1>1, <1>2, <1>3, <2>3 DEF FlowAction, Become
<1>4. CASE FlowGoodbye(t)
  BY <1>1, <1>2, <1>4 DEF FlowGoodbye
<1>5. CASE FlowRead(t)
  <2> DEFINE u == [t EXCEPT !.pc = "write", !.snap = meta]
  <2>1. u.kind = "flow" /\ u.pc = "write" /\ u.stage = t.stage /\ u.req = t.req
    BY <1>0 DEF Task
  <2>2. tasks' = Others(t) \cup {u} /\ UNCHANGED <<caller, leg, legStage>>
    BY <1>5 DEF FlowRead, Become
  <2> HIDE DEF u
  <2>3. Current(u, caller) <=> Current(t, caller)
    BY <1>0, <2>1 DEF Current
  <2>4. Fits(u, caller, leg) /\ (Carries(u, caller, leg) => Carries(t, caller, leg))
    BY <1>0, <2>1, <2>3 DEF Fits, Carries
  <2> QED
    BY <1>0, <2>2, <2>3, <2>4, AloneQuiet
<1>6. CASE FlowWrite(t)
  <2>1. CASE ~ IsCurrent(t)
    BY <1>2, <1>6, <2>1 DEF FlowWrite
  <2>2. CASE IsCurrent(t)
    <3> DEFINE u == CallerTask("callerJoin", t.req)
    <3>1. /\ caller' = [caller EXCEPT !.at = "conference", !.stage = t.stage]
          /\ tasks' = Others(t) \cup {u}
          /\ UNCHANGED <<leg, legStage>> /\ caller.at = "fetch"
      BY <1>6, <2>2 DEF FlowWrite, IsCurrent
    <3>2. u.kind = "callerJoin" /\ u.pc = "read"
      BY <1>0, CallerTaskType
    <3> HIDE DEF u
    <3>3. caller'.at = "conference" /\ caller'.req = caller.req /\ caller'.stage = t.stage
      BY <1>0, <3>1 DEF Caller
    <3>4. Carries(t, caller, leg) /\ t.stage >= caller.stage
      BY <1>0, <1>current, <2>2 DEF Carries, Fits
    <3>5. \A v \in Others(t) : ~ Carries(v, caller, leg)
      BY <3>4 DEF AloneInv, Alone, Others
    <3>6. \A s \in Sids : ~ Up(leg[s])
      BY <3>4 DEF AloneInv, Alone
    <3>7. \A v \in Others(t) : Fits(v, caller', leg) /\ ~ Carries(v, caller', leg)
      BY <1>0, <3>1, <3>3, <3>5 DEF Fits, Carries, Current
    <3>8. Fits(u, caller', leg)
      BY <3>2 DEF Fits, Current
    <3>9. Alone(tasks', caller', leg)
      BY <3>1, <3>6, <3>7 DEF Alone
    <3> QED
      BY <3>1, <3>3, <3>4, <3>7, <3>8, <3>9 DEF AloneInv
  <2> QED
    BY <2>1, <2>2
<1> QED
  BY <1>3, <1>4, <1>5, <1>6 DEF FlowStep

\* The dialling loop: a stage of one agent has one leg, which takes over from the handler.
LEMMA DialStepAlone ==
  ASSUME IndInv, AloneInv, OneEach, NEW t \in tasks, DialStep(t)
  PROVE  AloneInv' /\ caller' = caller
<1>0. /\ t \in Task /\ t.kind = "callerJoin" /\ Fits(t, caller, leg) /\ ~ Current(t, caller)
      /\ caller' = caller /\ meta.target \in 0 .. NumStages
      /\ leg \in [Sids -> LegStates] /\ legStage \in [Sids -> 0 .. NumStages]
  <2>1. t.kind = "callerJoin" /\ caller' = caller
    BY DEF DialStep, DialRead, DialCall, DialFails, DialStoreRead, DialStoreWrite
  <2> QED
    BY <2>1, TasksWellFormed, Typed DEF WellFormed, AloneInv, Current, Meta
<1>1. CASE tasks' = Others(t) /\ UNCHANGED <<leg, legStage>>
  BY <1>0, <1>1, AloneQuiet
<1>2. CASE DialRead(t) /\ meta.target # 0
  <2> DEFINE n == Stages[meta.target].targets
             u == [t EXCEPT !.pc = "call", !.stage = meta.target, !.left = n]
  <2>1. n = 1 /\ meta.target >= 1
    BY <1>0, <1>2, NumStagesType DEF OneEach
  <2>2. u.kind = "callerJoin" /\ u.pc = "call" /\ u.stage = meta.target /\ u.left = n
    BY <1>0 DEF Task
  <2>3. tasks' = Others(t) \cup {u} /\ UNCHANGED <<leg, legStage>> /\ t.pc = "read"
    BY <1>2 DEF DialRead, Become
  <2> HIDE DEF u, n
  <2>4. Fits(u, caller, leg) /\ Carries(t, caller, leg)
    BY <1>0, <2>1, <2>2, <2>3 DEF Fits, Current, Carries
  <2> QED
    BY <1>0, <2>3, <2>4, AloneQuiet
<1>3. ASSUME NEW s \in Sids, DialCall(t, s) PROVE AloneInv'
  <2> DEFINE u == [t EXCEPT !.pc = "storeRead", !.sid = s]
  <2>1. u.kind = "callerJoin" /\ u.pc = "storeRead" /\ u.stage = t.stage /\ u.left = t.left
    BY <1>0 DEF Task
  <2>2. /\ leg[s] = "unused" /\ leg' = [leg EXCEPT ![s] = "ringing"] /\ t.pc = "call"
        /\ legStage' = [legStage EXCEPT ![s] = t.stage] /\ tasks' = Others(t) \cup {u}
    BY <1>3 DEF DialCall, Become
  <2> HIDE DEF u
  <2>3. Carries(t, caller, leg) /\ t.left = 1 /\ t.stage >= 1
    BY <1>0, <2>2 DEF Carries, Fits
  <2>4. /\ \A v \in Others(t) : ~ Carries(v, caller, leg) /\ Fits(v, caller, leg) /\ WellFormed(v)
        /\ \A r \in Sids : ~ Up(leg[r])
        /\ caller.at = "fetch" => \E v \in Others(t) : Current(v, caller)
    BY <1>0, <2>3, TasksWellFormed DEF AloneInv, Alone, Others
  <2>5. leg'[s] = "ringing" /\ \A r \in Sids : r # s => leg'[r] = leg[r]
    BY <1>0, <2>2
  <2>6. \A v \in Others(t) : v.kind = "agentStatus" => leg'[v.sid] = leg[v.sid]
    BY <2>2, <2>4, <2>5 DEF Fits, WellFormed, TaskOK
  <2>7. \A v \in Others(t) : ~ Carries(v, caller, leg') /\ Fits(v, caller, leg')
    BY <2>4, <2>6 DEF Carries, Fits
  <2>8. ~ Carries(u, caller, leg') /\ Fits(u, caller, leg')
    BY <2>1, <2>3 DEF Carries, Fits, Current
  <2>9. \A r \in Sids : Up(leg'[r]) => r = s
    BY <2>4, <2>5 DEF Up
  <2>10. \A r \in Sids : leg'[r] # "unused" => legStage'[r] >= 1
    BY <1>0, <2>2, <2>3, <2>5 DEF AloneInv
  <2>11. Alone(tasks', caller, leg')
    BY <2>2, <2>7, <2>8, <2>9 DEF Alone
  <2> QED
    BY <1>0, <2>2, <2>4, <2>7, <2>8, <2>10, <2>11 DEF AloneInv
<1>4. CASE DialFails(t)
  <2> DEFINE u == [t EXCEPT !.left = @ - 1]
  <2>1. u.left = 0
    BY <1>0, <1>4 DEF Fits, DialFails, Task
  <2> QED
    BY <1>1, <1>4, <2>1 DEF DialFails, Finish
<1>5. CASE DialStoreRead(t)
  <2> DEFINE u == [t EXCEPT !.pc = "storeWrite", !.snap = meta]
  <2>1. u.kind = "callerJoin" /\ u.pc = "storeWrite" /\ u.stage = t.stage /\ u.left = t.left
    BY <1>0 DEF Task
  <2>2. tasks' = Others(t) \cup {u} /\ UNCHANGED <<leg, legStage>> /\ t.pc = "storeRead"
    BY <1>5 DEF DialStoreRead, Become
  <2> HIDE DEF u
  <2>3. Fits(u, caller, leg) /\ ~ Carries(u, caller, leg)
    BY <1>0, <2>1, <2>2 DEF Fits, Carries, Current
  <2> QED
    BY <1>0, <2>2, <2>3, AloneQuiet
<1>6. CASE DialStoreWrite(t)
  <2> DEFINE u == [t EXCEPT !.pc = "call", !.left = @ - 1, !.sid = NoSid, !.snap = NoMeta]
  <2>1. u.left = 0
    BY <1>0, <1>6 DEF Fits, DialStoreWrite, Task
  <2> QED
    BY <1>1, <1>6, <2>1 DEF DialStoreWrite, Finish
<1>7. CASE DialRead(t)
  BY <1>1, <1>2, <1>7 DEF DialRead
<1> QED
  BY <1>0, <1>3, <1>4, <1>5, <1>6, <1>7 DEF DialStep

\* A handler of a kind that carries nothing on.
LEMMA OtherKindAlone ==
  ASSUME IndInv, AloneInv, NEW t \in tasks, UNCHANGED <<caller, leg, legStage>>,
         t.kind \notin {"flow", "callerJoin", "agentStatus"},
         NEW u, u.kind = t.kind,
         tasks' = Others(t) \/ tasks' = Others(t) \cup {u}
  PROVE  AloneInv'
<1>1. Fits(u, caller, leg) /\ ~ Carries(u, caller, leg) /\ ~ Current(t, caller)
  BY DEF Fits, Carries, Current
<1> QED
  BY <1>1, AloneQuiet

\* An agent's join, the hang-ups of pending agents and the caller's final status.
LEMMA SideStepAlone ==
  ASSUME IndInv, AloneInv, NEW t \in tasks, JoinStep(t) \/ TermStep(t) \/ VoiceStatus(t)
  PROVE  AloneInv' /\ caller' = caller
<1>0. /\ t \in Task /\ UNCHANGED <<caller, leg, legStage>>
      /\ t.kind \notin {"flow", "callerJoin", "agentStatus"}
  <2>1. /\ t.kind \notin {"flow", "callerJoin", "agentStatus"}
        /\ UNCHANGED <<caller, leg, legStage>>
    BY DEF JoinStep, TermStep, VoiceStatus, JoinRead, JoinAnswer, JoinMetaWrite, TermRead,
           TermMetaWrite
  <2> QED
    BY <2>1, TasksWellFormed DEF WellFormed
<1>1. PICK u : u.kind = t.kind /\ (tasks' = Others(t) \/ tasks' = Others(t) \cup {u})
  <2>1. ASSUME NEW pc, NEW snap, NEW todo
        PROVE  /\ [t EXCEPT !.pc = pc, !.snap = snap].kind = t.kind
               /\ [t EXCEPT !.pc = pc, !.todo = todo].kind = t.kind
               /\ [t EXCEPT !.pc = pc, !.snap = snap, !.todo = todo].kind = t.kind
    BY <1>0 DEF Task
  <2>2. CASE JoinRead(t)
    BY <2>1, <2>2 DEF JoinRead, Become
  <2>3. CASE JoinAnswer(t)
    BY <2>1, <2>3 DEF JoinAnswer, Become
  <2>4. CASE JoinMetaWrite(t)
    BY <2>4 DEF JoinMetaWrite
  <2>5. CASE TermRead(t)
    <3>1. CASE tasks' = Others(t)
      BY <3>1
    <3>2. CASE tasks' # Others(t)
      <4> DEFINE u == [t EXCEPT !.pc = "hang", !.snap = meta, !.todo = meta.sids]
      <4>1. tasks' = Others(t) \cup {u}
        BY <2>5, <3>2 DEF TermRead, Become
      <4>2. u.kind = t.kind
        BY <2>1
      <4> HIDE DEF u
      <4> QED
        BY <4>1, <4>2
    <3> QED
      BY <3>1, <3>2
  <2>6. CASE TermMetaWrite(t)
    BY <2>6 DEF TermMetaWrite
  <2>7. CASE VoiceStatus(t)
    BY <2>7 DEF VoiceStatus
  <2> QED
    BY <2>2, <2>3, <2>4, <2>5, <2>6, <2>7 DEF JoinStep, TermStep
<1> QED
  BY <1>0, <1>1, OtherKindAlone

\* The final status of an agent's leg, up to the redirection of the caller.
LEMMA StatusStepAlone ==
  ASSUME IndInv, AloneInv, NEW t \in tasks, StatusStep(t), ~ StatusRedirect(t)
  PROVE  AloneInv' /\ caller' = caller
<1> DEFINE Clearing(w) == w.pc \in {"clearRead", "clearWrite"}
           After(w) == /\ w.kind = "agentStatus" /\ w.sid = t.sid
                       /\ w.pc # "hang"
                       /\ Clearing(t) => Clearing(w)
<1>0. /\ t \in Task /\ t.kind = "agentStatus" /\ Fits(t, caller, leg)
      /\ UNCHANGED <<caller, leg, legStage>>
  <2>1. t.kind = "agentStatus" /\ UNCHANGED <<caller, leg, legStage>>
    BY DEF StatusStep, StatusCompleted, StatusRemoveRead, StatusRemoveWrite, StatusCheck,
           StatusFailWrite, StatusTest, StatusClearRead, StatusClearWrite
  <2> QED
    BY <2>1, TasksWellFormed DEF WellFormed, AloneInv
<1>1. CASE tasks' = Others(t)
  BY <1>0, <1>1, AloneQuiet DEF Current
<1>2. ASSUME NEW u, After(u), leg[t.sid] = "missed", tasks' = Others(t) \cup {u}
      PROVE  AloneInv'
  <2>1. Fits(u, caller, leg) /\ (Carries(u, caller, leg) => Carries(t, caller, leg))
    BY <1>0, <1>2 DEF Fits, Carries, Current
  <2>2. ~ Current(t, caller)
    BY <1>0 DEF Current
  <2> QED
    BY <1>0, <1>2, <2>1, <2>2, AloneQuiet
<1>3. ASSUME NEW pc \in Points, pc # "hang",
             Clearing(t) => pc \in {"clearRead", "clearWrite"}, NEW snap
      PROVE  After([t EXCEPT !.pc = pc]) /\ After([t EXCEPT !.pc = pc, !.snap = snap])
  BY <1>0, <1>3 DEF Task
<1>4. t.pc # "removeRead" => leg[t.sid] = "missed"
  BY <1>0 DEF Fits
<1>5. CASE StatusRemoveRead(t)
  <2>1. ~ Clearing(t) /\ leg[t.sid] = "missed"
    BY <1>5 DEF StatusRemoveRead
  <2>2. After([t EXCEPT !.pc = "removeWrite", !.snap = meta])
    BY <1>3, <2>1 DEF Points
  <2> HIDE DEF After
  <2> QED
    BY <1>2, <1>5, <2>1, <2>2 DEF StatusRemoveRead, Become
<1>6. CASE StatusRemoveWrite(t)
  <2>1. ~ Clearing(t) /\ leg[t.sid] = "missed"
    BY <1>4, <1>6 DEF StatusRemoveWrite
  <2>2. After([t EXCEPT !.pc = "check", !.snap = NoMeta])
    BY <1>3, <2>1 DEF Points
  <2> HIDE DEF After
  <2> QED
    BY <1>2, <1>6, <2>1, <2>2 DEF StatusRemoveWrite, Become
<1>7. CASE StatusCheck(t)
  <2>1. ~ Clearing(t) /\ leg[t.sid] = "missed"
    BY <1>4, <1>7 DEF StatusCheck
  <2>2. /\ After([t EXCEPT !.pc = "failWrite", !.snap = meta])
        /\ After([t EXCEPT !.pc = "test"])
    BY <1>3, <2>1 DEF Points
  <2> HIDE DEF After
  <2> QED
    BY <1>2, <1>7, <2>1, <2>2 DEF StatusCheck, Become
<1>8. CASE StatusFailWrite(t)
  <2>1. ~ Clearing(t) /\ leg[t.sid] = "missed"
    BY <1>4, <1>8 DEF StatusFailWrite
  <2>2. After([t EXCEPT !.pc = "test", !.snap = NoMeta])
    BY <1>3, <2>1 DEF Points
  <2> HIDE DEF After
  <2> QED
    BY <1>2, <1>8, <2>1, <2>2 DEF StatusFailWrite, Become
<1>9. CASE StatusTest(t)
  <2>1. ~ Clearing(t) /\ leg[t.sid] = "missed"
    BY <1>4, <1>9 DEF StatusTest
  <2>2. After([t EXCEPT !.pc = "redirect"])
    BY <1>3, <2>1 DEF Points
  <2> HIDE DEF After
  <2> QED
    BY <1>1, <1>2, <1>9, <2>1, <2>2 DEF StatusTest, Become
<1>10. CASE StatusClearRead(t)
  <2>1. leg[t.sid] = "missed"
    BY <1>4, <1>10 DEF StatusClearRead
  <2>2. After([t EXCEPT !.pc = "clearWrite", !.snap = meta])
    BY <1>3 DEF Points
  <2> HIDE DEF After
  <2> QED
    BY <1>2, <1>10, <2>1, <2>2 DEF StatusClearRead, Become
<1>11. CASE StatusCompleted(t) \/ StatusClearWrite(t)
  BY <1>1, <1>11 DEF StatusCompleted, StatusClearWrite
<1> QED
  BY <1>0, <1>5, <1>6, <1>7, <1>8, <1>9, <1>10, <1>11 DEF StatusStep

\* Hanging up the next leg of the list: that of the agent who is rung, if any.
LEMMA HangNextAlone ==
  ASSUME IndInv, AloneInv, NEW t \in tasks, NEW s \in Sids, HangNext(t, s)
  PROVE  AloneInv' /\ caller'.stage = caller.stage
<1> DEFINE point == IF t.todo = {s} THEN "metaWrite" ELSE "hang"
           u == [t EXCEPT !.todo = @ \ {s}, !.pc = point]
           rest == Others(t) \cup {u}
<1>0. WellFormed(t) /\ Fits(t, caller, leg)
  BY TasksWellFormed DEF AloneInv
<1>1. HangupLeg(s, rest) /\ legStage' = legStage /\ t.pc = "hang"
  BY DEF HangNext
<1>2. t.kind \notin {"flow", "callerJoin", "agentStatus"}
  BY <1>0, <1>1 DEF Fits
<1>3. point \in {"metaWrite", "hang"} /\ point \in Points /\ t.todo \ {s} \subseteq Sids
  BY <1>0 DEF Points, WellFormed, Task
<1> HIDE DEF point
<1>4. u \in Task /\ u.kind = t.kind /\ u.sid = t.sid
  BY <1>0, <1>3 DEF WellFormed, Task
<1> HIDE DEF u
<1>5. WellFormed(u) /\ Fits(u, caller, leg) /\ ~ Carries(u, caller, leg) /\ ~ Current(t, caller)
  BY <1>0, <1>2, <1>4 DEF WellFormed, TaskOK, Fits, Carries, Current
<1>6. Rest(rest)
  BY <1>5, TasksWellFormed DEF Rest, Others, AloneInv
<1> HIDE DEF rest
<1>7. AloneMoved /\ caller'.stage = caller.stage
  BY <1>1, <1>6, LegEndsAlone, NothingMovesAlone DEF HangupLeg
<1> QED
  BY <1>1, <1>7, AloneMovedStep

LEMMA AgentLeaveAlone ==
  ASSUME IndInv, AloneInv, NEW t \in tasks, AgentLeave(t)
  PROVE  AloneInv' /\ caller'.stage = caller.stage
<1>1. ~ Current(t, caller)
  BY DEF AgentLeave, Current
<1>2. Rest(Others(t))
  BY <1>1, TasksWellFormed DEF Rest, Others, AloneInv
<1>3. AloneMoved /\ caller'.stage = caller.stage
  BY <1>2, CallerEndsAlone, NothingMovesAlone DEF AgentLeave, TerminateCallerCall, Rest
<1> QED
  BY <1>3, AloneMovedStep DEF AgentLeave

LEMMA EnvironmentAlone ==
  ASSUME IndInv, AloneInv,
         \/ CallerHangsUp
         \/ \E s \in Sids : AgentAnswers(s) \/ AgentMisses(s) \/ AgentHangsUp(s)
  PROVE  AloneInv' /\ caller'.stage = caller.stage
<1>0. Rest(tasks)
  BY TasksWellFormed DEF Rest, AloneInv
<1>1. CASE CallerHangsUp
  <2>1. AloneMoved /\ caller'.stage = caller.stage
    BY <1>0, <1>1, CallerEndsAlone DEF CallerHangsUp, Rest
  <2> QED
    BY <1>1, <2>1, AloneMovedStep DEF CallerHangsUp
<1>2. ASSUME NEW s \in Sids, AgentAnswers(s)
      PROVE  AloneInv' /\ caller'.stage = caller.stage
  <2> DEFINE u == AgentTask("agentJoin", "read", s)
  <2>1. u.kind = "agentJoin"
    BY AgentTaskType DEF Points
  <2>2. /\ leg' = [leg EXCEPT ![s] = "joined"] /\ leg[s] = "ringing" /\ tasks' = tasks \cup {u}
        /\ UNCHANGED <<caller, legStage>>
    BY <1>2 DEF AgentAnswers
  <2> HIDE DEF u
  <2>3. \A r \in Sids : /\ Up(leg'[r]) <=> Up(leg[r])
                        /\ leg'[r] # "unused" => leg[r] # "unused"
                        /\ leg[r] \in {"missed", "done"} => leg'[r] = leg[r]
                        /\ leg'[r] = "missed" => leg[r] = "missed"
    BY <2>2, Typed DEF Up
  <2>4. ASSUME NEW v \in tasks
        PROVE  Fits(v, caller, leg') /\ (Carries(v, caller, leg') => Carries(v, caller, leg))
    <3>1. v.kind = "agentStatus" => v.sid \in Sids
      BY TasksWellFormed DEF WellFormed, TaskOK
    <3>2. Fits(v, caller, leg)
      BY DEF AloneInv
    <3> QED
      BY <2>3, <3>1, <3>2 DEF Fits, Carries
  <2>5. Fits(u, caller, leg') /\ ~ Carries(u, caller, leg')
    BY <2>1 DEF Fits, Carries, Current
  <2>6. Alone(tasks', caller, leg')
    BY <2>2, <2>3, <2>4, <2>5 DEF Alone, AloneInv
  <2> QED
    BY <2>2, <2>3, <2>4, <2>5, <2>6 DEF AloneInv
<1>3. ASSUME NEW s \in Sids, AgentMisses(s) \/ AgentHangsUp(s)
      PROVE  AloneInv' /\ caller'.stage = caller.stage
  <2>1. AloneMoved /\ caller'.stage = caller.stage
    BY <1>0, <1>3, LegEndsAlone DEF AgentMisses, AgentHangsUp
  <2> QED
    BY <1>3, <2>1, AloneMovedStep DEF AgentMisses, AgentHangsUp
<1> QED
  BY <1>1, <1>2, <1>3

LEMMA InitAlone ==
  ASSUME Init
  PROVE  AloneInv
<1> DEFINE u == FlowTask("read", 1, 1)
<1>1. u.kind = "flow" /\ u.pc = "read" /\ u.req = 1 /\ u.stage = 1
  BY NumStagesType, FlowTaskType DEF Points, Stage
<1>2. /\ tasks = {u} /\ caller = [at |-> "fetch", req |-> 1, stage |-> 1]
      /\ leg = [s \in Sids |-> "unused"]
  BY DEF Init
<1> HIDE DEF u
<1>3. Fits(u, caller, leg) /\ Current(u, caller)
  BY <1>1, <1>2 DEF Fits, Current
<1>4. \A s \in Sids : ~ Up(leg[s]) /\ leg[s] = "unused"
  BY <1>2 DEF Up
<1> QED
  BY <1>2, <1>3, <1>4 DEF AloneInv, Alone

LEMMA NextAlone ==
  ASSUME IndInv, AloneInv, OneEach, [Next]_vars
  PROVE  /\ AloneInv'
         /\ NumStages <= 2 => caller'.stage >= caller.stage
<1>0. caller.stage \in Nat /\ legStage \in [Sids -> 0 .. NumStages] /\ NumStages \in Nat
  BY NumStagesType, Typed DEF Caller, Stage
<1>1. ASSUME NEW t \in tasks, StatusRedirect(t)
      PROVE  AloneInv' /\ (NumStages <= 2 => caller'.stage >= caller.stage)
  <2>1. AloneInv'
    BY <1>1, RedirectAlone, AloneMovedStep DEF StatusRedirect
  <2>2. CASE caller'.stage = caller.stage
    BY <1>0, <2>1, <2>2
  <2>3. CASE /\ caller.at = "conference" /\ t.sid \in Sids /\ leg[t.sid] # "unused"
             /\ caller'.stage = legStage[t.sid] + 1
    <3>1. caller.stage <= NumStages /\ legStage[t.sid] >= 1 /\ legStage[t.sid] \in Nat
      BY <1>0, <2>3, Typed DEF AloneInv
    <3> QED
      BY <1>0, <2>1, <2>3, <3>1
  <2> QED
    BY <1>1, <2>2, <2>3, RedirectAlone
<1>2. ASSUME NEW t \in tasks, TaskStep(t), ~ StatusRedirect(t)
      PROVE  AloneInv' /\ caller'.stage >= caller.stage
  <2>1. CASE FlowStep(t)
    BY <2>1, FlowStepAlone
  <2>2. CASE DialStep(t) \/ JoinStep(t) \/ TermStep(t) \/ VoiceStatus(t) \/ StatusStep(t)
    BY <1>0, <1>2, <2>2, DialStepAlone, SideStepAlone, StatusStepAlone
  <2>3. CASE AgentLeave(t) \/ \E s \in Sids : HangNext(t, s)
    BY <1>0, <2>3, HangNextAlone, AgentLeaveAlone
  <2> QED
    BY <1>2, <2>1, <2>2, <2>3 DEF TaskStep
<1>3. CASE \/ CallerHangsUp
           \/ \E s \in Sids : AgentAnswers(s) \/ AgentMisses(s) \/ AgentHangsUp(s)
  BY <1>0, <1>3, EnvironmentAlone
<1>4. CASE UNCHANGED vars
  BY <1>0, <1>4 DEF vars, AloneInv, Alone, Fits, Carries, Current
<1> QED
  BY <1>1, <1>2, <1>3, <1>4 DEF Next, Server

\* dialAgentIntoConference, in a flow that rings one agent at a time: whatever order the
\* webhooks are handled in and whatever Twilio refuses, no second agent is ever rung or
\* talked to while another one is.
THEOREM OneAgentAtATime ==
  ASSUME OneEach
  PROVE  Spec => [](\A r, s \in Sids : Live(r) /\ Live(s) => r = s)
<1>1. Init => IndInv /\ AloneInv
  BY InitOK, InitAlone
<1>2. IndInv /\ AloneInv /\ [Next]_vars => IndInv' /\ AloneInv'
  BY NextOK, NextAlone
<1>3. AloneInv => \A r, s \in Sids : Live(r) /\ Live(s) => r = s
  BY DEF AloneInv, Alone, Up, Live
<1> QED
  BY <1>1, <1>2, <1>3, PTL DEF Spec

\* handleAgentCallStatus and the <Dial action>: in a flow of two stages of one agent each,
\* no webhook sends the caller back to the stage the call has left.
THEOREM StageAdvancesCorrect ==
  ASSUME OneEach, NumStages <= 2
  PROVE  Spec => StageAdvances
<1>1. Init => IndInv /\ AloneInv
  BY InitOK, InitAlone
<1>2. IndInv /\ AloneInv /\ [Next]_vars => IndInv' /\ AloneInv'
  BY NextOK, NextAlone
<1>3. IndInv /\ AloneInv /\ [Next]_vars => [caller'.stage >= caller.stage]_vars
  BY NextAlone
<1> QED
  BY <1>1, <1>2, <1>3, PTL DEF Spec, StageAdvances
=============================================================================
