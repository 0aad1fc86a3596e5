------------------------------- MODULE CallFlows -------------------------------
(***************************************************************************)
(* What is in a call flow (call-flow.service.ts) and the speech generated  *)
(* for its messages (tts.service.ts).  Deleting a flow and assigning it to *)
(* a number is in TenantNumbers, how a flow is carried out in FlowRouter.  *)
(*                                                                         *)
(* A flow is the sequence of its steps in the order in which the service   *)
(* walks through them, those nested in a step after it: the options of a   *)
(* menu and what follows an invalid input, or the branches of a schedule   *)
(* and its fallback.  A step has its message, if any, and says in which of *)
(* the lists it is.  The audio of a message is named by the text it speaks.*)
(***************************************************************************)
EXTENDS Naturals, Sequences

CONSTANTS
  FlowIds,
  Drafts,      \* the steps that users send
  InFlight     \* how many requests may be handled at once

VARIABLES
  content,     \* call_flows.steps
  speech,      \* tts_cache: the texts there is audio of
  saves        \* the requests being handled

vars == <<content, speech, saves>>

Silent   == ""
Terminal == {"voicemail", "hangup"}

Top      == 0     \* the list of the steps that are in no other step

Step(id, type, text, audio, list) ==
  [id |-> id, type |-> type, text |-> text, audio |-> audio, list |-> list]

NoFlow == <<Step(0, "none", Silent, Silent, Top)>>

\* validateTerminalSteps: no step of the same list comes after it.
TerminalsLast(steps) ==
  \A i, j \in DOMAIN steps :
    steps[i].type \in Terminal /\ i < j => steps[i].list # steps[j].list

\* validateUniqueStepIds
UniqueIds(steps) == \A i, j \in DOMAIN steps : steps[i].id = steps[j].id => i = j

\* validateSteps
Accepted(steps) == TerminalsLast(steps) /\ UniqueIds(steps)

\* generateTtsForMessage: a message with a text and without audio.
Mute(step)     == step.text # Silent /\ step.audio = Silent
\* generateMissingTtsForSteps: the steps to generate audio for.
Missing(steps) == {i \in DOMAIN steps : Mute(steps[i])}

\* Mutated form: what is nested stays as it is.
VoicedTop(steps) ==
  [i \in DOMAIN steps |->
     [steps[i] EXCEPT !.audio = IF Mute(steps[i]) /\ steps[i].list = Top THEN steps[i].text ELSE @]]

Voiced(steps) ==
  [i \in DOMAIN steps |->
     [steps[i] EXCEPT !.audio = IF Mute(steps[i]) THEN steps[i].text ELSE @]]

-----------------------------------------------------------------------------
\* create, update and, with the steps of another flow, duplicate: refused, or the missing
\* audio is generated for one step after the other.
Begin(f, steps) ==
  /\ Accepted(steps)
  /\ \A s \in saves : s.flow # f \/ content[f] # NoFlow
  /\ \E place \in (1 .. InFlight) \ {s.place : s \in saves} :
       saves' = saves \cup {[place |-> place, flow |-> f, steps |-> steps,
                             todo |-> Missing(steps), pc |-> "lookup"]}
  /\ UNCHANGED <<content, speech>>

Save(f, steps)  == steps \in Drafts /\ Begin(f, steps)
Duplicate(f, g) == content[f] # NoFlow /\ content[g] = NoFlow /\ Begin(g, content[f])

Done(s)      == saves' = saves \ {s}
Goto(s, pc)  == saves' = (saves \ {s}) \cup {[s EXCEPT !.pc = pc]}
\* The step a request has come to, and that its audio is there.
At(s, i)     == i \in s.todo /\ \A j \in s.todo : i <= j
Spoken(s, i) == saves' = (saves \ {s}) \cup {[s EXCEPT !.pc = "lookup", !.todo = @ \ {i}]}

\* generateTts: the cache is asked first.
Lookup(s, i) ==
  /\ s.pc = "lookup" /\ At(s, i)
  /\ IF s.steps[i].text \in speech THEN Spoken(s, i) ELSE Goto(s, "generate")
  /\ UNCHANGED <<content, speech>>

\* The audio is generated and uploaded, which may fail, and so does the request.
Generate(s) ==
  /\ s.pc = "generate"
  /\ Goto(s, "cache") \/ Done(s)
  /\ UNCHANGED <<content, speech>>

\* The cache has one row for a text: when it is there by now, the request fails.
Cache(s, i) ==
  /\ s.pc = "cache" /\ At(s, i)
  /\ IF s.steps[i].text \in speech THEN Done(s) /\ UNCHANGED speech
     ELSE Spoken(s, i) /\ speech' = speech \cup {s.steps[i].text}
  /\ UNCHANGED content

\* The flow is written with the audio of all its messages.
Write(s) ==
  /\ s.pc = "lookup" /\ s.todo = {}
  /\ content' = [content EXCEPT ![s.flow] = Voiced(s.steps)]
  /\ Done(s)
  /\ UNCHANGED speech

Init ==
  /\ content = [f \in FlowIds |-> NoFlow]
  /\ speech = {}
  /\ saves = {}

Next ==
  \/ \E f \in FlowIds : \E steps \in Drafts : Save(f, steps)
  \/ \E f, g \in FlowIds : Duplicate(f, g)
  \/ \E s \in saves : Generate(s) \/ Write(s) \/ \E i \in s.todo : Lookup(s, i) \/ Cache(s, i)

Spec == Init /\ [][Next]_vars

-----------------------------------------------------------------------------
\* Requests are under way in their places.
TypeOK ==
  /\ speech \subseteq UNION {{d[i].text : i \in DOMAIN d} : d \in Drafts}
  /\ \A s \in saves : s.place \in 1 .. InFlight /\ s.flow \in FlowIds
                      /\ s.pc \in {"lookup", "generate", "cache"}
                      /\ s.todo \subseteq DOMAIN s.steps

\* validateSteps, generateMissingTtsForSteps: whatever is saved, copied and refused at once,
\* a flow that is stored is one the validation accepts, at every depth, and each of its
\* messages has audio.
StoredIsPlayable ==
  \A f \in FlowIds : content[f] # NoFlow =>
    /\ Accepted(content[f])
    /\ \A i \in DOMAIN content[f] : ~ Mute(content[f][i])

-----------------------------------------------------------------------------
(* What does not hold (README, "Counterexamples"). *)

\* "Cached TTS audio URL (generated from text+voice)": the audio speaks the text.
AudioSpeaksText ==
  \A f \in FlowIds : content[f] # NoFlow =>
    \A i \in DOMAIN content[f] : content[f][i].audio = content[f][i].text

\* "with caching to avoid regenerating the same audio": a request whose audio has been
\* generated is not refused because another one has generated the same.
GeneratedIsUsed ==
  [][\A s \in saves : s.pc = "cache" => \E t \in saves \cup saves' : t \in saves' /\ t.place = s.place]_vars
=============================================================================
