------------------------------ MODULE FlowRouter ------------------------------
(***************************************************************************)
(* One inbound call on its way through a call flow (TwimlGeneratorService  *)
(* and the voice webhooks).  Twilio asks for TwiML, follows it, and comes  *)
(* back to the URL in it; the flow is read anew for every request, so it   *)
(* may be edited under the call.  Steps of the flow itself are found by    *)
(* their index in the URL; steps nested in a menu or a schedule are        *)
(* remembered in metaValue.  How a hunt dials and ends, leg by leg, is in  *)
(* ConferenceDial: here a hunt is answered, missed, or fails as a whole.   *)
(***************************************************************************)
EXTENDS FlowSteps, Naturals, Sequences, FiniteSets, SequencesExt

CONSTANTS
  Flows,     \* the flows that an administrator may give the number
  Users,     \* destinations that are users of the tenant; the others are phones
  Times,     \* the times of a week at which a schedule may be reached
  MaxEdits,  \* bound: changes of the flow during the call
  MaxRung,   \* how often these flows may ring agents in one call
  RowFails   \* TRUE: the row of the call may not get written

VARIABLES
  flow,    \* the flow of the number: [there, active, steps]
  edits,
  caller,  \* where the caller is, the URL to ask for, the hunt he waits for
  row,     \* the phone_calls row
  meta,    \* the part of metaValue that nested steps use
  rung,    \* how many attempts to reach agents the call has made
  by       \* the agent that the caller has talked to

vars == <<flow, edits, caller, row, meta, rung, by>>

Nobody == "nobody"
Url(kind, step, attempt) == [kind |-> kind, step |-> step, attempt |-> attempt]
NoUrl  == Url("none", 0, 0)
NoHunt == [list |-> "none", type |-> "none", step |-> 0, attempt |-> 0, dests |-> <<>>, rest |-> <<>>]
NoRR   == [on |-> FALSE, dests |-> <<>>, attempt |-> 0]

Reply(do, url, hunt) == [do |-> do, url |-> url, hunt |-> hunt]
Hangup      == Reply("hangup", NoUrl, NoHunt)
ProcessVoicemail == Reply("record", NoUrl, NoHunt)
Redirect(i) == Reply("redirect", Url("flow", i, 0), NoHunt)
Conference(list, type, i, attempt, dests, rest) ==
  Reply("conference", NoUrl, [list |-> list, type |-> type, step |-> i, attempt |-> attempt,
                              dests |-> dests, rest |-> rest])

\* The kinds of step that speak or end something.
ProcessMenu(i)        == Reply("gather", Url("menu", i, 0), NoHunt)
ProcessKeypadEntry(i) == Reply("gather", Url("keypad", i, 0), NoHunt)

-----------------------------------------------------------------------------
(* Nested steps *)

IsGreeting(s) == s.type \in {"greeting", "silent"}
IsHunt(s)     == s.type \in {"dial", "simulcall", "round_robin"}

\* The steps after a nested hunt are stored, and the conference of its first attempt.
ProcessNestedDial(s, rest)      == Conference("nested", "dial", 0, 0, s.dests, rest)
ProcessNestedSimulcall(s, rest) == Conference("nested", "simulcall", 0, 0, s.dests, rest)

\* Mutated form: what follows the hunt is the hunt again.
ProcessNestedRoundRobinKeeps(s, rest) ==
  IF s.dests = <<>> THEN Hangup
  ELSE Conference("nested", "round_robin", 0, 0, s.dests, <<s>> \o rest)

ProcessNestedRoundRobin(s, rest) ==
  IF s.dests = <<>> THEN Hangup
  ELSE Conference("nested", "round_robin", 0, 0, s.dests, rest)

\* executeNestedSteps: greetings are inlined up to the first other step.  A greeting
\* that says nothing makes the document invalid, and Twilio drops the call.
ExecuteNested(steps) ==
  LET spoken == {i \in 1 .. Len(steps) : \A j \in 1 .. i : IsGreeting(steps[j])}
      i == Cardinality(spoken) + 1
      rest == SubSeq(steps, i + 1, Len(steps))
  IN IF i > Len(steps) \/ \E j \in spoken : steps[j].type = "silent" THEN Hangup
     ELSE CASE steps[i].type = "voicemail"   -> ProcessVoicemail
            [] steps[i].type = "dial"        -> ProcessNestedDial(steps[i], rest)
            [] steps[i].type = "simulcall"   -> ProcessNestedSimulcall(steps[i], rest)
            [] steps[i].type = "round_robin" -> ProcessNestedRoundRobin(steps[i], rest)
            [] OTHER                         -> Hangup

\* processNestedRoundRobinRetry: the next destination, the list after it as stored before.
NestedRetry(m, attempt) ==
  Conference("nested", "round_robin", 0, attempt, m.rr.dests, m.rest)

\* Mutated form: one attempt too many.
NestedMissedOnce(m, hasAttempt, attempt) ==
  IF hasAttempt /\ m.rr.on /\ attempt + 1 <= Len(m.rr.dests) THEN NestedRetry(m, attempt + 1)
  ELSE IF m.rest # <<>> THEN ExecuteNested(m.rest)
  ELSE Hangup

\* handleNestedDialStatus of a hunt that was not answered.
NestedMissed(m, hasAttempt, attempt) ==
  IF hasAttempt /\ m.rr.on /\ attempt + 1 < Len(m.rr.dests) THEN NestedRetry(m, attempt + 1)
  ELSE IF m.rest # <<>> THEN ExecuteNested(m.rest)
  ELSE Hangup

-----------------------------------------------------------------------------
(* Steps of the flow *)

\* findMatchingScheduleBranch: the first branch with a slot for this time.
SlotMatches(slot, now) ==
  /\ now.day \in slot.days
  /\ slot.allDay \/ (slot.from <= now.minute /\ now.minute < slot.to)
Branch(step, now) ==
  LET fits == {i \in DOMAIN step.keys : \E slot \in step.keys[i] : SlotMatches(slot, now)}
  IN IF fits = {} THEN step.other
     ELSE step.lists[CHOOSE i \in fits : \A j \in fits : i <= j]

ProcessDial(s, i)      == Conference("main", "dial", i, 0, s.dests, <<>>)
ProcessSimulcall(s, i) == Conference("main", "simulcall", i, 0, s.dests, <<>>)

\* When every destination has been tried, the flow goes on.
ProcessRoundRobin(s, i, attempt) ==
  IF attempt >= Len(s.dests) THEN Redirect(i + 1)
  ELSE Conference("main", "round_robin", i, attempt, s.dests, <<>>)

\* executeStep
ExecuteStep(steps, i, attempt, now) ==
  IF i > Len(steps) THEN Hangup
  ELSE LET s == steps[i] IN
    CASE s.type = "dial"        -> ProcessDial(s, i)
      [] s.type = "simulcall"   -> ProcessSimulcall(s, i)
      [] s.type = "round_robin" -> ProcessRoundRobin(s, i, attempt)
      [] s.type = "menu"        -> ProcessMenu(i)
      [] s.type = "keypad"      -> ProcessKeypadEntry(i)
      [] s.type = "schedule" ->
           IF Branch(s, now) # <<>> THEN ExecuteNested(Branch(s, now)) ELSE Redirect(i + 1)
      [] s.type = "voicemail" -> ProcessVoicemail
      [] s.type = "hangup"    -> Hangup
      [] OTHER                -> Redirect(i + 1)     \* greetings, tags, unknown types

\* menu_invalid, and menu without a digit: no retry, whatever the step says.
MenuInvalid(steps, i) ==
  IF i <= Len(steps) /\ steps[i].type = "menu" THEN ExecuteNested(steps[i].other) ELSE Hangup

\* handleMenuSelection
MenuSelection(steps, i, digit, now) ==
  IF i > Len(steps) \/ steps[i].type # "menu" THEN ExecuteStep(steps, i + 1, 0, now)
  ELSE LET fits == {k \in DOMAIN steps[i].keys : steps[i].keys[k] = digit}
           k == CHOOSE k \in fits : \A l \in fits : k <= l
       IN IF fits = {} THEN MenuInvalid(steps, i)
          ELSE IF steps[i].lists[k] # <<>> THEN ExecuteNested(steps[i].lists[k])
          ELSE ExecuteStep(steps, i + 1, 0, now)

\* What handleIncomingVoice and handleFlowContinuation answer to a URL.
Answer(url, digit, now) ==
  IF ~flow.there \/ (url.kind = "incoming" /\ ~flow.active) THEN Hangup
  ELSE CASE url.kind = "menu" -> IF digit = 0 THEN MenuInvalid(flow.steps, url.step)
                                 ELSE MenuSelection(flow.steps, url.step, digit, now)
         [] url.kind = "keypad" -> ExecuteStep(flow.steps, url.step + 1, 0, now)
         [] OTHER               -> ExecuteStep(flow.steps, url.step, url.attempt, now)

\* storeNestedFlowContext, storeNestedRoundRobinContext: what a conference leaves in metaValue
\* of the row, which the same request may have written.
Remember(h) ==
  IF h.list # "nested" \/ ~row'.there THEN meta
  ELSE [nested |-> TRUE, rest |-> h.rest,
        rr |-> IF h.type = "round_robin"
               THEN [on |-> TRUE, dests |-> h.dests, attempt |-> h.attempt] ELSE meta.rr]

\* Twilio has got TwiML and follows it.
Follow(r) ==
  /\ caller' = [at |-> CASE r.do = "hangup" -> "ended" [] r.do = "redirect" -> "fetch"
                         [] OTHER -> r.do,
                url |-> r.url, hunt |-> r.hunt]
  /\ rung' = IF r.do = "conference" THEN rung + 1 ELSE rung
  /\ meta' = IF r.do = "conference" THEN Remember(r.hunt) ELSE meta

-----------------------------------------------------------------------------
(* The call *)

Incoming == Url("incoming", 1, 0)

CallComes ==
  /\ caller.at = "none"
  /\ caller' = [caller EXCEPT !.at = "fetch", !.url = Incoming]
  /\ UNCHANGED <<flow, edits, row, meta, rung, by>>

\* handleIncomingVoice: the row is written, or not.
HandleIncomingVoice ==
  /\ caller.at = "fetch" /\ caller.url = Incoming
  /\ \E ok \in {TRUE, ~RowFails} : row' = [row EXCEPT !.there = ok]
  /\ \E now \in Times : Follow(Answer(Incoming, 0, now))
  /\ UNCHANGED <<flow, edits, by>>

HandleFlowContinuation ==
  /\ caller.at = "fetch" /\ caller.url # Incoming
  /\ UNCHANGED <<flow, edits, row, by>>
  /\ \E now \in Times : Follow(Answer(caller.url, 0, now))

\* Digits, or none (0) within the time: a keypad goes on either way, a menu has its URL
\* for invalid input, which Twilio asks for at once.
GatherEnds(digit) ==
  /\ caller.at = "gather"
  /\ UNCHANGED <<flow, edits, row, by>>
  /\ \E now \in Times : Follow(Answer(caller.url, digit, now))

\* handleAgentJoinedConference: the destination that answers is the caller's agent, when
\* it is a user.
AgentAnswers(d) ==
  /\ caller.at = "conference" /\ row.there
  /\ d \in (IF caller.hunt.type = "round_robin"
            THEN {caller.hunt.dests[caller.hunt.attempt + 1]} ELSE ToSet(caller.hunt.dests))
  /\ caller' = [caller EXCEPT !.at = "talking"]
  /\ by' = d
  /\ row' = [row EXCEPT !.answered = TRUE, !.user = IF d \in Users THEN d ELSE @]
  /\ UNCHANGED <<flow, edits, meta, rung>>

\* handleAgentCallStatus of the last leg that was not answered: the caller is taken on to
\* the next attempt or step, if the step is still a hunt; nested steps are at hand.
AgentsMissMain(h) ==
  LET s == flow.steps[h.step]
      step == h.step + 1
  IN IF ~flow.there \/ h.step > Len(flow.steps) \/ ~IsHunt(s)
     THEN /\ caller' = [caller EXCEPT !.at = "forgotten"]
          /\ UNCHANGED <<rung, meta>>
     ELSE Follow(IF s.type = "round_robin" /\ h.attempt + 1 < Len(s.dests)
                 THEN Reply("redirect", Url("round_robin_redirect", h.step, h.attempt + 1), NoHunt)
                 ELSE Redirect(step))

AgentsMiss ==
  /\ caller.at = "conference" /\ row.there
  /\ UNCHANGED <<flow, edits, row, by>>
  /\ IF caller.hunt.list = "main" THEN AgentsMissMain(caller.hunt)
     ELSE Follow(IF ~flow.there THEN Hangup ELSE NestedMissed(meta, meta.rr.on, meta.rr.attempt))

\* Mutated form: the attempt of the URL, which is the next one, is credited.
TriedNext(h) == h.attempt + 2

\* Which destination a round robin has been trying: the URL says the next one.
Tried(h) == h.attempt + 1

\* associateAnsweringUser, associateRoundRobinUser, associateNestedDialUser: the agent as
\* the flow of today says, or as stored.
Associated(h) ==
  LET s == flow.steps[h.step]
      d == IF h.list = "nested"
           THEN IF Len(h.dests) = 1 \/ h.type = "round_robin" THEN h.dests[h.attempt + 1] ELSE Nobody
           ELSE IF h.step > Len(flow.steps) THEN Nobody
           ELSE IF h.type = "round_robin"
           THEN IF s.type = "round_robin" /\ Tried(h) <= Len(s.dests) THEN s.dests[Tried(h)] ELSE Nobody
           ELSE IF s.type \in {"dial", "simulcall"} /\ Len(s.dests) = 1 THEN s.dests[1] ELSE Nobody
  IN IF d \in Users THEN d ELSE row.user

\* The conference ends after a talk: the <Dial action> finds the call answered.
HandleDialStatus ==
  /\ caller.at = "talking"
  /\ row' = IF flow.there THEN [row EXCEPT !.user = Associated(caller.hunt)] ELSE row
  /\ Follow(Hangup)
  /\ UNCHANGED <<flow, edits, by>>

\* The <Dial action> of a conference that could not be entered: not answered.
HandleDialStatusFailed ==
  /\ caller.at = "conference"
  /\ UNCHANGED <<flow, edits, row, by>>
  /\ LET h == caller.hunt
     IN \E now \in Times :
          Follow(IF ~flow.there \/ (h.list = "main" /\ h.type = "round_robin") THEN Hangup
                 ELSE IF h.list = "main" THEN ExecuteStep(flow.steps, h.step + 1, 0, now)
                 ELSE IF row.there THEN NestedMissed(meta, h.type = "round_robin", h.attempt)
                 ELSE Hangup)

\* handleVoicemailRecording
HandleVoicemail ==
  /\ caller.at = "record"
  /\ \E said \in BOOLEAN : row' = [row EXCEPT !.voicemail = @ \/ (said /\ row.there)]
  /\ Follow(Hangup)
  /\ UNCHANGED <<flow, edits, by>>

\* The caller may hang up at any time.
CallerHangsUp ==
  /\ caller.at \notin {"none", "ended"}
  /\ Follow(Hangup)
  /\ UNCHANGED <<flow, edits, row, by>>

\* update, duplicate and delete of a flow, and its assignment to the number.
EditFlow ==
  /\ edits < MaxEdits /\ edits' = edits + 1
  /\ \/ \E steps \in Flows, a \in BOOLEAN : flow' = [there |-> TRUE, active |-> a, steps |-> steps]
     \/ flow' = [there |-> FALSE, active |-> FALSE, steps |-> <<>>]
  /\ flow' # flow
  /\ UNCHANGED <<caller, row, meta, rung, by>>

Init ==
  /\ \E steps \in Flows : flow = [there |-> TRUE, active |-> TRUE, steps |-> steps]
  /\ edits = 0
  /\ caller = [at |-> "none", url |-> NoUrl, hunt |-> NoHunt]
  /\ row = [there |-> FALSE, answered |-> FALSE, user |-> Nobody, voicemail |-> FALSE]
  /\ meta = [nested |-> FALSE, rest |-> <<>>, rr |-> NoRR]
  /\ rung = 0 /\ by = Nobody

\* What happens to a call by itself.
Progress ==
  \/ HandleIncomingVoice \/ HandleFlowContinuation
  \/ \E digit \in 0 .. 9 : GatherEnds(digit)
  \/ \E d \in ToSet(caller.hunt.dests) : AgentAnswers(d)
  \/ AgentsMiss \/ HandleDialStatus \/ HandleDialStatusFailed \/ HandleVoicemail

\* Nobody is called any more, and the caller loses patience.
GivesUp == (caller.at = "forgotten" \/ (caller.at = "conference" /\ ~row.there)) /\ CallerHangsUp

Next == CallComes \/ Progress \/ CallerHangsUp \/ EditFlow

\* Where the caller is, as CallJourney says it.
Phase == CASE caller.at \in {"fetch", "gather"} -> "flow"
           [] caller.at \in {"conference", "forgotten"} -> "ringing"
           [] caller.at = "record" -> "message"
           [] OTHER -> caller.at

TypeOK ==
  /\ flow.there \in BOOLEAN /\ flow.active \in BOOLEAN /\ edits \in 0 .. MaxEdits
  /\ caller.at \in {"none", "fetch", "gather", "conference", "forgotten", "talking", "record", "ended"}
  /\ caller.at \in {"conference", "talking"} /\ caller.hunt.type = "round_robin"
       => caller.hunt.attempt < Len(caller.hunt.dests)
  /\ row.user \in Users \cup {Nobody}
  /\ meta.rr.on => meta.nested /\ meta.rr.attempt < Len(meta.rr.dests)

\* The call is credited to the agent who has answered it, or to nobody, however nested
\* the hunt was (unless the flow has been changed under the call).
CreditedToAnswerer ==
  edits = 0 => row.user \in {Nobody, by}

\* No change of the flow leaves a caller in a conference into which nobody is called
\* (README, "Counterexamples": the step of the hunt is no hunt any more).
EditStrandsNobody == caller.at # "forgotten"

=============================================================================
