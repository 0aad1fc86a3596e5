---------------------------- MODULE TelephonyProofs ----------------------------
(***************************************************************************)
(* What holds of the parts of Telephony for every set of messages, sockets *)
(* and flows, and every bound: the types, the times of delivery, the agent *)
(* a call is credited to, and that every step of a call is one CallJourney *)
(* allows.  Each part has an inductive invariant and a section of its own. *)
(***************************************************************************)
EXTENDS Telephony, FiniteSetTheorems, WellFoundedInduction, TLAPS

-----------------------------------------------------------------------------
(* Text messages *)

SmsRow == [there : BOOLEAN, inbound : BOOLEAN, status : Sms!Statuses, sid : BOOLEAN,
           deliveredAt : BOOLEAN, read : BOOLEAN, edited : BOOLEAN]
SendSteps == {"idle", "created", "queued", "accepted", "failed", "done"}

SmsTypes ==
  /\ sms \in [Messages -> SmsRow]
  /\ send \in [Messages -> SendSteps]
  /\ carrier \in [Messages -> {"none", "accepted", "sending", "final"}]
  /\ posted \subseteq [msg : Messages, status : Sms!Reported]
  /\ handlers \subseteq [msg : Messages, status : Sms!Reported, seen : Sms!Statuses,
                         seenDelivered : BOOLEAN]
  /\ screen \in [Messages -> Sms!Statuses \cup {Sms!Unseen}]

\* Delivered without a time: only where a user has entered it.
Timed(r) == r.status = "delivered" /\ ~r.edited => r.deliveredAt

\* A callback that has read such a row finds the user's mark on it, or no row: once a
\* message is written its id is not used for another one.
SmsInv ==
  /\ SmsTypes
  /\ \A m \in Messages : Timed(sms[m]) /\ (sms[m].there => send[m] # "idle")
  /\ \A h \in handlers :
       /\ send[h.msg] # "idle"
       /\ h.seen = "delivered" /\ ~h.seenDelivered => sms[h.msg].edited \/ ~sms[h.msg].there

LEMMA SmsInit == Sms!Init => SmsInv
BY DEF Sms!Init, SmsInv, SmsTypes, SmsRow, SendSteps, Timed, Sms!NoRow, Sms!Statuses, Sms!Unseen

\* A row is written, and the request that writes it goes on.  A mark of a user stays as
\* long as the row, and a callback meets no row that is new.
LEMMA SmsWrites ==
  ASSUME SmsInv, NEW m \in Messages, NEW r \in SmsRow, NEW next \in SendSteps,
         Sms!Write(m, r), Timed(r), r.there, next # "idle",
         sms[m].there /\ sms[m].edited => r.edited,
         sms[m].there \/ send[m] = "idle",
         send' = [send EXCEPT ![m] = next], UNCHANGED <<carrier, posted>>,
         handlers' \subseteq handlers
  PROVE  SmsInv'
<1>1. /\ sms' = [sms EXCEPT ![m] = r] /\ screen' = [screen EXCEPT ![m] = r.status]
      /\ r.status \in Sms!Statuses
  BY DEF Sms!Write, SmsRow
<1>2. SmsTypes'
  BY <1>1 DEF SmsInv, SmsTypes
<1>3. \A n \in Messages : sms'[n] = (IF n = m THEN r ELSE sms[n]) /\ (send'[n] = IF n = m THEN next ELSE send[n])
  BY <1>1 DEF SmsInv, SmsTypes
<1>4. \A h \in handlers : h.msg \in Messages
  BY DEF SmsInv, SmsTypes
<1> QED
  BY <1>2, <1>3, <1>4 DEF SmsInv

\* Only a request, Twilio or its callbacks go on.
LEMMA SmsGoes ==
  ASSUME SmsInv, SmsTypes', UNCHANGED sms,
         \A m \in Messages : send[m] # "idle" => send'[m] # "idle",
         \A h \in handlers' \ handlers :
           /\ h.msg \in Messages /\ sms[h.msg].there
           /\ h.seen = sms[h.msg].status /\ h.seenDelivered = sms[h.msg].deliveredAt
  PROVE  SmsInv'
<1>1. \A h \in handlers : h.msg \in Messages
  BY DEF SmsInv, SmsTypes
<1>2. \A h \in handlers' : send'[h.msg] # "idle"
  BY <1>1 DEF SmsInv
<1>3. \A h \in handlers' : h.seen = "delivered" /\ ~h.seenDelivered
                           => sms[h.msg].edited \/ ~sms[h.msg].there
  <2> TAKE h \in handlers'
  <2>1. CASE h \in handlers
    BY <2>1 DEF SmsInv
  <2>2. CASE h \notin handlers
    <3>1. h.msg \in Messages /\ Timed(sms[h.msg]) /\ sms[h.msg] \in SmsRow
      BY <2>2 DEF SmsInv, SmsTypes
    <3> QED
      BY <2>2, <3>1 DEF Timed, SmsRow
  <2> QED
    BY <2>1, <2>2
<1> QED
  BY <1>2, <1>3 DEF SmsInv

LEMMA SmsRequest ==
  ASSUME SmsInv, NEW m \in Messages,
         Sms!SendSms(m) \/ Sms!SendToTwilio(m) \/ Sms!SendAnswer(m) \/ Sms!SendFails(m)
  PROVE  SmsInv'
<1>0. sms[m] \in SmsRow /\ send[m] \in SendSteps /\ Timed(sms[m])
  BY DEF SmsInv, SmsTypes
<1>1. CASE Sms!SendSms(m)
  <2> DEFINE r == [Sms!NoRow EXCEPT !.there = TRUE]
  <2>1. r \in SmsRow /\ Timed(r) /\ r.there
    BY DEF SmsRow, Timed, Sms!NoRow, Sms!Statuses
  <2>2. Sms!Write(m, r) /\ send[m] = "idle" /\ send' = [send EXCEPT ![m] = "created"]
        /\ UNCHANGED <<carrier, posted, handlers>>
    BY <1>1 DEF Sms!SendSms
  <2>3. ~sms[m].there
    BY <2>2 DEF SmsInv
  <2> HIDE DEF r
  <2> QED
    BY <2>1, <2>2, <2>3, SmsWrites DEF SendSteps
<1>2. CASE Sms!SendToTwilio(m)
  <2>1. SmsTypes'
    BY <1>2 DEF Sms!SendToTwilio, SmsInv, SmsTypes, SendSteps
  <2>2. UNCHANGED <<sms, handlers>> /\ \A n \in Messages : send[n] # "idle" => send'[n] # "idle"
    BY <1>2 DEF Sms!SendToTwilio, SmsInv, SmsTypes
  <2> QED
    BY <2>1, <2>2, SmsGoes
<1>3. CASE Sms!SendAnswer(m)
  <2>1. CASE /\ Sms!Row(m) /\ send' = [send EXCEPT ![m] = "done"]
             /\ Sms!Write(m, [sms[m] EXCEPT !.sid = TRUE,
                                   !.status = IF send[m] = "queued" THEN "queued" ELSE "sent"])
    <3> DEFINE r == [sms[m] EXCEPT !.sid = TRUE,
                                   !.status = IF send[m] = "queued" THEN "queued" ELSE "sent"]
    <3>1. r \in SmsRow /\ Timed(r) /\ r.there = sms[m].there /\ r.edited = sms[m].edited
      BY <1>0 DEF SmsRow, Timed, Sms!Statuses
    <3> HIDE DEF r
    <3>2. Sms!Write(m, r) /\ sms[m].there
      BY <2>1 DEF r, Sms!Row
    <3> QED
      BY <1>3, <2>1, <3>1, <3>2, SmsWrites DEF SendSteps, Sms!SendAnswer
  <2>2. CASE send' = [send EXCEPT ![m] = "failed"] /\ Sms!NoWrite
    <3>1. SmsTypes'
      BY <1>3, <2>2 DEF Sms!SendAnswer, Sms!NoWrite, SmsInv, SmsTypes, SendSteps
    <3>2. UNCHANGED <<sms, handlers>> /\ \A n \in Messages : send[n] # "idle" => send'[n] # "idle"
      BY <1>3, <2>2 DEF Sms!SendAnswer, Sms!NoWrite, SmsInv, SmsTypes
    <3> QED
      BY <3>1, <3>2, SmsGoes
  <2> QED
    BY <1>3, <2>1, <2>2 DEF Sms!SendAnswer
<1>4. CASE Sms!SendFails(m)
  <2>1. CASE Sms!Row(m)
    <3> DEFINE r == [sms[m] EXCEPT !.status = "failed"]
    <3>1. r \in SmsRow /\ Timed(r) /\ r.there = sms[m].there /\ r.edited = sms[m].edited
      BY <1>0 DEF SmsRow, Timed, Sms!Statuses
    <3>2. Sms!Write(m, r) /\ sms[m].there
      BY <1>4, <2>1 DEF Sms!Row, Sms!SendFails
    <3> HIDE DEF r
    <3> QED
      BY <1>4, <3>1, <3>2, SmsWrites DEF SendSteps, Sms!SendFails
  <2>2. CASE ~Sms!Row(m)
    <3>1. SmsTypes'
      BY <1>4, <2>2 DEF Sms!SendFails, Sms!NoWrite, SmsInv, SmsTypes, SendSteps
    <3>2. UNCHANGED <<sms, handlers>> /\ \A n \in Messages : send[n] # "idle" => send'[n] # "idle"
      BY <1>4, <2>2 DEF Sms!SendFails, Sms!NoWrite, SmsInv, SmsTypes
    <3> QED
      BY <3>1, <3>2, SmsGoes
  <2> QED
    BY <2>1, <2>2
<1> QED
  BY <1>1, <1>2, <1>3, <1>4

LEMMA SmsCallback ==
  ASSUME SmsInv,
         \/ \E m \in Messages : Sms!Report(m)
         \/ \E p \in posted : Sms!StatusRead(p)
         \/ \E h \in handlers : Sms!StatusWrite(h)
  PROVE  SmsInv'
<1>1. CASE \E m \in Messages : Sms!Report(m)
  <2>1. PICK m \in Messages : Sms!Report(m)
    BY <1>1
  <2>2. SmsTypes'
    BY <2>1 DEF Sms!Report, SmsInv, SmsTypes, Sms!Reported
  <2> QED
    BY <2>1, <2>2, SmsGoes DEF Sms!Report
<1>2. CASE \E p \in posted : Sms!StatusRead(p)
  <2>1. PICK p \in posted : Sms!StatusRead(p)
    BY <1>2
  <2>2. p.msg \in Messages /\ p.status \in Sms!Reported /\ sms[p.msg] \in SmsRow
    BY DEF SmsInv, SmsTypes
  <2> DEFINE h == [msg |-> p.msg, status |-> p.status, seen |-> sms[p.msg].status,
                   seenDelivered |-> sms[p.msg].deliveredAt]
  <2>3. /\ posted' = posted \ {p} /\ UNCHANGED <<sms, send, carrier, screen>>
        /\ handlers' = handlers \/ (handlers' = handlers \cup {h} /\ sms[p.msg].there)
    BY <2>1 DEF Sms!StatusRead, Sms!Row
  <2>4. /\ h \in [msg : Messages, status : Sms!Reported, seen : Sms!Statuses, seenDelivered : BOOLEAN]
        /\ h.msg = p.msg /\ h.seen = sms[p.msg].status /\ h.seenDelivered = sms[p.msg].deliveredAt
    BY <2>2 DEF SmsRow
  <2> HIDE DEF h
  <2>5. SmsTypes'
    BY <2>3, <2>4 DEF SmsInv, SmsTypes
  <2> QED
    BY <2>2, <2>3, <2>4, <2>5, SmsGoes
<1>3. CASE \E h \in handlers : Sms!StatusWrite(h)
  <2>1. PICK h \in handlers : Sms!StatusWrite(h)
    BY <1>3
  <2> DEFINE m == h.msg
  <2>2. /\ m \in Messages /\ sms[m] \in SmsRow /\ h.status \in Sms!Reported /\ send[m] # "idle"
        /\ h.seen \in Sms!Statuses /\ h.seenDelivered \in BOOLEAN /\ send[m] \in SendSteps
        /\ h.seen = "delivered" /\ ~h.seenDelivered => sms[m].edited \/ ~sms[m].there
    BY DEF SmsInv, SmsTypes
  <2>3. handlers' = handlers \ {h} /\ UNCHANGED <<send, carrier, posted>>
    BY <2>1 DEF Sms!StatusWrite
  <2>4. CASE Sms!Row(m)
    <3> DEFINE r == [sms[m] EXCEPT !.status = Sms!Mapped(h.status, h.seen),
                                   !.deliveredAt = h.status = "delivered" \/ h.seenDelivered]
    <3>1. /\ Sms!Mapped(h.status, h.seen) \in Sms!Statuses
          /\ Sms!Mapped(h.status, h.seen) = "delivered"
               => h.status = "delivered" \/ (h.status = "other" /\ h.seen = "delivered")
      BY <2>2 DEF Sms!Mapped, Sms!Reported, Sms!Statuses
    <3>2. /\ r \in SmsRow /\ r.there = sms[m].there /\ r.edited = sms[m].edited
          /\ r.status = Sms!Mapped(h.status, h.seen)
          /\ r.deliveredAt = (h.status = "delivered" \/ h.seenDelivered)
      BY <2>2, <3>1 DEF SmsRow
    <3>3. Sms!Write(m, r) /\ sms[m].there
      BY <2>1, <2>4 DEF Sms!StatusWrite, Sms!Row
    <3> HIDE DEF r
    <3>4. Timed(r)
      BY <2>2, <3>1, <3>2, <3>3 DEF Timed
    <3>5. send' = [send EXCEPT ![m] = send[m]]
      BY <2>3 DEF SmsInv, SmsTypes
    <3> HIDE DEF m
    <3> QED
      BY <2>2, <2>3, <3>2, <3>3, <3>4, <3>5, SmsWrites
  <2>5. CASE ~Sms!Row(m)
    <3>1. UNCHANGED <<sms, screen>>
      BY <2>1, <2>5 DEF Sms!StatusWrite, Sms!NoWrite
    <3>2. SmsTypes'
      BY <2>3, <3>1 DEF SmsInv, SmsTypes
    <3> QED
      BY <2>3, <3>1, <3>2, SmsGoes
  <2> QED
    BY <2>4, <2>5
<1> QED
  BY <1>1, <1>2, <1>3

LEMMA SmsOperation ==
  ASSUME SmsInv, NEW m \in Messages,
         Sms!HandleIncomingSms(m) \/ Sms!Create(m) \/ Sms!Update(m) \/ Sms!MarkAsRead(m)
  PROVE  SmsInv'
<1>0. sms[m] \in SmsRow /\ send[m] \in SendSteps /\ Timed(sms[m])
      /\ (sms[m].there => send[m] # "idle") /\ send = [send EXCEPT ![m] = send[m]]
  BY DEF SmsInv, SmsTypes
<1>1. CASE Sms!HandleIncomingSms(m)
  <2> DEFINE r == [Sms!NoRow EXCEPT !.there = TRUE, !.inbound = TRUE, !.status = "received", !.sid = TRUE]
  <2>1. CASE Sms!Write(m, r)
    <3>1. r \in SmsRow /\ Timed(r) /\ r.there
      BY DEF SmsRow, Timed, Sms!NoRow, Sms!Statuses
    <3> HIDE DEF r
    <3> QED
      BY <1>0, <1>1, <2>1, <3>1, SmsWrites DEF SendSteps, Sms!HandleIncomingSms
  <2>2. CASE Sms!NoWrite
    <3>1. SmsTypes'
      BY <1>1, <2>2 DEF Sms!HandleIncomingSms, Sms!NoWrite, SmsInv, SmsTypes, SendSteps
    <3>2. UNCHANGED <<sms, handlers>> /\ \A n \in Messages : send[n] # "idle" => send'[n] # "idle"
      BY <1>1, <2>2 DEF Sms!HandleIncomingSms, Sms!NoWrite, SmsInv, SmsTypes
    <3> QED
      BY <3>1, <3>2, SmsGoes
  <2> QED
    BY <1>1, <2>1, <2>2 DEF Sms!HandleIncomingSms
<1>2. CASE Sms!Create(m)
  <2> DEFINE r(s) == [Sms!NoRow EXCEPT !.there = TRUE, !.status = s, !.edited = TRUE]
  <2>1. PICK s \in Sms!Statuses : Sms!Write(m, r(s))
    BY <1>2 DEF Sms!Create
  <2>2. r(s) \in SmsRow /\ Timed(r(s)) /\ r(s).there /\ r(s).edited
    BY DEF SmsRow, Timed, Sms!NoRow
  <2> HIDE DEF r
  <2> QED
    BY <1>0, <1>2, <2>1, <2>2, SmsWrites DEF SendSteps, Sms!Create
<1>3. CASE Sms!Update(m)
  <2> DEFINE r(s, d) == [sms[m] EXCEPT !.status = s, !.deliveredAt = d, !.edited = TRUE]
  <2>1. PICK s \in Sms!Statuses, d \in BOOLEAN : Sms!Write(m, r(s, d))
    BY <1>3 DEF Sms!Update
  <2>2. r(s, d) \in SmsRow /\ Timed(r(s, d)) /\ r(s, d).there = sms[m].there /\ r(s, d).edited
    BY <1>0 DEF SmsRow, Timed
  <2> HIDE DEF r
  <2> QED
    BY <1>0, <1>3, <2>1, <2>2, SmsWrites DEF Sms!Update, Sms!Row
<1>4. CASE Sms!MarkAsRead(m)
  <2> DEFINE r == [sms[m] EXCEPT !.read = TRUE]
  <2>1. r \in SmsRow /\ Timed(r) /\ r.there = sms[m].there /\ r.edited = sms[m].edited
    BY <1>0 DEF SmsRow, Timed
  <2>2. Sms!Write(m, r)
    BY <1>4 DEF Sms!MarkAsRead
  <2> HIDE DEF r
  <2> QED
    BY <1>0, <1>4, <2>1, <2>2, SmsWrites DEF Sms!MarkAsRead, Sms!Row
<1> QED
  BY <1>1, <1>2, <1>3, <1>4

\* A row that keeps its status and its times, or is gone.
LEMMA SmsRest ==
  ASSUME SmsInv, Sms!MarkAllAsRead \/ \E m \in Messages : Sms!Remove(m)
  PROVE  SmsInv'
<1>1. CASE Sms!MarkAllAsRead
  <2> DEFINE r(m) == [sms[m] EXCEPT !.read = sms[m].read \/ sms[m].there]
  <2>1. sms' = [m \in Messages |-> r(m)] /\ UNCHANGED <<send, carrier, posted, handlers, screen>>
    BY <1>1 DEF Sms!MarkAllAsRead
  <2>2. ASSUME NEW m \in Messages
        PROVE  /\ r(m) \in SmsRow /\ r(m).there = sms[m].there /\ r(m).edited = sms[m].edited
               /\ r(m).status = sms[m].status /\ r(m).deliveredAt = sms[m].deliveredAt
    <3>1. sms[m] \in SmsRow
      BY DEF SmsInv, SmsTypes
    <3> QED
      BY <3>1 DEF SmsRow
  <2> HIDE DEF r
  <2>3. SmsTypes'
    BY <2>1, <2>2 DEF SmsInv, SmsTypes
  <2>4. \A h \in handlers : h.msg \in Messages
    BY DEF SmsInv, SmsTypes
  <2> QED
    BY <2>1, <2>2, <2>3, <2>4 DEF SmsInv, Timed
<1>2. CASE \E m \in Messages : Sms!Remove(m)
  <2>1. PICK m \in Messages : Sms!Remove(m)
    BY <1>2
  <2> DEFINE r == Sms!NoRow
  <2>2. r \in SmsRow /\ Timed(r) /\ ~r.there
    BY DEF SmsRow, Timed, Sms!NoRow, Sms!Statuses
  <2>3. /\ sms' = [sms EXCEPT ![m] = r] /\ screen' = [screen EXCEPT ![m] = Sms!Unseen]
        /\ UNCHANGED <<send, carrier, posted, handlers>>
    BY <2>1 DEF Sms!Remove
  <2> HIDE DEF r
  <2>4. SmsTypes'
    BY <2>2, <2>3 DEF SmsInv, SmsTypes
  <2>5. \A n \in Messages : sms'[n] = IF n = m THEN r ELSE sms[n]
    BY <2>3 DEF SmsInv, SmsTypes
  <2>6. \A h \in handlers : h.msg \in Messages
    BY DEF SmsInv, SmsTypes
  <2> QED
    BY <2>2, <2>3, <2>4, <2>5, <2>6 DEF SmsInv
<1> QED
  BY <1>1, <1>2

LEMMA SmsStep == SmsInv /\ Sms!Next => SmsInv'
BY SmsRequest, SmsCallback, SmsOperation, SmsRest DEF Sms!Next

-----------------------------------------------------------------------------
(* Presence *)

PresenceTask == [socket : Sockets \cup Requests, op : Presence!Ops, tenant : Tenants, step : Presence!Steps]
SocketRow    == [open : BOOLEAN, tenant : Tenants \cup {Presence!Nowhere},
                 mapped : Tenants \cup {Presence!Nowhere}]

\* A handler knows a tenant: it is begun for the one that the socket has joined.
PresenceTypes == Presence!TypeOK

LEMMA PresenceInit == Presence!Init => PresenceTypes
<1> SUFFICES ASSUME Presence!Init PROVE PresenceTypes
  OBVIOUS
<1>1. opens \in 0 .. MaxOpens
  BY BoundsAssumption DEF Presence!Init
<1>2. socket \in [Sockets -> SocketRow]
  BY DEF Presence!Init, Presence!Closed, SocketRow
<1> QED
  BY <1>1, <1>2 DEF Presence!Init, PresenceTypes, Presence!TypeOK, SocketRow

\* What a handler adds to the tasks has the type of a task.
LEMMA PresenceBegins ==
  ASSUME PresenceTypes, NEW s \in Sockets \cup Requests, NEW op \in Presence!Ops, NEW t \in Tenants,
         Presence!Begin(s, op, t)
  PROVE  tasks' \subseteq PresenceTask
<1> DEFINE k == [socket |-> s, op |-> op, tenant |-> t, step |-> "write key"]
<1>1. k \in PresenceTask
  BY DEF PresenceTask, Presence!Steps
<1>2. tasks' = tasks \cup {k}
  BY DEF Presence!Begin
<1> HIDE DEF k
<1> QED
  BY <1>1, <1>2 DEF PresenceTypes, Presence!TypeOK, PresenceTask

LEMMA PresenceGoes ==
  ASSUME PresenceTypes, NEW k \in tasks, Presence!Step(k) \/ Presence!Finish(k)
  PROVE  tasks' \subseteq PresenceTask
<1> DEFINE l == [k EXCEPT !.step = Presence!After(k)]
<1>1. k \in PresenceTask
  BY DEF PresenceTypes, Presence!TypeOK, PresenceTask
<1>2. Presence!After(k) \in Presence!Steps
  BY DEF Presence!After, Presence!Steps
<1>3. l \in PresenceTask
  BY <1>1, <1>2 DEF PresenceTask
<1>4. tasks' \subseteq tasks \cup {l}
  BY DEF Presence!Step, Presence!Finish
<1> HIDE DEF l
<1> QED
  BY <1>3, <1>4 DEF PresenceTypes, Presence!TypeOK, PresenceTask

\* The sockets and the rows in Redis and the database, without the handlers.
PresenceRest ==
  /\ socket \in [Sockets -> SocketRow]
  /\ key \in [Tenants -> {"none", "fresh", "old"}]
  /\ roster \subseteq Tenants /\ isOnline \in BOOLEAN /\ told \subseteq Tenants
  /\ opens \in 0 .. MaxOpens /\ called \subseteq Requests

LEMMA PresenceParts == PresenceTypes <=> PresenceRest /\ tasks \subseteq PresenceTask
BY DEF PresenceTypes, Presence!TypeOK, PresenceRest, PresenceTask, SocketRow

LEMMA GatewayStep ==
  ASSUME PresenceTypes, NEW s \in Sockets,
         \/ Presence!HandleConnection(s) \/ Presence!HandleLeaveTenant(s)
         \/ Presence!HandleDisconnect(s) \/ Presence!HandleHeartbeat(s)
         \/ \E t \in Tenants : Presence!HandleJoinTenant(s, t)
  PROVE  PresenceTypes'
<1>0. /\ PresenceRest /\ tasks \subseteq PresenceTask /\ socket[s] \in SocketRow
      /\ {"join", "leave", "heartbeat", "disconnect", "request"} = Presence!Ops
  BY PresenceParts DEF PresenceRest, Presence!Ops
<1>1. CASE Presence!HandleConnection(s)
  <2> DEFINE held == [Presence!Closed EXCEPT !.open = TRUE]
  <2>1. held \in SocketRow
    BY DEF SocketRow, Presence!Closed
  <2>2. opens' \in 0 .. MaxOpens
    BY <1>0, <1>1, BoundsAssumption DEF Presence!HandleConnection, PresenceRest
  <2>3. socket' = [socket EXCEPT ![s] = held] /\ UNCHANGED <<key, roster, isOnline, told, tasks, called>>
    BY <1>1 DEF Presence!HandleConnection
  <2> HIDE DEF held
  <2> QED
    BY <1>0, <2>1, <2>2, <2>3, PresenceParts
     DEF PresenceRest, PresenceTypes, Presence!TypeOK, PresenceTask, SocketRow
<1>2. CASE Presence!HandleLeaveTenant(s) \/ Presence!HandleHeartbeat(s)
  <2>1. /\ socket[s].tenant \in Tenants
        /\ Presence!Begin(s, "leave", socket[s].tenant) \/ Presence!Begin(s, "heartbeat", socket[s].tenant)
        /\ UNCHANGED <<socket, key, roster, isOnline, told, opens, called>>
    BY <1>0, <1>2 DEF Presence!HandleLeaveTenant, Presence!HandleHeartbeat, SocketRow
  <2>2. tasks' \subseteq PresenceTask
    BY <1>0, <2>1, PresenceBegins
  <2> QED
    BY <1>0, <2>1, <2>2, PresenceParts
     DEF PresenceRest, PresenceTypes, Presence!TypeOK, PresenceTask, SocketRow
<1>3. CASE Presence!HandleDisconnect(s)
  <2> DEFINE held == [socket[s] EXCEPT !.open = FALSE]
  <2>1. held \in SocketRow
    BY <1>0 DEF SocketRow
  <2>2. /\ socket' = [socket EXCEPT ![s] = held] /\ UNCHANGED <<key, roster, isOnline, told, opens, called>>
        /\ \/ socket[s].mapped \in Tenants /\ Presence!Begin(s, "disconnect", socket[s].mapped)
           \/ UNCHANGED tasks
    BY <1>0, <1>3 DEF Presence!HandleDisconnect, SocketRow
  <2>3. tasks' \subseteq PresenceTask
    BY <1>0, <2>2, PresenceBegins
  <2> HIDE DEF held
  <2> QED
    BY <1>0, <2>1, <2>2, <2>3, PresenceParts
     DEF PresenceRest, PresenceTypes, Presence!TypeOK, PresenceTask, SocketRow
<1>4. CASE \E t \in Tenants : Presence!HandleJoinTenant(s, t)
  <2>1. PICK t \in Tenants : Presence!HandleJoinTenant(s, t)
    BY <1>4
  <2> DEFINE held == [open |-> TRUE, tenant |-> t, mapped |-> t]
  <2>2. held \in SocketRow
    BY DEF SocketRow
  <2>3. /\ socket' = [socket EXCEPT ![s] = held] /\ UNCHANGED <<key, roster, isOnline, told, opens, called>>
        /\ Presence!Begin(s, "join", t)
    BY <2>1 DEF Presence!HandleJoinTenant
  <2>4. tasks' \subseteq PresenceTask
    BY <1>0, <2>3, PresenceBegins
  <2> HIDE DEF held
  <2> QED
    BY <1>0, <2>2, <2>3, <2>4, PresenceParts
     DEF PresenceRest, PresenceTypes, Presence!TypeOK, PresenceTask, SocketRow
<1> QED
  BY <1>1, <1>2, <1>3, <1>4

LEMMA PresenceStep == PresenceTypes /\ Presence!Next => PresenceTypes'
<1> SUFFICES ASSUME PresenceTypes, Presence!Next PROVE PresenceTypes'
  OBVIOUS
<1>0. PresenceRest /\ tasks \subseteq PresenceTask
  BY PresenceParts
<1>1. CASE Presence!Handler
  <2>1. PICK k \in tasks : Presence!UpdateActivity(k) \/ Presence!SetUserOnline(k) \/ Presence!SetUserOffline(k)
    BY <1>1 DEF Presence!Handler
  <2>2. k.tenant \in Tenants /\ UNCHANGED <<opens, called>>
    BY <1>0, <1>1 DEF PresenceTask, Presence!Handler
  <2>3. tasks' \subseteq PresenceTask
    <3>1. Presence!Step(k) \/ Presence!Finish(k)
      BY <2>1 DEF Presence!UpdateActivity, Presence!SetUserOnline, Presence!SetUserOffline
    <3> QED
      BY <3>1, PresenceGoes
  <2>4. /\ key' \in {key, [key EXCEPT ![k.tenant] = "fresh"], [key EXCEPT ![k.tenant] = "none"]}
        /\ roster' \in {roster, roster \cup {k.tenant}, roster \ {k.tenant}}
        /\ told' \in {told, told \cup {k.tenant}, told \ {k.tenant}}
        /\ isOnline' \in {isOnline, TRUE, FALSE}
    BY <2>1 DEF Presence!UpdateActivity, Presence!SetUserOnline, Presence!SetUserOffline
  <2>5. socket' \in [Sockets -> SocketRow]
    <3>1. CASE k.socket \notin Sockets
      BY <1>0, <2>1, <3>1
       DEF PresenceRest, Presence!UpdateActivity, Presence!SetUserOnline, Presence!SetUserOffline
    <3>2. CASE k.socket \in Sockets
      <4> DEFINE left == [[socket[k.socket] EXCEPT !.mapped = Presence!Nowhere]
                            EXCEPT !.tenant = Presence!Nowhere]
                 gone == [socket[k.socket] EXCEPT !.mapped = Presence!Nowhere]
      <4>1. socket[k.socket] \in SocketRow
        BY <1>0, <3>2 DEF PresenceRest
      <4>2. left \in SocketRow /\ gone \in SocketRow
        BY <4>1 DEF SocketRow
      <4>3. \/ UNCHANGED socket
            \/ socket' = [socket EXCEPT ![k.socket].mapped = Presence!Nowhere, ![k.socket].tenant = Presence!Nowhere]
            \/ socket' = [socket EXCEPT ![k.socket].mapped = Presence!Nowhere]
        BY <2>1 DEF Presence!UpdateActivity, Presence!SetUserOnline, Presence!SetUserOffline
      <4>4. socket' \in {socket, [socket EXCEPT ![k.socket] = left], [socket EXCEPT ![k.socket] = gone]}
        BY <1>0, <3>2, <4>3 DEF PresenceRest
      <4> HIDE DEF left, gone
      <4> QED
        BY <1>0, <4>2, <4>4 DEF PresenceRest
    <3> QED
      BY <3>1, <3>2
  <2> QED
    BY <1>0, <2>2, <2>3, <2>4, <2>5, PresenceParts
     DEF PresenceRest, PresenceTypes, Presence!TypeOK, PresenceTask, SocketRow
<1>2. CASE Presence!Age
  <2>1. PICK t \in Tenants : key' = [key EXCEPT ![t] = IF key[t] = "fresh" THEN "old" ELSE "none"]
    BY <1>2 DEF Presence!Age
  <2>2. UNCHANGED <<socket, roster, isOnline, told, tasks, opens, called>>
    BY <1>2 DEF Presence!Age
  <2> QED
    BY <1>0, <2>1, <2>2, PresenceParts
     DEF PresenceRest, PresenceTypes, Presence!TypeOK, PresenceTask, SocketRow
<1>3. CASE \E r \in Requests, t \in Tenants : Presence!Intercept(r, t)
  <2>1. PICK r \in Requests, t \in Tenants : Presence!Intercept(r, t)
    BY <1>3
  <2>2. /\ Presence!Begin(r, "request", t) /\ "request" \in Presence!Ops
        /\ called' = called \cup {r} /\ UNCHANGED <<socket, key, roster, isOnline, told, opens>>
    BY <2>1 DEF Presence!Intercept, Presence!Ops
  <2>3. tasks' \subseteq PresenceTask
    BY <2>2, PresenceBegins
  <2> QED
    BY <1>0, <2>2, <2>3, PresenceParts
     DEF PresenceRest, PresenceTypes, Presence!TypeOK, PresenceTask, SocketRow
<1> QED
  BY <1>1, <1>2, <1>3, GatewayStep DEF Presence!Next

-----------------------------------------------------------------------------
(* The log of calls *)

Transcripts == {"none", "pending", "processing", "completed", "failed"}
LogRow == [there : BOOLEAN, outbound : BOOLEAN, status : Log!Statuses,
           url : 0 .. Log!Missing, sid : 0 .. Log!Missing,
           transcript : Transcripts, text : SUBSET Log!Words]

\* A job is about a recording, and has copied what it read of the rows.
JobOK(j) ==
  /\ j.kind \in {"record", "transcribe"} /\ j.rec \in 0 .. Log!Whole
  /\ \A t \in j.rows : t[1] \in Log!Segments /\ t[3] \in Transcripts

LogInv ==
  /\ rows \in [Log!Segments -> LogRow]
  /\ \A j \in jobs : JobOK(j)
  /\ recordings \subseteq 0 .. Log!Whole /\ logEdits \in 0 .. 1

LEMMA LogNumbers ==
  /\ Last \in Nat /\ Log!Whole = Last + 1 /\ Log!Missing = Last + 2 /\ Log!Segments = 0 .. Last
  /\ 0 \in Log!Segments /\ Log!Missing \in 0 .. Log!Missing
  /\ \A n \in 0 .. Log!Whole : n \in 0 .. Log!Missing /\ n # Log!Missing /\ (n # Log!Whole => n \in Log!Segments)
BY BoundsAssumption DEF Log!Whole, Log!Missing, Log!Segments

LEMMA LogTypes == LogInv => Log!TypeOK
<1>1. \A n \in 0 .. Log!Whole : n # Log!Missing
  BY LogNumbers
<1> QED
  BY <1>1 DEF LogInv, Log!TypeOK, LogRow, Transcripts, JobOK

LEMMA EmptyRow == Log!NoRow \in LogRow
BY LogNumbers DEF Log!NoRow, LogRow, Log!Statuses, Transcripts

LEMMA TextTyped == \A rec \in 0 .. Log!Whole : Log!TextOf(rec) \subseteq Log!Words
<1> TAKE rec \in 0 .. Log!Whole
<1>1. CASE rec = Log!Whole
  BY <1>1 DEF Log!TextOf
<1>2. CASE rec # Log!Whole
  <2>1. rec \in Log!Segments /\ 0 \in Log!Segments
    BY <1>2, LogNumbers
  <2> QED
    BY <1>2, <2>1 DEF Log!TextOf, Log!Words
<1> QED
  BY <1>1, <1>2

LEMMA LogInit == Log!Init => LogInv
<1>1. Log!Init => rows \in [Log!Segments -> LogRow]
  BY EmptyRow DEF Log!Init
<1>2. 0 .. Log!Whole = 0 .. Last + 1 /\ 0 \in 0 .. 1
  BY LogNumbers
<1>3. Log!Init => recordings \subseteq 0 .. Log!Whole
  <2>1. Log!Init => recordings \in Recorded
    BY DEF Log!Init
  <2> QED
    BY <1>2, <2>1, RecordedAssumption
<1> QED
  BY <1>1, <1>2, <1>3 DEF Log!Init, LogInv

\* Only the rows change.
LEMMA LogWrites ==
  ASSUME LogInv, rows' \in [Log!Segments -> LogRow], jobs' \subseteq jobs,
         recordings' \subseteq recordings, logEdits' \in {logEdits, 1}
  PROVE  LogInv'
BY DEF LogInv, JobOK

LEMMA UpdateTyped ==
  ASSUME LogInv, NEW k \in Log!Segments, NEW s \in Log!Statuses, Log!Update(k, s)
  PROVE  rows' \in [Log!Segments -> LogRow]
<1> DEFINE r == [rows[k] EXCEPT !.status = s]
<1>1. rows[k] \in LogRow /\ rows \in [Log!Segments -> LogRow]
  BY DEF LogInv
<1>2. r \in LogRow
  BY <1>1 DEF LogRow
<1>3. rows' \in {rows, [rows EXCEPT ![k] = r]}
  BY <1>1 DEF Log!Update
<1> HIDE DEF r
<1> QED
  BY <1>1, <1>2, <1>3

LEMMA LatestTyped == \A k \in Log!Active : k \in Log!Segments
BY DEF Log!Active, Log!There

LEMMA LogCall ==
  ASSUME LogInv,
         \/ Log!CreateCall(FALSE) \/ Log!HandleOutgoingCall
         \/ Log!HandleVoiceStatus \/ Log!HandleOutgoingStatus
         \/ \E k \in Log!Segments : Log!AppendSegment(k)
  PROVE  LogInv'
<1>0. /\ rows \in [Log!Segments -> LogRow] /\ 0 \in Log!Segments
      /\ {"ringing", "in-progress", "transferred", "completed", "no-answer"} = Log!Statuses
  BY LogNumbers DEF LogInv, Log!Statuses
<1>1. ASSUME NEW out \in BOOLEAN, Log!CreateCall(out) PROVE LogInv'
  <2> DEFINE r == [Log!NoRow EXCEPT !.there = TRUE, !.outbound = out]
  <2>1. r \in LogRow
    BY EmptyRow DEF LogRow, Log!NoRow
  <2>2. rows' = [rows EXCEPT ![0] = r] /\ UNCHANGED <<jobs, recordings, logEdits>>
    BY <1>1 DEF Log!CreateCall
  <2> HIDE DEF r
  <2> QED
    BY <1>0, <2>1, <2>2, LogWrites
<1>2. CASE Log!HandleOutgoingCall
  BY <1>1, <1>2 DEF Log!HandleOutgoingCall
<1>3. CASE Log!HandleVoiceStatus
  <2>1. UNCHANGED <<jobs, recordings, logEdits>>
    BY <1>3 DEF Log!HandleVoiceStatus
  <2>2. CASE \E s \in {"ringing", "in-progress"} : Log!Update(0, s)
    BY <1>0, <2>1, <2>2, UpdateTyped, LogWrites
  <2>3. CASE \E s \in {"completed", "no-answer"} : Log!Update(Log!Latest, s)
    <3>1. PICK s \in {"completed", "no-answer"} : Log!Update(Log!Latest, s)
      BY <2>3
    <3>2. rows' \in [Log!Segments -> LogRow]
      <4>1. CASE Log!Latest \in Log!Segments
        BY <1>0, <3>1, <4>1, UpdateTyped
      <4>2. CASE Log!Latest \notin Log!Segments
        <5> DEFINE l == Log!Latest
        <5>1. rows' = rows \/ rows' = [rows EXCEPT ![l].status = s]
          BY <3>1 DEF Log!Update
        <5>2. DOMAIN rows = Log!Segments
          BY <1>0
        <5> HIDE DEF l
        <5>3. rows' = rows
          BY <1>0, <4>2, <5>1, <5>2 DEF l
        <5> QED
          BY <1>0, <5>3
      <4> QED
        BY <4>1, <4>2
    <3> QED
      BY <2>1, <3>2, LogWrites
  <2> QED
    BY <1>3, <2>2, <2>3 DEF Log!HandleVoiceStatus
<1>4. CASE Log!HandleOutgoingStatus
  <2>1. UNCHANGED <<jobs, recordings, logEdits>>
    BY <1>4 DEF Log!HandleOutgoingStatus
  <2> QED
    BY <1>0, <1>4, <2>1, UpdateTyped, LogWrites DEF Log!HandleOutgoingStatus
<1>5. CASE \E k \in Log!Segments : Log!AppendSegment(k)
  <2>1. PICK k \in Log!Segments : Log!AppendSegment(k)
    BY <1>5
  <2> DEFINE r == [rows[k - 1] EXCEPT !.status = "transferred"]
             new == [Log!NoRow EXCEPT !.there = TRUE, !.status = "in-progress"]
  <2>2. k - 1 \in Log!Segments
    BY <2>1 DEF Log!AppendSegment, Log!There
  <2>3. rows[k - 1] \in LogRow
    BY <1>0, <2>2
  <2>4. r \in LogRow /\ new \in LogRow
    BY <2>3, EmptyRow DEF LogRow, Log!NoRow, Log!Statuses
  <2>5. rows' = [[rows EXCEPT ![k - 1] = r] EXCEPT ![k] = new] /\ UNCHANGED <<jobs, recordings, logEdits>>
    BY <1>0, <2>1, <2>2 DEF Log!AppendSegment
  <2> HIDE DEF r, new
  <2> QED
    BY <1>0, <2>2, <2>4, <2>5, LogWrites
<1> QED
  BY <1>1, <1>2, <1>3, <1>4, <1>5

LEMMA LogRecord ==
  ASSUME LogInv, \/ Log!HandleVoicemailRecording
                 \/ \E rec \in recordings : Log!ProcessRecording(rec)
  PROVE  LogInv'
<1>0. /\ rows \in [Log!Segments -> LogRow] /\ 0 \in Log!Segments
      /\ "completed" \in Log!Statuses /\ Log!Whole \in 0 .. Log!Whole
  BY LogNumbers DEF LogInv, Log!Statuses
<1>1. ASSUME NEW rec \in 0 .. Log!Whole, Log!StartRecord(rec)
      PROVE  (\A j \in jobs' : JobOK(j)) /\ recordings' \subseteq recordings /\ UNCHANGED logEdits
  <2> DEFINE ks == {<<k, rows[k].text # {}, rows[k].transcript>> : k \in Log!RowsOf(rec)}
             j == Log!Job("record", rec, ks, Last, "upload")
  <2>1. ASSUME NEW t \in ks PROVE t[1] \in Log!Segments /\ t[3] \in Transcripts
    <3>1. PICK k \in Log!RowsOf(rec) : t = <<k, rows[k].text # {}, rows[k].transcript>>
      OBVIOUS
    <3>2. k \in Log!Segments
      BY DEF Log!RowsOf, Log!There
    <3> QED
      BY <1>0, <3>1, <3>2 DEF LogRow
  <2> HIDE DEF ks
  <2>2. j.kind = "record" /\ j.rec = rec /\ j.rows = ks
    BY DEF Log!Job
  <2>3. JobOK(j)
    BY <2>1, <2>2 DEF JobOK
  <2>4. jobs' \subseteq jobs \cup {j} /\ recordings' \subseteq recordings /\ UNCHANGED logEdits
    BY <1>1 DEF Log!StartRecord, ks
  <2> HIDE DEF j
  <2> QED
    BY <2>3, <2>4 DEF LogInv
<1>2. CASE Log!HandleVoicemailRecording
  <2>1. rows' \in [Log!Segments -> LogRow]
    BY <1>0, <1>2, UpdateTyped DEF Log!HandleVoicemailRecording
  <2> QED
    BY <1>0, <1>1, <1>2, <2>1 DEF Log!HandleVoicemailRecording, LogInv
<1>3. CASE \E rec \in recordings : Log!ProcessRecording(rec)
  BY <1>1, <1>3 DEF Log!ProcessRecording, LogInv
<1> QED
  BY <1>2, <1>3

LEMMA LogWork ==
  ASSUME LogInv, Log!Work
  PROVE  LogInv'
<1>0. rows \in [Log!Segments -> LogRow] /\ \A j \in jobs : JobOK(j)
  BY DEF LogInv
<1>1. PICK j \in jobs : \/ Log!RecordStored(j) \/ Log!RecordFails(j)
                        \/ Log!TranscribeStart(j) \/ Log!TranscribeEnd(j)
  BY DEF Log!Work
<1>2. JobOK(j) /\ j.rec \in 0 .. Log!Missing
  BY <1>0, LogNumbers DEF JobOK
<1>3. CASE Log!RecordStored(j)
  <2> DEFINE found == {t \in j.rows : rows[t[1]].there}
             last  == CHOOSE k \in Log!SegmentsOf(j) : \A l \in Log!SegmentsOf(j) : l <= k
             T(k)  == CHOOSE t \in j.rows : t[1] = k
             now(k) == IF j.rec = Log!Whole /\ T(k)[2] THEN T(k)[3] ELSE "pending"
             Stored(k) == [rows[k] EXCEPT !.url = j.rec, !.sid = j.rec, !.transcript = now(k)]
             next == Log!Job("transcribe", j.rec, {}, last, "start")
  <2>1. /\ rows' = [k \in Log!Segments |-> IF \E t \in found : t[1] = k THEN Stored(k) ELSE rows[k]]
        /\ jobs' \in {(jobs \ {j}) \cup {next}, jobs \ {j}} /\ UNCHANGED <<recordings, logEdits>>
    BY <1>3 DEF Log!RecordStored, Log!Finish
  <2>2. ASSUME NEW k \in Log!Segments, NEW t \in found, t[1] = k PROVE Stored(k) \in LogRow
    <3>1. T(k) \in j.rows
      BY <2>2
    <3> HIDE DEF T
    <3>2. now(k) \in Transcripts
      BY <1>2, <3>1 DEF JobOK, Transcripts
    <3> HIDE DEF now
    <3>3. rows[k] \in LogRow
      BY <1>0
    <3> QED
      BY <1>2, <3>2, <3>3 DEF LogRow
  <2>3. next.kind = "transcribe" /\ next.rec = j.rec /\ next.rows = {}
    BY DEF Log!Job
  <2>4. JobOK(next)
    BY <1>2, <2>3 DEF JobOK
  <2> HIDE DEF Stored, next, found
  <2>5. rows' \in [Log!Segments -> LogRow]
    BY <1>0, <2>1, <2>2
  <2> QED
    BY <1>0, <2>1, <2>4, <2>5 DEF LogInv
<1>4. CASE Log!RecordFails(j)
  <2> DEFINE r(k) == [rows[k] EXCEPT !.sid = j.rec]
  <2>1. /\ rows' = [k \in Log!Segments |-> IF k \in Log!SegmentsOf(j) /\ rows[k].there
                                           THEN r(k) ELSE rows[k]]
        /\ jobs' \subseteq jobs /\ UNCHANGED <<recordings, logEdits>>
    BY <1>4 DEF Log!RecordFails, Log!Finish
  <2>2. \A k \in Log!Segments : r(k) \in LogRow
    <3> TAKE k \in Log!Segments
    <3>1. rows[k] \in LogRow
      BY <1>0
    <3> QED
      BY <1>2, <3>1 DEF LogRow
  <2> HIDE DEF r
  <2>3. rows' \in [Log!Segments -> LogRow]
    BY <1>0, <2>1, <2>2
  <2> QED
    BY <2>1, <2>3, LogWrites
\* An update of a row that is no segment's changes nothing.
<1>5. ASSUME NEW k, NEW s \in Transcripts, rows' = [rows EXCEPT ![k].transcript = s]
      PROVE  rows' \in [Log!Segments -> LogRow]
  <2> DEFINE r == [rows[k] EXCEPT !.transcript = s]
  <2>1. k \in Log!Segments => r \in LogRow
    <3>1. k \in Log!Segments => rows[k] \in LogRow
      BY <1>0
    <3> QED
      BY <3>1 DEF LogRow
  <2>2. rows' = [rows EXCEPT ![k] = r]
    BY <1>0, <1>5
  <2> HIDE DEF r
  <2> QED
    BY <1>0, <2>1, <2>2
<1>6. CASE Log!TranscribeStart(j)
  <2> DEFINE next == [j EXCEPT !.step = "ask"]
  <2>1. /\ jobs' \in {(jobs \ {j}) \cup {next}, jobs \ {j}} /\ UNCHANGED <<recordings, logEdits>>
        /\ rows' = rows \/ rows' = [rows EXCEPT ![j.seg].transcript = "processing"]
    BY <1>6 DEF Log!TranscribeStart, Log!Finish
  <2>2. rows' \in [Log!Segments -> LogRow]
    BY <1>0, <1>5, <2>1 DEF Transcripts
  <2>3. JobOK(next)
    BY <1>2 DEF JobOK
  <2> HIDE DEF next
  <2> QED
    BY <1>0, <2>1, <2>2, <2>3 DEF LogInv
<1>7. CASE Log!TranscribeEnd(j)
  <2>1. /\ jobs' \subseteq jobs /\ UNCHANGED <<recordings, logEdits>>
        /\ \/ rows' = rows \/ rows' = [rows EXCEPT ![j.seg].transcript = "failed"]
           \/ rows' = [rows EXCEPT ![j.seg].transcript = "completed",
                                   ![j.seg].text = Log!TextOf(j.rec)]
    BY <1>7 DEF Log!TranscribeEnd, Log!Finish
  <2>2. CASE rows' = [rows EXCEPT ![j.seg].transcript = "completed",
                                  ![j.seg].text = Log!TextOf(j.rec)]
    <3> DEFINE words == Log!TextOf(j.rec)
               r == [[rows[j.seg] EXCEPT !.transcript = "completed"] EXCEPT !.text = words]
    <3>1. words \subseteq Log!Words
      BY <1>2, TextTyped DEF JobOK
    <3> HIDE DEF words
    <3>2. j.seg \in Log!Segments => r \in LogRow
      <4>1. j.seg \in Log!Segments => rows[j.seg] \in LogRow
        BY <1>0
      <4> QED
        BY <3>1, <4>1 DEF LogRow, Transcripts
    <3>3. rows' = [rows EXCEPT ![j.seg] = r]
      BY <1>0, <2>2 DEF words
    <3> HIDE DEF r
    <3>4. rows' \in [Log!Segments -> LogRow]
      BY <1>0, <3>2, <3>3
    <3> QED
      BY <2>1, <3>4, LogWrites
  <2>3. CASE rows' = rows \/ rows' = [rows EXCEPT ![j.seg].transcript = "failed"]
    <3>1. rows' \in [Log!Segments -> LogRow]
      BY <1>0, <1>5, <2>3 DEF Transcripts
    <3> QED
      BY <2>1, <3>1, LogWrites
  <2> QED
    BY <2>1, <2>2, <2>3
<1> QED
  BY <1>1, <1>3, <1>4, <1>6, <1>7

\* The users, and the texts that are distributed over the rows.
LEMMA LogUsers ==
  ASSUME LogInv, \/ Log!HandleTranscription \/ Log!ResegmentTranscription
                 \/ \E k \in Log!Segments : Log!EditCall(k) \/ Log!RemoveCall(k)
  PROVE  LogInv'
<1>0. rows \in [Log!Segments -> LogRow] /\ 0 \in Log!Segments
  BY LogNumbers DEF LogInv
<1>1. UNCHANGED <<jobs, recordings>> /\ logEdits' = 1
  BY DEF Log!HandleTranscription, Log!ResegmentTranscription, Log!EditCall, Log!RemoveCall
<1>2. ASSUME NEW T \in [Log!Segments -> SUBSET Log!Words],
             rows' = [k \in Log!Segments |->
                        IF rows[k].there
                        THEN [rows[k] EXCEPT !.transcript = "completed", !.text = T[k]] ELSE rows[k]]
      PROVE  LogInv'
  <2> DEFINE r(k) == [rows[k] EXCEPT !.transcript = "completed", !.text = T[k]]
  <2>1. \A k \in Log!Segments : r(k) \in LogRow
    <3> TAKE k \in Log!Segments
    <3>1. rows[k] \in LogRow /\ T[k] \subseteq Log!Words
      BY <1>0, <1>2
    <3> QED
      BY <3>1 DEF LogRow, Transcripts
  <2>2. rows' = [k \in Log!Segments |-> IF rows[k].there THEN r(k) ELSE rows[k]]
    BY <1>2
  <2> HIDE DEF r
  <2>3. rows' \in [Log!Segments -> LogRow]
    BY <1>0, <2>1, <2>2
  <2> QED
    BY <1>1, <2>3, LogWrites
<1>3. CASE Log!HandleTranscription
  <2> DEFINE text == {[said |-> 0, at |-> 0]}
             T == [k \in Log!Segments |-> text]
  <2>1. text \subseteq Log!Words
    BY <1>0 DEF Log!Words
  <2>2. rows' = [k \in Log!Segments |->
                   IF rows[k].there
                   THEN [rows[k] EXCEPT !.transcript = "completed", !.text = text] ELSE rows[k]]
    BY <1>3 DEF Log!HandleTranscription
  <2> HIDE DEF text
  <2>3. T \in [Log!Segments -> SUBSET Log!Words] /\ \A k \in Log!Segments : T[k] = text
    BY <2>1
  <2> HIDE DEF T
  <2>4. rows' = [k \in Log!Segments |->
                   IF rows[k].there
                   THEN [rows[k] EXCEPT !.transcript = "completed", !.text = T[k]] ELSE rows[k]]
    BY <2>2, <2>3
  <2> QED
    BY <1>2, <2>3, <2>4
<1>4. CASE Log!ResegmentTranscription
  <2>1. PICK k \in Log!There : Log!UpdateTranscription(rows[k].text)
    BY <1>4 DEF Log!ResegmentTranscription
  <2> DEFINE text == rows[k].text
             cut(l) == {[w EXCEPT !.at = 0] : w \in {v \in text : v.at = l}}
             for(l) == IF Cardinality(Log!There) = 1 THEN text ELSE cut(l)
             T == [l \in Log!Segments |-> for(l)]
  <2>2. text \subseteq Log!Words
    BY <1>0 DEF Log!There, LogRow
  <2>3. \A l \in Log!Segments : cut(l) \subseteq Log!Words
    <3>1. \A w \in Log!Words : [w EXCEPT !.at = 0] \in Log!Words
      BY <1>0 DEF Log!Words
    <3> HIDE DEF text
    <3> QED
      BY <2>2, <3>1
  <2> HIDE DEF cut, text
  <2>4. \A l \in Log!Segments : for(l) \subseteq Log!Words
    BY <2>2, <2>3
  <2>5. rows' = [l \in Log!Segments |->
                   IF rows[l].there
                   THEN [rows[l] EXCEPT !.transcript = "completed", !.text = for(l)] ELSE rows[l]]
    BY <2>1 DEF Log!UpdateTranscription, cut, text, Log!Cardinality, Cardinality
  <2> HIDE DEF for
  <2>6. T \in [Log!Segments -> SUBSET Log!Words] /\ \A l \in Log!Segments : T[l] = for(l)
    BY <2>4
  <2> HIDE DEF T
  <2>7. rows' = [l \in Log!Segments |->
                   IF rows[l].there
                   THEN [rows[l] EXCEPT !.transcript = "completed", !.text = T[l]] ELSE rows[l]]
    BY <2>5, <2>6
  <2> QED
    BY <1>2, <2>6, <2>7
<1>5. CASE \E k \in Log!Segments : Log!EditCall(k) \/ Log!RemoveCall(k)
  <2>1. PICK k \in Log!Segments : Log!EditCall(k) \/ Log!RemoveCall(k)
    BY <1>5
  <2>2. CASE Log!RemoveCall(k)
    <3>1. rows' \in [Log!Segments -> LogRow]
      BY <1>0, <2>2, EmptyRow DEF Log!RemoveCall
    <3> QED
      BY <1>1, <3>1, LogWrites
  <2>3. CASE Log!EditCall(k)
    <3>1. PICK s \in Log!Statuses, t \in {"pending", "completed", "failed"} :
            rows' = [rows EXCEPT ![k].status = s, ![k].transcript = t]
      BY <2>3 DEF Log!EditCall
    <3> DEFINE r == [[rows[k] EXCEPT !.status = s] EXCEPT !.transcript = t]
    <3>2. rows[k] \in LogRow
      BY <1>0
    <3>3. r \in LogRow
      BY <3>2 DEF LogRow, Transcripts
    <3>4. rows' = [rows EXCEPT ![k] = r]
      BY <1>0, <3>1
    <3> HIDE DEF r
    <3>5. rows' \in [Log!Segments -> LogRow]
      BY <1>0, <3>3, <3>4
    <3> QED
      BY <1>1, <3>5, LogWrites
  <2> QED
    BY <2>1, <2>2, <2>3
<1> QED
  BY <1>3, <1>4, <1>5

LEMMA LogStep == LogInv /\ Log!Next => LogInv'
BY LogCall, LogRecord, LogWork, LogUsers DEF Log!Next

-----------------------------------------------------------------------------
(* A call on its way through a flow *)

Places == {"none", "fetch", "gather", "conference", "forgotten", "talking", "record", "ended"}

UrlOK(u) == u.step \in Nat \ {0} /\ u.attempt \in Nat

\* A hunt of a step of the flow knows its index; a nested one what comes after it.
HuntOK(h) ==
  /\ h.list \in {"main", "nested"} /\ h.type \in {"dial", "simulcall", "round_robin"}
  /\ h.step \in Nat /\ h.attempt \in Nat /\ (h.list = "main" => h.step # 0)
  /\ h.dests \in Seq(STRING) /\ h.rest \in Seq(AllSteps)
  /\ IF h.type = "round_robin" THEN h.attempt < Len(h.dests) ELSE h.attempt = 0

\* The hunt is the one that the flow of today has at its index.
Current(h) ==
  h.list = "main" => /\ h.step \in 1 .. Len(flow.steps)
                     /\ flow.steps[h.step].type = h.type /\ flow.steps[h.step].dests = h.dests

\* The destinations that are rung.
Called(h) ==
  IF h.type = "round_robin" THEN {h.dests[h.attempt + 1]} ELSE Router!ToSet(h.dests)

MetaOK(m) ==
  /\ m.nested \in BOOLEAN /\ m.rest \in Seq(AllSteps)
  /\ m.rr.on \in BOOLEAN /\ m.rr.dests \in Seq(STRING) /\ m.rr.attempt \in Nat
  /\ m.rr.on => m.nested /\ m.rr.attempt < Len(m.rr.dests)

FlowOK ==
  /\ flow.there \in BOOLEAN /\ flow.active \in BOOLEAN /\ flow.steps \in Flows \cup {<<>>}
  /\ edits \in 0 .. MaxEdits

CallerOK ==
  /\ caller = [at |-> caller.at, url |-> caller.url, hunt |-> caller.hunt]
  /\ caller.at \in Places
  /\ caller.at \in {"fetch", "gather"} => UrlOK(caller.url)
  /\ caller.at \in {"conference", "talking"} => HuntOK(caller.hunt)

CallRow == [there : BOOLEAN, answered : BOOLEAN, user : Users \cup {Router!Nobody},
            voicemail : BOOLEAN]

\* As long as the flow stays as it is: nobody is credited before a talk, and the caller
\* talks to one of those that the hunt he waits for has called.
CreditOK ==
  /\ caller.at \notin {"talking", "ended"} => row.user = Router!Nobody
  /\ edits = 0 => /\ row.user \in {Router!Nobody, by}
                  /\ caller.at \in {"conference", "talking"} => Current(caller.hunt)
                  /\ caller.at = "talking" => by \in Called(caller.hunt)

RouterInv ==
  FlowOK /\ CallerOK /\ MetaOK(meta) /\ row \in CallRow /\ rung \in Nat /\ CreditOK

LEMMA RouterTypes == RouterInv => Router!TypeOK /\ Router!CreditedToAnswerer
BY DEF RouterInv, FlowOK, CallerOK, MetaOK, CallRow, CreditOK, HuntOK, Places,
   Router!TypeOK, Router!CreditedToAnswerer

LEMMA RouterInit == Router!Init => RouterInv
<1> SUFFICES ASSUME Router!Init PROVE RouterInv
  OBVIOUS
<1>1. PICK steps \in Flows : flow = [there |-> TRUE, active |-> TRUE, steps |-> steps]
  BY DEF Router!Init
<1>2. edits \in 0 .. MaxEdits
  BY BoundsAssumption DEF Router!Init
<1>3. MetaOK(meta)
  <2>1. <<>> \in Seq(AllSteps) /\ <<>> \in Seq(STRING) /\ 0 \in Nat
    OBVIOUS
  <2>2. /\ meta.nested = FALSE /\ meta.rest = <<>> /\ meta.rr.on = FALSE
        /\ meta.rr.dests = <<>> /\ meta.rr.attempt = 0
    BY Zenon DEF Router!Init, Router!NoRR
  <2> QED
    BY <2>1, <2>2 DEF MetaOK
<1>4. CallerOK
  BY DEF Router!Init, CallerOK, Places
<1>5. CreditOK /\ row \in CallRow /\ rung \in Nat
  BY DEF Router!Init, CreditOK, CallRow
<1> QED
  BY <1>1, <1>2, <1>3, <1>4, <1>5 DEF RouterInv, FlowOK

\* The answer to a request, and where the caller may go with it.
ReplyOK(r) ==
  /\ r.do \in {"hangup", "record", "redirect", "gather", "conference"}
  /\ r.do \in {"redirect", "gather"} => UrlOK(r.url)
  /\ r.do = "conference" => HuntOK(r.hunt) /\ Current(r.hunt)

LEMMA PlainReplies ==
  /\ ReplyOK(Router!Hangup) /\ ReplyOK(Router!ProcessVoicemail)
  /\ \A i \in Nat \ {0} : /\ ReplyOK(Router!Redirect(i)) /\ ReplyOK(Router!ProcessMenu(i))
                          /\ ReplyOK(Router!ProcessKeypadEntry(i))
BY DEF ReplyOK, UrlOK, Router!Hangup, Router!ProcessVoicemail, Router!Redirect, Router!ProcessMenu,
   Router!ProcessKeypadEntry, Router!Reply, Router!Url

LEMMA NestedReply ==
  ASSUME NEW type \in {"dial", "simulcall", "round_robin"}, NEW attempt \in Nat,
         NEW dests \in Seq(STRING), NEW rest \in Seq(AllSteps),
         IF type = "round_robin" THEN attempt < Len(dests) ELSE attempt = 0
  PROVE  ReplyOK(Router!Conference("nested", type, 0, attempt, dests, rest))
BY DEF ReplyOK, HuntOK, Current, Router!Conference, Router!Reply

LEMMA StepIsStep ==
  ASSUME NEW list \in Seq(AllSteps), NEW i \in 1 .. Len(list)
  PROVE  list[i] \in AllSteps /\ list[i].dests \in Seq(STRING)
BY FlowsAssumption

LEMMA ExecuteNestedOK ==
  ASSUME NEW list \in Seq(AllSteps)
  PROVE  ReplyOK(Router!ExecuteNested(list))
<1> DEFINE spoken == {i \in 1 .. Len(list) : \A j \in 1 .. i : Router!IsGreeting(list[j])}
           i == Cardinality(spoken) + 1
           rest == SubSeq(list, i + 1, Len(list))
           s == list[i]
<1>1. i \in Nat \ {0}
  <2>1. IsFiniteSet(1 .. Len(list)) /\ spoken \subseteq 1 .. Len(list)
    BY FS_Interval
  <2>2. IsFiniteSet(spoken)
    BY <2>1, FS_Subset
  <2> HIDE DEF spoken
  <2>3. Cardinality(spoken) \in Nat
    BY <2>2, FS_CardinalityType
  <2> QED
    BY <2>3
<1>2. Router!Cardinality(spoken) = Cardinality(spoken)
  BY DEF Router!Cardinality, Cardinality
<1>3. CASE i > Len(list) \/ \E j \in spoken : list[j].type = "silent"
  <2>1. Router!ExecuteNested(list) = Router!Hangup
    BY <1>2, <1>3 DEF Router!ExecuteNested
  <2> QED
    BY <2>1, PlainReplies
<1>4. CASE ~ (i > Len(list) \/ \E j \in spoken : list[j].type = "silent")
  <2>1. Router!ExecuteNested(list) =
          CASE s.type = "voicemail"   -> Router!ProcessVoicemail
            [] s.type = "dial"        -> Router!ProcessNestedDial(s, rest)
            [] s.type = "simulcall"   -> Router!ProcessNestedSimulcall(s, rest)
            [] s.type = "round_robin" -> Router!ProcessNestedRoundRobin(s, rest)
            [] OTHER                  -> Router!Hangup
    BY <1>2, <1>4 DEF Router!ExecuteNested
  <2> HIDE DEF spoken, i
  <2>2. i \in 1 .. Len(list)
    BY <1>1, <1>4
  <2>3. s.dests \in Seq(STRING)
    BY <2>2, StepIsStep
  <2>4. rest \in Seq(AllSteps)
    BY <2>2
  <2> HIDE DEF s, rest
  <2>5. Router!ExecuteNested(list) \in
          {Router!Hangup, Router!ProcessVoicemail, Router!Conference("nested", "dial", 0, 0, s.dests, rest),
           Router!Conference("nested", "simulcall", 0, 0, s.dests, rest)}
        \/ (s.dests # <<>> /\ Router!ExecuteNested(list) =
              Router!Conference("nested", "round_robin", 0, 0, s.dests, rest))
    BY <2>1 DEF Router!ProcessNestedDial, Router!ProcessNestedSimulcall, Router!ProcessNestedRoundRobin
  <2>6. s.dests # <<>> => 0 < Len(s.dests)
    BY <2>3
  <2> QED
    BY <2>3, <2>4, <2>5, <2>6, PlainReplies, NestedReply
<1> QED
  BY <1>3, <1>4

LEMMA StepsTyped == FlowOK => flow.steps \in Seq(AllSteps)
<1>1. <<>> \in Seq(AllSteps)
  OBVIOUS
<1>2. FlowOK => flow.steps \in Flows \/ flow.steps = <<>>
  BY DEF FlowOK
<1> QED
  BY <1>1, <1>2, FlowsAssumption

\* The step of the flow that a hunt of its own list is of.
LEMMA FlowStep ==
  ASSUME FlowOK, NEW i \in 1 .. Len(flow.steps)
  PROVE  /\ flow.steps[i] \in TopSteps /\ flow.steps[i].dests \in Seq(STRING)
         /\ DOMAIN flow.steps[i].keys \subseteq Nat /\ flow.steps[i].other \in Seq(AllSteps)
         /\ \A k \in DOMAIN flow.steps[i].keys : flow.steps[i].lists[k] \in Seq(AllSteps)
<1>1. flow.steps \in Flows /\ flow.steps \in Seq(AllSteps)
  BY FlowsAssumption DEF FlowOK
<1>2. i \in DOMAIN flow.steps
  BY <1>1
<1>3. flow.steps[i] \in TopSteps
  BY <1>1, <1>2 DEF TopSteps, StepsOf
<1>4. flow.steps[i] \in AllSteps
  BY <1>3 DEF AllSteps
<1> QED
  BY <1>3, <1>4, FlowsAssumption DEF ListsOf

\* The first of some options or branches.
LEMMA Least ==
  ASSUME NEW S, S \subseteq Nat, S # {}
  PROVE  (CHOOSE i \in S : \A j \in S : i <= j) \in S
<1>1. PICK i \in S : \A j \in S : ~ (<<j, i>> \in OpToRel(<, Nat))
  BY NatLessThanWellFounded, WFMin
<1>2. \A j \in S : ~ (j < i) /\ i \in Nat /\ j \in Nat
  BY <1>1 DEF OpToRel
<1>3. \A j \in S : i <= j
  BY <1>2
<1> QED
  BY <1>3

LEMMA BranchOK ==
  ASSUME FlowOK, NEW i \in 1 .. Len(flow.steps), NEW now
  PROVE  Router!Branch(flow.steps[i], now) \in Seq(AllSteps)
<1> DEFINE s == flow.steps[i]
           fits == {k \in DOMAIN s.keys : \E slot \in s.keys[k] : Router!SlotMatches(slot, now)}
           first == CHOOSE k \in fits : \A l \in fits : k <= l
<1>1. /\ DOMAIN s.keys \subseteq Nat /\ s.other \in Seq(AllSteps)
      /\ \A k \in DOMAIN s.keys : s.lists[k] \in Seq(AllSteps)
  BY FlowStep
<1>2. Router!Branch(s, now) = IF fits = {} THEN s.other ELSE s.lists[first]
  BY DEF Router!Branch
<1>3. fits \subseteq DOMAIN s.keys
  OBVIOUS
<1> HIDE DEF s, fits
<1>4. fits # {} => first \in fits
  BY <1>1, <1>3, Least
<1> HIDE DEF first
<1>5. Router!Branch(s, now) \in Seq(AllSteps)
  BY <1>1, <1>2, <1>3, <1>4
<1> QED
  BY <1>5 DEF s

LEMMA ExecuteStepOK ==
  ASSUME FlowOK, NEW i \in Nat \ {0}, NEW attempt \in Nat, NEW now
  PROVE  ReplyOK(Router!ExecuteStep(flow.steps, i, attempt, now))
<1> DEFINE s == flow.steps[i]
           reply == Router!ExecuteStep(flow.steps, i, attempt, now)
           list == Router!Branch(s, now)
           hunt(type, n) == Router!Conference("main", type, i, n, s.dests, <<>>)
<1>0. flow.steps \in Seq(AllSteps) /\ i + 1 \in Nat \ {0}
  BY StepsTyped
<1>1. CASE i > Len(flow.steps)
  <2>1. reply = Router!Hangup
    BY <1>1 DEF Router!ExecuteStep
  <2> QED
    BY <2>1, PlainReplies
<1>2. CASE ~ (i > Len(flow.steps))
  <2>1. i \in 1 .. Len(flow.steps)
    BY <1>0, <1>2
  <2>2. s.dests \in Seq(STRING) /\ list \in Seq(AllSteps)
    BY <2>1, FlowStep, BranchOK
  <2>3. \/ reply \in {Router!Hangup, Router!ProcessVoicemail, Router!Redirect(i + 1),
                      Router!ProcessMenu(i), Router!ProcessKeypadEntry(i), Router!ExecuteNested(list)}
        \/ s.type = "dial" /\ reply = hunt("dial", 0)
        \/ s.type = "simulcall" /\ reply = hunt("simulcall", 0)
        \/ s.type = "round_robin" /\ ~ (attempt >= Len(s.dests)) /\ reply = hunt("round_robin", attempt)
    BY <1>2 DEF Router!ExecuteStep, Router!ProcessDial, Router!ProcessSimulcall, Router!ProcessRoundRobin
  <2>4. ReplyOK(Router!ExecuteNested(list))
    BY <2>2, ExecuteNestedOK
  <2>5. ASSUME NEW type \in {"dial", "simulcall", "round_robin"}, NEW n \in Nat, s.type = type,
               IF type = "round_robin" THEN n < Len(s.dests) ELSE n = 0
        PROVE  ReplyOK(hunt(type, n))
    <3>1. <<>> \in Seq(AllSteps)
      OBVIOUS
    <3> QED
      BY <2>1, <2>2, <2>5, <3>1 DEF ReplyOK, HuntOK, Current, Router!Conference, Router!Reply
  <2>6. ~ (attempt >= Len(s.dests)) => attempt < Len(s.dests)
    BY <2>2
  <2> HIDE DEF s, reply, list, hunt
  <2>7. ReplyOK(reply)
    BY <1>0, <2>3, <2>4, <2>5, <2>6, PlainReplies
  <2> QED
    BY <2>7 DEF reply
<1> QED
  BY <1>1, <1>2

LEMMA MenuOK ==
  ASSUME FlowOK, NEW i \in Nat \ {0}, NEW digit, NEW now
  PROVE  /\ ReplyOK(Router!MenuInvalid(flow.steps, i))
         /\ ReplyOK(Router!MenuSelection(flow.steps, i, digit, now))
<1> DEFINE s == flow.steps[i]
           fits == {k \in DOMAIN s.keys : s.keys[k] = digit}
           first == CHOOSE k \in fits : \A l \in fits : k <= l
           isMenu == i <= Len(flow.steps) /\ s.type = "menu"
           goesOn == Router!ExecuteStep(flow.steps, i + 1, 0, now)
<1>0. flow.steps \in Seq(AllSteps) /\ i + 1 \in Nat \ {0} /\ 0 \in Nat
  BY StepsTyped
<1>1. ReplyOK(goesOn)
  BY <1>0, ExecuteStepOK
<1>2. isMenu => /\ DOMAIN s.keys \subseteq Nat /\ s.other \in Seq(AllSteps)
                /\ \A k \in DOMAIN s.keys : s.lists[k] \in Seq(AllSteps)
  BY <1>0, FlowStep
<1>3. Router!MenuInvalid(flow.steps, i) = IF isMenu THEN Router!ExecuteNested(s.other) ELSE Router!Hangup
  BY DEF Router!MenuInvalid
<1>4. Router!MenuSelection(flow.steps, i, digit, now) =
        IF ~isMenu THEN goesOn
        ELSE IF fits = {} THEN Router!MenuInvalid(flow.steps, i)
        ELSE IF s.lists[first] # <<>> THEN Router!ExecuteNested(s.lists[first]) ELSE goesOn
  BY <1>0 DEF Router!MenuSelection
<1>5. fits \subseteq DOMAIN s.keys
  OBVIOUS
<1> HIDE DEF s, fits, isMenu, goesOn
<1>6. ReplyOK(Router!MenuInvalid(flow.steps, i))
  BY <1>2, <1>3, ExecuteNestedOK, PlainReplies
<1>7. isMenu /\ fits # {} => first \in fits
  BY <1>2, <1>5, Least
<1> HIDE DEF first
<1>8. isMenu /\ fits # {} => ReplyOK(Router!ExecuteNested(s.lists[first]))
  BY <1>2, <1>5, <1>7, ExecuteNestedOK
<1> QED
  BY <1>1, <1>4, <1>6, <1>8

LEMMA AnswerOK ==
  ASSUME FlowOK, NEW url, UrlOK(url), NEW digit, NEW now
  PROVE  ReplyOK(Router!Answer(url, digit, now))
<1>1. url.step \in Nat \ {0} /\ url.step + 1 \in Nat \ {0} /\ url.attempt \in Nat /\ 0 \in Nat
  BY DEF UrlOK
<1>2. Router!Answer(url, digit, now) \in
        {Router!Hangup, Router!MenuInvalid(flow.steps, url.step),
         Router!MenuSelection(flow.steps, url.step, digit, now),
         Router!ExecuteStep(flow.steps, url.step + 1, 0, now),
         Router!ExecuteStep(flow.steps, url.step, url.attempt, now)}
  BY DEF Router!Answer
<1> QED
  BY <1>1, <1>2, PlainReplies, MenuOK, ExecuteStepOK

\* What follows a nested hunt that was not answered.
LEMMA NestedMissedOK ==
  ASSUME MetaOK(meta), NEW hasAttempt, NEW attempt \in Nat
  PROVE  ReplyOK(Router!NestedMissed(meta, hasAttempt, attempt))
<1> DEFINE reply == Router!NestedMissed(meta, hasAttempt, attempt)
<1>0. meta.rest \in Seq(AllSteps) /\ meta.rr.dests \in Seq(STRING) /\ attempt + 1 \in Nat
  BY DEF MetaOK
<1>1. \/ reply \in {Router!Hangup, Router!ExecuteNested(meta.rest)}
      \/ attempt + 1 < Len(meta.rr.dests) /\ reply = Router!NestedRetry(meta, attempt + 1)
  BY DEF Router!NestedMissed
<1>2. attempt + 1 < Len(meta.rr.dests) => ReplyOK(Router!NestedRetry(meta, attempt + 1))
  BY <1>0, NestedReply DEF Router!NestedRetry
<1> QED
  BY <1>0, <1>1, <1>2, PlainReplies, ExecuteNestedOK

\* What a conference leaves in the row's metaValue can be gone on with.
LEMMA RememberOK ==
  ASSUME MetaOK(meta), NEW h, HuntOK(h), meta' = Router!Remember(h)
  PROVE  MetaOK(meta')
<1> DEFINE rr == [on |-> TRUE, dests |-> h.dests, attempt |-> h.attempt]
<1>1. \/ meta' = meta
      \/ meta' = [nested |-> TRUE, rest |-> h.rest, rr |-> IF h.type = "round_robin" THEN rr ELSE meta.rr]
  BY DEF Router!Remember
<1>2. ASSUME NEW m, m = [nested |-> TRUE, rest |-> h.rest,
                         rr |-> IF h.type = "round_robin" THEN rr ELSE meta.rr]
      PROVE  MetaOK(m)
  <2>1. m.nested /\ m.nested \in BOOLEAN /\ m.rest = h.rest
        /\ m.rr = (IF h.type = "round_robin" THEN rr ELSE meta.rr)
    BY <1>2
  <2>2. CASE h.type = "round_robin"
    <3>1. m.rr.on \in BOOLEAN /\ m.rr.dests = h.dests /\ m.rr.attempt = h.attempt
      BY <2>1, <2>2
    <3> QED
      BY <2>1, <2>2, <3>1 DEF MetaOK, HuntOK
  <2>3. CASE h.type # "round_robin"
    BY <2>1, <2>3 DEF MetaOK, HuntOK
  <2> QED
    BY <2>2, <2>3
<1> QED
  BY <1>1, <1>2

\* Where the caller goes with an answer.
GoesTo(r) == CASE r.do = "hangup" -> "ended" [] r.do = "redirect" -> "fetch" [] OTHER -> r.do

LEMMA FollowOK ==
  ASSUME RouterInv, NEW r, ReplyOK(r), Router!Follow(r), UNCHANGED <<flow, edits, by>>,
         row' \in CallRow, edits = 0 => row'.user \in {Router!Nobody, by},
         r.do # "hangup" => row'.user = Router!Nobody
  PROVE  RouterInv'
<1>1. /\ caller' = [at |-> GoesTo(r), url |-> r.url, hunt |-> r.hunt]
      /\ rung' \in {rung, rung + 1}
      /\ meta' = meta \/ (HuntOK(r.hunt) /\ meta' = Router!Remember(r.hunt))
  BY DEF Router!Follow, GoesTo, ReplyOK
<1>2. /\ GoesTo(r) \in {"ended", "fetch", "record", "gather", "conference"}
      /\ GoesTo(r) = "ended" <=> r.do = "hangup"
      /\ GoesTo(r) \in {"fetch", "gather"} => UrlOK(r.url)
      /\ GoesTo(r) = "conference" => HuntOK(r.hunt) /\ Current(r.hunt)
  BY DEF ReplyOK, GoesTo
<1>3. caller'.at = GoesTo(r) /\ caller'.url = r.url /\ caller'.hunt = r.hunt
      /\ caller' = [at |-> caller'.at, url |-> caller'.url, hunt |-> caller'.hunt]
  BY <1>1
<1>4. CallerOK'
  BY <1>2, <1>3 DEF CallerOK, Places
<1>5. MetaOK(meta')
  BY <1>1, RememberOK DEF RouterInv
<1>6. CreditOK'
  BY <1>2, <1>3 DEF CreditOK, Current
<1>7. FlowOK' /\ rung' \in Nat
  BY <1>1 DEF RouterInv, FlowOK
<1> QED
  BY <1>4, <1>5, <1>6, <1>7 DEF RouterInv

\* Whatever the answer, CallJourney allows to go where it says, unless a conference is
\* left for the conference of the next step: that is allowed as often as agents may be rung.
LEMMA FollowJourney ==
  ASSUME RouterInv, NEW r, ReplyOK(r), Router!Follow(r), rung' <= MaxRung,
         \/ caller.at \in {"fetch", "gather", "conference"}
         \/ r.do = "hangup" /\ caller.at \notin {"none", "ended"}
  PROVE  Journey!Next \/ UNCHANGED <<Router!Phase, rung>>
<1>1. /\ caller'.at = GoesTo(r) /\ caller.at \in Places
      /\ rung' = IF r.do = "conference" THEN rung + 1 ELSE rung
  BY DEF Router!Follow, GoesTo, RouterInv, CallerOK
<1>2. r.do = "conference" => rung < MaxRung
  BY <1>1, BoundsAssumption DEF RouterInv
<1>3. CASE r.do = "hangup"
  <2>1. Router!Phase \notin {"none", "ended"} /\ Router!Phase' = "ended" /\ UNCHANGED rung
    BY <1>1, <1>3 DEF GoesTo, Router!Phase, Places
  <2> QED
    BY <2>1 DEF Journey!Next, Journey!Proceed, Journey!End
<1>4. CASE r.do \in {"redirect", "gather"}
  <2>1. Router!Phase \in {"flow", "ringing"} /\ Router!Phase' = "flow" /\ UNCHANGED rung
    BY <1>1, <1>4 DEF GoesTo, Router!Phase, Places
  <2> QED
    BY <2>1 DEF Journey!Next, Journey!Proceed, Journey!Miss
<1>5. CASE r.do = "record"
  <2>1. Router!Phase \in {"flow", "ringing"} /\ Router!Phase' = "message" /\ UNCHANGED rung
    BY <1>1, <1>5 DEF GoesTo, Router!Phase, Places
  <2> QED
    BY <2>1 DEF Journey!Next, Journey!Proceed, Journey!Message
<1>6. CASE r.do = "conference"
  <2>1. Router!Phase \in {"flow", "ringing"} /\ Router!Phase' = "ringing" /\ rung' = rung + 1
    BY <1>1, <1>6 DEF GoesTo, Router!Phase, Places
  <2> QED
    BY <1>2, <1>6, <2>1 DEF Journey!Next, Journey!Proceed, Journey!Ring, Journey!RingOn
<1> QED
  BY <1>3, <1>4, <1>5, <1>6 DEF ReplyOK

\* A step of the call is one of CallJourney, or none, as long as agents are not rung too often.
Journeys == rung' <= MaxRung => Journey!Next \/ UNCHANGED <<Router!Phase, rung>>

LEMMA FollowStep ==
  ASSUME RouterInv, NEW r, ReplyOK(r), Router!Follow(r), UNCHANGED <<flow, edits, row, by>>,
         \/ caller.at \in {"fetch", "gather", "conference"}
         \/ r.do = "hangup" /\ caller.at \notin {"none", "ended"}
  PROVE  RouterInv' /\ Journeys
<1>1. /\ row' \in CallRow
      /\ edits = 0 => row'.user \in {Router!Nobody, by}
      /\ r.do # "hangup" => row'.user = Router!Nobody
  BY DEF RouterInv, CreditOK
<1> QED
  BY <1>1, FollowOK, FollowJourney DEF Journeys

\* Twilio asks for the next document.
LEMMA RouterAsks ==
  ASSUME RouterInv, \/ Router!CallComes \/ Router!HandleIncomingVoice
                    \/ Router!HandleFlowContinuation \/ \E digit \in 0 .. 9 : Router!GatherEnds(digit)
  PROVE  RouterInv' /\ Journeys
<1>0. FlowOK /\ UrlOK(Router!Incoming)
  BY DEF RouterInv, UrlOK, Router!Incoming, Router!Url
<1>1. CASE Router!CallComes
  <2>1. caller' = [at |-> "fetch", url |-> Router!Incoming, hunt |-> caller.hunt]
        /\ caller.at = "none" /\ UNCHANGED <<flow, edits, row, meta, rung, by>>
    BY <1>1 DEF Router!CallComes, RouterInv, CallerOK
  <2>2. caller'.at = "fetch" /\ caller'.url = Router!Incoming
        /\ caller' = [at |-> caller'.at, url |-> caller'.url, hunt |-> caller'.hunt]
    BY <2>1
  <2>3. RouterInv'
    BY <1>0, <2>1, <2>2 DEF RouterInv, FlowOK, CallerOK, Places, CreditOK
  <2>4. Journey!Start
    BY <2>1, <2>2 DEF Journey!Start, Router!Phase
  <2> QED
    BY <2>3, <2>4 DEF Journeys, Journey!Next
<1>2. CASE Router!HandleIncomingVoice
  <2>1. PICK now \in Times : Router!Follow(Router!Answer(Router!Incoming, 0, now))
    BY <1>2 DEF Router!HandleIncomingVoice
  <2> DEFINE r == Router!Answer(Router!Incoming, 0, now)
  <2>2. ReplyOK(r)
    BY <1>0, AnswerOK
  <2>3. /\ caller.at = "fetch" /\ UNCHANGED <<flow, edits, by>>
        /\ \E ok \in {TRUE, ~RowFails} : row' = [row EXCEPT !.there = ok]
    BY <1>2 DEF Router!HandleIncomingVoice
  <2>4. row \in CallRow /\ (~RowFails) \in BOOLEAN
    BY DEF RouterInv
  <2>5. row' \in CallRow /\ row'.user = row.user
    BY <2>3, <2>4 DEF CallRow
  <2>6. row'.user = Router!Nobody
    BY <2>3, <2>5 DEF RouterInv, CreditOK
  <2>7. Router!Follow(r)
    BY <2>1
  <2> HIDE DEF r
  <2> QED
    BY <2>2, <2>3, <2>5, <2>6, <2>7, FollowOK, FollowJourney DEF Journeys
<1>3. CASE Router!HandleFlowContinuation
  <2>1. PICK now \in Times : Router!Follow(Router!Answer(caller.url, 0, now))
    BY <1>3 DEF Router!HandleFlowContinuation
  <2>2. caller.at = "fetch" /\ UNCHANGED <<flow, edits, row, by>> /\ UrlOK(caller.url)
    BY <1>3 DEF Router!HandleFlowContinuation, RouterInv, CallerOK
  <2>3. ReplyOK(Router!Answer(caller.url, 0, now))
    BY <1>0, <2>2, AnswerOK
  <2> QED
    BY <2>1, <2>2, <2>3, FollowStep
<1>4. CASE \E digit \in 0 .. 9 : Router!GatherEnds(digit)
  <2>1. PICK digit \in 0 .. 9 : Router!GatherEnds(digit)
    BY <1>4
  <2>2. PICK now \in Times : Router!Follow(Router!Answer(caller.url, digit, now))
    BY <2>1 DEF Router!GatherEnds
  <2>3. caller.at = "gather" /\ UNCHANGED <<flow, edits, row, by>> /\ UrlOK(caller.url)
    BY <2>1 DEF Router!GatherEnds, RouterInv, CallerOK
  <2>4. ReplyOK(Router!Answer(caller.url, digit, now))
    BY <1>0, <2>3, AnswerOK
  <2> QED
    BY <2>2, <2>3, <2>4, FollowStep
<1> QED
  BY <1>1, <1>2, <1>3, <1>4

\* Agents answer, or do not.
LEMMA RouterRings ==
  ASSUME RouterInv, \/ \E d \in Router!ToSet(caller.hunt.dests) : Router!AgentAnswers(d)
                    \/ Router!AgentsMiss \/ Router!HandleDialStatusFailed
  PROVE  RouterInv' /\ Journeys
<1>0. caller.at = "conference" /\ HuntOK(caller.hunt) /\ FlowOK /\ MetaOK(meta)
  BY DEF Router!AgentAnswers, Router!AgentsMiss, Router!HandleDialStatusFailed, RouterInv, CallerOK
<1>1. CASE \E d \in Router!ToSet(caller.hunt.dests) : Router!AgentAnswers(d)
  <2>1. PICK d \in Router!ToSet(caller.hunt.dests) : Router!AgentAnswers(d)
    BY <1>1
  <2>2. /\ d \in Called(caller.hunt) /\ by' = d /\ UNCHANGED <<flow, edits, meta, rung>>
        /\ row' = [row EXCEPT !.answered = TRUE, !.user = IF d \in Users THEN d ELSE row.user]
    BY <2>1 DEF Router!AgentAnswers, Called
  <2>3. caller' = [at |-> "talking", url |-> caller.url, hunt |-> caller.hunt]
    BY <2>1 DEF Router!AgentAnswers, RouterInv, CallerOK
  <2>4. caller'.at = "talking" /\ caller'.hunt = caller.hunt
        /\ caller' = [at |-> caller'.at, url |-> caller'.url, hunt |-> caller'.hunt]
    BY <2>3
  <2>5. row \in CallRow /\ row.user = Router!Nobody
    BY <1>0 DEF RouterInv, CreditOK
  <2>6. row' \in CallRow /\ row'.user \in {Router!Nobody, d}
    BY <2>2, <2>5 DEF CallRow
  <2>7. CreditOK'
    BY <1>0, <2>2, <2>4, <2>6 DEF RouterInv, CreditOK, Current, Called
  <2>8. RouterInv'
    BY <1>0, <2>2, <2>4, <2>6, <2>7 DEF RouterInv, FlowOK, CallerOK, Places
  <2>9. Journey!Answer
    BY <1>0, <2>2, <2>4 DEF Journey!Answer, Router!Phase
  <2> QED
    BY <2>8, <2>9 DEF Journeys, Journey!Next, Journey!Proceed
<1>2. CASE Router!AgentsMiss
  <2>1. UNCHANGED <<flow, edits, row, by>>
    BY <1>2 DEF Router!AgentsMiss
  <2>2. CASE caller.hunt.list = "main" /\ Router!AgentsMissMain(caller.hunt)
    <3> DEFINE h == caller.hunt
    <3>1. h.step + 1 \in Nat \ {0} /\ h.attempt + 1 \in Nat
      BY <1>0 DEF HuntOK
    <3>2. CASE caller' = [caller EXCEPT !.at = "forgotten"] /\ UNCHANGED <<rung, meta>>
      <4>1. caller' = [at |-> "forgotten", url |-> caller.url, hunt |-> caller.hunt]
        BY <3>2 DEF RouterInv, CallerOK
      <4>2. caller'.at = "forgotten"
            /\ caller' = [at |-> caller'.at, url |-> caller'.url, hunt |-> caller'.hunt]
        BY <4>1
      <4>3. RouterInv'
        BY <1>0, <2>1, <3>2, <4>2 DEF RouterInv, FlowOK, CallerOK, Places, CreditOK
      <4>4. UNCHANGED <<Router!Phase, rung>>
        BY <1>0, <3>2, <4>2 DEF Router!Phase
      <4> QED
        BY <4>3, <4>4 DEF Journeys
    <3>3. CASE Router!Follow(Router!Redirect(h.step + 1))
      BY <1>0, <2>1, <3>1, <3>3, PlainReplies, FollowStep
    <3>4. CASE /\ h.step \in Nat \ {0}
               /\ Router!Follow(Router!Reply("redirect",
                    Router!Url("round_robin_redirect", h.step, h.attempt + 1), Router!NoHunt))
      <4> DEFINE r == Router!Reply("redirect",
                        Router!Url("round_robin_redirect", h.step, h.attempt + 1), Router!NoHunt)
      <4>1. ReplyOK(r)
        BY <3>1, <3>4 DEF ReplyOK, UrlOK, Router!Reply, Router!Url
      <4> HIDE DEF r
      <4>2. Router!Follow(r)
        BY <3>4 DEF r
      <4> QED
        BY <1>0, <2>1, <4>1, <4>2, FollowStep
    <3>5. h.step \in Nat \ {0}
      BY <1>0, <2>2 DEF HuntOK
    <3> QED
      BY <2>2, <3>2, <3>3, <3>4, <3>5 DEF Router!AgentsMissMain
  <2>3. CASE Router!Follow(IF ~flow.there THEN Router!Hangup
                           ELSE Router!NestedMissed(meta, meta.rr.on, meta.rr.attempt))
    <3>1. meta.rr.attempt \in Nat
      BY <1>0 DEF MetaOK
    <3>2. ReplyOK(IF ~flow.there THEN Router!Hangup
                  ELSE Router!NestedMissed(meta, meta.rr.on, meta.rr.attempt))
      BY <1>0, <3>1, PlainReplies, NestedMissedOK
    <3> QED
      BY <1>0, <2>1, <2>3, <3>2, FollowStep
  <2> QED
    BY <1>2, <2>2, <2>3 DEF Router!AgentsMiss
<1>3. CASE Router!HandleDialStatusFailed
  <2> DEFINE h == caller.hunt
  <2>1. UNCHANGED <<flow, edits, row, by>>
    BY <1>3 DEF Router!HandleDialStatusFailed
  <2>2. h.step + 1 \in Nat \ {0} /\ h.attempt \in Nat /\ 0 \in Nat
    BY <1>0 DEF HuntOK
  <2>3. PICK now \in Times :
          \E r \in {Router!Hangup, Router!ExecuteStep(flow.steps, h.step + 1, 0, now),
                   Router!NestedMissed(meta, h.type = "round_robin", h.attempt)} :
            Router!Follow(r)
    BY <1>3 DEF Router!HandleDialStatusFailed
  <2>4. PICK r \in {Router!Hangup, Router!ExecuteStep(flow.steps, h.step + 1, 0, now),
                    Router!NestedMissed(meta, h.type = "round_robin", h.attempt)} :
             Router!Follow(r)
    BY <2>3
  <2>5. ReplyOK(r)
    BY <1>0, <2>2, <2>4, PlainReplies, ExecuteStepOK, NestedMissedOK
  <2> QED
    BY <1>0, <2>1, <2>4, <2>5, FollowStep
<1> QED
  BY <1>1, <1>2, <1>3

\* The call ends, or its flow is edited.
LEMMA CreditedOnce ==
  ASSUME RouterInv, caller.at = "talking", edits = 0
  PROVE  Router!Associated(caller.hunt) \in {Router!Nobody, by}
<1> DEFINE h == caller.hunt
           s == flow.steps[h.step]
           d == IF h.list = "nested"
                THEN IF Len(h.dests) = 1 \/ h.type = "round_robin" THEN h.dests[h.attempt + 1]
                     ELSE Router!Nobody
                ELSE IF h.step > Len(flow.steps) THEN Router!Nobody
                ELSE IF h.type = "round_robin"
                THEN IF s.type = "round_robin" /\ Router!Tried(h) <= Len(s.dests)
                     THEN s.dests[Router!Tried(h)] ELSE Router!Nobody
                ELSE IF s.type \in {"dial", "simulcall"} /\ Len(s.dests) = 1
                THEN s.dests[1] ELSE Router!Nobody
<1>1. HuntOK(h) /\ Current(h) /\ by \in Called(h) /\ row.user \in {Router!Nobody, by}
  BY DEF RouterInv, CallerOK, CreditOK
<1>2. Router!Associated(h) = IF d \in Users THEN d ELSE row.user
  BY DEF Router!Associated
<1>3. h.type = "round_robin" => by = h.dests[h.attempt + 1]
  BY <1>1 DEF Called
<1>4. h.type # "round_robin" /\ Len(h.dests) = 1 => by = h.dests[1] /\ h.attempt = 0
  BY <1>1 DEF Called, HuntOK, Router!ToSet
<1>5. CASE h.list = "nested"
  <2>1. d = IF Len(h.dests) = 1 \/ h.type = "round_robin" THEN h.dests[h.attempt + 1] ELSE Router!Nobody
    BY <1>5
  <2> HIDE DEF d
  <2>2. d \in {Router!Nobody, by}
    BY <1>3, <1>4, <2>1
  <2> QED
    BY <1>1, <1>2, <2>2
<1>6. CASE h.list = "main"
  <2>1. h.step \in 1 .. Len(flow.steps) /\ s.type = h.type /\ s.dests = h.dests
    BY <1>1, <1>6 DEF Current
  <2>2. flow.steps \in Seq(AllSteps)
    BY StepsTyped DEF RouterInv
  <2>3. ~ (h.step > Len(flow.steps))
    BY <2>1, <2>2
  <2>4. ~ (h.list = "nested")
    BY <1>6
  <2>5. ASSUME h.type = "round_robin" PROVE d \in {Router!Nobody, by}
    <3>1. d = IF s.type = "round_robin" /\ Router!Tried(h) <= Len(s.dests)
              THEN s.dests[Router!Tried(h)] ELSE Router!Nobody
      BY <2>3, <2>4, <2>5
    <3> QED
      BY <1>3, <2>1, <2>5, <3>1 DEF Router!Tried
  <2>6. ASSUME h.type # "round_robin" PROVE d \in {Router!Nobody, by}
    <3>1. d = IF s.type \in {"dial", "simulcall"} /\ Len(s.dests) = 1
              THEN s.dests[1] ELSE Router!Nobody
      BY <2>3, <2>4, <2>6
    <3> QED
      BY <1>4, <2>1, <2>6, <3>1
  <2>7. d \in {Router!Nobody, by}
    BY <2>5, <2>6
  <2> HIDE DEF d
  <2> QED
    BY <1>1, <1>2, <2>7
<1> QED
  BY <1>1, <1>5, <1>6 DEF HuntOK

LEMMA RouterEnds ==
  ASSUME RouterInv, \/ Router!HandleDialStatus \/ Router!HandleVoicemail
                    \/ Router!CallerHangsUp \/ Router!EditFlow
  PROVE  RouterInv' /\ Journeys
<1>0. FlowOK /\ row \in CallRow /\ Router!Hangup.do = "hangup" /\ ReplyOK(Router!Hangup)
  BY PlainReplies DEF RouterInv, Router!Hangup, Router!Reply
<1>1. CASE Router!HandleDialStatus
  <2>1. /\ caller.at = "talking" /\ Router!Follow(Router!Hangup) /\ UNCHANGED <<flow, edits, by>>
        /\ row' \in {row, [row EXCEPT !.user = Router!Associated(caller.hunt)]}
    BY <1>1 DEF Router!HandleDialStatus
  <2> DEFINE user == Router!Associated(caller.hunt)
  <2>2. user \in Users \cup {Router!Nobody}
    <3>1. user \in Users \/ user = row.user
      BY DEF Router!Associated
    <3> QED
      BY <1>0, <3>1 DEF CallRow
  <2>3. edits = 0 => user \in {Router!Nobody, by} /\ row.user \in {Router!Nobody, by}
    BY <2>1, CreditedOnce DEF RouterInv, CreditOK
  <2> HIDE DEF user
  <2>4. row' \in CallRow /\ row'.user \in {row.user, user}
    BY <1>0, <2>1, <2>2 DEF CallRow, user
  <2>5. edits = 0 => row'.user \in {Router!Nobody, by}
    BY <2>3, <2>4
  <2> QED
    BY <1>0, <2>1, <2>4, <2>5, FollowOK, FollowJourney DEF Journeys
<1>2. CASE Router!HandleVoicemail
  <2>1. /\ caller.at = "record" /\ Router!Follow(Router!Hangup) /\ UNCHANGED <<flow, edits, by>>
        /\ \E said \in BOOLEAN : row' = [row EXCEPT !.voicemail = row.voicemail \/ (said /\ row.there)]
    BY <1>2 DEF Router!HandleVoicemail
  <2>2. PICK said \in BOOLEAN : row' = [row EXCEPT !.voicemail = row.voicemail \/ (said /\ row.there)]
    BY <2>1
  <2>3. row' \in CallRow /\ row'.user = row.user
    BY <1>0, <2>2 DEF CallRow
  <2>4. edits = 0 => row'.user \in {Router!Nobody, by}
    BY <2>3 DEF RouterInv, CreditOK
  <2> QED
    BY <1>0, <2>1, <2>3, <2>4, FollowOK, FollowJourney DEF Journeys
<1>3. CASE Router!CallerHangsUp
  BY <1>0, <1>3, FollowStep DEF Router!CallerHangsUp
<1>4. CASE Router!EditFlow
  <2>1. /\ edits' = edits + 1 /\ edits < MaxEdits /\ UNCHANGED <<caller, row, meta, rung, by>>
        /\ \/ \E steps \in Flows, a \in BOOLEAN : flow' = [there |-> TRUE, active |-> a, steps |-> steps]
           \/ flow' = [there |-> FALSE, active |-> FALSE, steps |-> <<>>]
    BY <1>4 DEF Router!EditFlow
  <2>2. edits' \in 0 .. MaxEdits /\ edits' # 0
    BY <1>0, <2>1, BoundsAssumption DEF FlowOK
  <2>3. flow'.there \in BOOLEAN /\ flow'.active \in BOOLEAN /\ flow'.steps \in Flows \cup {<<>>}
    <3>1. ASSUME NEW steps \in Flows, NEW a \in BOOLEAN,
                 flow' = [there |-> TRUE, active |-> a, steps |-> steps]
          PROVE  <2>3!:
      BY <3>1
    <3>2. CASE flow' = [there |-> FALSE, active |-> FALSE, steps |-> <<>>]
      BY <3>2
    <3> QED
      BY <2>1, <3>1, <3>2
  <2>4. RouterInv'
    BY <2>1, <2>2, <2>3 DEF RouterInv, FlowOK, CallerOK, CreditOK
  <2>5. UNCHANGED <<Router!Phase, rung>>
    BY <2>1 DEF Router!Phase
  <2> QED
    BY <2>4, <2>5 DEF Journeys
<1> QED
  BY <1>1, <1>2, <1>3, <1>4

LEMMA RouterStep == RouterInv /\ Router!Next => RouterInv' /\ Journeys
BY RouterAsks, RouterRings, RouterEnds DEF Router!Next, Router!Progress

LEMMA RouterStays == RouterInv /\ UNCHANGED routerVars => RouterInv' /\ Journeys
BY DEF routerVars, RouterInv, FlowOK, CallerOK, CreditOK, Current, Journeys, Router!Phase

-----------------------------------------------------------------------------
(* All of them *)

TelephonyInv == SmsInv /\ PresenceTypes /\ RouterInv /\ LogInv

LEMMA SmsStays == SmsInv /\ UNCHANGED smsVars => SmsInv'
BY DEF smsVars, SmsInv, SmsTypes

LEMMA PresenceStays == PresenceTypes /\ UNCHANGED presenceVars => PresenceTypes'
BY DEF presenceVars, PresenceTypes, Presence!TypeOK

LEMMA LogStays == LogInv /\ UNCHANGED logVars => LogInv'
BY DEF logVars, LogInv

LEMMA TelephonyInit == Init => TelephonyInv
BY SmsInit, PresenceInit, RouterInit, LogInit DEF Init, TelephonyInv

LEMMA TelephonyStep ==
  ASSUME TelephonyInv, [Next]_vars
  PROVE  TelephonyInv' /\ Journeys
<1>1. CASE SmsNext
  BY <1>1, SmsStep, PresenceStays, RouterStays, LogStays DEF SmsNext, TelephonyInv
<1>2. CASE PresenceNext
  BY <1>2, PresenceStep, SmsStays, RouterStays, LogStays DEF PresenceNext, TelephonyInv
<1>3. CASE RouterNext
  BY <1>3, RouterStep, SmsStays, PresenceStays, LogStays DEF RouterNext, TelephonyInv
<1>4. CASE LogNext
  BY <1>4, LogStep, SmsStays, PresenceStays, RouterStays DEF LogNext, TelephonyInv
<1>5. CASE UNCHANGED vars
  BY <1>5, SmsStays, PresenceStays, RouterStays, LogStays DEF vars, TelephonyInv
<1> QED
  BY <1>1, <1>2, <1>3, <1>4, <1>5 DEF Next

LEMMA TelephonyAlways == Spec => []TelephonyInv
<1> HIDE DEF TelephonyInv
<1> QED
  BY TelephonyInit, TelephonyStep, PTL DEF Spec

\* Every row, message, task, job and hunt has its type: sms.service.ts,
\* presence.service.ts, twiml-generator.service.ts, phone-call.service.ts and
\* transcription.service.ts.  A round robin that a caller waits for has a destination at
\* its attempt, and so has the one that is stored in metaValue.
THEOREM TelephonyTypeCorrect == Spec => []TypeOK
<1>1. TelephonyInv => TypeOK
  <2>1. PresenceTypes => Presence!TypeOK
    BY DEF PresenceTypes
  <2>2. SmsInv => Sms!TypeOK
    BY DEF SmsInv, SmsTypes, SmsRow, SendSteps, Sms!TypeOK
  <2> QED
    BY <2>1, <2>2, RouterTypes, LogTypes DEF TelephonyInv, TypeOK
<1> QED
  BY <1>1, TelephonyAlways, PTL

\* A message that the carrier has reported as delivered has a time of delivery, in
\* whatever order Twilio's callbacks, the answer of the API and the users' requests write
\* the row (sms.service.ts).
THEOREM DeliveredHasTimeCorrect == Spec => []DeliveredHasTime
<1>1. TelephonyInv => DeliveredHasTime
  BY DEF TelephonyInv, SmsInv, SmsTypes, Timed, DeliveredHasTime, Sms!DeliveredHasTime
<1> QED
  BY <1>1, TelephonyAlways, PTL

\* A call is credited to the agent that the caller has talked to or to nobody, for every
\* flow, however deep in it the hunt was (associateAnsweringUser and its variants in
\* twiml-generator.service.ts), unless the flow is edited under the call.
THEOREM CreditedToAnswererCorrect == Spec => []CreditedToAnswerer
<1>1. TelephonyInv => CreditedToAnswerer
  BY RouterTypes DEF TelephonyInv, CreditedToAnswerer
<1> QED
  BY <1>1, TelephonyAlways, PTL

\* Every step of a call through a flow is one that CallJourney allows, for every flow and
\* every edit of it: from a talk or a message a call only ends, and it rings only from the
\* flow or when a hunt was missed (twiml-generator.service.ts, twilio-webhook.controller.ts).
\* As Limit is a bound of the flows, this is of behaviours that keep to it.
THEOREM JourneySteps ==
  Init /\ [][Next]_vars /\ [](rung <= MaxRung) => Journey!Init /\ [][Journey!Next]_(Journey!vars)
<1>1. Init => Journey!Init
  BY DEF Init, Router!Init, Router!Phase, Journey!Init
<1>2. TelephonyInv /\ [Next]_vars /\ (rung <= MaxRung)' => TelephonyInv' /\ [Journey!Next]_(Journey!vars)
  BY TelephonyStep DEF Journeys, Journey!vars
<1> HIDE DEF TelephonyInv
<1>3. Init => TelephonyInv
  BY TelephonyInit
<1>4. TelephonyInv /\ [Next]_vars => TelephonyInv'
  BY TelephonyStep
<1> QED
  BY <1>1, <1>2, <1>3, <1>4, PTL

=============================================================================
