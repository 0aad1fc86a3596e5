------------------------------ MODULE SmsDelivery ------------------------------
(***************************************************************************)
(* SmsService: a message is written as a row, handed to Twilio, and        *)
(* completed with the SID that Twilio gives it; status callbacks find the  *)
(* row by that SID.  The row, the answer and the callbacks are handled by  *)
(* requests that interleave at every await.  Each write is announced to    *)
(* the screens of the tenant right after it.                               *)
(***************************************************************************)
EXTENDS Naturals, FiniteSets

CONSTANT Messages   \* messages sent by us or received

VARIABLES
  sms,       \* the rows
  send,      \* the requests of sendSms
  carrier,   \* Twilio: what it knows of a message
  posted,    \* callbacks Twilio has to post: [msg, status]
  handlers,  \* callbacks being handled: [msg, status, seen, seenDelivered]
  screen     \* the status that was announced last

vars == <<sms, send, carrier, posted, handlers, screen>>

\* "other": a status of Twilio that we do not know, such as sending.
Reported == {"queued", "sent", "delivered", "failed", "undelivered", "other"}
Statuses == {"queued", "sent", "delivered", "failed", "received"}
NoRow == [there |-> FALSE, inbound |-> FALSE, status |-> "queued", sid |-> FALSE,
          deliveredAt |-> FALSE, read |-> FALSE, edited |-> FALSE]
Unseen == "none"

Row(m)   == sms[m].there
\* The write of a row, and its announcement.
Write(m, row) == /\ sms' = [sms EXCEPT ![m] = row]
                 /\ screen' = [screen EXCEPT ![m] = row.status]
\* An update of a row that is gone throws.
NoWrite == UNCHANGED <<sms, screen>>

-----------------------------------------------------------------------------
(* sendSms *)

\* The buyer has a number, and the tenant one to send from: the row is written first.
SendSms(m) ==
  /\ send[m] = "idle"
  /\ send' = [send EXCEPT ![m] = "created"]
  /\ Write(m, [NoRow EXCEPT !.there = TRUE])
  /\ UNCHANGED <<carrier, posted, handlers>>

\* messages.create: Twilio accepts the message, with status queued or not, or throws.
SendToTwilio(m) ==
  /\ send[m] = "created"
  /\ \/ /\ carrier' = [carrier EXCEPT ![m] = "accepted"]
        /\ \E s \in {"queued", "accepted"} : send' = [send EXCEPT ![m] = s]
     \/ send' = [send EXCEPT ![m] = "failed"] /\ UNCHANGED carrier
  /\ UNCHANGED <<sms, posted, handlers, screen>>

\* The answer is written over whatever the row says by now; when that throws, the
\* row is marked as failed.
SendAnswer(m) ==
  /\ send[m] \in {"queued", "accepted"}
  /\ \/ /\ Row(m)
        /\ Write(m, [sms[m] EXCEPT !.sid = TRUE,
                                   !.status = IF send[m] = "queued" THEN "queued" ELSE "sent"])
        /\ send' = [send EXCEPT ![m] = "done"]
     \/ send' = [send EXCEPT ![m] = "failed"] /\ NoWrite
  /\ UNCHANGED <<carrier, posted, handlers>>

SendFails(m) ==
  /\ send[m] = "failed"
  /\ IF Row(m) THEN Write(m, [sms[m] EXCEPT !.status = "failed"]) ELSE NoWrite
  /\ send' = [send EXCEPT ![m] = "done"]
  /\ UNCHANGED <<carrier, posted, handlers>>

-----------------------------------------------------------------------------
(* Twilio and its callbacks *)

\* Twilio goes on with a message and posts what it does, in whatever order it arrives.
Report(m) ==
  /\ \/ carrier[m] = "accepted" /\ carrier' = [carrier EXCEPT ![m] = "sending"]
        /\ \E s \in {"queued", "sent", "other"} : posted' = posted \cup {[msg |-> m, status |-> s]}
     \/ carrier[m] = "sending" /\ carrier' = [carrier EXCEPT ![m] = "final"]
        /\ \E s \in {"delivered", "failed", "undelivered"} :
             posted' = posted \cup {[msg |-> m, status |-> s]}
  /\ UNCHANGED <<sms, send, handlers, screen>>

\* handleSmsStatusUpdate: the row with the SID is read; there may be none yet ...
StatusRead(p) ==
  LET m == p.msg
  IN /\ posted' = posted \ {p}
     /\ handlers' = IF Row(m) /\ sms[m].sid
                    THEN handlers \cup {[msg |-> m, status |-> p.status, seen |-> sms[m].status,
                                         seenDelivered |-> sms[m].deliveredAt]}
                    ELSE handlers
     /\ UNCHANGED <<sms, send, carrier, screen>>

\* Our word for a status of Twilio.
Mapped(status, seen) ==
  CASE status = "undelivered" -> "failed" [] status = "other" -> seen [] OTHER -> status

\* Mutated form: every status but "delivered" takes the time of delivery away.
StatusWriteResets(h) ==
  LET m == h.msg
  IN /\ handlers' = handlers \ {h}
     /\ IF Row(m)
        THEN Write(m, [sms[m] EXCEPT !.status = Mapped(h.status, h.seen),
                                     !.deliveredAt = h.status = "delivered"])
        ELSE NoWrite
     /\ UNCHANGED <<send, carrier, posted>>

\* ... and status and time of delivery are written, as they follow from what was read.
StatusWrite(h) ==
  LET m == h.msg
  IN /\ handlers' = handlers \ {h}
     /\ IF Row(m)
        THEN Write(m, [sms[m] EXCEPT !.status = Mapped(h.status, h.seen),
                                     !.deliveredAt = h.status = "delivered" \/ h.seenDelivered])
        ELSE NoWrite
     /\ UNCHANGED <<send, carrier, posted>>

-----------------------------------------------------------------------------
(* The other operations *)

\* handleIncomingSms: stored when a buyer has the number.
HandleIncomingSms(m) ==
  /\ send[m] = "idle"
  /\ send' = [send EXCEPT ![m] = "done"]
  /\ \/ Write(m, [NoRow EXCEPT !.there = TRUE, !.inbound = TRUE, !.status = "received", !.sid = TRUE])
     \/ NoWrite
  /\ UNCHANGED <<carrier, posted, handlers>>

\* create: a record of a message that is not sent.
Create(m) ==
  /\ send[m] = "idle"
  /\ send' = [send EXCEPT ![m] = "done"]
  /\ \E s \in Statuses :
       Write(m, [NoRow EXCEPT !.there = TRUE, !.status = s, !.edited = TRUE])
  /\ UNCHANGED <<carrier, posted, handlers>>

\* update: whatever the user enters.
Update(m) ==
  /\ Row(m) /\ ~sms[m].edited
  /\ \E s \in Statuses, d \in BOOLEAN :
       Write(m, [sms[m] EXCEPT !.status = s, !.deliveredAt = d, !.edited = TRUE])
  /\ UNCHANGED <<send, carrier, posted, handlers>>

MarkAsRead(m) ==
  /\ Row(m)
  /\ Write(m, [sms[m] EXCEPT !.read = TRUE])
  /\ UNCHANGED <<send, carrier, posted, handlers>>

\* markAllAsRead announces nothing.
MarkAllAsRead ==
  /\ sms' = [m \in Messages |-> [sms[m] EXCEPT !.read = @ \/ sms[m].there]]
  /\ UNCHANGED <<send, carrier, posted, handlers, screen>>

Remove(m) ==
  /\ Row(m)
  /\ sms' = [sms EXCEPT ![m] = NoRow]
  /\ screen' = [screen EXCEPT ![m] = Unseen]
  /\ UNCHANGED <<send, carrier, posted, handlers>>

Init ==
  /\ sms = [m \in Messages |-> NoRow]
  /\ send = [m \in Messages |-> "idle"]
  /\ carrier = [m \in Messages |-> "none"]
  /\ posted = {} /\ handlers = {}
  /\ screen = [m \in Messages |-> Unseen]

Next ==
  \/ \E m \in Messages :
       \/ SendSms(m) \/ SendToTwilio(m) \/ SendAnswer(m) \/ SendFails(m) \/ Report(m)
       \/ HandleIncomingSms(m) \/ Create(m) \/ Update(m) \/ MarkAsRead(m) \/ Remove(m)
  \/ \E p \in posted : StatusRead(p)
  \/ \E h \in handlers : StatusWrite(h)
  \/ MarkAllAsRead

TypeOK ==
  /\ sms \in [Messages -> [there : BOOLEAN, inbound : BOOLEAN, status : Statuses, sid : BOOLEAN,
                           deliveredAt : BOOLEAN, read : BOOLEAN, edited : BOOLEAN]]
  /\ send \in [Messages -> {"idle", "created", "queued", "accepted", "failed", "done"}]
  /\ carrier \in [Messages -> {"none", "accepted", "sending", "final"}]
  /\ posted \subseteq [msg : Messages, status : Reported]
  /\ handlers \subseteq [msg : Messages, status : Reported, seen : Statuses, seenDelivered : BOOLEAN]
  /\ screen \in [Messages -> Statuses \cup {Unseen}]

\* However the answer of Twilio and its callbacks overtake one another, a message that is
\* shown as delivered has a time of delivery (unless a user has edited the record).
DeliveredHasTime ==
  \A m \in Messages :
    sms[m].status = "delivered" /\ ~sms[m].edited => sms[m].deliveredAt

\* A message that was accepted by Twilio is not shown as failed unless Twilio has failed it
\* (README, "Counterexamples": the row cannot be completed with the SID).
FailedByTwilio ==
  \A m \in Messages :
    (sms[m].status = "failed" /\ ~sms[m].edited /\ send[m] = "done") => carrier[m] \in {"none", "final"}

\* A status never goes back: "delivered" and "failed" are final (README, "Counterexamples":
\* the answer of the send, or a callback that was read earlier, is written later).
FinalStays ==
  \A m \in Messages :
    (sms[m].status \in {"delivered", "failed"} /\ sms'[m].there /\ ~sms'[m].edited)
      => sms'[m].status = sms[m].status
=============================================================================
