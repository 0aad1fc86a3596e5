------------------------------ MODULE BuyerRecords ------------------------------
(***************************************************************************)
(* buyers.service.ts, tasks.service.ts, notes.service.ts and               *)
(* email-messages.service.ts: the buyers of the tenants, and what the      *)
(* members of a tenant do about them: tasks, notes and e-mail messages.    *)
(*                                                                         *)
(* A request that looks something up and writes afterwards is two steps;   *)
(* deletions look for nothing that may change before they delete.  What    *)
(* refers to a buyer goes with it or forgets it (onDelete in the schema).  *)
(* Not modelled: names, texts and dates, and the columns that are only     *)
(* stored.                                                                 *)
(***************************************************************************)
EXTENDS Naturals, FiniteSets

CONSTANTS
  Tenants, Staff,        \* tenants, tenant_users
  Buyers, Tasks, Notes, Mails,
  MaxOpens,              \* how often a message is opened or clicked
  InFlight               \* requests being handled at once

VARIABLES
  staff,     \* tenant_users: tenant and status
  buyer,     \* buyers
  task,      \* tasks
  note,      \* notes
  mail,      \* email_messages
  requests   \* the requests being handled

vars == <<staff, buyer, task, note, mail, requests>>

None     == "none"
Progress == {"pending", "completed"}   \* in_progress and cancelled are as pending
Member   == [of : Tenants, status : {"active", "away"}]   \* removed, or invited again
Buyer    == [of : Tenants \cup {None}, seller : Staff \cup {None}]
Task     == [of : Tenants \cup {None}, for : Staff \cup {None}, buyer : Buyers \cup {None},
             status : Progress, completedAt : BOOLEAN]
Note     == [of : Tenants \cup {None}, buyer : Buyers \cup {None}]
Mail     == [of : Tenants \cup {None}, buyer : Buyers \cup {None},
             status : {"sent", "opened", "clicked"}, opens : 0 .. MaxOpens, clicks : 0 .. MaxOpens]
NoBuyer  == [of |-> None, seller |-> None]
NoTask   == [of |-> None, for |-> None, buyer |-> None, status |-> "pending", completedAt |-> FALSE]
NoNote   == [of |-> None, buyer |-> None]
NoMail   == [of |-> None, buyer |-> None, status |-> "sent", opens |-> 0, clicks |-> 0]
Request  == [place : 1 .. InFlight, kind : {"task", "retask", "mail", "open", "click"},
             t : Tenants, id : Tasks \cup Mails, who : Staff \cup {None},
             buyer : Buyers \cup {None}, status : Progress \cup {None}, was : BOOLEAN, count : 0 .. MaxOpens]

Exists(b)    == b # None => buyer[b].of # None
Active(t)    == {s \in Staff : staff[s].of = t /\ staff[s].status = "active"}
\* An id is never given twice: nothing and no request still speaks of it.
Fresh(i)     == \A q \in requests : i \notin {q.id, q.buyer}

\* Two requests that are alike are two.
Begin(q) ==
  /\ Cardinality(requests) < InFlight
  /\ \E p \in 1 .. InFlight :
       /\ \A o \in 1 .. p : [q EXCEPT !.place = o] \in requests <=> o < p
       /\ requests' = requests \cup {[q EXCEPT !.place = p]}
  /\ UNCHANGED <<staff, buyer, task, note, mail>>
Done(q) == requests' = requests \ {q}
Blank(kind, t, id) ==
  [place |-> 0, kind |-> kind, t |-> t, id |-> id, who |-> None, buyer |-> None, status |-> "pending",
   was |-> FALSE, count |-> 0]

-----------------------------------------------------------------------------
\* Buyers.  The seller is any member of any tenant.
CreateBuyer(t, b, seller) ==
  /\ ~ Exists(b) /\ Fresh(b)
  /\ buyer' = [buyer EXCEPT ![b] = [of |-> t, seller |-> seller]]
  /\ UNCHANGED <<staff, task, note, mail, requests>>

UpdateBuyer(t, b, seller) ==
  /\ buyer[b].of = t
  /\ buyer' = [buyer EXCEPT ![b].seller = seller]
  /\ UNCHANGED <<staff, task, note, mail, requests>>

\* The messages go with the buyer, tasks and notes forget it.
RemoveBuyer(t, b) ==
  /\ buyer[b].of = t
  /\ buyer' = [buyer EXCEPT ![b] = NoBuyer]
  /\ task' = [k \in Tasks |-> IF task[k].buyer = b THEN [task[k] EXCEPT !.buyer = None] ELSE task[k]]
  /\ note' = [n \in Notes |-> IF note[n].buyer = b THEN [note[n] EXCEPT !.buyer = None] ELSE note[n]]
  /\ mail' = [e \in Mails |-> IF mail[e].buyer = b THEN NoMail ELSE mail[e]]
  /\ UNCHANGED <<staff, requests>>

-----------------------------------------------------------------------------
\* Tasks.  The one it is for is an active member when it is looked up.
CreateTaskCheck(t, k, who, b, status) ==
  /\ task[k].of = None /\ Fresh(k) /\ who \in Active(t)
  /\ Begin([Blank("task", t, k) EXCEPT !.who = who, !.buyer = b, !.status = status])

\* A task that is created as completed has not been completed at any time.
CreateTaskWrite(q) ==
  /\ q.kind = "task"
  /\ task' = IF Exists(q.buyer)
             THEN [task EXCEPT ![q.id] = [of |-> q.t, for |-> q.who, buyer |-> q.buyer,
                                          status |-> q.status, completedAt |-> FALSE]]
             ELSE task
  /\ Done(q)
  /\ UNCHANGED <<staff, buyer, note, mail>>

\* Whether it was completed is read with the task.
UpdateTaskRead(t, k, who, status) ==
  /\ task[k].of = t /\ (who # None => who \in Active(t))
  /\ Begin([Blank("retask", t, k) EXCEPT
              !.who = who, !.status = status, !.was = (task[k].status = "completed")])

\* Mutated form: completedAt stays when a task is reopened.
UpdateTaskWriteKeeps(q) ==
  /\ q.kind = "retask"
  /\ LET old == task[q.id] IN
     task' = IF old.of = None THEN task
             ELSE [task EXCEPT ![q.id] =
                     [old EXCEPT !.for = IF q.who = None THEN old.for ELSE q.who,
                                 !.status = IF q.status = None THEN old.status ELSE q.status,
                                 !.completedAt = old.completedAt \/ q.status = "completed"]]
  /\ Done(q)
  /\ UNCHANGED <<staff, buyer, note, mail>>

UpdateTaskWrite(q) ==
  /\ q.kind = "retask"
  /\ LET old == task[q.id] IN
     task' = IF old.of = None THEN task
             ELSE [task EXCEPT ![q.id] =
                     [old EXCEPT !.for = IF q.who = None THEN old.for ELSE q.who,
                                 !.status = IF q.status = None THEN old.status ELSE q.status,
                                 !.completedAt = \/ q.status = "completed"
                                                 \/ old.completedAt /\ ~ (q.was /\ q.status # None)]]
  /\ Done(q)
  /\ UNCHANGED <<staff, buyer, note, mail>>

RemoveTask(t, k) ==
  /\ task[k].of = t
  /\ task' = [task EXCEPT ![k] = NoTask]
  /\ UNCHANGED <<staff, buyer, note, mail, requests>>

-----------------------------------------------------------------------------
\* Notes, about any buyer there is; an update changes the text only.
CreateNote(t, n, b) ==
  /\ note[n].of = None /\ Exists(b)
  /\ note' = [note EXCEPT ![n] = [of |-> t, buyer |-> b]]
  /\ UNCHANGED <<staff, buyer, task, mail, requests>>

RemoveNote(t, n) ==
  /\ note[n].of = t
  /\ note' = [note EXCEPT ![n] = NoNote]
  /\ UNCHANGED <<staff, buyer, task, mail, requests>>

-----------------------------------------------------------------------------
\* Mutated form: the buyer is looked for in all tenants.
CreateMailCheckAnyone(t, e, b) ==
  /\ mail[e].of = None /\ Fresh(e)
  /\ b # None /\ Exists(b)
  /\ Begin([Blank("mail", t, e) EXCEPT !.buyer = b])

\* Messages, of a buyer of the tenant.
CreateMailCheck(t, e, b) ==
  /\ mail[e].of = None /\ Fresh(e)
  /\ b # None /\ buyer[b].of = t
  /\ Begin([Blank("mail", t, e) EXCEPT !.buyer = b])

CreateMailWrite(q) ==
  /\ q.kind = "mail"
  /\ mail' = IF Exists(q.buyer)
             THEN [mail EXCEPT ![q.id] = [NoMail EXCEPT !.of = q.t, !.buyer = q.buyer]]
             ELSE mail
  /\ Done(q)
  /\ UNCHANGED <<staff, buyer, task, note>>

UpdateMail(t, e, status) ==
  /\ mail[e].of = t
  /\ mail' = [mail EXCEPT ![e].status = status]
  /\ UNCHANGED <<staff, buyer, task, note, requests>>

RemoveMail(t, e) ==
  /\ mail[e].of = t
  /\ mail' = [mail EXCEPT ![e] = NoMail]
  /\ UNCHANGED <<staff, buyer, task, note, requests>>

\* trackOpen, trackClick: the count that was read, and one.
OpenRead(t, e) ==
  /\ mail[e].of = t /\ mail[e].opens < MaxOpens
  /\ Begin([Blank("open", t, e) EXCEPT !.count = mail[e].opens])
OpenWrite(q) ==
  /\ q.kind = "open"
  /\ mail' = IF mail[q.id].of = None THEN mail
             ELSE [mail EXCEPT ![q.id] = [@ EXCEPT !.status = "opened", !.opens = q.count + 1]]
  /\ Done(q)
  /\ UNCHANGED <<staff, buyer, task, note>>

ClickRead(t, e) ==
  /\ mail[e].of = t /\ mail[e].clicks < MaxOpens
  /\ Begin([Blank("click", t, e) EXCEPT !.count = mail[e].clicks])
ClickWrite(q) ==
  /\ q.kind = "click"
  /\ mail' = IF mail[q.id].of = None THEN mail
             ELSE [mail EXCEPT ![q.id] = [@ EXCEPT !.status = "clicked", !.clicks = q.count + 1]]
  /\ Done(q)
  /\ UNCHANGED <<staff, buyer, task, note>>

-----------------------------------------------------------------------------
\* A member is removed, which is only a status, or invited again (TenantMembership).
Restaff(s, status) ==
  /\ staff[s].status # status
  /\ staff' = [staff EXCEPT ![s].status = status]
  /\ UNCHANGED <<buyer, task, note, mail, requests>>

\* Every tenant has a member, each member one tenant.
Init ==
  /\ staff \in [Staff -> [of : Tenants, status : {"active"}]]
  /\ \A t \in Tenants : \E s \in Staff : staff[s].of = t
  /\ buyer = [b \in Buyers |-> NoBuyer]
  /\ task = [k \in Tasks |-> NoTask]
  /\ note = [n \in Notes |-> NoNote]
  /\ mail = [e \in Mails |-> NoMail]
  /\ requests = {}

Write(q) ==
  \/ CreateTaskWrite(q) \/ UpdateTaskWrite(q) \/ CreateMailWrite(q)
  \/ OpenWrite(q) \/ ClickWrite(q)

Next ==
  \/ \E t \in Tenants, b \in Buyers :
       \/ \E s \in Staff \cup {None} : CreateBuyer(t, b, s) \/ UpdateBuyer(t, b, s)
       \/ RemoveBuyer(t, b)
  \/ \E t \in Tenants, k \in Tasks :
       \/ \E s \in Staff, b \in Buyers \cup {None}, status \in Progress :
            CreateTaskCheck(t, k, s, b, status)
       \/ \E s \in Staff \cup {None}, status \in Progress \cup {None} : UpdateTaskRead(t, k, s, status)
       \/ RemoveTask(t, k)
  \/ \E t \in Tenants, n \in Notes :
       \/ \E b \in Buyers \cup {None} : CreateNote(t, n, b)
       \/ RemoveNote(t, n)
  \/ \E t \in Tenants, e \in Mails :
       \/ \E b \in Buyers : CreateMailCheck(t, e, b)
       \/ \E status \in {"sent", "opened", "clicked"} : UpdateMail(t, e, status)
       \/ RemoveMail(t, e) \/ OpenRead(t, e) \/ ClickRead(t, e)
  \/ \E s \in Staff, status \in {"active", "away"} : Restaff(s, status)
  \/ \E q \in requests : Write(q)

Spec == Init /\ [][Next]_vars

-----------------------------------------------------------------------------
\* What there is and what is asked for has its type; what refers to a row refers to one
\* that is there.
TypeOK ==
  /\ staff \in [Staff -> Member] /\ buyer \in [Buyers -> Buyer]
  /\ task \in [Tasks -> Task] /\ note \in [Notes -> Note] /\ mail \in [Mails -> Mail]
  /\ requests \subseteq Request
  /\ \A k \in Tasks : Exists(task[k].buyer)
  /\ \A n \in Notes : Exists(note[n].buyer)

\* email-messages.service.ts, create; tasks.service.ts, create and update: a message is of
\* a buyer of its own tenant, a task is for a member of its own tenant, although the buyer
\* may be deleted, and the member removed, between the look-up and the write.
RecordsStayHome ==
  /\ \A e \in Mails : mail[e].of # None => mail[e].buyer # None /\ buyer[mail[e].buyer].of = mail[e].of
  /\ \A k \in Tasks : task[k].of # None => staff[task[k].for].of = task[k].of

\* The time of completion of a task that is not completed.
Dated(k) == task[k].completedAt /\ task[k].status # "completed"

\* The updates of a task that find its status as they have read it.
Current(q) == q.kind = "retask" /\ (q.was <=> task[q.id].status = "completed")

\* tasks.service.ts, update ("Clear completedAt if reopening from completed status"): however
\* the requests overlap, a task that is open comes by a time of completion only when an update
\* writes that has read it before another one completed or reopened it.
Reopens ==
  \A k \in Tasks : Dated(k)' /\ ~ Dated(k) =>
    \E q \in requests \ requests' : q.kind = "retask" /\ q.id = k /\ ~ Current(q)
ReopenedIsOpen == [][Reopens]_vars

-----------------------------------------------------------------------------
(* What does not hold (README, "Counterexamples"). *)

\* Tasks and notes are about buyers of the tenant, and their sellers are its members.
BuyersStayHome ==
  /\ \A k \in Tasks : task[k].buyer # None => buyer[task[k].buyer].of = task[k].of
  /\ \A n \in Notes : note[n].buyer # None => buyer[note[n].buyer].of = note[n].of
  /\ \A b \in Buyers : buyer[b].seller # None => staff[buyer[b].seller].of = buyer[b].of

\* "Set completedAt when marking as completed".
CompletedHasTime == \A k \in Tasks : task[k].status = "completed" => task[k].completedAt

\* A task is given to members who are active only.
GivenToActive ==
  [][\A k \in Tasks : task'[k].for \notin {task[k].for, None} => staff[task'[k].for].status = "active"]_vars

\* A message that has been clicked on stays so.
ClickedStays == [][\A e \in Mails : mail[e].clicks > 0 /\ mail'[e].of # None => mail'[e].status = "clicked"
                                    \/ mail[e].status # "clicked"]_vars

\* Two requests that tell of an opening are counted as two.
OpensCount ==
  [][\A q \in requests \ requests' :
       q.kind = "open" /\ mail'[q.id].of # None => mail'[q.id].opens = mail[q.id].opens + 1]_vars
=============================================================================
