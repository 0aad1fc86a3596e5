------------------------ MODULE TenantMembershipProofs ------------------------
(***************************************************************************)
(* For any number of users, rows and overlapping requests: the rows have   *)
(* their types and active members have accounts; and the tenant has one    *)
(* owner until a request of the owner writes what its checks would refuse. *)
(***************************************************************************)
EXTENDS TenantMembership, FiniteSetTheorems, TLAPS

\* A row of user u that may be written, given the users who have an account.
RowGood(r, u, reg) ==
  /\ r \in Member
  /\ r.id = 0 => r = Absent
  /\ r.id # 0 /\ r.status = "active" => u \in reg

MembersGood(m, reg) == m \in [Users -> Member] /\ \A u \in Users : RowGood(m[u], u, reg)

\* Who is accepting has an account: acceptInvitation has asked for it.
TasksGood(S, reg) ==
  \A t \in S : t \in Task /\ (At(t, "accept", "write") => t.user \in reg)

\* The requests that will create a row have room for it.
CreatingIn(S) == {t \in S : t.kind \in Creating}
Room(S, n)    == IsFiniteSet(S) /\ n \in Nat /\ n + Cardinality(CreatingIn(S)) <= MaxRows

RowsInv ==
  /\ MembersGood(member, registered)
  /\ invitation \in [Users -> {"none", "pending", "accepted"}]
  /\ registered \subseteq Users
  /\ TasksGood(tasks, registered)
  /\ Room(tasks, rows)

IndInv == RowsInv /\ stale \in BOOLEAN

-----------------------------------------------------------------------------
(* Counting the requests that create. *)

LEMMA RoomBound ==
  ASSUME MaxRows \in Nat, NEW S, NEW n, Room(S, n)
  PROVE  /\ n \in 0 .. MaxRows /\ IsFiniteSet(CreatingIn(S))
         /\ Cardinality(CreatingIn(S)) \in Nat
<1>1. IsFiniteSet(CreatingIn(S))
  BY FS_Subset DEF Room, CreatingIn
<1>2. Cardinality(CreatingIn(S)) \in Nat
  BY <1>1, FS_CardinalityType
<1> QED
  BY <1>1, <1>2 DEF Room

LEMMA CountWithout ==
  ASSUME NEW C, NEW D, NEW t, IsFiniteSet(C), D = C \ {t}
  PROVE  /\ IsFiniteSet(D) /\ Cardinality(D) <= Cardinality(C)
         /\ t \in C => Cardinality(D) = Cardinality(C) - 1
<1>1. /\ IsFiniteSet(C \ {t}) /\ Cardinality(C) \in Nat
      /\ Cardinality(C \ {t}) = IF t \in C THEN Cardinality(C) - 1 ELSE Cardinality(C)
  BY FS_RemoveElement, FS_CardinalityType
<1>2. IsFiniteSet(D)
  BY <1>1
<1>3. Cardinality(D) = Cardinality(C \ {t})
  OBVIOUS
<1> QED
  BY <1>1, <1>2, <1>3

LEMMA CountWith ==
  ASSUME NEW C, NEW D, NEW x, IsFiniteSet(C), D = C \cup {x}
  PROVE  IsFiniteSet(D) /\ Cardinality(D) <= Cardinality(C) + 1
<1>1. /\ IsFiniteSet(C \cup {x}) /\ Cardinality(C) \in Nat
      /\ Cardinality(C \cup {x}) = IF x \in C THEN Cardinality(C) ELSE Cardinality(C) + 1
  BY FS_AddElement, FS_CardinalityType
<1>2. Cardinality(D) = Cardinality(C \cup {x}) /\ IsFiniteSet(D)
  BY <1>1
<1> QED
  BY <1>1, <1>2

LEMMA RoomWithout ==
  ASSUME MaxRows \in Nat, NEW S, NEW n, Room(S, n), NEW t \in S
  PROVE  /\ Room(S \ {t}, n)
         /\ t.kind \in Creating => n + 1 \in 0 .. MaxRows /\ Room(S \ {t}, n + 1)
<1>0. IsFiniteSet(CreatingIn(S)) /\ Cardinality(CreatingIn(S)) \in Nat
  BY RoomBound
<1>1. IsFiniteSet(S \ {t})
  BY FS_RemoveElement DEF Room
<1>2. CreatingIn(S \ {t}) = CreatingIn(S) \ {t}
  BY DEF CreatingIn
<1>3. /\ Cardinality(CreatingIn(S \ {t})) <= Cardinality(CreatingIn(S))
      /\ t.kind \in Creating => Cardinality(CreatingIn(S \ {t})) = Cardinality(CreatingIn(S)) - 1
  <2>1. t.kind \in Creating => t \in CreatingIn(S)
    BY DEF CreatingIn
  <2> QED
    BY <1>0, <1>2, <2>1, CountWithout
<1>4. IsFiniteSet(CreatingIn(S \ {t}))
  BY <1>0, <1>2, CountWithout
<1>5. Cardinality(CreatingIn(S \ {t})) \in Nat
  BY <1>4, FS_CardinalityType
<1> QED
  BY <1>1, <1>3, <1>5, RoomBound DEF Room

LEMMA RoomWith ==
  ASSUME MaxRows \in Nat, NEW S, NEW n, Room(S, n), NEW x,
         x.kind \in Creating => n + Cardinality(CreatingIn(S)) < MaxRows
  PROVE  Room(S \cup {x}, n)
<1>1. IsFiniteSet(S \cup {x})
  BY FS_AddElement DEF Room
<1>2. CASE x.kind \in Creating
  <2>1. CreatingIn(S \cup {x}) = CreatingIn(S) \cup {x}
    BY <1>2 DEF CreatingIn
  <2>0. IsFiniteSet(CreatingIn(S)) /\ Cardinality(CreatingIn(S)) \in Nat
    BY RoomBound
  <2>2. Cardinality(CreatingIn(S \cup {x})) <= Cardinality(CreatingIn(S)) + 1
    BY <2>0, <2>1, CountWith
  <2>3. IsFiniteSet(CreatingIn(S \cup {x}))
    BY <2>0, <2>1, CountWith
  <2>4. Cardinality(CreatingIn(S \cup {x})) \in Nat
    BY <2>3, FS_CardinalityType
  <2> QED
    BY <1>1, <1>2, <2>2, <2>4, RoomBound DEF Room
<1>3. CASE x.kind \notin Creating
  <2>1. CreatingIn(S \cup {x}) = CreatingIn(S)
    BY <1>3 DEF CreatingIn
  <2> QED
    BY <1>1, <2>1 DEF Room
<1> QED
  BY <1>2, <1>3

LEMMA RoomReplaced ==
  ASSUME MaxRows \in Nat, NEW S, NEW n, Room(S, n), NEW t \in S, NEW x, x.kind = t.kind
  PROVE  Room((S \ {t}) \cup {x}, n)
<1>1. Room(S \ {t}, n)
  BY RoomWithout
<1>2. x.kind \in Creating => n + Cardinality(CreatingIn(S \ {t})) < MaxRows
  <2>1. x.kind \in Creating => Room(S \ {t}, n + 1)
    BY RoomWithout
  <2>2. Cardinality(CreatingIn(S \ {t})) \in Nat /\ n \in Nat
    BY <1>1, RoomBound DEF Room
  <2> QED
    BY <2>1, <2>2 DEF Room
<1> QED
  BY <1>1, <1>2, RoomWith

-----------------------------------------------------------------------------
(* What the requests write. *)

LEMMA WriteGood ==
  ASSUME MembersGood(member, registered), NEW u \in Users, NEW r,
         RowGood(r, u, registered), Write(u, r)
  PROVE  MembersGood(member', registered)
BY DEF MembersGood, RowGood, Write

\* The handler of a request is done, or reads the row of its user.
LEMMA Ends ==
  ASSUME RowsInv, MaxRows \in Nat, NEW t \in tasks, Done(t)
  PROVE  TasksGood(tasks', registered) /\ Room(tasks', rows)
BY RoomWithout DEF RowsInv, Done, Others, TasksGood

LEMMA GoesOn ==
  ASSUME RowsInv, MaxRows \in Nat, NEW t \in tasks, NEW pc \in Points, Goto(t, pc),
         t.kind = "accept" => pc # "write"
  PROVE  TasksGood(tasks', registered) /\ Room(tasks', rows)
<1> DEFINE new == [t EXCEPT !.pc = pc, !.id = member[t.user].id]
<1>1. t \in Task
  BY DEF RowsInv, TasksGood
<1>2. member[t.user].id \in Ids
  BY <1>1 DEF RowsInv, MembersGood, Member, Task
<1>3. new \in Task /\ new.kind = t.kind /\ new.pc = pc
  BY <1>1, <1>2 DEF Task
<1>4. tasks' = Others(t) \cup {new}
  BY DEF Goto
<1> HIDE DEF new
<1>5. Room(tasks', rows)
  BY <1>3, <1>4, RoomReplaced DEF RowsInv, Others
<1>6. TasksGood(tasks', registered)
  BY <1>3, <1>4 DEF RowsInv, TasksGood, Others, At
<1> QED
  BY <1>5, <1>6

\* A request that checks and writes nothing.
LEMMA CheckKeeps ==
  ASSUME RowsInv, TasksGood(tasks', registered), Room(tasks', rows), Unchecked
  PROVE  RowsInv'
BY DEF RowsInv, Unchecked

\* A request that writes one row that exists.
LEMMA WriteKeeps ==
  ASSUME RowsInv, MaxRows \in Nat, NEW t \in tasks, Done(t),
         MembersGood(member', registered), UNCHANGED <<invitation, registered, rows>>
  PROVE  RowsInv'
BY Ends DEF RowsInv

LEMMA ChangeKeeps ==
  ASSUME RowsInv, MaxRows \in Nat, NEW t \in tasks, NEW kind, NEW there, NEW ok, NEW r,
         Change(t, kind, there, ok, r), there => RowGood(r, t.user, registered)
  PROVE  RowsInv'
<1>1. t.user \in Users
  BY DEF RowsInv, TasksGood, Task
<1>2. MembersGood(member', registered)
  BY <1>1, WriteGood DEF Change, RowsInv
<1> QED
  BY <1>2, WriteKeeps DEF Change

LEMMA CheckOK ==
  ASSUME RowsInv, MaxRows \in Nat, NEW t \in tasks, NEW kind \in OwnerKinds, NEW ok,
         Check(t, kind, ok)
  PROVE  RowsInv'
<1>1. t.kind # "accept" /\ "write" \in Points
  BY DEF Check, At, OwnerKinds, Points
<1>2. TasksGood(tasks', registered) /\ Room(tasks', rows)
  BY <1>1, Ends, GoesOn DEF Check
<1> QED
  BY <1>2, CheckKeeps DEF Check

\* A request that creates the row of its user.
LEMMA CreateKeeps ==
  ASSUME RowsInv, MaxRows \in Nat, NEW t \in tasks, t.kind \in Creating, Done(t),
         NEW r \in Member, r.id = rows + 1, r.status = "pending", Write(t.user, r),
         rows' = rows + 1, UNCHANGED registered,
         invitation' \in [Users -> {"none", "pending", "accepted"}]
  PROVE  RowsInv'
<1>1. t.user \in Users /\ rows \in Nat
  BY DEF RowsInv, TasksGood, Task, Room
<1>2. RowGood(r, t.user, registered)
  BY <1>1 DEF RowGood
<1>3. MembersGood(member', registered)
  BY <1>1, <1>2, WriteGood DEF RowsInv
<1>4. Room(tasks', rows')
  BY RoomWithout DEF RowsInv, Done, Others
<1>5. TasksGood(tasks', registered)
  BY Ends
<1> QED
  BY <1>3, <1>4, <1>5 DEF RowsInv

LEMMA InvitedType ==
  ASSUME MaxRows \in Nat, NEW id \in Ids
  PROVE  Invited(id) \in Member /\ Invited(id).id = id /\ Invited(id).status = "pending"
BY DEF Invited, Member, Statuses

LEMMA NewIdOK ==
  ASSUME RowsInv, MaxRows \in Nat, NEW t \in tasks, t.kind \in Creating
  PROVE  rows + 1 \in Ids
BY RoomWithout DEF RowsInv, Ids

-----------------------------------------------------------------------------
(* The operations of the owner. *)

LEMMA BeginKeeps ==
  ASSUME RowsInv, MaxRows \in Nat, NEW kind \in Kinds, NEW by \in Users, NEW u \in Users,
         NEW pc \in Points, Begin(kind, by, u, pc),
         kind = "accept" => u \in registered,
         kind \in Creating => rows + Cardinality(CreatingIn(tasks)) < MaxRows
  PROVE  RowsInv'
<1> DEFINE new == [kind |-> kind, by |-> by, user |-> u, pc |-> pc,
                   id |-> IF pc = "check" THEN 0 ELSE member[u].id]
<1>1. new \in Task /\ new.kind = kind /\ new.user = u
  BY DEF Task, Ids, RowsInv, MembersGood, Member
<1>2. tasks' = tasks \cup {new} /\ Unchecked
  BY DEF Begin
<1> HIDE DEF new
<1>3. TasksGood(tasks', registered)
  BY <1>1, <1>2 DEF RowsInv, TasksGood, At
<1>4. Room(tasks', rows)
  BY <1>1, <1>2, RoomWith DEF RowsInv
<1> QED
  BY <1>2, <1>3, <1>4, CheckKeeps

LEMMA VerifyOK ==
  ASSUME RowsInv, MaxRows \in Nat, NEW kind \in OwnerKinds, NEW by \in Users, NEW u \in Users,
         Verify(kind, by, u)
  PROVE  RowsInv'
BY BeginKeeps DEF Verify, CreatingIn, OwnerKinds, Kinds, Points

LEMMA ChecksOK ==
  ASSUME RowsInv, MaxRows \in Nat, NEW t \in tasks,
         \/ AddCheck(t) \/ UpdateCheck(t) \/ RemoveCheck(t) \/ TransferCheck(t)
         \/ ResendCheck(t) \/ RevokeCheck(t)
  PROVE  RowsInv'
BY CheckOK DEF AddCheck, UpdateCheck, RemoveCheck, TransferCheck, ResendCheck, RevokeCheck, OwnerKinds

LEMMA AddWriteOK ==
  ASSUME RowsInv, MaxRows \in Nat, NEW t \in tasks, AddWrite(t)
  PROVE  RowsInv'
<1>1. t.kind \in Creating /\ Done(t) /\ UNCHANGED <<invitation, registered>>
  BY DEF AddWrite, At, Creating
<1>2. CASE Row(t.user)
  BY <1>1, <1>2, WriteKeeps DEF AddWrite, RowsInv
<1>3. CASE ~ Row(t.user)
  <2>1. PICK active \in BOOLEAN :
          Write(t.user, [Invited(rows + 1) EXCEPT !.isActive = active, !.invited = FALSE])
    BY <1>3 DEF AddWrite
  <2> DEFINE r == [Invited(rows + 1) EXCEPT !.isActive = active, !.invited = FALSE]
  <2>2. r \in Member /\ r.id = rows + 1 /\ r.status = "pending"
    BY <1>1, NewIdOK DEF Invited, Member, Statuses
  <2>3. Write(t.user, r) /\ rows' = rows + 1
    BY <1>3, <2>1 DEF AddWrite
  <2> HIDE DEF r
  <2> QED
    BY <1>1, <2>2, <2>3, CreateKeeps DEF RowsInv
<1> QED
  BY <1>2, <1>3

LEMMA RowOf ==
  ASSUME RowsInv, NEW t \in tasks
  PROVE  t \in Task /\ t.user \in Users /\ RowGood(member[t.user], t.user, registered)
BY DEF RowsInv, TasksGood, MembersGood, Task

LEMMA ChangesOK ==
  ASSUME RowsInv, MaxRows \in Nat, NEW t \in tasks,
         UpdateWrite(t) \/ RemoveWrite(t) \/ ResendWrite(t) \/ RevokeWrite(t)
  PROVE  RowsInv'
<1>1. CASE UpdateWrite(t)
  <2>1. Row(t.user) => RowGood([member[t.user] EXCEPT !.role = "staff"], t.user, registered)
    BY RowOf DEF Row, RowGood, Member
  <2>2. \A active \in BOOLEAN : Row(t.user) =>
          RowGood([member[t.user] EXCEPT !.isActive = active], t.user, registered)
    BY RowOf DEF Row, RowGood, Member
  <2> QED
    BY <1>1, <2>1, <2>2, ChangeKeeps DEF UpdateWrite
<1>2. CASE RemoveWrite(t)
  <2>1. Row(t.user) =>
          RowGood([member[t.user] EXCEPT !.status = "removed", !.isActive = FALSE],
                  t.user, registered)
    BY RowOf DEF Row, RowGood, Member, Statuses
  <2> QED
    BY <1>2, <2>1, ChangeKeeps DEF RemoveWrite
<1>3. CASE ResendWrite(t)
  <2>1. SameRow(t) =>
          RowGood([member[t.user] EXCEPT !.status = "pending", !.invited = TRUE],
                  t.user, registered)
    BY RowOf DEF SameRow, Row, RowGood, Member, Statuses
  <2> QED
    BY <1>3, <2>1, ChangeKeeps DEF ResendWrite
<1>4. CASE RevokeWrite(t)
  <2>1. RowGood(Absent, t.user, registered)
    BY DEF RowGood, Absent, Member, Statuses, Ids
  <2> QED
    BY <1>4, <2>1, ChangeKeeps DEF RevokeWrite
<1> QED
  BY <1>1, <1>2, <1>3, <1>4

LEMMA TransferWriteOK ==
  ASSUME RowsInv, MaxRows \in Nat, NEW t \in tasks, TransferWrite(t)
  PROVE  RowsInv'
<1>1. Done(t) /\ UNCHANGED <<invitation, registered, rows>>
  BY DEF TransferWrite
<1>2. MembersGood(member', registered)
  BY RowOf DEF TransferWrite, RowsInv, MembersGood, RowGood, Row, Member, Task
<1> QED
  BY <1>1, <1>2, WriteKeeps

LEMMA InviteOK ==
  ASSUME RowsInv, MaxRows \in Nat, NEW t \in tasks, InviteCheck(t) \/ InviteWrite(t) \/ Reinvite(t)
  PROVE  RowsInv'
<1>1. t.kind = "invite" /\ t.kind \in Creating /\ {"reinvite", "write"} \subseteq Points
  BY DEF InviteCheck, InviteWrite, Reinvite, At, Creating, Points
<1>2. CASE InviteCheck(t)
  <2>1. Done(t) \/ Goto(t, "reinvite") \/ Goto(t, "write")
    BY <1>2 DEF InviteCheck
  <2> QED
    BY <1>1, <1>2, <2>1, Ends, GoesOn, CheckKeeps DEF InviteCheck
<1>3. CASE Reinvite(t)
  <2>1. t.id \in Ids /\ (SameRow(t) => RowGood(Invited(t.id), t.user, registered))
    BY RowOf, InvitedType DEF SameRow, Row, RowGood, Task
  <2>2. MembersGood(member', registered)
    BY <1>3, <2>1, RowOf, WriteGood DEF Reinvite, RowsInv
  <2> QED
    BY <1>3, <2>2, WriteKeeps DEF Reinvite
<1>4. CASE InviteWrite(t) /\ Row(t.user)
  BY <1>4, WriteKeeps DEF InviteWrite, RowsInv
<1>5. CASE InviteWrite(t) /\ ~ Row(t.user)
  <2>1. /\ Write(t.user, Invited(rows + 1)) /\ rows' = rows + 1 /\ Done(t)
        /\ UNCHANGED registered
        /\ invitation' = [invitation EXCEPT ![t.user] = "pending"]
    BY <1>5 DEF InviteWrite
  <2>2. invitation' \in [Users -> {"none", "pending", "accepted"}]
    BY <2>1 DEF RowsInv
  <2>3. /\ Invited(rows + 1) \in Member /\ Invited(rows + 1).id = rows + 1
        /\ Invited(rows + 1).status = "pending"
    BY <1>1, NewIdOK, InvitedType
  <2> QED
    BY <1>1, <2>1, <2>2, <2>3, CreateKeeps
<1> QED
  BY <1>2, <1>3, <1>4, <1>5

-----------------------------------------------------------------------------
(* The operations of the invited user. *)

LEMMA InviteesOK ==
  ASSUME RowsInv, MaxRows \in Nat, NEW u \in Users, SignIn(u) \/ AcceptRead(u) \/ RegisterRead(u)
  PROVE  RowsInv'
<1>1. CASE SignIn(u)
  BY <1>1 DEF SignIn, RowsInv, MembersGood, RowGood, TasksGood
<1>2. CASE AcceptRead(u)
  BY <1>2, BeginKeeps DEF AcceptRead, Kinds, Creating, Points
<1>3. CASE RegisterRead(u)
  BY <1>3, BeginKeeps DEF RegisterRead, Kinds, Creating, Points
<1> QED
  BY <1>1, <1>2, <1>3

LEMMA SettledType ==
  ASSUME RowsInv, NEW u \in Users
  PROVE  Settled(u) \in [Users -> {"none", "pending", "accepted"}]
BY DEF RowsInv, Settled

LEMMA AcceptedGood ==
  ASSUME RowsInv, NEW t \in tasks, SameRow(t)
  PROVE  RowGood(Accepted(t.user), t.user, registered \cup {t.user})
BY RowOf DEF RowGood, Accepted, SameRow, Row, Member, Statuses

LEMMA AcceptOK ==
  ASSUME RowsInv, MaxRows \in Nat, NEW t \in tasks, AcceptWrite(t) \/ AcceptSettle(t)
  PROVE  RowsInv'
<1>1. CASE AcceptWrite(t) /\ SameRow(t)
  <2>1. /\ Write(t.user, Accepted(t.user)) /\ Goto(t, "settle") /\ t.kind = "accept"
        /\ UNCHANGED <<invitation, registered, rows>>
    BY <1>1 DEF AcceptWrite, At
  <2>2. t.user \in registered
    BY <1>1 DEF AcceptWrite, RowsInv, TasksGood
  <2>3. registered \cup {t.user} = registered
    BY <2>2
  <2>4. MembersGood(member', registered)
    BY <1>1, <2>1, <2>3, AcceptedGood, RowOf, WriteGood DEF RowsInv
  <2>5. TasksGood(tasks', registered) /\ Room(tasks', rows)
    BY <2>1, GoesOn DEF Points
  <2> QED
    BY <2>1, <2>4, <2>5 DEF RowsInv
<1>2. CASE AcceptWrite(t) /\ ~ SameRow(t)
  BY <1>2, WriteKeeps DEF AcceptWrite, RowsInv
<1>3. CASE AcceptSettle(t)
  BY <1>3, Ends, RowOf, SettledType DEF AcceptSettle, RowsInv
<1> QED
  BY <1>1, <1>2, <1>3

LEMMA RegisterOK ==
  ASSUME RowsInv, MaxRows \in Nat, NEW t \in tasks, RegisterCommit(t) \/ RegisterFail(t)
  PROVE  RowsInv'
<1>1. CASE RegisterCommit(t)
  <2>1. /\ SameRow(t) /\ Write(t.user, Accepted(t.user)) /\ Done(t)
        /\ invitation' = Settled(t.user) /\ registered' = registered \cup {t.user}
        /\ rows' = rows
    BY <1>1 DEF RegisterCommit
  <2>2. MembersGood(member', registered')
    BY <2>1, AcceptedGood, RowOf DEF RowsInv, MembersGood, RowGood, Write
  <2>3. TasksGood(tasks', registered') /\ Room(tasks', rows')
    BY <2>1, Ends DEF TasksGood
  <2> QED
    BY <2>1, <2>2, <2>3, RowOf, SettledType DEF RowsInv
<1>2. CASE RegisterFail(t)
  BY <1>2, Ends, CheckKeeps DEF RegisterFail
<1> QED
  BY <1>1, <1>2

LEMMA StepOK ==
  ASSUME RowsInv, MaxRows \in Nat, NEW t \in tasks, Step(t)
  PROVE  RowsInv'
<1>1. CASE Crash(t)
  BY <1>1, Ends, CheckKeeps DEF Crash
<1> QED
  BY <1>1, ChecksOK, AddWriteOK, ChangesOK, TransferWriteOK, InviteOK, AcceptOK, RegisterOK
  DEF Step

-----------------------------------------------------------------------------

LEMMA InitOK ==
  ASSUME Creator \in Users, MaxRows \in Nat \ {0}
  PROVE  Init => IndInv
<1> SUFFICES ASSUME Init
             PROVE  IndInv
  OBVIOUS
<1>1. MembersGood(member, registered)
  BY DEF Init, MembersGood, RowGood, Absent, Member, Ids, Statuses
<1>2. TasksGood(tasks, registered) /\ CreatingIn(tasks) = {}
  BY DEF Init, TasksGood, CreatingIn
<1>3. Room(tasks, rows)
  BY <1>2, FS_EmptySet DEF Init, Room
<1> QED
  BY <1>1, <1>2, <1>3 DEF Init, RowsInv, IndInv

LEMMA IndInvTypes ==
  ASSUME MaxRows \in Nat
  PROVE  IndInv => TypeOK /\ ActiveHasAccount
BY RoomBound
DEF IndInv, RowsInv, TypeOK, ActiveHasAccount, MembersGood, RowGood, Row, Active, TasksGood, Ids

LEMMA StaleOK ==
  ASSUME stale \in BOOLEAN, [Next]_vars
  PROVE  stale' \in BOOLEAN
<1>1. ASSUME NEW t, NEW ok, Writes(t, ok)
      PROVE  stale' \in BOOLEAN
  BY <1>1 DEF Writes
<1>2. ASSUME NEW t, NEW kind, NEW there, NEW ok, NEW r, Change(t, kind, there, ok, r)
      PROVE  stale' \in BOOLEAN
  BY <1>1, <1>2 DEF Change
<1>3. ASSUME NEW t, NEW kind, NEW ok, Check(t, kind, ok)
      PROVE  stale' \in BOOLEAN
  BY <1>3 DEF Check, Unchecked
<1>4. ASSUME NEW t, AddCheck(t) \/ UpdateCheck(t) \/ RemoveCheck(t) \/ TransferCheck(t)
                    \/ ResendCheck(t) \/ RevokeCheck(t)
      PROVE  stale' \in BOOLEAN
  BY <1>3, <1>4 DEF AddCheck, UpdateCheck, RemoveCheck, TransferCheck, ResendCheck, RevokeCheck
<1>5. ASSUME NEW t, UpdateWrite(t) \/ RemoveWrite(t) \/ ResendWrite(t) \/ RevokeWrite(t)
      PROVE  stale' \in BOOLEAN
  BY <1>2, <1>5 DEF UpdateWrite, RemoveWrite, ResendWrite, RevokeWrite
<1>6. ASSUME NEW t, AddWrite(t) \/ TransferWrite(t) \/ InviteWrite(t) \/ Reinvite(t)
      PROVE  stale' \in BOOLEAN
  BY <1>1, <1>6 DEF AddWrite, TransferWrite, InviteWrite, Reinvite
<1>7. ASSUME NEW t, \/ InviteCheck(t) \/ AcceptWrite(t) \/ AcceptSettle(t) \/ RegisterCommit(t)
                    \/ RegisterFail(t) \/ Crash(t)
      PROVE  stale' \in BOOLEAN
  BY <1>7 DEF InviteCheck, AcceptWrite, AcceptSettle, RegisterCommit, RegisterFail, Crash, Unchecked
<1>8. ASSUME NEW u, SignIn(u) \/ AcceptRead(u) \/ RegisterRead(u)
      PROVE  stale' \in BOOLEAN
  BY <1>8 DEF SignIn, AcceptRead, RegisterRead, Begin, Unchecked
<1>9. ASSUME NEW kind, NEW by, NEW u, Verify(kind, by, u)
      PROVE  stale' \in BOOLEAN
  BY <1>9 DEF Verify, Begin, Unchecked
<1>10. ASSUME NEW t, Step(t)
       PROVE  stale' \in BOOLEAN
  BY <1>4, <1>5, <1>6, <1>7, <1>10 DEF Step
<1> QED
  BY <1>8, <1>9, <1>10 DEF Next, vars

LEMMA NextOK ==
  ASSUME MaxRows \in Nat
  PROVE  IndInv /\ [Next]_vars => IndInv'
<1> SUFFICES ASSUME IndInv, [Next]_vars
             PROVE  IndInv'
  OBVIOUS
<1>1. RowsInv
  BY DEF IndInv
<1>2. RowsInv'
  <2>1. CASE UNCHANGED vars
    BY <1>1, <2>1 DEF vars, RowsInv
  <2> QED
    BY <1>1, <2>1, VerifyOK, InviteesOK, StepOK DEF Next
<1>3. stale' \in BOOLEAN
  BY StaleOK DEF IndInv
<1> QED
  BY <1>2, <1>3 DEF IndInv

\* The columns have their types, whatever requests overlap and wherever the server
\* stops: a row that was deleted stays deleted (tenant.service).
THEOREM TypeCorrect ==
  ASSUME Creator \in Users, MaxRows \in Nat \ {0}
  PROVE  Spec => []TypeOK
<1>1. IndInv => TypeOK
  BY IndInvTypes
<1>2. Init => IndInv
  BY InitOK
<1>3. IndInv /\ [Next]_vars => IndInv'
  BY NextOK
<1> QED
  BY <1>1, <1>2, <1>3, PTL DEF Spec

\* acceptInvitation and registerAndAcceptInvitation: nobody becomes an active member
\* without an account, whatever the owner does to the row in between.
THEOREM ActiveHasAccountCorrect ==
  ASSUME Creator \in Users, MaxRows \in Nat \ {0}
  PROVE  Spec => []ActiveHasAccount
<1>1. IndInv => ActiveHasAccount
  BY IndInvTypes
<1>2. Init => IndInv
  BY InitOK
<1>3. IndInv /\ [Next]_vars => IndInv'
  BY NextOK
<1> QED
  BY <1>1, <1>2, <1>3, PTL DEF Spec

-----------------------------------------------------------------------------
(* One owner, until a request of the owner writes what its checks would no longer allow. *)

TheOwner(m, o) ==
  /\ o \in Users /\ m[o].id # 0 /\ m[o].role = "owner"
  /\ m[o].status = "active" /\ m[o].isActive
  /\ \A v \in Users : m[v].id # 0 /\ m[v].role = "owner" => v = o

SomeOwner(m) == \E o \in Users : TheOwner(m, o)

OwnedInv == stale \/ SomeOwner(member)

\* A step that changes no row and is not a write of the owner's.
LEMMA OwnerAside ==
  ASSUME OwnedInv, UNCHANGED <<member, stale>>
  PROVE  OwnedInv'
BY DEF OwnedInv

\* A write of the owner's that its checks would still allow is the owner's.
LEMMA OwnerIsAsking ==
  ASSUME OwnedInv, NEW t, t.by \in Users, NEW ok, Writes(t, ok), ~ stale'
  PROVE  ok /\ TheOwner(member, t.by)
<1>1. ~ stale /\ IsOwner(t.by) /\ ok
  BY DEF Writes
<1>2. PICK o \in Users : TheOwner(member, o)
  BY <1>1 DEF OwnedInv, SomeOwner
<1>3. t.by = o
  BY <1>1, <1>2 DEF IsOwner, Row, TheOwner
<1> QED
  BY <1>1, <1>2, <1>3 DEF TheOwner

\* It writes the row of somebody else.
LEMMA OwnerWrites ==
  ASSUME RowsInv, OwnedInv, NEW t \in tasks, NEW ok, Writes(t, ok),
         ok => ~ IsOwner(t.user) \/ ~ Active(t.user),
         NEW r, ok => r.role = "staff", Write(t.user, r)
  PROVE  OwnedInv'
<1>1. t.user \in Users /\ t.by \in Users /\ member \in [Users -> Member]
  BY DEF RowsInv, MembersGood, TasksGood, Task
<1>2. ASSUME ~ stale'
      PROVE  SomeOwner(member')
  <2>1. ok /\ TheOwner(member, t.by)
    BY <1>1, <1>2, OwnerIsAsking
  <2>2. t.user # t.by
    BY <2>1 DEF TheOwner, IsOwner, Active, Row
  <2>3. TheOwner(member', t.by)
    BY <1>1, <2>1, <2>2 DEF TheOwner, Write
  <2> QED
    BY <1>1, <2>3 DEF SomeOwner
<1> QED
  BY <1>2 DEF OwnedInv

LEMMA OwnerChange ==
  ASSUME RowsInv, OwnedInv, NEW t \in tasks, NEW kind, NEW there, NEW ok, NEW r,
         Change(t, kind, there, ok, r),
         ok => ~ IsOwner(t.user) \/ ~ Active(t.user), ok => r.role = "staff"
  PROVE  OwnedInv'
BY OwnerWrites, OwnerAside DEF Change

LEMMA OwnerChanges ==
  ASSUME RowsInv, OwnedInv, NEW t \in tasks,
         UpdateWrite(t) \/ RemoveWrite(t) \/ ResendWrite(t) \/ RevokeWrite(t)
  PROVE  OwnedInv'
<1>1. member[t.user] \in Member
  BY DEF RowsInv, MembersGood, TasksGood, Task
<1>2. Changeable(t.user) => ~ IsOwner(t.user) /\ member[t.user].role = "staff"
  BY <1>1 DEF Changeable, IsOwner, Member
<1>3. Unaccepted(t.user) => ~ Active(t.user)
  BY DEF Unaccepted
<1>4. CASE UpdateWrite(t)
  <2>1. [member[t.user] EXCEPT !.role = "staff"].role = "staff"
    BY <1>1 DEF Member
  <2>2. \A active \in BOOLEAN : Changeable(t.user) =>
          [member[t.user] EXCEPT !.isActive = active].role = "staff"
    BY <1>1, <1>2 DEF Member
  <2> QED
    BY <1>2, <1>4, <2>1, <2>2, OwnerChange DEF UpdateWrite
<1>5. CASE RemoveWrite(t)
  <2>1. Changeable(t.user) =>
          [member[t.user] EXCEPT !.status = "removed", !.isActive = FALSE].role = "staff"
    BY <1>1, <1>2 DEF Member
  <2> QED
    BY <1>2, <1>5, <2>1, OwnerChange DEF RemoveWrite
<1>6. CASE RevokeWrite(t)
  <2>1. Absent.role = "staff"
    BY DEF Absent
  <2> QED
    BY <1>3, <1>6, <2>1, OwnerChange DEF RevokeWrite
\* Who has not accepted keeps a role, which is not the owner's.
<1>7. CASE ResendWrite(t)
  <2> DEFINE r == [member[t.user] EXCEPT !.status = "pending", !.invited = TRUE]
  <2>1. r.role = member[t.user].role
    BY <1>1 DEF Member
  <2>2. CASE ~ SameRow(t)
    BY <1>7, <2>2, OwnerAside DEF ResendWrite, Change
  <2>3. CASE SameRow(t)
    <3>1. Writes(t, Unaccepted(t.user)) /\ Write(t.user, r) /\ t.user \in Users /\ t.by \in Users
          /\ Row(t.user)
      BY <1>7, <2>3 DEF ResendWrite, Change, SameRow, RowsInv, TasksGood, Task
    <3>2. ASSUME ~ stale', Unaccepted(t.user)
          PROVE  member[t.user].role = "staff"
      <4>1. TheOwner(member, t.by)
        BY <3>1, <3>2, OwnerIsAsking
      <4> QED
        BY <1>1, <1>3, <3>1, <3>2, <4>1 DEF TheOwner, Active, Row, Member
    <3>3. CASE stale'
      BY <3>3 DEF OwnedInv
    <3>4. CASE ~ stale'
      <4> HIDE DEF r
      <4> QED
        BY <1>3, <2>1, <3>1, <3>2, <3>4, OwnerWrites
    <3> QED
      BY <3>3, <3>4
  <2> QED
    BY <2>2, <2>3
<1> QED
  BY <1>4, <1>5, <1>6, <1>7

LEMMA OwnerCreates ==
  ASSUME RowsInv, OwnedInv, NEW t \in tasks, AddWrite(t) \/ InviteWrite(t) \/ Reinvite(t)
  PROVE  OwnedInv'
<1>1. \A id : Invited(id).role = "staff"
  BY DEF Invited
<1>2. \A id, active : [Invited(id) EXCEPT !.isActive = active, !.invited = FALSE].role = "staff"
  BY DEF Invited
<1>3. CASE AddWrite(t) /\ ~ Row(t.user)
  <2>1. PICK r : r.role = "staff" /\ Write(t.user, r) /\ Writes(t, TRUE)
    BY <1>2, <1>3 DEF AddWrite
  <2> QED
    BY <1>3, <2>1, OwnerWrites DEF IsOwner
<1>4. CASE InviteWrite(t) /\ ~ Row(t.user)
  <2>1. Write(t.user, Invited(rows + 1)) /\ Writes(t, TRUE)
    BY <1>4 DEF InviteWrite
  <2> QED
    BY <1>1, <1>4, <2>1, OwnerWrites DEF IsOwner
<1>5. CASE Reinvite(t) /\ SameRow(t)
  <2>1. Write(t.user, Invited(t.id)) /\ Writes(t, member[t.user].status = "removed")
    BY <1>5 DEF Reinvite
  <2>2. member[t.user].status = "removed" => ~ Active(t.user)
    BY DEF Active
  <2> QED
    BY <1>1, <2>1, <2>2, OwnerWrites
<1>6. CASE UNCHANGED <<member, stale>>
  BY <1>6, OwnerAside
<1> QED
  BY <1>3, <1>4, <1>5, <1>6 DEF AddWrite, InviteWrite, Reinvite

LEMMA OwnerTransfers ==
  ASSUME RowsInv, OwnedInv, NEW t \in tasks, TransferWrite(t)
  PROVE  OwnedInv'
<1>1. t.user \in Users /\ t.by \in Users /\ member \in [Users -> Member]
  BY DEF RowsInv, MembersGood, TasksGood, Task
<1>2. CASE UNCHANGED <<member, stale>>
  BY <1>2, OwnerAside
<1>3. ASSUME ~ stale', Writes(t, Eligible(t.user)),
             member' = [[member EXCEPT ![t.by].role = "staff"] EXCEPT ![t.user].role = "owner"]
      PROVE  SomeOwner(member')
  <2>1. Eligible(t.user) /\ TheOwner(member, t.by)
    BY <1>1, <1>3, OwnerIsAsking
  <2>2. TheOwner(member', t.user)
    BY <1>1, <1>3, <2>1 DEF Eligible, Active, Row, TheOwner, Member
  <2> QED
    BY <1>1, <2>2 DEF SomeOwner
<1> QED
  BY <1>2, <1>3 DEF TransferWrite, OwnedInv

\* What the invited user does leaves the roles alone and only makes members active.
LEMMA OwnerAccepts ==
  ASSUME RowsInv, OwnedInv, NEW t \in tasks, SameRow(t), Write(t.user, Accepted(t.user)),
         UNCHANGED stale
  PROVE  OwnedInv'
<1>1. t.user \in Users /\ member \in [Users -> Member]
  BY DEF RowsInv, MembersGood, TasksGood, Task
<1>2. /\ Accepted(t.user).id = member[t.user].id /\ Accepted(t.user).role = member[t.user].role
      /\ Accepted(t.user).status = "active" /\ Accepted(t.user).isActive
  BY <1>1 DEF Accepted, Member
<1>3. member' = [member EXCEPT ![t.user] = Accepted(t.user)]
  BY DEF Write
<1> HIDE DEF Accepted
<1>4. \A o \in Users : TheOwner(member, o) => TheOwner(member', o)
  BY <1>1, <1>2, <1>3 DEF TheOwner
<1> QED
  BY <1>4 DEF OwnedInv, SomeOwner

LEMMA OwnerAccepting ==
  ASSUME RowsInv, OwnedInv, NEW t \in tasks,
         AcceptWrite(t) \/ AcceptSettle(t) \/ RegisterCommit(t) \/ RegisterFail(t) \/ Crash(t)
  PROVE  OwnedInv'
<1>1. CASE AcceptWrite(t) /\ SameRow(t)
  BY <1>1, OwnerAccepts DEF AcceptWrite
<1>2. CASE RegisterCommit(t)
  BY <1>2, OwnerAccepts DEF RegisterCommit
<1>3. CASE AcceptWrite(t) /\ ~ SameRow(t)
  BY <1>3, OwnerAside DEF AcceptWrite
<1>4. CASE AcceptSettle(t) \/ RegisterFail(t) \/ Crash(t)
  BY <1>4, OwnerAside DEF AcceptSettle, RegisterFail, Crash, Unchecked
<1> QED
  BY <1>1, <1>2, <1>3, <1>4

LEMMA OwnerReads ==
  ASSUME OwnedInv, NEW t,
         \/ AddCheck(t) \/ UpdateCheck(t) \/ RemoveCheck(t) \/ TransferCheck(t)
         \/ ResendCheck(t) \/ RevokeCheck(t) \/ InviteCheck(t)
  PROVE  OwnedInv'
<1>1. UNCHANGED <<member, stale>>
  BY DEF AddCheck, UpdateCheck, RemoveCheck, TransferCheck, ResendCheck, RevokeCheck,
         InviteCheck, Check, Unchecked
<1> QED
  BY <1>1, OwnerAside

LEMMA OwnerNext ==
  ASSUME RowsInv, OwnedInv, [Next]_vars
  PROVE  OwnedInv'
<1>1. CASE UNCHANGED vars
  BY <1>1, OwnerAside DEF vars
<1>2. ASSUME NEW t \in tasks, Step(t)
      PROVE  OwnedInv'
  BY <1>2, OwnerReads, OwnerChanges, OwnerCreates, OwnerTransfers, OwnerAccepting DEF Step
<1>3. ASSUME NEW kind, NEW by, NEW u, Verify(kind, by, u)
      PROVE  OwnedInv'
  BY <1>3, OwnerAside DEF Verify, Begin, Unchecked
<1>4. ASSUME NEW u, SignIn(u) \/ AcceptRead(u) \/ RegisterRead(u)
      PROVE  OwnedInv'
  BY <1>4, OwnerAside DEF SignIn, AcceptRead, RegisterRead, Begin, Unchecked
<1> QED
  BY <1>1, <1>2, <1>3, <1>4 DEF Next

LEMMA OwnedMeans == OwnedInv => OwnedUnlessStale
<1> SUFFICES ASSUME NEW o \in Users, TheOwner(member, o)
             PROVE  OneOwner /\ OwnerIsActive
  BY DEF OwnedInv, SomeOwner, OwnedUnlessStale
<1>1. {u \in Users : IsOwner(u)} = {o}
  BY DEF TheOwner, IsOwner, Row
<1>2. OneOwner
  BY <1>1, FS_Singleton DEF OneOwner
<1>3. OwnerIsActive
  BY DEF OwnerIsActive, TheOwner, IsOwner, Active, Row
<1> QED
  BY <1>2, <1>3

LEMMA OwnedInit ==
  ASSUME Creator \in Users
  PROVE  Init => OwnedInv
<1> SUFFICES ASSUME Init
             PROVE  TheOwner(member, Creator)
  BY DEF OwnedInv, SomeOwner
<1> QED
  BY DEF Init, TheOwner, Absent

\* transferOwnership, updateTenantUser, removeUserFromTenant, however many requests of the owner
\* and of the invited users overlap, and wherever the server stops: there is one owner, who is
\* active, unless a request of the owner has written what its checks would no longer allow.
THEOREM OneActiveOwner ==
  ASSUME Creator \in Users, MaxRows \in Nat \ {0}
  PROVE  Spec => []OwnedUnlessStale
<1> DEFINE Inv == IndInv /\ OwnedInv
<1>1. Init => Inv
  BY InitOK, OwnedInit
<1>2. Inv /\ [Next]_vars => Inv'
  BY NextOK, OwnerNext DEF IndInv
<1>3. Inv => OwnedUnlessStale
  BY OwnedMeans
<1> HIDE DEF Inv
<1> QED
  BY <1>1, <1>2, <1>3, PTL DEF Spec

-----------------------------------------------------------------------------
(* The invitations of the members.  Who becomes active by accepting is still to settle, and *)
(* that request ends by settling unless the server stops.                                   *)

\* Nobody becomes active, no invitation becomes pending but of who is not active, and who
\* was settling still is.
LEMMA SettledKeeps ==
  ASSUME InvitationSettled,
         \A u \in Users : Active(u)' => Active(u) /\ invitation'[u] = invitation[u],
         \A s \in tasks : At(s, "accept", "settle") => s \in tasks'
  PROVE  InvitationSettled'
BY DEF InvitationSettled, At

\* A task that is not settling ends or goes on.
LEMMA SettlingStays ==
  ASSUME NEW t \in tasks, ~ At(t, "accept", "settle"),
         Done(t) \/ \E pc \in Points : Goto(t, pc)
  PROVE  \A s \in tasks : At(s, "accept", "settle") => s \in tasks'
BY DEF Done, Goto, Others

LEMMA SettledWrite ==
  ASSUME RowsInv, InvitationSettled, NEW t \in tasks, ~ At(t, "accept", "settle"),
         Done(t) \/ (\E pc \in Points : Goto(t, pc)), UNCHANGED invitation,
         \/ UNCHANGED member
         \/ \E r : Write(t.user, r) /\ (r.id # 0 /\ r.status = "active" => Active(t.user))
  PROVE  InvitationSettled'
<1>1. t.user \in Users /\ member \in [Users -> Member]
  BY DEF RowsInv, TasksGood, MembersGood, Task
<1>2. \A u \in Users : Active(u)' => Active(u) /\ invitation'[u] = invitation[u]
  BY <1>1 DEF Write, Active, Row
<1> QED
  BY <1>2, SettlingStays, SettledKeeps

LEMMA SettledNext ==
  ASSUME "accept" \notin Crashing, RowsInv, InvitationSettled, [Next]_vars
  PROVE  InvitationSettled'
<1>types. /\ member \in [Users -> Member] /\ invitation \in [Users -> {"none", "pending", "accepted"}]
          /\ \A t \in tasks : t \in Task /\ t.user \in Users /\ t.by \in Users
  BY DEF RowsInv, TasksGood, MembersGood, Task
<1>1. ASSUME NEW kind \in OwnerKinds, NEW by \in Users, NEW u \in Users, Verify(kind, by, u)
      PROVE  InvitationSettled'
  <2>1. UNCHANGED <<member, invitation>> /\ tasks \subseteq tasks'
    BY <1>1 DEF Verify, Begin, Unchecked
  <2> QED
    BY <2>1, SettledKeeps DEF Active, Row
<1>2. ASSUME NEW u \in Users, SignIn(u) \/ AcceptRead(u) \/ RegisterRead(u)
      PROVE  InvitationSettled'
  <2>1. UNCHANGED <<member, invitation>> /\ tasks \subseteq tasks'
    BY <1>2 DEF SignIn, AcceptRead, RegisterRead, Begin, Unchecked
  <2> QED
    BY <2>1, SettledKeeps DEF Active, Row
<1>3. ASSUME NEW t \in tasks, NEW kind \in OwnerKinds, NEW ok, Check(t, kind, ok)
      PROVE  InvitationSettled'
  <2>1. ~ At(t, "accept", "settle") /\ UNCHANGED <<member, invitation>>
    BY <1>3 DEF Check, At, Unchecked
  <2>2. Done(t) \/ \E pc \in Points : Goto(t, pc)
    BY <1>3 DEF Check, Points
  <2> QED
    BY <2>1, <2>2, SettledWrite
<1>4. ASSUME NEW t \in tasks, AddCheck(t) \/ UpdateCheck(t) \/ RemoveCheck(t) \/ TransferCheck(t)
                               \/ ResendCheck(t) \/ RevokeCheck(t)
      PROVE  InvitationSettled'
  BY <1>3, <1>4 DEF AddCheck, UpdateCheck, RemoveCheck, TransferCheck, ResendCheck, RevokeCheck, OwnerKinds
<1>5. ASSUME NEW t \in tasks, NEW kind \in OwnerKinds, NEW there, NEW ok, NEW r, Change(t, kind, there, ok, r),
             there /\ r.id # 0 /\ r.status = "active" => Active(t.user)
      PROVE  InvitationSettled'
  <2>1. ~ At(t, "accept", "settle") /\ UNCHANGED invitation /\ Done(t)
    BY <1>5 DEF Change, At
  <2>2. UNCHANGED member \/ (Write(t.user, r) /\ there)
    BY <1>5 DEF Change
  <2> QED
    BY <1>5, <2>1, <2>2, SettledWrite
<1>6. ASSUME NEW t \in tasks, UpdateWrite(t) \/ RemoveWrite(t) \/ ResendWrite(t) \/ RevokeWrite(t)
      PROVE  InvitationSettled'
  <2>1. member[t.user] \in Member
    BY <1>types
  <2>2. \A active \in BOOLEAN :
          LET r == [member[t.user] EXCEPT !.isActive = active]
          IN  r.id = member[t.user].id /\ r.status = member[t.user].status
    BY <2>1 DEF Member
  <2>3. LET r == [member[t.user] EXCEPT !.role = "staff"]
        IN  r.id = member[t.user].id /\ r.status = member[t.user].status
    BY <2>1 DEF Member
  <2>4. /\ [member[t.user] EXCEPT !.status = "removed", !.isActive = FALSE].status = "removed"
        /\ [member[t.user] EXCEPT !.status = "pending", !.invited = TRUE].status = "pending"
        /\ Absent.id = 0
    BY <2>1 DEF Member, Absent
  <2>5. CASE UpdateWrite(t)
    BY <1>5, <2>2, <2>3, <2>5 DEF UpdateWrite, OwnerKinds, Active, Row
  <2>6. CASE RemoveWrite(t)
    BY <1>5, <2>4, <2>6 DEF RemoveWrite, OwnerKinds
  <2>7. CASE ResendWrite(t)
    BY <1>5, <2>4, <2>7 DEF ResendWrite, OwnerKinds
  <2>8. CASE RevokeWrite(t)
    BY <1>5, <2>4, <2>8 DEF RevokeWrite, OwnerKinds
  <2> QED
    BY <1>6, <2>5, <2>6, <2>7, <2>8
<1>7. ASSUME NEW t \in tasks, TransferWrite(t)
      PROVE  InvitationSettled'
  <2>1. ~ At(t, "accept", "settle") /\ UNCHANGED invitation /\ Done(t)
    BY <1>7 DEF TransferWrite, At
  <2>2. \A u \in Users : member'[u].id = member[u].id /\ member'[u].status = member[u].status
    BY <1>7, <1>types DEF TransferWrite, Member
  <2>3. \A u \in Users : Active(u)' => Active(u) /\ invitation'[u] = invitation[u]
    BY <2>1, <2>2 DEF Active, Row
  <2> QED
    BY <2>1, <2>3, SettlingStays, SettledKeeps
<1>8. ASSUME NEW t \in tasks, AddWrite(t) \/ Reinvite(t) \/ InviteCheck(t)
      PROVE  InvitationSettled'
  <2>1. ~ At(t, "accept", "settle") /\ UNCHANGED invitation
    BY <1>8 DEF AddWrite, Reinvite, InviteCheck, At, Unchecked
  <2>2. Done(t) \/ \E pc \in Points : Goto(t, pc)
    BY <1>8 DEF AddWrite, Reinvite, InviteCheck, Points
  <2>3. \A id : Invited(id).status = "pending"
    BY DEF Invited
  <2>4. \A id : \A active \in BOOLEAN :
          [Invited(id) EXCEPT !.isActive = active, !.invited = FALSE].status = "pending"
    BY DEF Invited
  <2>5. UNCHANGED member \/ \E r : Write(t.user, r) /\ r.status = "pending"
    BY <1>8, <2>3, <2>4 DEF AddWrite, Reinvite, InviteCheck, Unchecked
  <2> QED
    BY <2>1, <2>2, <2>5, SettledWrite
<1>9. ASSUME NEW t \in tasks, InviteWrite(t)
      PROVE  InvitationSettled'
  <2>1. ~ At(t, "accept", "settle") /\ Done(t)
    BY <1>9 DEF InviteWrite, At
  <2>2. CASE Row(t.user)
    BY <1>9, <2>1, <2>2, SettledWrite DEF InviteWrite
  <2>3. CASE ~ Row(t.user)
    <3>1. /\ member' = [member EXCEPT ![t.user] = Invited(rows + 1)]
          /\ invitation' = [invitation EXCEPT ![t.user] = "pending"]
      BY <1>9, <2>3 DEF InviteWrite, Write
    <3>2. Invited(rows + 1).status = "pending"
      BY DEF Invited
    <3>3. \A u \in Users : Active(u)' => Active(u) /\ invitation'[u] = invitation[u]
      BY <1>types, <3>1, <3>2 DEF Active, Row
    <3> QED
      BY <2>1, <3>3, SettlingStays, SettledKeeps
  <2> QED
    BY <2>2, <2>3
<1>10. ASSUME NEW t \in tasks, AcceptWrite(t)
       PROVE  InvitationSettled'
  <2>1. ~ At(t, "accept", "settle") /\ UNCHANGED invitation
    BY <1>10 DEF AcceptWrite, At
  <2>2. CASE ~ SameRow(t)
    BY <1>10, <2>1, <2>2, SettledWrite DEF AcceptWrite
  <2>3. CASE SameRow(t)
    <3> DEFINE new == [t EXCEPT !.pc = "settle", !.id = member[t.user].id]
    <3>1. At(new, "accept", "settle") /\ new.user = t.user
      BY <1>10, <1>types DEF AcceptWrite, At, Task
    <3>2. tasks' = Others(t) \cup {new} /\ Write(t.user, Accepted(t.user))
      BY <1>10, <2>3 DEF AcceptWrite, Goto
    <3> HIDE DEF new
    <3>3. \A s \in tasks : At(s, "accept", "settle") => s \in tasks'
      BY <2>1, <3>2 DEF Others
    <3>4. \A u \in Users : u # t.user => (Active(u)' <=> Active(u))
      BY <1>types, <3>2 DEF Write, Active, Row
    <3>5. new \in tasks'
      BY <3>2
    <3> QED
      BY <2>1, <3>1, <3>3, <3>4, <3>5 DEF InvitationSettled, At
  <2> QED
    BY <2>2, <2>3
<1>11. ASSUME NEW t \in tasks, AcceptSettle(t) \/ RegisterCommit(t)
       PROVE  InvitationSettled'
  <2>1. invitation' = Settled(t.user) /\ tasks' = tasks \ {t}
    BY <1>11 DEF AcceptSettle, RegisterCommit, Done, Others
  <2>2. invitation'[t.user] # "pending"
    BY <1>types, <2>1 DEF Settled
  <2>3. \A u \in Users : u # t.user => invitation'[u] = invitation[u]
    BY <1>types, <2>1 DEF Settled
  <2>4. \A u \in Users : u # t.user => (Active(u)' <=> Active(u))
    BY <1>11, <1>types DEF AcceptSettle, RegisterCommit, Write, Active, Row
  <2>5. \A s \in tasks : s.user # t.user => s \in tasks'
    BY <2>1
  <2> QED
    BY <2>2, <2>3, <2>4, <2>5 DEF InvitationSettled, At
<1>12. ASSUME NEW t \in tasks, RegisterFail(t) \/ Crash(t)
       PROVE  InvitationSettled'
  <2>1. ~ At(t, "accept", "settle") /\ UNCHANGED <<member, invitation>> /\ Done(t)
    BY <1>12 DEF RegisterFail, Crash, At, Unchecked
  <2> QED
    BY <2>1, SettledWrite
<1>13. ASSUME UNCHANGED vars
       PROVE  InvitationSettled'
  BY <1>13 DEF vars, InvitationSettled, Active, Row, At
<1>14. ASSUME NEW t \in tasks, Step(t)
       PROVE  InvitationSettled'
  BY <1>4, <1>6, <1>7, <1>8, <1>9, <1>10, <1>11, <1>12, <1>14 DEF Step
<1> QED
  BY <1>1, <1>2, <1>13, <1>14 DEF Next

LEMMA SettledInit == Init => InvitationSettled
BY DEF Init, InvitationSettled, Active, Row, Absent

\* acceptInvitation activates the member in one write and closes the invitation in the next: an
\* active member whose invitation is pending is still accepting it, as long as the server does
\* not stop in between.
THEOREM InvitationSettledCorrect ==
  ASSUME Creator \in Users, MaxRows \in Nat \ {0}, "accept" \notin Crashing
  PROVE  Spec => []InvitationSettled
<1> DEFINE Inv == IndInv /\ InvitationSettled
<1>1. Init => Inv
  BY InitOK, SettledInit
<1>2. Inv /\ [Next]_vars => Inv'
  BY NextOK, SettledNext DEF IndInv
<1>3. Inv => InvitationSettled
  OBVIOUS
<1> HIDE DEF Inv
<1> QED
  BY <1>1, <1>2, <1>3, PTL DEF Spec
=============================================================================
