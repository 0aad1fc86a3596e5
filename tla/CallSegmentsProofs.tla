-------------------------- MODULE CallSegmentsProofs --------------------------
(***************************************************************************)
(* However many transfers a call goes through, and whatever requests fail  *)
(* or webhooks overtake: the rows have their types, and the segments form  *)
(* a chain.  Under conditions on what Twilio does, the caller is in the    *)
(* newest segment between transfers, and no handler of a segment that he   *)
(* has left ends his call.                                                 *)
(***************************************************************************)
EXTENDS CallSegments, WellFoundedInduction, TLAPS

\* A handler names a segment that has its row.  One that transfers has a segment to
\* go to, which has its row once it is created, and has left the old one for good.
TaskOK(t, r) ==
  /\ r[t.seg].status # "none"
  /\ t.kind = "transfer" /\ t.pc \notin {"read", "check"} => t.seg < MaxSeg
  /\ t.kind = "transfer" /\ t.pc = "create" => r[t.seg].transferred
  /\ t.kind = "transfer" /\ t.pc \in {"redirect", "dial", "store"} => r[t.seg + 1].status # "none"

GoodTasks(S, r) == \A t \in S : t \in Task /\ TaskOK(t, r)

IndInv ==
  /\ TypeOK
  /\ SegmentChain
  /\ Exists(0)
  /\ GoodTasks(tasks, row)

-----------------------------------------------------------------------------
(* The active segment of a call that has a row is one of its rows. *)

\* Of finitely many numbers one is the greatest: the distance to the bound is least.
LEMMA GreatestSegment ==
  ASSUME MaxSeg \in Nat, NEW S, S \subseteq Segs, S # {}
  PROVE  \E k \in S : \A j \in S : j <= k
<1> DEFINE D == {MaxSeg - k : k \in S}
<1>1. \A k \in S : k \in Nat /\ k <= MaxSeg /\ MaxSeg - k \in Nat
  BY DEF Segs
<1>2. D \subseteq Nat /\ D # {}
  BY <1>1
<1>3. PICK d \in D : \A e \in D : ~ (<<e, d>> \in OpToRel(<, Nat))
  <2> HIDE DEF D
  <2> QED
    BY <1>2, NatLessThanWellFounded, WFMin
<1>4. \A e \in D : ~ (e < d)
  <2>1. \A e \in D : e < d => <<e, d>> \in OpToRel(<, Nat)
    BY <1>2 DEF OpToRel
  <2> QED
    BY <1>3, <2>1
<1>5. PICK k \in S : d = MaxSeg - k
  OBVIOUS
<1>6. \A j \in S : j <= k
  <2> TAKE j \in S
  <2>1. MaxSeg - j \in D
    OBVIOUS
  <2>2. ~ (MaxSeg - j < MaxSeg - k)
    BY <1>4, <1>5, <2>1
  <2> QED
    BY <1>1, <2>2
<1> QED
  BY <1>6

LEMMA NewestIn ==
  ASSUME MaxSeg \in Nat, NEW S, S \subseteq Segs, S # {}
  PROVE  Newest(S) \in S
BY GreatestSegment DEF Newest

LEMMA LatestExists ==
  ASSUME IndInv
  PROVE  Latest \in Segs /\ Exists(Latest)
<1> DEFINE theRows == {k \in Segs : Exists(k)}
           theOpen == {k \in theRows : row[k].status # "transferred"}
<1>1. MaxSeg \in Nat /\ 0 \in theRows
  BY BoundsAssumption DEF IndInv, Segs
<1>2. Newest(theRows) \in theRows
  BY <1>1, NewestIn
<1>3. theOpen # {} => Newest(theOpen) \in theOpen
  BY <1>1, NewestIn
<1>4. Latest = IF theOpen # {} THEN Newest(theOpen) ELSE Newest(theRows)
  BY DEF Latest
<1> QED
  BY <1>2, <1>3, <1>4

-----------------------------------------------------------------------------
(* What a step leaves behind. *)

\* No row goes, and no segment that was left is taken up again.
RowsKept(r) ==
  \A k \in Segs :
    /\ row[k].status # "none" => r[k].status # "none"
    /\ row[k].transferred => r[k].transferred

LEMMA TasksKept ==
  ASSUME TypeOK, NEW S, GoodTasks(S, row), NEW r, RowsKept(r)
  PROVE  GoodTasks(S, r)
<1> SUFFICES ASSUME NEW t \in S
             PROVE  t \in Task /\ TaskOK(t, r)
  BY DEF GoodTasks
<1>1. t \in Task /\ TaskOK(t, row)
  BY DEF GoodTasks
<1>2. t.seg \in Segs /\ MaxSeg \in Nat
  BY <1>1, BoundsAssumption DEF Task
<1>3. t.seg < MaxSeg => t.seg + 1 \in Segs
  BY <1>2 DEF Segs
<1> QED
  BY <1>1, <1>2, <1>3 DEF TaskOK, RowsKept

\* A step that writes no row.
LEMMA NoRowWritten ==
  ASSUME IndInv, UNCHANGED <<row, requests>>, sid' \in [Segs -> BOOLEAN],
         caller' \in Caller, caller'.at = "conference" => Exists(caller'.seg),
         leg' \in [Segs -> LegStates],
         \A k \in Segs : leg'[k] \in {"ringing", "joined"} => Exists(k),
         GoodTasks(tasks', row)
  PROVE  IndInv'
<1>1. TypeOK'
  BY DEF IndInv, TypeOK, GoodTasks
<1>2. SegmentChain'
  BY DEF IndInv, SegmentChain, Exists, Live
<1> QED
  BY <1>1, <1>2 DEF IndInv, Exists, GoodTasks

\* A step that writes a row of the call and moves nobody.
LEMMA RowWritten ==
  ASSUME IndInv, UNCHANGED <<caller, leg, requests>>, sid' \in [Segs -> BOOLEAN],
         row' \in [Segs -> Row], RowsKept(row'),
         \A k \in 1 .. MaxSeg : Exists(k)' /\ ~ Exists(k) => Exists(k - 1) /\ row[k - 1].transferred,
         GoodTasks(tasks', row')
  PROVE  IndInv'
<1>1. TypeOK'
  BY DEF IndInv, TypeOK, GoodTasks
<1>2. \A k \in 1 .. MaxSeg : k \in Segs /\ k - 1 \in Segs
  BY BoundsAssumption DEF Segs
<1>3. 0 \in Segs /\ (caller.at = "conference" => caller.seg \in Segs)
  BY BoundsAssumption DEF Segs, IndInv, TypeOK, Caller
<1>4. SegmentChain'
  <2>1. \A k \in 1 .. MaxSeg : Exists(k)' => Exists(k - 1)' /\ row'[k - 1].transferred
    BY <1>2 DEF IndInv, SegmentChain, Exists, RowsKept
  <2> QED
    BY <1>3, <2>1 DEF IndInv, SegmentChain, Exists, Live, RowsKept
<1> QED
  BY <1>1, <1>3, <1>4 DEF IndInv, Exists, GoodTasks, RowsKept

\* The handlers that are left when t is done, or goes on within the same segment.
LEMMA OthersGood ==
  ASSUME IndInv, NEW t
  PROVE  GoodTasks(Others(t), row)
BY DEF IndInv, GoodTasks, Others

-----------------------------------------------------------------------------
(* Twilio's side. *)

LEMMA EventGood ==
  ASSUME IndInv, NEW kind \in TaskKinds \ {"transfer"}, NEW k \in Segs, Exists(k)
  PROVE  Event(kind, k) \in Task /\ TaskOK(Event(kind, k), row)
BY BoundsAssumption DEF Event, Task, TaskOK, TaskKinds, Points, Exists

LEMMA LeaveEventsGood ==
  ASSUME IndInv
  PROVE  GoodTasks(LeaveEvents, row)
<1>1. CASE caller.at = "conference"
  <2>1. caller.seg \in Segs /\ Exists(caller.seg)
    BY <1>1 DEF IndInv, TypeOK, Caller, SegmentChain
  <2>2. \A e \in LeaveEvents : e = Event("callerLeave", caller.seg) \/ e = Event("agentLeave", caller.seg)
    BY DEF LeaveEvents
  <2>3. /\ Event("callerLeave", caller.seg) \in Task
        /\ TaskOK(Event("callerLeave", caller.seg), row)
    BY <2>1, EventGood DEF TaskKinds
  <2>4. /\ Event("agentLeave", caller.seg) \in Task
        /\ TaskOK(Event("agentLeave", caller.seg), row)
    BY <2>1, EventGood DEF TaskKinds
  <2> QED
    BY <2>2, <2>3, <2>4 DEF GoodTasks
<1> QED
  BY <1>1 DEF LeaveEvents, GoodTasks

\* Nobody is in a call who was not.
LEMMA EmptiedLegsOK ==
  ASSUME IndInv
  PROVE  /\ EmptiedLegs \in [Segs -> LegStates]
         /\ \A k \in Segs : EmptiedLegs[k] \in {"ringing", "joined"} => Exists(k)
BY DEF IndInv, TypeOK, EmptiedLegs, LegStates, SegmentChain, Live

\* What the end of the caller's leg, of an agent's, or the attempt to end it leaves.
Quiet ==
  /\ caller' \in Caller /\ (caller'.at = "conference" => Exists(caller'.seg))
  /\ leg' \in [Segs -> LegStates]
  /\ \A k \in Segs : leg'[k] \in {"ringing", "joined"} => Exists(k)
  /\ GoodTasks(tasks', row)

LEMMA CallerEndsOK ==
  ASSUME IndInv, NEW rest, GoodTasks(rest, row), CallerEnds(rest)
  PROVE  Quiet
<1>1. caller' \in Caller /\ caller'.at = "ended"
  BY DEF CallerEnds, IndInv, TypeOK, Caller
<1>2. leg' = EmptiedLegs
  BY DEF CallerEnds
<1>3. Event("voiceStatus", 0) \in Task /\ TaskOK(Event("voiceStatus", 0), row)
  BY EventGood, BoundsAssumption DEF IndInv, TaskKinds, Segs
<1>4. GoodTasks(tasks', row)
  BY <1>3, LeaveEventsGood DEF CallerEnds, GoodTasks
<1> QED
  BY <1>1, <1>2, <1>4, EmptiedLegsOK DEF Quiet

LEMMA NobodyMoves ==
  ASSUME IndInv, GoodTasks(tasks', row), UNCHANGED <<caller, leg>>
  PROVE  Quiet
BY DEF IndInv, TypeOK, SegmentChain, Live, Quiet

LEMMA TerminateCallerOK ==
  ASSUME IndInv, NEW rest, GoodTasks(rest, row), TerminateCaller(rest)
  PROVE  Quiet
BY CallerEndsOK, NobodyMoves DEF TerminateCaller

LEMMA LegEndsOK ==
  ASSUME IndInv, NEW k \in Segs, NEW rest, GoodTasks(rest, row), LegEnds(k, rest)
  PROVE  Quiet
<1>1. Exists(k) /\ caller \in Caller /\ leg \in [Segs -> LegStates]
  BY DEF LegEnds, IndInv, SegmentChain, Live, TypeOK
<1>2. \A j \in Segs : leg[j] \in {"ringing", "joined"} => Exists(j)
  BY DEF IndInv, SegmentChain, Live
<1>3. caller.at = "conference" => Exists(caller.seg)
  BY DEF IndInv, SegmentChain
<1>4. CASE leg[k] = "ringing"
  <2>1. Event("agentStatus", k) \in Task /\ TaskOK(Event("agentStatus", k), row)
    BY <1>1, EventGood DEF TaskKinds
  <2>2. /\ leg' = [leg EXCEPT ![k] = "missed"] /\ caller' = caller
        /\ tasks' = rest \cup {Event("agentStatus", k)}
    BY <1>4 DEF LegEnds
  <2> QED
    BY <1>1, <1>2, <1>3, <2>1, <2>2 DEF Quiet, GoodTasks, LegStates
<1>5. CASE leg[k] = "joined" /\ (caller.at # "conference" \/ caller.seg # k)
  <2>1. Event("agentLeave", k) \in Task /\ TaskOK(Event("agentLeave", k), row)
    BY <1>1, EventGood DEF TaskKinds
  <2>2. /\ leg' = [leg EXCEPT ![k] = "done"] /\ caller' = caller
        /\ tasks' = rest \cup {Event("agentLeave", k)}
    BY <1>5 DEF LegEnds
  <2> QED
    BY <1>1, <1>2, <1>3, <2>1, <2>2 DEF Quiet, GoodTasks, LegStates
<1>6. CASE leg[k] = "joined" /\ caller.at = "conference" /\ caller.seg = k /\ k > 0
  BY <1>6, CallerEndsOK DEF LegEnds
<1>7. CASE leg[k] = "joined" /\ caller.at = "conference" /\ caller.seg = k /\ ~ (k > 0)
  <2>1. Event("flowAction", 0) \in Task /\ TaskOK(Event("flowAction", 0), row)
    BY EventGood, BoundsAssumption DEF IndInv, TaskKinds, Segs
  <2>2. /\ leg' = EmptiedLegs /\ caller' = [caller EXCEPT !.at = "fetch"]
        /\ tasks' = rest \cup LeaveEvents \cup {Event("flowAction", 0)}
    BY <1>7 DEF LegEnds
  <2>3. caller' \in Caller /\ caller'.at = "fetch"
    BY <1>1, <2>2 DEF Caller
  <2>4. GoodTasks(tasks', row)
    BY <2>1, <2>2, LeaveEventsGood DEF GoodTasks
  <2> QED
    BY <2>2, <2>3, <2>4, EmptiedLegsOK DEF Quiet
<1> QED
  BY <1>4, <1>5, <1>6, <1>7 DEF LegEnds

LEMMA QuietKeeps ==
  ASSUME IndInv, Quiet, UNCHANGED <<row, requests>>, sid' \in [Segs -> BOOLEAN]
  PROVE  IndInv'
BY NoRowWritten DEF Quiet

-----------------------------------------------------------------------------
(* transferCall. *)

LEMMA HandlerKnown ==
  ASSUME IndInv, NEW t \in tasks
  PROVE  /\ t \in Task /\ TaskOK(t, row) /\ t.seg \in Segs /\ Exists(t.seg)
         /\ GoodTasks(Others(t), row)
BY OthersGood DEF IndInv, GoodTasks, Task, TaskOK, Exists

\* A handler that has read something goes on, or is done; nothing is written.
LEMMA OnlyHandler ==
  ASSUME IndInv, NEW t \in tasks, UNCHANGED <<row, sid, caller, leg, requests>>,
         \/ Done(t)
         \/ \E pc \in Points : Goto(t, pc) /\ TaskOK([t EXCEPT !.pc = pc], row)
  PROVE  IndInv'
<1>1. GoodTasks(tasks', row)
  <2>1. CASE Done(t)
    BY <2>1, HandlerKnown DEF Done
  <2>2. CASE \E pc \in Points : Goto(t, pc) /\ TaskOK([t EXCEPT !.pc = pc], row)
    <3>1. PICK pc \in Points : Goto(t, pc) /\ TaskOK([t EXCEPT !.pc = pc], row)
      BY <2>2
    <3>2. [t EXCEPT !.pc = pc] \in Task
      BY HandlerKnown DEF Task
    <3> QED
      BY <3>1, <3>2, HandlerKnown DEF Goto, GoodTasks
  <2> QED
    BY <2>1, <2>2
<1>2. Quiet /\ sid' \in [Segs -> BOOLEAN]
  BY <1>1, NobodyMoves DEF IndInv, TypeOK
<1> QED
  BY <1>2, QuietKeeps

LEMMA TransferRequestOK ==
  ASSUME IndInv, TransferRequest
  PROVE  IndInv'
<1> DEFINE new == [kind |-> "transfer", pc |-> "read", seg |-> 0, id |-> requests + 1]
<1>1. requests' = requests + 1 /\ requests' \in 0 .. MaxRequests
  BY BoundsAssumption DEF TransferRequest, IndInv, TypeOK
<1>2. new \in Task /\ TaskOK(new, row)
  BY <1>1, BoundsAssumption DEF Task, TaskOK, TaskKinds, Points, Segs, IndInv, Exists
<1>3. tasks' = tasks \cup {new} /\ UNCHANGED <<row, sid, caller, leg>>
  BY DEF TransferRequest
<1> HIDE DEF new
<1>4. GoodTasks(tasks', row)
  BY <1>2, <1>3 DEF IndInv, GoodTasks
<1>5. TypeOK'
  BY <1>1, <1>3, <1>4 DEF IndInv, TypeOK, GoodTasks
<1>6. SegmentChain' /\ Exists(0)'
  BY <1>3 DEF IndInv, SegmentChain, Exists, Live
<1> QED
  BY <1>3, <1>4, <1>5, <1>6 DEF IndInv, GoodTasks

LEMMA TransferReadOK ==
  ASSUME IndInv, NEW t \in tasks, TransferRead(t)
  PROVE  IndInv'
<1> DEFINE new == [t EXCEPT !.pc = "check", !.seg = Latest]
<1>1. new \in Task /\ TaskOK(new, row)
  BY HandlerKnown, LatestExists DEF TransferRead, Task, Points, TaskOK, Exists
<1>2. tasks' = Others(t) \cup {new} /\ UNCHANGED <<row, sid, caller, leg, requests>>
  BY DEF TransferRead
<1> HIDE DEF new
<1>3. GoodTasks(tasks', row)
  BY <1>1, <1>2, HandlerKnown DEF GoodTasks
<1> QED
  BY <1>2, <1>3, NobodyMoves, QuietKeeps DEF IndInv, TypeOK

LEMMA TransferCheckOK ==
  ASSUME IndInv, NEW t \in tasks, TransferCheck(t)
  PROVE  IndInv'
<1>1. t.seg # MaxSeg => t.seg < MaxSeg
  BY HandlerKnown, BoundsAssumption DEF Segs
<1>2. t.seg # MaxSeg => TaskOK([t EXCEPT !.pc = "update"], row)
  BY <1>1, HandlerKnown DEF TransferCheck, TaskOK, Task
<1>3. Done(t) \/ (Goto(t, "update") /\ t.seg # MaxSeg)
  BY DEF TransferCheck
<1>4. UNCHANGED <<row, sid, caller, leg, requests>> /\ "update" \in Points
  BY DEF TransferCheck, Points
<1> QED
  BY <1>2, <1>3, <1>4, OnlyHandler

LEMMA TransferUpdateOK ==
  ASSUME IndInv, NEW t \in tasks, TransferUpdate(t)
  PROVE  IndInv'
<1> DEFINE new == [t EXCEPT !.pc = "create"]
<1>1. /\ row' = [row EXCEPT ![t.seg] = [status |-> "transferred", transferred |-> TRUE]]
      /\ tasks' = Others(t) \cup {new} /\ UNCHANGED <<sid, caller, leg, requests>>
      /\ t.kind = "transfer" /\ t.pc = "update"
  BY DEF TransferUpdate, Goto
<1>2. row' \in [Segs -> Row] /\ RowsKept(row')
  BY <1>1, HandlerKnown DEF IndInv, TypeOK, Row, Statuses, RowsKept
<1>3. new \in Task /\ TaskOK(new, row')
  BY <1>1, HandlerKnown DEF Task, Points, TaskOK, IndInv, TypeOK
<1> HIDE DEF new
<1>4. GoodTasks(tasks', row')
  <2>1. GoodTasks(Others(t), row')
    BY <1>2, HandlerKnown, TasksKept DEF IndInv
  <2> QED
    BY <1>1, <1>3, <2>1 DEF GoodTasks
<1>5. \A k \in 1 .. MaxSeg : ~ (Exists(k)' /\ ~ Exists(k))
  BY <1>1, HandlerKnown DEF IndInv, TypeOK, Exists, Segs
<1> QED
  BY <1>1, <1>2, <1>4, <1>5, RowWritten DEF IndInv, TypeOK

LEMMA TransferCreateOK ==
  ASSUME IndInv, NEW t \in tasks, TransferCreate(t)
  PROVE  IndInv'
<1>1. t.kind = "transfer" /\ t.pc = "create" /\ UNCHANGED <<sid, caller, leg, requests>>
  BY DEF TransferCreate
<1>2. t.seg \in Nat /\ t.seg + 1 \in Segs /\ row[t.seg].transferred /\ Exists(t.seg)
  BY <1>1, HandlerKnown, BoundsAssumption DEF TaskOK, Segs
<1>3. CASE Exists(t.seg + 1)
  BY <1>1, <1>3, OnlyHandler DEF TransferCreate
<1>4. CASE ~ Exists(t.seg + 1)
  <2> DEFINE new == [t EXCEPT !.pc = "redirect"]
  <2>1. /\ row' = [row EXCEPT ![t.seg + 1].status = "ringing"]
        /\ tasks' = Others(t) \cup {new}
    BY <1>4 DEF TransferCreate, Goto
  <2>2. row' \in [Segs -> Row] /\ RowsKept(row')
    BY <1>2, <2>1 DEF IndInv, TypeOK, Row, Statuses, RowsKept
  <2>3. new \in Task /\ TaskOK(new, row')
    BY <1>1, <1>2, <2>1, HandlerKnown DEF Task, Points, TaskOK, IndInv, TypeOK
  <2> HIDE DEF new
  <2>4. GoodTasks(tasks', row')
    <3>1. GoodTasks(Others(t), row')
      BY <2>2, HandlerKnown, TasksKept DEF IndInv
    <3> QED
      BY <2>1, <2>3, <3>1 DEF GoodTasks
  <2>5. \A k \in 1 .. MaxSeg : Exists(k)' /\ ~ Exists(k) => k = t.seg + 1
    BY <1>2, <2>1 DEF IndInv, TypeOK, Exists, Segs
  <2>6. \A k \in 1 .. MaxSeg : Exists(k)' /\ ~ Exists(k) => Exists(k - 1) /\ row[k - 1].transferred
    <3>1. t.seg + 1 - 1 = t.seg
      BY <1>2
    <3> QED
      BY <1>2, <2>5, <3>1
  <2> QED
    BY <1>1, <2>2, <2>4, <2>6, RowWritten DEF IndInv, TypeOK
<1> QED
  BY <1>3, <1>4

LEMMA TransferRedirectOK ==
  ASSUME IndInv, NEW t \in tasks, TransferRedirect(t)
  PROVE  IndInv'
<1>1. t.kind = "transfer" /\ t.pc = "redirect" /\ UNCHANGED <<row, sid, requests>>
  BY DEF TransferRedirect
<1>2. t.seg + 1 \in Segs /\ Exists(t.seg + 1)
  BY <1>1, HandlerKnown, BoundsAssumption DEF TaskOK, Segs, Exists
<1>3. CASE Done(t) /\ UNCHANGED <<caller, leg>>
  BY <1>1, <1>3, OnlyHandler
<1>4. CASE /\ caller' = [at |-> "conference", seg |-> t.seg + 1] /\ leg' = EmptiedLegs
           /\ tasks' = Others(t) \cup {[t EXCEPT !.pc = "dial"]} \cup LeaveEvents
  <2> DEFINE new == [t EXCEPT !.pc = "dial"]
  <2>1. caller' \in Caller /\ caller'.seg = t.seg + 1
    BY <1>2, <1>4 DEF Caller
  <2>2. new \in Task /\ TaskOK(new, row)
    BY <1>1, HandlerKnown DEF Task, Points, TaskOK
  <2> HIDE DEF new
  <2>3. GoodTasks(tasks', row)
    BY <1>4, <2>2, HandlerKnown, LeaveEventsGood DEF GoodTasks, new
  <2> QED
    BY <1>1, <1>2, <1>4, <2>1, <2>3, EmptiedLegsOK, NoRowWritten DEF IndInv, TypeOK
<1> QED
  BY <1>3, <1>4 DEF TransferRedirect

LEMMA TransferDialOK ==
  ASSUME IndInv, NEW t \in tasks, TransferDial(t)
  PROVE  IndInv'
<1>1. t.kind = "transfer" /\ t.pc = "dial" /\ UNCHANGED <<sid, caller, requests>>
  BY DEF TransferDial
<1>2. t.seg + 1 \in Segs /\ Exists(t.seg + 1)
  BY <1>1, HandlerKnown, BoundsAssumption DEF TaskOK, Segs, Exists
<1>3. CASE leg' = [leg EXCEPT ![t.seg + 1] = "ringing"] /\ Goto(t, "store") /\ UNCHANGED row
  <2> DEFINE new == [t EXCEPT !.pc = "store"]
  <2>1. new \in Task /\ TaskOK(new, row)
    BY <1>1, HandlerKnown DEF Task, Points, TaskOK
  <2>2. tasks' = Others(t) \cup {new}
    BY <1>3 DEF Goto
  <2> HIDE DEF new
  <2>3. GoodTasks(tasks', row)
    BY <2>1, <2>2, HandlerKnown DEF GoodTasks
  <2>4. leg' \in [Segs -> LegStates]
    BY <1>3 DEF IndInv, TypeOK, LegStates
  <2>5. \A k \in Segs : leg'[k] \in {"ringing", "joined"} => Exists(k)
    BY <1>2, <1>3 DEF IndInv, TypeOK, SegmentChain, Live
  <2> QED
    BY <1>1, <1>3, <2>3, <2>4, <2>5, NoRowWritten DEF IndInv, TypeOK, SegmentChain
<1>4. CASE row' = [row EXCEPT ![t.seg + 1].status = "failed"] /\ Done(t) /\ UNCHANGED leg
  <2>1. row' \in [Segs -> Row] /\ RowsKept(row')
    BY <1>2, <1>4 DEF IndInv, TypeOK, Row, Statuses, RowsKept
  <2>2. GoodTasks(tasks', row')
    BY <1>4, <2>1, HandlerKnown, TasksKept DEF IndInv, Done
  <2>3. \A k \in 1 .. MaxSeg : ~ (Exists(k)' /\ ~ Exists(k))
    BY <1>2, <1>4 DEF IndInv, TypeOK, Exists, Segs
  <2> QED
    BY <1>1, <1>4, <2>1, <2>2, <2>3, RowWritten DEF IndInv, TypeOK
<1> QED
  BY <1>3, <1>4 DEF TransferDial

LEMMA TransferStoreOK ==
  ASSUME IndInv, NEW t \in tasks, TransferStore(t)
  PROVE  IndInv'
<1>1. sid' \in [Segs -> BOOLEAN] /\ UNCHANGED <<row, caller, leg, requests>>
  BY DEF TransferStore, IndInv, TypeOK
<1>2. GoodTasks(tasks', row)
  BY HandlerKnown DEF TransferStore, Done
<1> QED
  BY <1>1, <1>2, NobodyMoves, QuietKeeps

-----------------------------------------------------------------------------
(* The webhooks. *)

\* A handler that writes a status into its own row, and is done.
LEMMA StatusWritten ==
  ASSUME IndInv, NEW t \in tasks, NEW s \in Statuses \ {"none"},
         row' = [row EXCEPT ![t.seg].status = s], Done(t),
         UNCHANGED <<sid, caller, leg, requests>>
  PROVE  IndInv'
<1>1. row' \in [Segs -> Row] /\ RowsKept(row')
  BY HandlerKnown DEF IndInv, TypeOK, Row, RowsKept
<1>2. GoodTasks(tasks', row')
  BY <1>1, HandlerKnown, TasksKept DEF IndInv, Done
<1>3. \A k \in 1 .. MaxSeg : ~ (Exists(k)' /\ ~ Exists(k))
  BY HandlerKnown DEF IndInv, TypeOK, Exists, Segs
<1> QED
  BY <1>1, <1>2, <1>3, RowWritten DEF IndInv, TypeOK

\* A handler that goes on to another point is a good one, unless it transfers.
LEMMA WebhookGoesOn ==
  ASSUME IndInv, NEW t \in tasks, t.kind # "transfer", NEW pc \in Points
  PROVE  [t EXCEPT !.pc = pc] \in Task /\ TaskOK([t EXCEPT !.pc = pc], row)
BY HandlerKnown DEF Task, TaskOK

LEMMA AgentStepOK ==
  ASSUME IndInv, NEW t \in tasks, AgentStep(t)
  PROVE  IndInv'
<1>1. t.kind # "transfer"
  BY DEF AgentStep, JoinRead, JoinWrite, LeaveRead, LeaveTerminate,
         StatusRemove, StatusCheck, StatusTerminate, StatusWrite
<1>2. \A pc \in Points : TaskOK([t EXCEPT !.pc = pc], row)
  BY <1>1, WebhookGoesOn
<1>3. {"write", "terminate", "check"} \subseteq Points
  BY DEF Points
<1>4. CASE JoinRead(t) \/ LeaveRead(t) \/ StatusCheck(t)
  <2>1. UNCHANGED <<row, sid, caller, leg, requests>>
    BY <1>4 DEF JoinRead, LeaveRead, StatusCheck
  <2>2. Done(t) \/ Goto(t, "write") \/ Goto(t, "terminate")
    BY <1>4 DEF JoinRead, LeaveRead, StatusCheck
  <2> QED
    BY <1>2, <1>3, <2>1, <2>2, OnlyHandler
<1>5. CASE JoinWrite(t)
  BY <1>5, StatusWritten DEF JoinWrite, Statuses
<1>6. CASE LeaveTerminate(t)
  BY <1>6, HandlerKnown, TerminateCallerOK, QuietKeeps DEF LeaveTerminate, IndInv, TypeOK
<1>7. CASE StatusRemove(t)
  <2>1. sid' \in [Segs -> BOOLEAN] /\ UNCHANGED <<row, caller, leg, requests>>
    BY <1>7 DEF StatusRemove, IndInv, TypeOK
  <2>2. GoodTasks(tasks', row)
    BY <1>1, <1>3, <1>7, HandlerKnown, WebhookGoesOn DEF StatusRemove, Goto, GoodTasks
  <2> QED
    BY <2>1, <2>2, NobodyMoves, QuietKeeps
<1>8. CASE StatusTerminate(t)
  <2> DEFINE rest == Others(t) \cup {[t EXCEPT !.pc = "write"]}
  <2>1. GoodTasks(rest, row)
    BY <1>1, <1>3, HandlerKnown, WebhookGoesOn DEF GoodTasks
  <2>2. TerminateCaller(rest) /\ UNCHANGED <<row, sid, requests>>
    BY <1>8 DEF StatusTerminate
  <2> HIDE DEF rest
  <2> QED
    BY <2>1, <2>2, TerminateCallerOK, QuietKeeps DEF IndInv, TypeOK
<1>9. CASE StatusWrite(t)
  BY <1>9, StatusWritten DEF StatusWrite, Statuses
<1> QED
  BY <1>4, <1>5, <1>6, <1>7, <1>8, <1>9 DEF AgentStep

LEMMA CallerStepOK ==
  ASSUME IndInv, NEW t \in tasks, CallerStep(t)
  PROVE  IndInv'
<1>1. CASE CallerLeave(t)
  <2>1. sid' \in [Segs -> BOOLEAN] /\ UNCHANGED <<row, requests>>
    BY <1>1 DEF CallerLeave, IndInv, TypeOK
  <2>2. LegEnds(t.seg, Others(t)) \/ (Done(t) /\ UNCHANGED <<caller, leg>>)
    BY <1>1 DEF CallerLeave
  <2>3. Quiet
    BY <2>2, HandlerKnown, LegEndsOK, NobodyMoves DEF Done
  <2> QED
    BY <2>1, <2>3, QuietKeeps
<1>2. CASE FlowAction(t)
  <2>1. CallerEnds(Others(t)) \/ (Done(t) /\ UNCHANGED <<caller, leg>>)
    BY <1>2 DEF FlowAction
  <2>2. Quiet
    BY <2>1, HandlerKnown, CallerEndsOK, NobodyMoves DEF Done
  <2> QED
    BY <1>2, <2>2, QuietKeeps DEF FlowAction, IndInv, TypeOK
<1>3. CASE VoiceRead(t)
  <2> DEFINE new == [t EXCEPT !.pc = "write", !.seg = Latest]
  <2>1. new \in Task /\ TaskOK(new, row)
    BY <1>3, HandlerKnown, LatestExists DEF VoiceRead, Task, Points, TaskOK, Exists
  <2>2. Done(t) \/ tasks' = Others(t) \cup {new}
    BY <1>3 DEF VoiceRead
  <2>3. UNCHANGED <<row, sid, caller, leg, requests>>
    BY <1>3 DEF VoiceRead
  <2> HIDE DEF new
  <2>4. GoodTasks(tasks', row)
    BY <2>1, <2>2, HandlerKnown DEF GoodTasks, Done
  <2> QED
    BY <2>3, <2>4, NobodyMoves, QuietKeeps DEF IndInv, TypeOK
<1>4. CASE VoiceWrite(t)
  BY <1>4, StatusWritten DEF VoiceWrite, Statuses
<1> QED
  BY <1>1, <1>2, <1>3, <1>4 DEF CallerStep

-----------------------------------------------------------------------------
(* The people. *)

LEMMA TasksGood ==
  ASSUME IndInv
  PROVE  GoodTasks(tasks, row) /\ sid \in [Segs -> BOOLEAN]
BY DEF IndInv, TypeOK

LEMMA AgentsOK ==
  ASSUME IndInv, NEW k \in Segs, AgentAnswers(k) \/ AgentMisses(k) \/ AgentHangsUp(k)
  PROVE  IndInv'
<1>1. CASE AgentAnswers(k)
  <2>1. /\ leg[k] = "ringing" /\ leg' = [leg EXCEPT ![k] = "joined"]
        /\ tasks' = tasks \cup {Event("agentJoin", k)}
        /\ UNCHANGED <<row, sid, caller, requests>>
    BY <1>1 DEF AgentAnswers
  <2>2. Exists(k)
    BY <2>1 DEF IndInv, SegmentChain, Live
  <2>3. GoodTasks(tasks', row)
    <3>1. Event("agentJoin", k) \in Task /\ TaskOK(Event("agentJoin", k), row)
      BY <2>2, EventGood DEF TaskKinds
    <3> QED
      BY <2>1, <3>1, TasksGood DEF GoodTasks
  <2>4. leg' \in [Segs -> LegStates]
    BY <2>1 DEF IndInv, TypeOK, LegStates
  <2>5. \A j \in Segs : leg'[j] \in {"ringing", "joined"} => Exists(j)
    BY <2>1, <2>2 DEF IndInv, TypeOK, SegmentChain, Live
  <2>6. caller' \in Caller /\ (caller'.at = "conference" => Exists(caller'.seg))
    BY <2>1 DEF IndInv, TypeOK, SegmentChain
  <2> QED
    BY <2>1, <2>3, <2>4, <2>5, <2>6, TasksGood, NoRowWritten
<1>2. CASE AgentMisses(k) \/ AgentHangsUp(k)
  <2>1. LegEnds(k, tasks) /\ UNCHANGED <<row, sid, requests>>
    BY <1>2 DEF AgentMisses, AgentHangsUp
  <2> QED
    BY <2>1, TasksGood, LegEndsOK, QuietKeeps
<1> QED
  BY <1>1, <1>2

LEMMA CallerHangsUpOK ==
  ASSUME IndInv, CallerHangsUp
  PROVE  IndInv'
BY TasksGood, CallerEndsOK, QuietKeeps DEF CallerHangsUp

-----------------------------------------------------------------------------

LEMMA InitOK == Init => IndInv
<1> SUFFICES ASSUME Init
             PROVE  IndInv
  OBVIOUS
<1>1. MaxSeg \in Nat /\ 0 \in Segs /\ \A k \in 1 .. MaxSeg : k \in Segs /\ k # 0
  BY BoundsAssumption DEF Segs
<1>2. GoodTasks(tasks, row)
  BY <1>1, BoundsAssumption
  DEF Init, GoodTasks, TaskOK, Event, Task, TaskKinds, Points
<1>3. TypeOK
  BY <1>1, <1>2, BoundsAssumption
  DEF Init, TypeOK, GoodTasks, Row, Statuses, Caller, LegStates
<1>4. SegmentChain /\ Exists(0)
  BY <1>1 DEF Init, SegmentChain, Exists, Live
<1> QED
  BY <1>2, <1>3, <1>4 DEF IndInv

LEMMA StutterOK ==
  ASSUME IndInv, UNCHANGED vars
  PROVE  IndInv'
BY DEF IndInv, vars, TypeOK, SegmentChain, Exists, Live, GoodTasks

LEMMA NextOK == IndInv /\ [Next]_vars => IndInv'
<1> SUFFICES ASSUME IndInv, [Next]_vars
             PROVE  IndInv'
  OBVIOUS
<1>1. CASE Server
  <2>1. PICK t \in tasks : TransferStep(t) \/ AgentStep(t) \/ CallerStep(t)
    BY <1>1 DEF Server
  <2>2. CASE TransferStep(t)
    BY <2>2, TransferReadOK, TransferCheckOK, TransferUpdateOK, TransferCreateOK,
       TransferRedirectOK, TransferDialOK, TransferStoreOK DEF TransferStep
  <2> QED
    BY <2>1, <2>2, AgentStepOK, CallerStepOK
<1>2. CASE TransferRequest
  BY <1>2, TransferRequestOK
<1>3. CASE CallerHangsUp
  BY <1>3, CallerHangsUpOK
<1>4. CASE \E k \in Segs : AgentAnswers(k) \/ AgentMisses(k) \/ AgentHangsUp(k)
  BY <1>4, AgentsOK
<1>5. CASE UNCHANGED vars
  BY <1>5, StutterOK
<1> QED
  BY <1>1, <1>2, <1>3, <1>4, <1>5 DEF Next

\* Whatever the people, Twilio and the handlers do, the columns and resources have
\* their types (transferCall, the conference and status webhooks).
THEOREM TypeCorrect == Spec => []TypeOK
<1>1. IndInv => TypeOK
  BY DEF IndInv
<1> QED
  BY <1>1, InitOK, NextOK, PTL DEF Spec

\* transferCall: for any number of transfers, requested one after another or all at
\* once, with requests refused and webhooks overtaken, the segments form a chain, and
\* the caller and every live agent are in a segment that has its row.
THEOREM SegmentsChained == Spec => []SegmentChain
<1>1. IndInv => SegmentChain
  BY DEF IndInv
<1> QED
  BY <1>1, InitOK, NextOK, PTL DEF Spec

-----------------------------------------------------------------------------
(* One transfer at a time: where it is among the rows.                     *)

\* k is the newest segment that has a row.
Top(k) == Exists(k) /\ \A j \in Segs : j > k => ~ Exists(j)

\* A transfer ends the newest segment, or has made the newest one itself.
TransferAtTop(t) ==
  /\ t.pc \in {"check", "update", "create"} => Top(t.seg)
  /\ t.pc \in {"redirect", "dial", "store"} => Top(t.seg + 1)

\* The newest row is 'transferred' only until the transfer creates the next one.
Orderly ==
  /\ \A t, u \in Transfers : t = u
  /\ \A k \in Segs : Top(k) /\ row[k].status = "transferred" => \E t \in Transfers : t.pc = "create"
  /\ \A t \in Transfers : TransferAtTop(t)

\* The caller is in the newest segment, unless about to be redirected there.
CallerAtTop ==
  caller.at = "conference" => Top(caller.seg) \/ \E t \in Transfers : t.pc = "redirect"

LEMMA SegsAreNumbers == MaxSeg \in Nat /\ Segs \subseteq Nat /\ 0 \in Segs
BY BoundsAssumption DEF Segs

LEMMA TopUnique ==
  ASSUME NEW j \in Segs, NEW k \in Segs, Top(j), Top(k)
  PROVE  j = k
BY SegsAreNumbers DEF Top

LEMMA NewestIs ==
  ASSUME NEW S, S \subseteq Segs, NEW k \in S, \A j \in S : j <= k
  PROVE  Newest(S) = k
<1>1. ASSUME NEW m \in S, \A j \in S : j <= m
      PROVE  m = k
  <2>1. m <= k /\ k <= m /\ m \in Nat /\ k \in Nat
    BY <1>1, SegsAreNumbers
  <2> QED BY <2>1
<1> QED
  BY <1>1 DEF Newest

LEMMA TopExists ==
  ASSUME IndInv
  PROVE  \E k \in Segs : Top(k)
<1> DEFINE S == {k \in Segs : Exists(k)}
<1>1. S # {} /\ S \subseteq Segs
  BY SegsAreNumbers DEF IndInv
<1>2. PICK k \in S : \A j \in S : j <= k
  <2> HIDE DEF S
  <2> QED BY <1>1, SegsAreNumbers, GreatestSegment
<1> QED
  BY <1>2, SegsAreNumbers DEF Top

\* getLatestCallSegment finds the newest row, unless that one is being ended.
LEMMA LatestIsTop ==
  ASSUME IndInv, NEW k \in Segs, Top(k), row[k].status # "transferred"
  PROVE  Latest = k
<1> DEFINE theRows == {j \in Segs : Exists(j)}
           theOpen == {j \in theRows : row[j].status # "transferred"}
<1>1. k \in theOpen /\ theOpen \subseteq Segs
  BY DEF Top
<1>2. \A j \in theOpen : j <= k
  BY SegsAreNumbers DEF Top
<1>3. Newest(theOpen) = k
  <2> HIDE DEF theOpen
  <2> QED BY <1>1, <1>2, NewestIs
<1>4. Latest = IF theOpen # {} THEN Newest(theOpen) ELSE Newest(theRows)
  BY DEF Latest
<1> QED
  BY <1>1, <1>3, <1>4

LEMMA LatestAtTop ==
  ASSUME IndInv, Orderly, \A t \in Transfers : t.pc # "create"
  PROVE  Top(Latest)
<1>1. PICK k \in Segs : Top(k)
  BY TopExists
<1>2. row[k].status # "transferred"
  BY <1>1 DEF Orderly
<1> QED
  BY <1>1, <1>2, LatestIsTop

\* A step that creates no row.
NoNewRow == \A k \in Segs : (row'[k].status = "none") <=> (row[k].status = "none")

LEMMA TopSame ==
  ASSUME NoNewRow, NEW k \in Segs
  PROVE  Top(k)' <=> Top(k)
BY DEF NoNewRow, Top, Exists

LEMMA TransferSegments ==
  ASSUME IndInv, NEW t \in Transfers
  PROVE  /\ t \in tasks /\ t.kind = "transfer" /\ t.seg \in Segs /\ t.seg \in Nat /\ t \in Task
         /\ t.pc \notin {"read", "check"} => t.seg + 1 \in Segs /\ t.seg < MaxSeg
         /\ t.pc \in {"redirect", "dial", "store"} => Exists(t.seg + 1)
<1>1. t \in tasks /\ t.kind = "transfer"
  BY DEF Transfers
<1>2. t \in Task /\ TaskOK(t, row) /\ t.seg \in Segs
  BY <1>1, HandlerKnown
<1>3. t.seg \in Nat /\ (t.seg < MaxSeg => t.seg + 1 \in Segs)
  BY <1>2, SegsAreNumbers DEF Segs
<1> QED
  BY <1>1, <1>2, <1>3 DEF TaskOK, Exists

LEMMA TransferAtTopSame ==
  ASSUME IndInv, NoNewRow, NEW t \in Transfers, TransferAtTop(t)
  PROVE  TransferAtTop(t)'
<1>1. t.pc \in {"check", "update", "create"} => Top(t.seg)'
  BY TransferSegments, TopSame DEF TransferAtTop
<1>2. t.pc \in {"redirect", "dial", "store"} => Top(t.seg + 1)'
  BY TransferSegments, TopSame DEF TransferAtTop
<1> QED
  BY <1>1, <1>2 DEF TransferAtTop

\* What nothing but a transfer disturbs.
LEMMA OrderlyKept ==
  ASSUME IndInv, Orderly, NoNewRow, Transfers' = Transfers,
         \A k \in Segs : row'[k].status = "transferred" => row[k].status = "transferred"
  PROVE  Orderly'
<1>1. \A k \in Segs : Top(k)' => Top(k)
  BY TopSame
<1>2. \A t \in Transfers : TransferAtTop(t)'
  BY TransferAtTopSame DEF Orderly
<1> QED
  BY <1>1, <1>2 DEF Orderly

\* The transfer is done.
LEMMA OrderlyDone ==
  ASSUME IndInv, Orderly, NoNewRow, NEW t \in Transfers, t.pc # "create",
         Transfers' = {},
         \A k \in Segs : row'[k].status = "transferred" => row[k].status = "transferred"
  PROVE  Orderly'
<1>1. \A k \in Segs : Top(k) => row[k].status # "transferred"
  BY DEF Orderly
<1>2. \A k \in Segs : Top(k)' => Top(k)
  BY TopSame
<1> QED
  BY <1>1, <1>2 DEF Orderly

\* The transfer goes on.
LEMMA OrderlyGoesOn ==
  ASSUME IndInv, Orderly, NoNewRow, NEW t \in Transfers, t.pc # "create", NEW new,
         Transfers' = {new}, TransferAtTop(new)',
         \A k \in Segs : row'[k].status = "transferred" => row[k].status = "transferred"
  PROVE  Orderly'
<1>1. \A k \in Segs : Top(k) => row[k].status # "transferred"
  BY DEF Orderly
<1>2. \A k \in Segs : Top(k)' => Top(k)
  BY TopSame
<1> QED
  BY <1>1, <1>2 DEF Orderly

\* What the handlers of a transfer leave of the transfers, one at a time.
LEMMA TheTransfer ==
  ASSUME Orderly, NEW t \in tasks, t.kind = "transfer"
  PROVE  /\ t \in Transfers /\ Transfers = {t}
         /\ \A u \in Others(t) : u \in tasks /\ u.kind # "transfer"
         /\ Done(t) => Transfers' = {}
         /\ \A new : new.kind = "transfer" /\ tasks' = Others(t) \cup {new} => Transfers' = {new}
<1>1. t \in Transfers /\ Transfers = {t}
  BY DEF Orderly, Transfers
<1>2. \A u \in Others(t) : u \in tasks /\ u.kind # "transfer"
  BY <1>1 DEF Others, Transfers
<1> QED
  BY <1>1, <1>2 DEF Done, Transfers

\* Handlers of webhooks come, none of a transfer does.
OnlyWebhooksCome(rest) ==
  /\ rest \subseteq tasks'
  /\ \A u \in tasks' : u \in rest \/ u.kind # "transfer"

LEMMA EventKind ==
  ASSUME NEW kind, NEW k
  PROVE  Event(kind, k).kind = kind /\ Event(kind, k).pc = "read" /\ Event(kind, k).seg = k
BY DEF Event

LEMMA LeaveEventKinds ==
  \A t \in LeaveEvents : /\ t.kind \in {"callerLeave", "agentLeave"} /\ t.pc = "read"
                         /\ t.seg = caller.seg
BY EventKind DEF LeaveEvents

\* The end of a leg adds webhooks to those that are left.
LEMMA EndsAdd ==
  ASSUME NEW rest, NEW k, CallerEnds(rest) \/ LegEnds(k, rest) \/ TerminateCaller(rest)
  PROVE  OnlyWebhooksCome(rest)
<1>1. CASE CallerEnds(rest)
  BY <1>1, EventKind, LeaveEventKinds DEF CallerEnds, OnlyWebhooksCome
<1>2. CASE tasks' = rest
  BY <1>2 DEF OnlyWebhooksCome
<1>3. ASSUME NEW kind \in {"agentStatus", "agentLeave"}, tasks' = rest \cup {Event(kind, k)}
      PROVE  OnlyWebhooksCome(rest)
  BY <1>3, EventKind DEF OnlyWebhooksCome
<1>4. CASE tasks' = rest \cup LeaveEvents \cup {Event("flowAction", 0)}
  BY <1>4, EventKind, LeaveEventKinds DEF OnlyWebhooksCome
<1> QED
  BY <1>1, <1>2, <1>3, <1>4 DEF LegEnds, TerminateCaller

\* The handlers of the webhooks, and the people: they leave the transfers alone, create no
\* row, and give no row the status 'transferred'.
Webhook(t) == AgentStep(t) \/ CallerStep(t)
People == CallerHangsUp \/ \E k \in Segs : AgentAnswers(k) \/ AgentMisses(k) \/ AgentHangsUp(k)

LEMMA WebhookLeavesTransfers ==
  ASSUME IndInv, NEW t \in tasks, Webhook(t)
  PROVE  /\ t.kind # "transfer" /\ Transfers' = Transfers /\ NoNewRow
         /\ \A k \in Segs : row'[k].status = "transferred" => row[k].status = "transferred"
<1>1. t.kind # "transfer"
  BY DEF Webhook, AgentStep, CallerStep, JoinRead, JoinWrite, LeaveRead, LeaveTerminate,
         StatusRemove, StatusCheck, StatusTerminate, StatusWrite,
         CallerLeave, FlowAction, VoiceRead, VoiceWrite
<1>2. /\ NoNewRow
      /\ \A k \in Segs : row'[k].status = "transferred" => row[k].status = "transferred"
  <2>1. CASE row' = row
    BY <2>1 DEF NoNewRow
  <2>2. CASE \E s \in {"in-progress", "failed", "completed"} : row' = [row EXCEPT ![t.seg].status = s]
    <3>1. t.seg \in Segs /\ row[t.seg].status # "none"
      BY HandlerKnown DEF Exists
    <3> QED BY <2>2, <3>1 DEF NoNewRow, IndInv, TypeOK, Row
  <2> QED
    BY <2>1, <2>2
    DEF Webhook, AgentStep, CallerStep, JoinRead, JoinWrite, LeaveRead, LeaveTerminate,
        StatusRemove, StatusCheck, StatusTerminate, StatusWrite,
        CallerLeave, FlowAction, VoiceRead, VoiceWrite
<1>3. OnlyWebhooksCome(Others(t))
  <2>1. CASE Done(t)
    BY <2>1 DEF Done, OnlyWebhooksCome
  <2>2. ASSUME NEW new, new.kind = t.kind, tasks' = Others(t) \cup {new}
        PROVE  OnlyWebhooksCome(Others(t))
    BY <1>1, <2>2 DEF OnlyWebhooksCome
  <2>3. ASSUME NEW pc, Goto(t, pc)
        PROVE  OnlyWebhooksCome(Others(t))
    <3>1. tasks' = Others(t) \cup {[t EXCEPT !.pc = pc]}
      BY <2>3 DEF Goto
    <3>2. [t EXCEPT !.pc = pc].kind = t.kind
      BY HandlerKnown DEF Task
    <3> QED BY <2>2, <3>1, <3>2
  <2>4. ASSUME NEW k, CallerEnds(Others(t)) \/ LegEnds(k, Others(t)) \/ TerminateCaller(Others(t))
        PROVE  OnlyWebhooksCome(Others(t))
    BY <2>4, EndsAdd
  <2>5. CASE StatusTerminate(t)
    <3> DEFINE m == [t EXCEPT !.pc = "write"]
    <3>1. m.kind = t.kind
      BY HandlerKnown DEF Task
    <3>2. TerminateCaller(Others(t) \cup {m})
      BY <2>5 DEF StatusTerminate
    <3> HIDE DEF m
    <3>3. OnlyWebhooksCome(Others(t) \cup {m})
      BY <3>2, EndsAdd
    <3> QED BY <1>1, <3>1, <3>3 DEF OnlyWebhooksCome
  <2>6. CASE VoiceRead(t)
    <3> DEFINE m == [t EXCEPT !.pc = "write", !.seg = Latest]
    <3>1. m.kind = t.kind
      BY HandlerKnown DEF Task
    <3>2. Done(t) \/ tasks' = Others(t) \cup {m}
      BY <2>6 DEF VoiceRead
    <3> HIDE DEF m
    <3> QED BY <2>1, <2>2, <3>1, <3>2
  <2> QED
    BY <2>1, <2>3, <2>4, <2>5, <2>6
    DEF Webhook, AgentStep, CallerStep, JoinRead, JoinWrite, LeaveRead, LeaveTerminate,
        StatusRemove, StatusCheck, StatusWrite, CallerLeave, FlowAction, VoiceWrite
<1> QED
  BY <1>1, <1>2, <1>3 DEF OnlyWebhooksCome, Others, Transfers

LEMMA PeopleLeaveTransfers ==
  ASSUME People
  PROVE  UNCHANGED <<row, sid, requests>> /\ NoNewRow /\ Transfers' = Transfers
<1>1. UNCHANGED <<row, sid, requests>>
  BY DEF People, CallerHangsUp, AgentAnswers, AgentMisses, AgentHangsUp
<1>2. OnlyWebhooksCome(tasks)
  <2>1. CASE CallerHangsUp
    BY <2>1, EndsAdd DEF CallerHangsUp
  <2>2. ASSUME NEW k \in Segs, AgentAnswers(k)
        PROVE  OnlyWebhooksCome(tasks)
    BY <2>2, EventKind DEF AgentAnswers, OnlyWebhooksCome
  <2>3. ASSUME NEW k \in Segs, AgentMisses(k) \/ AgentHangsUp(k)
        PROVE  OnlyWebhooksCome(tasks)
    BY <2>3, EndsAdd DEF AgentMisses, AgentHangsUp
  <2> QED BY <2>1, <2>2, <2>3 DEF People
<1> QED
  BY <1>1, <1>2 DEF OnlyWebhooksCome, NoNewRow, Transfers

-----------------------------------------------------------------------------
(* The steps of a transfer keep the order. *)

LEMMA OrderlyTransferStep ==
  ASSUME IndInv, Orderly, NEW t \in tasks, TransferStep(t)
  PROVE  Orderly'
<1>1. t.kind = "transfer"
  BY DEF TransferStep, TransferRead, TransferCheck, TransferUpdate, TransferCreate,
         TransferRedirect, TransferDial, TransferStore
<1>2. /\ t \in Transfers /\ Transfers = {t} /\ TransferAtTop(t)
      /\ t \in Task /\ t.seg \in Segs /\ t.seg \in Nat
      /\ t.pc \notin {"read", "check"} => t.seg + 1 \in Segs
      /\ t.pc \in {"redirect", "dial", "store"} => Exists(t.seg + 1)
  BY <1>1, TheTransfer, TransferSegments DEF Orderly
<1>3. ASSUME NEW new, new.kind = "transfer", tasks' = Others(t) \cup {new}
      PROVE  Transfers' = {new}
  BY <1>1, <1>3, TheTransfer
<1>4. Done(t) => Transfers' = {}
  BY <1>1, TheTransfer
<1>5. row' = row => NoNewRow /\ \A k \in Segs : row'[k].status = "transferred" => row[k].status = "transferred"
  BY DEF NoNewRow
<1>6. ASSUME NEW pc \in Points, Goto(t, pc)
      PROVE  /\ Transfers' = {[t EXCEPT !.pc = pc]}
             /\ [t EXCEPT !.pc = pc].seg = t.seg /\ [t EXCEPT !.pc = pc].pc = pc
  <2>1. /\ [t EXCEPT !.pc = pc].kind = "transfer" /\ [t EXCEPT !.pc = pc].seg = t.seg
        /\ [t EXCEPT !.pc = pc].pc = pc
    BY <1>1, <1>2 DEF Task
  <2> QED BY <1>3, <1>6, <2>1 DEF Goto
<1>7. CASE TransferRead(t)
  <2>1. PICK top : top = Latest
    OBVIOUS
  <2> DEFINE new == [t EXCEPT !.pc = "check", !.seg = top]
  <2>2. new.kind = "transfer" /\ new.pc = "check" /\ new.seg = top
    BY <1>1, <1>2 DEF Task
  <2>3. t.pc = "read" /\ tasks' = Others(t) \cup {new} /\ UNCHANGED row
    BY <1>7, <2>1 DEF TransferRead
  <2> HIDE DEF new
  <2>4. Transfers' = {new}
    BY <1>3, <2>2, <2>3
  <2>5. Top(top) /\ top \in Segs
    BY <1>2, <2>1, <2>3, LatestAtTop, LatestExists
  <2>6. Top(top)'
    BY <1>5, <2>3, <2>5, TopSame
  <2>7. TransferAtTop(new)'
    BY <2>2, <2>6 DEF TransferAtTop
  <2> QED BY <1>2, <1>5, <2>3, <2>4, <2>7, OrderlyGoesOn
<1>8. CASE TransferCheck(t)
  <2>1. t.pc = "check" /\ UNCHANGED row
    BY <1>8 DEF TransferCheck
  <2>2. CASE Done(t)
    BY <1>2, <1>4, <1>5, <2>1, <2>2, OrderlyDone
  <2>3. CASE Goto(t, "update")
    <3> DEFINE new == [t EXCEPT !.pc = "update"]
    <3>1. Transfers' = {new} /\ new.seg = t.seg /\ new.pc = "update"
      BY <1>6, <2>3 DEF Points
    <3> HIDE DEF new
    <3>2. Top(t.seg)'
      BY <1>2, <1>5, <2>1, TopSame DEF TransferAtTop
    <3>3. TransferAtTop(new)'
      BY <3>1, <3>2 DEF TransferAtTop
    <3> QED BY <1>2, <1>5, <2>1, <3>1, <3>3, OrderlyGoesOn
  <2> QED BY <1>8, <2>2, <2>3 DEF TransferCheck
<1>9. CASE TransferUpdate(t)
  <2> DEFINE new == [t EXCEPT !.pc = "create"]
  <2>1. /\ t.pc = "update" /\ row' = [row EXCEPT ![t.seg] = [status |-> "transferred", transferred |-> TRUE]]
        /\ Goto(t, "create")
    BY <1>9 DEF TransferUpdate
  <2>2. Transfers' = {new} /\ new.seg = t.seg /\ new.pc = "create"
    BY <1>6, <2>1 DEF Points
  <2> HIDE DEF new
  <2>3. Exists(t.seg) /\ Top(t.seg)
    BY <1>2, <2>1 DEF TransferAtTop, Top
  <2>4. NoNewRow
    BY <1>2, <2>1, <2>3 DEF NoNewRow, Exists, IndInv, TypeOK
  <2>5. Top(t.seg)'
    BY <1>2, <2>3, <2>4, TopSame
  <2> QED BY <2>2, <2>5 DEF Orderly, TransferAtTop
<1>10. CASE TransferCreate(t)
  <2>1. t.pc = "create" /\ Top(t.seg) /\ t.seg + 1 \in Segs /\ ~ Exists(t.seg + 1)
    BY <1>2, <1>10 DEF TransferCreate, TransferAtTop, Top
  <2> DEFINE new == [t EXCEPT !.pc = "redirect"]
  <2>2. row' = [row EXCEPT ![t.seg + 1].status = "ringing"] /\ Goto(t, "redirect")
    BY <1>10, <2>1 DEF TransferCreate
  <2>3. Transfers' = {new} /\ new.seg = t.seg /\ new.pc = "redirect"
    BY <1>6, <2>2 DEF Points
  <2> HIDE DEF new
  <2>4. /\ row'[t.seg + 1].status = "ringing"
        /\ \A k \in Segs : k # t.seg + 1 => row'[k] = row[k]
    BY <2>1, <2>2 DEF IndInv, TypeOK, Row
  <2>5. \A j \in Segs : j > t.seg + 1 => ~ Exists(j)'
    BY <1>2, <2>1, <2>4, SegsAreNumbers DEF Top, Exists
  <2>6. Top(t.seg + 1)'
    BY <2>1, <2>4, <2>5 DEF Top, Exists
  <2>7. \A k \in Segs : Top(k)' => k = t.seg + 1
    <3> TAKE k \in Segs
    <3> HAVE Top(k)'
    <3>1. ~ (k > t.seg + 1) /\ ~ (t.seg + 1 > k)
      BY <2>1, <2>6 DEF Top
    <3> QED BY <1>2, <2>1, <3>1, SegsAreNumbers
  <2> QED BY <2>3, <2>4, <2>6, <2>7 DEF Orderly, TransferAtTop
<1>11. CASE TransferRedirect(t)
  <2>1. t.pc = "redirect" /\ UNCHANGED row /\ Top(t.seg + 1) /\ t.seg + 1 \in Segs
    BY <1>2, <1>11 DEF TransferRedirect, TransferAtTop
  <2>2. CASE Done(t)
    BY <1>2, <1>4, <1>5, <2>1, <2>2, OrderlyDone
  <2>3. CASE tasks' = Others(t) \cup {[t EXCEPT !.pc = "dial"]} \cup LeaveEvents
    <3> DEFINE new == [t EXCEPT !.pc = "dial"]
    <3>1. new.kind = "transfer" /\ new.pc = "dial" /\ new.seg = t.seg
      BY <1>1, <1>2 DEF Task
    <3> HIDE DEF new
    <3>2. \A u \in Others(t) \cup LeaveEvents : u.kind # "transfer"
      BY <1>1, TheTransfer, LeaveEventKinds
    <3>3. Transfers' = {new}
      BY <2>3, <3>1, <3>2 DEF Transfers, new
    <3>4. Top(t.seg + 1)'
      BY <1>5, <2>1, TopSame
    <3>5. TransferAtTop(new)'
      BY <3>1, <3>4 DEF TransferAtTop
    <3> QED BY <1>2, <1>5, <2>1, <3>3, <3>5, OrderlyGoesOn
  <2> QED BY <1>11, <2>2, <2>3 DEF TransferRedirect
<1>12. CASE TransferDial(t)
  <2>1. t.pc = "dial" /\ Top(t.seg + 1) /\ t.seg + 1 \in Segs
    BY <1>2, <1>12 DEF TransferDial, TransferAtTop
  <2>2. CASE Goto(t, "store") /\ UNCHANGED row
    <3> DEFINE new == [t EXCEPT !.pc = "store"]
    <3>1. Transfers' = {new} /\ new.seg = t.seg /\ new.pc = "store"
      BY <1>6, <2>2 DEF Points
    <3> HIDE DEF new
    <3>2. Top(t.seg + 1)'
      BY <1>5, <2>1, <2>2, TopSame
    <3>3. TransferAtTop(new)'
      BY <3>1, <3>2 DEF TransferAtTop
    <3> QED BY <1>2, <1>5, <2>1, <2>2, <3>1, <3>3, OrderlyGoesOn
  <2>3. CASE row' = [row EXCEPT ![t.seg + 1].status = "failed"] /\ Done(t)
    <3>1. /\ NoNewRow
          /\ \A k \in Segs : row'[k].status = "transferred" => row[k].status = "transferred"
      BY <2>1, <2>3 DEF NoNewRow, Top, Exists, IndInv, TypeOK, Row
    <3> QED BY <1>2, <1>4, <2>1, <2>3, <3>1, OrderlyDone
  <2> QED BY <1>12, <2>2, <2>3 DEF TransferDial
<1>13. CASE TransferStore(t)
  <2>1. t.pc = "store" /\ Done(t) /\ UNCHANGED row
    BY <1>13 DEF TransferStore
  <2> QED BY <1>2, <1>4, <1>5, <2>1, OrderlyDone
<1> QED
  BY <1>7, <1>8, <1>9, <1>10, <1>11, <1>12, <1>13 DEF TransferStep

LEMMA OrderlyRequest ==
  ASSUME Orderly, TransferRequest, "overlap" \notin Env
  PROVE  Orderly' /\ UNCHANGED row
<1> DEFINE new == [kind |-> "transfer", pc |-> "read", seg |-> 0, id |-> requests + 1]
<1>1. Transfers = {} /\ tasks' = tasks \cup {new} /\ UNCHANGED row
  BY DEF TransferRequest
<1>2. new.pc = "read" /\ Transfers' = {new}
  BY <1>1 DEF Transfers
<1> HIDE DEF new
<1>3. \A k \in Segs : Top(k)' => Top(k)
  BY <1>1 DEF Top, Exists
<1> QED BY <1>1, <1>2, <1>3 DEF Orderly, TransferAtTop

LEMMA InitOrderly ==
  ASSUME Init
  PROVE  Orderly
<1>1. Transfers = {}
  BY EventKind DEF Init, Transfers
<1>2. \A k \in Segs : row[k].status # "transferred"
  BY DEF Init
<1> QED BY <1>1, <1>2 DEF Orderly

LEMMA NextOrderly ==
  ASSUME IndInv, Orderly, [Next]_vars, "overlap" \notin Env
  PROVE  Orderly'
<1>1. CASE Server
  BY <1>1, OrderlyTransferStep, WebhookLeavesTransfers, OrderlyKept DEF Server, Webhook
<1>2. CASE TransferRequest
  BY <1>2, OrderlyRequest
<1>3. CASE People
  BY <1>3, PeopleLeaveTransfers, OrderlyKept
<1>4. CASE UNCHANGED vars
  BY <1>4 DEF vars, Orderly, Transfers, TransferAtTop, Top, Exists
<1> QED BY <1>1, <1>2, <1>3, <1>4 DEF Next, People

-----------------------------------------------------------------------------
(* The caller is in the newest segment.                                    *)

\* Only a transfer puts the caller into a conference.
CallerNotMoved == caller'.at = "conference" => caller' = caller

LEMMA EndsNotMoved ==
  ASSUME IndInv, NEW rest, NEW k, CallerEnds(rest) \/ TerminateCaller(rest) \/ LegEnds(k, rest)
  PROVE  CallerNotMoved
<1>1. CallerEnds(rest) => CallerNotMoved
  BY DEF CallerEnds, CallerNotMoved, IndInv, TypeOK, Caller
<1>2. caller' = [caller EXCEPT !.at = "fetch"] => CallerNotMoved
  BY DEF CallerNotMoved, IndInv, TypeOK, Caller
<1> QED
  BY <1>1, <1>2 DEF TerminateCaller, LegEnds, CallerNotMoved

LEMMA WebhookNotMoved ==
  ASSUME IndInv, NEW t \in tasks, Webhook(t)
  PROVE  CallerNotMoved
<1>1. UNCHANGED caller => CallerNotMoved
  BY DEF CallerNotMoved
<1>2. CASE LeaveTerminate(t)
  BY <1>2, EndsNotMoved DEF LeaveTerminate
<1>3. CASE StatusTerminate(t)
  BY <1>3, EndsNotMoved DEF StatusTerminate
<1>4. CASE CallerLeave(t)
  BY <1>1, <1>4, EndsNotMoved DEF CallerLeave
<1>5. CASE FlowAction(t)
  BY <1>1, <1>5, EndsNotMoved DEF FlowAction
<1> QED
  BY <1>1, <1>2, <1>3, <1>4, <1>5
  DEF Webhook, AgentStep, CallerStep, JoinRead, JoinWrite, LeaveRead,
      StatusRemove, StatusCheck, StatusWrite, VoiceRead, VoiceWrite

LEMMA PeopleNotMoved ==
  ASSUME IndInv, People
  PROVE  CallerNotMoved
BY EndsNotMoved DEF People, CallerHangsUp, AgentAnswers, AgentMisses, AgentHangsUp, CallerNotMoved

LEMMA CallerAtTopKept ==
  ASSUME IndInv, CallerAtTop, NoNewRow, CallerNotMoved, Transfers' = Transfers
  PROVE  CallerAtTop'
<1>1. CASE caller'.at # "conference"
  BY <1>1 DEF CallerAtTop
<1>2. CASE caller'.at = "conference" /\ \E t \in Transfers : t.pc = "redirect"
  BY <1>2 DEF CallerAtTop
<1>3. CASE caller'.at = "conference" /\ ~ \E t \in Transfers : t.pc = "redirect"
  <2>1. caller' = caller /\ Top(caller.seg) /\ caller.seg \in Segs
    BY <1>3 DEF CallerNotMoved, CallerAtTop, IndInv, TypeOK, Caller
  <2>2. Top(caller.seg)'
    BY <2>1 DEF NoNewRow, Top, Exists
  <2> QED
    BY <2>2 DEF CallerAtTop
<1> QED
  BY <1>1, <1>2, <1>3

LEMMA CallerAtTopTransfer ==
  ASSUME IndInv, Orderly, CallerAtTop, NEW t \in tasks, TransferStep(t), ~ Refused
  PROVE  CallerAtTop'
<1>1. t.kind = "transfer"
  BY DEF TransferStep, TransferRead, TransferCheck, TransferUpdate, TransferCreate,
         TransferRedirect, TransferDial, TransferStore
<1>2. /\ t \in Transfers /\ Transfers = {t} /\ TransferAtTop(t)
      /\ t \in Task /\ t.seg \in Segs
      /\ t.pc \notin {"read", "check"} => t.seg + 1 \in Segs
  BY <1>1, TheTransfer, TransferSegments DEF Orderly
<1>3. CASE UNCHANGED caller /\ NoNewRow /\ t.pc # "redirect"
  <2>1. caller.at = "conference" => Top(caller.seg) /\ caller.seg \in Segs
    BY <1>2, <1>3 DEF CallerAtTop, IndInv, TypeOK, Caller
  <2> QED
    BY <1>3, <2>1, TopSame DEF CallerAtTop
<1>4. row' = row => NoNewRow
  BY DEF NoNewRow
<1>5. CASE TransferUpdate(t)
  <2>1. Top(t.seg) /\ row' = [row EXCEPT ![t.seg] = [status |-> "transferred", transferred |-> TRUE]]
    BY <1>2, <1>5 DEF TransferUpdate, TransferAtTop
  <2>2. NoNewRow
    BY <1>2, <2>1 DEF NoNewRow, Top, Exists, IndInv, TypeOK
  <2> QED BY <1>3, <1>5, <2>2 DEF TransferUpdate
<1>6. CASE TransferCreate(t)
  <2> DEFINE new == [t EXCEPT !.pc = "redirect"]
  <2>1. ~ Exists(t.seg + 1) /\ Goto(t, "redirect")
    BY <1>2, <1>6, SegsAreNumbers DEF TransferCreate, TransferAtTop, Top
  <2>2. tasks' = Others(t) \cup {new} /\ new.kind = "transfer" /\ new.pc = "redirect"
    BY <1>1, <1>2, <2>1 DEF Goto, Task
  <2> HIDE DEF new
  <2>3. new \in Transfers'
    BY <2>2 DEF Transfers
  <2> QED BY <2>2, <2>3 DEF CallerAtTop
<1>7. CASE TransferRedirect(t)
  <2>1. t.pc = "redirect" /\ Top(t.seg + 1) /\ t.seg + 1 \in Segs /\ NoNewRow
    BY <1>2, <1>4, <1>7 DEF TransferRedirect, TransferAtTop
  <2>2. caller'.at = "conference" => caller'.seg = t.seg + 1
    BY <1>7 DEF TransferRedirect
  <2> QED BY <2>1, <2>2, TopSame DEF CallerAtTop
<1>8. CASE TransferDial(t)
  <2>1. t.pc = "dial" /\ Top(t.seg + 1) /\ t.seg + 1 \in Segs
    BY <1>2, <1>8 DEF TransferDial, TransferAtTop
  <2>2. row' = row
    BY <1>8 DEF TransferDial
  <2> QED BY <1>3, <1>4, <1>8, <2>1, <2>2 DEF TransferDial
<1>9. CASE TransferRead(t) \/ TransferCheck(t) \/ TransferStore(t)
  BY <1>3, <1>4, <1>9 DEF TransferRead, TransferCheck, TransferStore
<1> QED
  BY <1>5, <1>6, <1>7, <1>8, <1>9 DEF TransferStep

LEMMA NextCallerAtTop ==
  ASSUME IndInv, Orderly, CallerAtTop, [Next]_vars, "overlap" \notin Env, ~ Refused
  PROVE  CallerAtTop'
<1>1. CASE Server
  BY <1>1, CallerAtTopTransfer, WebhookLeavesTransfers, WebhookNotMoved, CallerAtTopKept
     DEF Server, Webhook
<1>2. CASE TransferRequest
  <2>1. Transfers = {} /\ UNCHANGED <<row, caller>>
    BY <1>2 DEF TransferRequest
  <2> QED BY <2>1 DEF CallerAtTop, Top, Exists
<1>3. CASE People
  BY <1>3, PeopleLeaveTransfers, PeopleNotMoved, CallerAtTopKept
<1>4. CASE UNCHANGED vars
  BY <1>4 DEF vars, CallerAtTop, Transfers, Top, Exists
<1> QED BY <1>1, <1>2, <1>3, <1>4 DEF Next, People

LEMMA InitCallerAtTop ==
  ASSUME Init
  PROVE  CallerAtTop
<1>1. \A j \in Segs : j > 0 => row[j].status = "none"
  BY SegsAreNumbers DEF Init
<1>2. caller.seg = 0 /\ row[0].status = "ringing"
  BY SegsAreNumbers DEF Init
<1> QED BY <1>1, <1>2 DEF CallerAtTop, Top, Exists

\* transferCall, getLatestCallSegment: as long as transfers are requested one at a time and
\* Twilio refuses nothing, then between transfers the segment that the next one would end
\* is the one the caller is in, for any number of transfers and whatever the webhooks and
\* the people do meanwhile.
THEOREM CallerInNewestCorrect ==
  ASSUME "overlap" \notin Env, "rest_error" \notin Env
  PROVE  Spec => []CallerInNewest
<1> DEFINE Inv == IndInv /\ Orderly /\ CallerAtTop
<1>1. Init => Inv
  BY InitOK, InitOrderly, InitCallerAtTop
<1>2. Inv /\ [Next]_vars => Inv'
  BY NextOK, NextOrderly, NextCallerAtTop DEF Refused
<1>3. ASSUME Inv, Transfers = {}, caller.at = "conference"
      PROVE  Latest = caller.seg
  <2>1. Top(caller.seg) /\ caller.seg \in Segs
    BY <1>3 DEF CallerAtTop, IndInv, TypeOK, Caller
  <2>2. row[caller.seg].status # "transferred"
    BY <1>3, <2>1 DEF Orderly
  <2> QED BY <1>3, <2>1, <2>2, LatestIsTop
<1>4. Inv => CallerInNewest
  BY <1>3 DEF CallerInNewest
<1> HIDE DEF Inv
<1> QED
  BY <1>1, <1>2, <1>4, PTL DEF Spec

-----------------------------------------------------------------------------
(* Who is in the call, and what the handlers know of it.                   *)

NoRowNoLeg == \A k \in Segs : ~ Exists(k) => leg[k] = "unused"

\* Until the caller's leg ends, an agent is rung or joined only where the caller is.
AgentsWithCaller ==
  \A k \in Segs : Live(k) => caller.at = "conference" /\ caller.seg = k

Before == {"read", "check", "update", "create", "redirect"}

\* A transfer, while the caller is in the conference of segment c.
TransferInCall(t, c) ==
  /\ t.pc \in Before => leg[c] = "joined" /\ row[c].status # "ringing"
  /\ t.pc \in {"check", "update"} => t.seg = c \/ row[c].status = "transferred"
  /\ t.pc \in {"create", "redirect"} => row[c].status = "transferred"
  /\ t.pc = "redirect" => row[t.seg + 1].status = "ringing" /\ leg[t.seg + 1] = "unused"
  /\ t.pc = "dial" => t.seg + 1 = c /\ row[c].status = "ringing" /\ leg[c] = "unused"

\* The other handlers: an agent who leaves has left a segment that was transferred before.
TaskInCall(t, c) ==
  /\ t.kind = "agentJoin" => t.seg = c /\ leg[c] = "joined" /\ row[c].status = "ringing"
  /\ t.kind \in {"agentLeave", "callerLeave"} => t.seg # c /\ row[t.seg].status = "transferred"
  /\ t.kind = "agentStatus" => t.seg = c /\ leg[c] = "missed"
  /\ t.kind = "transfer" => TransferInCall(t, c)
  /\ t.pc = "terminate" => t.kind = "agentStatus"

InCall(c) ==
  /\ row[c].status # "transferred" => Top(c)
  /\ leg[c] # "joined" => row[c].status # "transferred"
  /\ leg[c] = "ringing" => row[c].status = "ringing"
  /\ \A t, u \in tasks : t.kind = "agentJoin" /\ u.kind = "agentJoin" => t = u
  /\ \A t \in tasks : TaskInCall(t, c)

Together ==
  /\ NoRowNoLeg
  /\ caller.at # "ended" => AgentsWithCaller /\ \A t \in tasks : t.kind # "voiceStatus"
  /\ caller.at = "fetch" => Transfers = {}
  /\ caller.at = "conference" => InCall(caller.seg)

\* When the caller's leg has ended, little is left to be said.
LEMMA TogetherEnded ==
  ASSUME caller'.at = "ended", NoRowNoLeg'
  PROVE  Together'
BY DEF Together

\* A leg that changes belongs to a segment that has its row.
LEMMA NoRowNoLegKept ==
  ASSUME NoRowNoLeg, NoNewRow, \A k \in Segs : Exists(k) \/ leg'[k] = leg[k]
  PROVE  NoRowNoLeg'
BY DEF NoRowNoLeg, NoNewRow, Exists

\* Nobody moves and no row is written: the handlers that are left or go on are what counts.
LEMMA TogetherHandlers ==
  ASSUME IndInv, Together, UNCHANGED <<row, leg, caller>>,
         caller.at # "ended" => \A u \in tasks' : u.kind # "voiceStatus",
         caller.at = "fetch" => Transfers' = {},
         caller.at = "conference" =>
           /\ \A u \in tasks' : TaskInCall(u, caller.seg)
           /\ \A u, v \in tasks' : u.kind = "agentJoin" /\ v.kind = "agentJoin" => u = v
  PROVE  Together'
<1>1. NoRowNoLeg' /\ (caller.at # "ended" => AgentsWithCaller')
  BY DEF Together, NoRowNoLeg, AgentsWithCaller, Exists, Live
<1>2. ASSUME caller.at = "conference" PROVE InCall(caller.seg)'
  BY <1>2 DEF Together, InCall, Top, Exists, TaskInCall, TransferInCall
<1> QED BY <1>1, <1>2 DEF Together

\* A handler is done, or goes on at another point.
LEMMA TogetherGoto ==
  ASSUME IndInv, Together, UNCHANGED <<row, leg, caller>>, NEW t \in tasks,
         \/ Done(t)
         \/ \E pc \in Points : /\ Goto(t, pc)
                               /\ caller.at = "conference" => TaskInCall([t EXCEPT !.pc = pc], caller.seg)
  PROVE  Together'
<1>1. Others(t) \subseteq tasks /\ t \notin Others(t) /\ t \in Task
  BY HandlerKnown DEF Others
<1>2. CASE Done(t)
  <2>1. tasks' = Others(t)
    BY <1>2 DEF Done
  <2>2. Transfers' \subseteq Transfers
    BY <1>1, <2>1 DEF Transfers
  <2> QED BY <1>1, <2>1, <2>2, TogetherHandlers DEF Together, InCall
<1>3. ASSUME NEW pc \in Points, Goto(t, pc),
             caller.at = "conference" => TaskInCall([t EXCEPT !.pc = pc], caller.seg)
      PROVE  Together'
  <2> DEFINE m == [t EXCEPT !.pc = pc]
  <2>1. m.kind = t.kind /\ tasks' = Others(t) \cup {m}
    BY <1>1, <1>3 DEF Task, Goto
  <2>2. caller.at = "conference" => TaskInCall(m, caller.seg)
    BY <1>3
  <2> HIDE DEF m
  <2>3. Transfers = {} => Transfers' = {}
    BY <1>1, <2>1 DEF Transfers
  <2>4. ASSUME caller.at = "conference"
        PROVE  /\ \A u \in tasks' : TaskInCall(u, caller.seg)
               /\ \A u, v \in tasks' : u.kind = "agentJoin" /\ v.kind = "agentJoin" => u = v
    BY <1>1, <2>1, <2>2, <2>4 DEF Together, InCall
  <2>5. caller.at # "ended" => \A u \in tasks' : u.kind # "voiceStatus"
    BY <1>1, <2>1 DEF Together
  <2> QED BY <2>3, <2>4, <2>5, TogetherHandlers DEF Together
<1> QED BY <1>2, <1>3

-----------------------------------------------------------------------------
(* The steps of a transfer. *)

LEMMA TransferInCallFacts ==
  ASSUME IndInv, Orderly, Together, NEW t \in tasks, t.kind = "transfer"
  PROVE  /\ t \in Transfers /\ Transfers = {t} /\ TransferAtTop(t)
         /\ t \in Task /\ t.seg \in Segs /\ t.seg \in Nat
         /\ t.pc \notin {"read", "check"} => t.seg + 1 \in Segs
         /\ t.pc \in {"redirect", "dial", "store"} => Exists(t.seg + 1)
         /\ caller.at # "fetch" /\ caller \in Caller
         /\ caller.at = "conference" => /\ InCall(caller.seg) /\ TransferInCall(t, caller.seg)
                                        /\ caller.seg \in Segs /\ Exists(caller.seg)
<1>1. t \in Transfers /\ Transfers = {t}
  BY TheTransfer
<1>2. caller \in Caller /\ (caller.at = "conference" => caller.seg \in Segs /\ Exists(caller.seg))
  BY DEF IndInv, TypeOK, Caller, SegmentChain
<1> QED
  BY <1>1, <1>2, TransferSegments DEF Orderly, Together, InCall, TaskInCall

LEMMA TogetherRead ==
  ASSUME IndInv, Orderly, Together, NEW t \in tasks, TransferRead(t)
  PROVE  Together'
<1>1. PICK top : top = Latest
  OBVIOUS
<1> DEFINE m == [t EXCEPT !.pc = "check", !.seg = top]
<1>2. t.kind = "transfer" /\ t.pc = "read" /\ UNCHANGED <<row, leg, caller>>
      /\ tasks' = Others(t) \cup {m}
  BY <1>1 DEF TransferRead
<1>3. m.kind = "transfer" /\ m.pc = "check" /\ m.seg = top
  BY <1>2, TransferInCallFacts DEF Task
<1> HIDE DEF m
<1>4. Top(top) /\ top \in Segs
  BY <1>1, <1>2, TransferInCallFacts, LatestAtTop, LatestExists
<1>5. Others(t) \subseteq tasks /\ caller.at # "fetch"
  BY <1>2, TransferInCallFacts DEF Others
<1>6. ASSUME caller.at = "conference"
      PROVE  TaskInCall(m, caller.seg)
  <2>1. /\ InCall(caller.seg) /\ TransferInCall(t, caller.seg) /\ caller.seg \in Segs
    BY <1>2, <1>6, TransferInCallFacts
  <2>2. row[caller.seg].status # "transferred" => top = caller.seg
    BY <1>4, <2>1, TopUnique DEF InCall
  <2> QED BY <1>2, <1>3, <2>1, <2>2 DEF TaskInCall, TransferInCall, Before
<1>7. ASSUME caller.at = "conference"
      PROVE  /\ \A u \in tasks' : TaskInCall(u, caller.seg)
             /\ \A u, v \in tasks' : u.kind = "agentJoin" /\ v.kind = "agentJoin" => u = v
  BY <1>2, <1>3, <1>5, <1>6, <1>7 DEF Together, InCall
<1> QED BY <1>2, <1>3, <1>5, <1>7, TogetherHandlers DEF Together

LEMMA TogetherCheck ==
  ASSUME IndInv, Orderly, Together, NEW t \in tasks, TransferCheck(t)
  PROVE  Together'
<1>1. t.kind = "transfer" /\ t.pc = "check" /\ UNCHANGED <<row, leg, caller>>
      /\ (Done(t) \/ Goto(t, "update"))
  BY DEF TransferCheck
<1>2. "update" \in Points /\ t \in Task
  BY <1>1, TransferInCallFacts DEF Points
<1>3. caller.at = "conference" => TaskInCall([t EXCEPT !.pc = "update"], caller.seg)
  BY <1>1, <1>2, TransferInCallFacts DEF TaskInCall, TransferInCall, Before, Task
<1> QED BY <1>1, <1>2, <1>3, TogetherGoto

LEMMA TogetherStore ==
  ASSUME IndInv, Together, NEW t \in tasks, TransferStore(t)
  PROVE  Together'
BY TogetherGoto DEF TransferStore

LEMMA TogetherUpdate ==
  ASSUME IndInv, Orderly, Together, NEW t \in tasks, TransferUpdate(t)
  PROVE  Together'
<1> DEFINE m == [t EXCEPT !.pc = "create"]
<1>1. /\ t.kind = "transfer" /\ t.pc = "update" /\ UNCHANGED <<leg, caller>>
      /\ row' = [row EXCEPT ![t.seg] = [status |-> "transferred", transferred |-> TRUE]]
      /\ tasks' = Others(t) \cup {m}
  BY DEF TransferUpdate, Goto
<1>2. t \in Task /\ t.seg \in Segs /\ Exists(t.seg) /\ caller.at # "fetch" /\ Transfers = {t}
  BY <1>1, TransferInCallFacts DEF TransferAtTop, Top
<1>3. m.kind = "transfer" /\ m.pc = "create" /\ m.seg = t.seg
  BY <1>1, <1>2 DEF Task
<1> HIDE DEF m
<1>4. /\ row'[t.seg].status = "transferred"
      /\ \A k \in Segs : k # t.seg => row'[k] = row[k]
  BY <1>1, <1>2 DEF IndInv, TypeOK
<1>5. NoNewRow
  BY <1>2, <1>4 DEF NoNewRow, Exists
<1>6. NoRowNoLeg'
  BY <1>1, <1>5, NoRowNoLegKept DEF Together
<1>7. CASE caller.at = "ended"
  BY <1>1, <1>6, <1>7, TogetherEnded
<1>8. CASE caller.at = "conference"
  <2> DEFINE c == caller.seg
  <2>1. InCall(c) /\ TransferInCall(t, c) /\ c \in Segs
    BY <1>1, <1>8, TransferInCallFacts
  <2>2. leg[c] = "joined" /\ row[c].status # "ringing" /\ (t.seg = c \/ row[c].status = "transferred")
    BY <1>1, <2>1 DEF TransferInCall, Before
  <2>3. row'[c].status = "transferred"
    BY <1>4, <2>1, <2>2
  <2>4. \A u \in Others(t) : u \in tasks /\ u.kind # "transfer" /\ u.seg \in Segs /\ TaskInCall(u, c)
    BY <1>1, <2>1, TheTransfer, HandlerKnown DEF InCall
  <2>5. \A u \in Others(t) : u.kind # "agentJoin" /\ TaskInCall(u, c)'
    BY <1>1, <1>4, <2>2, <2>4 DEF TaskInCall
  <2>6. TaskInCall(m, c)'
    BY <1>1, <1>3, <2>2, <2>3 DEF TaskInCall, TransferInCall, Before
  <2>7. InCall(c)'
    BY <1>1, <1>3, <2>2, <2>3, <2>5, <2>6 DEF InCall
  <2>8. AgentsWithCaller' /\ \A u \in tasks' : u.kind # "voiceStatus"
    BY <1>1, <1>3, <1>8, <2>4 DEF Together, AgentsWithCaller, Live
  <2> QED BY <1>1, <1>6, <1>8, <2>7, <2>8 DEF Together
<1> QED BY <1>2, <1>7, <1>8, TransferInCallFacts DEF Caller, IndInv, TypeOK

LEMMA TogetherCreate ==
  ASSUME IndInv, Orderly, Together, NEW t \in tasks, TransferCreate(t)
  PROVE  Together'
<1> DEFINE m == [t EXCEPT !.pc = "redirect"]
<1>1. t.kind = "transfer" /\ t.pc = "create" /\ UNCHANGED <<leg, caller>>
  BY DEF TransferCreate
<1>2. t \in Task /\ t.seg \in Segs /\ t.seg + 1 \in Segs /\ Top(t.seg) /\ t.seg \in Nat
  BY <1>1, TransferInCallFacts DEF TransferAtTop
<1>3. ~ Exists(t.seg + 1)
  BY <1>2 DEF Top
<1>4. row' = [row EXCEPT ![t.seg + 1].status = "ringing"] /\ tasks' = Others(t) \cup {m}
  BY <1>3 DEF TransferCreate, Goto
<1>5. m.kind = "transfer" /\ m.pc = "redirect" /\ m.seg = t.seg
  BY <1>1, <1>2 DEF Task
<1> HIDE DEF m
<1>6. /\ row'[t.seg + 1].status = "ringing"
      /\ \A k \in Segs : k # t.seg + 1 => row'[k] = row[k]
  BY <1>2, <1>4 DEF IndInv, TypeOK, Row
<1>7. NoRowNoLeg' /\ leg[t.seg + 1] = "unused"
  BY <1>1, <1>2, <1>3, <1>6 DEF Together, NoRowNoLeg, Exists
<1>8. CASE caller.at = "ended"
  BY <1>1, <1>7, <1>8, TogetherEnded
<1>9. CASE caller.at = "conference"
  <2> DEFINE c == caller.seg
  <2>1. InCall(c) /\ TransferInCall(t, c) /\ c \in Segs /\ Exists(c)
    BY <1>1, <1>9, TransferInCallFacts
  <2>2. leg[c] = "joined" /\ row[c].status = "transferred" /\ c # t.seg + 1
    BY <1>1, <1>3, <2>1 DEF TransferInCall, Before
  <2>3. row'[c] = row[c]
    BY <1>6, <2>1, <2>2
  <2>4. \A u \in Others(t) : u \in tasks /\ u.kind # "transfer" /\ u.seg \in Segs /\ TaskInCall(u, c)
    BY <1>1, <2>1, TheTransfer, HandlerKnown DEF InCall
  <2>5. \A u \in Others(t) : row[u.seg].status = "transferred" => row'[u.seg].status = "transferred"
    BY <1>3, <1>6, <2>4 DEF Exists
  <2>6. \A u \in Others(t) : u.kind # "agentJoin" /\ TaskInCall(u, c)'
    BY <1>1, <2>2, <2>3, <2>4, <2>5 DEF TaskInCall
  <2>7. TaskInCall(m, c)'
    BY <1>1, <1>5, <1>6, <1>7, <2>2, <2>3 DEF TaskInCall, TransferInCall, Before
  <2>8. InCall(c)'
    BY <1>1, <1>4, <1>5, <2>2, <2>3, <2>6, <2>7 DEF InCall
  <2>9. AgentsWithCaller' /\ \A u \in tasks' : u.kind # "voiceStatus"
    BY <1>1, <1>4, <1>5, <1>9, <2>4 DEF Together, AgentsWithCaller, Live
  <2> QED BY <1>1, <1>7, <1>9, <2>8, <2>9 DEF Together
<1> QED BY <1>1, <1>8, <1>9, TransferInCallFacts DEF Caller

LEMMA TogetherRedirect ==
  ASSUME IndInv, Orderly, Together, NEW t \in tasks, TransferRedirect(t)
  PROVE  Together'
<1> DEFINE m == [t EXCEPT !.pc = "dial"]
<1>1. t.kind = "transfer" /\ t.pc = "redirect" /\ UNCHANGED row
  BY DEF TransferRedirect
<1>2. CASE Done(t) /\ UNCHANGED <<caller, leg>>
  BY <1>1, <1>2, TogetherGoto
<1>3. CASE /\ caller.at # "ended"
           /\ caller' = [at |-> "conference", seg |-> t.seg + 1] /\ leg' = EmptiedLegs
           /\ tasks' = Others(t) \cup {m} \cup LeaveEvents
  <2>1. /\ t \in Task /\ t.seg \in Segs /\ t.seg + 1 \in Segs /\ Top(t.seg + 1)
        /\ caller.at = "conference"
    BY <1>1, <1>3, TransferInCallFacts DEF TransferAtTop, Caller
  <2> DEFINE c == caller.seg  d == t.seg + 1
  <2>2. InCall(c) /\ TransferInCall(t, c) /\ c \in Segs /\ Exists(c)
    BY <1>1, <2>1, TransferInCallFacts
  <2>3. /\ leg[c] = "joined" /\ row[c].status = "transferred"
        /\ row[d].status = "ringing" /\ leg[d] = "unused" /\ c # d
    BY <1>1, <2>2 DEF TransferInCall, Before
  <2>4. leg' = [leg EXCEPT ![c] = "done"]
    BY <1>3, <2>1, <2>3 DEF EmptiedLegs
  <2>5. leg'[d] = "unused" /\ \A k \in Segs : k # c => leg'[k] = leg[k]
    BY <2>1, <2>2, <2>3, <2>4 DEF IndInv, TypeOK
  <2>6. m.kind = "transfer" /\ m.pc = "dial" /\ m.seg = t.seg
    BY <1>1, <2>1 DEF Task
  <2> HIDE DEF m
  <2>7. \A u \in Others(t) : u \in tasks /\ u.kind # "transfer" /\ u.seg \in Segs /\ TaskInCall(u, c)
    BY <1>1, <2>2, TheTransfer, HandlerKnown DEF InCall
  <2>8. caller'.seg = d /\ caller'.at = "conference"
    BY <1>3
  <2>9. \A u \in Others(t) : u.kind # "agentJoin" /\ TaskInCall(u, d)'
    BY <1>1, <2>3, <2>7 DEF TaskInCall
  <2>10. TaskInCall(m, d)'
    BY <1>1, <2>3, <2>5, <2>6 DEF TaskInCall, TransferInCall, Before
  <2>11. \A u \in LeaveEvents : u.kind # "agentJoin" /\ TaskInCall(u, d)'
    BY <1>1, <2>3, LeaveEventKinds DEF TaskInCall
  <2>12. Top(d)'
    BY <1>1, <2>1 DEF Top, Exists
  <2>13. InCall(d)'
    BY <1>1, <1>3, <2>3, <2>5, <2>6, <2>9, <2>10, <2>11, <2>12 DEF InCall
  <2>14. AgentsWithCaller'
    BY <2>1, <2>2, <2>3, <2>4, <2>5 DEF Together, AgentsWithCaller, Live, IndInv, TypeOK
  <2>15. \A u \in tasks' : u.kind # "voiceStatus"
    BY <1>3, <2>1, <2>6, <2>7, LeaveEventKinds DEF Together
  <2>16. NoRowNoLeg'
    BY <1>1, <2>2, <2>5 DEF Together, NoRowNoLeg, Exists
  <2>17. InCall(caller.seg)'
    BY <2>8, <2>13 DEF InCall, TaskInCall, TransferInCall, Top, Exists
  <2> QED BY <2>8, <2>14, <2>15, <2>16, <2>17 DEF Together
<1> QED BY <1>2, <1>3 DEF TransferRedirect

LEMMA TogetherDial ==
  ASSUME IndInv, Orderly, Together, NEW t \in tasks, TransferDial(t)
  PROVE  Together'
<1>1. t.kind = "transfer" /\ t.pc = "dial" /\ UNCHANGED caller
  BY DEF TransferDial
<1> DEFINE c == t.seg + 1
<1>2. t \in Task /\ c \in Segs /\ Exists(c) /\ caller.at # "fetch" /\ caller \in Caller
  BY <1>1, TransferInCallFacts
<1>3. ASSUME caller.at = "conference"
      PROVE  /\ caller.seg = c /\ InCall(c) /\ row[c].status = "ringing" /\ leg[c] = "unused"
  BY <1>1, <1>3, TransferInCallFacts DEF TransferInCall
<1>4. ASSUME caller.at = "conference", NEW u \in Others(t)
      PROVE  /\ u \in tasks /\ u.kind # "transfer" /\ u.seg \in Segs /\ TaskInCall(u, c)
             /\ u.kind \notin {"agentJoin", "agentStatus"} /\ u.pc # "terminate"
  <2>1. u \in tasks /\ u.kind # "transfer" /\ u.seg \in Segs /\ TaskInCall(u, c)
    BY <1>1, <1>3, <1>4, TheTransfer, HandlerKnown DEF InCall
  <2> QED BY <1>3, <1>4, <2>1 DEF TaskInCall
<1>5. CASE leg' = [leg EXCEPT ![c] = "ringing"] /\ Goto(t, "store") /\ UNCHANGED row
  <2> DEFINE m == [t EXCEPT !.pc = "store"]
  <2>1. tasks' = Others(t) \cup {m} /\ m.kind = "transfer" /\ m.pc = "store"
    BY <1>1, <1>2, <1>5 DEF Goto, Task
  <2> HIDE DEF m
  <2>2. leg'[c] = "ringing" /\ \A k \in Segs : k # c => leg'[k] = leg[k]
    BY <1>2, <1>5 DEF IndInv, TypeOK
  <2>3. NoRowNoLeg'
    BY <1>2, <1>5, <2>2 DEF Together, NoRowNoLeg, Exists
  <2>4. CASE caller.at = "ended"
    BY <1>1, <2>3, <2>4, TogetherEnded
  <2>5. CASE caller.at = "conference"
    <3>1. \A u \in Others(t) : u.kind # "agentJoin" /\ TaskInCall(u, c)'
      BY <1>4, <1>5, <2>5 DEF TaskInCall
    <3>2. TaskInCall(m, c)'
      BY <2>1 DEF TaskInCall, TransferInCall, Before
    <3>3. InCall(c)'
      BY <1>3, <1>5, <2>1, <2>2, <2>5, <3>1, <3>2 DEF InCall, Top, Exists
    <3>4. AgentsWithCaller'
      BY <1>1, <1>3, <2>2, <2>5 DEF Together, AgentsWithCaller, Live
    <3>5. \A u \in tasks' : u.kind # "voiceStatus"
      BY <1>4, <2>1, <2>5 DEF Together
    <3>6. InCall(caller.seg)'
      BY <1>1, <1>3, <2>5, <3>3 DEF InCall, TaskInCall, TransferInCall, Top, Exists
    <3> QED BY <1>1, <2>3, <2>5, <3>4, <3>5, <3>6 DEF Together
  <2> QED BY <1>2, <2>4, <2>5 DEF Caller
<1>6. CASE row' = [row EXCEPT ![c].status = "failed"] /\ Done(t) /\ UNCHANGED leg
  <2>1. tasks' = Others(t)
    BY <1>6 DEF Done
  <2>2. row'[c].status = "failed" /\ \A k \in Segs : k # c => row'[k] = row[k]
    BY <1>2, <1>6 DEF IndInv, TypeOK, Row
  <2>3. NoNewRow
    BY <1>2, <2>2 DEF NoNewRow, Exists
  <2>4. NoRowNoLeg'
    BY <1>6, <2>3, NoRowNoLegKept DEF Together
  <2>5. CASE caller.at = "ended"
    BY <1>1, <2>4, <2>5, TogetherEnded
  <2>6. CASE caller.at = "conference"
    <3>1. \A u \in Others(t) : u.kind # "agentJoin" /\ TaskInCall(u, c)'
      BY <1>4, <1>6, <2>2, <2>6 DEF TaskInCall
    <3>2. Top(c)'
      BY <1>2, <1>3, <2>3, <2>6, TopSame DEF InCall
    <3>3. InCall(c)'
      BY <1>3, <1>6, <2>1, <2>2, <2>6, <3>1, <3>2 DEF InCall
    <3>4. AgentsWithCaller'
      BY <1>1, <1>6, <2>6 DEF Together, AgentsWithCaller, Live
    <3>5. \A u \in tasks' : u.kind # "voiceStatus"
      BY <1>4, <2>1, <2>6 DEF Together
    <3>6. InCall(caller.seg)'
      BY <1>1, <1>3, <2>6, <3>3 DEF InCall, TaskInCall, TransferInCall, Top, Exists
    <3> QED BY <1>1, <2>4, <2>6, <3>4, <3>5, <3>6 DEF Together
  <2> QED BY <1>2, <2>5, <2>6 DEF Caller
<1> QED BY <1>5, <1>6 DEF TransferDial

LEMMA TogetherTransferStep ==
  ASSUME IndInv, Orderly, Together, NEW t \in tasks, TransferStep(t)
  PROVE  Together'
BY TogetherRead, TogetherCheck, TogetherUpdate, TogetherCreate, TogetherRedirect,
   TogetherDial, TogetherStore DEF TransferStep

\* The joined agent who asks for a transfer is with the caller, and the webhook about the
\* join has been handled.
LEMMA TogetherRequest ==
  ASSUME IndInv, Together, TransferRequest, "overlap" \notin Env, "late_join" \notin Env
  PROVE  Together'
<1> DEFINE m == [kind |-> "transfer", pc |-> "read", seg |-> 0, id |-> requests + 1]
<1>1. PICK k \in Segs : leg[k] = "joined" /\ row[k].status # "ringing"
  BY DEF TransferRequest
<1>2. tasks' = tasks \cup {m} /\ UNCHANGED <<row, leg, caller>>
  BY DEF TransferRequest
<1>3. m.kind = "transfer" /\ m.pc = "read"
  OBVIOUS
<1> HIDE DEF m
<1>4. caller.at # "ended" => caller.at = "conference" /\ caller.seg = k
  BY <1>1 DEF Together, AgentsWithCaller, Live
<1>5. caller.at = "conference" => TaskInCall(m, caller.seg)
  BY <1>1, <1>3, <1>4 DEF TaskInCall, TransferInCall, Before
<1>6. ASSUME caller.at = "conference"
      PROVE  /\ \A u \in tasks' : TaskInCall(u, caller.seg)
             /\ \A u, v \in tasks' : u.kind = "agentJoin" /\ v.kind = "agentJoin" => u = v
  BY <1>2, <1>3, <1>5, <1>6 DEF Together, InCall
<1>7. caller.at # "ended" => \A u \in tasks' : u.kind # "voiceStatus"
  BY <1>2, <1>3 DEF Together
<1> QED BY <1>2, <1>4, <1>6, <1>7, TogetherHandlers

-----------------------------------------------------------------------------
(* The webhooks. *)

\* What the end of the caller's leg leaves behind.
LEMMA TogetherCallerEnds ==
  ASSUME IndInv, Together, NoNewRow, NEW rest, CallerEnds(rest)
  PROVE  Together'
<1>1. caller'.at = "ended" /\ leg' = EmptiedLegs
  BY DEF CallerEnds, IndInv, TypeOK, Caller
<1>2. \A k \in Segs : Exists(k) \/ leg'[k] = leg[k]
  BY <1>1 DEF EmptiedLegs, IndInv, TypeOK, SegmentChain
<1> QED BY <1>1, <1>2, NoRowNoLegKept, TogetherEnded DEF Together

\* An attempt to end a leg when the caller's has ended.
LEMMA TogetherLateEnds ==
  ASSUME IndInv, Together, NoNewRow, caller.at = "ended", NEW k \in Segs, NEW rest, LegEnds(k, rest)
  PROVE  Together'
<1>1. Exists(k)
  BY DEF LegEnds, IndInv, SegmentChain, Live
<1>2. caller' = caller
  BY DEF LegEnds
<1>3. \A j \in Segs : Exists(j) \/ leg'[j] = leg[j]
  BY <1>1 DEF LegEnds, IndInv, TypeOK
<1> QED BY <1>2, <1>3, NoRowNoLegKept, TogetherEnded DEF Together

\* A handler that writes a status into a row, when no call is left to be kept together.
LEMMA TogetherLateWrite ==
  ASSUME IndInv, Together, NoNewRow, UNCHANGED <<leg, caller>>, NEW t \in tasks, Done(t),
         caller.at # "conference"
  PROVE  Together'
<1>1. NoRowNoLeg'
  BY NoRowNoLegKept DEF Together
<1>2. tasks' \subseteq tasks /\ Transfers' \subseteq Transfers
  BY DEF Done, Others, Transfers
<1> QED BY <1>1, <1>2 DEF Together, AgentsWithCaller, Live

LEMMA InCallFacts ==
  ASSUME IndInv, Together, caller.at = "conference"
  PROVE  /\ InCall(caller.seg) /\ caller.seg \in Segs /\ AgentsWithCaller
         /\ \A t \in tasks : TaskInCall(t, caller.seg) /\ t.kind # "voiceStatus"
BY DEF Together, InCall, IndInv, TypeOK, Caller

LEMMA TogetherJoin ==
  ASSUME IndInv, Together, NEW t \in tasks, JoinRead(t) \/ JoinWrite(t)
  PROVE  Together'
<1>1. t.kind = "agentJoin" /\ UNCHANGED <<leg, caller>> /\ t.seg \in Segs /\ t \in Task
  BY HandlerKnown DEF JoinRead, JoinWrite
<1>2. CASE JoinRead(t)
  <2>1. caller.at = "conference" => TaskInCall([t EXCEPT !.pc = "write"], caller.seg)
    BY <1>1, InCallFacts DEF TaskInCall, Task
  <2> QED BY <1>1, <1>2, <2>1, TogetherGoto DEF JoinRead, Points
<1>3. CASE JoinWrite(t)
  <2>1. row' = [row EXCEPT ![t.seg].status = "in-progress"] /\ Done(t) /\ NoNewRow
    BY <1>3, WebhookLeavesTransfers DEF JoinWrite, Webhook, AgentStep
  <2>2. CASE caller.at # "conference"
    BY <1>1, <2>1, <2>2, TogetherLateWrite
  <2>3. CASE caller.at = "conference"
    <3> DEFINE c == caller.seg
    <3>1. /\ t.seg = c /\ c \in Segs /\ leg[c] = "joined" /\ row[c].status = "ringing" /\ Top(c)
          /\ InCall(c) /\ AgentsWithCaller
      BY <1>1, <2>3, InCallFacts DEF TaskInCall, InCall
    <3>2. row'[c].status = "in-progress" /\ \A k \in Segs : k # c => row'[k] = row[k]
      BY <2>1, <3>1 DEF IndInv, TypeOK, Row
    <3>3. \A u \in tasks' : /\ u \in tasks /\ u # t /\ u.seg \in Segs
                            /\ TaskInCall(u, c) /\ u.kind # "voiceStatus"
      BY <2>1, <2>3, InCallFacts, HandlerKnown DEF Done, Others
    <3>4. \A u \in tasks' : u.kind # "agentJoin"
      BY <1>1, <3>1, <3>3 DEF InCall
    <3>5. \A u \in tasks' : u.kind = "transfer" => TransferInCall(u, c)'
      BY <1>1, <3>1, <3>3 DEF TaskInCall, TransferInCall, Before
    <3>6. \A u \in tasks' : TaskInCall(u, c)'
      BY <1>1, <3>2, <3>3, <3>4, <3>5 DEF TaskInCall
    <3>7. Top(c)'
      BY <1>1, <2>1, <3>1 DEF NoNewRow, Top, Exists
    <3>8. InCall(c)'
      BY <1>1, <3>1, <3>2, <3>4, <3>6, <3>7 DEF InCall
    <3>9. InCall(caller.seg)'
      BY <1>1, <3>8 DEF InCall, TaskInCall, TransferInCall, Top, Exists
    <3>10. AgentsWithCaller'
      BY <1>1, <3>1 DEF AgentsWithCaller, Live
    <3>11. NoRowNoLeg'
      BY <1>1, <2>1, NoRowNoLegKept DEF Together
    <3> QED BY <1>1, <2>3, <3>3, <3>9, <3>10, <3>11 DEF Together
  <2> QED BY <2>2, <2>3
<1> QED BY <1>2, <1>3

\* An agent who left a transferred segment does not end the caller's leg.
LEMMA TogetherLeave ==
  ASSUME IndInv, Together, NEW t \in tasks, LeaveRead(t) \/ LeaveTerminate(t)
  PROVE  Together'
<1>1. t.kind = "agentLeave" /\ UNCHANGED row /\ NoNewRow
  BY DEF LeaveRead, LeaveTerminate, NoNewRow
<1>2. CASE LeaveRead(t)
  <2>1. caller.at = "conference" => row[t.seg].status = "transferred"
    BY <1>1, InCallFacts DEF TaskInCall
  <2>2. caller.at = "conference" => Done(t)
    BY <1>2, <2>1 DEF LeaveRead
  <2>3. (Done(t) \/ Goto(t, "terminate")) /\ UNCHANGED <<row, leg, caller>>
    BY <1>2 DEF LeaveRead
  <2> QED BY <2>2, <2>3, TogetherGoto DEF Points
<1>3. CASE LeaveTerminate(t)
  <2>1. CallerEnds(Others(t)) \/ (Done(t) /\ UNCHANGED <<caller, leg>>)
    BY <1>3 DEF LeaveTerminate, TerminateCaller, Done
  <2> QED BY <1>1, <2>1, TogetherCallerEnds, TogetherGoto
<1> QED BY <1>2, <1>3

LEMMA TogetherStatus ==
  ASSUME IndInv, Together, NEW t \in tasks,
         StatusRemove(t) \/ StatusCheck(t) \/ StatusTerminate(t) \/ StatusWrite(t)
  PROVE  Together'
<1>1. t.kind = "agentStatus" /\ t.seg \in Segs /\ t \in Task
  BY HandlerKnown DEF StatusRemove, StatusCheck, StatusTerminate, StatusWrite
<1>2. \A pc \in Points : caller.at = "conference" => TaskInCall([t EXCEPT !.pc = pc], caller.seg)
  BY <1>1, InCallFacts DEF TaskInCall, Task
<1>3. CASE StatusRemove(t) \/ StatusCheck(t)
  <2>1. UNCHANGED <<row, leg, caller>> /\ (Done(t) \/ Goto(t, "check") \/ Goto(t, "terminate"))
    BY <1>3 DEF StatusRemove, StatusCheck
  <2> QED BY <1>2, <2>1, TogetherGoto DEF Points
<1>4. CASE StatusTerminate(t)
  <2>1. UNCHANGED row /\ NoNewRow
    BY <1>4 DEF StatusTerminate, NoNewRow
  <2>2. \/ CallerEnds(Others(t) \cup {[t EXCEPT !.pc = "write"]})
        \/ Goto(t, "write") /\ UNCHANGED <<caller, leg>>
    BY <1>4 DEF StatusTerminate, TerminateCaller, Goto
  <2> QED BY <1>2, <2>1, <2>2, TogetherCallerEnds, TogetherGoto DEF Points
<1>5. CASE StatusWrite(t)
  <2>1. /\ row' = [row EXCEPT ![t.seg].status = "failed"] /\ Done(t) /\ NoNewRow
        /\ UNCHANGED <<leg, caller>>
    BY <1>5, WebhookLeavesTransfers DEF StatusWrite, Webhook, AgentStep
  <2>2. CASE caller.at # "conference"
    BY <2>1, <2>2, TogetherLateWrite
  <2>3. CASE caller.at = "conference"
    <3> DEFINE c == caller.seg
    <3>1. /\ t.seg = c /\ c \in Segs /\ leg[c] = "missed" /\ Top(c)
          /\ InCall(c) /\ AgentsWithCaller
      BY <1>1, <2>3, InCallFacts DEF TaskInCall, InCall
    <3>2. row'[c].status = "failed" /\ \A k \in Segs : k # c => row'[k] = row[k]
      BY <2>1, <3>1 DEF IndInv, TypeOK, Row
    <3>3. \A u \in tasks' : /\ u \in tasks /\ u.seg \in Segs
                            /\ TaskInCall(u, c) /\ u.kind # "voiceStatus"
      BY <2>1, <2>3, InCallFacts, HandlerKnown DEF Done, Others
    <3>4. \A u \in tasks' : u.kind # "agentJoin"
      BY <3>1, <3>3 DEF TaskInCall
    <3>5. \A u \in tasks' : u.kind = "transfer" => TransferInCall(u, c)'
      BY <2>1, <3>1, <3>3 DEF TaskInCall, TransferInCall, Before
    <3>6. \A u \in tasks' : TaskInCall(u, c)'
      BY <2>1, <3>2, <3>3, <3>4, <3>5 DEF TaskInCall
    <3>7. Top(c)'
      BY <2>1, <3>1 DEF NoNewRow, Top, Exists
    <3>8. InCall(c)'
      BY <2>1, <3>1, <3>2, <3>4, <3>6, <3>7 DEF InCall
    <3>9. InCall(caller.seg)'
      BY <2>1, <3>8 DEF InCall, TaskInCall, TransferInCall, Top, Exists
    <3>10. AgentsWithCaller'
      BY <2>1, <3>1 DEF AgentsWithCaller, Live
    <3>11. NoRowNoLeg'
      BY <2>1, NoRowNoLegKept DEF Together
    <3> QED BY <2>1, <2>3, <3>3, <3>9, <3>10, <3>11 DEF Together
  <2> QED BY <2>2, <2>3
<1> QED BY <1>3, <1>4, <1>5

LEMMA TogetherCallerStep ==
  ASSUME IndInv, Together, NEW t \in tasks, CallerStep(t)
  PROVE  Together'
<1>1. NoNewRow /\ t.seg \in Segs
  BY WebhookLeavesTransfers, HandlerKnown DEF Webhook
<1>2. CASE CallerLeave(t)
  <2>1. t.kind = "callerLeave" /\ UNCHANGED row
    BY <1>2 DEF CallerLeave
  <2>2. CASE Done(t) /\ UNCHANGED <<caller, leg>>
    BY <2>1, <2>2, TogetherGoto
  <2>3. CASE Live(t.seg) /\ LegEnds(t.seg, Others(t))
    <3>1. caller.at = "conference" => caller.seg # t.seg
      BY <2>1, InCallFacts DEF TaskInCall
    <3>2. caller.at = "ended"
      BY <1>1, <2>3, <3>1 DEF Together, AgentsWithCaller
    <3> QED BY <1>1, <2>3, <3>2, TogetherLateEnds
  <2> QED BY <1>2, <2>2, <2>3 DEF CallerLeave
<1>3. CASE FlowAction(t)
  <2>1. CallerEnds(Others(t)) \/ (Done(t) /\ UNCHANGED <<row, caller, leg>>)
    BY <1>3 DEF FlowAction
  <2> QED BY <1>1, <2>1, TogetherCallerEnds, TogetherGoto
<1>4. CASE VoiceRead(t) \/ VoiceWrite(t)
  <2>1. t.kind = "voiceStatus" /\ UNCHANGED <<leg, caller>>
    BY <1>4 DEF VoiceRead, VoiceWrite
  <2>2. caller.at = "ended"
    BY <2>1 DEF Together
  <2> QED BY <1>1, <2>1, <2>2, NoRowNoLegKept, TogetherEnded DEF Together
<1> QED BY <1>2, <1>3, <1>4 DEF CallerStep

-----------------------------------------------------------------------------
(* The people. *)

\* The agent of the segment the caller is in answers, or does not.
LEMMA TogetherAnswer ==
  ASSUME IndInv, Together, UNCHANGED <<row, caller>>, NEW k \in Segs, leg[k] = "ringing",
         NEW kind, NEW state,
         (kind = "agentJoin" /\ state = "joined") \/ (kind = "agentStatus" /\ state = "missed"),
         leg' = [leg EXCEPT ![k] = state], tasks' = tasks \cup {Event(kind, k)}
  PROVE  Together'
<1> DEFINE e == Event(kind, k)
<1>1. e.kind = kind /\ e.pc = "read" /\ e.seg = k
  BY EventKind
<1>2. tasks' = tasks \cup {e}
  OBVIOUS
<1> HIDE DEF e
<1>3. NoNewRow /\ Exists(k)
  BY DEF NoNewRow, IndInv, SegmentChain, Live
<1>4. leg'[k] = state /\ \A j \in Segs : j # k => leg'[j] = leg[j]
  BY DEF IndInv, TypeOK
<1>5. NoRowNoLeg'
  BY <1>3, <1>4, NoRowNoLegKept DEF Together
<1>6. CASE caller.at = "ended"
  BY <1>5, <1>6, TogetherEnded
<1>7. CASE caller.at # "ended"
  <2>1. caller.at = "conference" /\ caller.seg = k
    BY <1>7 DEF Together, AgentsWithCaller, Live
  <2>2. InCall(k) /\ AgentsWithCaller /\ \A u \in tasks : TaskInCall(u, k) /\ u.kind # "voiceStatus"
    BY <2>1, InCallFacts
  <2>3. row[k].status = "ringing" /\ Top(k) /\ Top(k)'
    BY <1>3, <2>2, TopSame DEF InCall
  <2>4. \A u \in tasks : u.kind \notin {"agentJoin", "agentStatus"}
    BY <2>2 DEF TaskInCall
  <2>5. \A u \in tasks : u.kind = "transfer" => TransferInCall(u, k)'
    BY <2>2 DEF TaskInCall, TransferInCall
  <2>6. \A u \in tasks : TaskInCall(u, k)'
    BY <2>2, <2>4, <2>5 DEF TaskInCall
  <2>7. TaskInCall(e, k)'
    BY <1>1, <1>4, <2>3 DEF TaskInCall
  <2>8. InCall(k)'
    BY <1>2, <1>4, <2>3, <2>4, <2>6, <2>7 DEF InCall
  <2>9. InCall(caller.seg)'
    BY <2>1, <2>8 DEF InCall, TaskInCall, TransferInCall, Top, Exists
  <2>10. AgentsWithCaller'
    BY <1>4, <2>1, <2>2 DEF AgentsWithCaller, Live
  <2>11. \A u \in tasks' : u.kind # "voiceStatus"
    BY <1>1, <1>2, <2>2
  <2> QED BY <1>5, <2>1, <2>9, <2>10, <2>11 DEF Together
<1> QED BY <1>6, <1>7

LEMMA TogetherPeople ==
  ASSUME IndInv, Together, People, "hasty_agent" \notin Env
  PROVE  Together'
<1>1. NoNewRow /\ UNCHANGED row /\ Transfers' = Transfers
  BY PeopleLeaveTransfers
<1>2. CASE CallerHangsUp
  BY <1>1, <1>2, TogetherCallerEnds DEF CallerHangsUp
<1>3. ASSUME NEW k \in Segs, AgentAnswers(k)
      PROVE  Together'
  <2>1. /\ leg[k] = "ringing" /\ leg' = [leg EXCEPT ![k] = "joined"]
        /\ tasks' = tasks \cup {Event("agentJoin", k)} /\ UNCHANGED caller
    BY <1>3 DEF AgentAnswers
  <2> QED BY <1>1, <2>1, TogetherAnswer
<1>4. ASSUME NEW k \in Segs, AgentMisses(k)
      PROVE  Together'
  <2>1. /\ leg[k] = "ringing" /\ leg' = [leg EXCEPT ![k] = "missed"]
        /\ tasks' = tasks \cup {Event("agentStatus", k)} /\ UNCHANGED caller
    BY <1>4 DEF AgentMisses, LegEnds
  <2> QED BY <1>1, <2>1, TogetherAnswer
<1>5. ASSUME NEW k \in Segs, AgentHangsUp(k)
      PROVE  Together'
  <2>1. leg[k] = "joined" /\ Transfers = {} /\ LegEnds(k, tasks)
    BY <1>5 DEF AgentHangsUp
  <2>2. CASE caller.at = "ended"
    BY <1>1, <2>1, <2>2, TogetherLateEnds
  <2>3. CASE CallerEnds(tasks)
    BY <1>1, <2>3, TogetherCallerEnds
  <2>4. CASE caller.at # "ended" /\ ~ CallerEnds(tasks)
    <3>1. caller.at = "conference" /\ caller.seg = k /\ AgentsWithCaller
      BY <2>1, <2>4 DEF Together, AgentsWithCaller, Live
    <3>2. /\ leg' = EmptiedLegs /\ caller' = [caller EXCEPT !.at = "fetch"]
          /\ tasks' = tasks \cup LeaveEvents \cup {Event("flowAction", 0)}
      BY <2>1, <2>4, <3>1 DEF LegEnds
    <3>3. leg' = [leg EXCEPT ![k] = "done"] /\ caller'.at = "fetch"
      BY <2>1, <3>1, <3>2 DEF EmptiedLegs, IndInv, TypeOK, Caller
    <3>4. \A j \in Segs : ~ Live(j)'
      BY <3>1, <3>3 DEF AgentsWithCaller, Live, IndInv, TypeOK
    <3>5. \A u \in tasks' : u.kind # "voiceStatus"
      BY <2>4, <3>2, EventKind, LeaveEventKinds DEF Together
    <3>6. Exists(k) /\ \A j \in Segs : j # k => leg'[j] = leg[j]
      BY <2>1, <3>3 DEF IndInv, SegmentChain, Live, TypeOK
    <3>7. NoRowNoLeg'
      BY <1>1, <3>6, NoRowNoLegKept DEF Together
    <3> QED BY <1>1, <2>1, <3>3, <3>4, <3>5, <3>7 DEF Together, AgentsWithCaller
  <2> QED BY <2>2, <2>3, <2>4
<1> QED BY <1>2, <1>3, <1>4, <1>5 DEF People

LEMMA InitTogether ==
  ASSUME Init
  PROVE  Together
<1> DEFINE e == Event("agentJoin", 0)
<1>1. e.kind = "agentJoin" /\ e.pc = "read" /\ e.seg = 0 /\ tasks = {e}
  BY EventKind DEF Init
<1> HIDE DEF e
<1>2. /\ 0 \in Segs /\ caller.seg = 0 /\ caller.at = "conference" /\ row[0].status = "ringing"
      /\ leg[0] = "joined" /\ \A k \in Segs : k # 0 => row[k].status = "none" /\ leg[k] = "unused"
  BY SegsAreNumbers DEF Init
<1>3. Top(0)
  BY <1>2, SegsAreNumbers DEF Top, Exists
<1>4. InCall(0)
  BY <1>1, <1>2, <1>3 DEF InCall, TaskInCall
<1>5. Transfers = {} /\ NoRowNoLeg /\ AgentsWithCaller
  BY <1>1, <1>2 DEF Transfers, NoRowNoLeg, AgentsWithCaller, Exists, Live
<1> QED BY <1>1, <1>2, <1>4, <1>5 DEF Together

LEMMA NextTogether ==
  ASSUME IndInv, Orderly, Together, [Next]_vars, Env \subseteq {"rest_error", "early_status"}
  PROVE  Together'
<1>1. CASE Server
  <2>1. PICK t \in tasks : TransferStep(t) \/ AgentStep(t) \/ CallerStep(t)
    BY <1>1 DEF Server
  <2> QED
    BY <2>1, TogetherTransferStep, TogetherJoin, TogetherLeave, TogetherStatus, TogetherCallerStep
       DEF AgentStep
<1>2. CASE TransferRequest
  BY <1>2, TogetherRequest
<1>3. CASE People
  BY <1>3, TogetherPeople
<1>4. CASE UNCHANGED vars
  BY <1>4 DEF vars, Together, NoRowNoLeg, AgentsWithCaller, Transfers, InCall, TaskInCall,
              TransferInCall, Top, Exists, Live
<1> QED BY <1>1, <1>2, <1>3, <1>4 DEF Next, People

\* handleConferenceStatus, handleAgentCallStatus: as long as agents who transfer wait for
\* the answer and joins are handled before transfers, no handler is ever about to end the
\* caller's conversation because of an agent of another segment, though Twilio may refuse
\* requests and the webhooks of a leg may overtake the recording of its SID.
THEOREM NoForeignHangupCorrect ==
  ASSUME Env \subseteq {"rest_error", "early_status"}
  PROVE  Spec => []NoForeignHangup
<1> DEFINE Inv == IndInv /\ Orderly /\ Together
<1>1. Init => Inv
  BY InitOK, InitOrderly, InitTogether
<1>2. Inv /\ [Next]_vars => Inv'
  BY NextOK, NextOrderly, NextTogether
<1>3. Inv => NoForeignHangup
  BY InCallFacts DEF NoForeignHangup, TaskInCall
<1> HIDE DEF Inv
<1> QED
  BY <1>1, <1>2, <1>3, PTL DEF Spec

=============================================================================
