--------------------------- MODULE JobQueueProofs ---------------------------
(* Theorems of JobQueue for any number of jobs, lanes and processes.       *)
EXTENDS JobQueue, FiniteSetTheorems, TLAPS

-----------------------------------------------------------------------------
(* What a step may do to one row and to one lane.                          *)

RowMove(j) ==
  \/ job'[j] = job[j]
  \/ \E due \in BOOLEAN : job'[j] = [job[j] EXCEPT !.due = due]
  \/ \E lease \in {"live", "expired"} : job'[j] = [job[j] EXCEPT !.lease = lease]
  \/ job[j].status = "absent" /\ \E due \in BOOLEAN : job'[j] = Fresh(due)
  \/ job[j].status = "running" /\ job'[j] = Failed(j)
  \/ job[j].status = "running" /\ job'[j] = Ended(job[j], "succeeded")
  \/ job[j].status = "running" /\ j \in Unregistered /\ job'[j] = Ended(job[j], "failed")
  \/ IsTerminal(j) /\ job'[j] = Absent
  \/ \E l \in Lane : CommitClaim(l) /\ lane[l].job = j

LaneMove(l) ==
  \/ lane'[l] = lane[l]
  \/ lane'[l] = Idle
  \/ SelectJob(l)
  \/ CommitClaim(l)
  \/ AtWork(l) /\ \E pc \in {"running", "failing"} : lane'[l] = [lane[l] EXCEPT !.pc = pc]

\* The two are functions before and after.
Shape == job' = [j \in Job |-> job'[j]] /\ lane' = [l \in Lane |-> lane'[l]]
Moves == Shape /\ (\A j \in Job : RowMove(j)) /\ (\A l \in Lane : LaneMove(l))

\* The rows of lanes that hold one exist.
LEMMA LaneJob ==
  ASSUME IndInv, NEW l \in Lane, lane[l].pc # "idle"
  PROVE  lane[l].job \in Job
  BY DEF IndInv, TypeOK, LaneType, OpenClaim, LaneAttempt, AtWork

\* A step of a lane moves rows and lanes as described.
LEMMA LaneMoves ==
  ASSUME IndInv, NEW l \in Lane, LaneStep(l)
  PROVE  Moves
<1> DEFINE j == lane[l].job
<1>0. job \in [Job -> RowType] /\ lane \in [Lane -> LaneType]
  BY DEF IndInv, TypeOK
<1>1. CASE SelectJob(l)
  BY <1>0, <1>1 DEF SelectJob, Moves, Shape, RowMove, LaneMove
<1>2. CASE CommitClaim(l)
  <2>1. lane[l].job \in Job
    BY <1>2, LaneJob DEF CommitClaim
  <2> QED BY <1>0, <1>2, <2>1 DEF CommitClaim, Moves, Shape, RowMove, LaneMove
<1>3. CASE StartHandler(l)
  <2>1. j \in Job /\ AtWork(l)
    BY <1>3, LaneJob DEF StartHandler, AtWork
  <2> QED BY <1>0, <1>3, <2>1
    DEF StartHandler, LeaveLane, Owned, Moves, Shape, RowMove, LaneMove
<1>4. CASE HandlerReturns(l)
  <2>1. j \in Job
    BY <1>4, LaneJob DEF HandlerReturns
  <2>2. lane' = [lane EXCEPT ![l] = Idle]
    BY <1>4 DEF HandlerReturns, LeaveLane
  <2>3. CASE ~Owned(l)
    BY <1>0, <1>4, <2>2, <2>3 DEF HandlerReturns, Moves, Shape, RowMove, LaneMove
  <2>4. CASE Owned(l) /\ j \notin Recurring
    BY <1>0, <1>4, <2>1, <2>2, <2>4
    DEF HandlerReturns, Owned, Moves, Shape, RowMove, LaneMove
  <2>5. CASE Owned(l) /\ j \in Recurring
    <3>1. PICK k \in Recurring : /\ job[k].status = "absent"
                                 /\ job' = [[job EXCEPT ![j] = Ended(@, "succeeded")]
                                              EXCEPT ![k] = Fresh(FALSE)]
      BY <1>4, <2>5 DEF HandlerReturns
    <3>2. k \in Job /\ k # j
      BY <2>5, <3>1, JobAssumption DEF Owned
    <3> QED BY <1>0, <2>1, <2>2, <2>5, <3>1, <3>2
      DEF Owned, Moves, Shape, RowMove, LaneMove
  <2> QED BY <2>3, <2>4, <2>5
<1>5. CASE HandlerFails(l)
  BY <1>0, <1>5 DEF HandlerFails, AtWork, Moves, Shape, RowMove, LaneMove
<1>6. CASE Heartbeat(l)
  <2>1. j \in Job
    BY <1>6, LaneJob DEF Heartbeat
  <2> QED BY <1>0, <1>6, <2>1 DEF Heartbeat, LeaveLane, Moves, Shape, RowMove, LaneMove
<1>7. CASE RecordFailure(l)
  <2>1. j \in Job
    BY <1>7, LaneJob DEF RecordFailure
  <2> QED BY <1>0, <1>7, <2>1
    DEF RecordFailure, LeaveLane, Owned, Moves, Shape, RowMove, LaneMove
<1>8. CASE RecordLost(l)
  BY <1>0, <1>8 DEF RecordLost, LeaveLane, Moves, Shape, RowMove, LaneMove
<1> QED BY <1>1, <1>2, <1>3, <1>4, <1>5, <1>6, <1>7, <1>8 DEF LaneStep

\* So does every step.
LEMMA StepMoves == IndInv /\ [Next]_vars => Moves
<1> SUFFICES ASSUME IndInv, [Next]_vars PROVE Moves
  OBVIOUS
<1>0. job \in [Job -> RowType] /\ lane \in [Lane -> LaneType]
  BY DEF IndInv, TypeOK
<1>1. CASE \E l \in Lane : LaneStep(l)
  BY <1>1, LaneMoves
<1>2. CASE \E j \in Job : RowStep(j)
  <2>1. PICK j \in Job : RowStep(j)
    BY <1>2
  <2>2. CASE Enqueue(j)
    BY <1>0, <2>2 DEF Enqueue, Moves, Shape, RowMove, LaneMove
  <2>3. CASE Purge(j)
    BY <1>0, <2>3 DEF Purge, Moves, Shape, RowMove, LaneMove
  <2>4. CASE BecomesDue(j)
    BY <1>0, <2>4 DEF BecomesDue, Moves, Shape, RowMove, LaneMove
  <2>5. CASE LeaseExpires(j)
    BY <1>0, <2>5 DEF LeaseExpires, Moves, Shape, RowMove, LaneMove
  <2> QED BY <2>1, <2>2, <2>3, <2>4, <2>5 DEF RowStep
<1>3. CASE Pass
  <2> DEFINE reclaimed == [j \in Job |-> IF Stale(j) THEN Failed(j) ELSE job[j]]
  <2>1. CASE Missing = {}
    BY <1>0, <1>3, <2>1 DEF Pass, Stale, Moves, Shape, RowMove, LaneMove
  <2>2. CASE Missing # {}
    <3>1. PICK k \in Missing : job' = [reclaimed EXCEPT ![k] = Fresh(TRUE)]
      BY <1>3, <2>2 DEF Pass
    <3>2. k \in Job /\ job[k].status = "absent"
      BY <3>1, JobAssumption DEF Missing
    <3>3. UNCHANGED lane
      BY <1>3 DEF Pass
    <3> QED BY <1>0, <3>1, <3>2, <3>3 DEF Stale, Moves, Shape, RowMove, LaneMove
  <2> QED BY <2>1, <2>2
<1>4. CASE \E p \in Process : Crash(p)
  BY <1>0, <1>4 DEF Crash, Moves, Shape, RowMove, LaneMove
<1>5. CASE UNCHANGED vars
  BY <1>0, <1>5 DEF vars, Moves, Shape, RowMove, LaneMove
<1> QED BY <1>1, <1>2, <1>3, <1>4, <1>5 DEF Next

-----------------------------------------------------------------------------
(* The conjuncts about a row alone.                                        *)

RowOK(row, j) ==
  /\ row \in RowType
  /\ row.status = "pending" => row.attempts < MaxAttempts
  /\ row.status = "failed" => row.attempts = MaxAttempts \/ j \in Unregistered

\* New rows and purged ones are well-formed.
LEMMA FreshRow ==
  ASSUME NEW j \in Job, NEW due \in BOOLEAN
  PROVE  RowOK(Fresh(due), j) /\ RowOK(Absent, j)
<1>1. 0 \in 0..MaxAttempts /\ 0 < MaxAttempts
  BY AttemptsAssumption
<1>2. RowOK(Absent, j) /\ Absent \in RowType /\ Absent.attempts = 0
  BY <1>1 DEF RowOK, RowType, Absent
<1>3. Fresh(due) = [Absent EXCEPT !.status = "pending", !.due = due]
  BY DEF Fresh
<1>4. Fresh(due) \in RowType
  BY <1>2, <1>3 DEF RowType
<1>5. Fresh(due).status = "pending" /\ Fresh(due).attempts = 0
  BY <1>2, <1>3 DEF RowType
<1> QED BY <1>1, <1>2, <1>4, <1>5 DEF RowOK

\* A row that is finalised goes back to waiting only with an attempt left.
LEMMA FailedRow ==
  ASSUME NEW j \in Job, RowOK(job[j], j)
  PROVE  RowOK(Failed(j), j)
<1>1. job[j] \in RowType /\ job[j].attempts \in 0..MaxAttempts
  BY DEF RowOK, RowType
<1>2. CASE Exhausted(j)
  <2>1. job[j].attempts = MaxAttempts
    BY <1>1, <1>2, AttemptsAssumption DEF Exhausted
  <2>2. Failed(j) = [job[j] EXCEPT !.status = "failed", !.by = NoProcess,
                                   !.lease = "none", !.due = FALSE]
    BY <1>2 DEF Failed, Ended
  <2> QED BY <1>1, <2>1, <2>2 DEF RowOK, RowType
<1>3. CASE ~Exhausted(j)
  <2>1. job[j].attempts < MaxAttempts
    BY <1>1, <1>3, AttemptsAssumption DEF Exhausted
  <2>2. Failed(j) = [job[j] EXCEPT !.status = "pending", !.by = NoProcess,
                                   !.lease = "none", !.due = FALSE]
    BY <1>3 DEF Failed, Ended
  <2> QED BY <1>1, <2>1, <2>2 DEF RowOK, RowType
<1> QED BY <1>2, <1>3

\* Every move of a row preserves what is said about it.
LEMMA RowPreserved ==
  ASSUME IndInv, Moves, NEW j \in Job
  PROVE  RowOK(job'[j], j)
<1>0. RowOK(job[j], j)
  BY DEF IndInv, TypeOK, AttemptsLeft, GivenUpLast, RowOK
<1>1. job[j] \in RowType /\ RowMove(j)
  BY <1>0 DEF RowOK, Moves
<1>2. CASE job'[j] = job[j]
  BY <1>0, <1>2
<1>3. CASE \E due \in BOOLEAN : job'[j] = [job[j] EXCEPT !.due = due]
  BY <1>0, <1>1, <1>3 DEF RowOK, RowType
<1>4. CASE \E lease \in {"live", "expired"} : job'[j] = [job[j] EXCEPT !.lease = lease]
  BY <1>0, <1>1, <1>4 DEF RowOK, RowType
<1>5. CASE \E due \in BOOLEAN : job'[j] = Fresh(due)
  BY <1>5, FreshRow
<1>6. CASE job'[j] = Failed(j)
  BY <1>0, <1>6, FailedRow
<1>7. CASE job'[j] = Ended(job[j], "succeeded")
  BY <1>0, <1>1, <1>7 DEF RowOK, RowType, Ended
<1>8. CASE j \in Unregistered /\ job'[j] = Ended(job[j], "failed")
  BY <1>0, <1>1, <1>8 DEF RowOK, RowType, Ended
<1>9. CASE job'[j] = Absent
  BY <1>9, FreshRow
<1>10. CASE \E l \in Lane : CommitClaim(l) /\ lane[l].job = j
  <2>1. PICK l \in Lane : CommitClaim(l) /\ lane[l].job = j
    BY <1>10
  <2>2. job[j].status = "pending"
    BY <2>1 DEF CommitClaim, IndInv, OpenClaim
  <2>3. job[j].attempts + 1 \in 0..MaxAttempts
    BY <1>0, <2>2, AttemptsAssumption DEF RowOK, RowType
  <2>4. ProcessOf[l] \in Process
    BY ProcessAssumption
  <2>5. job'[j] = [job[j] EXCEPT !.status = "running", !.by = ProcessOf[l],
                                 !.lease = "live", !.attempts = job[j].attempts + 1]
    BY <2>1 DEF CommitClaim, IndInv, TypeOK
  <2> QED BY <1>1, <2>3, <2>4, <2>5 DEF RowOK, RowType
<1> QED BY <1>1, <1>2, <1>3, <1>4, <1>5, <1>6, <1>7, <1>8, <1>9, <1>10 DEF RowMove

-----------------------------------------------------------------------------
(* The conjuncts about lanes.                                              *)

Working == {"claimed", "running", "failing"}
LaneOK(entry) ==
  /\ entry \in LaneType
  /\ entry.pc \in Working => entry.job \in Job /\ entry.attempt \in 1..MaxAttempts

\* Every move of a lane keeps it typed and its attempt known.
LEMMA LanePreserved ==
  ASSUME IndInv, Moves, NEW l \in Lane
  PROVE  LaneOK(lane'[l])
<1>0. LaneOK(lane[l]) /\ lane[l] \in LaneType /\ LaneMove(l)
  BY DEF IndInv, TypeOK, LaneAttempt, LaneOK, AtWork, Working, Moves
<1>1. CASE lane'[l] = lane[l]
  BY <1>0, <1>1
<1>2. CASE lane'[l] = Idle
  BY <1>2, AttemptsAssumption DEF LaneOK, Working, Idle, LaneType
<1>3. CASE SelectJob(l)
  <2>1. PICK j \in Job : lane' = [lane EXCEPT ![l] = [Idle EXCEPT !.pc = "claiming", !.job = j]]
    BY <1>3 DEF SelectJob
  <2>2. lane'[l] = [pc |-> "claiming", job |-> j, attempt |-> 0]
    BY <2>1 DEF Idle, IndInv, TypeOK
  <2> QED BY <2>2, AttemptsAssumption DEF LaneOK, Working, LaneType
<1>4. CASE CommitClaim(l)
  <2> DEFINE j == lane[l].job
  <2>1. j \in Job /\ job[j] \in RowType /\ job[j].attempts < MaxAttempts
    BY <1>4 DEF CommitClaim, IndInv, TypeOK, OpenClaim, AttemptsLeft
  <2>2. job[j].attempts + 1 \in 1..MaxAttempts
    BY <2>1, AttemptsAssumption DEF RowType
  <2>3. lane'[l] = [lane[l] EXCEPT !.pc = "claimed", !.attempt = job[j].attempts + 1]
    BY <1>4 DEF CommitClaim, IndInv, TypeOK
  <2>4. job[j].attempts + 1 \in 0..MaxAttempts
    BY <2>2, AttemptsAssumption
  <2> QED BY <1>0, <2>1, <2>2, <2>3, <2>4 DEF LaneOK, Working, LaneType
<1>5. CASE AtWork(l) /\ \E pc \in {"running", "failing"} : lane'[l] = [lane[l] EXCEPT !.pc = pc]
  BY <1>0, <1>5 DEF LaneOK, AtWork, Working, LaneType
<1> QED BY <1>0, <1>1, <1>2, <1>3, <1>4, <1>5 DEF LaneMove

\* Together: types, attempts left, reasons to give up, known attempts.
LEMMA LocalPreserved ==
  ASSUME IndInv, Moves
  PROVE  /\ job' \in [Job -> RowType] /\ lane' \in [Lane -> LaneType]
         /\ AttemptsLeft' /\ GivenUpLast' /\ LaneAttempt'
<1>1. \A j \in Job : RowOK(job'[j], j)
  BY RowPreserved
<1>2. \A l \in Lane : LaneOK(lane'[l])
  BY LanePreserved
<1>3. job' = [j \in Job |-> job'[j]] /\ lane' = [l \in Lane |-> lane'[l]]
  BY DEF Moves, Shape
<1>4. job' \in [Job -> RowType]
  BY <1>1, <1>3 DEF RowOK
<1>5. lane' \in [Lane -> LaneType]
  BY <1>2, <1>3 DEF LaneOK
<1>6. AttemptsLeft' /\ GivenUpLast'
  BY <1>1 DEF AttemptsLeft, GivenUpLast, RowOK
<1>7. LaneAttempt'
  BY <1>2 DEF LaneAttempt, LaneOK, AtWork, Working
<1> QED BY <1>4, <1>5, <1>6, <1>7

-----------------------------------------------------------------------------
(* Claims exclude each other.                                              *)

\* A waiting row keeps waiting unless the claim that holds it commits.
LEMMA WaitingStays ==
  ASSUME IndInv, Moves, NEW j \in Job, job[j].status = "pending",
         \A l \in Lane : ~(CommitClaim(l) /\ lane[l].job = j)
  PROVE  job'[j].status = "pending"
<1>1. job[j] \in RowType /\ RowMove(j)
  BY DEF IndInv, TypeOK, Moves
<1> QED BY <1>1 DEF RowMove, RowType, IsTerminal

\* A claim is open after a step if it was before or has just selected its row.
LEMMA ClaimOrigin ==
  ASSUME IndInv, Moves, NEW l \in Lane, lane'[l].pc = "claiming"
  PROVE  lane'[l] = lane[l] \/ SelectJob(l)
<1>1. LaneMove(l) /\ lane[l] \in LaneType /\ lane \in [Lane -> LaneType]
  BY DEF IndInv, TypeOK, Moves
<1>2. CommitClaim(l) => lane'[l].pc = "claimed"
  BY <1>1 DEF CommitClaim, LaneType
<1>3. AtWork(l) => \A pc \in {"running", "failing"} :
        lane'[l] = [lane[l] EXCEPT !.pc = pc] => lane'[l].pc = pc
  BY <1>1 DEF LaneType
<1> QED BY <1>1, <1>2, <1>3 DEF LaneMove, Idle

LEMMA Selected ==
  ASSUME IndInv, NEW l \in Lane, SelectJob(l)
  PROVE  /\ job' = job /\ \A m \in Lane \ {l} : lane'[m] = lane[m]
         /\ lane'[l].job \in Job /\ job[lane'[l].job].status = "pending"
         /\ ~Locked(lane'[l].job)
<1>1. PICK j \in Job :
        /\ Eligible(j) /\ ~Locked(j)
        /\ lane' = [lane EXCEPT ![l] = [Idle EXCEPT !.pc = "claiming", !.job = j]]
  BY DEF SelectJob
<1>2. lane'[l].job = j /\ \A m \in Lane \ {l} : lane'[m] = lane[m]
  BY <1>1 DEF Idle, IndInv, TypeOK
<1> QED BY <1>1, <1>2 DEF Eligible, Claimable, SelectJob

LEMMA OpenClaimPreserved ==
  ASSUME IndInv, Moves
  PROVE  OpenClaim'
<1> SUFFICES ASSUME NEW l \in Lane, lane'[l].pc = "claiming"
             PROVE  /\ lane'[l].job \in Job /\ job'[lane'[l].job].status = "pending"
                    /\ \A m \in Lane :
                         lane'[m].pc = "claiming" /\ lane'[m].job = lane'[l].job => m = l
  BY DEF OpenClaim
<1>1. CASE \E k \in Lane : SelectJob(k)
  <2>1. PICK k \in Lane : SelectJob(k)
    BY <1>1
  <2>2. /\ job' = job /\ \A m \in Lane \ {k} : lane'[m] = lane[m]
        /\ lane'[k].job \in Job /\ job[lane'[k].job].status = "pending"
        /\ ~Locked(lane'[k].job)
    BY <2>1, Selected
  <2>3. \A m \in Lane \ {k} : lane'[m].pc = "claiming" => lane'[m].job # lane'[k].job
    BY <2>2 DEF Locked
  <2>4. OpenClaim
    BY DEF IndInv
  <2> QED BY <2>2, <2>3, <2>4 DEF OpenClaim
<1>2. CASE \A k \in Lane : ~SelectJob(k)
  <2>1. \A m \in Lane : lane'[m].pc = "claiming" => lane'[m] = lane[m]
    BY <1>2, ClaimOrigin
  <2>2. OpenClaim
    BY DEF IndInv
  <2>3. lane[l].job \in Job /\ job[lane[l].job].status = "pending"
    BY <2>1, <2>2 DEF OpenClaim
  <2>4. \A m \in Lane : ~(CommitClaim(m) /\ lane[m].job = lane[l].job)
    <3> SUFFICES ASSUME NEW m \in Lane, CommitClaim(m), lane[m].job = lane[l].job
                 PROVE  FALSE
      OBVIOUS
    <3>1. m = l
      BY <2>1, <2>2 DEF OpenClaim, CommitClaim
    <3>2. lane'[m].pc = "claimed"
      BY DEF CommitClaim, IndInv, TypeOK, LaneType
    <3> QED BY <3>1, <3>2
  <2>5. job'[lane[l].job].status = "pending"
    BY <2>3, <2>4, WaitingStays
  <2> QED BY <2>1, <2>2, <2>3, <2>5 DEF OpenClaim
<1> QED BY <1>1, <1>2

-----------------------------------------------------------------------------
(* The fence, where each process has one lane.                             *)

\* A row that is running after a step ran before it, unless it was claimed.
LEMMA RunningStays ==
  ASSUME IndInv, Moves, NEW j \in Job, job'[j].status = "running",
         \A l \in Lane : ~(CommitClaim(l) /\ lane[l].job = j)
  PROVE  /\ job[j].status = "running"
         /\ job'[j].by = job[j].by /\ job'[j].attempts = job[j].attempts
<1>1. job[j] \in RowType /\ RowMove(j)
  BY DEF IndInv, TypeOK, Moves
<1>2. \A due \in BOOLEAN : Fresh(due).status # "running" /\ Absent.status # "running"
  BY DEF Fresh, Absent
<1>3. Failed(j).status # "running"
  BY <1>1 DEF Failed, Ended, RowType
<1>4. \A status \in {"succeeded", "failed"} : Ended(job[j], status).status # "running"
  BY <1>1 DEF Ended, RowType
<1> QED BY <1>1, <1>2, <1>3, <1>4 DEF RowMove, RowType

\* A commit makes the lane owner of the attempt it knows.
LEMMA Committed ==
  ASSUME IndInv, NEW l \in Lane, CommitClaim(l)
  PROVE  /\ lane[l].job \in Job
         /\ lane'[l].job = lane[l].job /\ \A m \in Lane \ {l} : lane'[m] = lane[m]
         /\ job'[lane[l].job].by = ProcessOf[l]
         /\ lane'[l].attempt = job'[lane[l].job].attempts
         /\ \A j \in Job \ {lane[l].job} : job'[j] = job[j]
<1>1. lane[l].job \in Job /\ lane[l] \in LaneType /\ job[lane[l].job] \in RowType
  BY DEF CommitClaim, IndInv, OpenClaim, TypeOK
<1>2. /\ job'[lane[l].job] = [job[lane[l].job] EXCEPT
            !.status = "running", !.by = ProcessOf[l],
            !.lease = "live", !.attempts = job[lane[l].job].attempts + 1]
      /\ \A j \in Job \ {lane[l].job} : job'[j] = job[j]
  BY <1>1 DEF CommitClaim, IndInv, TypeOK
<1>3. /\ lane'[l] = [lane[l] EXCEPT !.pc = "claimed",
                        !.attempt = job[lane[l].job].attempts + 1]
      /\ \A m \in Lane \ {l} : lane'[m] = lane[m]
  BY <1>1 DEF CommitClaim, IndInv, TypeOK
<1> QED BY <1>1, <1>2, <1>3 DEF RowType, LaneType

\* A lane at work was at work on the same attempt, unless it has just claimed.
LEMMA WorkOrigin ==
  ASSUME IndInv, Moves, NEW l \in Lane, AtWork(l)', ~CommitClaim(l)
  PROVE  AtWork(l) /\ lane'[l].job = lane[l].job /\ lane'[l].attempt = lane[l].attempt
<1>1. LaneMove(l) /\ lane[l] \in LaneType /\ lane \in [Lane -> LaneType]
  BY DEF IndInv, TypeOK, Moves
<1>2. SelectJob(l) => lane'[l].pc = "claiming"
  BY <1>1 DEF SelectJob, Idle
<1> QED BY <1>1, <1>2 DEF LaneMove, AtWork, Idle, LaneType

LEMMA FencePreserved ==
  ASSUME IndInv, Moves
  PROVE  FencedAttempt'
<1> SUFFICES ASSUME SingleLane, NEW l \in Lane, AtWork(l)', Owned(l)'
             PROVE  lane'[l].attempt = job'[lane'[l].job].attempts
  BY DEF FencedAttempt, SingleLane
<1>1. CASE \E m \in Lane : CommitClaim(m) /\ lane[m].job = lane'[l].job
  <2>1. PICK m \in Lane : CommitClaim(m) /\ lane[m].job = lane'[l].job
    BY <1>1
  <2>2. job'[lane[m].job].by = ProcessOf[m] /\ lane'[m].attempt = job'[lane[m].job].attempts
    BY <2>1, Committed
  <2>3. ProcessOf[l] = ProcessOf[m]
    BY <2>1, <2>2 DEF Owned
  <2>4. l = m
    BY <2>3 DEF SingleLane
  <2> QED BY <2>1, <2>2, <2>4
<1>2. CASE ~\E m \in Lane : CommitClaim(m) /\ lane[m].job = lane'[l].job
  <2>1. ~CommitClaim(l)
    BY <1>2, Committed
  <2>2. AtWork(l) /\ lane'[l].job = lane[l].job /\ lane'[l].attempt = lane[l].attempt
    BY <2>1, WorkOrigin
  <2>3. lane[l].job \in Job
    BY <2>2 DEF IndInv, LaneAttempt
  <2>4. job'[lane[l].job].status = "running" /\ job'[lane[l].job].by = ProcessOf[l]
    BY <2>2 DEF Owned
  <2>5. /\ job[lane[l].job].status = "running" /\ job[lane[l].job].by = ProcessOf[l]
        /\ job'[lane[l].job].attempts = job[lane[l].job].attempts
    BY <1>2, <2>2, <2>3, <2>4, RunningStays
  <2>6. lane[l].attempt = job[lane[l].job].attempts
    BY <2>2, <2>5 DEF IndInv, FencedAttempt, Owned
  <2> QED BY <2>2, <2>5, <2>6
<1> QED BY <1>1, <1>2

-----------------------------------------------------------------------------
(* The effects of one attempt count.                                       *)

SameSuccesses ==
  /\ UNCHANGED effects
  /\ \A j \in Job : job'[j].status = "succeeded" <=> job[j].status = "succeeded"

\* Only the return of a handler and the purge of a row touch effects.
LEMMA LaneSuccesses ==
  ASSUME IndInv, NEW l \in Lane, LaneStep(l), ~HandlerReturns(l)
  PROVE  SameSuccesses
<1>0. job \in [Job -> RowType] /\ lane \in [Lane -> LaneType]
  BY DEF IndInv, TypeOK
<1>1. CASE SelectJob(l) \/ HandlerFails(l) \/ RecordLost(l)
  BY <1>1 DEF SelectJob, HandlerFails, RecordLost, SameSuccesses
<1>2. CASE CommitClaim(l)
  <2>1. lane[l].job \in Job /\ job[lane[l].job].status = "pending"
    BY <1>2 DEF CommitClaim, IndInv, OpenClaim
  <2> QED BY <1>0, <1>2, <2>1 DEF CommitClaim, SameSuccesses, RowType
<1>3. CASE StartHandler(l)
  <2>1. lane[l].job \in Job
    BY <1>3, LaneJob DEF StartHandler
  <2>2. Owned(l) => Ended(job[lane[l].job], "failed").status # "succeeded"
                    /\ job[lane[l].job].status # "succeeded"
    BY <1>0, <2>1 DEF Owned, Ended, RowType
  <2>3. CASE job' = job
    BY <1>3, <2>3 DEF StartHandler, SameSuccesses
  <2>4. CASE job' = [job EXCEPT ![lane[l].job] = Ended(@, "failed")] /\ Owned(l)
    BY <1>0, <1>3, <2>1, <2>2, <2>4 DEF StartHandler, SameSuccesses
  <2> QED BY <1>3, <2>3, <2>4 DEF StartHandler
<1>4. CASE Heartbeat(l)
  <2>1. lane[l].job \in Job
    BY <1>4, LaneJob DEF Heartbeat
  <2> QED BY <1>0, <1>4, <2>1 DEF Heartbeat, SameSuccesses, RowType
<1>5. CASE RecordFailure(l)
  <2>1. lane[l].job \in Job
    BY <1>5, LaneJob DEF RecordFailure
  <2>2. Owned(l) => Failed(lane[l].job).status # "succeeded"
                    /\ job[lane[l].job].status # "succeeded"
    BY <1>0, <2>1 DEF Owned, Failed, Ended, RowType
  <2> QED BY <1>0, <1>5, <2>1, <2>2 DEF RecordFailure, SameSuccesses
<1> QED BY <1>1, <1>2, <1>3, <1>4, <1>5 DEF LaneStep

LEMMA OtherSuccesses ==
  ASSUME IndInv, NEW j \in Job, Enqueue(j) \/ BecomesDue(j) \/ LeaseExpires(j) \/ Pass
  PROVE  SameSuccesses
<1>0. job \in [Job -> RowType]
  BY DEF IndInv, TypeOK
<1>1. \A due \in BOOLEAN : Fresh(due).status = "pending"
  BY DEF Fresh, Absent
<1>2. CASE Enqueue(j)
  BY <1>0, <1>1, <1>2 DEF Enqueue, SameSuccesses
<1>3. CASE BecomesDue(j)
  BY <1>0, <1>3 DEF BecomesDue, SameSuccesses, RowType
<1>4. CASE LeaseExpires(j)
  BY <1>0, <1>4 DEF LeaseExpires, SameSuccesses, RowType
<1>5. CASE Pass
  <2> DEFINE reclaimed == [k \in Job |-> IF Stale(k) THEN Failed(k) ELSE job[k]]
  <2>1. \A k \in Job : reclaimed[k].status = "succeeded" <=> job[k].status = "succeeded"
    BY <1>0 DEF Stale, Failed, Ended, RowType
  <2>2. CASE Missing = {}
    BY <1>5, <2>1, <2>2 DEF Pass, SameSuccesses
  <2>3. CASE Missing # {}
    <3>1. PICK k \in Missing : job' = [reclaimed EXCEPT ![k] = Fresh(TRUE)]
      BY <1>5, <2>3 DEF Pass
    <3>2. k \in Job /\ job[k].status = "absent"
      BY <3>1, JobAssumption DEF Missing
    <3>3. UNCHANGED effects
      BY <1>5 DEF Pass
    <3> HIDE DEF reclaimed
    <3>4. \A i \in Job : job'[i] = IF i = k THEN Fresh(TRUE) ELSE reclaimed[i]
      BY <3>1, <3>2 DEF reclaimed
    <3> QED BY <1>1, <2>1, <3>2, <3>3, <3>4 DEF SameSuccesses
  <2> QED BY <2>2, <2>3
<1> QED BY <1>2, <1>3, <1>4, <1>5

\* A handler's effects are committed on a running row, which has none.
LEMMA ReturnEffects ==
  ASSUME IndInv, NEW l \in Lane, HandlerReturns(l)
  PROVE  effects' \in [Job -> SUBSET (1..MaxAttempts)] /\ EffectsOnce'
<1> DEFINE j == lane[l].job
<1>0. /\ job \in [Job -> RowType] /\ effects \in [Job -> SUBSET (1..MaxAttempts)]
      /\ EffectsOnce
  BY DEF IndInv, TypeOK
<1>1. CASE ~Owned(l)
  BY <1>0, <1>1 DEF HandlerReturns, EffectsOnce
<1>2. CASE Owned(l)
  <2>1. j \in Job /\ lane[l].attempt \in 1..MaxAttempts
    BY DEF HandlerReturns, IndInv, LaneAttempt, AtWork
  <2>2. job[j].status = "running"
    BY <1>2 DEF Owned
  <2>3. effects[j] = {}
    BY <1>0, <2>1, <2>2 DEF EffectsOnce
  <2>4. effects' = [effects EXCEPT ![j] = {lane[l].attempt}]
    BY <1>2, <2>3 DEF HandlerReturns
  <2>5. job'[j].status = "succeeded" /\ \A k \in Job \ {j} :
           job'[k].status = "succeeded" <=> job[k].status = "succeeded"
    <3>1. Ended(job[j], "succeeded").status = "succeeded"
      BY <1>0, <2>1 DEF Ended, RowType
    <3>2. CASE j \notin Recurring
      BY <1>0, <1>2, <2>1, <3>1, <3>2 DEF HandlerReturns
    <3>3. CASE j \in Recurring
      <4>1. PICK k \in Recurring : /\ job[k].status = "absent"
                                   /\ job' = [[job EXCEPT ![j] = Ended(@, "succeeded")]
                                                EXCEPT ![k] = Fresh(FALSE)]
        BY <1>2, <3>3 DEF HandlerReturns
      <4>2. k \in Job /\ k # j
        BY <2>2, <4>1, JobAssumption
      <4>3. Fresh(FALSE).status = "pending"
        BY DEF Fresh, Absent
      <4> QED BY <1>0, <2>1, <3>1, <4>1, <4>2, <4>3
    <3> QED BY <3>2, <3>3
  <2>6. effects' \in [Job -> SUBSET (1..MaxAttempts)]
    BY <1>0, <2>1, <2>4
  <2>7. Cardinality({lane[l].attempt}) = 1
    BY FS_Singleton, Zenon
  <2>8. effects'[j] = {lane[l].attempt} /\ \A k \in Job \ {j} : effects'[k] = effects[k]
    BY <1>0, <2>1, <2>4
  <2>9. \A k \in Job : Cardinality(effects'[k]) <= 1
    <3> SUFFICES ASSUME NEW k \in Job PROVE Cardinality(effects'[k]) <= 1
      OBVIOUS
    <3>1. CASE k = j
      BY <2>7, <2>8, <3>1
    <3>2. CASE k # j
      BY <1>0, <2>8, <3>2 DEF EffectsOnce
    <3> QED BY <3>1, <3>2
  <2>10. \A k \in Job : effects'[k] # {} <=> job'[k].status = "succeeded"
    BY <1>0, <2>1, <2>5, <2>8 DEF EffectsOnce
  <2> QED BY <2>6, <2>9, <2>10 DEF EffectsOnce
<1> QED BY <1>1, <1>2

LEMMA PurgeEffects ==
  ASSUME IndInv, NEW j \in Job, Purge(j)
  PROVE  effects' \in [Job -> SUBSET (1..MaxAttempts)] /\ EffectsOnce'
<1>1. /\ job \in [Job -> RowType] /\ effects \in [Job -> SUBSET (1..MaxAttempts)]
      /\ EffectsOnce
  BY DEF IndInv, TypeOK
<1>2. Cardinality({}) <= 1
  BY FS_EmptySet
<1>3. Absent.status = "absent"
  BY DEF Absent
<1> QED BY <1>1, <1>2, <1>3 DEF Purge, EffectsOnce

LEMMA EffectsPreserved ==
  ASSUME IndInv, [Next]_vars
  PROVE  effects' \in [Job -> SUBSET (1..MaxAttempts)] /\ EffectsOnce'
<1>1. effects \in [Job -> SUBSET (1..MaxAttempts)] /\ EffectsOnce
  BY DEF IndInv, TypeOK
<1>2. SameSuccesses => EffectsOnce' /\ UNCHANGED effects
  BY <1>1 DEF SameSuccesses, EffectsOnce
<1>3. CASE \E l \in Lane : LaneStep(l)
  BY <1>1, <1>2, <1>3, LaneSuccesses, ReturnEffects
<1>4. CASE \E j \in Job : RowStep(j)
  BY <1>1, <1>2, <1>4, OtherSuccesses, PurgeEffects DEF RowStep
<1>5. CASE Pass
  <2>1. CASE Job = {}
    BY <1>1, <1>5, <2>1 DEF Pass, EffectsOnce
  <2>2. CASE Job # {}
    BY <1>1, <1>2, <1>5, <2>2, OtherSuccesses
  <2> QED BY <2>1, <2>2
<1>6. CASE (\E p \in Process : Crash(p)) \/ UNCHANGED vars
  BY <1>1, <1>6 DEF Crash, vars, EffectsOnce
<1> QED BY <1>3, <1>4, <1>5, <1>6 DEF Next

-----------------------------------------------------------------------------
(* Open claims and running rows of a bucket.                               *)

LEMMA Finite ==
  ASSUME NEW b
  PROVE  /\ IsFiniteSet(Running(Charged(b))) /\ IsFiniteSet(Claiming(b))
         /\ IsFiniteSet(Running(Charged(b))') /\ IsFiniteSet(Claiming(b)')
         /\ Cardinality(Claiming(b)) <= Cardinality(Lane)
         /\ Cardinality(Claiming(b)') <= Cardinality(Lane)
<1>1. Running(Charged(b)) \subseteq Job /\ Running(Charged(b))' \subseteq Job
  BY DEF Running, Charged
<1>2. Claiming(b) \subseteq Lane /\ Claiming(b)' \subseteq Lane
  BY DEF Claiming
<1> QED BY <1>1, <1>2, FiniteAssumption, FS_Subset

\* Without a commit in the bucket none of its rows starts to run; without a
\* selection none of its claims opens.
LEMMA BucketStays ==
  ASSUME IndInv, Moves, NEW b
  PROVE  /\ (\A l \in Lane : CommitClaim(l) => BucketOf[lane[l].job] # b)
            => Running(Charged(b))' \subseteq Running(Charged(b))
         /\ (\A l \in Lane : SelectJob(l) => BucketOf[lane'[l].job] # b)
            => Claiming(b)' \subseteq Claiming(b)
<1>1. ASSUME \A l \in Lane : CommitClaim(l) => BucketOf[lane[l].job] # b
      PROVE  Running(Charged(b))' \subseteq Running(Charged(b))
  <2> SUFFICES ASSUME NEW j \in Job, BucketOf[j] = b, job'[j].status = "running"
               PROVE  job[j].status = "running"
    BY DEF Running, Charged
  <2>1. \A l \in Lane : ~(CommitClaim(l) /\ lane[l].job = j)
    BY <1>1
  <2> QED BY <2>1, RunningStays
<1>2. ASSUME \A l \in Lane : SelectJob(l) => BucketOf[lane'[l].job] # b
      PROVE  Claiming(b)' \subseteq Claiming(b)
  BY <1>2, ClaimOrigin DEF Claiming
<1> QED BY <1>1, <1>2

\* A selection finds the bucket below its limit.
LEMMA SelectedBelow ==
  ASSUME IndInv, NEW l \in Lane, SelectJob(l), NEW b \in Buckets,
         BucketOf[lane'[l].job] = b
  PROVE  Cardinality(Running(Charged(b))) < Limit
<1>1. PICK j \in Job :
        /\ Eligible(j)
        /\ lane' = [lane EXCEPT ![l] = [Idle EXCEPT !.pc = "claiming", !.job = j]]
  BY DEF SelectJob
<1>2. lane'[l].job = j
  BY <1>1 DEF Idle, IndInv, TypeOK
<1>3. b # NoBucket /\ SameBucket(j) = Charged(b)
  BY <1>2 DEF Buckets, SameBucket, Charged
<1>4. Claimable(j) /\ Rank(j) + Cardinality(Running(Charged(b))) <= Limit
  BY <1>1, <1>2, <1>3 DEF Eligible
<1> DEFINE ahead == {k \in SameBucket(j) : Claimable(k) /\ k <= j}
<1>5. j \in ahead
  <2>1. j \in Nat
    BY JobAssumption
  <2> QED BY <1>4, <2>1 DEF SameBucket
<1>6. IsFiniteSet(ahead)
  <2>1. ahead \subseteq Job
    BY DEF SameBucket
  <2> QED BY <2>1, FiniteAssumption, FS_Subset
<1>7. Cardinality(ahead) \in Nat /\ Cardinality(ahead) # 0
  BY <1>5, <1>6, FS_CardinalityType, FS_EmptySet
<1>8. Cardinality(Running(Charged(b))) \in Nat
  BY Finite, FS_CardinalityType
<1>9. Rank(j) = Cardinality(ahead)
  BY DEF Rank
<1> HIDE DEF ahead
<1> QED BY <1>4, <1>7, <1>8, <1>9, LimitAssumption

LEMMA ClaimBoundPreserved ==
  ASSUME IndInv, Moves
  PROVE  ClaimBound'
<1> SUFFICES ASSUME NEW b \in Buckets
             PROVE  Cardinality(Running(Charged(b))') + Cardinality(Claiming(b)')
                      < Limit + Cardinality(Lane)
  BY DEF ClaimBound, Buckets
<1> DEFINE R == Running(Charged(b))
           C == Claiming(b)
<1> SUFFICES Cardinality(R') + Cardinality(C') < Limit + Cardinality(Lane)
  OBVIOUS
<1>0. Cardinality(R) + Cardinality(C) < Limit + Cardinality(Lane)
  BY DEF IndInv, ClaimBound
<1>1. /\ IsFiniteSet(R) /\ IsFiniteSet(C) /\ IsFiniteSet(R') /\ IsFiniteSet(C')
      /\ Cardinality(C') <= Cardinality(Lane)
  BY Finite
<1>2. /\ Cardinality(R) \in Nat /\ Cardinality(C) \in Nat
      /\ Cardinality(R') \in Nat /\ Cardinality(C') \in Nat /\ Cardinality(Lane) \in Nat
  BY <1>1, FiniteAssumption, FS_CardinalityType
<1>3. CASE \E l \in Lane : SelectJob(l) /\ BucketOf[lane'[l].job] = b
  <2>1. PICK l \in Lane : SelectJob(l) /\ BucketOf[lane'[l].job] = b
    BY <1>3
  <2>2. Cardinality(R) < Limit
    BY <2>1, SelectedBelow
  <2>3. R' = R
    BY <2>1 DEF SelectJob, Running, Charged
  <2> HIDE DEF R, C
  <2> QED BY <1>1, <1>2, <2>2, <2>3, LimitAssumption
<1>4. CASE \E l \in Lane : CommitClaim(l) /\ BucketOf[lane[l].job] = b
  <2>1. PICK l \in Lane : CommitClaim(l) /\ BucketOf[lane[l].job] = b
    BY <1>4
  <2> DEFINE j == lane[l].job
  <2>2. j \in Job /\ \A k \in Job \ {j} : job'[k] = job[k]
    BY <2>1, Committed
  <2>3. R' \subseteq R \cup {j}
    BY <2>2 DEF Running, Charged
  <2>4. l \in C /\ C' \subseteq C \ {l}
    <3>1. l \in C
      BY <2>1 DEF CommitClaim, Claiming
    <3>2. lane'[l].pc = "claimed" /\ \A m \in Lane \ {l} : lane'[m] = lane[m]
      BY <2>1 DEF CommitClaim, IndInv, TypeOK, LaneType
    <3> QED BY <3>1, <3>2 DEF Claiming
  <2> HIDE DEF R, C
  <2>5. Cardinality(R \cup {j}) <= Cardinality(R) + 1 /\ IsFiniteSet(R \cup {j})
    <3>1. /\ IsFiniteSet(R \cup {j})
          /\ Cardinality(R \cup {j}) = IF j \in R THEN Cardinality(R) ELSE Cardinality(R) + 1
      BY <1>1, FS_AddElement, Zenon
    <3> QED BY <1>2, <3>1
  <2>6. Cardinality(R') <= Cardinality(R \cup {j})
    BY <2>3, <2>5, FS_Subset
  <2>7. Cardinality(C \ {l}) = Cardinality(C) - 1 /\ IsFiniteSet(C \ {l})
    BY <1>1, <2>4, FS_RemoveElement
  <2>8. Cardinality(C') <= Cardinality(C \ {l})
    BY <2>4, <2>7, FS_Subset
  <2>9. Cardinality(R \cup {j}) \in Nat
    BY <2>5, FS_CardinalityType
  <2> QED BY <1>0, <1>2, <2>5, <2>6, <2>7, <2>8, <2>9, LimitAssumption
<1>5. CASE /\ \A l \in Lane : SelectJob(l) => BucketOf[lane'[l].job] # b
           /\ \A l \in Lane : CommitClaim(l) => BucketOf[lane[l].job] # b
  <2>1. R' \subseteq R /\ C' \subseteq C
    BY <1>5, BucketStays
  <2> HIDE DEF R, C
  <2>2. Cardinality(R') <= Cardinality(R) /\ Cardinality(C') <= Cardinality(C)
    BY <1>1, <2>1, FS_Subset
  <2> QED BY <1>0, <1>2, <2>2, LimitAssumption
<1> QED BY <1>3, <1>4, <1>5

-----------------------------------------------------------------------------
(* The theorems.                                                           *)

\* IndInv holds initially.
LEMMA Initial == Init => IndInv
<1> SUFFICES ASSUME Init PROVE IndInv
  OBVIOUS
<1>1. Absent \in RowType /\ Absent.status = "absent"
  BY AttemptsAssumption DEF Absent, RowType
<1>2. Idle \in LaneType /\ Idle.pc = "idle"
  BY AttemptsAssumption DEF Idle, LaneType
<1>3. Cardinality({}) <= 1
  BY FS_EmptySet
<1>4. TypeOK
  BY <1>1, <1>2 DEF Init, TypeOK
<1>5. AttemptsLeft /\ GivenUpLast
  BY <1>1 DEF Init, AttemptsLeft, GivenUpLast
<1>6. EffectsOnce
  BY <1>1, <1>3 DEF Init, EffectsOnce
<1>7. OpenClaim /\ LaneAttempt /\ FencedAttempt
  BY <1>2 DEF Init, OpenClaim, LaneAttempt, FencedAttempt, AtWork
<1>8. ClaimBound
  <2> SUFFICES ASSUME NEW b \in Buckets
               PROVE  Cardinality(Running(Charged(b))) + Cardinality(Claiming(b))
                        < Limit + Cardinality(Lane)
    BY DEF ClaimBound
  <2>1. Running(Charged(b)) = {} /\ Claiming(b) = {}
    BY <1>1, <1>2 DEF Init, Running, Charged, Claiming
  <2>2. Cardinality({}) = 0
    BY FS_EmptySet
  <2>3. Cardinality(Lane) \in Nat
    BY FiniteAssumption, FS_CardinalityType
  <2> QED BY <2>1, <2>2, <2>3, LimitAssumption
<1> QED BY <1>4, <1>5, <1>6, <1>7, <1>8 DEF IndInv

\* Every step preserves IndInv.
LEMMA Preserved == IndInv /\ [Next]_vars => IndInv'
<1> SUFFICES ASSUME IndInv, [Next]_vars PROVE IndInv'
  OBVIOUS
<1>1. Moves
  BY StepMoves
<1>2. /\ job' \in [Job -> RowType] /\ lane' \in [Lane -> LaneType]
      /\ AttemptsLeft' /\ GivenUpLast' /\ LaneAttempt'
  BY <1>1, LocalPreserved
<1>3. OpenClaim'
  BY <1>1, OpenClaimPreserved
<1>4. FencedAttempt'
  BY <1>1, FencePreserved
<1>5. effects' \in [Job -> SUBSET (1..MaxAttempts)] /\ EffectsOnce'
  BY EffectsPreserved
<1>6. TypeOK'
  BY <1>2, <1>5 DEF TypeOK, RowType, LaneType
<1>7. ClaimBound'
  BY <1>1, ClaimBoundPreserved
<1> QED BY <1>2, <1>3, <1>4, <1>5, <1>6, <1>7 DEF IndInv

\* IndInv holds in every state, for any number of jobs, lanes and processes,
\* any bucket and retry limit, and any assignment of lanes to processes.
THEOREM InductiveInvariant == Spec => []IndInv
  BY Initial, Preserved, PTL DEF Spec

\* Rows and lanes keep their types; no row exceeds its maximum of attempts
\* (claim_jobs, finalize_job_failure).
THEOREM TypeCorrect == Spec => []TypeOK
<1>1. IndInv => TypeOK
  BY DEF IndInv
<1> QED BY <1>1, InductiveInvariant, PTL

\* One attempt's effects count, exactly if the row succeeded
\* (finalize_job_success in the handler's session).
THEOREM EffectsCountOnce == Spec => []EffectsOnce
<1>1. IndInv => EffectsOnce
  BY DEF IndInv
<1> QED BY <1>1, InductiveInvariant, PTL

\* A job fails for good only with its attempts used up, or without a handler
\* (finalize_job_failure, reclaim_stale_jobs).
THEOREM GivenUpOnlyLast == Spec => []GivenUpLast
<1>1. IndInv => GivenUpLast
  BY DEF IndInv
<1> QED BY <1>1, InductiveInvariant, PTL

\* A bucket exceeds its limit by less than the number of lanes (claim_jobs
\* counts running rows in a snapshot that overlapping claims do not see).
THEOREM OvershootBounded == Spec => []BoundedOvershoot
<1>1. IndInv => BoundedOvershoot
  <2> SUFFICES ASSUME IndInv, NEW b \in Buckets
               PROVE  Cardinality(Running(Charged(b))) < Limit + Cardinality(Lane)
    BY DEF BoundedOvershoot
  <2>1. Cardinality(Running(Charged(b))) \in Nat /\ Cardinality(Claiming(b)) \in Nat
        /\ Cardinality(Lane) \in Nat
    BY Finite, FiniteAssumption, FS_CardinalityType
  <2>2. Cardinality(Running(Charged(b))) + Cardinality(Claiming(b))
          < Limit + Cardinality(Lane)
    BY DEF IndInv, ClaimBound
  <2> QED BY <2>1, <2>2, LimitAssumption
<1> QED BY <1>1, InductiveInvariant, PTL

FinalisesOwnAttempt(l) ==
  /\ lane[l].pc \in {"running", "failing"} /\ lane'[l].pc = "idle"
  /\ job'[lane[l].job].status # job[lane[l].job].status
  => lane[l].attempt = job[lane[l].job].attempts

\* A lane that becomes idle and ends its row was the owner of the attempt.
LEMMA OwnAttemptStep ==
  ASSUME SingleLane, IndInv, [Next]_vars, NEW l \in Lane
  PROVE  FinalisesOwnAttempt(l)
<1> SUFFICES ASSUME lane[l].pc \in {"running", "failing"}, lane'[l].pc = "idle",
                    job'[lane[l].job].status # job[lane[l].job].status
             PROVE  lane[l].attempt = job[lane[l].job].attempts
  BY DEF FinalisesOwnAttempt
<1>0. AtWork(l) /\ lane \in [Lane -> LaneType] /\ job \in [Job -> RowType]
  BY DEF AtWork, IndInv, TypeOK
<1>1. Owned(l) => lane[l].attempt = job[lane[l].job].attempts
  BY <1>0 DEF IndInv, FencedAttempt
<1>2. CASE \E m \in Lane : LaneStep(m)
  <2>1. PICK m \in Lane : LaneStep(m)
    BY <1>2
  <2>2. \A k \in Lane \ {m} : lane'[k] = lane[k]
    BY <1>0, <2>1 DEF LaneStep, SelectJob, CommitClaim, StartHandler, HandlerReturns,
                      HandlerFails, Heartbeat, RecordFailure, RecordLost, LeaveLane
  <2>3. m = l
    BY <2>2
  <2>4. HandlerReturns(l) \/ RecordFailure(l) \/ UNCHANGED job \/ Heartbeat(l)
    BY <2>1, <2>3 DEF LaneStep, SelectJob, CommitClaim, StartHandler, HandlerFails, RecordLost
  <2>5. Heartbeat(l) => (~Owned(l) /\ UNCHANGED job) \/ UNCHANGED lane
    BY DEF Heartbeat
  <2> QED BY <1>1, <2>4, <2>5 DEF HandlerReturns, RecordFailure
<1>3. CASE (\E j \in Job : RowStep(j)) \/ Pass
  BY <1>3 DEF RowStep, Enqueue, Purge, BecomesDue, LeaseExpires, Pass
<1>4. CASE (\E p \in Process : Crash(p)) \/ UNCHANGED vars
  BY <1>4 DEF Crash, vars
<1> QED BY <1>2, <1>3, <1>4 DEF Next

\* Where every process has one lane, what a worker finalises is its own
\* attempt, however leases expire and rows are reclaimed and claimed again.
THEOREM SingleLaneFencing == ASSUME SingleLane PROVE Spec => OwnAttemptOnly
<1>1. IndInv /\ [Next]_vars => [\A l \in Lane : FinalisesOwnAttempt(l)]_vars
  BY OwnAttemptStep
<1> QED BY <1>1, InductiveInvariant, PTL DEF Spec, OwnAttemptOnly, FinalisesOwnAttempt

=============================================================================
