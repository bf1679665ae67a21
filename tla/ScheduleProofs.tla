--------------------------- MODULE ScheduleProofs ---------------------------
(* Theorems of ScheduleRuns for any number of schedules, fire times, tasks  *)
(* and attempts.                                                            *)
EXTENDS ScheduleRuns, TLAPS

Times == 1..Horizon
NextTimes == 0..Horizon
SchedRow == [active: BOOLEAN, next: NextTimes, last: Times,
             due: BOOLEAN, deleted: BOOLEAN]

\* What a step may do to a schedule: it waits for the same fire time, without
\* being woken up, or for none, or for one that was never used.
SchedMove(row, new) ==
  /\ new \in SchedRow /\ row.last <= new.last /\ new.next \in {0, new.last}
  /\ \/ new.next = row.next /\ (new.active => row.active)
     \/ new.next \notin Fire
     \/ new.next > row.last

\* Fire times, and the one beyond them.
LEMMA Horizons ==
  /\ Horizon \in Times /\ 0 \in NextTimes /\ Times \subseteq NextTimes /\ Times \subseteq Nat
  /\ Horizon \notin Fire /\ 0 \notin Fire /\ Fire \subseteq Times
  /\ \A n \in Times : n # Horizon => n + 1 \in Times
  BY BoundAssumption DEF Horizon, Fire, Times, NextTimes

\* A schedule may stay as it is.
LEMMA Kept ==
  ASSUME NEW row \in SchedRow, row.next \in {0, row.last}
  PROVE  SchedMove(row, row)
<1>1. row.last \in Nat
  BY Horizons DEF SchedRow
<1> QED BY <1>1 DEF SchedMove

\* It may stop.
LEMMA StoppedMoves ==
  ASSUME NEW row \in SchedRow
  PROVE  SchedMove(row, Stopped(row)) /\ ~Stopped(row).active
<1>1. /\ Stopped(row) \in SchedRow
      /\ Stopped(row).next = 0 /\ Stopped(row).last = row.last /\ ~Stopped(row).active
  BY Horizons DEF Stopped, SchedRow
<1>2. row.last \in Nat
  BY Horizons DEF SchedRow
<1> QED BY <1>1, <1>2, Horizons DEF SchedMove

\* It may be given a new fire time, whether it is active or not.
LEMMA AssignedMoves ==
  ASSUME NEW row \in SchedRow, NEW due \in BOOLEAN, NEW active \in BOOLEAN
  PROVE  /\ SchedMove(row, Assigned(row, due))
         /\ SchedMove(row, [Assigned(row, due) EXCEPT !.active = active])
         /\ Assigned(row, due).next \notin Fire \/ Assigned(row, due).next > row.last
<1> DEFINE f == IF row.last = Horizon THEN Horizon ELSE row.last + 1
           new == Assigned(row, due)
           other == [Assigned(row, due) EXCEPT !.active = active]
<1>1. row.last \in Times
  BY DEF SchedRow
<1>2. f \in Times /\ row.last <= f /\ (f \notin Fire \/ f > row.last)
  <2>1. row.last \in Nat
    BY <1>1, Horizons
  <2>2. CASE row.last = Horizon
    BY <1>1, <2>1, <2>2, Horizons
  <2>3. CASE row.last # Horizon
    <3>1. f = row.last + 1 /\ row.last + 1 \in Times
      BY <1>1, <2>3, Horizons
    <3> QED BY <2>1, <3>1
  <2> QED BY <2>2, <2>3
<1>3. new = [row EXCEPT !.active = TRUE, !.next = f, !.last = f, !.due = due]
  BY DEF Assigned
<1> HIDE DEF f
<1>4. new \in SchedRow /\ new.next = f /\ new.last = f
  BY <1>2, <1>3, Horizons DEF SchedRow
<1>5. other \in SchedRow /\ other.next = f /\ other.last = f
  BY <1>4 DEF SchedRow
<1>6. f \in Nat
  BY <1>2, Horizons
<1> QED BY <1>2, <1>4, <1>5, <1>6 DEF SchedMove

\* It may go on after an occurrence, which it then does not wait for any more.
LEMMA AdvancedMoves ==
  ASSUME NEW s \in Schedule, NEW row \in SchedRow
  PROVE  /\ SchedMove(row, Advanced(s, row))
         /\ \/ ~Advanced(s, row).active
            \/ Advanced(s, row).next \notin Fire
            \/ Advanced(s, row).next > row.last
<1>1. CASE s \in Once
  BY <1>1, StoppedMoves DEF Advanced
<1>2. CASE s \notin Once
  <2>1. row.active \in BOOLEAN
    BY DEF SchedRow
  <2>2. Advanced(s, row) = [Assigned(row, FALSE) EXCEPT !.active = row.active]
    BY <1>2 DEF Advanced
  <2>3. Assigned(row, FALSE) \in SchedRow
    BY AssignedMoves DEF SchedMove
  <2>4. Advanced(s, row).next = Assigned(row, FALSE).next
    BY <2>1, <2>2, <2>3 DEF SchedRow
  <2> QED BY <2>1, <2>2, <2>4, AssignedMoves
<1> QED BY <1>1, <1>2

-----------------------------------------------------------------------------
(* A step moves schedules as above, touches no occurrence ahead of them, and *)
(* ends none whose fire time its schedule goes on waiting for.               *)
Moves ==
  /\ sched' = [s \in Schedule |-> sched'[s]]
  /\ \A s \in Schedule : SchedMove(sched[s], sched'[s])
  /\ \A o \in Occurrence :
       \/ o[2] <= sched[o[1]].last
       \/ run'[o].status = run[o].status /\ agent'[o] = agent[o]
  /\ \A t \in Task, o \in Occurrence :
       task'[t].of = o => task[t].of = o \/ o[2] <= sched[o[1]].last
  /\ \A o \in Occurrence :
       run'[o].status \in {"completed", "failed"} =>
         \/ IsOver(o)
         \/ ~sched'[o[1]].active
         \/ sched'[o[1]].next \notin Fire \/ sched'[o[1]].next > sched[o[1]].last

\* Occurrences are pairs of a schedule and a fire time.
LEMMA Pairs ==
  /\ \A o \in Occurrence : o[1] \in Schedule /\ o[2] \in Fire /\ o[2] \in Nat
  /\ \A s \in Schedule, f \in Fire :
       <<s, f>> \in Occurrence /\ <<s, f>>[1] = s /\ <<s, f>>[2] = f
  BY DEF Occurrence, Fire

\* Types of the rows.
LEMMA SchedRows ==
  ASSUME TypeOK
  PROVE  \A s \in Schedule : sched[s] \in SchedRow /\ sched[s].last \in Nat
  BY Horizons DEF TypeOK, SchedRow, Times, NextTimes

\* Such steps keep fire times in order and never spend one that is waited for.
LEMMA OrderKept ==
  ASSUME IndInv, Moves
  PROVE  InOrder' /\ NoSpentFire'
<1>1. \A s \in Schedule : /\ sched[s] \in SchedRow /\ sched'[s] \in SchedRow
                          /\ sched[s].last \in Nat /\ sched'[s].last \in Nat
                          /\ sched[s].last <= sched'[s].last
  BY SchedRows, Horizons DEF IndInv, Moves, SchedMove, SchedRow
<1>2. \A s \in Schedule : sched'[s].next \in {0, sched'[s].last}
  BY DEF Moves, SchedMove
<1>3. ASSUME NEW o \in Occurrence, o[2] > sched'[o[1]].last
      PROVE  run'[o].status = "absent" /\ agent'[o] = "none"
  <2>1. o[2] > sched[o[1]].last /\ ~(o[2] <= sched[o[1]].last)
    BY <1>1, <1>3, Pairs
  <2> QED BY <2>1 DEF IndInv, InOrder, Status, Moves
<1>4. ASSUME NEW t \in Task, NEW o \in Occurrence, task'[t].of = o
      PROVE  o[2] <= sched'[o[1]].last
  <2>1. o[2] <= sched[o[1]].last
    BY <1>4 DEF IndInv, InOrder, Moves
  <2> QED BY <1>1, <2>1, Pairs
<1>5. ASSUME NEW s \in Schedule, sched'[s].active, sched'[s].next \in Fire
      PROVE  run'[<<s, sched'[s].next>>].status \notin {"completed", "failed"}
  <2> DEFINE o == <<s, sched'[s].next>>
  <2>1. o \in Occurrence /\ o[1] = s /\ o[2] = sched'[s].next
    BY <1>5, Pairs
  <2>2. CASE sched'[s].next > sched[s].last
    <3>1. run[o].status = "absent"
      BY <2>1, <2>2 DEF IndInv, InOrder, Status
    <3>2. ~(o[2] <= sched[s].last)
      BY <1>1, <2>1, <2>2, Pairs
    <3> QED BY <2>1, <3>1, <3>2 DEF Moves
  <2>3. CASE ~(sched'[s].next > sched[s].last)
    <3>1. sched'[s].next = sched[s].next /\ sched[s].active
      BY <1>5, <2>3 DEF Moves, SchedMove
    <3>2. ~IsOver(o)
      BY <1>5, <3>1 DEF IndInv, NoSpentFire
    <3> QED BY <1>5, <2>1, <2>3, <3>2 DEF Moves
  <2> QED BY <2>2, <2>3
<1> QED BY <1>2, <1>3, <1>4, <1>5 DEF InOrder, NoSpentFire, IsOver, Status

-----------------------------------------------------------------------------
(* The rest of the invariant, which does not speak of schedules.            *)
Others ==
  /\ run \in [Occurrence -> [status: {"absent", "claimed", "running", "awaiting",
                                      "retryable", "completed", "failed"},
                             attempts: 0..MaxAttempts,
                             claim: {"none", "live", "expired"}]]
  /\ agent \in [Occurrence -> {"none", "active", "awaiting", "completed", "failed"}]
  /\ overrun \subseteq Occurrence
  /\ task \in [Task -> [pc: {"idle"} \cup {"admitted"}, of: {<<>>}]
                      \cup [pc: {"claimed", "failing", "executing", "refused", "finalising"},
                            of: Occurrence]]
  /\ VerdictMirrored /\ SetupAlone /\ Unstarted /\ OneTurn /\ NoneParked

\* The two halves make the invariant.
LEMMA Together ==
  ASSUME IndInv, Moves, Others'
  PROVE  IndInv'
<1>1. sched' \in [Schedule -> SchedRow]
  BY DEF Moves, SchedMove
<1> QED BY <1>1, OrderKept DEF IndInv, TypeOK, Others, SchedRow, Times, NextTimes

\* The invariant in halves.
LEMMA Apart ==
  ASSUME IndInv
  PROVE  /\ Others /\ InOrder /\ NoSpentFire
         /\ sched \in [Schedule -> SchedRow]
         /\ \A s \in Schedule : sched[s] \in SchedRow /\ SchedMove(sched[s], sched[s])
         /\ \A t \in Task, o \in Occurrence : task[t].of = o => o[2] <= sched[o[1]].last
<1>1. sched \in [Schedule -> SchedRow]
  BY DEF IndInv, TypeOK, SchedRow, Times, NextTimes
<1>2. \A s \in Schedule : SchedMove(sched[s], sched[s])
  BY <1>1, Kept DEF IndInv, InOrder
<1> QED BY <1>1, <1>2 DEF IndInv, InOrder, TypeOK, Others

\* Schedules move, nothing else does.
LEMMA OnlySchedules ==
  ASSUME IndInv, UNCHANGED <<run, agent, task, overrun>>,
         NEW s \in Schedule, NEW row, SchedMove(sched[s], row),
         sched' = [sched EXCEPT ![s] = row]
  PROVE  IndInv'
<1>1. Moves
  BY Apart DEF Moves, IsOver, Status
<1>2. Others'
  BY Apart DEF Others, VerdictMirrored, SetupAlone, Unstarted, OneTurn, NoneParked,
               SetsUp, Status
<1> QED BY <1>1, <1>2, Together

\* What users and time do to schedules.
LEMMA UserStepKeeps ==
  ASSUME IndInv, NEW s \in Schedule, UserStep(s) \/ Delete(s) \/ FireTimeComes(s)
  PROVE  IndInv'
<1>0. sched[s] \in SchedRow /\ SchedMove(sched[s], sched[s])
  BY Apart
<1>1. CASE Pause(s)
  BY <1>0, <1>1, StoppedMoves, OnlySchedules DEF Pause, UserSets
<1>2. CASE Enable(s) \/ Reschedule(s)
  BY <1>0, <1>2, AssignedMoves, OnlySchedules DEF Enable, Reschedule, UserSets
<1>3. CASE RunNow(s)
  BY <1>0, <1>3, AssignedMoves, OnlySchedules DEF RunNow, UserSets
<1>4. CASE Delete(s)
  <2>1. SchedMove(sched[s], [sched[s] EXCEPT !.deleted = TRUE])
    BY <1>0 DEF SchedMove, SchedRow
  <2> QED BY <1>4, <2>1, OnlySchedules DEF Delete, UserSets
<1>5. CASE FireTimeComes(s)
  <2>1. SchedMove(sched[s], [sched[s] EXCEPT !.due = TRUE])
    BY <1>0 DEF SchedMove, SchedRow
  <2>2. sched' = [sched EXCEPT ![s] = [sched[s] EXCEPT !.due = TRUE]]
    BY <1>5 DEF FireTimeComes
  <2> QED BY <1>5, <2>1, <2>2, OnlySchedules DEF FireTimeComes
<1> QED BY <1>1, <1>2, <1>3, <1>4, <1>5 DEF UserStep

-----------------------------------------------------------------------------
(* Steps of tasks and of the environment that leave schedules alone.        *)

\* The occurrence a task works on.
LEMMA TaskOf ==
  ASSUME IndInv, NEW t \in Task, task[t].pc \notin {"idle", "admitted"}
  PROVE  task[t].of \in Occurrence
  BY Apart DEF Others

\* Turns are executed as before.
LEMMA TurnsKept ==
  ASSUME IndInv, UNCHANGED agent,
         \A u \in Task : task'[u].pc = "executing" => task'[u] = task[u]
  PROVE  OneTurn' /\ NoneParked'
  BY Apart DEF Others, OneTurn, NoneParked

\* A task that is done, or gone.
LEMMA LeaveKeeps ==
  ASSUME IndInv, NEW t \in Task, Leave(t), UNCHANGED <<sched, run, agent, overrun>>
  PROVE  IndInv'
<1>1. /\ \A u \in Task : task'[u] = IF u = t THEN Idle ELSE task[u]
      /\ task' \in [Task -> [pc: {"idle"} \cup {"admitted"}, of: {<<>>}]
                      \cup [pc: {"claimed", "failing", "executing", "refused", "finalising"},
                            of: Occurrence]]
  BY Apart DEF Leave, Idle, Others
<1>2. \A o \in Occurrence : o # <<>>
  BY DEF Occurrence
<1>3. Moves
  BY <1>1, <1>2, Apart DEF Moves, IsOver, Status, Idle
<1>4. VerdictMirrored' /\ Unstarted'
  BY <1>2, Apart DEF Others, VerdictMirrored, Unstarted, Status
<1>5. SetupAlone'
  BY <1>1, <1>2, Apart DEF Others, SetupAlone, SetsUp, Status, Idle
<1>6. \A u \in Task : task'[u].pc = "executing" => task'[u] = task[u]
  BY <1>1 DEF Idle
<1>7. OneTurn' /\ NoneParked'
  BY <1>6, TurnsKept
<1> QED BY <1>1, <1>2, <1>3, <1>4, <1>5, <1>7, Apart, Together DEF Others

\* A setup that fails.
LEMMA PrepareFailsKeeps ==
  ASSUME IndInv, NEW t \in Task, PrepareFails(t)
  PROVE  IndInv'
<1> DEFINE o == task[t].of
<1>0. o \in Occurrence
  BY TaskOf DEF PrepareFails, At
<1>1. /\ \A u \in Task : task'[u] = IF u = t THEN [pc |-> "failing", of |-> o] ELSE task[u]
      /\ task' \in [Task -> [pc: {"idle"} \cup {"admitted"}, of: {<<>>}]
                      \cup [pc: {"claimed", "failing", "executing", "refused", "finalising"},
                            of: Occurrence]]
  BY <1>0, Apart DEF PrepareFails, Move, Others
<1>2. UNCHANGED <<sched, run, agent, overrun>> /\ task[t].pc = "claimed"
  BY DEF PrepareFails, At
<1>3. Moves
  BY <1>1, <1>2, Apart DEF Moves, IsOver, Status
<1>4. VerdictMirrored' /\ Unstarted'
  BY <1>2, Apart DEF Others, VerdictMirrored, Unstarted, Status
<1>5. SetupAlone'
  BY <1>1, <1>2, Apart DEF Others, SetupAlone, SetsUp, Status
<1>6. OneTurn' /\ NoneParked'
  BY <1>1, <1>2, TurnsKept
<1> QED BY <1>1, <1>2, <1>3, <1>4, <1>5, <1>6, Apart, Together DEF Others

\* The verdict of a turn, or one given from outside.
LEMMA EndTurnKeeps ==
  ASSUME IndInv, NEW t \in Task, EndTurn(t)
  PROVE  IndInv'
<1> DEFINE o == task[t].of
<1>0. o \in Occurrence
  BY TaskOf DEF EndTurn, At
<1>1. /\ \A u \in Task : task'[u] = IF u = t THEN [pc |-> "finalising", of |-> o] ELSE task[u]
      /\ task' \in [Task -> [pc: {"idle"} \cup {"admitted"}, of: {<<>>}]
                      \cup [pc: {"claimed", "failing", "executing", "refused", "finalising"},
                            of: Occurrence]]
  BY <1>0, Apart DEF EndTurn, Move, Others
<1>2. UNCHANGED <<sched, run, overrun>> /\ task[t].pc \in {"executing", "refused"}
  BY DEF EndTurn, At
<1>3. PICK v \in {"none", "active", "awaiting", "completed", "failed"} :
        /\ agent' = [agent EXCEPT ![o] = v]
        /\ v # agent[o] => agent[o] = "active" /\ v # "none"
        /\ v = "awaiting" /\ agent[o] = "active" => task[t].pc = "executing"
  BY <1>0, Apart DEF EndTurn, At, Others
<1>4. o[2] <= sched[o[1]].last
  BY <1>0, Apart
<1>5. Moves
  BY <1>0, <1>1, <1>2, <1>3, <1>4, Apart DEF Moves, IsOver, Status, Others
<1>6. agent' \in [Occurrence -> {"none", "active", "awaiting", "completed", "failed"}]
  BY <1>3, Apart DEF Others
<1>7. VerdictMirrored' /\ Unstarted'
  BY <1>0, <1>2, <1>3, Apart DEF Others, VerdictMirrored, Unstarted, Status
<1>8. SetupAlone'
  BY <1>1, <1>2, Apart DEF Others, SetupAlone, SetsUp, Status
<1>9. OneTurn' /\ NoneParked'
  BY <1>0, <1>1, <1>2, <1>3, Apart DEF Others, OneTurn, NoneParked
<1> QED BY <1>1, <1>2, <1>5, <1>6, <1>7, <1>8, <1>9, Together, Apart DEF Others

\* A decision resumes a parked turn.
LEMMA ResumeKeeps ==
  ASSUME IndInv, NEW t \in Task, NEW o \in Occurrence, Resume(t, o)
  PROVE  IndInv'
<1>1. /\ \A u \in Task : task'[u] = IF u = t THEN [pc |-> "executing", of |-> o] ELSE task[u]
      /\ task' \in [Task -> [pc: {"idle"} \cup {"admitted"}, of: {<<>>}]
                      \cup [pc: {"claimed", "failing", "executing", "refused", "finalising"},
                            of: Occurrence]]
  BY Apart DEF Resume, Move, Others
<1>2. /\ UNCHANGED <<sched, run, overrun>> /\ agent[o] = "awaiting"
      /\ agent' = [agent EXCEPT ![o] = "active"]
  BY DEF Resume
<1>3. o[2] <= sched[o[1]].last
  BY <1>2, Apart, Pairs, SchedRows DEF InOrder, IndInv
<1>4. Moves
  BY <1>1, <1>2, <1>3, Apart DEF Moves, IsOver, Status, Others
<1>5. agent' \in [Occurrence -> {"none", "active", "awaiting", "completed", "failed"}]
  BY <1>2, Apart DEF Others
<1>6. VerdictMirrored' /\ Unstarted'
  BY <1>2, Apart DEF Others, VerdictMirrored, Unstarted, Status
<1>7. SetupAlone'
  BY <1>1, <1>2, Apart DEF Others, SetupAlone, SetsUp, Status
<1>8. OneTurn' /\ NoneParked'
  BY <1>1, <1>2, Apart DEF Others, OneTurn, NoneParked
<1> QED BY <1>1, <1>2, <1>4, <1>5, <1>6, <1>7, <1>8, Together, Apart DEF Others

\* The agent run is ended from outside.
LEMMA AgentRunStopsKeeps ==
  ASSUME IndInv, NEW o \in Occurrence, AgentRunStops(o)
  PROVE  IndInv'
<1>1. /\ UNCHANGED <<sched, run, task, overrun>> /\ agent[o] \in {"active", "awaiting"}
      /\ agent' = [agent EXCEPT ![o] = "failed"]
  BY DEF AgentRunStops
<1>2. o[2] <= sched[o[1]].last
  BY <1>1, Apart, Pairs, SchedRows DEF InOrder, IndInv
<1>3. Moves
  BY <1>1, <1>2, Apart DEF Moves, IsOver, Status, Others
<1>4. agent' \in [Occurrence -> {"none", "active", "awaiting", "completed", "failed"}]
  BY <1>1, Apart DEF Others
<1>5. VerdictMirrored' /\ Unstarted'
  BY <1>1, Apart DEF Others, VerdictMirrored, Unstarted, Status
<1>6. SetupAlone'
  BY <1>1, Apart DEF Others, SetupAlone, SetsUp, Status
<1>7. OneTurn' /\ NoneParked'
  BY <1>1, Apart DEF Others, OneTurn, NoneParked
<1> QED BY <1>1, <1>3, <1>4, <1>5, <1>6, <1>7, Together, Apart DEF Others

\* A claim expires.
LEMMA ClaimExpiresKeeps ==
  ASSUME IndInv, NEW o \in Occurrence, ClaimExpires(o)
  PROVE  IndInv'
<1>1. /\ UNCHANGED <<sched, agent, task>> /\ run[o].claim = "live"
      /\ run' = [run EXCEPT ![o] = [run[o] EXCEPT !.claim = "expired"]]
      /\ overrun \subseteq overrun' /\ overrun' \subseteq Occurrence
      /\ o \notin overrun' => \A t \in Task : ~SetsUp(t, o)
  BY Apart DEF ClaimExpires, Forsaken, SetsUp, Others
<1>2. /\ \A p \in Occurrence : /\ run'[p].status = run[p].status
                              /\ p # o => run'[p] = run[p]
      /\ run' \in [Occurrence -> [status: {"absent", "claimed", "running", "awaiting",
                                      "retryable", "completed", "failed"},
                             attempts: 0..MaxAttempts,
                             claim: {"none", "live", "expired"}]]
  BY <1>1, Apart DEF Others
<1>3. Moves
  BY <1>1, <1>2, Apart DEF Moves, IsOver, Status
<1>4. VerdictMirrored' /\ Unstarted'
  BY <1>1, <1>2, Apart DEF Others, VerdictMirrored, Unstarted, Status
<1>5. SetupAlone'
  BY <1>1, <1>2, Apart DEF Others, SetupAlone, SetsUp, Status
<1>6. OneTurn' /\ NoneParked'
  BY <1>1, TurnsKept
<1> QED BY <1>1, <1>2, <1>3, <1>4, <1>5, <1>6, Together, Apart DEF Others

\* The row of an occurrence is written: the other rows stay.
RowType == [status: {"absent", "claimed", "running", "awaiting",
                     "retryable", "completed", "failed"},
            attempts: 0..MaxAttempts, claim: {"none", "live", "expired"}]

\* One row is written, the others stay.
LEMMA RowWritten ==
  ASSUME IndInv, NEW o \in Occurrence, NEW row \in RowType,
         run' = [run EXCEPT ![o] = row]
  PROVE  /\ run' \in [Occurrence -> [status: {"absent", "claimed", "running", "awaiting",
                                      "retryable", "completed", "failed"},
                             attempts: 0..MaxAttempts,
                             claim: {"none", "live", "expired"}]]
         /\ run'[o] = row
         /\ \A p \in Occurrence : p # o => run'[p] = run[p]
  BY Apart DEF Others, RowType

\* A claim.
LEMMA ClaimKeeps ==
  ASSUME IndInv, NEW t \in Task, NEW s \in Schedule, Claim(t, s)
  PROVE  IndInv'
<1> DEFINE o == <<s, sched[s].next>>
           attempts == IF run[o].attempts = MaxAttempts
                         THEN run[o].attempts ELSE run[o].attempts + 1
           row == [status |-> "claimed", attempts |-> attempts, claim |-> "live"]
<1>0. /\ o \in Occurrence /\ o[1] = s /\ o[2] = sched[s].next
      /\ o[2] <= sched[o[1]].last
      /\ sched[s].active /\ MayClaim(o)
  <2>1. sched[s].next \in Fire /\ sched[s].active /\ MayClaim(o)
    BY DEF Claim, Due
  <2>2. sched[s].next = sched[s].last
    BY <2>1, Horizons, Apart DEF InOrder
  <2> QED BY <2>1, <2>2, Pairs, SchedRows DEF IndInv
<1>1. attempts \in 0..MaxAttempts
  <2>1. run[o].attempts \in 0..MaxAttempts
    BY <1>0, Apart DEF Others
  <2> QED BY <2>1, BoundAssumption
<1>2. row \in RowType /\ run' = [run EXCEPT ![o] = row]
  BY <1>1 DEF Claim, RowType
<1>3. UNCHANGED <<sched, agent, overrun>> /\ At(t, "admitted") /\ Move(t, "claimed", o)
  BY DEF Claim
<1>4. row.status = "claimed" /\ row.claim = "live"
  OBVIOUS
<1> HIDE DEF row, o
<1>5. /\ \A u \in Task : task'[u] = IF u = t THEN [pc |-> "claimed", of |-> o] ELSE task[u]
      /\ task' \in [Task -> [pc: {"idle"} \cup {"admitted"}, of: {<<>>}]
                      \cup [pc: {"claimed", "failing", "executing", "refused", "finalising"},
                            of: Occurrence]]
  BY <1>0, <1>3, Apart DEF Move, Others
<1>6. Moves
  <2>1. \A p \in Occurrence : run'[p].status \in {"completed", "failed"} => IsOver(p)
    BY <1>0, <1>2, <1>4, RowWritten DEF IsOver, Status
  <2> QED BY <1>0, <1>2, <1>3, <1>5, <2>1, RowWritten, Apart DEF Moves
<1>7. o \notin overrun => /\ agent[o] = "none" /\ \A u \in Task : ~SetsUp(u, o)
  BY <1>0, Apart DEF Others, MayClaim, Unstarted, SetupAlone, Status
<1>8. VerdictMirrored' /\ Unstarted'
  BY <1>0, <1>2, <1>3, <1>4, <1>7, RowWritten, Apart
  DEF Others, VerdictMirrored, Unstarted, Status
<1>9. SetupAlone'
  <2>1. ASSUME NEW u \in Task, NEW p \in Occurrence, SetsUp(u, p)'
        PROVE  (u = t /\ p = o) \/ (u # t /\ SetsUp(u, p))
    BY <1>5, <2>1 DEF SetsUp
  <2> QED BY <1>0, <1>2, <1>3, <1>4, <1>7, <2>1, RowWritten, Apart
      DEF Others, SetupAlone, Status
<1>10. OneTurn' /\ NoneParked'
  BY <1>3, <1>5, TurnsKept
<1> QED BY <1>0, <1>2, <1>3, <1>5, <1>6, <1>8, <1>9, <1>10, RowWritten, Together, Apart DEF Others

-----------------------------------------------------------------------------
(* Steps that write an occurrence and its schedule.                         *)

\* A claimed row is given up, for now or for good.
LEMMA GivenUpKeeps ==
  ASSUME IndInv, NEW t \in Task, NEW o \in Occurrence, NEW row \in RowType,
         row.status \in {"failed", "retryable"},
         run' = [run EXCEPT ![o] = row],
         o[2] <= sched[o[1]].last,
         o \notin overrun => agent[o] = "none" /\ \A u \in Task : SetsUp(u, o) => u = t,
         \/ sched' = [sched EXCEPT ![o[1]] = Stopped(@)]
         \/ row.status = "retryable" /\ UNCHANGED sched,
         Leave(t), UNCHANGED <<agent, overrun>>
  PROVE  IndInv'
<1>1. /\ \A u \in Task : task'[u] = IF u = t THEN Idle ELSE task[u]
      /\ task' \in [Task -> [pc: {"idle"} \cup {"admitted"}, of: {<<>>}]
                      \cup [pc: {"claimed", "failing", "executing", "refused", "finalising"},
                            of: Occurrence]]
  BY Apart DEF Leave, Idle, Others
<1>2. \A p \in Occurrence : p # <<>>
  BY DEF Occurrence
<1>3. /\ sched' = [s \in Schedule |-> sched'[s]]
      /\ \A s \in Schedule : SchedMove(sched[s], sched'[s])
      /\ row.status = "retryable" \/ ~sched'[o[1]].active
  BY Pairs, StoppedMoves, Apart
<1>4. Moves
  <2>1. \A p \in Occurrence : run'[p].status \in {"completed", "failed"} =>
          IsOver(p) \/ ~sched'[p[1]].active
    BY <1>3, RowWritten DEF IsOver, Status
  <2>2. \A p \in Occurrence : p[2] <= sched[p[1]].last \/ run'[p].status = run[p].status
    BY RowWritten
  <2>3. \A u \in Task, p \in Occurrence : task'[u].of = p => task[u].of = p
    BY <1>1, <1>2 DEF Idle
  <2> QED BY <1>3, <2>1, <2>2, <2>3 DEF Moves
<1>5. VerdictMirrored' /\ Unstarted'
  BY RowWritten, Apart DEF Others, VerdictMirrored, Unstarted, Status
<1>6. SetupAlone'
  <2>1. ASSUME NEW u \in Task, NEW p \in Occurrence, SetsUp(u, p)'
        PROVE  u # t /\ SetsUp(u, p)
    BY <1>1, <2>1 DEF SetsUp, Idle
  <2> QED BY <2>1, RowWritten, Apart DEF Others, SetupAlone, Status
<1>7. OneTurn' /\ NoneParked'
  <2>1. \A u \in Task : task'[u].pc = "executing" => task'[u] = task[u]
    BY <1>1 DEF Idle
  <2> QED BY <2>1, TurnsKept
<1> QED BY <1>1, <1>4, <1>5, <1>6, <1>7, RowWritten, Together, Apart DEF Others

\* Rows that lose their claim.
LEMMA EndedRow ==
  ASSUME IndInv, NEW o \in Occurrence,
         NEW status \in {"running", "awaiting", "retryable", "completed", "failed"}
  PROVE  /\ Ended(run[o], status) \in RowType
         /\ Ended(run[o], status).status = status
<1>1. run[o] \in RowType
  BY Apart DEF Others, RowType
<1> QED BY <1>1 DEF Ended, RowType

\* Who sets up an occurrence.
LEMMA SetsUpAlone ==
  ASSUME IndInv, NEW t \in Task, NEW o \in Occurrence, SetsUp(t, o)
  PROVE  /\ o[2] <= sched[o[1]].last
         /\ o \notin overrun => agent[o] = "none" /\ \A u \in Task : SetsUp(u, o) => u = t
  BY Apart DEF Others, SetupAlone, SetsUp, Unstarted, Status

\* The three ways to give up a setup.
LEMMA GiveUpKeeps ==
  ASSUME IndInv, NEW t \in Task,
         \/ \E s \in Schedule : ClaimUnavailable(t, s)
         \/ PrepareUnavailable(t) \/ RecordSetupFailure(t)
  PROVE  IndInv'
<1>1. ASSUME NEW s \in Schedule, ClaimUnavailable(t, s) PROVE IndInv'
  <2> DEFINE o == <<s, sched[s].next>>
  <2>1. sched[s].next \in Fire /\ MayClaim(o)
    BY <1>1 DEF ClaimUnavailable, Due
  <2>2. sched[s].next = sched[s].last
    BY <2>1, Horizons, Apart DEF InOrder
  <2>3. o \in Occurrence /\ o[1] = s /\ o[2] <= sched[o[1]].last
    BY <2>1, <2>2, Pairs, SchedRows DEF IndInv
  <2>4. /\ run' = [run EXCEPT ![o] = Ended(run[o], "failed")]
        /\ sched' = [sched EXCEPT ![o[1]] = Stopped(@)]
        /\ Leave(t) /\ UNCHANGED <<agent, overrun>>
    BY <1>1 DEF ClaimUnavailable, FailAndStop
  <2>5. o \notin overrun => agent[o] = "none" /\ \A u \in Task : ~SetsUp(u, o)
    BY <2>1, <2>3, Apart DEF Others, MayClaim, Unstarted, SetupAlone, Status
  <2> HIDE DEF o
  <2> QED BY <2>3, <2>4, <2>5, EndedRow, GivenUpKeeps
<1>2. CASE PrepareUnavailable(t)
  <2> DEFINE o == task[t].of
  <2>1. o \in Occurrence /\ SetsUp(t, o)
    BY <1>2, TaskOf DEF PrepareUnavailable, At, SetsUp
  <2>2. /\ run' = [run EXCEPT ![o] = Ended(run[o], "failed")]
        /\ sched' = [sched EXCEPT ![o[1]] = Stopped(@)]
        /\ Leave(t) /\ UNCHANGED <<agent, overrun>>
    BY <1>2 DEF PrepareUnavailable, FailAndStop
  <2> HIDE DEF o
  <2> QED BY <2>1, <2>2, SetsUpAlone, EndedRow, GivenUpKeeps
<1>3. CASE RecordSetupFailure(t)
  <2> DEFINE o == task[t].of
  <2>1. o \in Occurrence /\ SetsUp(t, o)
    BY <1>3, TaskOf DEF RecordSetupFailure, At, SetsUp
  <2>2. CASE Exhausted(o)
    <3>1. /\ run' = [run EXCEPT ![o] = Ended(run[o], "failed")]
          /\ sched' = [sched EXCEPT ![o[1]] = Stopped(@)]
          /\ Leave(t) /\ UNCHANGED <<agent, overrun>>
      BY <1>3, <2>2 DEF RecordSetupFailure, FailAndStop
    <3> HIDE DEF o
    <3> QED BY <2>1, <3>1, SetsUpAlone, EndedRow, GivenUpKeeps
  <2>3. CASE ~Exhausted(o)
    <3>1. /\ run' = [run EXCEPT ![o] = Ended(run[o], "retryable")]
          /\ UNCHANGED sched /\ Leave(t) /\ UNCHANGED <<agent, overrun>>
      BY <1>3, <2>3 DEF RecordSetupFailure
    <3> HIDE DEF o
    <3> QED BY <2>1, <3>1, SetsUpAlone, EndedRow, GivenUpKeeps
  <2> QED BY <2>2, <2>3
<1> QED BY <1>1, <1>2, <1>3

\* A setup that succeeds.
LEMMA PrepareKeeps ==
  ASSUME IndInv, NEW t \in Task, Prepare(t)
  PROVE  IndInv'
<1> DEFINE o == task[t].of
           row == Ended(run[o], "running")
           pc == IF agent[o] = "awaiting" THEN "refused" ELSE "executing"
<1>1. o \in Occurrence /\ SetsUp(t, o)
  BY TaskOf DEF Prepare, At, SetsUp
<1>2. /\ run' = [run EXCEPT ![o] = row] /\ agent' = [agent EXCEPT ![o] = "active"]
      /\ Move(t, pc, o) /\ UNCHANGED <<sched, overrun>>
      /\ agent[o] = "none" \/ agent[o] = "awaiting"
  BY DEF Prepare, Unclaimed
<1>3. row \in RowType /\ row.status = "running"
  BY <1>1, EndedRow
<1>4. pc \in {"refused", "executing"} /\ (pc = "executing" => agent[o] = "none")
  BY <1>2
<1> HIDE DEF o, row, pc
<1>5. /\ \A u \in Task : task'[u] = IF u = t THEN [pc |-> pc, of |-> o] ELSE task[u]
      /\ task' \in [Task -> [pc: {"idle"} \cup {"admitted"}, of: {<<>>}]
                      \cup [pc: {"claimed", "failing", "executing", "refused", "finalising"},
                            of: Occurrence]]
  BY <1>1, <1>2, <1>4, Apart DEF Move, Others
<1>6. Moves
  <2>1. o[2] <= sched[o[1]].last
    BY <1>1, SetsUpAlone
  <2>2. \A p \in Occurrence : p # o => run'[p] = run[p] /\ agent'[p] = agent[p]
    BY <1>1, <1>2, <1>3, RowWritten, Apart DEF Others
  <2>3. run'[o] = row
    BY <1>1, <1>2, <1>3, RowWritten
  <2>4. \A p \in Occurrence : run'[p].status \in {"completed", "failed"} => IsOver(p)
    BY <1>3, <2>2, <2>3 DEF IsOver, Status
  <2>5. \A u \in Task, p \in Occurrence : task'[u].of = p => task[u].of = p \/ p = o
    BY <1>5
  <2> QED BY <1>2, <2>1, <2>2, <2>4, <2>5, Apart DEF Moves
<1>7. agent' \in [Occurrence -> {"none", "active", "awaiting", "completed", "failed"}]
  BY <1>2, Apart DEF Others
<1>8. VerdictMirrored' /\ Unstarted'
  BY <1>1, <1>2, <1>3, RowWritten, Apart DEF Others, VerdictMirrored, Unstarted, Status
<1>9. SetupAlone'
  <2>1. ASSUME NEW u \in Task, NEW p \in Occurrence, SetsUp(u, p)'
        PROVE  u # t /\ SetsUp(u, p)
    BY <1>4, <1>5, <2>1 DEF SetsUp
  <2>2. \A u \in Task : SetsUp(u, o) => u = t \/ o \in overrun
    BY <1>1, SetsUpAlone
  <2> QED BY <1>1, <1>2, <1>3, <2>1, <2>2, RowWritten, Apart DEF Others, SetupAlone, Status
<1>10. OneTurn' /\ NoneParked'
  <2>1. \A u \in Task : task'[u].pc = "executing" /\ task'[u].of = o => u = t
    BY <1>1, <1>2, <1>5, Apart DEF Others, NoneParked
  <2>2. \A u \in Task : task'[u].pc = "executing" =>
          \/ u = t /\ task'[u].of = o
          \/ task'[u] = task[u] /\ task[u].of # o
    BY <1>5, <2>1
  <2>3. agent'[o] = "active" /\ \A p \in Occurrence : p # o => agent'[p] = agent[p]
    BY <1>1, <1>2, Apart DEF Others
  <2>4. \A u \in Task : task[u].pc = "executing" => task[u].of \in Occurrence
    BY TaskOf
  <2> QED BY <2>1, <2>2, <2>3, <2>4, Apart DEF Others, OneTurn, NoneParked
<1> QED BY <1>1, <1>2, <1>3, <1>5, <1>6, <1>7, <1>8, <1>9, <1>10, RowWritten, Together, Apart
        DEF Others

-----------------------------------------------------------------------------
(* Mirroring verdicts.                                                      *)

\* What Mirror makes of a schedule and of an occurrence.
LEMMA MirrorMoves ==
  ASSUME IndInv, NEW S \in SUBSET Occurrence, Mirror(S),
         \A o \in S : HasVerdict(o) /\ ~IsOver(o)
  PROVE  /\ sched' = [s \in Schedule |-> sched'[s]]
         /\ \A s \in Schedule : SchedMove(sched[s], sched'[s])
         /\ \A o \in S :
              \/ agent[o] = "awaiting"
              \/ ~sched'[o[1]].active
              \/ sched'[o[1]].next \notin Fire
              \/ sched'[o[1]].next > sched[o[1]].last
         /\ run' \in [Occurrence -> RowType]
         /\ \A o \in S : run'[o].status = agent[o]
         /\ \A o \in Occurrence \ S : run'[o] = run[o]
<1> DEFINE over(s) == {o \in S : o[1] = s /\ agent[o] # "awaiting"}
           failed(s) == {o \in over(s) : agent[o] = "failed"}
           endsFailed(s) == \E o \in failed(s) : \A p \in over(s) : p[2] <= o[2]
           settled(s) ==
             CASE over(s) = {} -> sched[s]
               [] over(s) # {} /\ endsFailed(s) -> Stopped(sched[s])
               [] over(s) # {} /\ failed(s) = {} -> Advanced(s, sched[s])
               [] OTHER -> Advanced(s, Stopped(sched[s]))
           Moved(s) == /\ SchedMove(sched[s], settled(s))
                       /\ over(s) # {} => \/ ~settled(s).active
                                          \/ settled(s).next \notin Fire
                                          \/ settled(s).next > sched[s].last
<1>1. /\ sched' = [s \in Schedule |-> settled(s)]
      /\ run' = [o \in Occurrence |-> IF o \in S THEN Ended(run[o], agent[o]) ELSE run[o]]
  BY DEF Mirror
<1>2. ASSUME NEW s \in Schedule PROVE Moved(s)
  <2>0. sched[s] \in SchedRow /\ SchedMove(sched[s], sched[s])
    BY Apart
  <2>1. CASE settled(s) = sched[s] /\ over(s) = {}
    BY <2>0, <2>1
  <2>2. CASE settled(s) = Stopped(sched[s])
    BY <2>0, <2>2, StoppedMoves
  <2>3. CASE settled(s) = Advanced(s, sched[s])
    BY <2>0, <2>3, AdvancedMoves
  <2>4. CASE settled(s) = Advanced(s, Stopped(sched[s]))
    <3> DEFINE stopped == Stopped(sched[s])
    <3>1. /\ stopped \in SchedRow /\ ~stopped.active
          /\ stopped.next = 0 /\ stopped.last = sched[s].last
      BY <2>0, Horizons DEF SchedRow, Stopped
    <3>2. /\ SchedMove(stopped, settled(s))
          /\ \/ ~settled(s).active \/ settled(s).next \notin Fire
             \/ settled(s).next > stopped.last
      BY <2>4, <3>1, AdvancedMoves
    <3> HIDE DEF settled, stopped, over
    <3>3. settled(s).next \notin Fire \/ settled(s).next > sched[s].last
      BY <3>1, <3>2, Horizons DEF SchedMove
    <3> QED BY <3>1, <3>2, <3>3 DEF SchedMove
  <2> HIDE DEF over, endsFailed
  <2>5. over(s) = {} \/ over(s) # {}
    OBVIOUS
  <2> QED BY <2>1, <2>2, <2>3, <2>4, <2>5
<1>3. \A o \in S : agent[o] \in {"awaiting", "completed", "failed"}
  BY DEF HasVerdict
<1>4. \A o \in S : Ended(run[o], agent[o]) \in RowType /\ Ended(run[o], agent[o]).status = agent[o]
  BY <1>3, EndedRow
<1>5. \A o \in Occurrence : run[o] \in RowType
  BY Apart DEF Others, RowType
<1>6. ASSUME NEW o \in S, agent[o] # "awaiting"
      PROVE  \/ ~sched'[o[1]].active
             \/ sched'[o[1]].next \notin Fire \/ sched'[o[1]].next > sched[o[1]].last
  <2>1. o[1] \in Schedule /\ over(o[1]) # {}
    BY <1>6, Pairs
  <2>2. Moved(o[1]) /\ sched'[o[1]] = settled(o[1])
    BY <1>1, <1>2, <2>1
  <2> HIDE DEF settled, over
  <2> QED BY <2>1, <2>2
<1> HIDE DEF settled, over
<1> QED BY <1>1, <1>2, <1>4, <1>5, <1>6

\* A step that mirrors verdicts.
LEMMA MirrorKeeps ==
  ASSUME IndInv, NEW S \in SUBSET Occurrence, Mirror(S),
         \A o \in S : HasVerdict(o) /\ ~IsOver(o),
         NEW t \in Task, NEW pc \in {"idle", "admitted"}, Move(t, pc, <<>>),
         UNCHANGED <<agent, overrun>>
  PROVE  IndInv'
<1>1. /\ \A u \in Task : task'[u] = IF u = t THEN [pc |-> pc, of |-> <<>>] ELSE task[u]
      /\ task' \in [Task -> [pc: {"idle"} \cup {"admitted"}, of: {<<>>}]
                      \cup [pc: {"claimed", "failing", "executing", "refused", "finalising"},
                            of: Occurrence]]
  BY Apart DEF Move, Others
<1>2. \A p \in Occurrence : p # <<>>
  BY DEF Occurrence
<1>3. \A o \in S : /\ agent[o] \in {"awaiting", "completed", "failed"}
                    /\ o[2] <= sched[o[1]].last
  <2>1. ASSUME NEW o \in S PROVE agent[o] \in {"awaiting", "completed", "failed"}
    BY DEF HasVerdict
  <2>2. ASSUME NEW o \in S PROVE o[2] <= sched[o[1]].last
    <3>1. ~(o[2] > sched[o[1]].last)
      BY <2>1, Apart DEF InOrder
    <3> QED BY <3>1, Pairs, SchedRows DEF IndInv
  <2> QED BY <2>1, <2>2
<1>4. Moves
  <2>1. ASSUME NEW p \in Occurrence, run'[p].status \in {"completed", "failed"}
        PROVE  \/ IsOver(p) \/ ~sched'[p[1]].active
               \/ sched'[p[1]].next \notin Fire \/ sched'[p[1]].next > sched[p[1]].last
    BY <2>1, MirrorMoves DEF IsOver, Status
  <2>2. \A p \in Occurrence : p[2] <= sched[p[1]].last \/ run'[p].status = run[p].status
    BY <1>3, MirrorMoves
  <2>3. \A u \in Task, p \in Occurrence : task'[u].of = p => task[u].of = p
    BY <1>1, <1>2
  <2> QED BY <2>1, <2>2, <2>3, MirrorMoves DEF Moves
<1>5. VerdictMirrored' /\ Unstarted'
  <2>1. ASSUME NEW p \in Occurrence \ overrun
        PROVE  /\ run'[p].status = "completed" => agent[p] = "completed"
               /\ run'[p].status = "failed" => agent[p] \in {"none", "failed"}
               /\ run'[p].status \in {"absent", "claimed", "retryable"} => agent[p] = "none"
    <3>1. CASE p \in S
      BY <1>3, <3>1, MirrorMoves
    <3>2. CASE p \notin S
      BY <3>2, MirrorMoves, Apart DEF Others, VerdictMirrored, Unstarted, Status
    <3> QED BY <3>1, <3>2
  <2> QED BY <2>1 DEF VerdictMirrored, Unstarted, Status
<1>6. SetupAlone'
  <2>1. ASSUME NEW u \in Task, NEW p \in Occurrence, SetsUp(u, p)'
        PROVE  u # t /\ SetsUp(u, p)
    BY <1>1, <2>1 DEF SetsUp
  <2>2. \A u \in Task, p \in S \ overrun : ~SetsUp(u, p)
    BY <1>3, SetsUpAlone
  <2>3. ASSUME NEW u \in Task, NEW p \in Occurrence \ overrun, SetsUp(u, p)'
        PROVE  /\ run'[p].status = "claimed" /\ run'[p].claim = "live"
               /\ \A v \in Task : SetsUp(v, p)' => v = u
    <3>1. p \notin S /\ SetsUp(u, p)
      BY <2>1, <2>2, <2>3
    <3> QED BY <2>1, <3>1, MirrorMoves, Apart DEF Others, SetupAlone, Status
  <2> QED BY <2>3 DEF SetupAlone, Status
<1>7. OneTurn' /\ NoneParked'
  <2>1. \A u \in Task : task'[u].pc = "executing" => task'[u] = task[u]
    BY <1>1
  <2> QED BY <2>1, TurnsKept
<1> QED BY <1>1, <1>4, <1>5, <1>6, <1>7, MirrorMoves, Together, Apart DEF Others, RowType

\* All steps of a task.
LEMMA TaskStepKeeps ==
  ASSUME IndInv, NEW t \in Task, TaskStep(t)
  PROVE  IndInv'
<1>1. CASE StartPass(t)
  <2>1. \A o \in Unmirrored : HasVerdict(o) /\ ~IsOver(o)
    BY DEF Unmirrored, HasVerdict, IsOver
  <2>2. Unmirrored \in SUBSET Occurrence
    BY DEF Unmirrored
  <2> QED BY <1>1, <2>1, <2>2, MirrorKeeps DEF StartPass
<1>2. CASE Finalise(t)
  <2> DEFINE o == task[t].of
             S == IF HasVerdict(o) /\ ~IsOver(o) THEN {o} ELSE {}
  <2>1. o \in Occurrence
    BY <1>2, TaskOf DEF Finalise, At
  <2>2. S \in SUBSET Occurrence /\ \A p \in S : HasVerdict(p) /\ ~IsOver(p)
    BY <2>1
  <2>3. Mirror(S) /\ Move(t, "idle", <<>>) /\ UNCHANGED <<agent, overrun>>
    BY <1>2 DEF Finalise, Leave, Move, Idle
  <2> HIDE DEF S
  <2> QED BY <2>2, <2>3, MirrorKeeps
<1>3. CASE NothingDue(t) \/ SetupFailureLost(t) \/ FinaliseLost(t) \/ Crash(t)
  BY <1>3, LeaveKeeps DEF NothingDue, SetupFailureLost, FinaliseLost, Crash
<1>4. CASE \E s \in Schedule : Claim(t, s)
  BY <1>4, ClaimKeeps
<1>5. CASE \/ \E s \in Schedule : ClaimUnavailable(t, s)
           \/ PrepareUnavailable(t) \/ RecordSetupFailure(t)
  BY <1>5, GiveUpKeeps
<1>6. CASE Prepare(t)
  BY <1>6, PrepareKeeps
<1>7. CASE PrepareFails(t)
  BY <1>7, PrepareFailsKeeps
<1>8. CASE EndTurn(t)
  BY <1>8, EndTurnKeeps
<1>9. CASE \E o \in Occurrence : Resume(t, o)
  BY <1>9, ResumeKeeps
<1> QED BY <1>1, <1>2, <1>3, <1>4, <1>5, <1>6, <1>7, <1>8, <1>9 DEF TaskStep

-----------------------------------------------------------------------------
(* Theorems.                                                                *)

\* The first state.
LEMMA InitHolds == Init => IndInv
<1> SUFFICES ASSUME Init PROVE IndInv
  OBVIOUS
<1>1. \A s \in Schedule : sched[s].next = 1 /\ sched[s].last = 1
  BY DEF Init
<1>2. TypeOK
  <2>1. 1 \in 0..Horizon /\ 1 \in 1..Horizon /\ 0 \in 0..MaxAttempts
    BY BoundAssumption DEF Horizon
  <2> QED BY <2>1 DEF Init, TypeOK, NoRun, Idle
<1>3. \A o \in Occurrence : Status(o) = "absent" /\ agent[o] = "none"
  BY DEF Init, NoRun, Status
<1>4. \A t \in Task : task[t] = Idle
  BY DEF Init
<1>5. \A o \in Occurrence : o # <<>>
  BY DEF Occurrence
<1>6. InOrder
  BY <1>1, <1>3, <1>4, <1>5 DEF InOrder, Idle
<1>7. NoSpentFire /\ VerdictMirrored /\ Unstarted
  BY <1>3, Pairs DEF NoSpentFire, VerdictMirrored, Unstarted, IsOver
<1>8. SetupAlone /\ OneTurn /\ NoneParked
  BY <1>4 DEF SetupAlone, SetsUp, OneTurn, NoneParked, Idle
<1> QED BY <1>2, <1>6, <1>7, <1>8 DEF IndInv

\* Every step.
LEMMA NextKeeps == IndInv /\ [Next]_vars => IndInv'
<1> SUFFICES ASSUME IndInv, [Next]_vars PROVE IndInv'
  OBVIOUS
<1>1. CASE UNCHANGED vars
  <2>1. UNCHANGED <<sched, run, agent, task, overrun>>
    BY <1>1 DEF vars
  <2>2. Moves
    BY <2>1, Apart DEF Moves, IsOver, Status
  <2>3. Others'
    BY <2>1, Apart DEF Others, VerdictMirrored, SetupAlone, Unstarted, OneTurn, NoneParked,
                       SetsUp, Status
  <2> QED BY <2>2, <2>3, Together
<1>2. CASE \E s \in Schedule : UserStep(s) \/ Delete(s) \/ FireTimeComes(s)
  BY <1>2, UserStepKeeps
<1>3. CASE \E t \in Task : TaskStep(t)
  BY <1>3, TaskStepKeeps
<1>4. CASE \E o \in Occurrence : AgentRunStops(o) \/ ClaimExpires(o)
  BY <1>4, AgentRunStopsKeeps, ClaimExpiresKeeps
<1> QED BY <1>1, <1>2, <1>3, <1>4 DEF Next

\* The rows of schedules, occurrences and agent runs, and the tasks that work
\* on them, agree in every reachable state: claim_due_schedule_runs, setup,
\* finalisation and the reconciler of services/agent_schedules.
THEOREM ScheduleInvariant == Spec => []IndInv
<1> QED BY InitHolds, NextKeeps, PTL DEF Spec

\* claim_agent_run_execution lets one task execute a turn, however often its
\* occurrence is claimed again while a stale claimant still works on it.
THEOREM OneTurnPerOccurrence == Spec => []OneTurn
<1>1. IndInv => OneTurn
  BY DEF IndInv
<1> QED BY <1>1, ScheduleInvariant, PTL

\* mark_run_completed and mark_run_terminal_failure say of an agent run what it
\* says of itself, and no active schedule waits for a fire time that is spent.
THEOREM VerdictsMirrored == Spec => [](VerdictMirrored /\ NoSpentFire)
<1>1. IndInv => VerdictMirrored /\ NoSpentFire
  BY DEF IndInv
<1> QED BY <1>1, ScheduleInvariant, PTL

\* No step changes the status of an occurrence that is over.
LEMMA OverStays ==
  ASSUME IndInv, [Next]_vars, NEW o \in Occurrence \ overrun, IsOver(o)
  PROVE  Status(o)' = Status(o)
<1> USE DEF Status
<1>1. CASE UNCHANGED run
  BY <1>1
<1>3. CASE \E t \in Task : StartPass(t) \/ Finalise(t)
  <2>1. PICK S \in SUBSET Occurrence : Mirror(S) /\ \A p \in S : HasVerdict(p) /\ ~IsOver(p)
    <3>1. ASSUME NEW t \in Task, StartPass(t)
          PROVE  \E S \in SUBSET Occurrence : Mirror(S) /\ \A p \in S : HasVerdict(p) /\ ~IsOver(p)
      <4>1. Unmirrored \in SUBSET Occurrence /\ \A p \in Unmirrored : HasVerdict(p) /\ ~IsOver(p)
        BY DEF Unmirrored, HasVerdict, IsOver
      <4> QED BY <3>1, <4>1 DEF StartPass
    <3>2. ASSUME NEW t \in Task, Finalise(t)
          PROVE  \E S \in SUBSET Occurrence : Mirror(S) /\ \A p \in S : HasVerdict(p) /\ ~IsOver(p)
      <4> DEFINE p == task[t].of
                 S == IF HasVerdict(p) /\ ~IsOver(p) THEN {p} ELSE {}
      <4>1. p \in Occurrence
        BY <3>2, TaskOf DEF Finalise, At
      <4>2. S \in SUBSET Occurrence /\ \A q \in S : HasVerdict(q) /\ ~IsOver(q)
        BY <4>1
      <4>3. Mirror(S)
        BY <3>2 DEF Finalise
      <4> HIDE DEF S
      <4> QED BY <4>2, <4>3
    <3> QED BY <1>3, <3>1, <3>2
  <2>2. o \in Occurrence /\ o \notin S
    BY <2>1
  <2> QED BY <2>1, <2>2, MirrorMoves
<1>4. ASSUME NEW t \in Task, NEW s \in Schedule, Claim(t, s) \/ ClaimUnavailable(t, s)
      PROVE  run'[o].status = run[o].status
  <2> DEFINE p == <<s, sched[s].next>>
  <2>1. p \in Occurrence /\ MayClaim(p)
    BY <1>4, Pairs DEF Claim, ClaimUnavailable, Due
  <2>2. p # o
    BY <2>1 DEF MayClaim, IsOver
  <2>3. \A q \in Occurrence : q # p => run'[q] = run[q]
    BY <1>4, Apart DEF Claim, ClaimUnavailable, FailAndStop, Others
  <2> QED BY <2>1, <2>2, <2>3
<1>5. ASSUME NEW t \in Task, Prepare(t) \/ PrepareUnavailable(t) \/ RecordSetupFailure(t)
      PROVE  run'[o].status = run[o].status
  <2> DEFINE p == task[t].of
  <2>1. p \in Occurrence /\ SetsUp(t, p)
    BY <1>5, TaskOf DEF Prepare, PrepareUnavailable, RecordSetupFailure, At, SetsUp
  <2>2. p # o
    BY <2>1, Apart DEF Others, SetupAlone, IsOver
  <2>3. \A q \in Occurrence : q # p => run'[q] = run[q]
    BY <1>5, Apart DEF Prepare, PrepareUnavailable, RecordSetupFailure, FailAndStop, Others
  <2> QED BY <2>1, <2>2, <2>3
<1>6. ASSUME NEW p \in Occurrence, ClaimExpires(p)
      PROVE  run'[o].status = run[o].status
  BY <1>6, Apart DEF ClaimExpires, Others
<1>7. CASE \E s \in Schedule : UserStep(s) \/ Delete(s) \/ FireTimeComes(s)
  BY <1>1, <1>7 DEF UserStep, Pause, Enable, Reschedule, RunNow, Delete, UserSets, FireTimeComes
<1>8. CASE \E p \in Occurrence : AgentRunStops(p)
  BY <1>1, <1>8 DEF AgentRunStops
<1>9. CASE \E t \in Task : \/ NothingDue(t) \/ PrepareFails(t) \/ SetupFailureLost(t)
                           \/ EndTurn(t) \/ FinaliseLost(t) \/ Crash(t)
                           \/ \E p \in Occurrence : Resume(t, p)
  BY <1>1, <1>9 DEF NothingDue, PrepareFails, SetupFailureLost, EndTurn, FinaliseLost, Crash, Resume
<1> QED BY <1>1, <1>3, <1>4, <1>5, <1>6, <1>7, <1>8, <1>9 DEF Next, TaskStep, vars

\* A finished occurrence keeps its verdict, whichever of the writers of runs.py
\* comes later, unless a claim expired under its task.
THEOREM FinishedStaysFinished == Spec => OverIsFinal
<1>1. IndInv /\ [Next]_vars =>
        [\A o \in Occurrence \ overrun : IsOver(o) => Status(o)' = Status(o)]_vars
  BY OverStays
<1> QED BY <1>1, ScheduleInvariant, PTL DEF Spec, OverIsFinal
=============================================================================
