------------------------ MODULE WorkerProcessProofs ------------------------
(* Theorems of WorkerProcess for any items, lanes, slots and batch sizes.   *)
EXTENDS WorkerProcess, FiniteSetTheorems, TLAPS

LaneState ==
  [pc : {"off", "asking", "claiming", "working", "left", "raised"}, of : Item \union {None}]
RunnerState ==
  [pc : {"idle", "maintaining", "batching", "asleep", "over", "failed"},
   admitted : 0..BatchSize, worked : BOOLEAN, claimed : BOOLEAN]

Holds(state) == state.pc \in {"claiming", "working"}

\* A slot is free or held by a lane of one of the runners.
SlotsCounted ==
  slots + Cardinality(Holding("agent")) + Cardinality(Holding("job")) = Slots

\* A batch has lanes; outside of it there are none.
LanesOfBatches ==
  \A k \in Runner : runner[k].pc # "batching" => \A n \in Lane : lane[k][n] = Off

\* A claimed row has a lane that works on it.
ClaimsHeld ==
  \A i \in Item : item[i] = "claimed"
    => \E k \in Runner, n \in Lane : LaneAt(k, n, "working") /\ lane[k][n].of = i

\* A pass that did something is on record when the next one starts.
WorkNoted ==
  mode = "drain" /\ ~shutdown
  => \A k \in Runner :
       runner[k].worked => runner[k].claimed \/ runner[k].pc \in {"batching", "failed"}

\* A process that is gone has no pass left.
GoneIsOver == ~Alive => \A k \in Runner : runner[k].pc \in {"over", "failed"}

\* A lane that has got anywhere was admitted, or met one that was.
LanesAdmitted ==
  \A k \in Runner, n \in Lane :
    lane[k][n].pc \notin {"off", "asking"} => runner[k].admitted > 0 \/ shutdown

\* As long as a drain has executed nothing in this round, a runner whose claims
\* are all back has seen an empty queue: what is due for it came later.
QuietRound ==
  /\ mode = "drain" /\ proc = "up" /\ ~shutdown
  /\ \A k \in Runner : ~runner[k].claimed /\ ~runner[k].worked
Looked(k) ==
  \/ runner[k].pc = "over"
  \/ /\ runner[k].pc = "batching" /\ runner[k].admitted > 0
     /\ \A n \in Lane : lane[k][n].pc \in {"asking", "left"}
QuietRoundsLook == QuietRound => \A k \in Runner : Looked(k) => Due(k) \subseteq late

ProcessInv ==
  /\ TypeOK /\ SlotsCounted /\ LanesOfBatches /\ ClaimsHeld /\ WorkNoted /\ GoneIsOver
  /\ LanesAdmitted /\ QuietRoundsLook /\ DrainedMeansIdle

-----------------------------------------------------------------------------
(* Lanes and slots                                                          *)

LEMMA HoldingFinite ==
  ASSUME NEW k \in Runner
  PROVE  IsFiniteSet(Holding(k)) /\ Cardinality(Holding(k)) \in Nat
<1>1. Holding(k) \subseteq Lane
  BY DEF Holding
<1> QED BY <1>1, WorkerAssumption, FS_Subset, FS_CardinalityType

\* The parts of the state as functions.
LEMMA Parts ==
  ASSUME ProcessInv
  PROVE  /\ lane \in [Runner -> [Lane -> LaneState]] /\ runner \in [Runner -> RunnerState]
         /\ item \in [Item -> {"unborn", "due", "claimed", "done", "left"}]
         /\ slots \in Nat /\ Slots \in Nat /\ BatchSize \in Nat \ {0} /\ faults \in 0..MaxFaults
         /\ late \subseteq Item /\ shutdown \in BOOLEAN
         /\ \A k \in Runner, n \in Lane : lane[k][n] \in LaneState
         /\ \A k \in Runner : runner[k] \in RunnerState
  BY WorkerAssumption DEF ProcessInv, TypeOK, LaneState, RunnerState

\* What one lane does with its slot.
LEMMA LaneMoves ==
  ASSUME ProcessInv, NEW k \in Runner, NEW n \in Lane, NEW new \in LaneState, SetLane(k, n, new),
         \/ slots' = slots /\ (Holds(new) <=> Holds(lane[k][n]))
         \/ slots' = slots - 1 /\ slots > 0 /\ Holds(new) /\ ~Holds(lane[k][n])
         \/ slots' = slots + 1 /\ ~Holds(new) /\ Holds(lane[k][n])
  PROVE  /\ lane' \in [Runner -> [Lane -> LaneState]] /\ lane'[k][n] = new
         /\ \A j \in Runner, m \in Lane : <<j, m>> # <<k, n>> => lane'[j][m] = lane[j][m]
         /\ SlotsCounted' /\ slots' \in 0..Slots
<1>1. /\ lane' \in [Runner -> [Lane -> LaneState]] /\ lane'[k][n] = new
      /\ \A j \in Runner, m \in Lane : <<j, m>> # <<k, n>> => lane'[j][m] = lane[j][m]
      /\ slots \in Nat /\ Slots \in Nat
  BY Parts DEF SetLane
<1>2. \A j \in Runner : j # k => Holding(j)' = Holding(j)
  BY <1>1 DEF Holding
<1>3. \A j \in Runner : Cardinality(Holding(j)) \in Nat
  BY HoldingFinite
<1>4. /\ slots' \in Nat /\ Cardinality(Holding(k)') \in Nat
      /\ slots' + Cardinality(Holding(k)') = slots + Cardinality(Holding(k))
  <2>1. CASE slots' = slots /\ (Holds(new) <=> Holds(lane[k][n]))
    <3>1. Holding(k)' = Holding(k)
      BY <1>1, <2>1 DEF Holding, Holds
    <3> QED BY <1>1, <1>3, <2>1, <3>1
  <2>2. CASE slots' = slots - 1 /\ slots > 0 /\ Holds(new) /\ ~Holds(lane[k][n])
    <3>1. Holding(k)' = Holding(k) \union {n} /\ n \notin Holding(k)
      BY <1>1, <2>2 DEF Holding, Holds
    <3>2. Cardinality(Holding(k)') = Cardinality(Holding(k)) + 1
      BY <3>1, HoldingFinite, FS_AddElement
    <3> QED BY <1>1, <1>3, <2>2, <3>2
  <2>3. CASE slots' = slots + 1 /\ ~Holds(new) /\ Holds(lane[k][n])
    <3>1. Holding(k)' = Holding(k) \ {n} /\ n \in Holding(k)
      BY <1>1, <2>3 DEF Holding, Holds
    <3>2. Cardinality(Holding(k)') = Cardinality(Holding(k)) - 1
      BY <3>1, HoldingFinite, FS_RemoveElement
    <3>3. Cardinality(Holding(k)) > 0
      BY <3>1, HoldingFinite, FS_EmptySet
    <3> QED BY <1>1, <1>3, <2>3, <3>2, <3>3
  <2> QED BY <2>1, <2>2, <2>3
<1>5. /\ slots + Cardinality(Holding("agent")) + Cardinality(Holding("job")) = Slots
      /\ "agent" \in Runner /\ "job" \in Runner /\ Runner = {"agent", "job"}
  BY DEF ProcessInv, SlotsCounted, Runner
<1>6. /\ slots' + Cardinality(Holding("agent")') + Cardinality(Holding("job")') = Slots
      /\ slots' \in 0..Slots
  <2>1. CASE k = "agent"
    <3>1. Holding("job")' = Holding("job")
      BY <1>2, <1>5, <2>1
    <3> QED BY <1>1, <1>3, <1>4, <1>5, <2>1, <3>1
  <2>2. CASE k = "job"
    <3>1. Holding("agent")' = Holding("agent")
      BY <1>2, <1>5, <2>2
    <3> QED BY <1>1, <1>3, <1>4, <1>5, <2>2, <3>1
  <2> QED BY <1>5, <2>1, <2>2
<1> QED BY <1>1, <1>6 DEF SlotsCounted

\* What a batch does that begins, ends or is cancelled.
LEMMA BatchMoves ==
  ASSUME ProcessInv, NEW k \in Runner, NEW new \in LaneState, ~Holds(new),
         lane' = [lane EXCEPT ![k] = [n \in Lane |-> new]],
         slots' = slots + Cardinality(Holding(k))
  PROVE  /\ lane' \in [Runner -> [Lane -> LaneState]] /\ \A n \in Lane : lane'[k][n] = new
         /\ \A j \in Runner : j # k => lane'[j] = lane[j]
         /\ SlotsCounted' /\ slots' \in 0..Slots
<1>1. /\ lane' \in [Runner -> [Lane -> LaneState]] /\ \A n \in Lane : lane'[k][n] = new
      /\ \A j \in Runner : j # k => lane'[j] = lane[j]
      /\ slots \in Nat /\ Slots \in Nat
  BY Parts
<1>2. \A j \in Runner : j # k => Holding(j)' = Holding(j)
  BY <1>1 DEF Holding
<1>3. Holding(k)' = {}
  BY <1>1 DEF Holding, Holds
<1>4. Cardinality(Holding(k)') = 0
  BY <1>3, FS_EmptySet
<1>5. \A j \in Runner : Cardinality(Holding(j)) \in Nat
  BY HoldingFinite
<1>6. /\ slots + Cardinality(Holding("agent")) + Cardinality(Holding("job")) = Slots
      /\ "agent" \in Runner /\ "job" \in Runner /\ Runner = {"agent", "job"}
  BY DEF ProcessInv, SlotsCounted, Runner
<1>7. /\ slots' + Cardinality(Holding("agent")') + Cardinality(Holding("job")') = Slots
      /\ slots' \in 0..Slots
  <2>1. CASE k = "agent"
    <3>1. Holding("job")' = Holding("job")
      BY <1>2, <1>6, <2>1
    <3> QED BY <1>1, <1>4, <1>5, <1>6, <2>1, <3>1
  <2>2. CASE k = "job"
    <3>1. Holding("agent")' = Holding("agent")
      BY <1>2, <1>6, <2>2
    <3> QED BY <1>1, <1>4, <1>5, <1>6, <2>2, <3>1
  <2> QED BY <1>6, <2>1, <2>2
<1> QED BY <1>1, <1>7 DEF SlotsCounted

\* Lanes and slots stay as they are, and no row is claimed.
LEMMA SameLanes ==
  ASSUME ProcessInv, UNCHANGED <<slots, lane>>,
         \A i \in Item : item'[i] = "claimed" => item[i] = "claimed"
  PROVE  SlotsCounted' /\ ClaimsHeld' /\ \A k \in Runner : Holding(k)' = Holding(k)
<1>1. \A k \in Runner : Holding(k)' = Holding(k)
  BY DEF Holding
<1>2. SlotsCounted'
  BY <1>1 DEF ProcessInv, SlotsCounted, Holding
<1>3. ClaimsHeld'
  BY DEF ProcessInv, ClaimsHeld, LaneAt
<1> QED BY <1>1, <1>2, <1>3

-----------------------------------------------------------------------------
(* Surroundings and supervisor                                              *)

LEMMA ArriveStep ==
  ASSUME ProcessInv, NEW i \in Item, Arrive(i)
  PROVE  ProcessInv'
<1>1. /\ item \in [Item -> {"unborn", "due", "claimed", "done", "left"}] /\ late \subseteq Item
      /\ item' = [item EXCEPT ![i] = "due"] /\ late' = late \union {i}
      /\ UNCHANGED <<slots, lane, runner, shutdown, proc, faults, mode>>
  BY Parts DEF Arrive
<1>2. TypeOK'
  BY <1>1 DEF ProcessInv, TypeOK
<1>3. SlotsCounted' /\ ClaimsHeld'
  BY <1>1, SameLanes
<1>4. LanesOfBatches' /\ WorkNoted' /\ GoneIsOver' /\ LanesAdmitted'
  BY <1>1 DEF ProcessInv, LanesOfBatches, WorkNoted, GoneIsOver, Alive, LanesAdmitted
<1>5. \A k \in Runner : Due(k)' \subseteq Due(k) \union {i}
  BY <1>1 DEF Due
<1>6. QuietRoundsLook'
  BY <1>1, <1>5 DEF ProcessInv, QuietRoundsLook, QuietRound, Looked
<1>7. DrainedMeansIdle'
  BY <1>1 DEF ProcessInv, DrainedMeansIdle
<1> QED BY <1>2, <1>3, <1>4, <1>6, <1>7 DEF ProcessInv

LEMMA ShutdownStep ==
  ASSUME ProcessInv, Shutdown
  PROVE  ProcessInv'
<1>1. shutdown' = TRUE /\ UNCHANGED <<item, late, slots, lane, runner, proc, faults, mode>>
  BY DEF Shutdown
<1>2. TypeOK'
  BY <1>1 DEF ProcessInv, TypeOK
<1>3. SlotsCounted' /\ ClaimsHeld'
  BY <1>1, SameLanes
<1>4. LanesOfBatches' /\ WorkNoted' /\ GoneIsOver' /\ LanesAdmitted'
  BY <1>1 DEF ProcessInv, LanesOfBatches, WorkNoted, GoneIsOver, Alive, LanesAdmitted
<1>5. QuietRoundsLook' /\ DrainedMeansIdle'
  BY <1>1 DEF ProcessInv, QuietRoundsLook, QuietRound, DrainedMeansIdle
<1> QED BY <1>2, <1>3, <1>4, <1>5 DEF ProcessInv

\* A runner changes its place between passes, and nothing else changes.
LEMMA RunnerMoves ==
  ASSUME ProcessInv, NEW k \in Runner,
         NEW pc \in {"maintaining", "idle", "over", "asleep", "failed"},
         runner' = [runner EXCEPT ![k].pc = pc], Alive,
         runner[k].pc \in {"idle", "maintaining", "asleep"},
         pc = "over" => shutdown,
         faults' \in 0..MaxFaults,
         UNCHANGED <<item, late, slots, lane, shutdown, proc, mode>>
  PROVE  ProcessInv'
<1>1. /\ runner' \in [Runner -> RunnerState] /\ runner'[k].pc = pc
      /\ runner'[k].admitted = runner[k].admitted /\ runner'[k].worked = runner[k].worked
      /\ runner'[k].claimed = runner[k].claimed
      /\ \A j \in Runner : j # k => runner'[j] = runner[j]
  BY Parts DEF RunnerState
<1>2. TypeOK'
  BY <1>1 DEF ProcessInv, TypeOK, RunnerState
<1>3. SlotsCounted' /\ ClaimsHeld'
  BY SameLanes
<1>4. LanesOfBatches'
  BY <1>1 DEF ProcessInv, LanesOfBatches
<1>5. WorkNoted'
  BY <1>1 DEF ProcessInv, WorkNoted
<1>6. GoneIsOver' /\ LanesAdmitted'
  BY <1>1 DEF ProcessInv, GoneIsOver, Alive, LanesAdmitted
<1>7. QuietRoundsLook'
  BY <1>1 DEF ProcessInv, QuietRoundsLook, QuietRound, Looked, Due
<1>8. DrainedMeansIdle'
  BY DEF ProcessInv, DrainedMeansIdle
<1> QED BY <1>2, <1>3, <1>4, <1>5, <1>6, <1>7, <1>8 DEF ProcessInv

LEMMA StartPassStep ==
  ASSUME ProcessInv, NEW k \in Runner, StartPass(k)
  PROVE  ProcessInv'
<1>1. faults' \in 0..MaxFaults
  BY Parts DEF StartPass
<1>2. CASE shutdown
  BY <1>1, <1>2, RunnerMoves DEF StartPass
<1>3. CASE ~shutdown
  BY <1>1, <1>3, RunnerMoves DEF StartPass
<1> QED BY <1>2, <1>3

LEMMA WakeStep ==
  ASSUME ProcessInv, NEW k \in Runner, Wake(k)
  PROVE  ProcessInv'
<1>1. faults' \in 0..MaxFaults
  BY Parts DEF Wake
<1> QED BY <1>1, RunnerMoves DEF Wake

\* The supervisor changes its place.
LEMMA SupervisorMoves ==
  ASSUME ProcessInv, UNCHANGED <<item, late, slots, lane, runner, faults, mode>>,
         Alive, proc' \in {"stopping", "stopped", "failed"}, shutdown' \in BOOLEAN,
         shutdown => shutdown',
         proc' # "stopping" => \A k \in Runner : runner[k].pc \in {"over", "failed"}
  PROVE  ProcessInv'
<1>2. TypeOK'
  BY DEF ProcessInv, TypeOK
<1>3. SlotsCounted' /\ ClaimsHeld'
  BY SameLanes
<1>4. LanesOfBatches' /\ WorkNoted' /\ GoneIsOver' /\ LanesAdmitted'
  BY DEF ProcessInv, LanesOfBatches, WorkNoted, GoneIsOver, Alive, LanesAdmitted
<1>5. QuietRoundsLook' /\ DrainedMeansIdle'
  BY DEF ProcessInv, QuietRoundsLook, QuietRound, DrainedMeansIdle
<1> QED BY <1>2, <1>3, <1>4, <1>5 DEF ProcessInv

LEMMA SupervisorSteps ==
  ASSUME ProcessInv, RunnerFailed \/ ExitFailed \/ LoopEnds
  PROVE  ProcessInv'
<1>1. CASE RunnerFailed
  BY <1>1, SupervisorMoves DEF RunnerFailed, Alive
<1>2. CASE ExitFailed
  BY <1>2, Parts, SupervisorMoves DEF ExitFailed, Alive, Over
<1>3. CASE LoopEnds
  BY <1>3, Parts, SupervisorMoves DEF LoopEnds, Alive, AllOver, Over
<1> QED BY <1>1, <1>2, <1>3

\* The round ends: a drain that ends here has looked into both queues.
LEMMA EndRoundStep ==
  ASSUME ProcessInv, EndRound
  PROVE  ProcessInv'
<1>1. /\ UNCHANGED <<item, slots, lane, shutdown, faults, mode>>
      /\ mode = "drain" /\ proc = "up" /\ \A k \in Runner : runner[k].pc = "over"
  BY DEF EndRound, AllOver, Over
<1>2. CASE shutdown
  <2>1. proc' = "stopped" /\ UNCHANGED <<late, runner>>
    BY <1>2 DEF EndRound
  <2> QED BY <1>1, <1>2, <2>1, Parts, SupervisorMoves DEF Alive
<1>3. CASE ~shutdown /\ JointlyIdle
  <2>1. proc' = "drained" /\ UNCHANGED <<late, runner>>
    BY <1>3 DEF EndRound
  <2>2. QuietRound
    BY <1>1, <1>3 DEF QuietRound, JointlyIdle, ProcessInv, WorkNoted
  <2>3. \A i \in Item : item[i] = "due" => i \in late
    <3> SUFFICES ASSUME NEW i \in Item, item[i] = "due" PROVE i \in late
      OBVIOUS
    <3>1. KindOf[i] \in Runner /\ i \in Due(KindOf[i])
      BY WorkerAssumption DEF Due, Runner
    <3> QED BY <1>1, <2>2, <3>1 DEF ProcessInv, QuietRoundsLook, Looked
  <2>4. TypeOK'
    BY <1>1, <2>1 DEF ProcessInv, TypeOK
  <2>5. SlotsCounted' /\ ClaimsHeld'
    BY <1>1, SameLanes
  <2>6. LanesOfBatches' /\ WorkNoted' /\ GoneIsOver' /\ LanesAdmitted'
    BY <1>1, <2>1 DEF ProcessInv, LanesOfBatches, WorkNoted, GoneIsOver, LanesAdmitted
  <2>7. QuietRoundsLook' /\ DrainedMeansIdle'
    BY <1>1, <2>1, <2>3 DEF QuietRoundsLook, QuietRound, DrainedMeansIdle
  <2> QED BY <2>4, <2>5, <2>6, <2>7 DEF ProcessInv
<1>4. CASE ~shutdown /\ ~JointlyIdle
  <2>1. proc' = "up" /\ runner' = [k \in Runner |-> Fresh] /\ late' = {}
    BY <1>4 DEF EndRound
  <2>2. /\ Fresh \in RunnerState /\ Fresh.pc = "idle" /\ Fresh.worked = FALSE
        /\ \A k \in Runner : runner'[k] = Fresh
    BY <2>1, Parts DEF Fresh, RunnerState
  <2>3. TypeOK'
    BY <1>1, <2>1, <2>2 DEF ProcessInv, TypeOK, RunnerState
  <2>4. SlotsCounted' /\ ClaimsHeld'
    BY <1>1, SameLanes
  <2>5. \A k \in Runner, n \in Lane : lane'[k][n] = Off
    BY <1>1 DEF ProcessInv, LanesOfBatches
  <2>6. LanesOfBatches' /\ WorkNoted' /\ GoneIsOver' /\ LanesAdmitted'
    BY <2>1, <2>2, <2>5 DEF LanesOfBatches, WorkNoted, GoneIsOver, Alive, LanesAdmitted, Off
  <2>7. QuietRoundsLook' /\ DrainedMeansIdle'
    BY <2>1, <2>2 DEF QuietRoundsLook, Looked, DrainedMeansIdle
  <2> QED BY <2>3, <2>4, <2>6, <2>7 DEF ProcessInv
<1> QED BY <1>2, <1>3, <1>4

-----------------------------------------------------------------------------
(* A pass                                                                   *)

LEMMA MaintainStep ==
  ASSUME ProcessInv, NEW k \in Runner, Maintain(k)
  PROVE  ProcessInv'
<1>1. /\ Alive /\ runner[k].pc = "maintaining"
      /\ UNCHANGED <<item, late, slots, shutdown, proc, mode>>
  BY DEF Maintain
<1>2. CASE Fault /\ Failed(k) /\ UNCHANGED lane
  <2>1. faults' \in 0..MaxFaults
    BY <1>2, Parts, WorkerAssumption DEF Fault
  <2> QED BY <1>1, <1>2, <2>1, RunnerMoves DEF Failed
<1>3. CASE /\ runner' = [runner EXCEPT ![k] =
               [@ EXCEPT !.pc = "batching", !.admitted = 0, !.worked = FALSE]]
           /\ lane' = [lane EXCEPT ![k] = [n \in Lane |-> [Off EXCEPT !.pc = "asking"]]]
           /\ UNCHANGED faults
  <2> DEFINE new == [Off EXCEPT !.pc = "asking"]
  <2>1. new \in LaneState /\ new.pc = "asking" /\ ~Holds(new)
    BY DEF Off, LaneState, Holds
  <2> HIDE DEF new
  <2>2. Holding(k) = {}
    BY <1>1 DEF ProcessInv, LanesOfBatches, Holding, Off
  <2>3. slots' = slots + Cardinality(Holding(k))
    BY <1>1, <2>2, Parts, FS_EmptySet
  <2>4. lane' = [lane EXCEPT ![k] = [n \in Lane |-> new]]
    BY <1>3 DEF new
  <2>5. /\ lane' \in [Runner -> [Lane -> LaneState]] /\ \A n \in Lane : lane'[k][n] = new
        /\ \A j \in Runner : j # k => lane'[j] = lane[j]
        /\ SlotsCounted' /\ slots' \in 0..Slots
    BY <2>1, <2>3, <2>4, BatchMoves
  <2>6. /\ runner' \in [Runner -> RunnerState] /\ runner'[k].pc = "batching"
        /\ runner'[k].admitted = 0 /\ runner'[k].worked = FALSE
        /\ runner'[k].claimed = runner[k].claimed
        /\ \A j \in Runner : j # k => runner'[j] = runner[j]
    <3> DEFINE its == [runner[k] EXCEPT !.pc = "batching", !.admitted = 0, !.worked = FALSE]
    <3>1. runner[k] \in RunnerState /\ 0 \in 0..BatchSize
      BY Parts
    <3>2. /\ its \in RunnerState /\ its.pc = "batching" /\ its.admitted = 0
          /\ its.worked = FALSE /\ its.claimed = runner[k].claimed
      BY <3>1 DEF RunnerState
    <3>3. runner' = [runner EXCEPT ![k] = its]
      BY <1>3
    <3> HIDE DEF its
    <3> QED BY <3>2, <3>3, Parts
  <2>7. TypeOK'
    BY <1>1, <1>3, <2>5, <2>6 DEF ProcessInv, TypeOK, LaneState, RunnerState
  <2>8. LanesOfBatches'
    BY <2>5, <2>6 DEF ProcessInv, LanesOfBatches
  <2>9. ClaimsHeld'
    <3> SUFFICES ASSUME NEW i \in Item, item[i] = "claimed"
                 PROVE  \E j \in Runner, n \in Lane :
                          lane'[j][n].pc = "working" /\ lane'[j][n].of = i
      BY <1>1 DEF ClaimsHeld, LaneAt
    <3>1. PICK j \in Runner, n \in Lane : lane[j][n].pc = "working" /\ lane[j][n].of = i
      BY DEF ProcessInv, ClaimsHeld, LaneAt
    <3>2. j # k
      BY <1>1, <3>1 DEF ProcessInv, LanesOfBatches, Off
    <3> QED BY <2>5, <3>1, <3>2
  <2>10. WorkNoted'
    BY <1>1, <2>6 DEF ProcessInv, WorkNoted
  <2>11. GoneIsOver' /\ LanesAdmitted'
    BY <1>1, <2>1, <2>5, <2>6 DEF ProcessInv, GoneIsOver, Alive, LanesAdmitted
  <2>12. QuietRoundsLook'
    <3> SUFFICES ASSUME QuietRound', NEW j \in Runner, Looked(j)' PROVE Due(j)' \subseteq late'
      BY DEF QuietRoundsLook
    <3>1. QuietRound
      BY <1>1, <2>6 DEF QuietRound, ProcessInv, WorkNoted
    <3>2. j # k
      BY <2>6 DEF Looked
    <3>3. Looked(j)
      BY <2>5, <2>6, <3>2 DEF Looked
    <3> QED BY <1>1, <3>1, <3>3 DEF ProcessInv, QuietRoundsLook, Due
  <2>13. DrainedMeansIdle'
    BY <1>1 DEF DrainedMeansIdle, Alive
  <2> QED BY <2>5, <2>7, <2>8, <2>9, <2>10, <2>11, <2>12, <2>13 DEF ProcessInv
<1> QED BY <1>2, <1>3 DEF Maintain

\* A lane in use belongs to a batch.
LEMMA InBatch ==
  ASSUME ProcessInv, NEW k \in Runner, NEW n \in Lane, lane[k][n].pc # "off"
  PROVE  runner[k].pc = "batching"
  BY DEF ProcessInv, LanesOfBatches, Off

LEMMA AdmitStep ==
  ASSUME ProcessInv, NEW k \in Runner, NEW n \in Lane, Admit(k, n)
  PROVE  ProcessInv'
<1>1. /\ Alive /\ lane[k][n].pc = "asking" /\ slots > 0
      /\ UNCHANGED <<item, late, shutdown, proc, faults, mode>>
  BY DEF Admit, LaneAt, SlotFree
<1>2. runner[k].pc = "batching"
  BY <1>1, InBatch
<1>3. DrainedMeansIdle'
  BY <1>1 DEF DrainedMeansIdle, Alive
<1>4. CASE shutdown \/ BatchFull(k)
  <2> DEFINE new == [Off EXCEPT !.pc = "left"]
  <2>1. new \in LaneState /\ new.pc = "left" /\ ~Holds(new) /\ ~Holds(lane[k][n])
    BY <1>1 DEF Off, LaneState, Holds
  <2>2. SetLane(k, n, new) /\ slots' = slots /\ runner' = runner
    BY <1>4 DEF Admit
  <2> HIDE DEF new
  <2>3. /\ lane' \in [Runner -> [Lane -> LaneState]] /\ lane'[k][n] = new
        /\ \A j \in Runner, m \in Lane : <<j, m>> # <<k, n>> => lane'[j][m] = lane[j][m]
        /\ SlotsCounted' /\ slots' \in 0..Slots
    BY <2>1, <2>2, LaneMoves
  <2>4. TypeOK'
    BY <1>1, <2>2, <2>3 DEF ProcessInv, TypeOK, LaneState
  <2>5. LanesOfBatches'
    BY <1>2, <2>2, <2>3 DEF ProcessInv, LanesOfBatches
  <2>6. ClaimsHeld'
    BY <1>1, <2>3 DEF ProcessInv, ClaimsHeld, LaneAt
  <2>7. WorkNoted' /\ GoneIsOver'
    BY <1>1, <2>2 DEF ProcessInv, WorkNoted, GoneIsOver, Alive
  <2>8. LanesAdmitted'
    <3>1. runner[k].admitted > 0 \/ shutdown
      BY <1>4, Parts DEF BatchFull, RunnerState
    <3> QED BY <1>1, <2>2, <2>3, <3>1 DEF ProcessInv, LanesAdmitted
  <2>9. QuietRoundsLook'
    <3> SUFFICES ASSUME QuietRound', NEW j \in Runner, Looked(j)' PROVE Due(j)' \subseteq late'
      BY DEF QuietRoundsLook
    <3>1. QuietRound
      BY <1>1, <2>2 DEF QuietRound
    <3>2. Looked(j)
      BY <1>1, <2>2, <2>3 DEF Looked
    <3> QED BY <1>1, <3>1, <3>2 DEF ProcessInv, QuietRoundsLook, Due
  <2> QED BY <1>3, <2>3, <2>4, <2>5, <2>6, <2>7, <2>8, <2>9 DEF ProcessInv
<1>5. CASE ~(shutdown \/ BatchFull(k))
  <2> DEFINE new == [Off EXCEPT !.pc = "claiming"]
  <2>1. new \in LaneState /\ new.pc = "claiming" /\ Holds(new) /\ ~Holds(lane[k][n])
    BY <1>1 DEF Off, LaneState, Holds
  <2>2. /\ SetLane(k, n, new) /\ slots' = slots - 1
        /\ runner' = [runner EXCEPT ![k].admitted = @ + 1]
    BY <1>5 DEF Admit
  <2> HIDE DEF new
  <2>3. /\ lane' \in [Runner -> [Lane -> LaneState]] /\ lane'[k][n] = new
        /\ \A j \in Runner, m \in Lane : <<j, m>> # <<k, n>> => lane'[j][m] = lane[j][m]
        /\ SlotsCounted' /\ slots' \in 0..Slots
    BY <1>1, <2>1, <2>2, LaneMoves
  <2>4. runner[k].admitted \in Nat /\ runner[k].admitted < BatchSize
    BY <1>5, Parts DEF BatchFull, RunnerState
  <2>5. /\ runner' \in [Runner -> RunnerState] /\ runner'[k].pc = "batching"
        /\ runner'[k].admitted = runner[k].admitted + 1 /\ runner'[k].worked = runner[k].worked
        /\ runner'[k].claimed = runner[k].claimed
        /\ \A j \in Runner : j # k => runner'[j] = runner[j]
    <3>1. runner[k].admitted + 1 \in 0..BatchSize
      BY <2>4, Parts
    <3> QED BY <1>2, <2>2, <3>1, Parts DEF RunnerState
  <2>6. TypeOK'
    BY <1>1, <2>3, <2>5 DEF ProcessInv, TypeOK, LaneState, RunnerState
  <2>7. LanesOfBatches'
    BY <2>3, <2>5 DEF ProcessInv, LanesOfBatches
  <2>8. ClaimsHeld'
    BY <1>1, <2>3 DEF ProcessInv, ClaimsHeld, LaneAt
  <2>9. WorkNoted' /\ GoneIsOver'
    BY <1>1, <2>5 DEF ProcessInv, WorkNoted, GoneIsOver, Alive
  <2>10. LanesAdmitted'
    <3>1. runner'[k].admitted > 0
      BY <2>4, <2>5
    <3> QED BY <1>1, <2>3, <2>5, <3>1 DEF ProcessInv, LanesAdmitted
  <2>11. QuietRoundsLook'
    <3> SUFFICES ASSUME QuietRound', NEW j \in Runner, Looked(j)' PROVE Due(j)' \subseteq late'
      BY DEF QuietRoundsLook
    <3>1. QuietRound
      BY <1>1, <2>5 DEF QuietRound
    <3>2. j # k
      BY <2>1, <2>3, <2>5 DEF Looked
    <3>3. Looked(j)
      BY <2>3, <2>5, <3>2 DEF Looked
    <3> QED BY <1>1, <3>1, <3>3 DEF ProcessInv, QuietRoundsLook, Due
  <2> QED BY <1>3, <2>3, <2>6, <2>7, <2>8, <2>9, <2>10, <2>11 DEF ProcessInv
<1> QED BY <1>4, <1>5

LEMMA ClaimStep ==
  ASSUME ProcessInv, NEW k \in Runner, NEW n \in Lane, Claim(k, n)
  PROVE  ProcessInv'
<1>1. /\ Alive /\ lane[k][n].pc = "claiming" /\ Holds(lane[k][n])
      /\ UNCHANGED <<late, runner, shutdown, proc, mode>>
  BY DEF Claim, LaneAt, Holds
<1>2. runner[k].pc = "batching"
  BY <1>1, InBatch
<1>3. DrainedMeansIdle'
  BY <1>1 DEF DrainedMeansIdle, Alive
<1>4. WorkNoted' /\ GoneIsOver'
  BY <1>1 DEF ProcessInv, WorkNoted, GoneIsOver, Alive
<1>5. runner[k].admitted > 0 \/ shutdown
  BY <1>1 DEF ProcessInv, LanesAdmitted
<1>6. ASSUME NEW i \in Due(k), item' = [item EXCEPT ![i] = "claimed"],
             SetLane(k, n, [pc |-> "working", of |-> i]), UNCHANGED <<slots, faults>>
      PROVE  ProcessInv'
  <2> DEFINE new == [pc |-> "working", of |-> i]
  <2>1. i \in Item /\ item[i] = "due"
    BY <1>6 DEF Due
  <2>2. new \in LaneState /\ new.pc = "working" /\ new.of = i /\ Holds(new)
    BY <2>1 DEF LaneState, Holds
  <2>3. SetLane(k, n, new)
    BY <1>6
  <2> HIDE DEF new
  <2>4. /\ lane' \in [Runner -> [Lane -> LaneState]] /\ lane'[k][n] = new
        /\ \A j \in Runner, m \in Lane : <<j, m>> # <<k, n>> => lane'[j][m] = lane[j][m]
        /\ SlotsCounted' /\ slots' \in 0..Slots
    BY <1>1, <1>6, <2>2, <2>3, LaneMoves
  <2>5. /\ item' \in [Item -> {"unborn", "due", "claimed", "done", "left"}] /\ item'[i] = "claimed"
        /\ \A l \in Item : l # i => item'[l] = item[l]
    BY <1>6, <2>1, Parts
  <2>6. TypeOK'
    BY <1>1, <1>6, <2>4, <2>5 DEF ProcessInv, TypeOK, LaneState
  <2>7. LanesOfBatches'
    BY <1>1, <1>2, <2>4 DEF ProcessInv, LanesOfBatches
  <2>8. ClaimsHeld'
    <3> SUFFICES ASSUME NEW l \in Item, item'[l] = "claimed"
                 PROVE  \E j \in Runner, m \in Lane :
                          lane'[j][m].pc = "working" /\ lane'[j][m].of = l
      BY DEF ClaimsHeld, LaneAt
    <3>1. CASE l = i
      BY <2>2, <2>4, <3>1
    <3>2. CASE l # i
      <4>1. PICK j \in Runner, m \in Lane : lane[j][m].pc = "working" /\ lane[j][m].of = l
        BY <2>5, <3>2 DEF ProcessInv, ClaimsHeld, LaneAt
      <4>2. <<j, m>> # <<k, n>>
        BY <1>1, <4>1
      <4> QED BY <2>4, <4>1, <4>2
    <3> QED BY <3>1, <3>2
  <2>9. LanesAdmitted'
    BY <1>1, <1>5, <2>4 DEF ProcessInv, LanesAdmitted
  <2>10. QuietRoundsLook'
    <3> SUFFICES ASSUME QuietRound', NEW j \in Runner, Looked(j)' PROVE Due(j)' \subseteq late'
      BY DEF QuietRoundsLook
    <3>1. QuietRound
      BY <1>1 DEF QuietRound
    <3>2. j # k
      BY <1>1, <1>2, <2>2, <2>4 DEF Looked
    <3>3. Looked(j)
      BY <1>1, <2>4, <3>2 DEF Looked
    <3>4. Due(j)' \subseteq Due(j)
      BY <2>5 DEF Due
    <3> QED BY <1>1, <3>1, <3>3, <3>4 DEF ProcessInv, QuietRoundsLook
  <2> QED BY <1>3, <1>4, <2>4, <2>6, <2>7, <2>8, <2>9, <2>10 DEF ProcessInv
<1>7. ASSUME NEW pc \in {"left", "raised"}, SetLane(k, n, [Off EXCEPT !.pc = pc]),
             slots' = slots + 1, UNCHANGED item, faults' \in 0..MaxFaults,
             pc = "left" => Due(k) = {}
      PROVE  ProcessInv'
  <2> DEFINE new == [Off EXCEPT !.pc = pc]
  <2>1. new \in LaneState /\ new.pc = pc /\ ~Holds(new)
    BY <1>7 DEF Off, LaneState, Holds
  <2>2. SetLane(k, n, new)
    BY <1>7
  <2> HIDE DEF new
  <2>3. /\ lane' \in [Runner -> [Lane -> LaneState]] /\ lane'[k][n] = new
        /\ \A j \in Runner, m \in Lane : <<j, m>> # <<k, n>> => lane'[j][m] = lane[j][m]
        /\ SlotsCounted' /\ slots' \in 0..Slots
    BY <1>1, <1>7, <2>1, <2>2, LaneMoves
  <2>4. TypeOK'
    BY <1>1, <1>7, <2>3 DEF ProcessInv, TypeOK, LaneState
  <2>5. LanesOfBatches'
    BY <1>1, <1>2, <2>3 DEF ProcessInv, LanesOfBatches
  <2>6. ClaimsHeld'
    BY <1>1, <1>7, <2>3 DEF ProcessInv, ClaimsHeld, LaneAt
  <2>7. LanesAdmitted'
    BY <1>1, <1>5, <2>3 DEF ProcessInv, LanesAdmitted
  <2>8. QuietRoundsLook'
    <3> SUFFICES ASSUME QuietRound', NEW j \in Runner, Looked(j)' PROVE Due(j)' \subseteq late'
      BY DEF QuietRoundsLook
    <3>1. QuietRound
      BY <1>1 DEF QuietRound
    <3>2. Due(j)' = Due(j)
      BY <1>7 DEF Due
    <3>3. CASE j = k
      <4>1. new.pc = "left"
        BY <1>1, <1>2, <2>1, <2>3, <3>3, <1>7 DEF Looked
      <4> QED BY <1>7, <2>1, <3>2, <3>3, <4>1
    <3>4. CASE j # k
      <4>1. Looked(j)
        BY <1>1, <2>3, <3>4 DEF Looked
      <4> QED BY <1>1, <3>1, <3>2, <4>1 DEF ProcessInv, QuietRoundsLook
    <3> QED BY <3>3, <3>4
  <2> QED BY <1>3, <1>4, <2>3, <2>4, <2>5, <2>6, <2>7, <2>8 DEF ProcessInv
<1>8. CASE \E i \in Due(k) : /\ item' = [item EXCEPT ![i] = "claimed"]
                             /\ SetLane(k, n, [pc |-> "working", of |-> i])
                             /\ UNCHANGED <<slots, faults>>
  BY <1>6, <1>8
<1>9. CASE /\ Due(k) = {} /\ SetLane(k, n, [Off EXCEPT !.pc = "left"])
           /\ slots' = slots + 1 /\ UNCHANGED <<item, faults>>
  BY <1>7, <1>9, Parts
<1>10. CASE /\ Fault /\ SetLane(k, n, [Off EXCEPT !.pc = "raised"])
            /\ slots' = slots + 1 /\ UNCHANGED item
  <2>1. faults' \in 0..MaxFaults
    BY <1>10, Parts, WorkerAssumption DEF Fault
  <2> QED BY <1>7, <1>10, <2>1
<1> QED BY <1>8, <1>9, <1>10 DEF Claim

LEMMA WorkStep ==
  ASSUME ProcessInv, NEW k \in Runner, NEW n \in Lane, Work(k, n)
  PROVE  ProcessInv'
<1> DEFINE i == lane[k][n].of
           new == [Off EXCEPT !.pc = "asking"]
<1>1. /\ Alive /\ lane[k][n].pc = "working" /\ Holds(lane[k][n]) /\ slots' = slots + 1
      /\ UNCHANGED <<late, shutdown, proc, faults, mode>>
  BY DEF Work, LaneAt, Holds
<1>2. runner[k].pc = "batching"
  BY <1>1, InBatch
<1>3. new \in LaneState /\ new.pc = "asking" /\ ~Holds(new) /\ SetLane(k, n, new)
  BY DEF Off, LaneState, Holds, Work
<1> HIDE DEF new
<1>4. /\ lane' \in [Runner -> [Lane -> LaneState]] /\ lane'[k][n] = new
      /\ \A j \in Runner, m \in Lane : <<j, m>> # <<k, n>> => lane'[j][m] = lane[j][m]
      /\ SlotsCounted' /\ slots' \in 0..Slots
  BY <1>1, <1>3, LaneMoves
<1>5. /\ item' \in [Item -> {"unborn", "due", "claimed", "done", "left"}]
      /\ \A l \in Item : item'[l] = "claimed" => l # i /\ item[l] = "claimed"
  BY Parts DEF Work
<1>6. /\ runner' \in [Runner -> RunnerState] /\ runner'[k].pc = "batching"
      /\ runner'[k].worked = TRUE /\ runner'[k].admitted = runner[k].admitted
      /\ \A j \in Runner : j # k => runner'[j] = runner[j]
  BY <1>2, Parts DEF Work, RunnerState
<1>7. TypeOK'
  BY <1>1, <1>4, <1>5, <1>6 DEF ProcessInv, TypeOK, LaneState, RunnerState
<1>8. LanesOfBatches'
  BY <1>4, <1>6 DEF ProcessInv, LanesOfBatches
<1>9. ClaimsHeld'
  <2> SUFFICES ASSUME NEW l \in Item, item'[l] = "claimed"
               PROVE  \E j \in Runner, m \in Lane :
                          lane'[j][m].pc = "working" /\ lane'[j][m].of = l
    BY DEF ClaimsHeld, LaneAt
  <2>1. PICK j \in Runner, m \in Lane : lane[j][m].pc = "working" /\ lane[j][m].of = l
    BY <1>5 DEF ProcessInv, ClaimsHeld, LaneAt
  <2>2. <<j, m>> # <<k, n>>
    BY <1>5, <2>1
  <2> QED BY <1>4, <2>1, <2>2
<1>10. WorkNoted' /\ GoneIsOver'
  BY <1>1, <1>6 DEF ProcessInv, WorkNoted, GoneIsOver, Alive
<1>11. LanesAdmitted'
  BY <1>1, <1>3, <1>4, <1>6 DEF ProcessInv, LanesAdmitted
<1>12. QuietRoundsLook' /\ DrainedMeansIdle'
  BY <1>1, <1>6 DEF QuietRoundsLook, QuietRound, DrainedMeansIdle, Alive
<1> QED BY <1>4, <1>7, <1>8, <1>9, <1>10, <1>11, <1>12 DEF ProcessInv

LEMMA EndPassStep ==
  ASSUME ProcessInv, NEW k \in Runner, EndPass(k)
  PROVE  ProcessInv'
<1>1. /\ Alive /\ runner[k].pc = "batching"
      /\ \A n \in Lane : lane[k][n].pc \in {"left", "raised"}
      /\ lane' = [lane EXCEPT ![k] = [n \in Lane |-> Off]]
      /\ UNCHANGED <<item, late, slots, shutdown, proc, faults, mode>>
  BY DEF EndPass
<1>2. Holding(k) = {}
  BY <1>1 DEF Holding
<1>3. slots' = slots + Cardinality(Holding(k))
  BY <1>1, <1>2, Parts, FS_EmptySet
<1>4. Off \in LaneState /\ Off.pc = "off" /\ ~Holds(Off)
  BY DEF Off, LaneState, Holds
<1>5. /\ lane' \in [Runner -> [Lane -> LaneState]] /\ \A n \in Lane : lane'[k][n] = Off
      /\ \A j \in Runner : j # k => lane'[j] = lane[j]
      /\ SlotsCounted' /\ slots' \in 0..Slots
  BY <1>1, <1>3, <1>4, BatchMoves
<1>6. DrainedMeansIdle'
  BY <1>1 DEF DrainedMeansIdle, Alive
<1>7. ClaimsHeld'
  <2> SUFFICES ASSUME NEW i \in Item, item[i] = "claimed"
               PROVE  \E j \in Runner, n \in Lane :
                          lane'[j][n].pc = "working" /\ lane'[j][n].of = i
    BY <1>1 DEF ClaimsHeld, LaneAt
  <2>1. PICK j \in Runner, n \in Lane : lane[j][n].pc = "working" /\ lane[j][n].of = i
    BY DEF ProcessInv, ClaimsHeld, LaneAt
  <2>2. j # k
    BY <1>1, <2>1
  <2> QED BY <1>5, <2>1, <2>2
<1>8. CASE \E n \in Lane : LaneAt(k, n, "raised")
  <2> DEFINE pc == IF mode = "drain" THEN "failed" ELSE "asleep"
  <2>1. /\ runner' \in [Runner -> RunnerState] /\ runner'[k].pc = pc
        /\ runner'[k].admitted = runner[k].admitted /\ runner'[k].worked = runner[k].worked
        /\ runner'[k].claimed = runner[k].claimed
        /\ \A j \in Runner : j # k => runner'[j] = runner[j]
    <3>1. runner' = [runner EXCEPT ![k].pc = pc] /\ pc \in {"failed", "asleep"}
      BY <1>8 DEF EndPass, Failed
    <3> HIDE DEF pc
    <3> QED BY <3>1, Parts DEF RunnerState
  <2>2. pc \in {"failed", "asleep"} /\ (mode = "drain" => pc = "failed")
    OBVIOUS
  <2> HIDE DEF pc
  <2>3. TypeOK'
    BY <1>1, <1>5, <2>1 DEF ProcessInv, TypeOK, LaneState, RunnerState
  <2>4. LanesOfBatches'
    BY <1>5, <2>1 DEF ProcessInv, LanesOfBatches
  <2>5. WorkNoted' /\ GoneIsOver'
    BY <1>1, <2>1, <2>2 DEF ProcessInv, WorkNoted, GoneIsOver, Alive
  <2>6. LanesAdmitted'
    BY <1>1, <1>4, <1>5, <2>1 DEF ProcessInv, LanesAdmitted
  <2>7. QuietRoundsLook'
    <3> SUFFICES ASSUME QuietRound', NEW j \in Runner, Looked(j)' PROVE Due(j)' \subseteq late'
      BY DEF QuietRoundsLook
    <3>1. QuietRound
      BY <1>1, <2>1 DEF QuietRound
    <3>2. j # k
      BY <2>1, <2>2 DEF Looked
    <3>3. Looked(j)
      BY <1>5, <2>1, <3>2 DEF Looked
    <3> QED BY <1>1, <3>1, <3>3 DEF ProcessInv, QuietRoundsLook, Due
  <2> QED BY <1>5, <1>6, <1>7, <2>3, <2>4, <2>5, <2>6, <2>7 DEF ProcessInv
<1>9. CASE ~\E n \in Lane : LaneAt(k, n, "raised")
  <2> DEFINE pc == IF shutdown THEN "over"
                   ELSE IF mode = "forever" THEN "asleep"
                   ELSE IF runner[k].worked THEN "idle" ELSE "over"
             claimed == runner[k].claimed \/ runner[k].worked
  <2>1. /\ runner' \in [Runner -> RunnerState] /\ runner'[k].pc = pc
        /\ runner'[k].admitted = runner[k].admitted /\ runner'[k].worked = runner[k].worked
        /\ runner'[k].claimed = claimed
        /\ \A j \in Runner : j # k => runner'[j] = runner[j]
    <3> DEFINE its == [runner[k] EXCEPT !.claimed = claimed, !.pc = pc]
    <3>1. runner[k] \in RunnerState /\ claimed \in BOOLEAN
          /\ pc \in {"idle", "asleep", "over"}
      BY Parts
    <3>2. runner' = [runner EXCEPT ![k] = its]
      BY <1>9 DEF EndPass
    <3> HIDE DEF claimed, pc
    <3>3. /\ its \in RunnerState /\ its.pc = pc /\ its.admitted = runner[k].admitted
          /\ its.worked = runner[k].worked /\ its.claimed = claimed
      BY <3>1 DEF RunnerState
    <3> HIDE DEF its
    <3> QED BY <3>2, <3>3, Parts
  <2>2. /\ pc \in {"idle", "asleep", "over"}
        /\ pc = "over" => shutdown \/ ~runner[k].worked
        /\ runner[k].worked => claimed /\ (claimed => runner[k].claimed \/ runner[k].worked)
        /\ ~claimed => ~runner[k].claimed
    OBVIOUS
  <2> HIDE DEF pc, claimed
  <2>3. TypeOK'
    BY <1>1, <1>5, <2>1 DEF ProcessInv, TypeOK, LaneState, RunnerState
  <2>4. LanesOfBatches'
    BY <1>5, <2>1 DEF ProcessInv, LanesOfBatches
  <2>5. WorkNoted' /\ GoneIsOver'
    BY <1>1, <2>1, <2>2 DEF ProcessInv, WorkNoted, GoneIsOver, Alive
  <2>6. LanesAdmitted'
    BY <1>1, <1>4, <1>5, <2>1 DEF ProcessInv, LanesAdmitted
  <2>7. QuietRoundsLook'
    <3> SUFFICES ASSUME QuietRound', NEW j \in Runner, Looked(j)' PROVE Due(j)' \subseteq late'
      BY DEF QuietRoundsLook
    <3>1. QuietRound
      BY <1>1, <2>1, <2>2 DEF QuietRound
    <3>2. CASE j = k
      <4>1. PICK n \in Lane : lane[k][n].pc = "left"
        BY <1>1, <1>9, WorkerAssumption DEF LaneAt
      <4>2. runner[k].admitted > 0
        BY <3>1, <4>1 DEF ProcessInv, LanesAdmitted, QuietRound
      <4>3. \A m \in Lane : lane[k][m].pc = "left"
        BY <1>1, <1>9 DEF LaneAt
      <4>4. Looked(k)
        BY <1>1, <4>2, <4>3 DEF Looked
      <4> QED BY <1>1, <3>1, <3>2, <4>4 DEF ProcessInv, QuietRoundsLook, Due
    <3>3. CASE j # k
      <4>1. Looked(j)
        BY <1>5, <2>1, <3>3 DEF Looked
      <4> QED BY <1>1, <3>1, <4>1 DEF ProcessInv, QuietRoundsLook, Due
    <3> QED BY <3>2, <3>3
  <2> QED BY <1>5, <1>6, <1>7, <2>3, <2>4, <2>5, <2>6, <2>7 DEF ProcessInv
<1> QED BY <1>8, <1>9

LEMMA CancelPassStep ==
  ASSUME ProcessInv, NEW k \in Runner, CancelPass(k)
  PROVE  ProcessInv'
<1>1. /\ Alive /\ shutdown /\ runner' = [runner EXCEPT ![k].pc = "over"]
      /\ lane' = [lane EXCEPT ![k] = [n \in Lane |-> Off]]
      /\ slots' = slots + Cardinality(Holding(k))
      /\ UNCHANGED <<late, shutdown, proc, faults, mode>>
  BY DEF CancelPass, GraceOver, CancelLanes
<1>2. Off \in LaneState /\ Off.pc = "off" /\ ~Holds(Off)
  BY DEF Off, LaneState, Holds
<1>3. /\ lane' \in [Runner -> [Lane -> LaneState]] /\ \A n \in Lane : lane'[k][n] = Off
      /\ \A j \in Runner : j # k => lane'[j] = lane[j]
      /\ SlotsCounted' /\ slots' \in 0..Slots
  BY <1>1, <1>2, BatchMoves
<1>4. /\ item' \in [Item -> {"unborn", "due", "claimed", "done", "left"}]
      /\ \A i \in Item : item'[i] = "claimed" =>
           item[i] = "claimed" /\ \A n \in Holding(k) : lane[k][n].of # i
  BY Parts DEF CancelPass, CancelLanes
<1>5. /\ runner' \in [Runner -> RunnerState] /\ runner'[k].pc = "over"
      /\ \A j \in Runner : j # k => runner'[j] = runner[j]
  BY <1>1, Parts DEF RunnerState
<1>6. TypeOK'
  BY <1>1, <1>3, <1>4, <1>5 DEF ProcessInv, TypeOK, LaneState, RunnerState
<1>7. LanesOfBatches'
  BY <1>3, <1>5 DEF ProcessInv, LanesOfBatches
<1>8. ClaimsHeld'
  <2> SUFFICES ASSUME NEW i \in Item, item'[i] = "claimed"
               PROVE  \E j \in Runner, n \in Lane :
                          lane'[j][n].pc = "working" /\ lane'[j][n].of = i
    BY DEF ClaimsHeld, LaneAt
  <2>1. PICK j \in Runner, n \in Lane : lane[j][n].pc = "working" /\ lane[j][n].of = i
    BY <1>4 DEF ProcessInv, ClaimsHeld, LaneAt
  <2>2. j # k
    BY <1>4, <2>1 DEF Holding
  <2> QED BY <1>3, <2>1, <2>2
<1>9. WorkNoted' /\ GoneIsOver' /\ LanesAdmitted'
  BY <1>1 DEF WorkNoted, GoneIsOver, Alive, LanesAdmitted
<1>10. QuietRoundsLook' /\ DrainedMeansIdle'
  BY <1>1 DEF QuietRoundsLook, QuietRound, DrainedMeansIdle, Alive
<1> QED BY <1>3, <1>6, <1>7, <1>8, <1>9, <1>10 DEF ProcessInv

-----------------------------------------------------------------------------
(* The invariant                                                            *)

LEMMA InitInv == Init => ProcessInv
<1> SUFFICES ASSUME Init PROVE ProcessInv
  OBVIOUS
<1>1. /\ Fresh \in RunnerState /\ Fresh.pc = "idle" /\ Fresh.worked = FALSE
      /\ Off \in LaneState /\ Off.pc = "off"
  BY WorkerAssumption DEF Fresh, RunnerState, Off, LaneState
<1>2. /\ lane \in [Runner -> [Lane -> LaneState]] /\ runner \in [Runner -> RunnerState]
      /\ \A k \in Runner : runner[k] = Fresh /\ \A n \in Lane : lane[k][n] = Off
  BY <1>1 DEF Init
<1>3. TypeOK
  <2>1. slots \in 0..Slots /\ faults \in 0..MaxFaults
    BY WorkerAssumption DEF Init
  <2> QED BY <1>2, <2>1 DEF TypeOK, RunnerState, LaneState, Init
<1>4. SlotsCounted
  <2>1. Holding("agent") = {} /\ Holding("job") = {}
    BY <1>1, <1>2 DEF Holding, Runner
  <2>2. Cardinality(Holding("agent")) = 0 /\ Cardinality(Holding("job")) = 0
    BY <2>1, FS_EmptySet
  <2> QED BY <2>2, WorkerAssumption DEF SlotsCounted, Init
<1>5. LanesOfBatches /\ ClaimsHeld /\ WorkNoted /\ LanesAdmitted
  BY <1>1, <1>2 DEF LanesOfBatches, ClaimsHeld, WorkNoted, LanesAdmitted, Init
<1>6. GoneIsOver /\ DrainedMeansIdle
  BY DEF GoneIsOver, Alive, DrainedMeansIdle, Init
<1>7. QuietRoundsLook
  BY <1>1, <1>2 DEF QuietRoundsLook, Looked
<1> QED BY <1>3, <1>4, <1>5, <1>6, <1>7 DEF ProcessInv

LEMMA NextInv == ProcessInv /\ [Next]_vars => ProcessInv'
<1> SUFFICES ASSUME ProcessInv, [Next]_vars PROVE ProcessInv'
  OBVIOUS
<1>1. ASSUME NEW i \in Item, Arrive(i) PROVE ProcessInv'
  BY <1>1, ArriveStep
<1>2. ASSUME Shutdown \/ EndRound \/ RunnerFailed \/ ExitFailed \/ LoopEnds PROVE ProcessInv'
  BY <1>2, ShutdownStep, EndRoundStep, SupervisorSteps
<1>3. ASSUME NEW k \in Runner, Pass(k) PROVE ProcessInv'
  BY <1>3, StartPassStep, MaintainStep, EndPassStep, WakeStep, AdmitStep, ClaimStep DEF Pass
<1>4. ASSUME NEW k \in Runner, CancelPass(k) PROVE ProcessInv'
  BY <1>4, CancelPassStep
<1>5. ASSUME NEW k \in Runner, NEW n \in Lane, Work(k, n) PROVE ProcessInv'
  BY <1>5, WorkStep
<1>6. ASSUME UNCHANGED vars PROVE ProcessInv'
  <2>1. UNCHANGED <<mode, item, late, slots, lane, runner, shutdown, proc, faults>>
    BY <1>6 DEF vars
  <2>2. SlotsCounted' /\ ClaimsHeld'
    BY <2>1, SameLanes
  <2>3. TypeOK' /\ LanesOfBatches' /\ WorkNoted' /\ GoneIsOver' /\ LanesAdmitted'
    BY <2>1 DEF ProcessInv, TypeOK, LanesOfBatches, WorkNoted, GoneIsOver, Alive, LanesAdmitted
  <2>4. QuietRoundsLook' /\ DrainedMeansIdle'
    BY <2>1 DEF ProcessInv, QuietRoundsLook, QuietRound, Looked, Due, DrainedMeansIdle
  <2> QED BY <2>2, <2>3, <2>4 DEF ProcessInv
<1> QED BY <1>1, <1>2, <1>3, <1>4, <1>5, <1>6 DEF Next

\* Slots are free or held, a claimed row has its lane, and a drain that has
\* executed nothing has seen empty queues, in every reachable state (workers/).
THEOREM ProcessIsKnown == Spec => []ProcessInv
  BY InitInv, NextInv, PTL DEF Spec

\* A working lane holds a slot, so that both runners together have at most
\* Slots of them (worker_run_slot).
LEMMA WorkIsShared == ProcessInv => SlotsShared
<1> SUFFICES ASSUME ProcessInv PROVE SlotsShared
  OBVIOUS
<1> DEFINE Pairs(k) == {k} \X Holding(k)
           working == {x \in Runner \X Lane : LaneAt(x[1], x[2], "working")}
<1>1. ASSUME NEW k \in Runner
      PROVE  IsFiniteSet(Pairs(k)) /\ Cardinality(Pairs(k)) = Cardinality(Holding(k))
  <2>1. IsFiniteSet({k}) /\ Cardinality({k}) = 1
    BY FS_Singleton
  <2>2. IsFiniteSet(Pairs(k)) /\ Cardinality(Pairs(k)) = Cardinality({k}) * Cardinality(Holding(k))
    BY <2>1, HoldingFinite, FS_Product
  <2> QED BY <2>1, <2>2, HoldingFinite
<1>2. "agent" \in Runner /\ "job" \in Runner /\ Runner = {"agent", "job"}
  BY DEF Runner
<1>3. working \subseteq Pairs("agent") \union Pairs("job")
  BY <1>2 DEF LaneAt, Holding
<1>4. Pairs("agent") \cap Pairs("job") = {}
  OBVIOUS
<1> HIDE DEF Pairs, working
<1>5. /\ IsFiniteSet(Pairs("agent") \union Pairs("job"))
      /\ Cardinality(Pairs("agent") \union Pairs("job"))
         = Cardinality(Pairs("agent")) + Cardinality(Pairs("job"))
  <2>1. Cardinality(Pairs("agent") \cap Pairs("job")) = 0
    BY <1>4, FS_EmptySet
  <2>2. /\ IsFiniteSet(Pairs("agent") \union Pairs("job"))
        /\ Cardinality(Pairs("agent") \union Pairs("job"))
           = Cardinality(Pairs("agent")) + Cardinality(Pairs("job"))
             - Cardinality(Pairs("agent") \cap Pairs("job"))
    BY <1>1, <1>2, FS_Union
  <2> QED BY <1>1, <1>2, <2>1, <2>2, HoldingFinite
<1>6. Cardinality(working) <= Cardinality(Pairs("agent") \union Pairs("job"))
      /\ Cardinality(working) \in Nat
  BY <1>3, <1>5, FS_Subset, FS_CardinalityType
<1>7. slots + Cardinality(Holding("agent")) + Cardinality(Holding("job")) = Slots
      /\ slots \in Nat /\ Slots \in Nat
  BY Parts DEF ProcessInv, SlotsCounted
<1>8. Cardinality(working) <= Slots
  BY <1>1, <1>2, <1>5, <1>6, <1>7, HoldingFinite
<1> QED BY <1>8 DEF working, SlotsShared

\* Batches and slots stay within their bounds, and both runners together
\* execute at most as many items as there are slots, for any lanes and slots.
THEOREM WorkStaysWithinLimits == Spec => []WithinLimits
<1>1. ProcessInv => WithinLimits
  BY WorkIsShared DEF ProcessInv, WithinLimits
<1> QED BY <1>1, ProcessIsKnown, PTL

\* A process that has ended left no claimed row, no handler and no slot in use;
\* a drain that ended as drained left nothing due that was so in its last
\* round, whatever the work of one runner makes due for the other.
THEOREM NothingStaysBehind == Spec => []NothingLeftBehind
<1>1. ProcessInv => QuietExit
  <2> SUFFICES ASSUME ProcessInv, ~Alive PROVE QuietExit
    BY DEF QuietExit
  <2>1. \A k \in Runner : runner[k].pc \in {"over", "failed"}
    BY DEF ProcessInv, GoneIsOver
  <2>2. \A k \in Runner, n \in Lane : lane[k][n] = Off
    BY <2>1 DEF ProcessInv, LanesOfBatches
  <2>3. \A k \in Runner : Holding(k) = {}
    BY <2>2 DEF Holding, Off
  <2>4. slots = Slots
    <3>1. Cardinality(Holding("agent")) = 0 /\ Cardinality(Holding("job")) = 0
      BY <2>3, FS_EmptySet DEF Runner
    <3> QED BY <3>1, Parts DEF ProcessInv, SlotsCounted
  <2>5. \A i \in Item : item[i] # "claimed"
    BY <2>2 DEF ProcessInv, ClaimsHeld, LaneAt, Off
  <2> QED BY <2>1, <2>3, <2>4, <2>5 DEF QuietExit
<1>2. ProcessInv => NothingLeftBehind
  BY <1>1 DEF ProcessInv, NothingLeftBehind
<1> QED BY <1>2, ProcessIsKnown, PTL
=============================================================================
