--------------------------- MODULE WorkerProcess ---------------------------
(***************************************************************************)
(* The background worker process: the supervisor of workers/main.py, the   *)
(* polling passes of its two runners and the execution slots they share    *)
(* (workers/concurrency.py).                                               *)
(*                                                                         *)
(* An item is a row of either queue, a due schedule or a generic job.      *)
(* Claims, handlers and leases are those of ScheduleRuns and JobQueue;     *)
(* here an item is due, claimed, done, or left to the expiry of its lease  *)
(* because its handler was cancelled. Work on an item may make others due. *)
(***************************************************************************)
EXTENDS Naturals, FiniteSets

CONSTANTS
  Item,
  KindOf,     \* the runner an item belongs to: "agent" or "job"
  MadeBy,     \* the item whose execution enqueues it, or None
  None,
  Lane,       \* lanes of a batch; there are WORKER_MAX_CONCURRENT_RUNS slots
  Slots,
  BatchSize,  \* max_items of a pass
  MaxFaults   \* bound: database errors that end a pass

ASSUME WorkerAssumption ==
  /\ KindOf \in [Item -> {"agent", "job"}] /\ MadeBy \in [Item -> Item \union {None}]
  /\ None \notin Item /\ IsFiniteSet(Item) /\ IsFiniteSet(Lane) /\ Lane # {}
  /\ Slots \in Nat \ {0} /\ BatchSize \in Nat \ {0} /\ MaxFaults \in Nat

Runner == {"agent", "job"}

VARIABLES
  mode,      \* WORKER_MODE
  item,      \* the queues
  late,      \* items that became due by themselves in this round
  slots,     \* free execution slots
  lane,      \* the lanes of each runner's batch
  runner,    \* each runner's loop
  shutdown,  \* the shutdown event
  proc,      \* the supervisor
  faults

vars == <<mode, item, late, slots, lane, runner, shutdown, proc, faults>>

Off == [pc |-> "off", of |-> None]
Fresh == [pc |-> "idle", admitted |-> 0, worked |-> FALSE, claimed |-> FALSE]

Init ==
  /\ mode \in {"drain", "forever"}
  /\ item = [i \in Item |-> "unborn"] /\ late = {}
  /\ slots = Slots
  /\ lane = [k \in Runner |-> [n \in Lane |-> Off]]
  /\ runner = [k \in Runner |-> Fresh]
  /\ shutdown = FALSE /\ proc = "up" /\ faults = 0

Alive == proc \in {"up", "stopping"}
LaneAt(k, n, pc) == lane[k][n].pc = pc
SetLane(k, n, new) == lane' = [lane EXCEPT ![k][n] = new]
Holding(k) == {n \in Lane : lane[k][n].pc \in {"claiming", "working"}}
Due(k) == {i \in Item : item[i] = "due" /\ KindOf[i] = k}

-----------------------------------------------------------------------------
(* Surroundings.                                                           *)

Arrive(i) ==
  /\ item[i] = "unborn" /\ MadeBy[i] = None
  /\ item' = [item EXCEPT ![i] = "due"] /\ late' = late \union {i}
  /\ UNCHANGED <<slots, lane, runner, shutdown, proc, faults, mode>>

\* A signal, or in drain mode the end of the budget.
Shutdown ==
  /\ ~shutdown /\ proc = "up" /\ shutdown' = TRUE
  /\ UNCHANGED <<item, late, slots, lane, runner, proc, faults, mode>>

Fault == faults < MaxFaults /\ faults' = faults + 1

-----------------------------------------------------------------------------
(* A pass of a runner. A definition named Bug... is the next one with a    *)
(* plausible mistake; no specification uses it.                            *)

StartPass(k) ==
  /\ Alive /\ runner[k].pc = "idle"
  /\ runner' = [runner EXCEPT ![k].pc = IF shutdown THEN "over" ELSE "maintaining"]
  /\ UNCHANGED <<item, late, slots, lane, shutdown, proc, faults, mode>>

\* An error ends a drain, but only the pass of a runner that polls.
Failed(k) ==
  runner' = [runner EXCEPT ![k].pc = IF mode = "drain" THEN "failed" ELSE "asleep"]

\* Reconciling, reclaiming and ensuring the recurring jobs come first.
Maintain(k) ==
  /\ Alive /\ runner[k].pc = "maintaining"
  /\ \/ /\ runner' = [runner EXCEPT ![k] =
             [@ EXCEPT !.pc = "batching", !.admitted = 0, !.worked = FALSE]]
        /\ lane' = [lane EXCEPT ![k] = [n \in Lane |-> [Off EXCEPT !.pc = "asking"]]]
        /\ UNCHANGED faults
     \/ Fault /\ Failed(k) /\ UNCHANGED lane
  /\ UNCHANGED <<item, late, slots, shutdown, proc, mode>>

\* With its slot a lane looks at the event and at the size of the batch.
BugNoSlot == TRUE
SlotFree == slots > 0
BatchFull(k) == runner[k].admitted >= BatchSize

Admit(k, n) ==
  /\ Alive /\ LaneAt(k, n, "asking") /\ SlotFree
  /\ IF shutdown \/ BatchFull(k)
     THEN SetLane(k, n, [Off EXCEPT !.pc = "left"]) /\ UNCHANGED <<slots, runner>>
     ELSE /\ SetLane(k, n, [Off EXCEPT !.pc = "claiming"])
          /\ runner' = [runner EXCEPT ![k].admitted = @ + 1]
          /\ slots' = slots - 1
  /\ UNCHANGED <<item, late, shutdown, proc, faults, mode>>

Claim(k, n) ==
  /\ Alive /\ LaneAt(k, n, "claiming")
  /\ \/ \E i \in Due(k) :
          /\ item' = [item EXCEPT ![i] = "claimed"]
          /\ SetLane(k, n, [pc |-> "working", of |-> i])
          /\ UNCHANGED <<slots, faults>>
     \/ /\ Due(k) = {} /\ SetLane(k, n, [Off EXCEPT !.pc = "left"])
        /\ slots' = slots + 1 /\ UNCHANGED <<item, faults>>
     \/ /\ Fault /\ SetLane(k, n, [Off EXCEPT !.pc = "raised"])
        /\ slots' = slots + 1 /\ UNCHANGED item
  /\ UNCHANGED <<late, runner, shutdown, proc, mode>>

\* The handler ends, however it ends; the lane gives its slot back and asks
\* again.
Work(k, n) ==
  /\ Alive /\ LaneAt(k, n, "working")
  /\ LET i == lane[k][n].of
         made == {j \in Item : MadeBy[j] = i /\ item[j] = "unborn"}
     IN  item' = [j \in Item |-> IF j = i THEN "done"
                                 ELSE IF j \in made THEN "due" ELSE item[j]]
  /\ SetLane(k, n, [Off EXCEPT !.pc = "asking"])
  /\ runner' = [runner EXCEPT ![k].worked = TRUE]
  /\ slots' = slots + 1
  /\ UNCHANGED <<late, shutdown, proc, faults, mode>>

\* run_once returns, and run_drain or run_forever decides what is next.
EndPass(k) ==
  /\ Alive /\ runner[k].pc = "batching"
  /\ \A n \in Lane : lane[k][n].pc \in {"left", "raised"}
  /\ IF \E n \in Lane : LaneAt(k, n, "raised") THEN Failed(k)
     ELSE runner' = [runner EXCEPT
            ![k].claimed = @ \/ runner[k].worked,
            ![k].pc = IF shutdown THEN "over"
                      ELSE IF mode = "forever" THEN "asleep"
                      ELSE IF runner[k].worked THEN "idle" ELSE "over"]
  /\ lane' = [lane EXCEPT ![k] = [n \in Lane |-> Off]]
  /\ UNCHANGED <<item, late, slots, shutdown, proc, faults, mode>>

Wake(k) ==
  /\ Alive /\ runner[k].pc = "asleep"
  /\ runner' = [runner EXCEPT ![k].pc = "idle"]
  /\ UNCHANGED <<item, late, slots, lane, shutdown, proc, faults, mode>>

\* A cancelled pass cancels its lanes and waits for them; the rows they
\* claimed stay claimed until their leases expire.
BugAbandons(k) == UNCHANGED <<item, slots, lane>>
CancelLanes(k) ==
  LET dropped == {lane[k][n].of : n \in Holding(k)}
  IN  /\ item' = [i \in Item |-> IF i \in dropped THEN "left" ELSE item[i]]
      /\ slots' = slots + Cardinality(Holding(k))
      /\ lane' = [lane EXCEPT ![k] = [n \in Lane |-> Off]]

BugNeverExpires(k) == FALSE
GraceOver(k) ==
  /\ shutdown /\ runner[k].pc \in {"maintaining", "batching"}
  /\ mode = "forever" \/ proc = "stopping"

\* _run_once_until_shutdown in forever mode, _drain_pending_tasks in both.
CancelPass(k) ==
  /\ Alive /\ GraceOver(k)
  /\ CancelLanes(k)
  /\ runner' = [runner EXCEPT ![k].pc = "over"]
  /\ UNCHANGED <<late, shutdown, proc, faults, mode>>

-----------------------------------------------------------------------------
(* The supervisor.                                                         *)

Over(k) == runner[k].pc = "over"
AllOver == \A k \in Runner : Over(k)

\* Drain mode starts both runners again until a round of both claims nothing.
BugOneRound == TRUE
JointlyIdle == \A k \in Runner : ~runner[k].claimed

EndRound ==
  /\ mode = "drain" /\ proc = "up" /\ AllOver
  /\ proc' = IF shutdown THEN "stopped" ELSE IF JointlyIdle THEN "drained" ELSE "up"
  /\ IF shutdown \/ JointlyIdle THEN UNCHANGED <<late, runner>>
     ELSE runner' = [k \in Runner |-> Fresh] /\ late' = {}
  /\ UNCHANGED <<item, slots, lane, shutdown, faults, mode>>

\* A runner that failed takes the process down, after the other has had time.
RunnerFailed ==
  /\ mode = "drain" /\ proc = "up" /\ \E k \in Runner : runner[k].pc = "failed"
  /\ proc' = "stopping" /\ shutdown' = TRUE
  /\ UNCHANGED <<item, late, slots, lane, runner, faults, mode>>

ExitFailed ==
  /\ mode = "drain" /\ proc = "stopping"
  /\ \A k \in Runner : Over(k) \/ runner[k].pc = "failed"
  /\ proc' = "failed"
  /\ UNCHANGED <<item, late, slots, lane, runner, shutdown, faults, mode>>

LoopEnds ==
  /\ mode = "forever" /\ Alive
  /\ IF AllOver THEN proc' = "stopped"
     ELSE proc = "up" /\ (\E k \in Runner : Over(k)) /\ proc' = "stopping"
  /\ UNCHANGED <<item, late, slots, lane, runner, shutdown, faults, mode>>

-----------------------------------------------------------------------------
Pass(k) ==
  StartPass(k) \/ Maintain(k) \/ EndPass(k) \/ Wake(k) \/ \E n \in Lane : Admit(k, n) \/ Claim(k, n)

Next ==
  \/ \E i \in Item : Arrive(i)
  \/ Shutdown \/ EndRound \/ RunnerFailed \/ ExitFailed \/ LoopEnds
  \/ \E k \in Runner : Pass(k) \/ CancelPass(k) \/ \E n \in Lane : Work(k, n)

Spec == Init /\ [][Next]_vars

\* Lanes get their turn at the slots, timers fire and the supervisor runs.
LoopFairness ==
  /\ \A k \in Runner :
       /\ WF_vars(StartPass(k)) /\ WF_vars(Maintain(k)) /\ WF_vars(EndPass(k))
       /\ WF_vars(Wake(k)) /\ WF_vars(CancelPass(k))
       /\ \A n \in Lane : SF_vars(Admit(k, n)) /\ WF_vars(Claim(k, n))
  /\ WF_vars(EndRound) /\ WF_vars(RunnerFailed) /\ WF_vars(ExitFailed) /\ WF_vars(LoopEnds)

\* Handlers may hang: nothing is assumed of Work.
LoopSpec == Spec /\ LoopFairness

\* Handlers end, as the deadlines of turns and the platform's limit make them.
WorkEnds == \A k \in Runner, n \in Lane : WF_vars(Work(k, n))

-----------------------------------------------------------------------------
(* Properties.                                                             *)

TypeOK ==
  /\ mode \in {"drain", "forever"}
  /\ item \in [Item -> {"unborn", "due", "claimed", "done", "left"}]
  /\ late \subseteq Item
  /\ slots \in 0..Slots
  /\ lane \in [Runner -> [Lane ->
       [pc : {"off", "asking", "claiming", "working", "left", "raised"}, of : Item \union {None}]]]
  /\ runner \in [Runner ->
       [pc : {"idle", "maintaining", "batching", "asleep", "over", "failed"},
        admitted : 0..BatchSize, worked : BOOLEAN, claimed : BOOLEAN]]
  /\ shutdown \in BOOLEAN
  /\ proc \in {"up", "stopping", "drained", "stopped", "failed"}
  /\ faults \in 0..MaxFaults

\* Both runners together execute at most as many items as there are slots.
SlotsShared ==
  Cardinality({x \in Runner \X Lane : LaneAt(x[1], x[2], "working")}) <= Slots

\* The state is of its type, with batches and slots within their bounds.
WithinLimits == TypeOK /\ SlotsShared

\* A drain that ends as drained has executed whatever was due when its last
\* round began, and whatever that work has made due for either runner.
DrainedMeansIdle ==
  proc = "drained" => \A i \in Item : item[i] = "due" => i \in late

\* When the process closes its connections, no pass and no handler is left,
\* and no row is held as if one were: shutdown strands no claimed work.
QuietExit ==
  ~Alive => /\ slots = Slots /\ \A i \in Item : item[i] # "claimed"
            /\ \A k \in Runner : runner[k].pc \in {"over", "failed"} /\ Holding(k) = {}

\* Neither way of ending leaves work that another process would have to find.
NothingLeftBehind == DrainedMeansIdle /\ QuietExit

\* A polling worker told to stop stops, also when handlers hang.
ShutdownEnds == shutdown /\ mode = "forever" ~> ~Alive

\* A drain ends by itself, once handlers end.
DrainEnds == mode = "drain" /\ WorkEnds => <>~Alive

\* Either way a worker process comes to its end (drain, _run_forever).
ProcessEnds == ShutdownEnds /\ DrainEnds

=============================================================================
