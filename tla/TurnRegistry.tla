---------------------------- MODULE TurnRegistry ----------------------------
(***************************************************************************)
(* The tasks that execute interactive turns in one API process:            *)
(* services/agents/runtime/run_manager.py, with the heartbeat that keeps   *)
(* the lease of a queued turn and the drain at shutdown.                   *)
(*                                                                         *)
(* asyncio runs one task at a time, from one await to the next: an action  *)
(* is such a stretch. A cancellation is a mark on the task that its next   *)
(* await turns into an exception. Of the worker of a turn only its end is  *)
(* modelled, and of the database row the part the registry settles.        *)
(***************************************************************************)
EXTENDS Naturals, Sequences, FiniteSets

CONSTANTS
  Turn,      \* one execution of a run: a first turn or a continuation
  Run,
  RunOf,     \* the run of each turn
  MaxTurns   \* AGENT_RUN_MAX_CONCURRENT_TURNS

NoTurn == "nobody"

ASSUME RegistryAssumption ==
  /\ RunOf \in [Turn -> Run] /\ MaxTurns \in Nat \ {0}
  /\ IsFiniteSet(Turn) /\ NoTurn \notin Turn

VARIABLES
  turn,      \* the task of each turn, with its control, its sink and its slot
  row,       \* the agent_runs rows: status and the turn that claimed it
  tasks,     \* RunTaskRegistry._tasks: the turn registered for each run
  slots,     \* free turn slots
  waiters,   \* the turns waiting for a slot, in order
  ordered,   \* runs whose cancellation is committed, not yet delivered here
  drain      \* the drain at shutdown, and the turns it waits for

vars == <<turn, row, tasks, slots, waiters, ordered, drain>>

Cause == {"cancel", "deadline", "lease", "shutdown"}

Unused ==
  [pc |-> "unused", must |-> "none", reason |-> "none", beat |-> "none",
   holds |-> FALSE, entered |-> FALSE, settled |-> 0, cleanup |-> "none",
   open |-> FALSE, cut |-> FALSE]

Init ==
  /\ turn = [t \in Turn |-> Unused]
  /\ row = [r \in Run |-> [status |-> "new", owner |-> NoTurn]]
  /\ tasks = [r \in Run |-> NoTurn]
  /\ slots = MaxTurns /\ waiters = <<>>
  /\ ordered = {}
  /\ drain = [pc |-> "off", of |-> {}]

At(t, pc) == turn[t].pc = pc
Set(t, new) == turn' = [turn EXCEPT ![t] = new]
Started(t) == turn[t].pc \notin {"unused", "refused", "created"}
Live(t) == turn[t].pc \in {"created", "waiting", "joining", "working", "settling", "closing"}
Running(t) == Live(t) \/ turn[t].cleanup = "pending"
Serving == drain.pc = "off"

\* The queue without a turn that gives up; a turn is in it once.
Without(t) ==
  IF \E i \in 1..Len(waiters) : waiters[i] = t
  THEN LET i == CHOOSE n \in 1..Len(waiters) : waiters[n] = t
       IN  SubSeq(waiters, 1, i - 1) \o SubSeq(waiters, i + 1, Len(waiters))
  ELSE waiters

-----------------------------------------------------------------------------
(* Requests. A definition named Bug... is the next one with a plausible    *)
(* mistake; no specification uses it.                                      *)

\* A request claims the run in a transaction and hands the turn over. While
\* the earlier task of the run is not done, spawn refuses and closes the worker.
Spawn(t) ==
  LET r == RunOf[t]
      taken == tasks[r] # NoTurn /\ Live(tasks[r])
  IN  /\ At(t, "unused") /\ Serving
      /\ row[r].status \in {"new", "awaiting"}
      /\ row' = [row EXCEPT ![r] = [status |-> "running", owner |-> t]]
      /\ Set(t, [Unused EXCEPT !.pc = IF taken THEN "refused" ELSE "created",
                               !.open = ~taken])
      /\ tasks' = IF taken THEN tasks ELSE [tasks EXCEPT ![r] = t]
      /\ UNCHANGED <<slots, waiters, ordered, drain>>

\* request_cancel commits before it turns to the registry; another process
\* may also have accepted the request, and then nothing is delivered here.
OrderCancel(r, here) ==
  /\ Serving /\ row[r].status \in {"running", "awaiting"}
  /\ row' = [row EXCEPT ![r].status = "cancelled"]
  /\ ordered' = IF here THEN ordered \union {r} ELSE ordered
  /\ UNCHANGED <<turn, tasks, slots, waiters, drain>>

\* task.cancel: a second request while the first is being settled is absorbed
\* by the bounded finalisation.
Cancelled(task, cause) ==
  IF task.pc = "settling" \/ task.must # "none" THEN task ELSE [task EXCEPT !.must = cause]

\* _schedule_prestart_cleanup
Cleaned(task) ==
  IF task.cleanup = "none"
  THEN [task EXCEPT !.cleanup = "pending", !.reason = "cancel"] ELSE task

\* RunTaskRegistry.cancel
DeliverCancel(r) ==
  LET t == tasks[r]
  IN  /\ r \in ordered /\ ordered' = ordered \ {r}
      /\ IF t # NoTurn /\ Live(t)
         THEN LET task == IF Started(t) THEN turn[t] ELSE Cleaned(turn[t])
              IN  Set(t, Cancelled(task, "cancel"))
         ELSE UNCHANGED turn
      /\ UNCHANGED <<row, tasks, slots, waiters, drain>>

\* Elsewhere: the lease lapsed and the reaper settled the run.
Reap(r) ==
  /\ row[r].status = "running"
  /\ row' = [row EXCEPT ![r].status = "failed"]
  /\ UNCHANGED <<turn, tasks, slots, waiters, ordered, drain>>

-----------------------------------------------------------------------------
(* The task of a turn: queue for a slot, run the worker, clean up.         *)

MustQueue == slots = 0 \/ waiters # <<>>

\* The first stretch of a task runs after the callbacks of tasks done before.
Start(t) ==
  /\ At(t, "created") /\ turn[t].must = "none"
  /\ \A u \in Turn : ~At(u, "done")
  /\ IF MustQueue
     THEN /\ Set(t, [turn[t] EXCEPT !.pc = "waiting", !.beat = "running"])
          /\ waiters' = Append(waiters, t) /\ UNCHANGED slots
     ELSE /\ Set(t, [turn[t] EXCEPT !.pc = "working", !.holds = TRUE, !.entered = TRUE])
          /\ slots' = slots - 1 /\ UNCHANGED waiters
  /\ UNCHANGED <<row, tasks, ordered, drain>>

\* Cancelled before its first stretch: the body never runs.
NeverStarts(t) ==
  /\ At(t, "created") /\ turn[t].must # "none"
  /\ Set(t, [turn[t] EXCEPT !.pc = "done"])
  /\ UNCHANGED <<row, tasks, slots, waiters, ordered, drain>>

\* The slot is acquired; the queue heartbeat is told to stop.
Admit(t) ==
  /\ At(t, "waiting") /\ turn[t].must = "none"
  /\ slots > 0 /\ waiters # <<>> /\ Head(waiters) = t
  /\ slots' = slots - 1 /\ waiters' = Tail(waiters)
  /\ Set(t, [turn[t] EXCEPT !.pc = "joining", !.holds = TRUE,
                            !.beat = IF @ = "running" THEN "stopping" ELSE @])
  /\ UNCHANGED <<row, tasks, ordered, drain>>

BugSkipsJoin(task) == task.must = "none"
MayEnter(task) == task.beat = "over" /\ task.must = "none"

Enter(t) ==
  /\ At(t, "joining") /\ MayEnter(turn[t])
  /\ Set(t, [turn[t] EXCEPT !.pc = "working", !.entered = TRUE])
  /\ UNCHANGED <<row, tasks, slots, waiters, ordered, drain>>

\* The queue heartbeat loses the lease or finds the run settled by others.
Revoked(task, cause) ==
  LET why == IF task.reason = "none" THEN cause ELSE task.reason
  IN  Cancelled([task EXCEPT !.beat = "over", !.reason = why], why)

Revoke(t) ==
  /\ turn[t].beat = "running"
  /\ \E cause \in {"lease"} \union
                  (IF row[RunOf[t]].status = "cancelled" THEN {"cancel"} ELSE {}) :
       Set(t, Revoked(turn[t], cause))
  /\ UNCHANGED <<row, tasks, slots, waiters, ordered, drain>>

BeatEnds(t) ==
  /\ turn[t].beat = "stopping"
  /\ Set(t, [turn[t] EXCEPT !.beat = "over"])
  /\ UNCHANGED <<row, tasks, slots, waiters, ordered, drain>>

\* The exceptions of a turn that is still queued: _settle_queued_run.
Interrupted(task, cause) ==
  [task EXCEPT !.pc = "settling", !.must = "none",
               !.reason = IF @ = "none" THEN cause ELSE @]

TakeCancel(t) ==
  /\ turn[t].pc \in {"waiting", "joining"} /\ turn[t].must # "none"
  /\ Set(t, Interrupted(turn[t], turn[t].must))
  /\ waiters' = Without(t)
  /\ UNCHANGED <<row, tasks, slots, ordered, drain>>

BugNoDeadline(t) == FALSE
Overdue(t) == At(t, "waiting") /\ turn[t].must = "none"

Expire(t) ==
  /\ Overdue(t)
  /\ Set(t, Interrupted(turn[t], "deadline"))
  /\ waiters' = Without(t)
  /\ UNCHANGED <<row, tasks, slots, ordered, drain>>

\* finalize_cancelled_run and finalize_stopped_run settle a row that is still
\* owned; both are bounded and may give up.
Settles(t, cause) ==
  \/ UNCHANGED row
  \/ /\ row[RunOf[t]] = [status |-> "running", owner |-> t]
     /\ row' = [row EXCEPT ![RunOf[t]].status =
                  IF cause = "cancel" THEN "cancelled" ELSE "failed"]

Settle(t) ==
  /\ At(t, "settling")
  /\ Settles(t, turn[t].reason)
  /\ Set(t, [turn[t] EXCEPT !.pc = "closing", !.settled = @ + 1,
                            !.beat = IF @ = "running" THEN "stopping" ELSE @])
  /\ UNCHANGED <<tasks, slots, waiters, ordered, drain>>

\* The finally block: the slot is returned, the worker and the sink closed.
Releases(task) == task.holds

Closed(t, task) ==
  /\ slots' = IF Releases(task) THEN slots + 1 ELSE slots
  /\ Set(t, [task EXCEPT !.pc = "done", !.holds = FALSE, !.open = FALSE, !.must = "none"])

\* The worker ends, of itself or because it took a cancellation, and records
\* what it can. A turn that has been queued joins its old heartbeat once more.
WorkerEnds(t) ==
  LET r == RunOf[t]
      mine == row[r] = [status |-> "running", owner |-> t]
  IN  /\ At(t, "working")
      /\ \/ UNCHANGED row
         \/ /\ mine
            /\ \E s \in {"completed", "awaiting", "failed", "cancelled"} :
                 row' = [row EXCEPT ![r].status = s]
      /\ IF turn[t].beat = "none" THEN Closed(t, turn[t])
         ELSE /\ Set(t, [turn[t] EXCEPT !.pc = "closing", !.must = "none"])
              /\ UNCHANGED slots
      /\ UNCHANGED <<tasks, waiters, ordered, drain>>

\* A worker may suspend its run before it ends: session, sink and linked
\* schedule are closed after the commit.
Suspend(t) ==
  /\ At(t, "working") /\ row[RunOf[t]] = [status |-> "running", owner |-> t]
  /\ row' = [row EXCEPT ![RunOf[t]].status = "awaiting"]
  /\ UNCHANGED <<turn, tasks, slots, waiters, ordered, drain>>

CloseTurn(t) ==
  /\ At(t, "closing") /\ turn[t].beat = "over" /\ turn[t].must = "none"
  /\ Closed(t, turn[t])
  /\ UNCHANGED <<row, tasks, waiters, ordered, drain>>

\* A cancellation that arrives while the finally block joins the heartbeat
\* ends the block: what follows in it is skipped.
CutShort(t) ==
  /\ At(t, "closing") /\ turn[t].must # "none"
  /\ Set(t, [turn[t] EXCEPT !.pc = "done", !.must = "none", !.cut = TRUE])
  /\ UNCHANGED <<row, tasks, slots, waiters, ordered, drain>>

\* The done callback: _finish and _discard.
BugDiscardsAny(t) == TRUE
Registered(t) == tasks[RunOf[t]] = t

Finish(t) ==
  /\ At(t, "done")
  /\ LET task == IF turn[t].entered \/ turn[t].settled > 0 \/ turn[t].beat # "none"
                 THEN turn[t] ELSE Cleaned(turn[t])
     IN  Set(t, [task EXCEPT !.pc = "forgotten"])
  /\ tasks' = IF Registered(t) THEN [tasks EXCEPT ![RunOf[t]] = NoTurn] ELSE tasks
  /\ UNCHANGED <<row, slots, waiters, ordered, drain>>

\* _cleanup_before_start
CleanUp(t) ==
  /\ turn[t].cleanup = "pending"
  /\ Settles(t, turn[t].reason)
  /\ Set(t, [turn[t] EXCEPT !.cleanup = "done", !.settled = @ + 1, !.open = FALSE])
  /\ UNCHANGED <<tasks, slots, waiters, ordered, drain>>

-----------------------------------------------------------------------------
(* Shutdown: drain waits, cancels what is left and waits again.            *)

BugForgetsCleanup == {t \in Turn : Live(t) /\ Registered(t)}
InFlight == {t \in Turn : (Live(t) /\ Registered(t)) \/ turn[t].cleanup = "pending"}

DrainStarts ==
  /\ Serving /\ ordered = {}
  /\ drain' = [pc |-> "waiting", of |-> InFlight]
  /\ UNCHANGED <<turn, row, tasks, slots, waiters, ordered>>

\* Both waits are long against one stretch: no task is still unstarted.
DrainCancels ==
  /\ drain.pc = "waiting" /\ \A t \in Turn : ~At(t, "created")
  /\ \E t \in drain.of : Running(t)
  /\ turn' = [t \in Turn |-> IF t \in drain.of /\ Live(t)
                             THEN Cancelled(turn[t], "shutdown") ELSE turn[t]]
  /\ drain' = [drain EXCEPT !.pc = "stopping"]
  /\ UNCHANGED <<row, tasks, slots, waiters, ordered>>

DrainEnds ==
  /\ drain.pc \in {"waiting", "stopping"} /\ \A t \in drain.of : ~Running(t)
  /\ drain' = [drain EXCEPT !.pc = "drained"]
  /\ UNCHANGED <<turn, row, tasks, slots, waiters, ordered>>

DrainGivesUp ==
  /\ drain.pc = "stopping" /\ \E t \in drain.of : Running(t)
  /\ drain' = [drain EXCEPT !.pc = "left"]
  /\ UNCHANGED <<turn, row, tasks, slots, waiters, ordered>>

-----------------------------------------------------------------------------
Step(t) ==
  \/ Start(t) \/ NeverStarts(t) \/ Enter(t) \/ TakeCancel(t)
  \/ Settle(t) \/ CloseTurn(t) \/ CutShort(t) \/ Finish(t) \/ CleanUp(t) \/ BeatEnds(t)

Next ==
  \/ \E t \in Turn : Step(t) \/ Spawn(t) \/ Admit(t) \/ Revoke(t) \/ Expire(t)
                     \/ Suspend(t) \/ WorkerEnds(t)
  \/ \E r \in Run : DeliverCancel(r) \/ Reap(r) \/ \E here \in BOOLEAN : OrderCancel(r, here)
  \/ DrainStarts \/ DrainCancels \/ DrainEnds \/ DrainGivesUp

Spec == Init /\ [][Next]_vars

\* The loop runs ready tasks, a free slot wakes its first waiter and timers
\* fire. Workers may hang, and nobody has to ask for anything.
FairSpec ==
  /\ Spec
  /\ \A t \in Turn : WF_vars(Step(t)) /\ WF_vars(Admit(t)) /\ WF_vars(Expire(t))

-----------------------------------------------------------------------------
(* Properties.                                                             *)

TypeOK ==
  /\ turn \in [Turn ->
       [pc : {"unused", "refused", "created", "waiting", "joining", "working", "settling",
              "closing", "done", "forgotten"},
        must : Cause \union {"none"}, reason : Cause \union {"none"},
        beat : {"none", "running", "stopping", "over"}, holds : BOOLEAN,
        entered : BOOLEAN, settled : Nat, cleanup : {"none", "pending", "done"},
        open : BOOLEAN, cut : BOOLEAN]]
  /\ row \in [Run ->
       [status : {"new", "running", "awaiting", "completed", "failed", "cancelled"},
        owner : Turn \union {NoTurn}]]
  /\ tasks \in [Run -> Turn \union {NoTurn}]
  /\ slots \in 0..MaxTurns
  /\ waiters \in Seq(Turn)
  /\ ordered \subseteq Run
  /\ drain \in [pc : {"off", "waiting", "stopping", "drained", "left"}, of : SUBSET Turn]

\* At most MaxTurns turns are in their workers: whatever is cancelled while it
\* queues, a slot is given back by those who hold one and by nobody else.
WorkBounded == Cardinality({t \in Turn : At(t, "working")}) <= MaxTurns

\* A task that has not ended is the one registered for its run, so that a
\* cancellation reaches it and no second task executes the run beside it.
LiveIsRegistered == \A t \in Turn : Live(t) => tasks[RunOf[t]] = t

\* The registry knows every task and lets at most MaxTurns of them work.
RegistryKept == TypeOK /\ WorkBounded /\ LiveIsRegistered

\* A turn that ended without its worker was settled, once, by its task or by
\* the cleanup that replaces a task that never ran; a turn that reached its
\* worker is left to the worker. Either way its stream is closed.
SettledOnce ==
  \A t \in Turn :
    LET over == At(t, "forgotten") /\ turn[t].cleanup # "pending"
    IN  /\ turn[t].entered => turn[t].settled = 0
        /\ turn[t].settled <= 1
        /\ over /\ ~turn[t].entered => turn[t].settled = 1
        /\ over /\ ~turn[t].cut => ~turn[t].open /\ ~turn[t].holds

\* The lease has one heartbeat at a time: that of the queue has ended before
\* the worker, which brings its own, is entered.
BeatHandedOff == \A t \in Turn : At(t, "working") => turn[t].beat \in {"none", "over"}

\* A worker is entered only by a turn nobody has told to stop while it was
\* queued, and is then alone with its lease (_await_turn_slot, admitted_setup).
EnteredAlone ==
  [][/\ \A t \in Turn : turn'[t].entered /\ ~turn[t].entered
                        => turn[t].reason = "none" /\ turn[t].must = "none"
     /\ BeatHandedOff']_vars

\* A drain that does not give up leaves no task and no cleanup behind, also
\* for turns cancelled before they started.
DrainLeavesNothing == drain.pc = "drained" => \A t \in Turn : ~Running(t)

\* No turn is forgotten: neither one that never ran nor one still being
\* cleaned up when the process stops.
NoTurnForgotten == SettledOnce /\ DrainLeavesNothing

\* Every accepted turn reaches its worker or ends, also when workers ahead of
\* it hang or slots have been lost: the wait for a slot has a deadline.
TurnServed == \A t \in Turn : At(t, "created") ~> (At(t, "working") \/ At(t, "forgotten"))

\* Turns queue above the limit only: while one waits without a free slot, the
\* slots are those of turns that are still there. CutShort breaks it.
QueuedAboveLimit ==
  \A t \in Turn : At(t, "waiting") /\ slots = 0
                 => Cardinality({u \in Turn : Live(u) /\ turn[u].holds}) = MaxTurns

=============================================================================
