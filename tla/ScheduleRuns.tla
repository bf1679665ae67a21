---------------------------- MODULE ScheduleRuns ----------------------------
(***************************************************************************)
(* Schedules, the occurrences they fire and the tasks that execute them:   *)
(* services/agent_schedules and workers/agent_runner.py.                   *)
(*                                                                         *)
(* An action is one transaction. Fire times of a schedule are numbered in  *)
(* the order they are assigned; number 0 is no fire time, and the one      *)
(* after the last number is beyond the horizon and never comes. Deadlines  *)
(* are two-valued: a fire time is due or not, a claim is live or expired.  *)
(* A task is a slot of a runner or a resumed turn of the API. Of the agent *)
(* run of an occurrence only its status is kept (see RunFamily).           *)
(***************************************************************************)
EXTENDS Naturals, FiniteSets

CONSTANTS
  Schedule,
  Once,         \* those of type once; the others repeat
  MaxFires,     \* bound: fire times that come, per schedule
  Task,
  MaxAttempts   \* AGENT_SCHEDULE_RUN_MAX_ATTEMPTS

ASSUME ScheduleAssumption == Once \subseteq Schedule /\ IsFiniteSet(Schedule)
ASSUME BoundAssumption == MaxFires \in Nat \ {0} /\ MaxAttempts \in Nat \ {0}

VARIABLES
  sched,  \* the agent_schedules rows
  run,    \* the agent_schedule_runs rows, by schedule and fire time
  agent,  \* status of the linked agent run
  task,   \* what each task is doing, and for which occurrence
  overrun \* occurrences claimed for less time than their setup took (history)

vars == <<sched, run, agent, task, overrun>>

Fire == 1..MaxFires
Horizon == MaxFires + 1
Occurrence == Schedule \X Fire

NoRun == [status |-> "absent", attempts |-> 0, claim |-> "none"]
Idle == [pc |-> "idle", of |-> <<>>]

Init ==
  /\ sched = [s \in Schedule |->
       [active |-> TRUE, next |-> 1, last |-> 1, due |-> FALSE, deleted |-> FALSE]]
  /\ run = [o \in Occurrence |-> NoRun]
  /\ agent = [o \in Occurrence |-> "none"]
  /\ task = [t \in Task |-> Idle]
  /\ overrun = {}

Move(t, pc, o) == task' = [task EXCEPT ![t] = [pc |-> pc, of |-> o]]
Leave(t) == task' = [task EXCEPT ![t] = Idle]
At(t, pc) == task[t].pc = pc
Status(o) == run[o].status
Deleted(o) == sched[o[1]].deleted

-----------------------------------------------------------------------------
(* What users do. A definition named Bug... is the next one with a         *)
(* plausible mistake; no specification uses it.                            *)

Assigned(row, due) ==
  LET f == IF row.last = Horizon THEN Horizon ELSE row.last + 1
  IN  [row EXCEPT !.active = TRUE, !.next = f, !.last = f, !.due = due]
Stopped(row) == [row EXCEPT !.active = FALSE, !.next = 0, !.due = FALSE]

UserSets(s, row) ==
  /\ ~sched[s].deleted
  /\ sched' = [sched EXCEPT ![s] = row]
  /\ UNCHANGED <<run, agent, task, overrun>>

Pause(s) == sched[s].active /\ UserSets(s, Stopped(sched[s]))
Enable(s) == ~sched[s].active /\ UserSets(s, Assigned(sched[s], FALSE))
Reschedule(s) == sched[s].active /\ UserSets(s, Assigned(sched[s], FALSE))
RunNow(s) ==
  /\ sched[s].active /\ sched[s].last < MaxFires
  /\ UserSets(s, Assigned(sched[s], TRUE))
Delete(s) == UserSets(s, [sched[s] EXCEPT !.deleted = TRUE])

-----------------------------------------------------------------------------
(* Outcomes of occurrences.                                                *)

Ended(row, status) == [row EXCEPT !.status = status, !.claim = "none"]

\* mark_run_terminal_failure_and_disable_schedule
FailAndStop(o) ==
  /\ run' = [run EXCEPT ![o] = Ended(@, "failed")]
  /\ sched' = [sched EXCEPT ![o[1]] = Stopped(@)]

\* What the agent run of an occurrence says of it.
HasVerdict(o) == agent[o] \in {"awaiting", "completed", "failed"}
IsOver(o) == Status(o) \in {"completed", "failed"}

\* mark_run_completed: the next fire time is counted from now, so that a late
\* occurrence is not followed by those it delayed.
BugKeepsFire(s, row) == IF s \in Once THEN Stopped(row) ELSE row
Advanced(s, row) ==
  IF s \in Once THEN Stopped(row)
  ELSE [Assigned(row, FALSE) EXCEPT !.active = row.active]

\* Mirrors the verdicts of the agent runs of S, in the order of fire times.
Mirror(S) ==
  LET over(s) == {o \in S : o[1] = s /\ agent[o] # "awaiting"}
      failed(s) == {o \in over(s) : agent[o] = "failed"}
      endsFailed(s) == \E o \in failed(s) : \A p \in over(s) : p[2] <= o[2]
      settled(s) ==
        CASE over(s) = {} -> sched[s]
          [] over(s) # {} /\ endsFailed(s) -> Stopped(sched[s])
          [] over(s) # {} /\ failed(s) = {} -> Advanced(s, sched[s])
          [] OTHER -> Advanced(s, Stopped(sched[s]))
  IN  /\ run' = [o \in Occurrence |->
                   IF o \in S THEN Ended(run[o], agent[o]) ELSE run[o]]
      /\ sched' = [s \in Schedule |-> settled(s)]

-----------------------------------------------------------------------------
(* A polling pass: it reconciles, claims one due schedule and executes it. *)

Unmirrored ==
  {o \in Occurrence :
     \/ Status(o) = "running" /\ HasVerdict(o)
     \/ Status(o) = "awaiting" /\ agent[o] \in {"completed", "failed"}}

\* Finalising an occurrence of a deleted schedule raises, which ends the pass
\* and rolls back what it has reconciled.
Reconciles == \A o \in Unmirrored : ~Deleted(o)

StartPass(t) ==
  /\ At(t, "idle") /\ Reconciles
  /\ Mirror(Unmirrored)
  /\ Move(t, "admitted", <<>>)
  /\ UNCHANGED <<agent, overrun>>

BugReclaimsLive(o) == Status(o) \in {"absent", "retryable", "claimed"}
BugForgetsExpired(o) == Status(o) \in {"absent", "retryable"}
MayClaim(o) ==
  \/ Status(o) \in {"absent", "retryable"}
  \/ Status(o) = "claimed" /\ run[o].claim = "expired"

Due(s) ==
  /\ sched[s].active /\ ~sched[s].deleted
  /\ sched[s].due /\ sched[s].next \in Fire
  /\ MayClaim(<<s, sched[s].next>>)

\* No claim looks at the number of attempts: claims whose setup dies with its
\* process go on beyond the maximum, where the count stops here.
Claim(t, s) ==
  LET o == <<s, sched[s].next>>
      attempts == IF run[o].attempts = MaxAttempts
                    THEN run[o].attempts ELSE run[o].attempts + 1
  IN  /\ At(t, "admitted") /\ Due(s)
      /\ run' = [run EXCEPT ![o] =
                   [status |-> "claimed", attempts |-> attempts, claim |-> "live"]]
      /\ Move(t, "claimed", o)
      /\ UNCHANGED <<sched, agent, overrun>>

\* The agent of the schedule was deleted or disabled.
ClaimUnavailable(t, s) ==
  /\ At(t, "admitted") /\ Due(s)
  /\ FailAndStop(<<s, sched[s].next>>)
  /\ Leave(t)
  /\ UNCHANGED <<agent, overrun>>

NothingDue(t) ==
  /\ At(t, "admitted") /\ \A s \in Schedule : ~Due(s)
  /\ Leave(t)
  /\ UNCHANGED <<sched, run, agent, overrun>>

\* claim_agent_run_execution takes a run nobody has claimed, or a parked one.
Unclaimed(o) == agent[o] \in {"none", "awaiting"}

Prepares(o) == Status(o) = "claimed" /\ ~Deleted(o)

\* A parked run is taken as well, but its execution expects a pending one and
\* fails.
Prepare(t) ==
  LET o == task[t].of
      parked == agent[o] = "awaiting"
  IN  /\ At(t, "claimed") /\ Prepares(o) /\ Unclaimed(o)
      /\ run' = [run EXCEPT ![o] = Ended(@, "running")]
      /\ agent' = [agent EXCEPT ![o] = "active"]
      /\ Move(t, IF parked THEN "refused" ELSE "executing", o)
      /\ UNCHANGED <<sched, overrun>>

\* The owner has left the workspace, or the prompt is blank.
PrepareUnavailable(t) ==
  /\ At(t, "claimed") /\ Prepares(task[t].of)
  /\ FailAndStop(task[t].of)
  /\ Leave(t)
  /\ UNCHANGED <<agent, overrun>>

\* The occurrence is not in the claimed status any more, its agent run is
\* taken, or the transaction fails.
PrepareFails(t) ==
  /\ At(t, "claimed")
  /\ Move(t, "failing", task[t].of)
  /\ UNCHANGED <<sched, run, agent, overrun>>

\* _record_claim_setup_failure: whatever has become of the occurrence since.
Exhausted(o) == run[o].attempts >= MaxAttempts

RecordSetupFailure(t) ==
  LET o == task[t].of
  IN  /\ At(t, "failing") /\ ~Deleted(o)
      /\ IF Exhausted(o)
           THEN FailAndStop(o)
           ELSE run' = [run EXCEPT ![o] = Ended(@, "retryable")] /\ UNCHANGED sched
      /\ Leave(t)
      /\ UNCHANGED <<agent, overrun>>

SetupFailureLost(t) ==
  /\ At(t, "failing")
  /\ Leave(t)
  /\ UNCHANGED <<sched, run, agent, overrun>>

\* The turn ends with a verdict, unless that was given meanwhile or cannot be
\* recorded.
EndTurn(t) ==
  LET o == task[t].of
      verdicts == {"active", "failed"} \cup
                  (IF At(t, "executing") THEN {"awaiting", "completed"} ELSE {})
  IN  /\ At(t, "executing") \/ At(t, "refused")
      /\ IF agent[o] = "active"
           THEN \E v \in verdicts : agent' = [agent EXCEPT ![o] = v]
           ELSE UNCHANGED agent
      /\ Move(t, "finalising", o)
      /\ UNCHANGED <<sched, run, overrun>>

\* finalize_schedule_run_execution, unless it raises or times out.
Finalise(t) ==
  LET o == task[t].of
  IN  /\ At(t, "finalising") /\ ~Deleted(o)
      /\ Mirror(IF HasVerdict(o) /\ ~IsOver(o) THEN {o} ELSE {})
      /\ Leave(t)
      /\ UNCHANGED <<agent, overrun>>

FinaliseLost(t) ==
  /\ At(t, "finalising")
  /\ Leave(t)
  /\ UNCHANGED <<sched, run, agent, overrun>>

\* A decision on the approvals resumes the agent run in a task of the API.
Resume(t, o) ==
  /\ At(t, "idle") /\ agent[o] = "awaiting"
  /\ agent' = [agent EXCEPT ![o] = "active"]
  /\ Move(t, "executing", o)
  /\ UNCHANGED <<sched, run, overrun>>

-----------------------------------------------------------------------------
(* The environment.                                                        *)

Crash(t) == ~At(t, "idle") /\ Leave(t) /\ UNCHANGED <<sched, run, agent, overrun>>

FireTimeComes(s) ==
  /\ sched[s].next \in Fire /\ ~sched[s].due
  /\ sched' = [sched EXCEPT ![s].due = TRUE]
  /\ UNCHANGED <<run, agent, task, overrun>>

\* A claim outlives the setup it protects: it expires when its task is gone.
Forsaken(o) == \A t \in Task : ~(task[t].of = o /\ task[t].pc \in {"claimed", "failing"})

ClaimExpires(o) ==
  /\ run[o].claim = "live"
  /\ run' = [run EXCEPT ![o].claim = "expired"]
  /\ overrun' = IF Forsaken(o) THEN overrun ELSE overrun \union {o}
  /\ UNCHANGED <<sched, agent, task>>

\* The agent run is cancelled, reaped, or its approvals expire.
AgentRunStops(o) ==
  /\ agent[o] \in {"active", "awaiting"}
  /\ agent' = [agent EXCEPT ![o] = "failed"]
  /\ UNCHANGED <<sched, run, task, overrun>>

-----------------------------------------------------------------------------
UserStep(s) == Pause(s) \/ Enable(s) \/ Reschedule(s) \/ RunNow(s)

TaskStep(t) ==
  \/ StartPass(t) \/ NothingDue(t)
  \/ \E s \in Schedule : Claim(t, s) \/ ClaimUnavailable(t, s)
  \/ Prepare(t) \/ PrepareUnavailable(t) \/ PrepareFails(t)
  \/ RecordSetupFailure(t) \/ SetupFailureLost(t)
  \/ EndTurn(t) \/ Finalise(t) \/ FinaliseLost(t)
  \/ \E o \in Occurrence : Resume(t, o)
  \/ Crash(t)

Next ==
  \/ \E s \in Schedule : UserStep(s) \/ Delete(s) \/ FireTimeComes(s)
  \/ \E t \in Task : TaskStep(t)
  \/ \E o \in Occurrence : AgentRunStops(o) \/ ClaimExpires(o)

Spec == Init /\ [][Next]_vars

\* Runners keep polling, a task at work goes on or crashes, and crashes may go
\* on for ever: but not so that no claim, no setup or no verdict of a schedule
\* is ever recorded. Claims are by fire time, so that no schedule is passed
\* over for ever. Time passes, deadlines of agent runs and claims included.
Attended(o) == \E t \in Task : task[t].of = o /\ task[t].pc \in {"executing", "refused"}
MovesOn(t) ==
  \/ StartPass(t) \/ NothingDue(t) \/ PrepareFails(t) \/ SetupFailureLost(t)
  \/ EndTurn(t) \/ Finalise(t) \/ FinaliseLost(t)
Verdict(t) == EndTurn(t) /\ agent'[task[t].of] \in {"completed", "failed"}
WorksFor(t, s) == task[t].of # <<>> /\ task[t].of[1] = s

Fairness ==
  /\ \A t \in Task : WF_vars(MovesOn(t))
  /\ \A s \in Schedule :
       /\ SF_vars(\E t \in Task : Claim(t, s) \/ ClaimUnavailable(t, s))
       /\ SF_vars(\E t \in Task : WorksFor(t, s) /\ (Prepare(t) \/ PrepareUnavailable(t)))
       /\ SF_vars(\E t \in Task : WorksFor(t, s) /\ Verdict(t))
       /\ WF_vars(FireTimeComes(s))
  /\ \A o \in Occurrence :
       /\ WF_vars(ClaimExpires(o))
       /\ WF_vars(~Attended(o) /\ AgentRunStops(o))

FairSpec == Spec /\ Fairness

-----------------------------------------------------------------------------
(* Properties.                                                             *)

\* The rows and tasks are of their types.
TypeOK ==
  /\ sched \in [Schedule -> [active: BOOLEAN, next: 0..Horizon, last: 1..Horizon,
                              due: BOOLEAN, deleted: BOOLEAN]]
  /\ run \in [Occurrence -> [status: {"absent", "claimed", "running", "awaiting",
                                      "retryable", "completed", "failed"},
                             attempts: 0..MaxAttempts,
                             claim: {"none", "live", "expired"}]]
  /\ agent \in [Occurrence -> {"none", "active", "awaiting", "completed", "failed"}]
  /\ overrun \subseteq Occurrence
  /\ task \in [Task -> [pc: {"idle"} \cup {"admitted"}, of: {<<>>}]
                      \cup [pc: {"claimed", "failing", "executing", "refused", "finalising"},
                            of: Occurrence]]

\* However often an occurrence is claimed again while a stale claimant still
\* works on it, one task at most executes its turn.
OneTurn ==
  \A t, u \in Task :
    task[t].pc = "executing" /\ task[u] = task[t] /\ agent[task[t].of] = "active"
      => t = u

\* An active schedule never waits for a fire time whose occurrence is over:
\* nothing would claim it, and nothing would move it on.
NoSpentFire ==
  \A s \in Schedule :
    sched[s].active /\ sched[s].next \in Fire => ~IsOver(<<s, sched[s].next>>)

\* An occurrence says of its agent run what that run says of itself, unless
\* its claim expired under its task: no schedule is stopped for a run that
\* succeeded.
VerdictMirrored ==
  \A o \in Occurrence \ overrun :
    /\ Status(o) = "completed" => agent[o] = "completed"
    /\ Status(o) = "failed" => agent[o] \in {"none", "failed"}

\* What makes these inductive. Fire times are used in order; a setup that its
\* claim still protects is alone with a claimed row; an occurrence that nobody
\* has set up has no agent run; no task is left executing a turn that is parked.
InOrder ==
  /\ \A s \in Schedule : sched[s].next \in {0, sched[s].last}
  /\ \A o \in Occurrence :
       o[2] > sched[o[1]].last => Status(o) = "absent" /\ agent[o] = "none"
  /\ \A t \in Task, o \in Occurrence : task[t].of = o => o[2] <= sched[o[1]].last
SetsUp(t, o) == task[t].of = o /\ task[t].pc \in {"claimed", "failing"}
SetupAlone ==
  \A t \in Task, o \in Occurrence \ overrun :
    SetsUp(t, o) =>
      /\ Status(o) = "claimed" /\ run[o].claim = "live"
      /\ \A u \in Task : SetsUp(u, o) => u = t
Unstarted ==
  \A o \in Occurrence \ overrun :
    Status(o) \in {"absent", "claimed", "retryable"} => agent[o] = "none"
NoneParked ==
  \A t \in Task : task[t].pc = "executing" => agent[task[t].of] \notin {"none", "awaiting"}

\* The inductive invariant of the proofs.
IndInv ==
  /\ TypeOK /\ InOrder /\ NoSpentFire /\ VerdictMirrored
  /\ SetupAlone /\ Unstarted /\ OneTurn /\ NoneParked

\* A finished occurrence stays as it is, with the same exception: a setup that
\* fails after its claim expired overwrites what the next claim has achieved.
OverIsFinal ==
  [][\A o \in Occurrence \ overrun : IsOver(o) => Status(o)' = Status(o)]_vars

\* No active schedule waits for a fire time for ever: whatever crashes, times
\* out or waits for an approval, the occurrence ends and the schedule moves on.
\* The exceptions: a claim that expires under its task, and deleted schedules,
\* which end the passes of all of them (DueIsClaimed).
EveryFireServed ==
  \A s \in Schedule :
    sched[s].active /\ sched[s].next \in Fire
      ~> \/ ~sched[s].active \/ sched[s].next \notin Fire
         \/ overrun # {} \/ \E z \in Schedule : sched[z].deleted

\* Runners go on claiming what is due.
DueIsClaimed == \A s \in Schedule : Due(s) ~> ~Due(s)

=============================================================================
