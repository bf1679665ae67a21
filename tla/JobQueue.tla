------------------------------ MODULE JobQueue ------------------------------
(***************************************************************************)
(* The table of background jobs and the worker processes that execute it:  *)
(* services/jobs and workers/job_runner.py.                                *)
(*                                                                         *)
(* A process has several lanes, each claiming and executing one job at a   *)
(* time; a row names its owner by process. An action is one transaction,   *)
(* except that a claim is two: the snapshot that selects and locks a row,  *)
(* and the commit. A handler's effects are what it does in the session     *)
(* whose commit also records its success; handlers that commit on the way  *)
(* have to be idempotent and are not distinguished.                        *)
(*                                                                         *)
(* Jobs have distinct priorities and are numbered by them, so that neither *)
(* run_after nor created_at decides which is claimed first. Deadlines are  *)
(* two-valued: a lease is live or expired, a pending job is due or not. A  *)
(* row that was purged stands for a new job.                               *)
(***************************************************************************)
EXTENDS Naturals, FiniteSets

CONSTANTS
  Job,          \* rows, as numbers from 1
  Recurring,    \* those used by one recurring system kind
  Unregistered, \* those of a kind that has no handler any more
  KeyOf,        \* kind, owner, subject and content hash of a row
  BucketOf,     \* the workspace or user the row is charged to
  NoBucket,     \* the bucket of system jobs
  Lane, Process, ProcessOf, NoProcess,
  Limit,        \* JOBS_WORKSPACE_CONCURRENCY_LIMIT
  MaxAttempts

ASSUME JobAssumption == Job \subseteq Nat \ {0} /\ Recurring \subseteq Job
ASSUME ProcessAssumption == ProcessOf \in [Lane -> Process] /\ NoProcess \notin Process
ASSUME AttemptsAssumption == MaxAttempts \in Nat \ {0}
ASSUME LimitAssumption == Limit \in Nat \ {0}
ASSUME FiniteAssumption == IsFiniteSet(Job) /\ IsFiniteSet(Lane)
ASSUME SystemAssumption == \A j \in Recurring : BucketOf[j] = NoBucket

VARIABLES
  job,     \* the jobs rows
  lane,    \* what each lane is doing
  effects  \* attempts of the job whose effects have been committed

vars == <<job, lane, effects>>

InFlight(j) == job[j].status \in {"pending", "running"}
IsTerminal(j) == job[j].status \in {"succeeded", "failed"}

Absent == [status |-> "absent", attempts |-> 0, by |-> NoProcess,
           lease |-> "none", due |-> FALSE]
Fresh(due) == [Absent EXCEPT !.status = "pending", !.due = due]
Idle == [pc |-> "idle", job |-> 0, attempt |-> 0]

Init ==
  /\ job = [j \in Job |-> Absent]
  /\ lane = [l \in Lane |-> Idle]
  /\ effects = [j \in Job |-> {}]

-----------------------------------------------------------------------------
(* Enqueueing. A definition named Bug... is the next one with a plausible  *)
(* mistake; no specification uses it.                                      *)

\* The partial unique index over in-flight rows makes a duplicate request
\* return the existing row.
Enqueue(j) ==
  /\ job[j].status = "absent" /\ j \notin Recurring
  /\ \A k \in Job : InFlight(k) => KeyOf[k] # KeyOf[j]
  /\ \E due \in BOOLEAN : job' = [job EXCEPT ![j] = Fresh(due)]
  /\ UNCHANGED <<lane, effects>>

-----------------------------------------------------------------------------
(* Claiming.                                                               *)

Claimable(j) == job[j].status = "pending" /\ job[j].due
SameBucket(j) == {k \in Job : BucketOf[k] = BucketOf[j]}
Running(S) == {k \in S : job[k].status = "running"}
Rank(j) == Cardinality({k \in SameBucket(j) : Claimable(k) /\ k <= j})

BugIgnoresRunning(j) ==
  Claimable(j) /\ (BucketOf[j] # NoBucket => Rank(j) <= Limit)
Eligible(j) ==
  /\ Claimable(j)
  /\ BucketOf[j] # NoBucket =>
       Rank(j) + Cardinality(Running(SameBucket(j))) <= Limit

\* SKIP LOCKED: a row selected by an open claim is passed over.
Locked(j) == \E l \in Lane : lane[l].pc = "claiming" /\ lane[l].job = j

SelectJob(l) ==
  /\ lane[l].pc = "idle"
  /\ \E j \in Job :
       /\ Eligible(j) /\ ~Locked(j)
       /\ \A k \in Job : k < j => ~Eligible(k) \/ Locked(k)
       /\ lane' = [lane EXCEPT ![l] = [Idle EXCEPT !.pc = "claiming", !.job = j]]
  /\ UNCHANGED <<job, effects>>

CommitClaim(l) ==
  LET j == lane[l].job
      attempt == job[j].attempts + 1
  IN  /\ lane[l].pc = "claiming"
      /\ job' = [job EXCEPT ![j] =
            [@ EXCEPT !.status = "running", !.by = ProcessOf[l],
                      !.lease = "live", !.attempts = attempt]]
      /\ lane' = [lane EXCEPT ![l] = [@ EXCEPT !.pc = "claimed", !.attempt = attempt]]
      /\ UNCHANGED effects

-----------------------------------------------------------------------------
(* Finalising an attempt.                                                  *)

\* The fence of every write a worker makes for its attempt.
BugUnfenced(l) == job[lane[l].job].status # "absent"
BugAnyOwner(l) == job[lane[l].job].status = "running"
Owned(l) ==
  /\ job[lane[l].job].status = "running"
  /\ job[lane[l].job].by = ProcessOf[l]

\* finalize_job_failure: another attempt after the backoff, or the end.
BugOneFewer(j) == job[j].attempts + 1 >= MaxAttempts
Exhausted(j) == job[j].attempts >= MaxAttempts

Ended(row, status) ==
  [row EXCEPT !.status = status, !.by = NoProcess, !.lease = "none", !.due = FALSE]
Failed(j) == Ended(job[j], IF Exhausted(j) THEN "failed" ELSE "pending")

LeaveLane(l) == lane' = [lane EXCEPT ![l] = Idle]

\* Before it runs the handler, a lane makes sure the claim still stands.
StartHandler(l) ==
  LET j == lane[l].job
      stands == Owned(l) /\ job[j].lease = "live"
  IN  /\ lane[l].pc = "claimed"
      /\ IF stands /\ j \notin Unregistered
           THEN lane' = [lane EXCEPT ![l].pc = "running"]
           ELSE LeaveLane(l)
      /\ IF stands /\ j \in Unregistered
           THEN job' = [job EXCEPT ![j] = Ended(@, "failed")]
           ELSE UNCHANGED job
      /\ UNCHANGED effects

\* The handler returns: its effects, its success and, for a recurring kind,
\* its successor are committed together, or rolled back together.
HandlerReturns(l) ==
  LET j == lane[l].job
      done == [job EXCEPT ![j] = Ended(@, "succeeded")]
  IN  /\ lane[l].pc = "running"
      /\ LeaveLane(l)
      /\ IF Owned(l)
           THEN /\ effects' = [effects EXCEPT ![j] = @ \cup {lane[l].attempt}]
                /\ IF j \in Recurring
                     THEN \E k \in Recurring :
                            /\ job[k].status = "absent"
                            /\ job' = [done EXCEPT ![k] = Fresh(FALSE)]
                     ELSE job' = done
           ELSE UNCHANGED <<job, effects>>

\* It raises or exceeds its timeout: its session is rolled back, and the
\* failure is recorded in another one, unless that fails as well.
HandlerFails(l) ==
  /\ lane[l].pc = "running"
  /\ lane' = [lane EXCEPT ![l].pc = "failing"]
  /\ UNCHANGED <<job, effects>>

RecordFailure(l) ==
  /\ lane[l].pc = "failing"
  /\ IF Owned(l)
       THEN job' = [job EXCEPT ![lane[l].job] = Failed(lane[l].job)]
       ELSE UNCHANGED job
  /\ LeaveLane(l)
  /\ UNCHANGED effects

RecordLost(l) ==
  /\ lane[l].pc = "failing"
  /\ LeaveLane(l)
  /\ UNCHANGED <<job, effects>>

\* heartbeat_job_lease: renews the lease, or cancels the handler.
Heartbeat(l) ==
  /\ lane[l].pc = "running"
  /\ IF Owned(l)
       THEN job' = [job EXCEPT ![lane[l].job].lease = "live"] /\ UNCHANGED lane
       ELSE LeaveLane(l) /\ UNCHANGED job
  /\ UNCHANGED effects

-----------------------------------------------------------------------------
(* Maintenance and the environment.                                        *)

\* A polling pass first reclaims what expired and makes sure the recurring
\* kind has a job in flight.
BugSparesLastAttempt(j) ==
  job[j].status = "running" /\ job[j].lease = "expired" /\ ~Exhausted(j)
Stale(j) == job[j].status = "running" /\ job[j].lease = "expired"

BugNeverEnsures == {}
Missing ==
  IF \E j \in Recurring : InFlight(j) THEN {}
  ELSE {j \in Recurring : job[j].status = "absent"}

Pass ==
  LET reclaimed == [j \in Job |-> IF Stale(j) THEN Failed(j) ELSE job[j]]
  IN  /\ IF Missing = {}
           THEN job' = reclaimed
           ELSE \E k \in Missing : job' = [reclaimed EXCEPT ![k] = Fresh(TRUE)]
      /\ UNCHANGED <<lane, effects>>

\* sweep_terminal_jobs: retention is longer than any attempt.
Purge(j) ==
  /\ IsTerminal(j) /\ \A l \in Lane : lane[l].job # j
  /\ job' = [job EXCEPT ![j] = Absent]
  /\ effects' = [effects EXCEPT ![j] = {}]
  /\ UNCHANGED lane

BecomesDue(j) ==
  /\ job[j].status = "pending" /\ ~job[j].due
  /\ job' = [job EXCEPT ![j].due = TRUE]
  /\ UNCHANGED <<lane, effects>>

LeaseExpires(j) ==
  /\ job[j].lease = "live"
  /\ job' = [job EXCEPT ![j].lease = "expired"]
  /\ UNCHANGED <<lane, effects>>

\* The lanes of a process die together; the next process may have its name
\* (host name and process id, which a restarted container keeps).
Crash(p) ==
  /\ \E l \in Lane : ProcessOf[l] = p /\ lane[l].pc # "idle"
  /\ lane' = [l \in Lane |-> IF ProcessOf[l] = p THEN Idle ELSE lane[l]]
  /\ UNCHANGED <<job, effects>>

-----------------------------------------------------------------------------
EndAttempt(l) == HandlerReturns(l) \/ HandlerFails(l)

LaneStep(l) ==
  \/ SelectJob(l) \/ CommitClaim(l) \/ StartHandler(l)
  \/ HandlerReturns(l) \/ HandlerFails(l) \/ Heartbeat(l)
  \/ RecordFailure(l) \/ RecordLost(l)

RowStep(j) == Enqueue(j) \/ Purge(j) \/ BecomesDue(j) \/ LeaseExpires(j)

Next ==
  \/ \E l \in Lane : LaneStep(l)
  \/ \E j \in Job : RowStep(j)
  \/ Pass
  \/ \E p \in Process : Crash(p)

Spec == Init /\ [][Next]_vars

\* Workers keep polling, handlers end (by their timeout at the latest), time
\* passes, and a lease nobody renews expires. Crashes may go on forever, but
\* not so that every claim of some job is hit before its commit.
Unattended(j) == \A l \in Lane : ~(lane[l].job = j /\ lane[l].pc = "running" /\ Owned(l))
Fairness ==
  /\ WF_vars(Pass)
  /\ \A l \in Lane :
       /\ WF_vars(SelectJob(l)) /\ WF_vars(StartHandler(l)) /\ WF_vars(EndAttempt(l))
       /\ WF_vars(RecordFailure(l) \/ RecordLost(l))
  /\ \A j \in Job :
       /\ SF_vars(\E l \in Lane : lane[l].job = j /\ CommitClaim(l))
       /\ WF_vars(BecomesDue(j)) /\ WF_vars(Purge(j) /\ j \in Recurring)
       /\ WF_vars(Unattended(j) /\ LeaseExpires(j))

FairSpec == Spec /\ Fairness

-----------------------------------------------------------------------------
(* Properties.                                                             *)

RowType == [status: {"absent", "pending", "running", "succeeded", "failed"},
            attempts: 0..MaxAttempts, by: Process \cup {NoProcess},
            lease: {"none", "live", "expired"}, due: BOOLEAN]
LaneType == [pc: {"idle", "claiming", "claimed", "running", "failing"},
             job: Job \cup {0}, attempt: 0..MaxAttempts]

\* Rows and lanes are of their types; no row is attempted more often than
\* its maximum allows, by retries or by reclaims.
TypeOK ==
  /\ job \in [Job -> RowType]
  /\ lane \in [Lane -> LaneType]
  /\ effects \in [Job -> SUBSET (1..MaxAttempts)]

\* However many attempts overlap after leases expired, the effects of one of
\* them count, and they count exactly if the row says that it succeeded.
EffectsOnce ==
  \A j \in Job :
    /\ Cardinality(effects[j]) <= 1
    /\ effects[j] # {} <=> job[j].status = "succeeded"

\* A job is given up only when its attempts are used up or nobody can run it.
GivenUpLast ==
  \A j \in Job : job[j].status = "failed" =>
    job[j].attempts = MaxAttempts \/ j \in Unregistered

SingleLane == \A l, m \in Lane : ProcessOf[l] = ProcessOf[m] => l = m

\* What a worker finalises is its own attempt: finalize_job_success "marks an
\* owned job attempt as successful". It holds where a process has one lane;
\* the lanes of a process share their name, and there the code refutes it.
OwnAttemptOnly ==
  [][\A l \in Lane :
       /\ lane[l].pc \in {"running", "failing"} /\ lane'[l].pc = "idle"
       /\ job'[lane[l].job].status # job[lane[l].job].status
       => lane[l].attempt = job[lane[l].job].attempts]_vars

\* What makes these inductive: a waiting job has an attempt left; an open
\* claim has its row to itself; a lane at work knows its attempt, which is
\* the current one if it passes the fence and shares its name with nobody.
AttemptsLeft ==
  \A j \in Job : job[j].status = "pending" => job[j].attempts < MaxAttempts

OpenClaim ==
  \A l \in Lane : lane[l].pc = "claiming" =>
    /\ lane[l].job \in Job /\ job[lane[l].job].status = "pending"
    /\ \A m \in Lane : lane[m].pc = "claiming" /\ lane[m].job = lane[l].job => m = l

AtWork(l) == lane[l].pc \in {"claimed", "running", "failing"}
LaneAttempt ==
  \A l \in Lane : AtWork(l) => lane[l].job \in Job /\ lane[l].attempt \in 1..MaxAttempts

FencedAttempt ==
  SingleLane =>
    \A l \in Lane : AtWork(l) /\ Owned(l) => lane[l].attempt = job[lane[l].job].attempts

Charged(b) == {j \in Job : BucketOf[j] = b}
Buckets == {BucketOf[j] : j \in Job} \ {NoBucket}

\* An open claim was selected when the bucket was below its limit, so all the
\* claims that are open can only add one row each.
Claiming(b) == {l \in Lane : lane[l].pc = "claiming" /\ BucketOf[lane[l].job] = b}
ClaimBound ==
  \A b \in Buckets :
    Cardinality(Running(Charged(b))) + Cardinality(Claiming(b)) < Limit + Cardinality(Lane)

\* The inductive invariant of the proofs.
IndInv ==
  /\ TypeOK /\ AttemptsLeft /\ OpenClaim /\ LaneAttempt
  /\ EffectsOnce /\ GivenUpLast /\ FencedAttempt /\ ClaimBound

\* "Maximum running jobs per workspace or user-owned concurrency bucket": two
\* claims that overlap do not see each other, so the maximum is exceeded, but
\* by less than the number of lanes, however many attempts crash or are retried.
BoundedOvershoot ==
  \A b \in Buckets : Cardinality(Running(Charged(b))) < Limit + Cardinality(Lane)

\* Every job ends, whatever its handler, its worker or its bucket does.
EveryJobEnds == \A j \in Job : InFlight(j) ~> IsTerminal(j)

\* The recurring kind is claimed again and again: neither success, failure
\* for good, nor crashes break the chain of its jobs.
SweepsKeepRunning == []<>(\E j \in Recurring : job[j].status = "running")

=============================================================================
