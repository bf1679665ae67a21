# A TLA+ model of Praxis: agent runs, scripts, schedules, jobs, streams and Files

This directory specifies the parts of the Praxis server (`src/apps/api`), and the
one part of its web client, where concurrency, crashes and retries decide what
is correct:

* what happens to an agent run: who may execute it, what a human approval turns
  into, how a failure, a cancellation, a crash or a deadline ends it, and what
  becomes of the specialists it delegated to;
* code mode: scripts that call tools, stop for an approval, and are restored;
* the registry of running turns in an API process;
* schedules and the turns they fire;
* the queue of background jobs, and the worker process that executes both;
* the event stream of a turn, and the browser tab that reads it, loses it and
  recovers;
* Files: uploads, revisions and objects that no transaction covers.

The specifications are checked by TLC on small instances, and central
invariants are proved by TLAPS for instances of any size.

All paths below are relative to `src/apps/api` unless they start with `src/`.

## 1. The system

One PostgreSQL database is shared by several processes: API processes, which
execute interactive agent turns as asyncio tasks, and worker processes, which
execute scheduled turns and background jobs. Processes are killed and replaced
at any time. There is no other coordination than rows, row locks and leases.
Objects (Files, staged tool content) live in a storage provider outside the
database. The web client keeps a cache of rows and a stream per turn.

| Component | State | Operations | Interacts with | Model |
| --- | --- | --- | --- | --- |
| **Agent run families** `services/agent_runs` | `agent_runs` rows: status, owner, lease, deadlines, error code, `metadata` | create, start, settle a family, cancel, reap | everything below | `RunFamily` |
| **Approval continuations** `services/agent_runs`, `services/agents/runtime/approval_*.py` | approval state and reservation in a root's metadata, a batch identity per suspension | suspend, reserve, claim, claim a child, expire | runs, jobs, staged content | `RunFamily` |
| **Run execution** `services/agents/runtime/execute`, `run_persistence.py`, `worker.py` | an invocation: owner UUID, phase, execution control | start, run, suspend, succeed, fail, stop | runs, registry, heartbeat | `RunFamily` |
| **Delegation** `services/agents/runtime/delegation` | child rows; deferred calls in the caller | create a child, resume an approved child, report its result | runs, execution | `RunFamily` |
| **Run task registry** `run_manager.py` | task per run, turn slots, cleanup tasks | spawn, queue, cancel, drain | execution | `TurnRegistry` |
| **Run heartbeat** `heartbeat.py`, `renew_lease.py` | timer, lease deadline | renew, revoke | runs, execution | `TurnRegistry`, `RunFamily` |
| **Job queue** `services/jobs`, `workers/job_runner.py` | `jobs` rows: status, attempts, lock | enqueue, claim, renew, finalise, reclaim | every sweep | `JobQueue` |
| **Schedules** `services/agent_schedules`, `workers/agent_runner.py` | schedules, schedule runs with claims | claim due, prepare, finalise, reconcile | runs | `ScheduleRuns` |
| **Worker process** `workers/main.py`, `workers/concurrency.py` | slots, shutdown event | batches, rounds, drain | jobs, schedules | `WorkerProcess` |
| **Streams** `sinks.py`, `streaming.py`, `stream_protocol.py` | bounded queue, sequence numbers | emit, read, close, detach | execution, clients | `ConversationStream` |
| **The conversation page** `src/apps/web/src/features/conversations` | stream state, query cache, recovery reads | send, answer, read, poll | streams, routes | `ConversationStream` |
| **Files and storage** `services/files`, `services/storage`, `services/jobs/handlers` | File, revision and upload rows; objects | grant, confirm, reserve, copy, edit, restore, delete, purge, sweep, extract | jobs, tools | `Files` |
| **Code mode** `services/agents/runtime/code_mode`, `tools/code_mode.py` | the interpreter, a task per nested call, a bridge (counter, ledger, taint), the resume artifact in the run's metadata | start, call, suspend, restore, give up | execution, approvals, dispatch | `CodeMode` |
| **Tool dispatch** `services/agents/runtime/dispatch.py` | one call | validate, require approval, execute, record | execution, code mode | `CodeMode` (the order of its steps) |
| Progress review, usage limits | nested budgets | charge, trip | execution | |
| Knowledge, memories, scratch, artifacts | rows, objects, jobs | ingest, embed, sweep | jobs | |
| Auth, sessions, rate limiting | sessions, counters | sign in, rotate, limit | routes | |
| Workspaces, users, notifications, audit | rows | CRUD, append | routes | |
| Integrations, routes, renderer, schema | | adapters, declarations | | |

`PROJECT.json` lists the same components with their sources and the reason
each one is, or is not, modelled.

### What makes it hard

* **Everybody writes the same rows.** A run's row is written by the task that
  executes it, the cancel endpoint, the resume endpoint, the reaper and the
  expiry sweep, each in transactions of its own. `lock_run_family` makes one
  transaction atomic for a family; between two of its transactions a task
  holds a memory of rows that others change.
* **Leases and takeovers.** Runs, occurrences and jobs are owned while a lease
  is live. A dead process leaves its row behind, a slow one returns after its
  row was settled or claimed by somebody else.
* **Consent must be used once.** An approved action may have effects outside
  the system. The decisions are stored by the resume endpoint (*reserved*),
  picked up by a worker in another transaction (*started*), and passed on
  child by child; crash, expiry, cancellation and a second click fall between.
* **A family ends together.** A specialist is a run with its own row, lease and
  approval, executed inside the task of its root. Either can be settled while
  the other is in the middle of something.
* **Cancellation is an exception at the next await.** A turn that queues for a
  slot, a drain, a heartbeat and a finally block all await; each may be
  interrupted there, also by the second cancellation of the same task.
* **Settlement can fail too.** It is bounded by three seconds and its errors
  are logged. Deadlines and sweeps have to clean up.
* **Objects are not transactional.** They are copied and deleted before the
  rows commit, and the sweeper, a retry and a purge look at the same keys.
* **A script is paused and replayed.** Its calls run on while it waits for one of
  them; what it has done must survive a suspension, a deployment and the loss of
  the snapshot, in the artifact or in the evidence beside it.
* **A view is several reads.** The tab learns of a run from a stream that may
  break at any frame, and from three requests between which others act.

### What is to be correct, by component

* *Families*: terminal states are final; a root and its open specialists end
  together; every execution ends; a stale owner changes nothing.
* *Approvals*: decisions are executed at most once, by the owner of the live
  lease they were reserved for; an approval that "expired" was not executed;
  interrupted accepted work is reported as needing review; staged content is
  never forgotten; every wait ends.
* *Code mode*: a restored script repeats nothing and keeps its budget; a script is
  written again only if none of its writes happened; one approval is for one
  nested call; scripts do not wait for themselves.
* *Registry*: at most so many turns work; a cancelled turn is settled once and
  does not work; a drain that succeeds leaves nothing; every turn is served.
* *Job queue*: an attempt's effects and its outcome are recorded together; a job
  is retried until it succeeds or its attempts are used up; concurrency limits;
  recurring sweeps never die out.
* *Schedules*: an occurrence executes one turn; a schedule never waits for a
  fire time that is over; an occurrence agrees with its agent run; every fire
  time is dealt with.
* *Worker process*: both runners share the slots; a drain ends when nothing is
  left to do; a shutdown strands no claimed row.
* *Streams and tab*: an unbroken beginning of the events; nothing is announced
  that the database does not have; answers are about the requests shown; the
  view settles.
* *Files*: every revision can be read; a failed upload can be repeated; the
  revisions are one chain; no object without a row; the status shown is true.

## 2. Modules

| Module | Role |
| --- | --- |
| `RunLifecycle` | the abstract promise: the transition table and the two family rules |
| `RunFamily` | the detailed specification of one family and everyone who acts on it |
| `RunFamilyProofs` | TLAPS proofs about `RunFamily`: the inductive invariant, verdicts, refinement; then consent: decisions, executors, staged content, expiry |
| `CodeMode` | the scripts of one run, their nested calls, suspension, restoration and recovery |
| `CodeModeProofs` | TLAPS proofs about `CodeMode` |
| `TurnRegistry` | the asyncio tasks of one API process, at the granularity of awaits |
| `TurnRegistryProofs` | TLAPS proofs about `TurnRegistry` |
| `JobQueue` | the `jobs` table and the worker processes that execute it |
| `JobQueueProofs` | TLAPS proofs about `JobQueue` |
| `ScheduleRuns` | schedules, their occurrences and the tasks that execute them |
| `ScheduleProofs` | TLAPS proofs about `ScheduleRuns` |
| `WorkerProcess` | the supervisor of a worker process, its two runners and their slots |
| `WorkerProcessProofs` | TLAPS proofs about `WorkerProcess` |
| `ConversationStream` | a run's stream and the tab that shows it |
| `ConversationStreamProofs` | TLAPS proofs about `ConversationStream` |
| `Files` | File, revision and upload rows together with the objects behind them |
| `FilesProofs` | TLAPS proofs about `Files` |
| `MC...` | the instances TLC checks |

The modules meet where the code's components meet. `RunFamily` and
`TurnRegistry` describe the same tasks from two sides: in `RunFamily` an
invocation may stop at any point (`Stop`, `Crash`), `TurnRegistry` says when a
task is created, queued, cancelled and cleaned up, and reduces what the task
does in between to the step that ends its worker. `ScheduleRuns` keeps of an
occurrence's agent run its status only, and `JobQueue` of a handler its
effects; `WorkerProcess` takes one claim or one handler of either as one step.
`CodeMode` is what happens inside one invocation of `RunFamily`: its `review` is a
suspension there, its `Interrupt` a `Stop` or `Crash`, its `recovery` the failure
code `Raise` leads to.
The recurring sweeps whose fairness `RunFamily` assumes are the recurring kind
of `JobQueue`; the extraction jobs of `Files` are its ordinary ones, with their
attempts. `ConversationStream` has the rows of `RunFamily` reduced to status,
approval revision and messages saved.

Definitions named `Bug...` stand before the definition they vary and are used
by no specification: each is a plausible mistake that one of the properties
detects (`PROJECT.json`, `mutants`).

### RunLifecycle

The table `ALLOWED_TRANSITIONS` of `services/agent_runs/domain.py`, and: a
specialist starts, waits, resumes and completes only while its root is
running; a root ends together with every specialist that is still open, and
completes only when none is.

### RunFamily

One root and a set `Child` of specialists. A family is independent of other
families (every settlement is limited to rows with the same root), so one is
enough.

| Variable | Stands for |
| --- | --- |
| `row[r]` | the `agent_runs` row of a member: `status`, `owner` (`owner_instance_id`), `lease` (`lease_expires_at`: none, live, expired), `late` (the deadline of the current status has passed), `batch` (the saved approval state, by `approval_batch_id`), `code` (`error_code`) |
| `delegated` | children the root's saved approval state refers to |
| `resv` | `approval_continuation` in the root's metadata: the owner it was reserved for, its phase, the batch accepted per child, the children claimed so far |
| `inv[o]` | the invocation owning UUID `o`: where it is (`pc`), its run, the invocation that called it, the accepted children it has to resume (`todo`), the deferred calls it collected |
| `issued`, `cleanup`, `grants` | history: batches saved, batches whose cleanup was enqueued, and which invocation was given which decisions. No guard reads `cleanup`; `grants` is read only to tell a resumed specialist from a fresh one (`Resumed`), which the code knows from the function it is in |

Each action is one transaction, or one step inside a task that changes where
the task continues. The actions and the code:

| Action | Code |
| --- | --- |
| `CreateRoot` | `create_turn_stream`: insert, claim, spawn |
| `CreateChild` | `run_child_agent` up to `execute_run` |
| `Start`, `StartRefused` | `start_run`, `start_agent_run_with_lease`, refused by their guards and settled by `admitted_setup` |
| `SuspendRun`, `SuspendConflict` | `persist_suspended_run` and the approval graph it projects |
| `Succeed` | `persist_successful_run`, with its branch for unfinished children |
| `FinaliseSuperseded` | both of the above finding another owner or a verdict |
| `PostCommitFailure`, `Finish` | the rest of `execute_run` after the commit |
| `Reserve`, `ResumeExpired`, `ResumeInvalid` | the branches of `resume_agent_run_stream` |
| `ClaimContinuation`, `ClaimRefused` | `claim_approval_continuation` in `run_resume_worker` |
| `ClaimChild`, `ChildRefused`, `DelegateNotAllowed` | `resume_approved_delegate_run` with `claim_child_approval` |
| `Raise`, `Stop` | any exception or cancellation inside a segment; `check_permission`; heartbeat |
| `PersistFailure`, `PersistCancelled`, `SettlementLost` | `persist_failed_run`, `persist_cancelled_run`, and their bounded callers |
| `RequestCancel` | the cancel endpoint |
| `Reap` | `reap_abandoned_runs` |
| `ExpireApprovals` | `sweep_expired_agent_run_approvals` |
| `LeaseExpires`, `BecomesLate`, `Crash` | time, and the death of a process |

`SettleAs` is `settle_run_family`, used by every action that fails or cancels.

Points a reader of the code may want to know:

* A root executes its tool calls one at a time
  (`parallel_tool_call_execution_mode("sequential")`), so it is in at most one
  delegation.
* A heartbeat that keeps a lease is the absence of `LeaseExpires`; one that
  loses it is `Stop`.
* After a lost settlement the row stays as it is: that is `SettlementLost`, and
  `Reap` is what ends it.
* `Reserve` commits before the worker is spawned. A spawn that never happens,
  because the process died or the registry still holds the task that
  suspended, is `Crash` of the reserved invocation.
* `AGENT_RUN_APPROVAL_EXPIRY_DAYS = 0` switches expiry off; the model has it on.
* Recovery evidence is abstracted to one question, whether an ordinary failure
  leaves an uncertain action, and `Verdicts` leaves the answer open.

Left out because no property here depends on it: `review_approval` (revises
the proposal of a waiting call, not its control), audit records, usage
records, messages, conversation summaries, titles, event sinks.

### JobQueue

The rows of `jobs` and the lanes of several worker processes. A lane claims one
job, executes it and records the outcome; the lanes of a process run side by
side in one event loop and share the process's owner name (`ProcessOf`).

| Variable | Stands for |
| --- | --- |
| `job[j]` | a row: `status`, `attempts`, `by` (`locked_by`), `lease` (`lock_expires_at`: none, live, expired), `due` (`run_after` has passed); `absent` before it is inserted and after it is deleted |
| `lane[l]` | where a lane is (`pc`), its job, and which attempt of it the lane made; the code does not keep that number, and no guard reads it |
| `effects[j]` | history: attempts whose effects were committed |

| Action | Code |
| --- | --- |
| `Enqueue` | `enqueue_job`, with the unique index over in-flight rows |
| `SelectJob`, `CommitClaim` | `claim_jobs`: the statement's snapshot and lock, then the commit |
| `StartHandler` | the re-check of the claim and of the handler in `_execute_claimed_job` |
| `HandlerReturns` | the handler's session with `finalize_job_success`, committed or rolled back together |
| `HandlerFails`, `RecordFailure`, `RecordLost` | exception or timeout, and `_record_job_failure` in another session, which may fail too |
| `Heartbeat` | `heartbeat_job_lease`: renew, or cancel the handler |
| `Pass` | the first transaction of `run_once`: reclaim, and ensure the recurring jobs |
| `Purge` | `sweep_terminal_jobs` |
| `BecomesDue`, `LeaseExpires`, `Crash` | time, and the end of a process |

Points a reader of the code may want to know:

* A claim is two actions because that is where the code's counting of running
  rows is weaker than a lock. Everything else is one transaction, and its fence
  (`Owned`) is evaluated by the update itself.
* A row that was purged stands for the next job with the same number. Retention
  is days, an attempt minutes: a purged row has no lane on it.
* Jobs are claimed by priority, `run_after` and `created_at`; the model gives
  every job a priority of its own.
* A handler's effects are what it does in the session that commits with its
  success. Handlers that commit on the way (the approval sweep does, family by
  family) have to be idempotent, which `src/docs/implementation/workers.md` asks
  of them; whether each one is belongs to the module of its component.
* `Pass` is a pass of any process. A process waits for its lanes before its next
  pass, so the pass that reclaims the row of a lane still at work is another's.
* Batches, admission slots and the drain of a process decide when a lane is
  started, not what it does; they are in `WorkerProcess`.

### CodeMode

The `run_code` calls of one run. A script is a sequence of calls and of awaits;
an await waits for every call issued so far, so `<<"fetch", "write", "await">>`
is a script that gathers two calls. `Calls` tells apart what the code tells apart:
a read, a read of untrusted data (`_find_untrusted_sources` finds some in its result),
a write the run may make on its own, and a write its policy wants approved.

| Variable | Stands for |
| --- | --- |
| `turn`, `answer`, `prog` | where the run is; what the model was told of each `run_code`; the scripts |
| `vm` | the interpreter: its place, and the calls it holds futures of |
| `bridge` | `CodeModeBridge`: nested calls counted, ledger of effects, taint, and whether the script was restored |
| `task` | the asyncio task of the call at each place: its stage, id, approval |
| `saved` | the resume artifact in the run's metadata, with its `health` |
| `asked` | the deferred requests, with the ledger each of them carries in its approval metadata |
| `effects`, `cut`, `names`, `seen`, `granted` | history: effects per call, effects cut short before their record, ids given, scripts that were handed untrusted data, ids approved |

`CallScript` is `execute_code_mode_workflow` up to the executor. `Issue`,
`Deliver` and `UnknownCall` are the driver (`_drive_script`): it makes a task per
call and settles them in order at an await. `Enter` (lock, budget,
taint), `Dispatch` (checks, approval), `Handle`, `HandlerFails` and `Return` are
`_call_tool` with `dispatch_tool_execution`. A segment ends by `Complete`, `Suspend`, `Break`
or `Interrupt`; each cancels what is pending (`Teardown`). `BeginReview`,
`Degrade` and `Resume` are the wait: the artifact may be lost, damaged or of
another version, and the script goes on, or is given up (`GiveUp`) with recovery
or a redraft, as `_recoverable_effects` finds evidence. What a script computes
is a free choice, and so is whether it catches a failure (`Deliver`) or breaks
(`Break`, which is also its time budget). Traces, audit rows and output limits are
left out, except that a result may fail at the boundary.

### TurnRegistry

The tasks of one API process. asyncio runs a task from one await to the next,
so an action is such a stretch, and a cancellation is a mark (`must`) that the
next await turns into an exception.

| Variable | Stands for |
| --- | --- |
| `turn[t]` | the task of a turn: where it is, its pending cancellation, the reason its control carries, its queue heartbeat, whether it holds a slot, and history of its worker and its settlement |
| `row[r]` | status and owner of the run, as far as the registry settles it |
| `tasks`, `slots`, `waiters` | `_tasks`, the semaphore's value and its queue |
| `ordered` | cancellations committed by the endpoint, not yet delivered in this process |
| `drain` | where `drain` is and the tasks it waits for |

| Action | Code |
| --- | --- |
| `Spawn`, `OrderCancel`, `DeliverCancel` | `spawn`, the cancel endpoint, `cancel` |
| `Start`, `Admit`, `Enter`, `NeverStarts` | `_run_with_turn_slot` from its first line to the worker |
| `Revoke`, `BeatEnds`, `TakeCancel`, `Expire`, `Settle` | the heartbeat of the queue, and `_settle_queued_run` under `bounded_finalisation` |
| `WorkerEnds`, `Suspend` | the worker of the turn |
| `CloseTurn`, `CutShort`, `Finish`, `CleanUp` | the finally block, a cancellation inside it, the done callback, `_cleanup_before_start` |
| `DrainStarts`, `DrainCancels`, `DrainEnds`, `DrainGivesUp` | `drain` |
| `Reap` | the reaper of `RunFamily`, which revokes a lease the registry believes in |

`CutShort` is what makes one documented behaviour false (section 6).

### ScheduleRuns

Schedules, the occurrences (`agent_schedule_runs`) they fire and the tasks that
execute them: the slots of runners and resumed turns of the API. Fire times are
numbered in the order they are assigned, deadlines are two-valued.

| Variable | Stands for |
| --- | --- |
| `sched[s]` | the schedule's row; `last` numbers the fire times assigned so far |
| `run[o]` | the occurrence's row: status, attempts, claim |
| `agent[o]` | the status of the agent run linked to it |
| `task[t]` | what a task is doing and for which occurrence |
| `overrun` | history: occurrences whose claim expired under a living task |

The user's actions are `Pause`, `Enable`, `Reschedule`, `RunNow`, `Delete`. A
pass is `StartPass` (reconcile, which mirrors every verdict it finds),
`Claim`/`ClaimUnavailable`/`NothingDue`, `Prepare`/`PrepareUnavailable`/
`PrepareFails` with `RecordSetupFailure`/`SetupFailureLost`, `EndTurn`, and
`Finalise`/`FinaliseLost`. `Resume` is a turn resumed by a decision on its
approvals, `AgentRunStops` whatever else ends an agent run. A crash empties the
task and leaves the rows.

Points a reader of the code may want to know:

* `Mirror` is one operator for the reconciler and the finaliser, because the
  code finalises each occurrence with the same function; several verdicts of a
  schedule are applied in the order of their fire times.
* Nothing caps the attempts at a claim; the model stops counting at the maximum
  (the status of a row depends only on whether it was reached).
* An occurrence without an agent run in the reconciler's selection has no
  behaviour here: no transaction commits one.

### WorkerProcess

The supervisor (`_run_drain_mode`, `_run_forever_mode`), the loops of the two
runners, the lanes of their batches and the slots they share. An item is a due
schedule or a job; executing one may make another due, also for the other
runner (`MadeBy`). `mode` is chosen at the start.

`StartPass`, `Maintain` and `EndPass` are a pass; `Admit`, `Claim` and `Work`
are a lane's; `Wake` is the polling interval, `CancelPass` a runner stopped by
shutdown or by the other's failure after its grace period; `EndRound`,
`RunnerFailed`, `ExitFailed` and `LoopEnds` are the supervisor.

### ConversationStream

One tab of the owner of a conversation. On the server's side there are the
rows, the detached worker of a run with the events it owes after its last
commit, and the `StreamSink` with its reader. On the client's side there are
the state of `useAgentStream`, the pane (the active-run query), the recovery
read in flight, and what the tab has read.

| Group | Actions | Code |
| --- | --- | --- |
| worker | `Start`, `Speak`, `Suspend`, `Complete`, `Fail`, `LoseRow`, `Tell`, `TellOtherwise`, `Leave` | `execute_run`, `finalize.py`, `worker.py`: each commit, then its events |
| elsewhere | `SettleElsewhere`, `ResumeElsewhere`, `TurnElsewhere` | the reaper, the sweep, the cancel endpoint, another tab |
| request | `Send`, `Answer`, `AcceptTurn`, `AcceptResume`, `Refuse` | the page, and the two endpoints that open a stream |
| stream | `Delivered`, `Disconnected`, `Connect`, `Receive`, `Finish`, `StreamFails` | `drain_sse_sink`, `runStream` with its reducer and cache seeding |
| recovery | `Begin`, `ReadRun`, `ReadMessages`, `ReadApproval`, `Publish`, `Changed`, `ReadFails`, `Retry` | `conversationRecoveryQueryOptions`, polling, the Retry button |

Events are numbered by the sink. The contents of deltas, and the cache entries
of pages other than the conversation's, are left out; so is the first message
of a new conversation, whose stream is opened by another endpoint.

### Files

Rows in the database and objects in a provider. An id stands for everything one
request mints: the upload row, the revision and, for a new File, the File. What
kind of request each id is (a browser upload, a tool's snapshot, a copy, an
agent's write, an edit, a restore) is fixed at the start by `Plans`; when it
comes, and what comes between its steps, is not.

| Variable | Stands for |
| --- | --- |
| `upload`, `rev`, `file` | the three tables |
| `stage`, `final`, `markdown` | temporary objects, durable objects at the key of their revision, Markdown objects |
| `tx[i]` | the transaction of a request, and what it has read |
| `purging` | Files whose purge has deleted objects and not committed yet |
| `job[i]` | the extraction job of a revision |
| `sent`, `purged`, `overtaken` | history: bytes received, purges begun, Files replaced during an extraction |

Every transaction that talks to the provider is several steps:
`BeginConfirm`, `Promote`, `DropStage` and `CommitConfirm` are a confirmation
(with `Deduplicate`, `Refuse`, `Replay`), `LockReservation`, `WriteReserved`
and `CommitReserved` a copy, a snapshot or a write, `BeginEdit`, `PutEdit` and
`CommitEdit` an edit; `Restore` and `Delete` are one step. `BeginPurge`,
`CommitPurge` and `SweepUpload` are the sweep of deleted Files and of expired
uploads; `ReadForExtract` to `FinishExtract` are an extraction, with `FailExtract` for its
own error path and `CutExtract` for a timeout or a crash. `Abort` rolls a request
back at any step and leaves the objects as they are.

Points a reader of the code may want to know:

* `LocksFile` is `SELECT ... FOR UPDATE`; an insert of the same new File waits
  for the other's end (`Inserting`).
* The insert-collision branch of `Refused`, two replacements of one purged
  File, needs three uploads of one File, more than the instance has.
* Videos (a probe instead of an extraction), platform Files and folders are
  left out. So are listings, which read only.

## 3. Properties

A property with parts is checked as a conjunction; the parts are named in its
module.

| Property | Says |
| --- | --- |
| **RunFamily** | |
| `IndInv` | the inductive invariant (section 7), with `OpenChildHasOpenRoot` (no task that failed to notice a verdict creates, resumes or parks a specialist that outlives it) and `ReservationBound` (no reservation survives a suspension, settlement or takeover) |
| `RefinesLifecycle` | `RunFamily` implements `RunLifecycle` |
| `ExecutedOnce` | `DecisionsExecutedOnce`: one batch of decisions goes to one invocation, and never waits for approval again; `OneExecutor`: a member is executed by at most one invocation |
| `GrantsAuthorised` | decisions are handed out only under the live lease they were reserved for |
| `VerdictAuthoritative` | the first terminal status and code stand |
| `OutcomeTold` | `ExpiredMeansNotTaken`: a family that ends as expired executed nothing it still waited for; `AcceptedWorkReviewed`: accepted work that is interrupted ends for review |
| `StaleOwnerHarmless` | an invocation cannot end a run it has lost |
| `QueuedChildrenProtected` | a live root whose overdue waits are only those of accepted specialists it has yet to reach is left alone by the sweep (up to the point described in section 6) |
| `StagedContentOwned` | staged content is held, handed out or queued for cleanup |
| `NothingHangs` | every execution (`ExecutionEnds`) and every wait (`WaitsEnd`) ends |
| **CodeMode** | |
| `IndInv` | the inductive invariant, with `EffectsOnce` (a restored script repeats no call), `NamesAreUnique` (its calls keep one sequence of ids and one budget), `OneAtATime` (gathered calls are dispatched one at a time) and `ReviewMatches` (a person is asked about the call the run would go on with) |
| `RedraftSafe` | the model is told to write a script again only when none of its writes happened, even if the artifact is lost (one exception in section 6) |
| `ConsentPerCall` | a nested call that needs approval, by its policy or because the script has seen untrusted data, takes effect only if that call was approved |
| `ScriptsEnd` | a script ends or stops without its time budget: neither the lock nor the awaits make it wait for itself |
| **TurnRegistry** | |
| `RegistryKept` | `WorkBounded`: at most `MaxTurns` work, whatever is cancelled while it queues; `LiveIsRegistered`: a living task is the registered one, so a cancellation reaches it |
| `NoTurnForgotten` | `SettledOnce`: a turn that ends without its worker is settled exactly once and its stream closed; `DrainLeavesNothing`: a drain that succeeds leaves no task and no cleanup |
| `EnteredAlone` | a turn enters its worker only when nothing told it to stop, and alone: the heartbeat of the queue has ended (`BeatHandedOff`) |
| `TurnServed` | every accepted turn reaches its worker or ends |
| `QueuedAboveLimit` | turns queue above the limit only: refuted (section 6) |
| **JobQueue** | |
| `IndInv` | the inductive invariant, with `GivenUpLast` (a job fails for good only with its attempts used up, or without a handler) |
| `EffectsOnce` | however many attempts overlap, the effects of one count, exactly if the row succeeded |
| `OwnAttemptOnly` | an attempt is finalised by the lane that made it, for one lane per process |
| `BoundedOvershoot` | a bucket runs fewer jobs than its limit plus the number of lanes |
| `EveryJobEnds` | every job of a finite stream of requests ends |
| `SweepsKeepRunning` | a recurring kind is executed again and again |
| **ScheduleRuns** | |
| `IndInv` | the inductive invariant, with `NoSpentFire` (an active schedule never waits for a fire time whose occurrence is over), `VerdictMirrored` (an occurrence says of its agent run what that says of itself) and `OneTurn` (one task at most executes the turn of an occurrence, however often it is claimed again) |
| `OverIsFinal` | a finished occurrence stays as it is |
| `EveryFireServed` | every fire time an active schedule waits for is dealt with |
| `DueIsClaimed` | runners go on claiming what is due: refuted (section 6) |
| **WorkerProcess** | |
| `WithinLimits` | both runners together execute no more items than there are slots (`SlotsShared`), batches keep their size |
| `NothingLeftBehind` | `DrainedMeansIdle`: a process that ends as drained has executed what was due when its last round began, and what that made due, for either runner; `QuietExit`: a process that closes its connections leaves no pass, no handler and no claimed row |
| `ProcessEnds` | a polling worker told to stop stops even when handlers hang; a drain ends once handlers do |
| **ConversationStream** | |
| `ShownIsSaved` | `ToldIsSaved`: what a stream announced the database has, and a pane shows the end of another run at most until the read that follows its stream; `RecoveredWhole`: a recovered end comes with its whole transcript, a recovered wait with the requests of its revision |
| `GapFree` | a tab has received an unbroken beginning of the events |
| `AnswersShownRequests` | a run is resumed only with decisions about the requests the user had before them |
| `TabCatchesUp` | no response stays open once the worker has left (`ReaderEnds`); a tab that saw a run in progress ends up showing its end with the whole transcript, or an error with a Retry (`ViewSettles`) |
| **Files** | |
| `ChainsKept` | `OneChain`: the revisions of a File are one chain without gap or fork, its head is the current one, and what a person asked for follows the revision they saw |
| `BytesBehindRevisions` | every committed revision can be read |
| `UploadRecoverable` | a failed confirmation can be repeated |
| `StatusTold` | the status of a File is its current revision's own |
| `ReservationsKept` | `ReservedOwned`: an object the server writes has a row that cleans it up; `CopyStaysGone`: a repeated copy does not bring a purged File back |
| `FilesSettle` | every expired grant or reservation is consumed or swept (`GrantsSettle`); a File does not stay in processing (`ProcessingEnds`) |

## 4. Runs and bounds

| Run | Instance | Shows |
| --- | --- | --- |
| `RunFamilySafety` | 2 specialists, 4 invocations, 3 suspensions | the safety and action properties of a family, among them the refinement and the inductive invariant |
| `RunFamilyLiveness` | 1 specialist, 3 invocations, 2 suspensions | executions and waits end |
| `CodeMode` | 2 `run_code` calls of 9 scripts, up to 3 nested calls each | restored scripts, redrafts, consent and the end of scripts |
| `TurnRegistry` | 3 turns, two of them of one run; 1 slot | registry, settlement, hand-over, drain; every turn is served |
| `TurnSlots` | 3 turns of 3 runs; 1 slot | counterexample: a lost slot |
| `JobQueueShared` | 4 jobs, two of them duplicates, one without a handler; 2 lanes of one process; limit 1, 2 attempts | effects, giving up, overshoot and the inductive invariant hold even where the owner name is shared |
| `JobQueueLiveness` | 3 jobs, two of them of a recurring kind; 2 processes of one lane | the exact fence; every job ends; the chain of sweeps does not break |
| `ScheduleRuns` | 1 repeating schedule, 2 fire times, 2 tasks, 2 attempts | rows agree, verdicts are final, every fire time is dealt with |
| `ScheduleDeleted` | two single-shot schedules, 1 runner | counterexample: a deleted schedule stops all claims |
| `WorkerProcess` | both modes; 2 lanes per runner, 1 slot, 3 items, 1 fault | slots, drain and shutdown |
| `ConversationStream` | 1 run, 2 suspensions, 3 events, a queue of 2, 1 fault | stream, tab and recovery |
| `Files` | four sequences of up to three requests, 2 contents, 1 fault, 2 attempts | rows and objects |

*RunFamily.* Owners and batches are fresh UUIDs, so they bound how many
invocations and suspensions a behaviour has. Four invocations give a root, a
specialist, and two more: a second specialist, a resumption, a duplicate
resume, a stale task and its successor. Three batches give the suspension of a
specialist, of its root and one more. `InOrder` keeps the behaviours that draw
owners and batches in ascending order: tokens are only compared for equality,
so every behaviour is one of these up to renaming. Specialists are symmetric.
Neither is used in the liveness run. Every hazard in `PROJECT.json` about
families needs at most two members, two owners of the same row and two
suspensions; the mutants confirm that the bounds reach each one.

*CodeMode.* Two `run_code` calls give a second script that wants to be suspended
while the first is. The scripts await each call, or gather two or three with the
one to be approved first, in the middle or last; one has two writes around an
approved one, so that a restored script has something to repeat and is suspended with
a ledger; one is longer than its budget of three calls.

*TurnRegistry.* One slot and three turns give a holder, a waiter and one
behind it; two turns of one run give a continuation spawned while the task
before it is still registered.

*JobQueue.* Two attempts give a first and a last one, so a lost lease, a
reclaim and a second claim; a limit of one and two lanes make overlapping
claims exceed it; recurring rows are one that runs and its successor.

*ScheduleRuns.* Two fire times give one that delays the next; two tasks a slow
claimant and its successor; two attempts a retry and the last one. Fire times
beyond the last never come. What `OneTurn` excludes needs a third attempt,
which the instance does not have; it is proved for any number.

*WorkerProcess.* One slot makes the lanes of both runners compete; one item
that makes another due for the other runner is what a drain can miss.

*ConversationStream.* Three events and a queue of two overflow; a second
suspension distinguishes the requests shown from those that came later; one
fault is a broken connection, a failed read, a crash or a reload anywhere.
The next turn of the conversation (`MaxRuns = 2`) is beyond the instance with its
liveness properties; the theorems of section 7 cover any number of runs, and
their invariant was checked beforehand for two and three runs without recovery
faults (`MaxRuns = 3`, `MaxRevisions = 0`, `MaxEvents = 1`, `MaxFaults = 0`).

*Files.* Three requests give two uploads of one File and a restore across them,
a document that is edited and restored, a copy or a snapshot that is edited;
one fault is a rollback, a crash, a timeout or a failed provider call anywhere.
The code tries an extraction three times; two give a first and a last attempt.

*Deadlock* is not checked: a family whose members have all ended does nothing,
a queue may have no jobs, a process that has stopped takes no step, and a user
may never ask for anything.

## 5. Fairness

*RunFamily.* `FairSpec` assumes weak fairness of `BecomesLate`, `Reap` and
`ExpireApprovals`, and of nothing else: no invocation is assumed to take a
step, no user to answer. Deadlines pass because they are absolute times. The
reaper and the sweep are recurring jobs: `run_once` of `workers/job_runner.py`
ensures a job of each kind on every polling pass
(`ensure_abandoned_agent_run_sweep_job`,
`ensure_agent_run_approval_sweep_job`), and each handler enqueues its
successor. Both visit whatever is due, so an action that stays enabled is
taken. That a recurring sweep is executed again and again is
`SweepsKeepRunning` of `JobQueue`.

*JobQueue.* Processes keep polling and their lanes keep taking steps
(`run_forever`), a handler ends, at the latest by its timeout
(`asyncio.wait_for`), time passes, and the lease of a row nobody works on
expires. Crashes are not fair and not bounded: they may go on forever.
`CommitClaim` has strong fairness for each job, which excludes only that each
and every claim of a job is hit by a crash between its statement and its
commit; every other loss uses up an attempt. `EveryJobEnds` is checked for
finitely many requests (`OnceSpec`): claims go by priority, so an endless
stream of requests of higher priority may starve a job, and that is how the
code is meant.

*CodeMode.* Ready tasks take their steps and so does the driver, as the event loop
has it; handlers return. Nobody has to decide, and no time budget is needed.

*TurnRegistry.* The loop runs ready tasks, a free slot wakes its first waiter,
and the timer of a waiting turn fires. Workers may hang, and nobody has to
ask for anything.

*ScheduleRuns.* Every task takes its next step (`MovesOn`), fire times come,
claims of dead tasks expire, and an agent run nobody attends is ended by the
reaper or the expiry sweep of `RunFamily`. Crashes are not bounded, so three
things have strong fairness for each schedule: that it is claimed (claims go by
fire time, so a due schedule is not passed over for ever), that a setup is
completed, and that a turn reaches a verdict, at the latest when its deadline
passes. `EveryFireServed` excepts two things the code does not survive: a
deleted schedule, and a claim that expires under its living task (section 6).

*WorkerProcess.* Lanes get their turn at the slots (strong fairness: another
lane may take a slot first), timers fire, the supervisor runs. Nothing is
assumed of a handler, except that `DrainEnds` assumes in its premise that
handlers end.

*ConversationStream.* Workers end, the reaper and the sweep come, the server answers,
connections deliver or break, and the timers of the tab fire. Nobody has to
send, answer or focus the window.

*Files.* A transaction that began goes on or rolls back, the sweeper reaches
every expired row, jobs run. Failures are finite (`MaxFaults`).

## 6. Disagreements with the documentation

Two are checked runs.

*A deleted schedule stops all claims* (`ScheduleDeleted`).
`services/agent_schedules/runs.py:264` says "Claim due schedule fire times with
row locks so overlapping workers split work." A schedule may be deleted while
an occurrence of it is running or awaiting approval. When its agent run ends,
every pass selects the occurrence in `reconcile_schedule_run_execution`;
finalising it raises `NotFoundError`, because the schedule is deleted, and
nothing catches that before `run_once`. The pass ends before it claims
anything, and so does every later one: due schedules of all workspaces stay
unclaimed.

*A lost turn slot* (`TurnSlots`). The test
`test_run_task_registry_queues_above_limit_then_admits_next` promises that turns
queue above the limit. The finally block of `_run_with_turn_slot` joins the
queue heartbeat before it releases the slot, also when the heartbeat ended long
ago. A cancellation delivered at that await, for instance of a run that has
just suspended, skips the rest of the block: the slot is never released, the
worker and the sink are not closed, and later turns queue although none
occupies the slot, each until its own deadline (`TurnServed` still holds).

The others were met while modelling. The models follow the code, and the
properties are stated so that they hold of it.

*Protection of queued children.* `src/docs/implementation/agent-runs.md:509`
says: "An unexpired reservation protects its referenced queued children from
separate approval expiry." `has_live_approval_reservation` also requires that
every child of the reservation that is waiting waits with the batch that was
accepted. A child that was resumed and has suspended again waits with a new
batch. From then on the family has no protection: when one of the queued waits
becomes overdue, the sweep ends the whole family with
`agent_run_resume_requires_recovery`. No invariant is hurt; a live run is
stopped for review although nothing went wrong. `QueuedChildrenProtected` is
the sentence without that case.

*Owned attempts.* `services/jobs/finalize_job.py:28` "Marks an owned job attempt
as successful and terminal.", and `src/docs/implementation/workers.md:15` says
that "stale owners cannot persist success or failure results". The fence of
every such write is `locked_by`, which is `hostname:pid`
(`workers/job_runner.py:502`), the same for all lanes of a process and for every
attempt. When the lease of a lane's job expires, another process reclaims the
row and another lane of the first process claims it, the first lane passes the
fence again and its outcome ends the second lane's attempt. `EffectsOnce` holds
all the same, because the row lock lets only one of the two succeed; what is
lost is that a failure of the stale attempt is recorded against the newer one
(proved to be impossible where a process has one lane, `SingleLaneFencing`).

*The concurrency limit.* `core/settings/jobs.py:62` calls
`JOBS_WORKSPACE_CONCURRENCY_LIMIT` the "Maximum running jobs per workspace or
user-owned concurrency bucket." `claim_jobs` counts running rows in its own
snapshot and locks the one row it selects, so two claims that overlap both
commit. The excess is less than the number of lanes (`BoundedOvershoot`,
proved).

*Schedules.* A setup that fails after its claim expired records its failure
over whatever the next claimant has achieved (`workers/agent_runner.py:481`
checks no owner); `VerdictMirrored` and `OverIsFinal` except such occurrences
(`overrun`). `RunNow` of a schedule whose occurrence is open sets a fire time
that the completion of the open one overwrites
(`services/agent_schedules/runs.py:224`): the request is lost. The maximum of
attempts (`core/settings/agents.py:49`) is not looked at by a claim, so claims
whose setup dies with its process go on beyond it.

*Code mode.*

* `tools/code_mode.py:54` tells the model that a call that needs approval "pauses the
  script until someone decides, then resumes where it stopped. Calls run one at
  a time, even under `asyncio.gather`." The executor goes on only from a call
  that is awaited as it is made (`executor.py:175`), and does not know the calls
  gathered before it (`executor.py:250`). Such a script is not resumed: it ends
  for recovery or as a redraft (`AwaitedAtOnce`, `UnknownCall`), in the second case
  after the approved call was executed.
* `src/docs/architecture/code-mode.md:224` on completed effectful calls: "Automatic
  redrafting is forbidden because a fresh script could repeat a side effect." A
  write is noted in the ledger after its handler has returned; a time budget
  or a cancellation that strikes in between leaves the ledger empty, and a restored
  script ends as a redraft. `RedraftSafe` excepts these calls (`cut`).
* A second script that wants to be suspended is told to "Retry after that
  decision" (`bridge.py:803`), whatever its own ledger says: the writes it has made are
  made again by a model that takes this literally.

*The conversation page.* A run that leaves its wait between the status read and
the approval read is answered with 409 (`load_approval_graph.py`), which
`isConversationReadRecoverable` does not count among the errors to retry, while
`src/docs/implementation/agent-runs.md` says that revision changes between the
reads are retried; the user has to press Retry. A stream that breaks before its
first event invalidates no details, and an idle pane does not poll.
Drafts of decisions are hidden as soon as a stream disconnects, before the
saved transcript is read.

*The end of another run.* When a stream ends, `seedStreamQueryCache`
(`stream/query-cache.ts:88`) writes its status onto the run the active-run query
holds at that moment, whichever that is. If a read that came during the stream
has moved the query on to a newer run, one another tab has started, that run is
shown as completed although it has just begun, until the read that follows every
stream (`invalidateStreamQueries`) puts it right. It takes three runs to meet: one
whose end leaves a read to be made, one whose stream that read overlaps, and that of
the other tab. The instance with its liveness properties has one run, and the first
form of `ToldIsSaved` overlooked the case; the attempt to prove it found it. `ToldIsSaved` now says that such a status is that
of some completed run, and that it is the pane's own run's once nothing is
being streamed, read, retried or owed to the pane (`AtRest`), or the status came
from a read.

*Files.*

* A restored revision whose first extraction attempt failed, and whose retry
  copies the Markdown of its source, stays in status `error`:
  `_mark_current_revision_ready` replaces only `pending` and `processing`.
  `StatusTold` excepts it.
* Extraction reads whether its revision is current without a lock and writes
  `processing`, `error` or `ready` to a File that was replaced meanwhile; the
  test `test_extract_file_markdown_does_not_clobber_newer_current_revision` has
  the sequential case only. The history `overtaken` marks these Files.
* When every attempt of an extraction times out or dies, the status stays
  `processing`: `except Exception` does not see a cancellation.
* Deduplication deletes the staged object before it commits; if it rolls back,
  the retry finds no object, while the File still has the bytes.
* The sweeper of workspace uploads leaves the promoted object of a confirmation
  that rolled back and was never repeated; the platform's sweeper removes it.
* A replacement granted before a purge and confirmed after it recreates the
  purged File.
* A purge deletes objects before its rows commit. `BytesBehindRevisions` excepts
  Files whose purge has begun.
* A second PUT after the grant was consumed leaves a temporary object that no
  sweep removes.

## 7. Proofs

Every invariant and every action property that a passing run checks is the
statement of a theorem or a conjunct of one.

### RunFamilyProofs

Proved for every set of specialists, owners and batches satisfying
`RootAssumption`, `OwnerAssumption` and `BatchAssumption` (the root is not a
specialist; the null values are not UUIDs). Together they cover every property
of `RunFamilySafety`.

| Theorem | Statement |
| --- | --- |
| `InductiveInvariant` | `Spec => []IndInv` |
| `TypeCorrect` | `Spec => []TypeOK` |
| `FamilySettlesTogether` | `Spec => []OpenChildHasOpenRoot` |
| `ReservationsAreBound` | `Spec => []ReservationBound` |
| `VerdictsStand` | `Spec => VerdictAuthoritative` |
| `FamilyRefinesLifecycle` | `Spec => RefinesLifecycle` |
| `OneExecutorPerMember` | `Spec => []OneExecutor` |
| `DecisionsOnce` | `Spec => []ExecutedOnce` |
| `ContentOwned` | `Spec => []StagedContentOwned` |
| `GrantsAreAuthorised` | `Spec => GrantsAuthorised` |
| `QueuedAreProtected` | `Spec => QueuedChildrenProtected` |
| `LosersAreHarmless` | `Spec => StaleOwnerHarmless` |
| `OutcomesAreTold` | `Spec => OutcomeTold` |

*Why a stronger invariant is needed.* That a verdict stands needs little: the
guards of every transaction re-read the row. The lifecycle needs more. It says
that a specialist advances only while its root is running, but the
transactions that start, suspend or complete a specialist read the
specialist's row alone. The connection is the task: `CallStack` says that a
specialist in progress is called by exactly one root invocation, which is
waiting for it; `RootExecutor` says that such an invocation owns the running
root or the family has its verdict; and `OpenChildHasOpenRoot` excludes the
verdict while the specialist's row is open. `RootExecutor` survives `Reserve`,
which makes the root running for a new owner, because it implies that a
waiting root has no invocation past its start; it survives the return of a
specialist because `CallStack` says which invocation goes on. `ReservationBound`
is what makes an ended or parked root free of consent, and `ApprovalHeld` says
that what is handed out as a grant is a batch and an owner, not their null
values.

    IndInv == TypeOK /\ ApprovalHeld /\ ReservationBound
              /\ CallStack /\ RootExecutor /\ OpenChildHasOpenRoot

*Consent.* On top of `IndInv`, four invariants follow decisions through a
family; they are inductive given `IndInv`.

* `OneRootExecutor`: `OneExecutor` for the root. The specialist's half follows
  from it by `CallStack`, which gives each specialist's invocation its caller.
* `ReservedIdle`: the invocation decisions are reserved for has not begun, or
  has failed before it began. The transaction that grants them does not look
  at the task; that no second one executes is because nobody who could reach
  `claim_approval_continuation` again has left its first line.
* `Consent`: a batch belongs to one row; what a row waits for, or is reserved
  with, nobody was given; what an executing row holds, somebody was. It goes
  through the steps as `BatchesKept`: most steps issue and grant nothing, move
  no batch and let nobody begin to wait. The exceptions (a suspension, the two
  claims) have a lemma each. `ContentKept` does the same for staged content.
* `InHand`: while a specialist executes accepted decisions, the root is
  running and its owner waits for that specialist or will never go on. This is
  what the sweep relies on without looking: it refuses families whose root is
  running and whose waits are accepted, and a family it ends as expired
  therefore executes nothing (`OutcomesAreTold`).

*Layout.* Lemmas about types come first, one per group of
actions; then lemmas on how the call stack changes (`Move`, `End`, `Return`,
`Spawn`, `Call`, `Crash`); then what settlement does to rows (`SettleRows`,
`FailRows`, `CancelRows`); then one lemma per action group for the remaining
conjuncts; `RowStep` classifies what a step of `Next` may do to rows and yields
verdicts and the refinement. The second half, on consent, has a section per
property, each with the invariant it needs.

### JobQueueProofs

Proved for every finite set of jobs and of lanes, every assignment of lanes to
processes, of keys and buckets to jobs, and every limit and maximum of attempts
above zero (the six assumptions of the module):

| Theorem | Statement |
| --- | --- |
| `InductiveInvariant` | `Spec => []IndInv` |
| `TypeCorrect` | `Spec => []TypeOK` |
| `EffectsCountOnce` | `Spec => []EffectsOnce` |
| `GivenUpOnlyLast` | `Spec => []GivenUpLast` |
| `OvershootBounded` | `Spec => []BoundedOvershoot` |
| `SingleLaneFencing` | `SingleLane` implies `Spec => OwnAttemptOnly` |

*Why a stronger invariant is needed.* The type says that attempts stay within
their maximum, but `CommitClaim` adds one without looking: that a waiting row
has an attempt left is `AttemptsLeft`, and that the row a claim selected still
waits when it commits, and is no other claim's, is `OpenClaim`. `LaneAttempt`
makes what a handler commits an attempt. `FencedAttempt` relates the fence to
the attempt where a process has one lane: a lane that passes it made the
current attempt. `ClaimBound` counts rows that run together with claims that
are open: a selection needs the bucket to be below its limit, whatever the
other lanes have selected by then, and a commit turns one claim into one row.

    IndInv == TypeOK /\ AttemptsLeft /\ OpenClaim /\ LaneAttempt
              /\ EffectsOnce /\ GivenUpLast /\ FencedAttempt /\ ClaimBound

*Layout.* `RowMove` and `LaneMove` list what a step may do to one row and one
lane, and `StepMoves` shows that every action does no more; the conjuncts about
rows, lanes, claims, the fence and the bound follow from the moves without
another case analysis of `Next`. `EffectsOnce` is about two rows at once (a
recurring job and its successor) and goes by action.

### ScheduleProofs

Proved for every set of schedules and of tasks, single-shot or repeating, and
every number of fire times and of attempts allowed by the assumptions of
`ScheduleRuns`:

| Theorem | Statement |
| --- | --- |
| `ScheduleInvariant` | `Spec => []IndInv` |
| `OneTurnPerOccurrence` | `Spec => []OneTurn` |
| `VerdictsMirrored` | `Spec => [](VerdictMirrored /\ NoSpentFire)` |
| `FinishedStaysFinished` | `Spec => OverIsFinal` |

*Why a stronger invariant is needed.* That a schedule never waits for a fire
time that is over needs to know that the next fire time it is given was never
used: `InOrder`. Finalising a verdict is harmless to an occurrence that was
claimed again, and a failure of setup is recorded without looking at the
owner; both are right because a setup that its claim protects is alone with a
claimed row (`SetupAlone`), and because an occurrence nobody has set up has no
agent run whose verdict a reconciler could find (`Unstarted`). Two tasks of one
occurrence would need an agent run that becomes active again while an earlier
task still executes: `NoneParked` says that a task executing a turn has one
that was not parked under it.

    IndInv == TypeOK /\ InOrder /\ NoSpentFire /\ VerdictMirrored
              /\ SetupAlone /\ Unstarted /\ OneTurn /\ NoneParked

*Layout.* The invariant has two halves: fire times (`InOrder`, `NoSpentFire`),
which any step keeps that moves schedules as `Moves` allows, and the rest,
`Others`. Each action has one lemma for both; the pass, whose reconciliation
settles several occurrences at once, has `MirrorMoves` and `MirrorKeeps`.

### CodeModeProofs

Proved for any set of scripts, any number of `run_code` calls and any budget
of nested calls:

| Theorem | Statement |
| --- | --- |
| `RestoredScriptsAreSound` | `Spec => []IndInv` |
| `RedraftsAreSafe` | `Spec => []RedraftSafe` |
| `ConsentIsPerCall` | `Spec => ConsentPerCall` |

*Why a stronger invariant is needed.* `EffectsOnce` needs that a call that has not
been handled has had no effect (`Unspent`), for a script that was saved as
well: it goes on only from a call that is awaited as it is made, so no call
behind it was made before the suspension. `RedraftSafe` needs that what
happened is in the ledger or about to be (`Recording`), and that artifact and
request each carry that ledger (`SavedEnough`), since either may be all that is
left. `NamesAreUnique` needs the counter to survive (`Counted`), `ConsentPerCall`
the approval on the task and the taint of the bridge (`ConsentNoted`); taint
cannot change under a call that is being dispatched because of `OneAtATime`.
`Bookkeeping` keeps run, requests and artifact in step, `ScriptShape` the
interpreter and the tasks.

    IndInv == TypeOK /\ EffectsOnce /\ NamesAreUnique /\ ReviewMatches
              /\ OneAtATime /\ RedraftSafe /\ Bookkeeping /\ ScriptShape
              /\ Unspent /\ Recording /\ Counted /\ ConsentNoted /\ SavedEnough

*Layout.* What a step inside a script leaves alone is `InsideScript`, and
`TaskMoves` for the steps of a task; what the end of a segment has in common is
`Stopped`, `Idle` and `SegmentEnds`; steps between scripts are `Between`,
`Abandoned` and `GoesOn`. Then one lemma per action.

### TurnRegistryProofs

Proved for any set of turns and runs and any number of slots:

| Theorem | Statement |
| --- | --- |
| `RegistryIsKept` | `Spec => []RegistryKept` |
| `TurnsAreNotForgotten` | `Spec => []NoTurnForgotten` |
| `TurnsEnterAlone` | `Spec => EnteredAlone` |

*Assumptions* (`RegistryAssumption`): every turn has a run, there are finitely many
turns and at least one slot, and `NoTurn` is none of the turns.

*Why a stronger invariant is needed.* `WorkBounded` counts turns in their workers,
but a slot is taken before the worker is entered and given back after it ended,
or never (`CutShort`): `SlotsCounted` says that free slots and holders together
are `MaxTurns`. `SettledOnce` speaks of turns that are over; `TurnKnown` says for
each place a task can be in what has been settled, what is still to be cleaned
up, and that a queued turn without a mark has no reason to stop either, which is
what `EnteredAlone` needs of a turn that was revoked while it acquired its slot.
`DrainLeavesNothing` needs that a drain knows of every task and cleanup there is
(`DrainKnows`), which holds because every living task is registered
(`LiveIsRegistered`) and because no cancellation is delivered any more that would
schedule a new cleanup.

    RegistryInv == TypeOK /\ LiveIsRegistered /\ TasksKnown /\ SlotsCounted /\ DrainKnows

*Layout.* `OneTask` says what a step of a single task has to establish, `OrdinaryStep`
adds that registry and drain are left alone, `RowStep` is for steps that touch rows
only, `CancelledKnown` for the mark of a cancellation. Then one lemma per action.
That only `Start` and `Enter` enter a worker is `StepEnters` and `OthersDoNotEnter`.

### WorkerProcessProofs

Proved for any items, any number of lanes and slots and any batch size:

| Theorem | Statement |
| --- | --- |
| `WorkStaysWithinLimits` | `Spec => []WithinLimits` |
| `NothingStaysBehind` | `Spec => []NothingLeftBehind` |

*Assumptions* (`WorkerAssumption`): there is a lane, a slot and room for one item in a
batch, as the settings demand (`ge=1`); items are of one of the two kinds.

*Why a stronger invariant is needed.* `SlotsShared` counts handlers, slots are taken
with the claim: `SlotsCounted`. `QuietExit` needs that a claimed row has a lane
(`ClaimsHeld`), a lane a batch (`LanesOfBatches`) and that a process that is gone
has none (`GoneIsOver`). The heart is `DrainedMeansIdle`: the runners look into their
queues at different times, and the work of one fills the queue of the other.
`QuietRoundsLook` says that as long as nothing has been executed in a round, a
runner whose claims are all back has seen its queue empty and what is due now
came by itself; `LanesAdmitted` that a lane never gives up on a full batch
nobody was admitted to; `WorkNoted` that a pass that did something is remembered
until the round is over.

    ProcessInv == TypeOK /\ SlotsCounted /\ LanesOfBatches /\ ClaimsHeld /\ WorkNoted
                  /\ GoneIsOver /\ LanesAdmitted /\ QuietRoundsLook /\ DrainedMeansIdle

*Layout.* `LaneMoves` and `BatchMoves` for what steps do to slots, `RunnerMoves` and
`SupervisorMoves` for steps that only change a place; then one lemma per action.

### ConversationStreamProofs

Proved for any number of runs, suspensions, events and faults, and any size of
the queue:

| Theorem | Statement |
| --- | --- |
| `StreamInvariant` | `Spec => []IInv` |
| `ShownAlwaysSaved` | `Spec => []ShownIsSaved` |
| `StreamsAlwaysGapFree` | `Spec => GapFree` |
| `AnswersAlwaysShown` | `Spec => AnswersShownRequests` |

*Assumptions* (`StreamAssumption`): there is a run and room for one event, as
`STREAM_QUEUE_MAX_EVENTS` has it; the bounds are natural numbers.

*Why a stronger invariant is needed.* What the tab shows has come a long way: from a
commit to the events a worker owes, through the queue to the state of the stream, from
there or from three reads to the pane. `True(rows, e, r)` is what the rows must
have for a status to be told, and `EventsTrue`, `TabTrue`, `FetchTrue` and
`PaneTrue` say it of each station. It survives the steps of others because a
completed run and a counted revision are never taken back; a read of the
transcript stays whole because `completed` is the last thing that writes it.
`GapFree` needs that the queue goes on exactly where the tab stopped
(`QueueGoesOn`), that nothing joins a queue after it was given up, and that a
stream is read from its start (`CallsFresh`). `AnswersShownRequests` needs that the
revision an answer names is the one whose requests were on the screen, at the time
of the click and not of the acceptance (`AskKept`). The exception in `PaneTrue`,
the end of another run, is the observation of section 6: it comes with a stale
pane, a read under way, an error or a stream that is still open.

    IInv == TypeOK /\ RunsInOrder /\ WaitsSuspended /\ EventsTrue
            /\ QueueGoesOn /\ CallsFresh /\ AskKept
            /\ PaneTrue /\ TabTrue /\ FetchTrue /\ RecoveredWhole

*Layout.* Lemmas on the sink first: what `Emit`, `Detach` and `Close` keep of any
queue. `ServerKeeps` says what a step of the server has to establish, for then
the client's side is untouched; `TabKeeps` the same for steps of the tab beside
unchanged rows. Then one lemma per action.

### FilesProofs

Proved for any finite set of requests, any contents, faults and attempts, and any
plan of what the requests are:

| Theorem | Statement |
| --- | --- |
| `FilesInvariant` | `Spec => []IInv` |
| `ChainsAlwaysKept` | `Spec => []ChainsKept` |
| `BytesAlwaysBehind` | `Spec => []BytesBehindRevisions` |
| `UploadsAlwaysRecoverable` | `Spec => []UploadRecoverable` |
| `StatusAlwaysTold` | `Spec => []StatusTold` |
| `ReservationsAlwaysKept` | `Spec => ReservationsKept` |

*Assumptions* (`FilesAssumption`, `PlansAssumption`): ids are positive numbers and
finitely many, the null value is no content, and a job has one attempt at least. That
the ids are numbers is only how the model orders requests.

*Why a stronger invariant is needed.* No transaction covers rows and objects, so each
property holds by what several requests know of each other. A chain has no fork
because a File's row is locked from the read of its head to the commit
(`LocksKept`: at most one transaction holds it, and the row is as that one read it);
a new File has no row yet, and there it is the inserted key that excludes a
second. That the bytes of a revision are where they should be needs more than
that they were put there: that a transaction about to commit has them under its own
key (`TransactionBytes`), that no other request writes, sweeps or rolls back under
that key (`Requests`, `RevisionsKnown`: an object belongs to a settled request of
the same File and keeps its hash), and that a purge takes all revisions that
share an object, since a restore never leaves its File. `Recoverable` adds to
`UploadRecoverable` that a confirmation which has promoted its bytes does not need
the temporary object any more. `StatusTold` needs `JobsKnown`: an attempt that
believes its revision to be current is right, unless the File is one of
`overtaken`, and one that has written its Markdown left it in storage.

    IInv == TypeOK /\ Requests /\ Transactions /\ TransactionBytes /\ LocksKept
            /\ FilesKnown /\ OneChain /\ RevisionsKnown /\ BytesBehindRevisions
            /\ JobsKnown /\ StatusTold /\ Recoverable

*Layout.* `RowsKept` is for steps that leave rows and the objects behind them alone,
`AlikeKeeps` and `ExtractionKeeps` for extraction, which touches status and Markdown
only, `PurgeFrame` for purges. `AddRevisionKeeps` is the heart: every transaction
that commits a revision (a confirmation, a reservation, an edit, a restore) goes
through it, as in the code. Then one lemma per action; `ReservationsAlwaysKept` groups the
steps by what they write (`StepsGrouped`).

### Model-checked only

Liveness under fairness is out of the prover's reach: `NothingHangs`,
`EveryJobEnds`, `SweepsKeepRunning`, `EveryFireServed`, `ScriptsEnd`, `TurnServed`,
`ProcessEnds`, `TabCatchesUp`, `FilesSettle`.
So are, by their nature, the counterexamples of section 6. Of safety, nothing is
left to the instances.

## 8. Not modelled, and what could come next

* *Composition.* The fairness of the reaper and the sweep in `RunFamily` is
  `SweepsKeepRunning` of `JobQueue`, read by a person: no module joins the two.
* *Tool dispatch* beyond the order of its steps: output contracts, truncation,
  retained results, audit rows.
* *Progress review and usage limits.* Arithmetic of nested budgets inside one
  task; a tripped budget is `Raise` or a suspension in `RunFamily`.
* *Knowledge, memories, scratch, artifacts.* Handlers of the job queue and
  operations on single rows.
* *Authentication, rate limiting.* Sessions and counters in front of the routes.
* *Integrations, routes, the other pages of the client, the renderer, schema and
  settings.* Adapters, parsing, presentation and declarations.
* *Storage providers.* A provider is its contract: an object is there or not.
* *Proofs.* Abstract specifications of single parts (a bounded, lossless-or-closed
  queue for `StreamSink`, an append-only log for the revisions of a File) and their
  refinement; and the rows of `ConversationStream` as an abstraction of `RunFamily`.
