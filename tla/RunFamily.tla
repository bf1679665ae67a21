----------------------------- MODULE RunFamily -----------------------------
(***************************************************************************)
(* One root agent run and the specialists it delegates to: the durable     *)
(* rows of table agent_runs and every actor that writes them.              *)
(*                                                                         *)
(*   - invocations: the asyncio task of one turn or one resumed approval   *)
(*     (services/agents/runtime), a specialist running inside its caller;  *)
(*   - the cancel endpoint, the resume endpoint, the abandoned-run reaper  *)
(*     and the approval-expiry sweep (services/agent_runs, services/jobs); *)
(*   - time and crashes.                                                   *)
(*                                                                         *)
(* An action is one transaction. Every one that settles or resumes a       *)
(* member takes the family locks (lock_run_family), hence is atomic for    *)
(* the family; what an invocation carries from one of its transactions to  *)
(* the next is its inv record, which the others may have made stale.       *)
(*                                                                         *)
(* An invocation is named by the UUID that owns its lease. A batch names   *)
(* one suspension's approval state, with the content staged for it.        *)
(* Deadlines are two-valued (due or not). Renewal of a live lease, by the  *)
(* heartbeat, is the absence of LeaseExpires: services/agent_runs/         *)
(* renew_lease.py touches no other row.                                    *)
(***************************************************************************)
EXTENDS Naturals, FiniteSets

CONSTANTS Root, Child, Owner, Batch, NoOwner, NoBatch

ASSUME RootAssumption == Root \notin Child
ASSUME OwnerAssumption == NoOwner \notin Owner
ASSUME BatchAssumption == NoBatch \notin Batch

VARIABLES
  row,        \* the agent_runs rows
  delegated,  \* children the root's saved approval state refers to
  resv,       \* approval_continuation in the root's metadata
  issued,     \* every batch some suspension has saved
  cleanup,    \* batches whose staged-content cleanup has been queued
  grants,     \* <<batch, owner>>: owner executes the decisions on batch
  inv         \* the invocations, by owner

vars == <<row, delegated, resv, issued, cleanup, grants, inv>>

Run == {Root} \cup Child
Terminal == {"completed", "failed", "cancelled"}
Executable == {"pending", "running"}
Status == Executable \cup Terminal \cup {"absent", "awaiting_approval"}

\* The interruption codes are those after which the model never saw the
\* results of approved work; the last two sets are never rewritten.
InterruptionCodes ==
  {"interrupted", "run_abandoned", "delegation_requires_recovery", "recovery"}
Code == InterruptionCodes \cup
  {"none", "agent_run_failed", "approval_expired", "parent_terminated",
   "delegate_not_allowed"}

IsTerminal(r) == row[r].status \in Terminal
Awaiting(r) == row[r].status = "awaiting_approval"
Exists(r) == row[r].status # "absent"
Open(r) == Exists(r) /\ ~IsTerminal(r)

NoResv == [owner |-> NoOwner, phase |-> "none",
           batches |-> [c \in Child |-> NoBatch], claimed |-> {}]
HasResv == resv.phase # "none"
Accepted == {c \in Child : resv.batches[c] # NoBatch}

\* A lease that authorises o to act for r (require_execution_owner).
Owns(o, r) ==
  /\ row[r].status \in Executable
  /\ row[r].owner = o
  /\ row[r].lease = "live"

BlankRow == [status |-> "absent", owner |-> NoOwner, lease |-> "none",
             late |-> FALSE, batch |-> NoBatch, code |-> "none"]
FreeInv == [pc |-> "free", run |-> Root, caller |-> NoOwner,
            todo |-> {}, deferred |-> {}]
Released == [FreeInv EXCEPT !.pc = "released"]

Init ==
  /\ row = [r \in Run |-> BlankRow]
  /\ delegated = {}
  /\ resv = NoResv
  /\ issued = {}
  /\ cleanup = {}
  /\ grants = {}
  /\ inv = [o \in Owner |-> FreeInv]

-----------------------------------------------------------------------------
(* Settlement: the shared transition of every failure and cancellation.    *)
(* A definition named Bug... is the next one with a plausible mistake; no  *)
(* specification uses it. It shows which mistake a property would detect.  *)

BugTargetOnly(r) == {r}
Members(r) == IF r = Root THEN Run ELSE {r}

BugResettles(r) == {m \in Members(r) : Exists(m)}
Settled(r) == {m \in Members(r) : Open(m)}

\* Batches whose content the settlement of r must have cleaned up.
BugTargetBatch(r) == {row[r].batch} \ {NoBatch}
HeldBatches(r) == {row[m].batch : m \in Settled(r)} \ {NoBatch}

\* The root's metadata loses its approval state and reservation.
ClearsReservation(r) == Root \in Settled(r)

\* What settle_run_family makes of the error code. With accepted work on the
\* root an interruption always needs review; an ordinary failure does if the
\* evidence still lists an uncertain action, which the model leaves open.
BugReaperIsOrdinary(r, code) ==
  IF r = Root /\ HasResv /\ code # "run_abandoned" THEN {"recovery", code} ELSE {code}
Verdicts(r, code) ==
  IF r = Root /\ HasResv
    THEN IF code \in InterruptionCodes
           THEN {"recovery"}
           ELSE {"recovery", code}
    ELSE {code}

\* Ends member r and, if r is the root, every open child. Cleanup of the
\* staged content is queued before the approval metadata is dropped.
SettleAs(r, status, code) ==
  /\ row' = [m \in Run |->
       IF m \in Settled(r)
         THEN [row[m] EXCEPT
                 !.status = status, !.lease = "none", !.late = FALSE,
                 !.batch = NoBatch,
                 !.code = IF m = r THEN code
                          ELSE IF status = "failed" THEN "parent_terminated"
                          ELSE "none"]
         ELSE row[m]]
  /\ cleanup' = cleanup \cup HeldBatches(r)
  /\ IF ClearsReservation(r)
       THEN delegated' = {} /\ resv' = NoResv
       ELSE UNCHANGED <<delegated, resv>>
  /\ UNCHANGED <<issued, grants>>

Fail(r, code) == \E verdict \in Verdicts(r, code) : SettleAs(r, "failed", verdict)
Cancel(r) == SettleAs(r, "cancelled", "none")

RowsUnchanged == UNCHANGED <<row, delegated, resv, issued, cleanup, grants>>

-----------------------------------------------------------------------------
(* Starting invocations.                                                   *)

FreeOwner(o) == inv[o].pc = "free"
Invocation(pc, r, caller, todo) ==
  [FreeInv EXCEPT !.pc = pc, !.run = r, !.caller = caller, !.todo = todo]

\* A user or schedule turn: the row is inserted and its execution claimed in
\* one transaction, then the worker is spawned and may queue for a slot.
CreateRoot(o) ==
  /\ FreeOwner(o)
  /\ ~Exists(Root)
  /\ row' = [row EXCEPT ![Root] =
                [BlankRow EXCEPT !.status = "pending", !.owner = o, !.lease = "live"]]
  /\ inv' = [inv EXCEPT ![o] = Invocation("queued", Root, NoOwner, {})]
  /\ UNCHANGED <<delegated, resv, issued, cleanup, grants>>

\* The first delegation of a task creates the child row, unclaimed.
CreateChild(o, c, o2) ==
  /\ inv[o].pc = "executing" /\ inv[o].run = Root /\ inv[o].todo = {}
  /\ FreeOwner(o2) /\ ~Exists(c)
  /\ Owns(o, Root)
  /\ row' = [row EXCEPT ![c] = [BlankRow EXCEPT !.status = "pending"]]
  /\ inv' = [inv EXCEPT ![o].pc = "delegating",
                        ![o2] = Invocation("queued", c, o, {})]
  /\ UNCHANGED <<delegated, resv, issued, cleanup, grants>>

\* start_agent_run_with_lease under execute_run's preconditions. A fresh
\* child is still unowned; every other invocation must hold its live lease.
Startable(o) ==
  LET r == inv[o].run
  IN  /\ row[r].status = IF inv[o].pc = "queued" THEN "pending" ELSE "running"
      /\ row[r].owner = NoOwner \/ Owns(o, r)

Start(o) ==
  /\ inv[o].pc \in {"queued", "claimed"}
  /\ Startable(o)
  /\ row' = [row EXCEPT ![inv[o].run] =
                [@ EXCEPT !.status = "running", !.owner = o, !.lease = "live"]]
  /\ inv' = [inv EXCEPT ![o].pc = "executing"]
  /\ UNCHANGED <<delegated, resv, issued, cleanup, grants>>

\* The invocation ends; a specialist's caller goes on in state next.
Return(o, next) ==
  inv' = [x \in Owner |->
    IF x = o THEN Released
    ELSE IF x = inv[o].caller THEN [inv[x] EXCEPT !.pc = next]
    ELSE inv[x]]

\* A specialist invocation that was given accepted decisions.
Resumed(o) == \E b \in Batch : <<b, o>> \in grants

\* A refused start of a root is settled like any failure. A refused child is
\* not persisted: a fresh one becomes a failed tool result, a resumed one
\* stops its caller for recovery.
StartRefused(o) ==
  /\ inv[o].pc \in {"queued", "claimed"}
  /\ ~Startable(o)
  /\ IF inv[o].run = Root
       THEN inv' = [inv EXCEPT ![o].pc = "error"]
       ELSE Return(o, IF Resumed(o) THEN "interrupted" ELSE "executing")
  /\ RowsUnchanged

-----------------------------------------------------------------------------
(* Approval continuations.                                                 *)

FamilyDue == \E r \in Run : Awaiting(r) /\ row[r].late
GraphValid == \A c \in delegated : Awaiting(c)

\* The endpoint refuses a root that is not waiting or already reserved.
BugAcceptsTwice == Awaiting(Root) \/ (row[Root].status = "running" /\ HasResv)
Resumable == Awaiting(Root) /\ ~HasResv

\* Claiming a waiting row restarts its execution clock for a new owner.
Resumption(r, o) ==
  [r EXCEPT !.status = "running", !.owner = o, !.lease = "live", !.late = FALSE]

\* Resume endpoint: consent is stored and the root claimed for the new
\* invocation in one transaction; only then is the invocation spawned.
Reserve(o) ==
  /\ FreeOwner(o)
  /\ Resumable /\ ~FamilyDue /\ GraphValid
  /\ resv' = [owner |-> o, phase |-> "reserved", claimed |-> {},
              batches |-> [c \in Child |->
                            IF c \in delegated THEN row[c].batch ELSE NoBatch]]
  /\ row' = [row EXCEPT ![Root] = Resumption(@, o)]
  /\ inv' = [inv EXCEPT ![o] = Invocation("reserved", Root, NoOwner, {})]
  /\ UNCHANGED <<delegated, issued, cleanup, grants>>

\* The same request on an overdue or broken approval graph settles instead.
ResumeExpired ==
  /\ Resumable /\ FamilyDue
  /\ Fail(Root, "approval_expired")
  /\ UNCHANGED inv

ResumeInvalid ==
  /\ Resumable /\ ~FamilyDue /\ ~GraphValid
  /\ Fail(Root, "recovery")
  /\ UNCHANGED inv

\* The resume worker turns the reservation into a grant, once.
BugIgnoresLease(o) == row[Root].owner = o /\ resv.owner = o /\ resv.phase = "reserved"
CanClaim(o) == Owns(o, Root) /\ resv.owner = o /\ resv.phase = "reserved"

ClaimContinuation(o) ==
  /\ inv[o].pc = "reserved"
  /\ CanClaim(o)
  /\ resv' = [resv EXCEPT !.phase = "started"]
  /\ grants' = grants \cup {<<row[Root].batch, o>>}
  /\ inv' = [inv EXCEPT ![o] = [@ EXCEPT !.pc = "claimed", !.todo = Accepted]]
  /\ UNCHANGED <<row, delegated, issued, cleanup>>

ClaimRefused(o) ==
  /\ inv[o].pc = "reserved"
  /\ ~CanClaim(o)
  /\ inv' = [inv EXCEPT ![o].pc = "error"]
  /\ RowsUnchanged

\* The resumed root reaches an approved delegation and claims its child.
CanClaimChild(o, c) ==
  /\ row[Root].status = "running" /\ Owns(o, Root)
  /\ resv.phase = "started" /\ resv.owner = o
  /\ Awaiting(c)
  /\ c \in Accepted \ resv.claimed
  /\ resv.batches[c] = row[c].batch

ClaimChild(o, c, o2) ==
  /\ inv[o].pc = "executing" /\ c \in inv[o].todo
  /\ FreeOwner(o2)
  /\ CanClaimChild(o, c)
  /\ resv' = [resv EXCEPT !.claimed = @ \cup {c}]
  /\ grants' = grants \cup {<<row[c].batch, o2>>}
  /\ row' = [row EXCEPT ![c] = Resumption(@, o2)]
  /\ inv' = [inv EXCEPT ![o] = [inv[o] EXCEPT !.pc = "delegating",
                                        !.todo = inv[o].todo \ {c}],
                        ![o2] = Invocation("claimed", c, o, {})]
  /\ UNCHANGED <<delegated, issued, cleanup>>

\* Every refusal on that path raises the recovery error in the root.
ChildRefused(o, c) ==
  /\ inv[o].pc = "executing" /\ c \in inv[o].todo
  /\ ~CanClaimChild(o, c)
  /\ inv' = [inv EXCEPT ![o].pc = "interrupted"]
  /\ RowsUnchanged

\* The caller may no longer run this specialist: the child fails closed.
DelegateNotAllowed(o, c) ==
  /\ inv[o].pc = "executing" /\ c \in inv[o].todo
  /\ row[Root].status = "running" /\ Owns(o, Root) /\ Open(c)
  /\ Fail(c, "delegate_not_allowed")
  /\ inv' = [inv EXCEPT ![o].pc = "interrupted"]

-----------------------------------------------------------------------------
(* The end of an execution segment.                                        *)

\* Model, tool and budget errors, and lost execution permission, surface as
\* exceptions anywhere in the segment.
Raise(o) ==
  /\ inv[o].pc = "executing"
  /\ \E pc \in {"error", "interrupted"} : inv' = [inv EXCEPT ![o].pc = pc]
  /\ RowsUnchanged

\* persist_suspended_run and persist_successful_run first re-read the row: an
\* invocation that lost it, or whose run was settled, keeps its hands off.
Finishing(o) == inv[o].pc = "executing" /\ inv[o].todo = {}
Current(o) == row[inv[o].run].owner = o /\ ~IsTerminal(inv[o].run)

\* Every suspension saves its approvals under a new identity.
FreshBatch(o, b) == b \notin issued

SuspendRun(o, b) ==
  LET r == inv[o].run
  IN  /\ Finishing(o) /\ Current(o)
      /\ row[r].status = "running"
      /\ FreshBatch(o, b)
      /\ \A c \in inv[o].deferred : Awaiting(c)
      /\ row' = [row EXCEPT ![r] = [@ EXCEPT !.status = "awaiting_approval",
                    !.lease = "none", !.late = FALSE, !.batch = b]]
      /\ issued' = issued \cup {b}
      /\ IF r = Root
           THEN delegated' = inv[o].deferred /\ resv' = NoResv
           ELSE UNCHANGED <<delegated, resv>>
      /\ inv' = [inv EXCEPT ![o].pc = "suspended"]
      /\ UNCHANGED <<cleanup, grants>>

\* Projecting the root's graph raises for a deferred child that is no longer
\* waiting; the whole suspension rolls back.
SuspendConflict(o) ==
  /\ Finishing(o) /\ Current(o)
  /\ \E c \in inv[o].deferred : ~Awaiting(c)
  /\ inv' = [inv EXCEPT ![o].pc = "error"]
  /\ RowsUnchanged

FinaliseSuperseded(o) ==
  /\ Finishing(o) /\ ~Current(o)
  /\ Return(o, IF Resumed(o) THEN "interrupted" ELSE "executing")
  /\ RowsUnchanged

\* A root with an unfinished child records recovery, not success.
Succeed(o) ==
  LET r == inv[o].run
  IN  /\ Finishing(o) /\ Current(o) /\ inv[o].deferred = {}
      /\ row[r].status = "running"
      /\ IF r = Root /\ \E c \in Child : Open(c)
           THEN Fail(Root, "delegation_requires_recovery")
           ELSE /\ row' = [row EXCEPT ![r] = [@ EXCEPT !.status = "completed",
                              !.lease = "none", !.late = FALSE, !.batch = NoBatch]]
                /\ IF r = Root
                     THEN delegated' = {} /\ resv' = NoResv
                     ELSE UNCHANGED <<delegated, resv>>
                /\ UNCHANGED <<issued, cleanup, grants>>
      /\ inv' = [inv EXCEPT ![o].pc = "done"]

\* Finalisation also emits events under its three-second bound; failing
\* there, after the commit, takes the ordinary failure path.
PostCommitFailure(o) ==
  /\ inv[o].pc \in {"suspended", "done"}
  /\ inv' = [inv EXCEPT ![o].pc = "error"]
  /\ RowsUnchanged

\* execute_run returns: a suspended child becomes a deferred call of its
\* caller, any other result is handed to the caller's model.
Finish(o) ==
  /\ inv[o].pc \in {"suspended", "done"}
  /\ inv' = [x \in Owner |->
       IF x = o THEN Released
       ELSE IF x = inv[o].caller
         THEN [inv[x] EXCEPT !.pc = "executing",
                 !.deferred = IF inv[o].pc = "suspended"
                                THEN @ \cup {inv[o].run} ELSE @]
       ELSE inv[x]]
  /\ RowsUnchanged

-----------------------------------------------------------------------------
(* Failure and cancellation of an invocation.                              *)

Active == {"queued", "reserved", "claimed", "executing", "suspended", "done",
           "error", "interrupted"}

\* Cancellation reaches the innermost invocation of the task; it bears the
\* mark of a human stop only after the endpoint has cancelled a member's row.
StopKinds(o) ==
  {"stopped"} \cup
  (IF \E r \in {Root, inv[o].run} : row[r].status = "cancelled"
     THEN {"human"} ELSE {})

\* A child that has not started yet has no execution control: it is not
\* settled, and the cancellation propagates to its caller.
Stop(o) ==
  /\ inv[o].pc \in Active
  /\ \E kind \in StopKinds(o) :
       IF inv[o].pc \in {"queued", "claimed"} /\ inv[o].run # Root
         THEN Return(o, kind)
         ELSE inv' = [inv EXCEPT ![o].pc = kind]
  /\ RowsUnchanged

FailureCode(pc) == IF pc = "error" THEN "agent_run_failed" ELSE "interrupted"

\* What a failed specialist does to its caller. A fresh one is a failed tool
\* result, a resumed one stops the root for recovery unless it ran out of
\* its own budget; an inherited budget stops the root either way.
CallerNext(o) ==
  CASE inv[o].pc \in {"stopped", "human"} -> {inv[o].pc}
    [] inv[o].pc = "interrupted" ->
         IF Resumed(o) THEN {"interrupted"} ELSE {"executing"}
    [] OTHER ->
         {"executing", "error"} \cup (IF Resumed(o) THEN {"interrupted"} ELSE {})

BugUnfenced(o) == FALSE
OwnedByOther(o) == row[inv[o].run].owner \notin {o, NoOwner}

PersistFailure(o) ==
  /\ inv[o].pc \in {"error", "interrupted", "stopped"}
  /\ IF OwnedByOther(o) \/ IsTerminal(inv[o].run)
       THEN RowsUnchanged
       ELSE Fail(inv[o].run, FailureCode(inv[o].pc))
  /\ \E next \in CallerNext(o) : Return(o, next)

PersistCancelled(o) ==
  /\ inv[o].pc = "human"
  /\ IF OwnedByOther(o) \/ IsTerminal(inv[o].run)
       THEN RowsUnchanged
       ELSE Cancel(inv[o].run)
  /\ Return(o, "human")

\* Settlement is bounded and its own failures are logged, not raised.
SettlementLost(o) ==
  /\ inv[o].pc \in {"error", "interrupted", "stopped", "human"}
  /\ \E next \in CallerNext(o) \ (IF Resumed(o) THEN {"executing"} ELSE {}) :
       Return(o, next)
  /\ RowsUnchanged

-----------------------------------------------------------------------------
(* The endpoint, the reaper, the sweep, and the environment.               *)

RequestCancel(r) ==
  /\ Open(r)
  /\ Cancel(r)
  /\ UNCHANGED inv

\* reap_abandoned_runs settles the abandoned member alone.
BugLeaseOnly(r) == row[r].status \in Executable /\ row[r].lease = "expired"
Abandoned(r) ==
  row[r].status \in Executable /\ (row[r].lease = "expired" \/ row[r].late)

Reap(r) ==
  /\ Abandoned(r)
  /\ Fail(r, "run_abandoned")
  /\ UNCHANGED inv

\* has_live_approval_reservation: also false once a referenced child waits
\* with another batch than the accepted one.
BugAllReached ==
  /\ HasResv
  /\ \A c \in Accepted : ~Awaiting(c)
  /\ resv.owner = row[Root].owner
  /\ row[Root].status = "running" /\ row[Root].lease = "live" /\ ~row[Root].late
LiveReservation ==
  /\ HasResv
  /\ \A c \in Accepted : Awaiting(c) => row[c].batch = resv.batches[c]
  /\ resv.owner = row[Root].owner
  /\ row[Root].status = "running" /\ row[Root].lease = "live" /\ ~row[Root].late

\* The expiry sweep visits a family that has an overdue waiting member.
ExpireApprovals ==
  /\ FamilyDue /\ ~LiveReservation
  /\ \/ HasResv /\ row[Root].status = "running" /\ Fail(Root, "recovery")
     \/ Awaiting(Root) /\ ~HasResv /\ Fail(Root, "approval_expired")
  /\ UNCHANGED inv

LeaseExpires(r) ==
  /\ row[r].lease = "live"
  /\ row' = [row EXCEPT ![r].lease = "expired"]
  /\ UNCHANGED <<delegated, resv, issued, cleanup, grants, inv>>

\* The deadline of the member's current status passes: pending grace, maximum
\* duration, or approval expiry.
BecomesLate(r) ==
  /\ Open(r) /\ ~row[r].late
  /\ row' = [row EXCEPT ![r].late = TRUE]
  /\ UNCHANGED <<delegated, resv, issued, cleanup, grants, inv>>

\* A task dies with its process: the root invocation and the specialist in it.
Crash(o) ==
  /\ inv[o].pc \notin {"free", "released"} /\ inv[o].caller = NoOwner
  /\ inv' = [x \in Owner |->
       IF x = o \/ (inv[x].caller = o)
         THEN Released
         ELSE inv[x]]
  /\ RowsUnchanged

-----------------------------------------------------------------------------
ExecutionStep(o) ==
  \/ Start(o) \/ StartRefused(o)
  \/ ClaimContinuation(o) \/ ClaimRefused(o)
  \/ \E c \in inv[o].todo : ChildRefused(o, c) \/ DelegateNotAllowed(o, c)
  \/ \E c \in Child, o2 \in Owner : CreateChild(o, c, o2) \/ ClaimChild(o, c, o2)
  \/ \E b \in Batch : SuspendRun(o, b)
  \/ SuspendConflict(o) \/ FinaliseSuperseded(o) \/ Succeed(o) \/ Finish(o)

FailureStep(o) ==
  \/ Raise(o) \/ Stop(o) \/ PostCommitFailure(o)
  \/ PersistFailure(o) \/ PersistCancelled(o) \/ SettlementLost(o)

UserStep ==
  \/ \E o \in Owner : CreateRoot(o) \/ Reserve(o)
  \/ ResumeExpired \/ ResumeInvalid
  \/ \E r \in Run : RequestCancel(r)

RecoveryStep == ExpireApprovals \/ \E r \in Run : Reap(r)

EnvironmentStep ==
  \/ \E r \in Run : LeaseExpires(r) \/ BecomesLate(r)
  \/ \E o \in Owner : Crash(o)

Next ==
  \/ \E o \in Owner : ExecutionStep(o) \/ FailureStep(o)
  \/ UserStep \/ RecoveryStep \/ EnvironmentStep

Spec == Init /\ [][Next]_vars

\* Time passes, the reaper and the sweep keep running. Nothing is assumed of
\* invocations or users: a process may die, a person may never answer.
Fairness ==
  /\ \A r \in Run : WF_vars(BecomesLate(r)) /\ WF_vars(Reap(r))
  /\ WF_vars(ExpireApprovals)

FairSpec == Spec /\ Fairness

\* RunFamily implements the lifecycle its callers rely on.
Lifecycle == INSTANCE RunLifecycle WITH status <- [r \in Run |-> row[r].status]

-----------------------------------------------------------------------------
(* Properties.                                                             *)

\* The rows obey the lifecycle of RunLifecycle: every step of every actor is
\* an allowed transition, a specialist advances only while its root is
\* running, and a root ends together with its open specialists.
RefinesLifecycle == Lifecycle!Spec

PC == Active \cup {"free", "delegating", "stopped", "human", "released"}

RowType == [status: Status, owner: Owner \cup {NoOwner},
            lease: {"none", "live", "expired"}, late: BOOLEAN,
            batch: Batch \cup {NoBatch}, code: Code]
ResvType == [owner: Owner \cup {NoOwner}, phase: {"none", "reserved", "started"},
             batches: [Child -> Batch \cup {NoBatch}], claimed: SUBSET Child]
InvType == [pc: PC, run: Run, caller: Owner \cup {NoOwner},
            todo: SUBSET Child, deferred: SUBSET Child]

\* Every row, reservation and invocation record is of its type; codes are
\* those settlement knows how to classify.
TypeOK ==
  /\ row \in [Run -> RowType]
  /\ delegated \subseteq Child
  /\ resv \in ResvType
  /\ issued \subseteq Batch
  /\ cleanup \subseteq Batch
  /\ grants \subseteq Batch \X Owner
  /\ inv \in [Owner -> InvType]

\* No specialist outlives its root: settlement, cancellation, reaping,
\* success, and a child created, resumed or suspended meanwhile by a task
\* that has not noticed, never leave an open child under an ended root.
OpenChildHasOpenRoot == \A c \in Child : Open(c) => Open(Root)

\* Accepted decisions belong to the running owner that was reserved for them:
\* no suspension, settlement or takeover leaves a reservation behind.
ReservationBound ==
  HasResv => row[Root].status = "running" /\ row[Root].owner = resv.owner

\* What the rows, the metadata and the tasks must agree on for the above to be
\* preserved by every step:
\*  - a waiting member and a reserved root hold the batch being decided on;
\*  - an engaged specialist is called by a root invocation that waits for it
\*    and for no other;
\*  - a root invocation past its start owns the running root, or the family
\*    has its verdict.
ApprovalHeld ==
  /\ \A r \in Run : Awaiting(r) => row[r].batch # NoBatch
  /\ HasResv => row[Root].batch # NoBatch /\ resv.owner # NoOwner

Engaged(o) == inv[o].pc \notin {"free", "released"}
CallStack ==
  /\ \A o \in Owner : Engaged(o) /\ inv[o].run # Root =>
       inv[o].caller \in Owner /\ inv[inv[o].caller].pc = "delegating"
                              /\ inv[inv[o].caller].run = Root
  /\ \A o, p \in Owner :
       Engaged(o) /\ inv[o].run # Root /\ Engaged(p) /\ inv[p].run # Root
         /\ inv[o].caller = inv[p].caller => o = p
  /\ \A o \in Owner : inv[o].run # Root =>
       inv[o].todo = {} /\ inv[o].pc \notin {"reserved", "delegating"}
  /\ \A o \in Owner : inv[o].run = Root => inv[o].caller = NoOwner

RootExecutor ==
  \A o \in Owner : inv[o].pc \in {"executing", "delegating"} /\ inv[o].run = Root =>
    IsTerminal(Root) \/ (row[Root].status = "running" /\ row[Root].owner = o)

\* The inductive invariant: every part is preserved by every step given all.
IndInv ==
  /\ TypeOK /\ ApprovalHeld /\ ReservationBound
  /\ CallStack /\ RootExecutor /\ OpenChildHasOpenRoot

\* One set of decisions is executed by one invocation, whatever interleaving
\* of resumes, crashes and retries; and once executed it is never again what
\* a waiting member asks the user to approve.
DecisionsExecutedOnce ==
  /\ \A g, h \in grants : g[1] = h[1] => g = h
  /\ \A r \in Run, g \in grants : Awaiting(r) => row[r].batch # g[1]

\* Staged content has an owner: a batch a suspension has saved is still held
\* by its member, or was handed to an executing invocation, or is queued for
\* cleanup.
StagedContentOwned ==
  \A b \in issued :
    \/ \E r \in Run : Open(r) /\ row[r].batch = b
    \/ \E o \in Owner : <<b, o>> \in grants
    \/ b \in cleanup

\* At most one invocation executes a member, also while the task that
\* suspended it is still winding up and its approval is already resumed.
OneExecutor ==
  \A o, p \in Owner :
    /\ inv[o].pc \in {"executing", "delegating"}
    /\ inv[p].pc \in {"executing", "delegating"}
    /\ inv[o].run = inv[p].run
    => o = p

\* Whatever is approved is executed once: by one invocation, which is the only
\* one at work on its member.
ExecutedOnce == DecisionsExecutedOnce /\ OneExecutor

\* Permission to execute decisions is handed out only for a root that is
\* running, to the owner of its live lease or a specialist that owner calls:
\* never after a verdict, an expiry or a takeover.
GrantsAuthorised ==
  [][\A g \in grants' \ grants :
       LET o == g[2]
           p == IF o = resv.owner THEN o ELSE inv'[o].caller
       IN  row[Root].status = "running" /\ Owns(p, Root) /\ p = resv.owner]_vars

\* The first verdict is authoritative: once a member has ended, neither its
\* status nor its code ever changes.
VerdictAuthoritative ==
  [][\A r \in Run : IsTerminal(r) =>
       row'[r].status = row[r].status /\ row'[r].code = row[r].code]_vars

\* "This approval expired, so the action wasn't taken": a family ends as
\* expired only if no invocation was given any batch it still held.
ExpiredMeansNotTaken ==
  [][row[Root].code # "approval_expired" /\ row'[Root].code = "approval_expired"
     => \A r \in Run, g \in grants : Open(r) => row[r].batch # g[1]]_vars

\* A process that lost its claim cannot end the run it lost: when an
\* invocation settles or finishes, a row owned by another one keeps its state.
StaleOwnerHarmless ==
  [][\A o \in Owner :
       /\ inv[o].pc \notin {"free", "released"}
       /\ inv'[o].pc \in {"released", "suspended", "done"}
       /\ inv'[o].pc # inv[o].pc
       /\ row[inv[o].run].owner \notin {o, NoOwner}
       => row'[inv[o].run] = row[inv[o].run]]_vars

\* Work that was accepted and then interrupted always ends for review, never
\* under a code that says nothing happened.
AcceptedWorkReviewed ==
  [][HasResv /\ row'[Root].status = "failed" =>
       row'[Root].code \in {"recovery", "agent_run_failed"}]_vars

\* The code a family ends with tells the user the truth about what was
\* approved: an expired action was not taken, an interrupted one needs review.
OutcomeTold == ExpiredMeansNotTaken /\ AcceptedWorkReviewed

\* Accepted children the resumed root has not reached yet.
Queued == {c \in Accepted \ resv.claimed :
             Awaiting(c) /\ row[c].batch = resv.batches[c]}

\* "An unexpired reservation protects its referenced queued children from
\* separate approval expiry": while the reserved owner runs on a live lease
\* and the only overdue waits are those of accepted children it has yet to
\* reach, the sweep leaves the family alone. That holds until an accepted
\* child that was resumed waits again, which ends the protection of the rest.
QueuedChildrenProtected ==
  [][/\ HasResv /\ Owns(resv.owner, Root) /\ ~row[Root].late
     /\ \A c \in Accepted : Awaiting(c) => c \in Queued
     /\ \A r \in Run : Awaiting(r) /\ row[r].late => r \in Queued
     => ~ExpireApprovals]_vars

\* Every execution ends, whatever dies or blocks: leases, deadlines and the
\* reaper see to it. Every approval wait ends too (reap_abandoned_runs,
\* sweep_expired_agent_run_approvals).
ExecutionEnds == \A r \in Run :
  (row[r].status \in Executable) ~> (row[r].status \notin Executable)
WaitsEnd == \A r \in Run : Awaiting(r) ~> ~Awaiting(r)
NothingHangs == ExecutionEnds /\ WaitsEnd

=============================================================================
