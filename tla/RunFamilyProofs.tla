-------------------------- MODULE RunFamilyProofs --------------------------
(* Theorems of RunFamily for any number of specialists, invocations and    *)
(* batches.                                                                *)
EXTENDS RunFamily, TLAPS

-----------------------------------------------------------------------------
(* What the building blocks of the actions preserve.                       *)

LEMMA NoResvType == NoResv \in ResvType
  BY DEF NoResv, ResvType

\* Settling a member keeps rows, metadata and cleanup queue typed.
LEMMA SettleType ==
  ASSUME TypeOK, NEW r \in Run, NEW status \in Terminal, NEW code \in Code,
         SettleAs(r, status, code)
  PROVE  /\ row' \in [Run -> RowType]
         /\ delegated' \subseteq Child
         /\ resv' \in ResvType
         /\ issued' \subseteq Batch
         /\ cleanup' \subseteq Batch
         /\ grants' \subseteq Batch \X Owner
<1>1. row' \in [Run -> RowType]
  <2>1. SUFFICES ASSUME NEW m \in Run PROVE row'[m] \in RowType
    BY DEF SettleAs
  <2>2. row[m] \in RowType
    BY DEF TypeOK
  <2>3. status \in Status /\ "none" \in Code /\ "parent_terminated" \in Code
    BY DEF Status, Code
  <2>4. CASE m \notin Settled(r)
    BY <2>2, <2>4 DEF SettleAs
  <2>5. CASE m \in Settled(r)
    BY <2>2, <2>3, <2>5 DEF SettleAs, RowType
  <2> QED BY <2>4, <2>5
<1>2. cleanup' \subseteq Batch
  <2>1. \A m \in Settled(r) : m \in Run
    BY DEF Settled, Members
  <2>2. HeldBatches(r) \subseteq Batch
    BY <2>1 DEF TypeOK, HeldBatches, RowType
  <2> QED BY <2>2 DEF SettleAs, TypeOK
<1>3. resv' \in ResvType /\ delegated' \subseteq Child
  BY NoResvType DEF SettleAs, TypeOK
<1> QED BY <1>1, <1>2, <1>3 DEF SettleAs, TypeOK

\* A failure is a settlement under one of the codes.
LEMMA FailSettles ==
  ASSUME TypeOK, NEW r \in Run, NEW code \in Code, Fail(r, code)
  PROVE  \E verdict \in Code : SettleAs(r, "failed", verdict)
  BY DEF Fail, Verdicts, Code, InterruptionCodes

LEMMA FreeInvType == FreeInv \in InvType /\ Released \in InvType
  BY DEF FreeInv, Released, InvType, PC, Run, Active

\* Returning to the caller keeps the invocation records typed.
LEMMA ReturnType ==
  ASSUME TypeOK, NEW o \in Owner, NEW next \in PC, Return(o, next)
  PROVE  inv' \in [Owner -> InvType]
  BY FreeInvType DEF TypeOK, Return, InvType

-----------------------------------------------------------------------------
(* Type correctness.                                                       *)

\* A step that only moves invocation records.
LEMMA OnlyInvType ==
  ASSUME TypeOK, RowsUnchanged, inv' \in [Owner -> InvType]
  PROVE  TypeOK'
  BY DEF TypeOK, RowsUnchanged

\* A step that settles a member and moves invocation records.
LEMMA FailType ==
  ASSUME TypeOK, NEW r \in Run, NEW code \in Code, Fail(r, code),
         inv' \in [Owner -> InvType]
  PROVE  TypeOK'
<1>1. PICK verdict \in Code : SettleAs(r, "failed", verdict)
  BY FailSettles
<1>2. "failed" \in Terminal
  BY DEF Terminal
<1> QED BY <1>1, <1>2, SettleType DEF TypeOK

LEMMA CancelType ==
  ASSUME TypeOK, NEW r \in Run, Cancel(r), inv' \in [Owner -> InvType]
  PROVE  TypeOK'
<1>1. "cancelled" \in Terminal /\ "none" \in Code
  BY DEF Terminal, Code
<1>2. SettleAs(r, "cancelled", "none")
  BY DEF Cancel
<1> QED BY <1>1, <1>2, SettleType DEF TypeOK

\* Changing one row or one invocation record keeps the map typed.
LEMMA RowUpdate ==
  ASSUME TypeOK, NEW r \in Run, NEW new \in RowType,
         row' = [row EXCEPT ![r] = new]
  PROVE  row' \in [Run -> RowType]
  BY DEF TypeOK

LEMMA InvocationType ==
  ASSUME NEW pc \in PC, NEW r \in Run, NEW caller \in Owner \cup {NoOwner},
         NEW todo \in SUBSET Child
  PROVE  Invocation(pc, r, caller, todo) \in InvType
  BY DEF Invocation, FreeInv, InvType

LEMMA PcType ==
  ASSUME TypeOK, NEW o \in Owner, NEW pc \in PC, inv' = [inv EXCEPT ![o].pc = pc]
  PROVE  inv' \in [Owner -> InvType]
  BY DEF TypeOK, InvType

LEMMA ResumptionType ==
  ASSUME NEW old \in RowType, NEW o \in Owner
  PROVE  Resumption(old, o) \in RowType
  BY DEF Resumption, RowType, Status, Executable

LEMMA ExecutionStepType ==
  ASSUME TypeOK, ApprovalHeld, CallStack, NEW o \in Owner, ExecutionStep(o)
  PROVE  TypeOK'
<1> USE DEF InvType
<1>0. /\ inv[o].run \in Run /\ inv[o].caller \in Owner \cup {NoOwner}
      /\ row[inv[o].run] \in RowType
  BY DEF TypeOK
<1>1. CASE Start(o)
  <2> DEFINE new == [row[inv[o].run] EXCEPT
                       !.status = "running", !.owner = o, !.lease = "live"]
  <2>0. new \in RowType
    BY <1>0 DEF RowType, Status, Executable
  <2>1. row' \in [Run -> RowType]
    BY <1>0, <1>1, <2>0, RowUpdate DEF Start
  <2>2. inv' \in [Owner -> InvType]
    BY <1>1 DEF Start, TypeOK, PC, Active
  <2> QED BY <1>1, <2>1, <2>2 DEF Start, TypeOK
<1>2. CASE StartRefused(o)
  BY <1>2, ReturnType, OnlyInvType DEF StartRefused, TypeOK, PC, Active
<1>3. CASE ClaimContinuation(o)
  <2>1. row[Root].batch \in Batch
    BY <1>3 DEF ClaimContinuation, CanClaim, ApprovalHeld, HasResv, TypeOK, Run, RowType
  <2>2. grants' \subseteq Batch \X Owner
    BY <1>3, <2>1 DEF ClaimContinuation, TypeOK
  <2>3. resv' \in ResvType
    BY <1>3 DEF ClaimContinuation, TypeOK, ResvType
  <2>4. inv' \in [Owner -> InvType]
    BY <1>3 DEF ClaimContinuation, TypeOK, Accepted, PC, Active
  <2> QED BY <1>3, <2>2, <2>3, <2>4 DEF ClaimContinuation, TypeOK
<1>4. CASE ClaimRefused(o)
  BY <1>4, PcType, OnlyInvType DEF ClaimRefused, PC, Active
<1>5. ASSUME NEW c \in inv[o].todo, ChildRefused(o, c) PROVE TypeOK'
  BY <1>5, PcType, OnlyInvType DEF ChildRefused, PC, Active
<1>6. ASSUME NEW c \in inv[o].todo, DelegateNotAllowed(o, c) PROVE TypeOK'
  BY <1>6, FailType DEF DelegateNotAllowed, TypeOK, PC, Active, Code, Run
<1>7. ASSUME NEW c \in Child, NEW p \in Owner, CreateChild(o, c, p) PROVE TypeOK'
  <2>0. [BlankRow EXCEPT !.status = "pending"] \in RowType
    BY DEF RowType, Status, Executable, BlankRow, Code
  <2>1. row' \in [Run -> RowType]
    BY <1>7, <2>0, RowUpdate DEF CreateChild, Run
  <2>2. Invocation("queued", c, o, {}) \in InvType
    BY InvocationType DEF PC, Active, Run
  <2>3. inv' \in [Owner -> InvType]
    BY <1>7, <2>2 DEF CreateChild, TypeOK, PC, Active
  <2> QED BY <1>7, <2>1, <2>3 DEF CreateChild, TypeOK
<1>8. ASSUME NEW c \in Child, NEW p \in Owner, ClaimChild(o, c, p) PROVE TypeOK'
  <2>0. row[c] \in RowType /\ c \in Run /\ Awaiting(c)
    BY <1>8 DEF TypeOK, Run, ClaimChild, CanClaimChild
  <2>1. row' \in [Run -> RowType]
    BY <1>8, <2>0, ResumptionType, RowUpdate DEF ClaimChild
  <2>2. row[c].batch \in Batch
    BY <2>0 DEF ApprovalHeld, RowType
  <2>3. resv' \in ResvType
    BY <1>8 DEF ClaimChild, TypeOK, ResvType
  <2>4. Invocation("claimed", c, o, {}) \in InvType
    BY <2>0, InvocationType DEF PC, Active
  <2>5. inv' \in [Owner -> InvType]
    BY <1>8, <2>4 DEF ClaimChild, TypeOK, PC, Active
  <2>6. grants' \subseteq Batch \X Owner
    BY <1>8, <2>2 DEF ClaimChild, TypeOK
  <2> QED BY <1>8, <2>1, <2>3, <2>5, <2>6 DEF ClaimChild, TypeOK
<1>9. ASSUME NEW b \in Batch, SuspendRun(o, b) PROVE TypeOK'
  <2> DEFINE new == [row[inv[o].run] EXCEPT !.status = "awaiting_approval",
                       !.lease = "none", !.late = FALSE, !.batch = b]
  <2>0. new \in RowType
    BY <1>0 DEF RowType, Status
  <2>1. row' \in [Run -> RowType]
    BY <1>0, <1>9, <2>0, RowUpdate DEF SuspendRun
  <2>2. delegated' \subseteq Child /\ resv' \in ResvType
    BY <1>9, NoResvType DEF SuspendRun, TypeOK
  <2>3. inv' \in [Owner -> InvType]
    BY <1>9 DEF SuspendRun, TypeOK, PC, Active
  <2> QED BY <1>9, <2>1, <2>2, <2>3 DEF SuspendRun, TypeOK
<1>10. CASE SuspendConflict(o)
  BY <1>10, PcType, OnlyInvType DEF SuspendConflict, PC, Active
<1>11. CASE FinaliseSuperseded(o)
  BY <1>11, ReturnType, OnlyInvType DEF FinaliseSuperseded, PC, Active
<1>12. CASE Succeed(o)
  <2>1. inv' \in [Owner -> InvType]
    BY <1>12 DEF Succeed, TypeOK, PC, Active
  <2>2. CASE Fail(Root, "delegation_requires_recovery")
    BY <2>1, <2>2, FailType DEF Code, InterruptionCodes, Run
  <2>3. CASE ~Fail(Root, "delegation_requires_recovery")
    <3> DEFINE new == [row[inv[o].run] EXCEPT !.status = "completed",
                         !.lease = "none", !.late = FALSE, !.batch = NoBatch]
    <3>0. new \in RowType
      BY <1>0 DEF RowType, Status, Terminal
    <3>1. row' \in [Run -> RowType]
      BY <1>0, <1>12, <2>3, <3>0, RowUpdate DEF Succeed
    <3>2. resv' \in ResvType /\ delegated' \subseteq Child
      BY <1>12, <2>3, NoResvType DEF Succeed, TypeOK
    <3> QED BY <1>12, <2>1, <2>3, <3>1, <3>2 DEF Succeed, TypeOK
  <2> QED BY <2>2, <2>3
<1>13. CASE Finish(o)
  <2>1. ASSUME NEW x \in Owner PROVE inv'[x] \in InvType
    <3>1. inv[x] \in InvType
      BY DEF TypeOK
    <3>2. CASE x = o
      BY <1>13, <3>2, FreeInvType DEF Finish
    <3>3. CASE x # o /\ x = inv[o].caller
      <4>1. inv[o].run \in Child
        BY <1>0, <3>3, OwnerAssumption DEF CallStack, Run
      <4> QED BY <1>13, <3>1, <3>3, <4>1 DEF Finish, PC, Active
    <3>4. CASE x # o /\ x # inv[o].caller
      BY <1>13, <3>1, <3>4 DEF Finish
    <3> QED BY <3>2, <3>3, <3>4
  <2> QED BY <1>13, <2>1, OnlyInvType DEF Finish
<1> QED BY <1>1, <1>2, <1>3, <1>4, <1>5, <1>6, <1>7, <1>8, <1>9, <1>10, <1>11,
           <1>12, <1>13 DEF ExecutionStep

LEMMA FailureStepType ==
  ASSUME TypeOK, NEW o \in Owner, FailureStep(o)
  PROVE  TypeOK'
<1> USE DEF RowType, InvType
<1>0. inv[o].run \in Run
  BY DEF TypeOK
<1>1. CASE Raise(o)
  BY <1>1, PcType, OnlyInvType DEF Raise, PC, Active
<1>2. CASE Stop(o)
  <2>1. PICK kind \in {"stopped", "human"} :
          \/ Return(o, kind)
          \/ inv' = [inv EXCEPT ![o].pc = kind]
    BY <1>2 DEF Stop, StopKinds
  <2>2. inv' \in [Owner -> InvType]
    BY <2>1, ReturnType DEF TypeOK, PC
  <2> QED BY <1>2, <2>2, OnlyInvType DEF Stop
<1>3. CASE PostCommitFailure(o)
  BY <1>3, PcType, OnlyInvType DEF PostCommitFailure, PC, Active
<1>4. CallerNext(o) \subseteq PC
  BY DEF CallerNext, PC, Active
<1>5. CASE PersistFailure(o)
  <2>1. inv' \in [Owner -> InvType]
    BY <1>4, <1>5, ReturnType DEF PersistFailure
  <2>2. FailureCode(inv[o].pc) \in Code
    BY DEF FailureCode, Code, InterruptionCodes
  <2> QED BY <1>0, <1>5, <2>1, <2>2, FailType, OnlyInvType DEF PersistFailure
<1>6. CASE PersistCancelled(o)
  <2>1. inv' \in [Owner -> InvType]
    BY <1>6, ReturnType DEF PersistCancelled, PC
  <2> QED BY <1>0, <1>6, <2>1, CancelType, OnlyInvType DEF PersistCancelled
<1>7. CASE SettlementLost(o)
  <2>1. inv' \in [Owner -> InvType]
    BY <1>4, <1>7, ReturnType DEF SettlementLost
  <2> QED BY <1>7, <2>1, OnlyInvType DEF SettlementLost
<1> QED BY <1>1, <1>2, <1>3, <1>5, <1>6, <1>7 DEF FailureStep

LEMMA OtherStepType ==
  ASSUME TypeOK, UserStep \/ RecoveryStep \/ EnvironmentStep
  PROVE  TypeOK'
<1> USE DEF RowType, InvType
<1>0. Root \in Run /\ {"recovery", "approval_expired", "run_abandoned"} \subseteq Code
  BY DEF Run, Code, InterruptionCodes
<1>1. ASSUME NEW o \in Owner, CreateRoot(o) PROVE TypeOK'
  <2>0. [BlankRow EXCEPT !.status = "pending", !.owner = o, !.lease = "live"]
          \in RowType
    BY DEF Status, Executable, BlankRow, Code
  <2>1. row' \in [Run -> RowType]
    BY <1>0, <1>1, <2>0, RowUpdate DEF CreateRoot
  <2>2. Invocation("queued", Root, NoOwner, {}) \in InvType
    BY InvocationType DEF PC, Active, Run
  <2> QED BY <1>1, <2>1, <2>2 DEF CreateRoot, TypeOK
<1>2. ASSUME NEW o \in Owner, Reserve(o) PROVE TypeOK'
  <2>1. row' \in [Run -> RowType]
    BY <1>0, <1>2, ResumptionType, RowUpdate DEF Reserve, TypeOK
  <2>2. Invocation("reserved", Root, NoOwner, {}) \in InvType
    BY InvocationType DEF PC, Active, Run
  <2>3. resv' \in ResvType
    BY <1>2 DEF Reserve, TypeOK, ResvType, Run
  <2> QED BY <1>2, <2>1, <2>2, <2>3 DEF Reserve, TypeOK
<1>3. CASE ResumeExpired
  BY <1>0, <1>3, FailType DEF ResumeExpired, TypeOK
<1>4. CASE ResumeInvalid
  BY <1>0, <1>4, FailType DEF ResumeInvalid, TypeOK
<1>5. ASSUME NEW r \in Run, RequestCancel(r) PROVE TypeOK'
  BY <1>5, CancelType DEF RequestCancel, TypeOK
<1>6. CASE ExpireApprovals
  BY <1>0, <1>6, FailType DEF ExpireApprovals, TypeOK
<1>7. ASSUME NEW r \in Run, Reap(r) PROVE TypeOK'
  BY <1>0, <1>7, FailType DEF Reap, TypeOK
<1>8. ASSUME NEW r \in Run, LeaseExpires(r) PROVE TypeOK'
  BY <1>8 DEF LeaseExpires, TypeOK
<1>9. ASSUME NEW r \in Run, BecomesLate(r) PROVE TypeOK'
  BY <1>9 DEF BecomesLate, TypeOK
<1>10. ASSUME NEW o \in Owner, Crash(o) PROVE TypeOK'
  BY <1>10, FreeInvType, OnlyInvType DEF Crash, TypeOK
<1> QED BY <1>1, <1>2, <1>3, <1>4, <1>5, <1>6, <1>7, <1>8, <1>9, <1>10
        DEF UserStep, RecoveryStep, EnvironmentStep

-----------------------------------------------------------------------------
(* The call stack of invocations.                                          *)

\* A step starts no execution of the root.
NoNewRootExecutor ==
  \A x \in Owner :
    inv'[x].pc \in {"executing", "delegating"} /\ inv'[x].run = Root =>
      inv[x].pc \in {"executing", "delegating"} /\ inv[x].run = Root

\* An invocation that no specialist waits in goes on, without delegating.
LEMMA MoveKeepsStack ==
  ASSUME TypeOK, CallStack, NEW o \in Owner, NEW new \in InvType,
         inv[o].pc \notin {"free", "released", "delegating"},
         new.pc \notin {"reserved", "delegating"},
         new.run = inv[o].run, new.caller = inv[o].caller,
         new.run # Root => new.todo = {},
         inv' = [inv EXCEPT ![o] = new]
  PROVE  CallStack'
  BY DEF TypeOK, CallStack, Engaged, InvType

\* An invocation ends; its caller, if it has one, is no longer delegating.
LEMMA EndKeepsStack ==
  ASSUME TypeOK, CallStack, NEW o \in Owner,
         inv[o].pc \notin {"free", "released", "delegating"},
         inv'[o] = Released,
         \A x \in Owner \ {o, inv[o].caller} : inv'[x] = inv[x],
         inv[o].caller \in Owner \ {o} =>
           LET p == inv[o].caller
           IN  /\ inv'[p].pc \notin {"free", "released", "reserved", "delegating"}
               /\ inv'[p].run = inv[p].run /\ inv'[p].caller = inv[p].caller
  PROVE  CallStack' /\ NoNewRootExecutor
<1>1. /\ inv'[o].pc = "released"
      /\ inv'[o].run = Root /\ inv'[o].caller = NoOwner
  BY DEF Released, FreeInv
<1>2. CASE inv[o].run = Root
  <2>1. inv[o].caller \notin Owner
    BY <1>2, OwnerAssumption DEF CallStack
  <2>2. \A x \in Owner \ {o} : inv'[x] = inv[x]
    BY <2>1
  <2>3. CallStack'
    BY <1>1, <1>2, <2>2 DEF CallStack, Engaged
  <2> QED BY <1>1, <2>2, <2>3 DEF NoNewRootExecutor
<1>3. CASE inv[o].run # Root
  <2> DEFINE p == inv[o].caller
  <2>1. p \in Owner /\ inv[p].pc = "delegating" /\ inv[p].run = Root /\ p # o
    BY <1>3 DEF CallStack, Engaged
  <2>2. /\ inv'[p].pc \notin {"free", "released", "reserved", "delegating"}
        /\ inv'[p].run = Root /\ inv'[p].caller = NoOwner
    BY <2>1 DEF CallStack
  <2>3. \A x \in Owner :
          Engaged(x) /\ inv[x].run # Root /\ inv[x].caller = p => x = o
    BY <1>3 DEF CallStack, Engaged
  <2>4. CallStack'
    BY <1>1, <2>1, <2>2, <2>3 DEF CallStack, Engaged
  <2>5. NoNewRootExecutor
    BY <1>1, <2>1, <2>2 DEF NoNewRootExecutor
  <2> QED BY <2>4, <2>5
<1> QED BY <1>2, <1>3

LEMMA ReturnKeepsStack ==
  ASSUME TypeOK, CallStack, NEW o \in Owner, NEW next \in PC,
         inv[o].pc \notin {"free", "released", "delegating"},
         next \notin {"free", "released", "reserved", "delegating"},
         Return(o, next)
  PROVE  CallStack' /\ NoNewRootExecutor
<1>1. inv'[o] = Released
  BY DEF Return
<1>2. \A x \in Owner \ {o, inv[o].caller} : inv'[x] = inv[x]
  BY DEF Return
<1>3. ASSUME NEW p \in Owner \ {o}, p = inv[o].caller
      PROVE  inv'[p].pc = next /\ inv'[p].run = inv[p].run
             /\ inv'[p].caller = inv[p].caller
  <2>1. inv'[p] = [inv[p] EXCEPT !.pc = next]
    BY <1>3 DEF Return
  <2> QED BY <2>1 DEF TypeOK, InvType
<1> QED BY <1>1, <1>2, <1>3, EndKeepsStack

\* A free invocation becomes one of the root.
LEMMA SpawnKeepsStack ==
  ASSUME TypeOK, CallStack, NEW o \in Owner, FreeOwner(o),
         NEW pc \in {"queued", "reserved"},
         inv' = [inv EXCEPT ![o] = Invocation(pc, Root, NoOwner, {})]
  PROVE  CallStack' /\ NoNewRootExecutor
<1>1. /\ inv'[o].pc = pc /\ inv'[o].run = Root /\ inv'[o].caller = NoOwner
  BY DEF TypeOK, Invocation, FreeInv
<1>2. \A x \in Owner \ {o} : inv'[x] = inv[x]
  BY DEF TypeOK
<1>3. CallStack'
  BY <1>1, <1>2 DEF CallStack, Engaged, FreeOwner
<1> QED BY <1>1, <1>2, <1>3 DEF NoNewRootExecutor

\* A root invocation calls a specialist in a free invocation.
LEMMA CallKeepsStack ==
  ASSUME TypeOK, CallStack, NEW o \in Owner, NEW p \in Owner, NEW c \in Child,
         inv[o].pc = "executing", inv[o].run = Root, FreeOwner(p),
         NEW new \in InvType, new.pc = "delegating", new.run = Root,
         new.caller = NoOwner, NEW pc \in {"queued", "claimed"},
         inv' = [inv EXCEPT ![o] = new, ![p] = Invocation(pc, c, o, {})]
  PROVE  CallStack' /\ NoNewRootExecutor
<1>0. \A x \in Owner : Engaged(x)' = (inv'[x].pc \notin {"free", "released"})
  BY DEF Engaged
<1>1. /\ inv'[p].pc = pc /\ inv'[p].run = c /\ inv'[p].caller = o
      /\ inv'[p].todo = {}
  BY DEF TypeOK, Invocation, FreeInv
<1>2. o # p /\ inv'[o] = new
  BY DEF TypeOK, FreeOwner
<1>3. \A x \in Owner \ {o, p} : inv'[x] = inv[x]
  BY DEF TypeOK
<1>4. c # Root
  BY RootAssumption
<1>5. \A x \in Owner : Engaged(x) /\ inv[x].run # Root => inv[x].caller \notin {o, p}
  BY DEF CallStack, FreeOwner
<1>6. CallStack'
  <2>0. \A x \in Owner \ {o, p} : Engaged(x)' = Engaged(x)
    BY <1>0, <1>3 DEF Engaged
  <2>1. \A x \in Owner : Engaged(x)' /\ inv'[x].run # Root =>
          /\ inv'[x].caller \in Owner
          /\ inv'[inv'[x].caller].pc = "delegating"
          /\ inv'[inv'[x].caller].run = Root
    <3> SUFFICES ASSUME NEW x \in Owner, Engaged(x)', inv'[x].run # Root
                 PROVE  /\ inv'[x].caller \in Owner
                        /\ inv'[inv'[x].caller].pc = "delegating"
                        /\ inv'[inv'[x].caller].run = Root
      OBVIOUS
    <3>1. CASE x = p
      BY <3>1, <1>1, <1>2
    <3>2. CASE x # p
      <4>1. x \in Owner \ {o, p} /\ inv'[x] = inv[x] /\ Engaged(x)
        BY <3>2, <1>2, <1>3, <2>0
      <4>2. inv[x].caller \in Owner \ {o, p}
            /\ inv[inv[x].caller].pc = "delegating"
            /\ inv[inv[x].caller].run = Root
        BY <4>1, <1>5 DEF CallStack
      <4> QED BY <4>1, <4>2, <1>3
    <3> QED BY <3>1, <3>2
  <2>2. \A x, y \in Owner :
          Engaged(x)' /\ inv'[x].run # Root /\ Engaged(y)' /\ inv'[y].run # Root
            /\ inv'[x].caller = inv'[y].caller => x = y
    <3> SUFFICES ASSUME NEW x \in Owner, NEW y \in Owner, Engaged(x)', Engaged(y)',
                        inv'[x].run # Root, inv'[y].run # Root, x # y
                 PROVE  inv'[x].caller # inv'[y].caller
      OBVIOUS
    <3>1. \A z \in {x, y} : z # p => inv'[z] = inv[z] /\ Engaged(z) /\ inv[z].run # Root
      BY <1>2, <1>3, <2>0
    <3>2. CASE x = p \/ y = p
      BY <3>1, <3>2, <1>1, <1>5
    <3>3. CASE x # p /\ y # p
      BY <3>1, <3>3 DEF CallStack
    <3> QED BY <3>2, <3>3
  <2>3. \A x \in Owner : inv'[x].run # Root =>
          inv'[x].todo = {} /\ inv'[x].pc \notin {"reserved", "delegating"}
    BY <1>1, <1>2, <1>3 DEF CallStack
  <2>4. \A x \in Owner : inv'[x].run = Root => inv'[x].caller = NoOwner
    BY <1>1, <1>2, <1>3, <1>4 DEF CallStack
  <2> QED BY <2>1, <2>2, <2>3, <2>4 DEF CallStack
<1>7. NoNewRootExecutor
  BY <1>1, <1>3, <1>4 DEF NoNewRootExecutor
<1> QED BY <1>6, <1>7

\* The process of a root invocation dies, with the specialist in it.
LEMMA CrashKeepsStack ==
  ASSUME TypeOK, CallStack, NEW o \in Owner, Crash(o)
  PROVE  CallStack' /\ NoNewRootExecutor
<1> DEFINE dead == {x \in Owner : x = o \/ inv[x].caller = o}
<1>1. \A x \in dead : inv'[x].pc = "released" /\ inv'[x].run = Root
                      /\ inv'[x].caller = NoOwner
  BY DEF Crash, Released, FreeInv
<1>2. \A x \in Owner \ dead : inv'[x] = inv[x]
  BY DEF Crash
<1>3. inv[o].run = Root
  BY OwnerAssumption DEF Crash, CallStack, Engaged
<1>4. \A x \in Owner \ dead : Engaged(x) /\ inv[x].run # Root =>
        inv[x].caller \in Owner \ dead
  <2> SUFFICES ASSUME NEW x \in Owner \ dead, Engaged(x), inv[x].run # Root
               PROVE  inv[x].caller \in Owner \ dead
    OBVIOUS
  <2>1. inv[x].caller \in Owner /\ inv[inv[x].caller].run = Root
    BY DEF CallStack
  <2>2. inv[inv[x].caller].caller = NoOwner
    BY <2>1 DEF CallStack
  <2> QED BY <2>1, <2>2, OwnerAssumption
<1>5. CallStack'
  BY <1>1, <1>2, <1>4 DEF CallStack, Engaged
<1> QED BY <1>1, <1>2, <1>5 DEF NoNewRootExecutor

-----------------------------------------------------------------------------
(* The rest of the invariant: rows, reservation and root executor.         *)

\* The parts of IndInv about the rows.
Rows == ApprovalHeld /\ ReservationBound /\ OpenChildHasOpenRoot

\* The root is as before, or the family has its verdict.
RootKept == row'[Root] = row[Root] \/ IsTerminal(Root)'

\* A root that ends or keeps its row has no new executor to worry about.
LEMMA ExecutorKept ==
  ASSUME RootExecutor, NoNewRootExecutor, RootKept,
         IsTerminal(Root) => IsTerminal(Root)'
  PROVE  RootExecutor'
  BY DEF RootExecutor, NoNewRootExecutor, RootKept, IsTerminal

\* Nor has one whose status and owner stay the same.
LEMMA ExecutorSame ==
  ASSUME RootExecutor, NoNewRootExecutor,
         row'[Root].status = row[Root].status, row'[Root].owner = row[Root].owner
  PROVE  RootExecutor'
  BY DEF RootExecutor, NoNewRootExecutor, IsTerminal

\* Steps of invocations that leave the rows alone.
LEMMA QuietRows ==
  ASSUME Rows, RowsUnchanged
  PROVE  Rows' /\ row' = row
  BY DEF Rows, RowsUnchanged, ApprovalHeld, ReservationBound, HasResv, Awaiting,
         OpenChildHasOpenRoot, IsTerminal, Open, Exists

\* A settlement keeps all of it: it ends the open members it covers, and
\* drops the reservation exactly when the root is one of them.
LEMMA SettleRows ==
  ASSUME TypeOK, Rows, NEW r \in Run, NEW status \in Terminal, NEW code \in Code,
         SettleAs(r, status, code)
  PROVE  Rows' /\ RootKept /\ (IsTerminal(Root) => IsTerminal(Root)')
<1>1. \A m \in Run \ Settled(r) : row'[m] = row[m]
  BY DEF SettleAs
<1>2. \A m \in Run \cap Settled(r) : row'[m].status = status
  BY DEF SettleAs, TypeOK, RowType
<1>3. Root \in Run /\ Child \subseteq Run
  BY DEF Run
<1>4. status \notin {"awaiting_approval", "absent"}
  BY DEF Terminal
<1>5. \A m \in Run : Awaiting(m)' => row'[m] = row[m]
  BY <1>1, <1>2, <1>4 DEF Awaiting
<1>6. HasResv' => row'[Root] = row[Root] /\ resv' = resv
  <2>1. NoResv.phase = "none"
    BY DEF NoResv
  <2>2. CASE ClearsReservation(r)
    BY <2>1, <2>2 DEF SettleAs, HasResv
  <2>3. CASE ~ClearsReservation(r)
    BY <2>3, <1>1, <1>3 DEF SettleAs, ClearsReservation
  <2> QED BY <2>2, <2>3
<1>7. ApprovalHeld'
  <2>1. \A m \in Run : Awaiting(m)' => row'[m].batch # NoBatch
    BY <1>5 DEF Rows, ApprovalHeld, Awaiting
  <2>2. HasResv' => row'[Root].batch # NoBatch /\ resv'.owner # NoOwner
    BY <1>6 DEF Rows, ApprovalHeld, HasResv
  <2> QED BY <2>1, <2>2 DEF ApprovalHeld
<1>8. ReservationBound'
  BY <1>6 DEF Rows, ReservationBound, HasResv
<1>9. IsTerminal(Root) => Root \notin Settled(r) /\ row'[Root] = row[Root]
  BY <1>1, <1>3 DEF Settled, Open
<1>10. OpenChildHasOpenRoot'
  <2> SUFFICES ASSUME ~Open(Root)', NEW c \in Child PROVE ~Open(c)'
    BY DEF OpenChildHasOpenRoot
  <2>1. ~Open(c) => c \notin Settled(r)
    BY DEF Settled
  <2>2. CASE ~Open(c)
    BY <2>1, <2>2, <1>1, <1>3 DEF Open, Exists, IsTerminal
  <2>3. CASE Open(c)
    <3>1. Open(Root)
      BY <2>3 DEF Rows, OpenChildHasOpenRoot
    <3>2. Root \in Settled(r)
      BY <3>1, <1>1, <1>3 DEF Open, Exists, IsTerminal
    <3>3. r = Root
      BY <3>2 DEF Settled, Members
    <3>4. c \in Settled(r)
      BY <3>3, <2>3, <1>3 DEF Settled, Members
    <3>5. row'[c].status = status
      BY <3>4, <1>2, <1>3
    <3> QED BY <3>5 DEF Open, IsTerminal
  <2> QED BY <2>2, <2>3
<1>11. RootKept
  BY <1>1, <1>2, <1>3 DEF RootKept, IsTerminal
<1> QED BY <1>7, <1>8, <1>9, <1>10, <1>11 DEF Rows, IsTerminal

\* So do the failures and cancellations, whatever the invocations do then.
LEMMA FailRows ==
  ASSUME TypeOK, Rows, RootExecutor, NoNewRootExecutor,
         NEW r \in Run, NEW code \in Code, Fail(r, code)
  PROVE  Rows' /\ RootExecutor'
<1>1. PICK verdict \in Code : SettleAs(r, "failed", verdict)
  BY FailSettles
<1>2. "failed" \in Terminal
  BY DEF Terminal
<1> QED BY <1>1, <1>2, SettleRows, ExecutorKept

LEMMA CancelRows ==
  ASSUME TypeOK, Rows, RootExecutor, NoNewRootExecutor, NEW r \in Run, Cancel(r)
  PROVE  Rows' /\ RootExecutor'
<1>1. "cancelled" \in Terminal /\ "none" \in Code
  BY DEF Terminal, Code
<1>2. SettleAs(r, "cancelled", "none")
  BY DEF Cancel
<1> QED BY <1>1, <1>2, SettleRows, ExecutorKept

\* Steps of invocations that leave the rows alone keep the whole invariant.
LEMMA QuietStep ==
  ASSUME Rows, RootExecutor, NoNewRootExecutor, CallStack', RowsUnchanged
  PROVE  CallStack' /\ Rows' /\ RootExecutor'
  BY QuietRows, ExecutorSame DEF RowsUnchanged

LEMMA FailureStepInv ==
  ASSUME TypeOK, CallStack, Rows, RootExecutor, NEW o \in Owner, FailureStep(o)
  PROVE  CallStack' /\ Rows' /\ RootExecutor'
<1>0. inv[o].run \in Run /\ inv[o] \in InvType
  BY DEF TypeOK, InvType
<1>1. ASSUME NEW pc \in {"error", "interrupted", "stopped", "human"},
             inv' = [inv EXCEPT ![o].pc = pc],
             inv[o].pc \notin {"free", "released", "delegating"}
      PROVE  CallStack' /\ NoNewRootExecutor
  <2> DEFINE new == [inv[o] EXCEPT !.pc = pc]
  <2>1. new \in InvType /\ new.pc = pc /\ new.run = inv[o].run
        /\ new.caller = inv[o].caller /\ new.todo = inv[o].todo
    BY <1>0 DEF InvType, PC, Active
  <2>2. inv' = [inv EXCEPT ![o] = new]
    BY <1>1 DEF TypeOK
  <2>3. new.run # Root => new.todo = {}
    BY <2>1 DEF CallStack
  <2>4. CallStack'
    BY <1>1, <2>1, <2>2, <2>3, MoveKeepsStack
  <2>5. NoNewRootExecutor
    BY <1>1, <2>1, <2>2 DEF NoNewRootExecutor, TypeOK
  <2> QED BY <2>4, <2>5
<1>2. CASE Raise(o)
  BY <1>2, <1>1, QuietStep DEF Raise
<1>3. CASE Stop(o)
  <2>1. PICK kind \in {"stopped", "human"} :
          \/ Return(o, kind)
          \/ inv' = [inv EXCEPT ![o].pc = kind]
    BY <1>3 DEF Stop, StopKinds
  <2>2. inv[o].pc \notin {"free", "released", "delegating"} /\ RowsUnchanged
    BY <1>3 DEF Stop, Active
  <2>3. CASE Return(o, kind)
    BY <2>2, <2>3, ReturnKeepsStack, QuietStep DEF PC
  <2>4. CASE inv' = [inv EXCEPT ![o].pc = kind]
    BY <2>2, <2>4, <1>1, QuietStep
  <2> QED BY <2>1, <2>3, <2>4
<1>4. CASE PostCommitFailure(o)
  BY <1>4, <1>1, QuietStep DEF PostCommitFailure
<1>5. \A next \in CallerNext(o) :
        next \in PC \ {"free", "released", "reserved", "delegating"}
  BY DEF CallerNext, PC, Active
<1>6. CASE PersistFailure(o)
  <2>1. CallStack' /\ NoNewRootExecutor
    BY <1>5, <1>6, ReturnKeepsStack DEF PersistFailure
  <2>2. FailureCode(inv[o].pc) \in Code
    BY DEF FailureCode, Code, InterruptionCodes
  <2>3. CASE RowsUnchanged
    BY <2>1, <2>3, QuietStep
  <2>4. CASE Fail(inv[o].run, FailureCode(inv[o].pc))
    BY <1>0, <2>1, <2>2, <2>4, FailRows
  <2> QED BY <1>6, <2>3, <2>4 DEF PersistFailure
<1>7. CASE PersistCancelled(o)
  <2>1. CallStack' /\ NoNewRootExecutor
    BY <1>7, ReturnKeepsStack DEF PersistCancelled, PC
  <2>2. CASE RowsUnchanged
    BY <2>1, <2>2, QuietStep
  <2>3. CASE Cancel(inv[o].run)
    BY <1>0, <2>1, <2>3, CancelRows
  <2> QED BY <1>7, <2>2, <2>3 DEF PersistCancelled
<1>8. CASE SettlementLost(o)
  <2>1. CallStack' /\ NoNewRootExecutor
    BY <1>5, <1>8, ReturnKeepsStack DEF SettlementLost
  <2> QED BY <1>8, <2>1, QuietStep DEF SettlementLost
<1> QED BY <1>2, <1>3, <1>4, <1>6, <1>7, <1>8 DEF FailureStep

\* Steps that leave the invocations alone.
LEMMA IdleInvocations ==
  ASSUME CallStack, inv' = inv
  PROVE  CallStack' /\ NoNewRootExecutor
  BY DEF CallStack, Engaged, NoNewRootExecutor

LEMMA OtherStepInv ==
  ASSUME TypeOK, CallStack, Rows, RootExecutor,
         UserStep \/ RecoveryStep \/ EnvironmentStep
  PROVE  CallStack' /\ Rows' /\ RootExecutor'
<1>0. /\ Root \in Run /\ Child \subseteq Run
      /\ {"recovery", "approval_expired", "run_abandoned"} \subseteq Code
  BY DEF Run, Code, InterruptionCodes
<1>1. ASSUME NEW o \in Owner, CreateRoot(o) PROVE CallStack' /\ Rows' /\ RootExecutor'
  <2>1. CallStack' /\ NoNewRootExecutor
    BY <1>1, SpawnKeepsStack DEF CreateRoot
  <2>2. row'[Root].status = "pending" /\ \A m \in Run \ {Root} : row'[m] = row[m]
    BY <1>0, <1>1 DEF CreateRoot, TypeOK, BlankRow
  <2>3. ~HasResv /\ resv' = resv
    BY <1>1 DEF CreateRoot, Exists, Rows, ReservationBound
  <2>4. Rows'
    BY <2>2, <2>3 DEF Rows, ApprovalHeld, ReservationBound, HasResv, Awaiting,
                      OpenChildHasOpenRoot, Open, Exists, IsTerminal, Terminal
  <2>5. RootExecutor'
    BY <1>1, <2>1, <2>2 DEF CreateRoot, Exists, RootExecutor, NoNewRootExecutor,
                            IsTerminal, Terminal
  <2> QED BY <2>1, <2>4, <2>5
<1>2. ASSUME NEW o \in Owner, Reserve(o) PROVE CallStack' /\ Rows' /\ RootExecutor'
  <2>1. CallStack' /\ NoNewRootExecutor
    BY <1>2, SpawnKeepsStack DEF Reserve
  <2>2. /\ row'[Root].status = "running" /\ row'[Root].owner = o
        /\ row'[Root].batch = row[Root].batch
        /\ \A m \in Run \ {Root} : row'[m] = row[m]
    BY <1>0, <1>2 DEF Reserve, Resumption, TypeOK, RowType
  <2>3. resv'.owner = o
    BY <1>2 DEF Reserve
  <2>4. row[Root].batch # NoBatch /\ Awaiting(Root)
    BY <1>0, <1>2 DEF Reserve, Resumable, Rows, ApprovalHeld
  <2>5. ApprovalHeld'
    BY <2>2, <2>3, <2>4, OwnerAssumption DEF Rows, ApprovalHeld, Awaiting
  <2>6. ReservationBound' /\ OpenChildHasOpenRoot'
    BY <2>2, <2>3 DEF ReservationBound, OpenChildHasOpenRoot, Open, Exists,
                          IsTerminal, Terminal
  <2>7. RootExecutor'
    BY <2>1, <2>4 DEF RootExecutor, NoNewRootExecutor, Awaiting, IsTerminal, Terminal
  <2> QED BY <2>1, <2>5, <2>6, <2>7 DEF Rows
<1>3. CASE ResumeExpired
  BY <1>0, <1>3, IdleInvocations, FailRows DEF ResumeExpired
<1>4. CASE ResumeInvalid
  BY <1>0, <1>4, IdleInvocations, FailRows DEF ResumeInvalid
<1>5. ASSUME NEW r \in Run, RequestCancel(r) PROVE CallStack' /\ Rows' /\ RootExecutor'
  BY <1>5, IdleInvocations, CancelRows DEF RequestCancel
<1>6. CASE ExpireApprovals
  BY <1>0, <1>6, IdleInvocations, FailRows DEF ExpireApprovals
<1>7. ASSUME NEW r \in Run, Reap(r) PROVE CallStack' /\ Rows' /\ RootExecutor'
  BY <1>0, <1>7, IdleInvocations, FailRows DEF Reap
<1>8. ASSUME \A m \in Run : /\ row'[m].status = row[m].status
                            /\ row'[m].owner = row[m].owner
                            /\ row'[m].batch = row[m].batch,
             inv' = inv, resv' = resv
      PROVE  CallStack' /\ Rows' /\ RootExecutor'
  <2>1. Rows'
    BY <1>0, <1>8 DEF Rows, ApprovalHeld, ReservationBound, HasResv, Awaiting,
                      OpenChildHasOpenRoot, IsTerminal, Open, Exists
  <2> QED BY <1>0, <1>8, <2>1, IdleInvocations, ExecutorSame
<1>9. ASSUME NEW r \in Run, LeaseExpires(r) PROVE CallStack' /\ Rows' /\ RootExecutor'
  BY <1>8, <1>9 DEF LeaseExpires, TypeOK, RowType
<1>10. ASSUME NEW r \in Run, BecomesLate(r) PROVE CallStack' /\ Rows' /\ RootExecutor'
  BY <1>8, <1>10 DEF BecomesLate, TypeOK, RowType
<1>11. ASSUME NEW o \in Owner, Crash(o) PROVE CallStack' /\ Rows' /\ RootExecutor'
  BY <1>11, CrashKeepsStack, QuietStep DEF Crash
<1> QED BY <1>1, <1>2, <1>3, <1>4, <1>5, <1>6, <1>7, <1>9, <1>10, <1>11
        DEF UserStep, RecoveryStep, EnvironmentStep

\* An invocation that goes on, apart from starting the root.
LEMMA MoveStep ==
  ASSUME TypeOK, CallStack, NEW o \in Owner, NEW new \in InvType,
         inv[o].pc \notin {"free", "released", "delegating"},
         new.pc \notin {"reserved", "delegating"},
         new.run = inv[o].run, new.caller = inv[o].caller,
         new.run # Root => new.todo = {},
         new.pc = "executing" => new.run # Root,
         inv' = [inv EXCEPT ![o] = new]
  PROVE  CallStack' /\ NoNewRootExecutor
<1>1. CallStack'
  BY MoveKeepsStack
<1>2. NoNewRootExecutor
  BY DEF NoNewRootExecutor, TypeOK
<1> QED BY <1>1, <1>2

\* The rows keep their invariant when only a specialist's row changes, if it
\* is not left open under an ended root.
LEMMA ChildRows ==
  ASSUME TypeOK, Rows, NEW c \in Child, row'[c] \in RowType, resv' \in ResvType,
         \A m \in Run \ {c} : row'[m] = row[m],
         resv'.phase = resv.phase, resv'.owner = resv.owner,
         Awaiting(c)' => row'[c].batch # NoBatch,
         Open(c)' => Open(Root)
  PROVE  Rows' /\ row'[Root] = row[Root]
<1>1. Root \in Run \ {c} /\ row'[Root] = row[Root] /\ Child \subseteq Run
  BY RootAssumption DEF Run
<1>2. ApprovalHeld'
  BY <1>1 DEF Rows, ApprovalHeld, Awaiting, HasResv
<1>3. ReservationBound'
  BY <1>1 DEF Rows, ReservationBound, HasResv
<1>4. OpenChildHasOpenRoot'
  BY <1>1 DEF Rows, OpenChildHasOpenRoot, Open, Exists, IsTerminal
<1> QED BY <1>1, <1>2, <1>3, <1>4 DEF Rows

\* Only one invocation executes the root: another executor would own its row.
LEMMA OwnerExecutes ==
  ASSUME RootExecutor, ~IsTerminal(Root), NEW o \in Owner, NEW x \in Owner,
         row[Root].owner = o \/ row[Root].owner = NoOwner,
         inv[x].pc \in {"executing", "delegating"}, inv[x].run = Root
  PROVE  x = o
  BY OwnerAssumption DEF RootExecutor

\* Start: the pending or reserved member becomes its invocation's.
LEMMA StartInv ==
  ASSUME TypeOK, CallStack, Rows, RootExecutor, NEW o \in Owner, Start(o)
  PROVE  CallStack' /\ Rows' /\ RootExecutor'
<1> DEFINE r == inv[o].run
           new == [inv[o] EXCEPT !.pc = "executing"]
<1>1. /\ r \in Run /\ inv[o] \in InvType /\ row[r] \in RowType
      /\ Root \in Run /\ Child \subseteq Run
  BY DEF TypeOK, InvType, Run
<1>2. /\ row[r].status \in {"pending", "running"}
      /\ row[r].owner \in {NoOwner, o}
  BY DEF Start, Startable, Owns
<1>3. /\ row'[r].status = "running" /\ row'[r].owner = o
      /\ row'[r].batch = row[r].batch
      /\ \A m \in Run \ {r} : row'[m] = row[m]
      /\ resv' = resv
  BY <1>1 DEF Start, TypeOK, RowType
<1>4. /\ new \in InvType /\ new.pc = "executing" /\ new.run = r
      /\ new.caller = inv[o].caller /\ new.todo = inv[o].todo
  BY <1>1 DEF InvType, PC, Active
<1>5. inv' = [inv EXCEPT ![o] = new]
  BY DEF Start, TypeOK
<1>6. CallStack'
  <2>1. new.run # Root => new.todo = {}
    BY <1>4 DEF CallStack
  <2> QED BY <1>4, <1>5, <2>1, MoveKeepsStack DEF Start
<1>7. ApprovalHeld'
  BY <1>1, <1>2, <1>3 DEF Rows, ApprovalHeld, Awaiting, HasResv
<1>8. ReservationBound'
  <2>1. CASE r = Root
    BY <1>2, <1>3, <2>1 DEF Rows, ReservationBound, ApprovalHeld, HasResv
  <2>2. CASE r # Root
    BY <1>1, <1>3, <2>2 DEF Rows, ReservationBound, HasResv
  <2> QED BY <2>1, <2>2
<1>9. OpenChildHasOpenRoot'
  <2> SUFFICES ASSUME ~Open(Root)', NEW c \in Child PROVE ~Open(c)'
    BY DEF OpenChildHasOpenRoot
  <2>1. r # Root /\ ~Open(Root)
    BY <1>1, <1>3 DEF Open, Exists, IsTerminal, Terminal
  <2>2. ~Open(c)
    BY <2>1 DEF Rows, OpenChildHasOpenRoot
  <2>3. c # r
    BY <1>2, <2>2 DEF Open, Exists, IsTerminal, Terminal
  <2> QED BY <1>1, <1>3, <2>2, <2>3 DEF Open, Exists, IsTerminal
<1>10. RootExecutor'
  <2> SUFFICES ASSUME NEW x \in Owner, inv'[x].pc \in {"executing", "delegating"},
                      inv'[x].run = Root
               PROVE  (IsTerminal(Root) \/ (row[Root].status = "running"
                                             /\ row[Root].owner = x))'
    BY DEF RootExecutor
  <2>1. CASE r = Root
    <3>1. ~IsTerminal(Root)
      BY <1>2, <2>1 DEF IsTerminal, Terminal
    <3>2. x # o => inv[x] = inv'[x]
      BY <1>5 DEF TypeOK
    <3>3. x = o
      BY <1>2, <2>1, <3>1, <3>2, OwnerExecutes
    <3> QED BY <1>3, <2>1, <3>3
  <2>2. CASE r # Root
    <3>1. x # o /\ inv[x] = inv'[x]
      BY <1>4, <1>5, <2>2 DEF TypeOK
    <3> QED BY <1>1, <1>3, <2>2, <3>1 DEF RootExecutor, IsTerminal
  <2> QED BY <2>1, <2>2
<1> QED BY <1>6, <1>7, <1>8, <1>9, <1>10 DEF Rows

\* Delegation: a fresh or an accepted specialist is given to an invocation.
LEMMA CallInv ==
  ASSUME TypeOK, TypeOK', CallStack, Rows, RootExecutor,
         NEW o \in Owner, NEW p \in Owner, NEW c \in Child,
         CreateChild(o, c, p) \/ ClaimChild(o, c, p)
  PROVE  CallStack' /\ Rows' /\ RootExecutor'
<1>1. /\ inv[o] \in InvType /\ row'[c] \in RowType /\ resv' \in ResvType
      /\ c \in Run /\ Root # c
  BY RootAssumption DEF TypeOK, Run
<1>2. inv[o].pc = "executing" /\ inv[o].run = Root /\ FreeOwner(p)
  BY DEF CreateChild, ClaimChild, CallStack
<1>3. Open(Root)
  BY DEF CreateChild, ClaimChild, CanClaimChild, Owns, Open, Exists, IsTerminal,
         Terminal, Executable
<1>4. CallStack' /\ NoNewRootExecutor
  <2>1. CASE CreateChild(o, c, p)
    <3> DEFINE new == [inv[o] EXCEPT !.pc = "delegating"]
    <3>1. new \in InvType /\ new.pc = "delegating" /\ new.run = Root
          /\ new.caller = NoOwner
      BY <1>1, <1>2 DEF InvType, PC, CallStack
    <3>2. inv' = [inv EXCEPT ![o] = new, ![p] = Invocation("queued", c, o, {})]
      BY <2>1 DEF CreateChild, TypeOK
    <3> QED BY <1>2, <3>1, <3>2, CallKeepsStack
  <2>2. CASE ClaimChild(o, c, p)
    <3> DEFINE new == [inv[o] EXCEPT !.pc = "delegating", !.todo = inv[o].todo \ {c}]
    <3>1. new \in InvType /\ new.pc = "delegating" /\ new.run = Root
          /\ new.caller = NoOwner
      BY <1>1, <1>2 DEF InvType, PC, CallStack
    <3>2. inv' = [inv EXCEPT ![o] = new, ![p] = Invocation("claimed", c, o, {})]
      BY <2>2 DEF ClaimChild
    <3> QED BY <1>2, <3>1, <3>2, CallKeepsStack
  <2> QED BY <2>1, <2>2
<1>5. /\ \A m \in Run \ {c} : row'[m] = row[m]
      /\ ~Awaiting(c)'
  <2>1. CASE CreateChild(o, c, p)
    BY <1>1, <2>1 DEF CreateChild, BlankRow, Awaiting, TypeOK
  <2>2. CASE ClaimChild(o, c, p)
    BY <1>1, <2>2 DEF ClaimChild, Resumption, Awaiting, TypeOK, RowType
  <2> QED BY <2>1, <2>2
<1>6. resv'.phase = resv.phase /\ resv'.owner = resv.owner
  <2>1. CASE CreateChild(o, c, p)
    BY <2>1 DEF CreateChild
  <2>2. CASE ClaimChild(o, c, p)
    BY <2>2 DEF ClaimChild, TypeOK, ResvType
  <2> QED BY <2>1, <2>2
<1>7. Rows' /\ row'[Root] = row[Root]
  BY <1>1, <1>3, <1>5, <1>6, ChildRows
<1> QED BY <1>4, <1>7, ExecutorSame

\* The end of a segment: the member waits or has completed, and a root's
\* reservation is gone. A root completes only without open specialists.
LEMMA EndSegmentInv ==
  ASSUME TypeOK, TypeOK', CallStack, Rows, RootExecutor, NEW o \in Owner,
         NEW new \in RowType, NEW pc \in {"suspended", "done"},
         inv[o].pc = "executing",
         row[inv[o].run].status = "running", row[inv[o].run].owner = o,
         new.status \in {"awaiting_approval", "completed"},
         new.status = "awaiting_approval" => new.batch # NoBatch,
         row' = [row EXCEPT ![inv[o].run] = new],
         resv' = IF inv[o].run = Root THEN NoResv ELSE resv,
         inv[o].run = Root /\ new.status = "completed" => \A c \in Child : ~Open(c),
         inv' = [inv EXCEPT ![o].pc = pc]
  PROVE  CallStack' /\ Rows' /\ RootExecutor'
<1> DEFINE r == inv[o].run
           moved == [inv[o] EXCEPT !.pc = pc]
<1>1. /\ r \in Run /\ inv[o] \in InvType /\ Root \in Run /\ Child \subseteq Run
  BY DEF TypeOK, InvType, Run
<1>2. CallStack' /\ NoNewRootExecutor
  <2>1. moved \in InvType /\ moved.pc = pc /\ moved.run = r
        /\ moved.caller = inv[o].caller /\ moved.todo = inv[o].todo
    BY <1>1 DEF InvType, PC, Active
  <2>2. inv' = [inv EXCEPT ![o] = moved]
    BY DEF TypeOK
  <2>3. moved.run # Root => moved.todo = {}
    BY <2>1 DEF CallStack
  <2> QED BY <2>1, <2>2, <2>3, MoveStep
<1>3. row'[r] = new /\ \A m \in Run \ {r} : row'[m] = row[m]
  BY <1>1 DEF TypeOK
<1>4. CASE r = Root
  <2>1. ~HasResv'
    BY <1>4 DEF HasResv, NoResv
  <2>2. ApprovalHeld' /\ ReservationBound'
    BY <1>3, <2>1 DEF Rows, ApprovalHeld, ReservationBound, Awaiting
  <2>3. OpenChildHasOpenRoot'
    <3> SUFFICES ASSUME ~Open(Root)', NEW c \in Child PROVE ~Open(c)'
      BY DEF OpenChildHasOpenRoot
    <3>1. new.status = "completed"
      BY <1>3, <1>4 DEF Open, Exists, IsTerminal, Terminal
    <3>2. row'[c] = row[c] /\ ~Open(c)
      BY <1>1, <1>3, <1>4, <3>1, RootAssumption
    <3> QED BY <3>2 DEF Open, Exists, IsTerminal
  <2>4. RootExecutor'
    <3> SUFFICES ASSUME NEW x \in Owner, inv'[x].run = Root,
                        inv'[x].pc \in {"executing", "delegating"}
                 PROVE  FALSE
      BY DEF RootExecutor
    <3>1. inv[x].pc \in {"executing", "delegating"} /\ inv[x].run = Root
      BY <1>2 DEF NoNewRootExecutor
    <3>2. ~IsTerminal(Root)
      BY <1>4 DEF IsTerminal, Terminal
    <3>3. x = o
      BY <1>4, <3>1, <3>2, OwnerExecutes
    <3>4. inv'[o].pc = pc
      BY DEF TypeOK, InvType
    <3> QED BY <3>3, <3>4
  <2> QED BY <1>2, <2>2, <2>3, <2>4 DEF Rows
<1>5. CASE r # Root
  <2>1. r \in Child /\ row'[r] \in RowType /\ resv' \in ResvType /\ resv' = resv
    BY <1>1, <1>5 DEF Run, TypeOK
  <2>2. Open(Root)
    BY <2>1 DEF Rows, OpenChildHasOpenRoot, Open, Exists, IsTerminal, Terminal
  <2>3. Rows' /\ row'[Root] = row[Root]
    BY <1>3, <2>1, <2>2, ChildRows DEF Awaiting
  <2> QED BY <1>2, <2>3, ExecutorSame
<1> QED BY <1>4, <1>5

LEMMA ExecutionStepInv ==
  ASSUME TypeOK, TypeOK', CallStack, Rows, RootExecutor,
         NEW o \in Owner, ExecutionStep(o)
  PROVE  CallStack' /\ Rows' /\ RootExecutor'
<1>0. inv[o].run \in Run /\ inv[o] \in InvType
  BY DEF TypeOK, InvType
<1>1. ASSUME NEW new \in InvType, inv' = [inv EXCEPT ![o] = new],
             inv[o].pc \notin {"free", "released", "delegating"},
             new.pc \in {"claimed", "error", "interrupted"},
             new.run = inv[o].run, new.caller = inv[o].caller,
             new.run # Root => new.todo = {}
      PROVE  CallStack' /\ NoNewRootExecutor
  BY <1>1, MoveStep
<1>2. ASSUME NEW pc \in {"error", "interrupted"},
             inv' = [inv EXCEPT ![o].pc = pc],
             inv[o].pc \notin {"free", "released", "delegating"}
      PROVE  CallStack' /\ NoNewRootExecutor
  <2> DEFINE new == [inv[o] EXCEPT !.pc = pc]
  <2>1. new \in InvType /\ new.pc = pc /\ new.run = inv[o].run
        /\ new.caller = inv[o].caller /\ new.todo = inv[o].todo
    BY <1>0 DEF InvType, PC, Active
  <2>2. inv' = [inv EXCEPT ![o] = new]
    BY <1>2 DEF TypeOK
  <2>3. new.run # Root => new.todo = {}
    BY <2>1 DEF CallStack
  <2> QED BY <1>1, <1>2, <2>1, <2>2, <2>3
<1>3. CASE Start(o)
  BY <1>3, StartInv
<1>4. CASE StartRefused(o)
  <2>1. CASE inv[o].run = Root
    BY <1>2, <1>4, <2>1, QuietStep DEF StartRefused
  <2>2. CASE inv[o].run # Root
    BY <1>4, <2>2, ReturnKeepsStack, QuietStep DEF StartRefused, PC, Active
  <2> QED BY <2>1, <2>2
<1>5. CASE ClaimContinuation(o)
  <2> DEFINE new == [inv[o] EXCEPT !.pc = "claimed", !.todo = Accepted]
  <2>1. new \in InvType /\ new.pc = "claimed" /\ new.run = inv[o].run
        /\ new.caller = inv[o].caller
    BY <1>0 DEF InvType, PC, Active, Accepted
  <2>2. inv[o].run = Root
    BY <1>5 DEF ClaimContinuation, CallStack
  <2>3. inv' = [inv EXCEPT ![o] = new]
    BY <1>5 DEF ClaimContinuation
  <2>4. CallStack' /\ NoNewRootExecutor
    BY <1>1, <1>5, <2>1, <2>2, <2>3 DEF ClaimContinuation
  <2>5. resv'.owner = resv.owner /\ row' = row
    BY <1>5 DEF ClaimContinuation, TypeOK, ResvType
  <2>6. HasResv
    BY <1>5 DEF ClaimContinuation, CanClaim, HasResv
  <2>7. Rows'
    BY <2>5, <2>6 DEF Rows, ApprovalHeld, ReservationBound, Awaiting,
                      OpenChildHasOpenRoot, IsTerminal, Open, Exists
  <2> QED BY <2>4, <2>5, <2>7, ExecutorSame
<1>6. CASE ClaimRefused(o)
  BY <1>2, <1>6, QuietStep DEF ClaimRefused
<1>7. ASSUME NEW c \in inv[o].todo, ChildRefused(o, c)
      PROVE  CallStack' /\ Rows' /\ RootExecutor'
  BY <1>2, <1>7, QuietStep DEF ChildRefused
<1>8. ASSUME NEW c \in inv[o].todo, DelegateNotAllowed(o, c)
      PROVE  CallStack' /\ Rows' /\ RootExecutor'
  <2>1. CallStack' /\ NoNewRootExecutor
    BY <1>2, <1>8 DEF DelegateNotAllowed
  <2>2. c \in Run /\ "delegate_not_allowed" \in Code
    BY <1>0 DEF InvType, Run, Code
  <2> QED BY <1>8, <2>1, <2>2, FailRows DEF DelegateNotAllowed
<1>9. ASSUME NEW c \in Child, NEW p \in Owner, CreateChild(o, c, p) \/ ClaimChild(o, c, p)
      PROVE  CallStack' /\ Rows' /\ RootExecutor'
  BY <1>9, CallInv
<1>10. ASSUME NEW b \in Batch, SuspendRun(o, b)
       PROVE  CallStack' /\ Rows' /\ RootExecutor'
  <2> DEFINE new == [row[inv[o].run] EXCEPT !.status = "awaiting_approval",
                       !.lease = "none", !.late = FALSE, !.batch = b]
  <2>1. row[inv[o].run] \in RowType
    BY <1>0 DEF TypeOK
  <2>2. new \in RowType /\ new.status = "awaiting_approval" /\ new.batch # NoBatch
    BY <2>1, BatchAssumption DEF RowType, Status
  <2>3. row' = [row EXCEPT ![inv[o].run] = new]
    BY <1>10 DEF SuspendRun
  <2> QED BY <1>10, <2>2, <2>3, EndSegmentInv DEF SuspendRun, Finishing, Current
<1>11. CASE SuspendConflict(o)
  BY <1>2, <1>11, QuietStep DEF SuspendConflict, Finishing
<1>12. CASE FinaliseSuperseded(o)
  BY <1>12, ReturnKeepsStack, QuietStep DEF FinaliseSuperseded, Finishing, PC, Active
<1>13. CASE Succeed(o)
  <2>1. CASE Fail(Root, "delegation_requires_recovery")
    <3>1. inv[o].pc = "executing" /\ inv' = [inv EXCEPT ![o].pc = "done"]
      BY <1>13 DEF Succeed, Finishing
    <3> DEFINE new == [inv[o] EXCEPT !.pc = "done"]
    <3>2. new \in InvType /\ new.pc = "done" /\ new.run = inv[o].run
          /\ new.caller = inv[o].caller /\ new.todo = inv[o].todo
      BY <1>0 DEF InvType, PC, Active
    <3>3. inv' = [inv EXCEPT ![o] = new]
      BY <3>1 DEF TypeOK
    <3>4. new.run # Root => new.todo = {}
      BY <3>2 DEF CallStack
    <3>5. CallStack' /\ NoNewRootExecutor
      BY <3>1, <3>2, <3>3, <3>4, MoveStep
    <3> QED BY <2>1, <3>5, FailRows DEF Code, InterruptionCodes, Run
  <2>2. CASE ~Fail(Root, "delegation_requires_recovery")
    <3> DEFINE new == [row[inv[o].run] EXCEPT !.status = "completed",
                         !.lease = "none", !.late = FALSE, !.batch = NoBatch]
    <3>1. row[inv[o].run] \in RowType
      BY <1>0 DEF TypeOK
    <3>2. new \in RowType /\ new.status = "completed"
      BY <3>1 DEF RowType, Status, Terminal
    <3>3. row' = [row EXCEPT ![inv[o].run] = new]
      BY <1>13, <2>2 DEF Succeed
    <3>4. resv' = IF inv[o].run = Root THEN NoResv ELSE resv
      BY <1>13, <2>2 DEF Succeed
    <3>5. inv[o].run = Root => \A c \in Child : ~Open(c)
      BY <1>13, <2>2 DEF Succeed
    <3>6. /\ inv[o].pc = "executing" /\ inv' = [inv EXCEPT ![o].pc = "done"]
          /\ row[inv[o].run].status = "running" /\ row[inv[o].run].owner = o
      BY <1>13 DEF Succeed, Finishing, Current
    <3> HIDE DEF new
    <3> QED BY <3>2, <3>3, <3>4, <3>5, <3>6, EndSegmentInv
  <2> QED BY <2>1, <2>2
<1>14. CASE Finish(o)
  <2>1. inv[o].pc \notin {"free", "released", "delegating"} /\ inv'[o] = Released
        /\ \A x \in Owner \ {o, inv[o].caller} : inv'[x] = inv[x]
    BY <1>14 DEF Finish
  <2>2. ASSUME NEW p \in Owner \ {o}, p = inv[o].caller
        PROVE  inv'[p].pc = "executing" /\ inv'[p].run = inv[p].run
               /\ inv'[p].caller = inv[p].caller
    BY <1>14, <2>2 DEF Finish, TypeOK, InvType
  <2>3. CallStack' /\ NoNewRootExecutor
    BY <2>1, <2>2, EndKeepsStack
  <2> QED BY <1>14, <2>3, QuietStep DEF Finish
<1> QED BY <1>3, <1>4, <1>5, <1>6, <1>7, <1>8, <1>9, <1>10, <1>11, <1>12, <1>13,
           <1>14 DEF ExecutionStep

-----------------------------------------------------------------------------
(* The theorems.                                                           *)

LEMMA InitInv == Init => IndInv
<1> SUFFICES ASSUME Init PROVE IndInv
  OBVIOUS
<1>1. BlankRow \in RowType
  BY DEF BlankRow, RowType, Status, Code
<1>2. TypeOK
  BY <1>1, NoResvType, FreeInvType DEF Init, TypeOK
<1>3. \A r \in Run : row[r].status = "absent"
  BY DEF Init, BlankRow
<1>4. ~HasResv
  BY DEF Init, HasResv, NoResv
<1>5. \A o \in Owner : /\ inv[o].pc = "free" /\ inv[o].run = Root
                       /\ inv[o].caller = NoOwner
  BY DEF Init, FreeInv
<1>6. ApprovalHeld /\ ReservationBound
  BY <1>3, <1>4 DEF ApprovalHeld, ReservationBound, Awaiting
<1>7. CallStack /\ RootExecutor
  BY <1>5 DEF CallStack, Engaged, RootExecutor
<1>8. OpenChildHasOpenRoot
  BY <1>3 DEF OpenChildHasOpenRoot, Open, Exists, Run
<1> QED BY <1>2, <1>6, <1>7, <1>8 DEF IndInv

LEMMA NextInv == IndInv /\ [Next]_vars => IndInv'
<1> SUFFICES ASSUME IndInv, [Next]_vars PROVE IndInv'
  OBVIOUS
<1>0. TypeOK /\ CallStack /\ Rows /\ RootExecutor /\ ApprovalHeld
  BY DEF IndInv, Rows
<1>1. ASSUME NEW o \in Owner, ExecutionStep(o) PROVE IndInv'
  <2>1. TypeOK'
    BY <1>0, <1>1, ExecutionStepType
  <2>2. CallStack' /\ Rows' /\ RootExecutor'
    BY <1>0, <1>1, <2>1, ExecutionStepInv
  <2> QED BY <2>1, <2>2 DEF IndInv, Rows
<1>2. ASSUME NEW o \in Owner, FailureStep(o) PROVE IndInv'
  <2>1. TypeOK'
    BY <1>0, <1>2, FailureStepType
  <2>2. CallStack' /\ Rows' /\ RootExecutor'
    BY <1>0, <1>2, FailureStepInv
  <2> QED BY <2>1, <2>2 DEF IndInv, Rows
<1>3. CASE UserStep \/ RecoveryStep \/ EnvironmentStep
  <2>1. TypeOK'
    BY <1>0, <1>3, OtherStepType
  <2>2. CallStack' /\ Rows' /\ RootExecutor'
    BY <1>0, <1>3, OtherStepInv
  <2> QED BY <2>1, <2>2 DEF IndInv, Rows
<1>4. CASE UNCHANGED vars
  BY <1>4 DEF vars, IndInv, TypeOK, ApprovalHeld, ReservationBound, HasResv, Awaiting,
     CallStack, Engaged, RootExecutor, OpenChildHasOpenRoot, IsTerminal, Open, Exists
<1> QED BY <1>1, <1>2, <1>3, <1>4 DEF Next

\* The inductive invariant: types, the approvals and reservations members
\* hold, the call stack of invocations, the owner of an executing root, and
\* the end of specialists with their root.
THEOREM InductiveInvariant == Spec => []IndInv
  BY InitInv, NextInv, PTL DEF Spec

\* Every record the actions of a family write is of its type.
THEOREM TypeCorrect == Spec => []TypeOK
<1>1. IndInv => TypeOK
  BY DEF IndInv
<1> QED BY <1>1, InductiveInvariant, PTL

\* Whoever ends a root, and whatever its task does meanwhile, no specialist
\* is left pending, running or waiting under it.
THEOREM FamilySettlesTogether == Spec => []OpenChildHasOpenRoot
<1>1. IndInv => OpenChildHasOpenRoot
  BY DEF IndInv
<1> QED BY <1>1, InductiveInvariant, PTL

\* A reservation always belongs to the running root's owner.
THEOREM ReservationsAreBound == Spec => []ReservationBound
<1>1. IndInv => ReservationBound
  BY DEF IndInv
<1> QED BY <1>1, InductiveInvariant, PTL

-----------------------------------------------------------------------------
(* What a step may do to the rows: nothing, one settlement, or one move of *)
(* one member along the table.                                             *)

Edges == {<<"absent", "pending">>, <<"pending", "running">>,
          <<"running", "awaiting_approval">>, <<"running", "completed">>,
          <<"awaiting_approval", "running">>}

Moves(r, new) ==
  \/ new.status = row[r].status /\ new.code = row[r].code
  \/ /\ <<row[r].status, new.status>> \in Edges
     /\ r \in Child => row[Root].status = "running"
     /\ r = Root /\ new.status = "completed" => \A c \in Child : ~Open(c)

RowStep ==
  \/ row' = row
  \/ \E r \in Run, status \in {"failed", "cancelled"}, code \in Code :
       SettleAs(r, status, code)
  \/ \E r \in Run, new \in RowType : row' = [row EXCEPT ![r] = new] /\ Moves(r, new)

\* A specialist's invocation runs inside a root invocation, so its moves
\* happen while the root is running.
LEMMA RootRunning ==
  ASSUME IndInv, NEW o \in Owner, Engaged(o), Open(inv[o].run)
  PROVE  inv[o].run \in Child => row[Root].status = "running"
<1> SUFFICES ASSUME inv[o].run \in Child PROVE row[Root].status = "running"
  OBVIOUS
<1> DEFINE p == inv[o].caller
<1>1. p \in Owner /\ inv[p].pc = "delegating" /\ inv[p].run = Root
  BY RootAssumption DEF IndInv, CallStack
<1>2. ~IsTerminal(Root)
  BY DEF IndInv, OpenChildHasOpenRoot, Open
<1> QED BY <1>1, <1>2 DEF IndInv, RootExecutor

LEMMA FailRowStep ==
  ASSUME TypeOK, NEW r \in Run, NEW code \in Code, Fail(r, code)
  PROVE  RowStep
  BY FailSettles DEF RowStep

LEMMA CancelRowStep ==
  ASSUME NEW r \in Run, Cancel(r)
  PROVE  RowStep
  BY DEF RowStep, Cancel, Code

LEMMA QuietRowStep == RowsUnchanged => RowStep
  BY DEF RowsUnchanged, RowStep

LEMMA NextRows ==
  ASSUME IndInv, [Next]_vars
  PROVE  RowStep
<1>0. /\ TypeOK /\ Root \in Run /\ Child \subseteq Run
      /\ {"recovery", "approval_expired", "run_abandoned", "delegate_not_allowed",
          "delegation_requires_recovery"} \subseteq Code
      /\ \A o \in Owner : inv[o].run \in Run /\ inv[o].todo \subseteq Child
      /\ \A r \in Run : row[r] \in RowType
  BY DEF IndInv, TypeOK, InvType, Run, Code, InterruptionCodes
<1>1. ASSUME NEW o \in Owner, FailureStep(o) PROVE RowStep
  <2>1. FailureCode(inv[o].pc) \in Code
    BY DEF FailureCode, Code, InterruptionCodes
  <2> QED BY <1>0, <1>1, <2>1, FailRowStep, CancelRowStep, QuietRowStep
       DEF FailureStep, Raise, Stop, PostCommitFailure, PersistFailure, PersistCancelled,
           SettlementLost
<1>2. ASSUME NEW r \in Run, NEW new \in RowType,
             row' = [row EXCEPT ![r] = new], Moves(r, new)
      PROVE  RowStep
  BY <1>2 DEF RowStep
<1>3. ASSUME NEW o \in Owner, Start(o) PROVE RowStep
  <2> DEFINE r == inv[o].run
             new == [row[r] EXCEPT !.status = "running", !.owner = o, !.lease = "live"]
  <2>0. row[r] \in RowType
    BY <1>0
  <2>1. new \in RowType /\ new.status = "running" /\ new.code = row[r].code
    BY <2>0 DEF RowType, Status, Executable
  <2>2. row[r].status \in {"pending", "running"} /\ Open(r) /\ Engaged(o)
    BY <1>3 DEF Start, Startable, Open, Exists, IsTerminal, Terminal, Engaged
  <2>3. Moves(r, new)
    BY <2>1, <2>2, RootRunning, RootAssumption DEF Moves, Edges
  <2>4. row' = [row EXCEPT ![r] = new]
    BY <1>3 DEF Start
  <2> QED BY <1>0, <1>2, <2>1, <2>3, <2>4
<1>4. ASSUME NEW o \in Owner, NEW c \in Child, NEW p \in Owner, CreateChild(o, c, p)
      PROVE  RowStep
  <2> DEFINE new == [BlankRow EXCEPT !.status = "pending"]
  <2>1. new \in RowType /\ new.status = "pending"
    BY DEF RowType, Status, Executable, BlankRow, Code
  <2>2. row[Root].status = "running"
    BY <1>4 DEF CreateChild, Owns, Executable, IndInv, RootExecutor, IsTerminal, Terminal
  <2>3. Moves(c, new)
    BY <1>4, <2>1, <2>2, RootAssumption DEF CreateChild, Exists, Moves, Edges
  <2> QED BY <1>0, <1>2, <1>4, <2>1, <2>3 DEF CreateChild
<1>5. ASSUME NEW o \in Owner, NEW c \in Child, NEW p \in Owner, ClaimChild(o, c, p)
      PROVE  RowStep
  <2>1. Resumption(row[c], p) \in RowType
    BY <1>0, ResumptionType
  <2>2. Resumption(row[c], p).status = "running"
    BY <1>0 DEF Resumption, RowType
  <2>3. Moves(c, Resumption(row[c], p))
    BY <1>5, <2>2, RootAssumption
       DEF ClaimChild, CanClaimChild, Awaiting, Moves, Edges
  <2> QED BY <1>0, <1>2, <1>5, <2>1, <2>3 DEF ClaimChild
<1>6. ASSUME NEW o \in Owner, NEW b \in Batch, SuspendRun(o, b) PROVE RowStep
  <2> DEFINE r == inv[o].run
             new == [row[r] EXCEPT !.status = "awaiting_approval",
                       !.lease = "none", !.late = FALSE, !.batch = b]
  <2>0. row[r] \in RowType
    BY <1>0
  <2>1. new \in RowType /\ new.status = "awaiting_approval"
    BY <2>0 DEF RowType, Status
  <2>2. row[r].status = "running" /\ Open(r) /\ Engaged(o)
    BY <1>6 DEF SuspendRun, Finishing, Open, Exists, IsTerminal, Terminal, Engaged
  <2>3. Moves(r, new)
    BY <2>1, <2>2, RootRunning DEF Moves, Edges
  <2>4. row' = [row EXCEPT ![r] = new]
    BY <1>6 DEF SuspendRun
  <2> QED BY <1>0, <1>2, <2>1, <2>3, <2>4
<1>7. ASSUME NEW o \in Owner, Succeed(o), ~Fail(Root, "delegation_requires_recovery")
      PROVE  RowStep
  <2> DEFINE r == inv[o].run
             new == [row[r] EXCEPT !.status = "completed",
                       !.lease = "none", !.late = FALSE, !.batch = NoBatch]
  <2>0. row[r] \in RowType
    BY <1>0
  <2>1. new \in RowType /\ new.status = "completed"
    BY <2>0 DEF RowType, Status, Terminal
  <2>2. row[r].status = "running" /\ Open(r) /\ Engaged(o)
    BY <1>7 DEF Succeed, Finishing, Open, Exists, IsTerminal, Terminal, Engaged
  <2>3. r = Root => \A c \in Child : ~Open(c)
    BY <1>7 DEF Succeed
  <2>4. Moves(r, new)
    BY <2>1, <2>2, <2>3, RootRunning DEF Moves, Edges
  <2>5. row' = [row EXCEPT ![r] = new]
    BY <1>7 DEF Succeed
  <2> QED BY <1>0, <1>2, <2>1, <2>4, <2>5
<1>8. ASSUME NEW o \in Owner, ExecutionStep(o) PROVE RowStep
  <2>1. CASE \/ StartRefused(o) \/ ClaimContinuation(o) \/ ClaimRefused(o)
             \/ SuspendConflict(o) \/ FinaliseSuperseded(o) \/ Finish(o)
             \/ \E c \in inv[o].todo : ChildRefused(o, c)
    BY <2>1 DEF StartRefused, ClaimContinuation, ClaimRefused, SuspendConflict,
       FinaliseSuperseded, Finish, ChildRefused, RowsUnchanged, RowStep
  <2>2. ASSUME NEW c \in inv[o].todo, DelegateNotAllowed(o, c) PROVE RowStep
    BY <1>0, <2>2, FailRowStep DEF DelegateNotAllowed
  <2>3. CASE Succeed(o)
    BY <1>0, <1>7, <2>3, FailRowStep
  <2> QED BY <1>3, <1>4, <1>5, <1>6, <1>8, <2>1, <2>2, <2>3 DEF ExecutionStep
<1>9. CASE UserStep
  <2>1. ASSUME NEW o \in Owner, CreateRoot(o) PROVE RowStep
    <3> DEFINE new == [BlankRow EXCEPT !.status = "pending", !.owner = o,
                                       !.lease = "live"]
    <3>1. new \in RowType /\ new.status = "pending"
      BY DEF RowType, Status, Executable, BlankRow, Code
    <3>2. Moves(Root, new)
      BY <2>1, <3>1, RootAssumption DEF CreateRoot, Exists, Moves, Edges
    <3> QED BY <1>0, <1>2, <2>1, <3>1, <3>2 DEF CreateRoot
  <2>2. ASSUME NEW o \in Owner, Reserve(o) PROVE RowStep
    <3>1. Resumption(row[Root], o) \in RowType
      BY <1>0, ResumptionType
    <3>2. Resumption(row[Root], o).status = "running"
      BY <1>0 DEF Resumption, RowType
    <3>3. Moves(Root, Resumption(row[Root], o))
      BY <2>2, <3>2, RootAssumption DEF Reserve, Resumable, Awaiting, Moves, Edges
    <3> QED BY <1>0, <1>2, <2>2, <3>1, <3>3 DEF Reserve
  <2> QED BY <1>0, <1>9, <2>1, <2>2, FailRowStep, CancelRowStep
       DEF UserStep, ResumeExpired, ResumeInvalid, RequestCancel
<1>10. CASE RecoveryStep
  BY <1>0, <1>10, FailRowStep DEF RecoveryStep, ExpireApprovals, Reap
<1>11. ASSUME NEW r \in Run, LeaseExpires(r) \/ BecomesLate(r) PROVE RowStep
  <2>1. CASE LeaseExpires(r)
    <3> DEFINE new == [row[r] EXCEPT !.lease = "expired"]
    <3>1. new \in RowType /\ new.status = row[r].status /\ new.code = row[r].code
      BY <1>0 DEF RowType
    <3>2. row' = [row EXCEPT ![r] = new]
      BY <2>1 DEF LeaseExpires
    <3> QED BY <1>2, <3>1, <3>2 DEF Moves
  <2>2. CASE BecomesLate(r)
    <3> DEFINE new == [row[r] EXCEPT !.late = TRUE]
    <3>1. new \in RowType /\ new.status = row[r].status /\ new.code = row[r].code
      BY <1>0 DEF RowType
    <3>2. row' = [row EXCEPT ![r] = new]
      BY <2>2 DEF BecomesLate
    <3> QED BY <1>2, <3>1, <3>2 DEF Moves
  <2> QED BY <1>11, <2>1, <2>2
<1>12. CASE EnvironmentStep
  BY <1>11, <1>12, QuietRowStep DEF EnvironmentStep, Crash
<1>13. CASE UNCHANGED vars
  BY <1>13 DEF vars, RowStep
<1> QED BY <1>1, <1>8, <1>9, <1>10, <1>12, <1>13 DEF Next

\* The first verdict on a run stands: no later settlement, finalisation,
\* reap or sweep rewrites its status or its failure code.
THEOREM VerdictsStand == Spec => VerdictAuthoritative
<1>1. ASSUME IndInv, [Next]_vars, NEW r \in Run, IsTerminal(r)
      PROVE  row'[r].status = row[r].status /\ row'[r].code = row[r].code
  <2>1. TypeOK /\ RowStep
    BY <1>1, NextRows DEF IndInv
  <2>2. ASSUME NEW m \in Run, NEW status, NEW code, SettleAs(m, status, code)
        PROVE  row'[r] = row[r]
    BY <1>1, <2>2 DEF SettleAs, Settled, Open
  <2>3. ASSUME NEW m \in Run, NEW new \in RowType,
               row' = [row EXCEPT ![m] = new], Moves(m, new)
        PROVE  row'[r].status = row[r].status /\ row'[r].code = row[r].code
    BY <1>1, <2>1, <2>3 DEF TypeOK, Moves, Edges, IsTerminal, Terminal
  <2> QED BY <2>1, <2>2, <2>3 DEF RowStep
<1>2. IndInv /\ [Next]_vars =>
        [\A r \in Run : IsTerminal(r) =>
           row'[r].status = row[r].status /\ row'[r].code = row[r].code]_vars
  BY <1>1
<1> QED BY <1>2, InductiveInvariant, PTL DEF Spec, VerdictAuthoritative

-----------------------------------------------------------------------------
(* RunFamily implements RunLifecycle.                                      *)

status == [r \in Run |-> row[r].status]

LEMMA LifecycleTable ==
  /\ Lifecycle!AllowedTransitions["absent"] = {"pending"}
  /\ Lifecycle!AllowedTransitions["pending"] = {"running", "failed", "cancelled"}
  /\ Lifecycle!AllowedTransitions["running"] =
       {"awaiting_approval", "completed", "failed", "cancelled"}
  /\ Lifecycle!AllowedTransitions["awaiting_approval"] = {"running", "failed", "cancelled"}
  BY DEF Lifecycle!AllowedTransitions

LEMMA LifecycleOpen ==
  ASSUME TypeOK, NEW r \in Run
  PROVE  Lifecycle!Open(r) <=> Open(r)
  BY DEF Lifecycle!Open, Lifecycle!Terminal, Open, Exists, IsTerminal, Terminal

\* A settlement ends the member, a root with its open specialists.
LEMMA SettleRefines ==
  ASSUME IndInv, NEW r \in Run, NEW verdict \in {"failed", "cancelled"}, NEW code \in Code,
         SettleAs(r, verdict, code)
  PROVE  [Lifecycle!Next]_status
<1>1. TypeOK
  BY DEF IndInv
<1>2. \A m \in Run : row'[m].status = IF m \in Settled(r) THEN verdict ELSE row[m].status
  BY <1>1 DEF SettleAs, TypeOK, RowType
<1>3. CASE Open(r)
  <2>1. Lifecycle!Open(r)
    BY <1>1, <1>3, LifecycleOpen
  <2>2. \A m \in Run : m \in Settled(r) <=> m \in Lifecycle!EndsWith(r)
    BY <1>1, LifecycleOpen DEF Settled, Members, Lifecycle!EndsWith, Lifecycle!Run, Run
  <2>3. status' = [m \in Run |-> IF m \in Lifecycle!EndsWith(r)
                                   THEN verdict ELSE row[m].status]
    BY <1>2, <2>2 DEF status
  <2>4. Lifecycle!End(r)
    BY <2>1, <2>3 DEF Lifecycle!End, Lifecycle!Run, Run, status
  <2> QED BY <2>4 DEF Lifecycle!Next, Lifecycle!Run, Run
<1>4. CASE ~Open(r)
  <2>1. Settled(r) = {}
    BY <1>4 DEF Settled, Members, IndInv, OpenChildHasOpenRoot, Run
  <2>2. status' = status
    BY <1>2, <2>1 DEF status
  <2> QED BY <2>2
<1> QED BY <1>3, <1>4

\* A move of one member is an edge of the table.
LEMMA MoveRefines ==
  ASSUME IndInv, NEW r \in Run, NEW new \in RowType,
         row' = [row EXCEPT ![r] = new], Moves(r, new)
  PROVE  [Lifecycle!Next]_status
<1>1. TypeOK /\ Root \in Run /\ Child \subseteq Run
  BY DEF IndInv, Run
<1>2. status' = [status EXCEPT ![r] = new.status]
  BY <1>1 DEF status, TypeOK
<1>3. CASE new.status = row[r].status
  BY <1>2, <1>3 DEF status
<1>4. CASE new.status # row[r].status
  <2>1. /\ <<row[r].status, new.status>> \in Edges
        /\ r \in Child => row[Root].status = "running"
        /\ r = Root /\ new.status = "completed" => \A c \in Child : ~Open(c)
    BY <1>4 DEF Moves
  <2>2. new.status \in Lifecycle!AllowedTransitions[row[r].status] \ {"failed", "cancelled"}
    BY <2>1, LifecycleTable DEF Edges
  <2>3. r = Root /\ new.status = "completed" => \A c \in Child : ~Lifecycle!Open(c)
    BY <1>1, <2>1, LifecycleOpen
  <2>4. status[r] = row[r].status /\ status[Root] = row[Root].status
    BY <1>1 DEF status
  <2>5. Lifecycle!Advance(r)
    BY <1>2, <2>1, <2>2, <2>3, <2>4 DEF Lifecycle!Advance, status
  <2> QED BY <2>5 DEF Lifecycle!Next, Lifecycle!Run, Run
<1> QED BY <1>3, <1>4

\* Whoever writes the rows, every step is one of the lifecycle's.
THEOREM FamilyRefinesLifecycle == Spec => RefinesLifecycle
<1>1. Init => Lifecycle!Init
  BY DEF Init, BlankRow, Lifecycle!Init, Lifecycle!Run, Run
<1>2. IndInv /\ [Next]_vars => [Lifecycle!Next]_status
  <2> SUFFICES ASSUME IndInv, [Next]_vars PROVE [Lifecycle!Next]_status
    OBVIOUS
  <2>1. CASE row' = row
    BY <2>1 DEF status
  <2> QED BY <2>1, NextRows, SettleRefines, MoveRefines DEF RowStep
<1> QED BY <1>1, <1>2, InductiveInvariant, PTL DEF Spec, RefinesLifecycle, Lifecycle!Spec, status

(***************************************************************************)
(* Consent: who executes approved decisions, what becomes of them and of   *)
(* the content staged for them.                                            *)
(***************************************************************************)

-----------------------------------------------------------------------------
(* One executor per member.                                                *)

OneRootExecutor ==
  \A o, p \in Owner :
    (/\ inv[o].pc \in {"executing", "delegating"} /\ inv[o].run = Root
     /\ inv[p].pc \in {"executing", "delegating"} /\ inv[p].run = Root)
    => o = p

\* The root gets an executor by Start only: whoever returns to it was waited
\* for by an invocation that was delegating.
LEMMA OnlyStartExecutes ==
  ASSUME TypeOK, CallStack, [Next]_vars, NEW x \in Owner,
         inv'[x].pc \in {"executing", "delegating"}, inv'[x].run = Root
  PROVE  \/ inv[x].pc \in {"executing", "delegating"} /\ inv[x].run = Root
         \/ Start(x) /\ inv[x].run = Root
<1> DEFINE Was == inv[x].pc \in {"executing", "delegating"} /\ inv[x].run = Root
<1>0. Root \notin Child /\ \A o \in Owner : inv[o] \in InvType
  BY RootAssumption DEF TypeOK
<1>1. Released.pc = "released"
  BY DEF Released, FreeInv
<1>2. ASSUME NEW o \in Owner, NEW new, inv' = [inv EXCEPT ![o] = new],
             new.pc \in {"executing", "delegating"} => inv[o].pc = "executing",
             new.run = inv[o].run
      PROVE  Was
  BY <1>2 DEF TypeOK
<1>3. ASSUME NEW o \in Owner, Engaged(o), inv'[o] = Released,
             \A y \in Owner \ {o, inv[o].caller} : inv'[y] = inv[y],
             \A y \in Owner \ {o} : inv'[y].run = inv[y].run
      PROVE  Was
  <2>1. x # o
    BY <1>1, <1>3
  <2>2. CASE x # inv[o].caller
    BY <1>3, <2>1, <2>2
  <2>3. CASE x = inv[o].caller
    <3>1. inv[o].run # Root
      BY <2>3, OwnerAssumption DEF CallStack
    <3> QED BY <1>3, <2>3, <3>1 DEF CallStack
  <2> QED BY <2>2, <2>3
<1>4. ASSUME NEW o \in Owner, NEW next, Engaged(o), Return(o, next) PROVE Was
  <2>1. inv'[o] = Released /\ \A y \in Owner \ {o, inv[o].caller} : inv'[y] = inv[y]
    BY <1>4 DEF Return
  <2>2. \A y \in Owner \ {o} : inv'[y].run = inv[y].run
    BY <1>0, <1>4 DEF Return, InvType
  <2> QED BY <1>3, <1>4, <2>1, <2>2
<1>5. ASSUME NEW o \in Owner, NEW pc, inv' = [inv EXCEPT ![o].pc = pc],
             pc \notin {"executing", "delegating"}
      PROVE  Was
  BY <1>5, <1>0 DEF TypeOK, InvType
<1>6. CASE inv' = inv
  BY <1>6
<1>7. ASSUME NEW o \in Owner, NEW pc \in {"queued", "reserved"},
             inv' = [inv EXCEPT ![o] = Invocation(pc, Root, NoOwner, {})]
      PROVE  Was
  BY <1>7, <1>0 DEF TypeOK, Invocation, FreeInv
<1>8. ASSUME NEW o \in Owner, ExecutionStep(o) PROVE Was \/ (Start(x) /\ inv[x].run = Root)
  <2>1. CASE Start(o)
    <3>1. \A y \in Owner \ {o} : inv'[y] = inv[y]
      BY <2>1 DEF Start, TypeOK
    <3>2. inv'[o].run = inv[o].run
      BY <1>0, <2>1 DEF Start, TypeOK, InvType
    <3> QED BY <2>1, <3>1, <3>2
  <2>2. CASE StartRefused(o)
    BY <2>2, <1>4, <1>5 DEF StartRefused, Engaged
  <2>3. CASE ClaimContinuation(o)
    BY <2>3, <1>0, <1>2 DEF ClaimContinuation, InvType
  <2>4. CASE ClaimRefused(o)
    BY <2>4, <1>5 DEF ClaimRefused
  <2>5. ASSUME NEW c \in inv[o].todo, ChildRefused(o, c) PROVE Was
    BY <2>5, <1>5 DEF ChildRefused
  <2>6. ASSUME NEW c \in inv[o].todo, DelegateNotAllowed(o, c) PROVE Was
    BY <2>6, <1>5 DEF DelegateNotAllowed
  <2>7. ASSUME NEW c \in Child, NEW p \in Owner, CreateChild(o, c, p) PROVE Was
    <3>1. o # p /\ inv[o].pc = "executing" /\ inv[o].run = Root
      BY <2>7 DEF CreateChild, FreeOwner
    <3>2. inv'[p].run = c /\ \A y \in Owner \ {o, p} : inv'[y] = inv[y]
      BY <2>7 DEF CreateChild, TypeOK, Invocation, FreeInv
    <3> QED BY <1>0, <3>1, <3>2
  <2>8. ASSUME NEW c \in Child, NEW p \in Owner, ClaimChild(o, c, p) PROVE Was
    <3>1. o # p /\ inv[o].pc = "executing"
      BY <2>8 DEF ClaimChild, FreeOwner
    <3>2. inv[o].run = Root
      BY <2>8 DEF ClaimChild, CallStack
    <3>3. inv'[p].run = c /\ \A y \in Owner \ {o, p} : inv'[y] = inv[y]
      BY <2>8 DEF ClaimChild, TypeOK, Invocation, FreeInv
    <3> QED BY <1>0, <3>1, <3>2, <3>3
  <2>9. ASSUME NEW b \in Batch, SuspendRun(o, b) PROVE Was
    BY <2>9, <1>5 DEF SuspendRun
  <2>10. CASE SuspendConflict(o)
    BY <2>10, <1>5 DEF SuspendConflict
  <2>11. CASE FinaliseSuperseded(o)
    BY <2>11, <1>4 DEF FinaliseSuperseded, Finishing, Engaged
  <2>12. CASE Succeed(o)
    BY <2>12, <1>5 DEF Succeed
  <2>13. CASE Finish(o)
    <3>1. Engaged(o) /\ inv'[o] = Released
          /\ \A y \in Owner \ {o, inv[o].caller} : inv'[y] = inv[y]
      BY <2>13 DEF Finish, Engaged
    <3>2. \A y \in Owner \ {o} : inv'[y].run = inv[y].run
      BY <1>0, <2>13 DEF Finish, InvType
    <3> QED BY <1>3, <3>1, <3>2
  <2> QED BY <1>8, <2>1, <2>2, <2>3, <2>4, <2>5, <2>6, <2>7, <2>8, <2>9, <2>10,
             <2>11, <2>12, <2>13 DEF ExecutionStep
<1>9. ASSUME NEW o \in Owner, FailureStep(o) PROVE Was
  <2>1. CASE Raise(o)
    BY <2>1, <1>5 DEF Raise
  <2>2. CASE Stop(o)
    BY <2>2, <1>4, <1>5 DEF Stop, StopKinds, Engaged, Active
  <2>3. CASE PostCommitFailure(o)
    BY <2>3, <1>5 DEF PostCommitFailure
  <2>4. CASE PersistFailure(o) \/ PersistCancelled(o) \/ SettlementLost(o)
    BY <2>4, <1>4 DEF PersistFailure, PersistCancelled, SettlementLost, Engaged
  <2> QED BY <1>9, <2>1, <2>2, <2>3, <2>4 DEF FailureStep
<1>10. ASSUME NEW o \in Owner, Crash(o) PROVE Was
  BY <1>1, <1>10 DEF Crash
<1> QED BY <1>6, <1>7, <1>8, <1>9, <1>10 DEF Next, UserStep, RecoveryStep,
           EnvironmentStep, CreateRoot, Reserve, ResumeExpired, ResumeInvalid,
           RequestCancel, ExpireApprovals, Reap, LeaseExpires, BecomesLate, vars

\* A start of the root finds it pending, or resumed by this very invocation;
\* another executor would own the running root.
LEMMA OneRootExecutorStep ==
  ASSUME IndInv, OneRootExecutor, [Next]_vars
  PROVE  OneRootExecutor'
<1>1. TypeOK /\ CallStack /\ RootExecutor
  BY DEF IndInv
<1>2. ASSUME NEW o \in Owner, Start(o), inv[o].run = Root,
             NEW p \in Owner, inv[p].pc \in {"executing", "delegating"},
             inv[p].run = Root
      PROVE  o = p
  <2>1. ~IsTerminal(Root) /\ row[Root].status \in {"pending", "running"}
    BY <1>2 DEF Start, Startable, IsTerminal, Terminal
  <2>2. row[Root].status = "running" /\ row[Root].owner = p
    BY <1>1, <1>2, <2>1 DEF RootExecutor
  <2> QED BY <1>2, <2>2, OwnerAssumption DEF Start, Startable, Owns
<1>3. ASSUME NEW o \in Owner, NEW p \in Owner, Start(o), Start(p) PROVE o = p
  BY <1>1, <1>3 DEF Start, TypeOK, InvType
<1> SUFFICES ASSUME NEW o \in Owner, NEW p \in Owner,
                    inv'[o].pc \in {"executing", "delegating"}, inv'[o].run = Root,
                    inv'[p].pc \in {"executing", "delegating"}, inv'[p].run = Root
             PROVE  o = p
  BY DEF OneRootExecutor
<1> QED BY <1>1, <1>2, <1>3, OnlyStartExecutes DEF OneRootExecutor

\* However resumes, crashes and retries interleave, no two invocations are at
\* work on the same member.
THEOREM OneExecutorPerMember == Spec => []OneExecutor
<1>1. IndInv /\ OneRootExecutor => OneExecutor
  <2> SUFFICES ASSUME CallStack, TypeOK, OneRootExecutor, NEW o \in Owner, NEW p \in Owner,
                      inv[o].pc \in {"executing", "delegating"},
                      inv[p].pc \in {"executing", "delegating"},
                      inv[o].run = inv[p].run
               PROVE  o = p
    BY DEF IndInv, OneExecutor
  <2>1. CASE inv[o].run = Root
    BY <2>1 DEF OneRootExecutor
  <2>2. CASE inv[o].run # Root
    <3>1. Engaged(o) /\ Engaged(p)
      BY DEF Engaged
    <3>2. inv[o].caller = inv[p].caller
      BY <2>2, <3>1 DEF CallStack, OneRootExecutor
    <3> QED BY <2>2, <3>1, <3>2 DEF CallStack
  <2> QED BY <2>1, <2>2
<1>2. Init => OneRootExecutor
  BY DEF Init, OneRootExecutor, FreeInv
<1>3. IndInv /\ OneRootExecutor /\ [Next]_vars => OneRootExecutor'
  BY OneRootExecutorStep
<1> QED BY <1>1, <1>2, <1>3, InductiveInvariant, PTL DEF Spec

-----------------------------------------------------------------------------
(* A reservation waits for its own invocation.                             *)

Busy == {"free", "queued", "claimed", "executing", "delegating", "suspended", "done"}

\* Decisions that are reserved have not been picked up: the invocation they
\* are reserved for has not begun, or has failed before it began.
ReservedIdle == resv.phase = "reserved" => inv[resv.owner].pc \notin Busy

\* Nothing but the claim makes such an invocation go on.
LEMMA IdleStays ==
  ASSUME TypeOK, CallStack, [Next]_vars, NEW x \in Owner, inv[x].pc \notin Busy
  PROVE  \/ inv'[x].pc \notin Busy /\ (inv'[x].pc = "reserved" => inv[x].pc = "reserved")
         \/ ClaimContinuation(x)
<1> DEFINE Idle ==
      inv'[x].pc \notin Busy /\ (inv'[x].pc = "reserved" => inv[x].pc = "reserved")
<1>1. Released.pc = "released"
  BY DEF Released, FreeInv
<1>2. \A o \in Owner : Engaged(o) => inv[o].caller # x
  BY OwnerAssumption DEF CallStack, Busy, Engaged
<1>3. ASSUME NEW o \in Owner, NEW next, Engaged(o), Return(o, next) PROVE Idle
  BY <1>1, <1>2, <1>3 DEF Return, Busy
<1>4. ASSUME NEW o \in Owner, NEW pc, inv' = [inv EXCEPT ![o].pc = pc],
             pc \notin Busy \cup {"reserved"} \/ inv[o].pc \in Busy
      PROVE  Idle
  BY <1>4 DEF TypeOK, InvType
<1>5. CASE inv' = inv
  BY <1>5
<1>6. ASSUME NEW o \in Owner, NEW new, FreeOwner(o), inv' = [inv EXCEPT ![o] = new]
      PROVE  Idle
  BY <1>6 DEF FreeOwner, Busy, TypeOK
<1>7. ASSUME NEW o \in Owner, ExecutionStep(o) PROVE Idle \/ ClaimContinuation(x)
  <2>1. CASE Start(o)
    BY <2>1, <1>4 DEF Start, Busy
  <2>2. CASE StartRefused(o)
    BY <2>2, <1>3, <1>4 DEF StartRefused, Engaged, Busy
  <2>3. CASE ClaimContinuation(o)
    BY <2>3 DEF ClaimContinuation, TypeOK
  <2>4. CASE ClaimRefused(o)
    BY <2>4, <1>4 DEF ClaimRefused, Busy
  <2>5. ASSUME NEW c \in inv[o].todo, ChildRefused(o, c) PROVE Idle
    BY <2>5, <1>4 DEF ChildRefused, Busy
  <2>6. ASSUME NEW c \in inv[o].todo, DelegateNotAllowed(o, c) PROVE Idle
    BY <2>6, <1>4 DEF DelegateNotAllowed, Busy
  <2>7. ASSUME NEW c \in Child, NEW p \in Owner, CreateChild(o, c, p) PROVE Idle
    BY <2>7 DEF CreateChild, FreeOwner, Busy, TypeOK
  <2>8. ASSUME NEW c \in Child, NEW p \in Owner, ClaimChild(o, c, p) PROVE Idle
    BY <2>8 DEF ClaimChild, FreeOwner, Busy, TypeOK
  <2>9. ASSUME NEW b \in Batch, SuspendRun(o, b) PROVE Idle
    BY <2>9, <1>4 DEF SuspendRun, Finishing, Busy
  <2>10. CASE SuspendConflict(o)
    BY <2>10, <1>4 DEF SuspendConflict, Busy
  <2>11. CASE FinaliseSuperseded(o)
    BY <2>11, <1>3 DEF FinaliseSuperseded, Finishing, Engaged
  <2>12. CASE Succeed(o)
    BY <2>12, <1>4 DEF Succeed, Finishing, Busy
  <2>13. CASE Finish(o)
    BY <2>13, <1>2, <1>1 DEF Finish, Engaged, Busy
  <2> QED BY <1>7, <2>1, <2>2, <2>3, <2>4, <2>5, <2>6, <2>7, <2>8, <2>9, <2>10,
             <2>11, <2>12, <2>13 DEF ExecutionStep
<1>8. ASSUME NEW o \in Owner, FailureStep(o) PROVE Idle
  <2>1. CASE Raise(o)
    BY <2>1, <1>4 DEF Raise, Busy
  <2>2. CASE Stop(o)
    BY <2>2, <1>3, <1>4 DEF Stop, StopKinds, Engaged, Active, Busy
  <2>3. CASE PostCommitFailure(o)
    BY <2>3, <1>4 DEF PostCommitFailure, Busy
  <2>4. CASE PersistFailure(o) \/ PersistCancelled(o) \/ SettlementLost(o)
    BY <2>4, <1>3 DEF PersistFailure, PersistCancelled, SettlementLost, Engaged
  <2> QED BY <1>8, <2>1, <2>2, <2>3, <2>4 DEF FailureStep
<1>9. ASSUME NEW o \in Owner, Crash(o) PROVE Idle
  BY <1>1, <1>9 DEF Crash, Busy
<1> QED BY <1>5, <1>6, <1>7, <1>8, <1>9 DEF Next, UserStep, RecoveryStep,
           EnvironmentStep, CreateRoot, Reserve, ResumeExpired, ResumeInvalid,
           RequestCancel, ExpireApprovals, Reap, LeaseExpires, BecomesLate, vars

-----------------------------------------------------------------------------
(* Batches and the consent given on them.                                  *)

Granted(b) == \E o \in Owner : <<b, o>> \in grants

\* Each batch belongs to one suspension of one member. What a member waits
\* for, or is reserved with, nobody was given; what an executing member
\* holds, somebody was.
Consent ==
  /\ \A r, m \in Run : row[r].batch = row[m].batch /\ row[r].batch # NoBatch => r = m
  /\ \A r \in Run : row[r].batch # NoBatch => row[r].batch \in issued
  /\ \A g \in grants : g[1] \in issued
  /\ \A g, h \in grants : g[1] = h[1] => g = h
  /\ \A r \in Run : Awaiting(r) => ~Granted(row[r].batch)
  /\ resv.phase = "reserved" => ~Granted(row[Root].batch)
  /\ \A r \in Run : row[r].status \in Executable /\ row[r].batch # NoBatch =>
       Granted(row[r].batch) \/ (r = Root /\ resv.phase = "reserved")

\* A step that issues and grants nothing: batches stay where they are or are
\* dropped, nobody begins to wait, and only a reservation ends a wait.
BatchesKept ==
  /\ issued' = issued /\ grants' = grants
  /\ \A m \in Run : row'[m].batch \in {row[m].batch, NoBatch}
  /\ \A m \in Run : Awaiting(m)' => Awaiting(m)
  /\ \A m \in Run : row'[m].status \in Executable /\ row'[m].batch # NoBatch =>
       row[m].status \in Executable \/ (m = Root /\ resv'.phase = "reserved")
  /\ resv'.phase = "reserved" => resv.phase = "reserved" \/ Awaiting(Root)
  /\ resv.phase = "reserved" => resv'.phase = "reserved" \/ row'[Root].batch = NoBatch

LEMMA KeepsConsent ==
  ASSUME TypeOK, Consent, BatchesKept
  PROVE  Consent'
<1>1. \A b : Granted(b)' <=> Granted(b)
  BY DEF Granted, BatchesKept
<1>2. ~Granted(NoBatch)
  BY BatchAssumption DEF Granted, TypeOK
<1>3. Root \in Run
  BY DEF Run
<1> QED BY <1>1, <1>2, <1>3 DEF Consent, BatchesKept

\* Content of an open member stays with it, or is queued for cleanup, unless
\* its decisions were given to an invocation.
ContentKept ==
  /\ cleanup \subseteq cleanup'
  /\ \A m \in Run : Open(m) /\ row[m].batch # NoBatch =>
       \/ Open(m)' /\ row'[m].batch = row[m].batch
       \/ row[m].batch \in cleanup'
       \/ Granted(row[m].batch)

LEMMA KeepsContent ==
  ASSUME TypeOK, StagedContentOwned, ContentKept, grants \subseteq grants',
         \A b \in issued' \ issued : \E r \in Run : Open(r)' /\ row'[r].batch = b
  PROVE  StagedContentOwned'
<1> SUFFICES ASSUME NEW b \in issued
             PROVE  \/ \E r \in Run : Open(r)' /\ row'[r].batch = b
                    \/ \E o \in Owner : <<b, o>> \in grants'
                    \/ b \in cleanup'
  BY DEF StagedContentOwned
<1>1. CASE \E o \in Owner : <<b, o>> \in grants
  BY <1>1
<1>2. CASE b \in cleanup
  BY <1>2 DEF ContentKept
<1>3. ASSUME NEW r \in Run, Open(r), row[r].batch = b
      PROVE  \/ \E m \in Run : Open(m)' /\ row'[m].batch = b
             \/ \E o \in Owner : <<b, o>> \in grants'
             \/ b \in cleanup'
  <2>1. b # NoBatch
    BY BatchAssumption DEF TypeOK
  <2> QED BY <1>3, <2>1 DEF ContentKept, Granted
<1> QED BY <1>1, <1>2, <1>3 DEF StagedContentOwned

\* A settlement drops the batches of the members it ends, and only those.
LEMMA SettleKeeps ==
  ASSUME TypeOK, NEW r \in Run, NEW verdict \in Terminal, NEW code,
         SettleAs(r, verdict, code)
  PROVE  BatchesKept /\ ContentKept
<1>1. ASSUME NEW m \in Run
      PROVE  IF m \in Settled(r)
               THEN row'[m].status = verdict /\ row'[m].batch = NoBatch
               ELSE row'[m] = row[m]
  BY <1>1 DEF SettleAs, TypeOK, RowType
<1>2. verdict \notin Executable \cup {"awaiting_approval"}
  BY DEF Terminal, Executable
<1>3. Root \in Run /\ NoResv.phase = "none"
  BY DEF Run, NoResv
<1>4. BatchesKept
  BY <1>1, <1>2, <1>3 DEF BatchesKept, SettleAs, ClearsReservation, Awaiting
<1>5. \A m \in Settled(r) : row[m].batch # NoBatch => row[m].batch \in cleanup'
  BY DEF SettleAs, HeldBatches
<1>6. \A m \in Run : Open(m) /\ row'[m] = row[m] => Open(m)'
  BY DEF Open, Exists, IsTerminal
<1>7. ContentKept
  BY <1>1, <1>5, <1>6 DEF ContentKept, SettleAs
<1> QED BY <1>4, <1>7

LEMMA FailKeeps ==
  ASSUME TypeOK, NEW r \in Run, NEW code \in Code, Fail(r, code)
  PROVE  BatchesKept /\ ContentKept
  BY FailSettles, SettleKeeps DEF Terminal

LEMMA CancelKeeps ==
  ASSUME TypeOK, NEW r \in Run, Cancel(r)
  PROVE  BatchesKept /\ ContentKept
  BY SettleKeeps DEF Cancel, Terminal

LEMMA QuietKeeps == RowsUnchanged => BatchesKept /\ ContentKept
  BY DEF RowsUnchanged, BatchesKept, ContentKept, Awaiting, Open, Exists, IsTerminal

\* Giving a member that is not waiting other values keeps its batch.
LEMMA MoveKeeps ==
  ASSUME TypeOK, NEW r \in Run, NEW new \in RowType, row' = [row EXCEPT ![r] = new],
         new.batch = row[r].batch, new.status = "awaiting_approval" => Awaiting(r),
         new.status \in Executable =>
           row[r].status \in Executable \/ (r = Root /\ resv'.phase = "reserved"),
         Open(r) => new.status \notin Terminal \cup {"absent"},
         resv' = resv \/ (Awaiting(Root) /\ resv.phase = "none"),
         issued' = issued, grants' = grants, cleanup' = cleanup
  PROVE  BatchesKept /\ ContentKept
<1>1. row'[r] = new /\ \A m \in Run \ {r} : row'[m] = row[m]
  BY DEF TypeOK
<1>2. BatchesKept
  BY <1>1 DEF BatchesKept, Awaiting
<1>3. ContentKept
  BY <1>1 DEF ContentKept, Open, Exists, IsTerminal
<1> QED BY <1>2, <1>3

\* A new row holds no batch.
LEMMA NewKeeps ==
  ASSUME TypeOK, NEW r \in Run, ~Exists(r), NEW new \in RowType,
         row' = [row EXCEPT ![r] = new], new.batch = NoBatch, new.status = "pending",
         resv' = resv, issued' = issued, grants' = grants, cleanup' = cleanup
  PROVE  BatchesKept /\ ContentKept
<1>1. row'[r] = new /\ \A m \in Run \ {r} : row'[m] = row[m]
  BY DEF TypeOK
<1>2. BatchesKept
  BY <1>1 DEF BatchesKept, Awaiting
<1>3. ContentKept
  BY <1>1 DEF ContentKept, Open, Exists, IsTerminal
<1> QED BY <1>2, <1>3

\* What an executing invocation's member holds was granted.
LEMMA ExecutingGranted ==
  ASSUME IndInv, Consent, ReservedIdle, NEW o \in Owner,
         inv[o].pc = "executing", Current(o), row[inv[o].run].status = "running"
  PROVE  row[inv[o].run].batch = NoBatch \/ Granted(row[inv[o].run].batch)
<1>1. inv[o].run \in Run
  BY DEF IndInv, TypeOK, InvType
<1>2. CASE inv[o].run = Root /\ resv.phase = "reserved"
  BY <1>2 DEF IndInv, ReservationBound, HasResv, Current, ReservedIdle, Busy
<1> QED BY <1>1, <1>2 DEF Consent, Executable

\* A suspension: a new batch for one member, in place of a granted one.
LEMMA SuspendConsent ==
  ASSUME IndInv, Consent, ReservedIdle, NEW o \in Owner, NEW b \in Batch, SuspendRun(o, b)
  PROVE  Consent' /\ (StagedContentOwned => StagedContentOwned')
<1>0. TypeOK /\ inv[o].run \in Run /\ Root \in Run
  BY DEF IndInv, TypeOK, InvType, Run
<1> PICK r \in Run : r = inv[o].run
  BY <1>0
<1>1. row[r].batch = NoBatch \/ Granted(row[r].batch)
  BY ExecutingGranted DEF SuspendRun, Finishing
<1>2. /\ row'[r].status = "awaiting_approval" /\ row'[r].batch = b
      /\ \A m \in Run \ {r} : row'[m] = row[m]
  BY <1>0 DEF SuspendRun, TypeOK, RowType
<1>3. issued' = issued \cup {b} /\ grants' = grants /\ cleanup' = cleanup /\ b \notin issued
  BY DEF SuspendRun, FreshBatch
<1>4. \A x : Granted(x)' <=> Granted(x)
  BY <1>3 DEF Granted
<1>5. ~Granted(b) /\ b # NoBatch
  BY <1>3, BatchAssumption DEF Granted, Consent
<1>6. resv'.phase = "reserved" => resv' = resv /\ r # Root
  BY DEF SuspendRun, NoResv
<1>7. r = Root => resv'.phase = "none" /\ resv.phase # "reserved"
  BY DEF SuspendRun, Finishing, Current, NoResv, IndInv, ReservationBound, HasResv,
         ReservedIdle, Busy
<1>8. resv.phase = "reserved" => resv'.phase = "reserved"
  BY <1>7 DEF SuspendRun
<1>9. Consent'
  BY <1>0, <1>2, <1>3, <1>4, <1>5, <1>6, <1>7, <1>8 DEF Consent, Awaiting, Executable
<1>10. ContentKept
  BY <1>1, <1>2, <1>3 DEF ContentKept, Open, Exists, IsTerminal
<1>11. Open(r)'
  BY <1>2 DEF Open, Exists, IsTerminal, Terminal
<1> QED BY <1>0, <1>2, <1>3, <1>9, <1>10, <1>11, KeepsContent

\* A grant: the decisions on a batch nobody was given yet, for a member that
\* goes on executing with it.
LEMMA GrantConsent ==
  ASSUME TypeOK, Consent, NEW r \in Run, NEW o \in Owner,
         ~Granted(row[r].batch), row[r].batch \in Batch,
         grants' = grants \cup {<<row[r].batch, o>>}, issued' = issued,
         cleanup' = cleanup,
         row'[r].batch = row[r].batch, row'[r].status = "running",
         row[r].status \notin Terminal \cup {"absent"},
         \A m \in Run \ {r} : row'[m] = row[m],
         resv'.phase = "started",
         resv.phase = "reserved" => r = Root
  PROVE  Consent' /\ (StagedContentOwned => StagedContentOwned')
<1>1. \A x \in Batch : Granted(x)' <=> Granted(x) \/ x = row[r].batch
  BY DEF Granted
<1>2. \A m \in Run : row[m].batch \in Batch \cup {NoBatch}
  BY DEF TypeOK, RowType
<1>3. \A m \in Run : row'[m].batch = row[m].batch
  OBVIOUS
<1>4. row[r].batch # NoBatch
  BY BatchAssumption
<1>5. ~Granted(NoBatch)'
  BY BatchAssumption DEF Granted, TypeOK
<1>6. \A g, h \in grants' : g[1] = h[1] => g = h
  <2>1. \A g \in grants : g = <<g[1], g[2]>> /\ g[2] \in Owner
    BY DEF TypeOK
  <2>2. \A g \in grants : g[1] # row[r].batch
    BY <2>1 DEF Granted
  <2> QED BY <2>2 DEF Consent
<1>7. ASSUME NEW m \in Run, row'[m].status = "awaiting_approval"
      PROVE  ~Granted(row[m].batch)'
  <2>1. m # r /\ row'[m] = row[m]
    BY <1>7
  <2>2. ~Granted(row[m].batch)
    BY <1>7, <2>1 DEF Consent, Awaiting
  <2>3. row[m].batch # row[r].batch
    BY <1>4, <2>1 DEF Consent
  <2>4. CASE row[m].batch = NoBatch
    BY <2>4, <1>5, BatchAssumption DEF Granted, TypeOK
  <2>5. CASE row[m].batch \in Batch
    BY <2>2, <2>3 DEF Granted
  <2> QED BY <1>2, <2>4, <2>5
<1>8. ASSUME NEW m \in Run, row'[m].status \in Executable, row'[m].batch # NoBatch
      PROVE  Granted(row[m].batch)'
  <2>1. CASE m = r
    BY <2>1 DEF Granted
  <2>2. CASE m # r
    BY <1>8, <2>2 DEF Consent, Granted
  <2> QED BY <2>1, <2>2
<1>9. Consent'
  <2>1. \A g \in grants' : g[1] \in issued'
    BY <1>4 DEF Consent
  <2>2. \A m \in Run : Awaiting(m)' => ~Granted(row[m].batch)'
    BY <1>7 DEF Awaiting
  <2>3. resv'.phase # "reserved"
    OBVIOUS
  <2>4. \A m \in Run : row'[m].batch # NoBatch => row'[m].batch \in issued'
    BY <1>3 DEF Consent
  <2>5. \A k, m \in Run : row'[k].batch = row'[m].batch /\ row'[k].batch # NoBatch => k = m
    BY <1>3 DEF Consent
  <2> QED BY <1>6, <1>8, <2>1, <2>2, <2>3, <2>4, <2>5 DEF Consent
<1>10. ContentKept
  BY <1>3 DEF ContentKept, Open, Exists, IsTerminal, Terminal
<1> QED BY <1>9, <1>10, KeepsContent

\* The claim of a reservation, by its owner.
LEMMA ClaimConsent ==
  ASSUME IndInv, Consent, NEW o \in Owner, ClaimContinuation(o)
  PROVE  Consent' /\ (StagedContentOwned => StagedContentOwned')
<1>1. TypeOK /\ Root \in Run
  BY DEF IndInv, Run
<1>2. resv.phase = "reserved" /\ HasResv /\ resv'.phase = "started"
  BY <1>1 DEF ClaimContinuation, CanClaim, HasResv, TypeOK, ResvType
<1>3. row[Root].status = "running" /\ row[Root].batch \in Batch
  BY <1>1, <1>2 DEF IndInv, ReservationBound, ApprovalHeld, TypeOK, RowType
<1>4. ~Granted(row[Root].batch)
  BY <1>2 DEF Consent
<1> QED BY <1>1, <1>2, <1>3, <1>4, GrantConsent DEF ClaimContinuation, Terminal

\* The claim of an accepted child.
LEMMA ClaimChildConsent ==
  ASSUME IndInv, Consent, NEW o \in Owner, NEW c \in Child, NEW p \in Owner,
         ClaimChild(o, c, p)
  PROVE  Consent' /\ (StagedContentOwned => StagedContentOwned')
<1>1. TypeOK /\ c \in Run
  BY DEF IndInv, Run
<1>2. Awaiting(c) /\ resv.phase = "started" /\ resv'.phase = "started"
  BY <1>1 DEF ClaimChild, CanClaimChild, TypeOK, ResvType
<1>3. row[c].batch \in Batch /\ ~Granted(row[c].batch)
  BY <1>1, <1>2 DEF IndInv, ApprovalHeld, TypeOK, RowType, Consent
<1>4. /\ row'[c].status = "running" /\ row'[c].batch = row[c].batch
      /\ \A m \in Run \ {c} : row'[m] = row[m]
  BY <1>1 DEF ClaimChild, Resumption, TypeOK, RowType
<1> QED BY <1>1, <1>2, <1>3, <1>4, GrantConsent DEF ClaimChild, Awaiting, Terminal

\* Every other step issues and grants nothing, and forgets no content.
LEMMA NextKeeps ==
  ASSUME IndInv, Consent, ReservedIdle, [Next]_vars
  PROVE  \/ BatchesKept /\ ContentKept
         \/ \E o \in Owner : ClaimContinuation(o)
         \/ \E o, p \in Owner, c \in Child : ClaimChild(o, c, p)
         \/ \E o \in Owner, b \in Batch : SuspendRun(o, b)
<1> DEFINE Kept == BatchesKept /\ ContentKept
           Goal == \/ Kept
                   \/ \E o \in Owner : ClaimContinuation(o)
                   \/ \E o, p \in Owner, c \in Child : ClaimChild(o, c, p)
                   \/ \E o \in Owner, b \in Batch : SuspendRun(o, b)
<1>0. /\ TypeOK /\ Root \in Run /\ Child \subseteq Run
      /\ \A r \in Run : row[r] \in RowType
      /\ \A o \in Owner : inv[o].run \in Run /\ inv[o].todo \subseteq Child
  BY DEF IndInv, TypeOK, InvType, Run
<1>1. Kept => Goal
  OBVIOUS
<1>2. CASE RowsUnchanged
  BY <1>1, <1>2, QuietKeeps
<1>3. ASSUME NEW r \in Run, NEW code \in Code, Fail(r, code) PROVE Kept
  BY <1>0, <1>3, FailKeeps
<1>4. ASSUME NEW r \in Run, Cancel(r) PROVE Kept
  BY <1>0, <1>4, CancelKeeps
<1>5. ASSUME NEW o \in Owner, Start(o) PROVE Kept
  <2> DEFINE r == inv[o].run
             new == [row[r] EXCEPT !.status = "running", !.owner = o, !.lease = "live"]
  <2>0. row[r] \in RowType
    BY <1>0
  <2>1. /\ new \in RowType /\ new.batch = row[r].batch /\ new.status = "running"
        /\ row' = [row EXCEPT ![r] = new]
    BY <2>0, <1>5 DEF Start, RowType, Status, Executable
  <2>2. row[r].status \in Executable
    BY <1>5 DEF Start, Startable, Executable
  <2> HIDE DEF new
  <2> QED BY <1>0, <1>5, <2>1, <2>2, MoveKeeps DEF Start, Terminal
<1>6. ASSUME NEW o \in Owner, Succeed(o), ~Fail(Root, "delegation_requires_recovery")
      PROVE  Kept
  <2> PICK r \in Run : r = inv[o].run
    BY <1>0
  <2> DEFINE new == [row[r] EXCEPT !.status = "completed", !.lease = "none",
                                   !.late = FALSE, !.batch = NoBatch]
  <2>0. new.status = "completed" /\ new.batch = NoBatch
    BY <1>0 DEF RowType
  <2>1. /\ row'[r].status = "completed" /\ row'[r].batch = NoBatch
        /\ \A m \in Run \ {r} : row'[m] = row[m]
    <3>1. row' = [row EXCEPT ![r] = new]
      BY <1>6 DEF Succeed
    <3> HIDE DEF new
    <3> QED BY <1>0, <2>0, <3>1 DEF TypeOK
  <2>2. row[r].batch = NoBatch \/ Granted(row[r].batch)
    BY <1>6, ExecutingGranted DEF Succeed, Finishing
  <2>3. /\ issued' = issued /\ cleanup' = cleanup /\ grants' = grants
        /\ resv' = IF r = Root THEN NoResv ELSE resv
    BY <1>6 DEF Succeed
  <2>4. BatchesKept
    BY <1>0, <2>1, <2>3 DEF BatchesKept, Awaiting, Executable, NoResv
  <2>5. ContentKept
    BY <2>1, <2>2, <2>3 DEF ContentKept, Open, Exists, IsTerminal
  <2> QED BY <2>4, <2>5
<1>7. ASSUME NEW o \in Owner, NEW c \in Child, NEW p \in Owner, CreateChild(o, c, p)
      PROVE  Kept
  <2> DEFINE new == [BlankRow EXCEPT !.status = "pending"]
  <2>1. new \in RowType /\ new.batch = NoBatch /\ new.status = "pending"
    BY DEF BlankRow, RowType, Status, Executable, Code
  <2> HIDE DEF new
  <2> QED BY <1>0, <1>7, <2>1, NewKeeps DEF CreateChild, new
<1>8. ASSUME NEW o \in Owner, ExecutionStep(o) PROVE Goal
  <2>1. CASE \/ StartRefused(o) \/ ClaimRefused(o) \/ SuspendConflict(o)
             \/ FinaliseSuperseded(o) \/ Finish(o)
             \/ \E c \in inv[o].todo : ChildRefused(o, c)
    BY <1>2, <2>1 DEF StartRefused, ClaimRefused, SuspendConflict, FinaliseSuperseded,
       Finish, ChildRefused
  <2>2. ASSUME NEW c \in inv[o].todo, DelegateNotAllowed(o, c) PROVE Goal
    BY <1>0, <1>1, <1>3, <2>2 DEF DelegateNotAllowed, Code
  <2>3. CASE Succeed(o)
    BY <1>0, <1>1, <1>3, <1>6, <2>3 DEF Code, InterruptionCodes
  <2>4. CASE ClaimContinuation(o)
    BY <2>4
  <2>5. ASSUME NEW c \in Child, NEW p \in Owner, ClaimChild(o, c, p) PROVE Goal
    BY <2>5
  <2>6. ASSUME NEW b \in Batch, SuspendRun(o, b) PROVE Goal
    BY <2>6
  <2> QED BY <1>1, <1>5, <1>7, <1>8, <2>1, <2>2, <2>3, <2>4, <2>5, <2>6 DEF ExecutionStep
<1>9. ASSUME NEW o \in Owner, FailureStep(o) PROVE Goal
  <2>1. FailureCode(inv[o].pc) \in Code
    BY DEF FailureCode, Code, InterruptionCodes
  <2> QED BY <1>0, <1>1, <1>2, <1>3, <1>4, <1>9, <2>1 DEF FailureStep, Raise, Stop,
       PostCommitFailure, PersistFailure, PersistCancelled, SettlementLost
<1>10. CASE UserStep
  <2>1. ASSUME NEW o \in Owner, CreateRoot(o) PROVE Kept
    <3> DEFINE new == [BlankRow EXCEPT !.status = "pending", !.owner = o, !.lease = "live"]
    <3>1. new \in RowType /\ new.batch = NoBatch /\ new.status = "pending"
      BY DEF BlankRow, RowType, Status, Executable, Code
    <3> HIDE DEF new
    <3> QED BY <1>0, <2>1, <3>1, NewKeeps DEF CreateRoot, new
  <2>2. ASSUME NEW o \in Owner, Reserve(o) PROVE Kept
    <3> DEFINE new == Resumption(row[Root], o)
    <3>1. new \in RowType /\ new.batch = row[Root].batch /\ new.status = "running"
      BY <1>0, ResumptionType DEF Resumption, RowType
    <3>2. resv'.phase = "reserved" /\ resv.phase = "none" /\ Awaiting(Root)
      BY <2>2 DEF Reserve, Resumable, HasResv
    <3>3. row' = [row EXCEPT ![Root] = new] /\ UNCHANGED <<issued, cleanup, grants>>
      BY <2>2 DEF Reserve
    <3> HIDE DEF new
    <3> QED BY <1>0, <3>1, <3>2, <3>3, MoveKeeps DEF Terminal
  <2>3. {"approval_expired", "recovery"} \subseteq Code
    BY DEF Code, InterruptionCodes
  <2> QED BY <1>0, <1>1, <1>3, <1>4, <1>10, <2>1, <2>2, <2>3
       DEF UserStep, ResumeExpired, ResumeInvalid, RequestCancel
<1>11. CASE RecoveryStep
  BY <1>0, <1>1, <1>3, <1>11 DEF RecoveryStep, ExpireApprovals, Reap, Code,
     InterruptionCodes
<1>12. ASSUME NEW r \in Run, LeaseExpires(r) PROVE Kept
  <2> DEFINE new == [row[r] EXCEPT !.lease = "expired"]
  <2>1. /\ new \in RowType /\ new.batch = row[r].batch /\ new.status = row[r].status
        /\ row' = [row EXCEPT ![r] = new]
    BY <1>0, <1>12 DEF LeaseExpires, RowType
  <2> HIDE DEF new
  <2> QED BY <1>0, <1>12, <2>1, MoveKeeps DEF LeaseExpires, Awaiting, Open, Exists, IsTerminal
<1>13. ASSUME NEW r \in Run, BecomesLate(r) PROVE Kept
  <2> DEFINE new == [row[r] EXCEPT !.late = TRUE]
  <2>1. /\ new \in RowType /\ new.batch = row[r].batch /\ new.status = row[r].status
        /\ row' = [row EXCEPT ![r] = new]
    BY <1>0, <1>13 DEF BecomesLate, RowType
  <2> HIDE DEF new
  <2> QED BY <1>0, <1>13, <2>1, MoveKeeps DEF BecomesLate, Awaiting, Open, Exists, IsTerminal
<1>14. CASE EnvironmentStep
  BY <1>1, <1>2, <1>12, <1>13, <1>14 DEF EnvironmentStep, Crash
<1>15. CASE UNCHANGED vars
  BY <1>2, <1>15 DEF vars, RowsUnchanged
<1> HIDE DEF Goal
<1> QED BY <1>8, <1>9, <1>10, <1>11, <1>14, <1>15 DEF Next, Goal

LEMMA NextConsent ==
  ASSUME IndInv, Consent, ReservedIdle, [Next]_vars
  PROVE  Consent' /\ (StagedContentOwned => StagedContentOwned')
<1>1. TypeOK
  BY DEF IndInv
<1>2. CASE BatchesKept /\ ContentKept
  BY <1>1, <1>2, KeepsConsent, KeepsContent DEF BatchesKept
<1> QED BY <1>2, NextKeeps, ClaimConsent, ClaimChildConsent, SuspendConsent

\* A reservation is made by Reserve, for the invocation it spawns; what it
\* waits for is that invocation's claim.
LEMMA ReservedIdleStep ==
  ASSUME IndInv, ReservedIdle, [Next]_vars
  PROVE  ReservedIdle'
<1> SUFFICES ASSUME resv'.phase = "reserved" PROVE inv'[resv'.owner].pc \notin Busy
  BY DEF ReservedIdle
<1>0. TypeOK /\ CallStack
  BY DEF IndInv
<1>1. \A o \in Owner : ~ClaimContinuation(o)
  BY <1>0 DEF ClaimContinuation, TypeOK, ResvType
<1>2. ASSUME NEW o \in Owner, Reserve(o) PROVE inv'[resv'.owner].pc \notin Busy
  BY <1>0, <1>2 DEF Reserve, TypeOK, Invocation, FreeInv, Busy
<1>3. CASE resv' = resv
  <2>1. resv.owner \in Owner
    BY <1>0, <1>3 DEF IndInv, ApprovalHeld, HasResv, TypeOK, ResvType
  <2> QED BY <1>0, <1>1, <1>3, <2>1, IdleStays DEF ReservedIdle
<1>4. CASE resv' # resv /\ \A o \in Owner : ~Reserve(o)
  <2>1. NoResv.phase = "none"
    BY DEF NoResv
  <2>2. ASSUME NEW o \in Owner, NEW c \in Child, NEW p \in Owner, ClaimChild(o, c, p)
        PROVE  FALSE
    BY <1>0, <2>2 DEF ClaimChild, CanClaimChild, TypeOK, ResvType
  <2>3. ASSUME NEW o \in Owner, ExecutionStep(o) PROVE FALSE
    BY <1>1, <1>4, <2>1, <2>2, <2>3 DEF ExecutionStep, Start, StartRefused, ClaimRefused,
       ChildRefused, DelegateNotAllowed, CreateChild, SuspendRun, SuspendConflict,
       FinaliseSuperseded, Succeed, Finish, RowsUnchanged, Fail, SettleAs
  <2>4. ASSUME NEW o \in Owner, FailureStep(o) PROVE FALSE
    BY <1>4, <2>1, <2>4 DEF FailureStep, Raise, Stop, PostCommitFailure, PersistFailure,
       PersistCancelled, SettlementLost, RowsUnchanged, Fail, Cancel, SettleAs
  <2> QED BY <1>4, <2>1, <2>3, <2>4 DEF Next, UserStep, RecoveryStep, EnvironmentStep,
       CreateRoot, ResumeExpired, ResumeInvalid, RequestCancel, ExpireApprovals, Reap,
       LeaseExpires, BecomesLate, Crash, RowsUnchanged, Fail, Cancel, SettleAs, vars
<1> QED BY <1>2, <1>3, <1>4

\* The invariant of consent, under any interleaving.
LEMMA ConsentHolds == Spec => [](Consent /\ ReservedIdle /\ StagedContentOwned)
<1>1. Init => Consent /\ ReservedIdle /\ StagedContentOwned
  BY DEF Init, BlankRow, NoResv, Consent, ReservedIdle, StagedContentOwned, Awaiting,
         Executable
<1>2. /\ IndInv /\ Consent /\ ReservedIdle /\ StagedContentOwned /\ [Next]_vars
      => (Consent /\ ReservedIdle /\ StagedContentOwned)'
  BY NextConsent, ReservedIdleStep
<1> QED BY <1>1, <1>2, InductiveInvariant, PTL DEF Spec

\* A set of decisions is given to one invocation, once, and never again put
\* before the user; and that invocation is alone at work on its member.
THEOREM DecisionsOnce == Spec => []ExecutedOnce
<1>1. TypeOK /\ Consent => DecisionsExecutedOnce
  <2> SUFFICES ASSUME TypeOK, Consent PROVE DecisionsExecutedOnce
    OBVIOUS
  <2>1. \A g \in grants : Granted(g[1])
    <3>1. \A g \in grants : g = <<g[1], g[2]>> /\ g[2] \in Owner
      BY DEF TypeOK
    <3> QED BY <3>1 DEF Granted
  <2> QED BY <2>1 DEF Consent, DecisionsExecutedOnce
<1>2. DecisionsExecutedOnce /\ OneExecutor => ExecutedOnce
  BY DEF ExecutedOnce
<1>3. IndInv => TypeOK
  BY DEF IndInv
<1> QED BY <1>1, <1>2, <1>3, InductiveInvariant, ConsentHolds, OneExecutorPerMember, PTL

\* Content staged for an approval is never forgotten.
THEOREM ContentOwned == Spec => []StagedContentOwned
  BY ConsentHolds, PTL

-----------------------------------------------------------------------------
(* Who is given decisions.                                                 *)

\* Decisions are handed out by the two claims, and by nothing else.
LEMMA OnlyClaimsGrant ==
  ASSUME [Next]_vars, grants' # grants
  PROVE  \/ \E o \in Owner : ClaimContinuation(o)
         \/ \E o, p \in Owner, c \in Child : ClaimChild(o, c, p)
<1>1. ASSUME NEW o \in Owner, ExecutionStep(o)
      PROVE  ClaimContinuation(o) \/ \E p \in Owner, c \in Child : ClaimChild(o, c, p)
  BY <1>1 DEF ExecutionStep, Start, StartRefused, ClaimRefused, ChildRefused,
     DelegateNotAllowed, CreateChild, SuspendRun, SuspendConflict, FinaliseSuperseded,
     Succeed, Finish, RowsUnchanged, Fail, SettleAs
<1>2. ASSUME NEW o \in Owner, FailureStep(o) PROVE FALSE
  BY <1>2 DEF FailureStep, Raise, Stop, PostCommitFailure, PersistFailure,
     PersistCancelled, SettlementLost, RowsUnchanged, Fail, Cancel, SettleAs
<1> QED BY <1>1, <1>2 DEF Next, UserStep, RecoveryStep, EnvironmentStep, CreateRoot,
     Reserve, ResumeExpired, ResumeInvalid, RequestCancel, ExpireApprovals, Reap,
     LeaseExpires, BecomesLate, Crash, RowsUnchanged, Fail, Cancel, SettleAs, vars

\* Permission to execute decisions goes to the owner of the root's live lease,
\* or to a specialist that owner calls.
THEOREM GrantsAreAuthorised == Spec => GrantsAuthorised
<1> DEFINE Authorised(g) ==
      LET o == g[2]
          p == IF o = resv.owner THEN o ELSE inv'[o].caller
      IN  row[Root].status = "running" /\ Owns(p, Root) /\ p = resv.owner
<1>1. ASSUME IndInv, [Next]_vars, NEW g \in grants' \ grants PROVE Authorised(g)
  <2>0. TypeOK
    BY <1>1 DEF IndInv
  <2>1. ASSUME NEW o \in Owner, ClaimContinuation(o) PROVE Authorised(g)
    <3>1. g = <<row[Root].batch, o>> /\ resv.owner = o /\ Owns(o, Root) /\ HasResv
      BY <1>1, <2>1 DEF ClaimContinuation, CanClaim, HasResv
    <3> QED BY <1>1, <3>1 DEF IndInv, ReservationBound
  <2>2. ASSUME NEW o \in Owner, NEW p \in Owner, NEW c \in Child, ClaimChild(o, c, p)
        PROVE  Authorised(g)
    <3>1. /\ g = <<row[c].batch, p>> /\ resv.owner = o /\ Owns(o, Root)
          /\ row[Root].status = "running" /\ p # o
      BY <1>1, <2>2 DEF ClaimChild, CanClaimChild, FreeOwner
    <3>2. inv'[p].caller = o
      BY <2>0, <2>2 DEF ClaimChild, TypeOK, Invocation, FreeInv
    <3> QED BY <3>1, <3>2
  <2> QED BY <1>1, <2>1, <2>2, OnlyClaimsGrant
<1>2. IndInv /\ [Next]_vars =>
        [\A g \in grants' \ grants :
           LET o == g[2]
               p == IF o = resv.owner THEN o ELSE inv'[o].caller
           IN  row[Root].status = "running" /\ Owns(p, Root) /\ p = resv.owner]_vars
  BY <1>1
<1> QED BY <1>2, InductiveInvariant, PTL DEF Spec, GrantsAuthorised

\* The sweep leaves a live root alone while the only overdue waits are those
\* of accepted specialists it has yet to reach.
THEOREM QueuedAreProtected == Spec => QueuedChildrenProtected
<1>1. ASSUME IndInv, HasResv, Owns(resv.owner, Root), ~row[Root].late,
             \A c \in Accepted : Awaiting(c) => c \in Queued
      PROVE  ~ExpireApprovals
  <2>1. \A c \in Accepted : Awaiting(c) => row[c].batch = resv.batches[c]
    BY <1>1 DEF Queued
  <2>2. row[Root].status = "running"
    BY <1>1 DEF IndInv, ReservationBound
  <2> QED BY <1>1, <2>1, <2>2 DEF ExpireApprovals, LiveReservation, Owns
<1>2. IndInv /\ [Next]_vars =>
        [(/\ HasResv /\ Owns(resv.owner, Root) /\ ~row[Root].late
          /\ \A c \in Accepted : Awaiting(c) => c \in Queued
          /\ \A r \in Run : Awaiting(r) /\ row[r].late => r \in Queued)
         => ~ExpireApprovals]_vars
  BY <1>1
<1> QED BY <1>2, InductiveInvariant, PTL DEF Spec, QueuedChildrenProtected

-----------------------------------------------------------------------------
(* Lost claims.                                                            *)

\* An invocation that ends, or passes its commit, after it lost its row to
\* another one leaves that row as it is.
THEOREM LosersAreHarmless == Spec => StaleOwnerHarmless
<1> DEFINE Lost(o) ==
      /\ inv[o].pc \notin {"free", "released"}
      /\ inv'[o].pc \in {"released", "suspended", "done"}
      /\ inv'[o].pc # inv[o].pc
      /\ row[inv[o].run].owner \notin {o, NoOwner}
<1>1. ASSUME IndInv, [Next]_vars, NEW o \in Owner, Lost(o)
      PROVE  row'[inv[o].run] = row[inv[o].run]
  <2> DEFINE Same == row'[inv[o].run] = row[inv[o].run]
  <2>0. TypeOK /\ CallStack /\ \A x \in Owner : inv[x] \in InvType
    BY <1>1 DEF IndInv, TypeOK
  <2>1. CASE row' = row
    BY <2>1
  <2>2. ASSUME NEW x \in Owner, NEW pc, inv' = [inv EXCEPT ![x].pc = pc]
        PROVE  x = o /\ pc \in {"released", "suspended", "done"}
    <3>1. inv'[x] = [inv[x] EXCEPT !.pc = pc] /\ \A y \in Owner \ {x} : inv'[y] = inv[y]
      BY <2>0, <2>2 DEF TypeOK
    <3>2. inv'[x].pc = pc
      BY <2>0, <3>1 DEF InvType
    <3> QED BY <1>1, <3>1, <3>2
  <2>3. CASE inv' = inv
    BY <1>1, <2>3
  <2>4. ASSUME NEW x \in Owner, NEW next, Return(x, next),
               next \notin {"released", "suspended", "done"}
        PROVE  x = o
    <3>1. \A y \in Owner : [inv[y] EXCEPT !.pc = next].pc = next
      BY <2>0 DEF InvType
    <3> QED BY <1>1, <2>4, <3>1 DEF Return
  <2>5. ASSUME NEW x \in Owner, ExecutionStep(x) PROVE Same
    <3>1. CASE Start(x)
      <4>1. inv' = [inv EXCEPT ![x].pc = "executing"]
        BY <3>1 DEF Start
      <4>2. "executing" \in {"released", "suspended", "done"}
        BY <2>2, <4>1
      <4> QED BY <4>2
    <3>2. CASE \/ StartRefused(x) \/ ClaimContinuation(x) \/ ClaimRefused(x)
               \/ SuspendConflict(x) \/ FinaliseSuperseded(x) \/ Finish(x)
               \/ \E c \in inv[x].todo : ChildRefused(x, c)
      BY <2>1, <3>2 DEF StartRefused, ClaimContinuation, ClaimRefused, SuspendConflict,
         FinaliseSuperseded, Finish, ChildRefused, RowsUnchanged
    <3>3. ASSUME NEW c \in inv[x].todo, DelegateNotAllowed(x, c) PROVE Same
      <4>1. inv' = [inv EXCEPT ![x].pc = "interrupted"]
        BY <3>3 DEF DelegateNotAllowed
      <4>2. "interrupted" \in {"released", "suspended", "done"}
        BY <2>2, <4>1
      <4> QED BY <4>2
    <3>4. ASSUME NEW c \in Child, NEW p \in Owner, CreateChild(x, c, p) PROVE Same
      <4>1. x # p /\ inv'[x].pc = "delegating" /\ inv'[p].pc = "queued"
        BY <2>0, <3>4 DEF CreateChild, FreeOwner, TypeOK, InvType, Invocation, FreeInv
      <4>2. \A y \in Owner \ {x, p} : inv'[y] = inv[y]
        BY <2>0, <3>4 DEF CreateChild, TypeOK
      <4> QED BY <1>1, <4>1, <4>2
    <3>5. ASSUME NEW c \in Child, NEW p \in Owner, ClaimChild(x, c, p) PROVE Same
      <4>1. x # p /\ inv'[x].pc = "delegating" /\ inv'[p].pc = "claimed"
        BY <2>0, <3>5 DEF ClaimChild, FreeOwner, TypeOK, InvType, Invocation, FreeInv
      <4>2. \A y \in Owner \ {x, p} : inv'[y] = inv[y]
        BY <2>0, <3>5 DEF ClaimChild, TypeOK
      <4> QED BY <1>1, <4>1, <4>2
    <3>6. ASSUME NEW b \in Batch, SuspendRun(x, b) PROVE Same
      <4>1. x = o
        BY <2>2, <3>6 DEF SuspendRun
      <4> QED BY <1>1, <3>6, <4>1 DEF SuspendRun, Current
    <3>7. CASE Succeed(x)
      <4>1. x = o
        BY <2>2, <3>7 DEF Succeed
      <4> QED BY <1>1, <3>7, <4>1 DEF Succeed, Current
    <3> QED BY <2>5, <3>1, <3>2, <3>3, <3>4, <3>5, <3>6, <3>7 DEF ExecutionStep
  <2>6. ASSUME NEW x \in Owner, FailureStep(x) PROVE Same
    <3>1. CASE Raise(x) \/ Stop(x) \/ PostCommitFailure(x) \/ SettlementLost(x)
      BY <2>1, <3>1 DEF Raise, Stop, PostCommitFailure, SettlementLost, RowsUnchanged
    <3>2. \A next \in CallerNext(x) : next \notin {"released", "suspended", "done"}
      BY DEF CallerNext
    <3>3. CASE PersistFailure(x)
      <4>1. x = o
        BY <2>4, <3>2, <3>3 DEF PersistFailure
      <4> QED BY <1>1, <2>1, <3>3, <4>1 DEF PersistFailure, OwnedByOther, RowsUnchanged
    <3>4. CASE PersistCancelled(x)
      <4>1. x = o
        BY <2>4, <3>4 DEF PersistCancelled
      <4> QED BY <1>1, <2>1, <3>4, <4>1 DEF PersistCancelled, OwnedByOther, RowsUnchanged
    <3> QED BY <2>6, <3>1, <3>3, <3>4 DEF FailureStep
  <2>7. CASE UserStep
    <3>1. ASSUME NEW x \in Owner, NEW pc \in {"queued", "reserved"},
                 inv' = [inv EXCEPT ![x] = Invocation(pc, Root, NoOwner, {})]
          PROVE  FALSE
      <4>1. Invocation(pc, Root, NoOwner, {}).pc = pc
        BY DEF Invocation, FreeInv
      <4> QED BY <1>1, <3>1, <4>1 DEF TypeOK
    <3> QED BY <2>3, <2>7, <3>1 DEF UserStep, CreateRoot, Reserve, ResumeExpired,
         ResumeInvalid, RequestCancel
  <2>8. CASE RecoveryStep \/ EnvironmentStep \/ UNCHANGED vars
    BY <2>1, <2>3, <2>8 DEF RecoveryStep, ExpireApprovals, Reap, EnvironmentStep,
       LeaseExpires, BecomesLate, Crash, RowsUnchanged, vars
  <2> QED BY <1>1, <2>5, <2>6, <2>7, <2>8 DEF Next
<1>2. IndInv /\ [Next]_vars =>
        [\A o \in Owner : Lost(o) => row'[inv[o].run] = row[inv[o].run]]_vars
  BY <1>1
<1> QED BY <1>2, InductiveInvariant, PTL DEF Spec, StaleOwnerHarmless

-----------------------------------------------------------------------------
(* Accepted work of specialists, and the verdict on a family.              *)

Halted == {"error", "interrupted", "stopped", "human", "released"}

\* o executes, or is about to end, the accepted decisions of c for p.
Serves(o, p, c) ==
  /\ inv[o].run = c /\ inv[o].caller = p
  /\ inv[o].pc \in {"claimed", "executing", "error", "interrupted", "stopped", "human"}
  /\ row[c].owner = o /\ Resumed(o)

Accepting(c) == row[c].status \in Executable /\ row[c].batch # NoBatch

\* While a specialist executes accepted decisions its root is running, and the
\* root's owner waits for it or will never go on.
InHand ==
  \A c \in Child : Accepting(c) =>
    LET p == row[Root].owner
    IN  /\ row[Root].status = "running" /\ p \in Owner
        /\ \/ inv[p].pc \in Halted
           \/ inv[p].pc = "delegating" /\ \E o \in Owner : Serves(o, p, c)

\* A settlement that leaves a child executing leaves its root alone.
LEMMA SettleSparesRoot ==
  ASSUME TypeOK, NEW c \in Child, Accepting(c), Accepting(c)',
         NEW r \in Run, NEW verdict \in Terminal, NEW code, SettleAs(r, verdict, code)
  PROVE  row'[Root] = row[Root] /\ row'[c] = row[c] /\ r # c
<1>1. c \in Run /\ Root \in Run /\ Open(c)
  BY DEF Run, Accepting, Open, Exists, IsTerminal, Executable, Terminal
<1>2. c \in Settled(r) => row'[c].status = verdict
  BY <1>1 DEF SettleAs, TypeOK, RowType
<1>3. c \notin Settled(r)
  BY <1>2 DEF Accepting, Executable, Terminal
<1>4. r # Root /\ r # c
  BY <1>1, <1>3 DEF Settled, Members
<1> QED BY <1>1, <1>3, <1>4 DEF SettleAs, Settled, Members

LEMMA FailSparesRoot ==
  ASSUME TypeOK, NEW c \in Child, Accepting(c), Accepting(c)',
         NEW r \in Run, NEW code \in Code, Fail(r, code)
  PROVE  row'[Root] = row[Root] /\ row'[c] = row[c] /\ r # c
  BY FailSettles, SettleSparesRoot DEF Terminal

LEMMA CancelSparesRoot ==
  ASSUME TypeOK, NEW c \in Child, Accepting(c), Accepting(c)', NEW r \in Run, Cancel(r)
  PROVE  row'[Root] = row[Root] /\ row'[c] = row[c] /\ r # c
  BY SettleSparesRoot DEF Cancel, Terminal

\* A halted or waiting owner of the root stays its owner while an accepted
\* child executes; and the child keeps the owner that serves it.
LEMMA RootStays ==
  ASSUME IndInv, [Next]_vars, NEW c \in Child, Accepting(c), Accepting(c)',
         row[Root].status = "running", row[Root].owner \in Owner,
         inv[row[Root].owner].pc \in Halted \cup {"delegating"}
  PROVE  /\ row'[Root].status = "running" /\ row'[Root].owner = row[Root].owner
         /\ row'[c].owner # row[c].owner =>
              \E x \in Owner : Start(x) /\ inv[x].run = c
<1> DEFINE Goal ==
      /\ row'[Root].status = "running" /\ row'[Root].owner = row[Root].owner
      /\ row'[c].owner # row[c].owner => \E x \in Owner : Start(x) /\ inv[x].run = c
<1>0. /\ TypeOK /\ CallStack /\ Root \in Run /\ Child \subseteq Run /\ c # Root
      /\ \A r \in Run : row[r] \in RowType
      /\ \A o \in Owner : inv[o].run \in Run /\ inv[o].todo \subseteq Child
  BY RootAssumption DEF IndInv, TypeOK, InvType, Run
<1>1. CASE row'[Root] = row[Root] /\ row'[c] = row[c]
  BY <1>1
<1>2. ASSUME NEW r \in Run, NEW code \in Code, Fail(r, code) PROVE Goal
  BY <1>0, <1>2, FailSparesRoot
<1>3. ASSUME NEW r \in Run, Cancel(r) PROVE Goal
  BY <1>0, <1>3, CancelSparesRoot
<1>4. \A o \in Owner : row[Root].owner = o => inv[o].pc \notin {"claimed", "executing"}
  BY DEF Halted
<1>5. ~Awaiting(Root) /\ Exists(Root) /\ Exists(c) /\ ~Awaiting(c)
  BY DEF Awaiting, Exists, Accepting, Executable
<1>6. ASSUME NEW o \in Owner, ExecutionStep(o) PROVE Goal
  <2>1. CASE \/ StartRefused(o) \/ ClaimContinuation(o) \/ ClaimRefused(o)
             \/ SuspendConflict(o) \/ FinaliseSuperseded(o) \/ Finish(o)
             \/ \E d \in inv[o].todo : ChildRefused(o, d)
    BY <1>1, <2>1 DEF StartRefused, ClaimContinuation, ClaimRefused, SuspendConflict,
       FinaliseSuperseded, Finish, ChildRefused, RowsUnchanged
  <2>2. CASE Start(o)
    <3>1. inv[o].run # Root
      <4> SUFFICES ASSUME inv[o].run = Root PROVE FALSE
        OBVIOUS
      <4>1. inv[o].pc = "claimed" /\ row[Root].owner \in {NoOwner, o}
        BY <2>2 DEF Start, Startable, Owns
      <4> QED BY <1>4, <4>1, OwnerAssumption
    <3>2. row'[Root] = row[Root]
      BY <1>0, <2>2, <3>1 DEF Start, TypeOK
    <3>3. inv[o].run # c => row'[c] = row[c]
      BY <1>0, <2>2 DEF Start, TypeOK
    <3> QED BY <2>2, <3>2, <3>3
  <2>3. ASSUME NEW d \in inv[o].todo, DelegateNotAllowed(o, d) PROVE Goal
    BY <1>0, <1>2, <2>3 DEF DelegateNotAllowed, Code
  <2>4. ASSUME NEW d \in Child, NEW x \in Owner, CreateChild(o, d, x) \/ ClaimChild(o, d, x)
        PROVE  FALSE
    BY <1>4, <2>4 DEF CreateChild, ClaimChild, CanClaimChild, Owns
  <2>5. ASSUME NEW b \in Batch, SuspendRun(o, b) PROVE Goal
    <3>1. inv[o].run # Root
      BY <1>4, <2>5 DEF SuspendRun, Finishing, Current
    <3>2. inv[o].run # c
      BY <1>0, <2>5 DEF SuspendRun, Accepting, Executable, TypeOK, RowType
    <3>3. \A m \in Run \ {inv[o].run} : row'[m] = row[m]
      BY <1>0, <2>5 DEF SuspendRun, TypeOK
    <3> QED BY <1>0, <1>1, <3>1, <3>2, <3>3
  <2>6. CASE Succeed(o)
    <3>1. inv[o].run # Root
      BY <1>4, <2>6 DEF Succeed, Finishing, Current
    <3>2. inv[o].run # c
      <4> DEFINE new == [row[c] EXCEPT !.status = "completed", !.lease = "none",
                                       !.late = FALSE, !.batch = NoBatch]
      <4> SUFFICES ASSUME inv[o].run = c PROVE FALSE
        OBVIOUS
      <4>1. row' = [row EXCEPT ![c] = new]
        BY <1>0, <2>6, <3>1 DEF Succeed
      <4>2. new.batch = NoBatch
        BY <1>0 DEF RowType
      <4> HIDE DEF new
      <4> QED BY <1>0, <4>1, <4>2 DEF Accepting, TypeOK
    <3>3. \A m \in Run \ {inv[o].run} : row'[m] = row[m]
      BY <1>0, <2>6, <3>1 DEF Succeed, TypeOK
    <3> QED BY <1>0, <1>1, <3>1, <3>2, <3>3
  <2> HIDE DEF Goal
  <2> QED BY <1>6, <2>1, <2>2, <2>3, <2>4, <2>5, <2>6 DEF ExecutionStep
<1>7. ASSUME NEW o \in Owner, FailureStep(o) PROVE Goal
  <2>1. FailureCode(inv[o].pc) \in Code
    BY DEF FailureCode, Code, InterruptionCodes
  <2> QED BY <1>0, <1>1, <1>2, <1>3, <1>7, <2>1 DEF FailureStep, Raise, Stop,
       PostCommitFailure, PersistFailure, PersistCancelled, SettlementLost, RowsUnchanged
<1>8. CASE UserStep
  <2>1. {"approval_expired", "recovery"} \subseteq Code
    BY DEF Code, InterruptionCodes
  <2>2. \A o \in Owner : ~CreateRoot(o) /\ ~Reserve(o)
    BY <1>5 DEF CreateRoot, Reserve, Resumable
  <2>3. ~ResumeExpired /\ ~ResumeInvalid
    BY <1>5 DEF ResumeExpired, ResumeInvalid, Resumable
  <2>4. PICK r \in Run : Cancel(r)
    BY <1>8, <2>2, <2>3 DEF UserStep, RequestCancel
  <2> QED BY <1>3, <2>4
<1>9. CASE RecoveryStep
  <2>1. {"approval_expired", "recovery", "run_abandoned"} \subseteq Code
    BY DEF Code, InterruptionCodes
  <2>2. PICK r \in Run, code \in Code : Fail(r, code)
    BY <1>0, <1>9, <2>1 DEF RecoveryStep, ExpireApprovals, Reap
  <2> QED BY <1>2, <2>2
<1>10. ASSUME NEW r \in Run, LeaseExpires(r) \/ BecomesLate(r) PROVE Goal
  <2>1. \A m \in Run : row'[m].status = row[m].status /\ row'[m].owner = row[m].owner
    BY <1>0, <1>10 DEF LeaseExpires, BecomesLate, TypeOK, RowType
  <2> QED BY <1>0, <2>1
<1>11. CASE EnvironmentStep
  BY <1>1, <1>10, <1>11 DEF EnvironmentStep, Crash, RowsUnchanged
<1>12. CASE UNCHANGED vars
  BY <1>1, <1>12 DEF vars
<1> HIDE DEF Goal
<1> QED BY <1>6, <1>7, <1>8, <1>9, <1>11, <1>12 DEF Next, Goal

\* A halted invocation never goes on.
LEMMA HaltedStays ==
  ASSUME TypeOK, TypeOK', CallStack, [Next]_vars, NEW x \in Owner, inv[x].pc \in Halted
  PROVE  inv'[x].pc \in Halted
<1>1. inv[x].pc \notin Busy /\ inv[x].pc # "reserved" /\ inv'[x].pc \in PC
  BY DEF Halted, Busy, TypeOK, InvType
<1>2. ~ClaimContinuation(x)
  BY <1>1 DEF ClaimContinuation
<1> QED BY <1>1, <1>2, IdleStays DEF Halted, Busy, PC, Active

\* An invocation that serves an accepted child goes on serving it, or halts
\* the root's invocation that waits for it.
LEMMA ServesOn ==
  ASSUME IndInv, TypeOK', [Next]_vars, NEW c \in Child, Accepting(c), Accepting(c)',
         NEW p \in Owner, NEW o \in Owner, p = row[Root].owner, row[Root].status = "running",
         inv[p].pc = "delegating", Serves(o, p, c), row'[c].owner = row[c].owner,
         grants \subseteq grants'
  PROVE  inv'[p].pc \in Halted \/ (inv'[p].pc = "delegating" /\ Serves(o, p, c)')
<1> DEFINE Goal == inv'[p].pc \in Halted \/ (inv'[p].pc = "delegating" /\ Serves(o, p, c)')
           Serving == {"claimed", "executing", "error", "interrupted", "stopped", "human"}
<1>0. /\ TypeOK /\ CallStack /\ c # Root /\ c \in Run /\ p # o
      /\ \A x \in Owner : inv[x] \in InvType
      /\ inv[o].run = c /\ inv[o].caller = p /\ inv[o].pc \in Serving /\ row[c].owner = o
      /\ Resumed(o) /\ Resumed(o)'
  BY RootAssumption DEF IndInv, TypeOK, InvType, Run, Serves, Resumed
<1>1. inv[p].run = Root /\ inv[p].caller = NoOwner /\ inv[o].todo = {}
  BY <1>0 DEF CallStack
<1>2. ASSUME inv'[p].pc = "delegating", inv'[o].run = c, inv'[o].caller = p,
             inv'[o].pc \in Serving
      PROVE  Goal
  BY <1>0, <1>2 DEF Serves
<1>3. CASE inv' = inv
  BY <1>0, <1>2, <1>3
<1>4. ASSUME NEW x \in Owner, NEW pc, inv' = [inv EXCEPT ![x].pc = pc],
             x = o => pc \in Serving, x # p
      PROVE  Goal
  BY <1>0, <1>2, <1>4 DEF TypeOK, InvType
<1>5. ASSUME NEW x \in Owner, Engaged(x), x # o
      PROVE  inv[x].caller \notin {o, p}
  BY <1>0, <1>1, <1>5, OwnerAssumption DEF CallStack, Engaged
<1>6. ASSUME NEW x \in Owner, NEW next, Return(x, next), Engaged(x), x # p,
             x = o => next \in Halted
      PROVE  Goal
  <2>1. CASE x # o
    BY <1>0, <1>2, <1>5, <1>6, <2>1 DEF Return
  <2>2. CASE x = o
    <3>1. inv'[p] = [inv[p] EXCEPT !.pc = next]
      BY <1>0, <1>6, <2>2 DEF Return
    <3>2. inv'[p].pc = next
      BY <1>0, <3>1 DEF InvType
    <3> QED BY <1>6, <2>2, <3>2
  <2> QED BY <2>1, <2>2
<1>7. ASSUME NEW x \in Owner, NEW y \in Owner, x # p, x # o, FreeOwner(y),
             \A z \in Owner \ {x, y} : inv'[z] = inv[z]
      PROVE  Goal
  BY <1>0, <1>2, <1>7 DEF FreeOwner
<1>8. ASSUME NEW x \in Owner, Owns(x, Root) PROVE inv[x].pc # "executing"
  BY <1>8 DEF Owns
<1>9. ASSUME NEW x \in Owner, ExecutionStep(x) PROVE Goal
  <2>1. CASE Start(x)
    BY <1>4, <2>1 DEF Start
  <2>2. CASE StartRefused(x)
    <3>1. x # p /\ Engaged(x)
      BY <2>2 DEF StartRefused, Engaged
    <3>2. x = o => Return(x, "interrupted")
      BY <1>0, <2>2 DEF StartRefused
    <3>3. CASE x = o
      BY <1>6, <3>1, <3>2, <3>3 DEF Halted
    <3>4. CASE x # o
      BY <1>4, <1>6, <2>2, <3>1, <3>4 DEF StartRefused
    <3> QED BY <3>3, <3>4
  <2>3. CASE ClaimContinuation(x)
    <3>1. x # p /\ x # o
      BY <1>0, <2>3 DEF ClaimContinuation
    <3>2. inv'[p] = inv[p] /\ inv'[o] = inv[o]
      BY <1>0, <2>3, <3>1 DEF ClaimContinuation, TypeOK
    <3> QED BY <1>0, <1>2, <3>2
  <2>4. CASE ClaimRefused(x)
    BY <1>4, <2>4 DEF ClaimRefused
  <2>5. ASSUME NEW d \in inv[x].todo, ChildRefused(x, d) \/ DelegateNotAllowed(x, d)
        PROVE  Goal
    BY <1>4, <2>5 DEF ChildRefused, DelegateNotAllowed
  <2>6. ASSUME NEW d \in Child, NEW y \in Owner, CreateChild(x, d, y) \/ ClaimChild(x, d, y)
        PROVE  FALSE
    BY <1>8, <2>6 DEF CreateChild, ClaimChild, CanClaimChild
  <2>7. ASSUME NEW b \in Batch, SuspendRun(x, b) PROVE Goal
    <3>1. x # o
      BY <1>0, <2>7 DEF SuspendRun, Accepting, Executable, TypeOK, RowType
    <3> QED BY <1>4, <2>7, <3>1 DEF SuspendRun, Finishing
  <2>8. CASE SuspendConflict(x)
    BY <1>4, <2>8 DEF SuspendConflict, Finishing
  <2>9. CASE FinaliseSuperseded(x)
    <3>1. x # p /\ Engaged(x)
      BY <2>9 DEF FinaliseSuperseded, Finishing, Engaged
    <3>2. x = o => Return(x, "interrupted")
      BY <1>0, <2>9 DEF FinaliseSuperseded
    <3>3. CASE x = o
      BY <1>6, <3>1, <3>2, <3>3 DEF Halted
    <3>4. CASE x # o
      BY <1>6, <2>9, <3>1, <3>4 DEF FinaliseSuperseded
    <3> QED BY <3>3, <3>4
  <2>10. CASE Succeed(x)
    <3>1. x # o
      <4> DEFINE new == [row[c] EXCEPT !.status = "completed", !.lease = "none",
                                       !.late = FALSE, !.batch = NoBatch]
      <4> SUFFICES ASSUME x = o PROVE FALSE
        OBVIOUS
      <4>1. row' = [row EXCEPT ![c] = new]
        BY <1>0, <2>10 DEF Succeed
      <4>2. new.batch = NoBatch
        BY <1>0 DEF TypeOK, RowType
      <4> HIDE DEF new
      <4> QED BY <1>0, <4>1, <4>2 DEF Accepting, TypeOK
    <3> QED BY <1>4, <2>10, <3>1 DEF Succeed, Finishing
  <2>11. CASE Finish(x)
    <3>1. x # p /\ x # o /\ Engaged(x)
      BY <1>0, <2>11 DEF Finish, Engaged
    <3>2. inv'[p] = inv[p] /\ inv'[o] = inv[o]
      BY <1>0, <1>5, <2>11, <3>1 DEF Finish
    <3> QED BY <1>0, <1>2, <3>2
  <2> HIDE DEF Goal
  <2> QED BY <1>9, <2>1, <2>2, <2>3, <2>4, <2>5, <2>6, <2>7, <2>8, <2>9, <2>10,
             <2>11 DEF ExecutionStep
<1>10. ASSUME NEW x \in Owner, FailureStep(x) PROVE Goal
  <2>1. CASE Raise(x)
    BY <1>4, <2>1 DEF Raise
  <2>2. CASE Stop(x)
    <3>1. PICK kind \in {"stopped", "human"} :
            Return(x, kind) \/ inv' = [inv EXCEPT ![x].pc = kind]
      BY <2>2 DEF Stop, StopKinds
    <3>2. x # p /\ Engaged(x)
      BY <2>2 DEF Stop, Active, Engaged
    <3> QED BY <1>4, <1>6, <3>1, <3>2 DEF Halted
  <2>3. CASE PostCommitFailure(x)
    BY <1>4, <2>3 DEF PostCommitFailure
  <2>4. CASE PersistFailure(x) \/ PersistCancelled(x)
    <3>1. x # p /\ Engaged(x)
      BY <2>4 DEF PersistFailure, PersistCancelled, Engaged
    <3>2. x # o
      <4> SUFFICES ASSUME x = o PROVE FALSE
        OBVIOUS
      <4>1. ~OwnedByOther(o) /\ ~IsTerminal(c)
        BY <1>0 DEF OwnedByOther, IsTerminal, Accepting, Executable, Terminal
      <4>2. FailureCode(inv[o].pc) \in Code
        BY DEF FailureCode, Code, InterruptionCodes
      <4> QED BY <1>0, <2>4, <4>1, <4>2, FailSparesRoot, CancelSparesRoot
              DEF PersistFailure, PersistCancelled
    <3> QED BY <1>6, <2>4, <3>1, <3>2 DEF PersistFailure, PersistCancelled
  <2>5. CASE SettlementLost(x)
    <3>1. x # p /\ Engaged(x)
      BY <2>5 DEF SettlementLost, Engaged
    <3>2. x = o => \A next \in CallerNext(x) \ {"executing"} : next \in Halted
      BY <1>0 DEF CallerNext, Halted
    <3> QED BY <1>0, <1>6, <2>5, <3>1, <3>2 DEF SettlementLost
  <2> HIDE DEF Goal
  <2> QED BY <1>10, <2>1, <2>2, <2>3, <2>4, <2>5 DEF FailureStep
<1>11. CASE UserStep
  <2>1. ASSUME NEW x \in Owner, CreateRoot(x) \/ Reserve(x) PROVE Goal
    <3>1. x # p /\ x # o /\ \A z \in Owner \ {x} : inv'[z] = inv[z]
      BY <1>0, <2>1 DEF CreateRoot, Reserve, FreeOwner, TypeOK
    <3> QED BY <1>0, <1>2, <3>1
  <2>2. (\E x \in Owner : CreateRoot(x) \/ Reserve(x)) \/ inv' = inv
    BY <1>11 DEF UserStep, ResumeExpired, ResumeInvalid, RequestCancel
  <2> QED BY <1>3, <2>1, <2>2
<1>12. ASSUME NEW x \in Owner, Crash(x) PROVE Goal
  <2>1. CASE x = p
    BY <2>1, <1>12 DEF Crash, Released, FreeInv, Halted
  <2>2. CASE x # p
    BY <1>0, <1>1, <1>2, <1>12, <2>2, OwnerAssumption DEF Crash
  <2> QED BY <2>1, <2>2
<1>13. CASE RecoveryStep \/ UNCHANGED vars
  BY <1>3, <1>13 DEF RecoveryStep, ExpireApprovals, Reap, vars
<1>14. CASE EnvironmentStep
  BY <1>3, <1>12, <1>14 DEF EnvironmentStep, LeaseExpires, BecomesLate
<1> HIDE DEF Goal
<1> QED BY <1>9, <1>10, <1>11, <1>13, <1>14 DEF Next, Goal

LEMMA InHandStep ==
  ASSUME IndInv, Consent, ReservedIdle, InHand, [Next]_vars
  PROVE  InHand'
<1>0. /\ TypeOK /\ CallStack /\ TypeOK' /\ Child \subseteq Run
      /\ \A r \in Run : row[r] \in RowType
  BY NextInv DEF IndInv, TypeOK, Run
<1> SUFFICES ASSUME NEW c \in Child, Accepting(c)'
             PROVE  \E q \in Owner :
                      /\ row'[Root].status = "running" /\ row'[Root].owner = q
                      /\ \/ inv'[q].pc \in Halted
                         \/ inv'[q].pc = "delegating" /\ \E o \in Owner : Serves(o, q, c)'
  BY DEF InHand, Serves, Accepting, Resumed
<1>1. CASE Accepting(c)
  <2> DEFINE p == row[Root].owner
  <2>1. /\ row[Root].status = "running" /\ p \in Owner
        /\ \/ inv[p].pc \in Halted
           \/ inv[p].pc = "delegating" /\ \E o \in Owner : Serves(o, p, c)
    BY <1>1 DEF InHand
  <2>2. /\ row'[Root].status = "running" /\ row'[Root].owner = p
        /\ row'[c].owner # row[c].owner => \E x \in Owner : Start(x) /\ inv[x].run = c
    BY <1>1, <2>1, RootStays
  <2>3. CASE inv[p].pc \in Halted
    BY <1>0, <2>1, <2>2, <2>3, HaltedStays
  <2>4. CASE inv[p].pc = "delegating"
    <3> PICK o \in Owner : Serves(o, p, c)
      BY <2>1, <2>4 DEF Halted
    <3>1. \A x \in Owner : Start(x) /\ inv[x].run = c => row'[c].owner = row[c].owner
      <4> SUFFICES ASSUME NEW x \in Owner, Start(x), inv[x].run = c
                   PROVE  row'[c].owner = row[c].owner
        OBVIOUS
      <4>1. row[c].owner = o /\ row[c].owner \in {NoOwner, x}
        BY DEF Start, Startable, Owns, Serves
      <4>2. x = o
        BY <4>1, OwnerAssumption
      <4> QED BY <1>0, <4>1, <4>2 DEF Start, TypeOK, RowType
    <3>2. row'[c].owner = row[c].owner
      BY <2>2, <3>1
    <3>3. grants \subseteq grants'
      BY OnlyClaimsGrant DEF ClaimContinuation, ClaimChild
    <3> PICK q \in Owner : q = p
      BY <2>1
    <3>4. inv'[q].pc \in Halted \/ (inv'[q].pc = "delegating" /\ Serves(o, q, c)')
      BY <1>0, <1>1, <2>1, <2>4, <3>2, <3>3, ServesOn
    <3> QED BY <2>2, <3>4
  <2> QED BY <2>1, <2>3, <2>4
<1>2. CASE ~Accepting(c)
  <2>1. c # Root /\ c \in Run
    BY <1>0, RootAssumption
  <2>2. ~BatchesKept
    BY <1>2, <2>1 DEF BatchesKept, Accepting
  <2>3. \A o \in Owner : ~ClaimContinuation(o)
    BY <1>2 DEF ClaimContinuation, Accepting
  <2>4. \A o \in Owner, b \in Batch : ~SuspendRun(o, b)
    <3> SUFFICES ASSUME NEW o \in Owner, NEW b \in Batch, SuspendRun(o, b) PROVE FALSE
      OBVIOUS
    <3>1. inv[o].run # c => row'[c] = row[c]
      BY <1>0, <2>1 DEF SuspendRun, TypeOK
    <3>2. inv[o].run = c => row'[c].status = "awaiting_approval"
      BY <1>0, <2>1 DEF SuspendRun, TypeOK, RowType
    <3> QED BY <1>2, <3>1, <3>2 DEF Accepting, Executable
  <2>5. PICK o \in Owner, x \in Owner, d \in Child : ClaimChild(o, d, x)
    BY <2>2, <2>3, <2>4, NextKeeps
  <2>6. d = c
    BY <1>0, <1>2, <2>1, <2>5 DEF ClaimChild, TypeOK, Accepting
  <2>7. /\ row[Root].status = "running" /\ row[Root].owner = o /\ Awaiting(c)
        /\ row'[Root] = row[Root] /\ o # x
    BY <1>0, <2>1, <2>5, <2>6 DEF ClaimChild, CanClaimChild, Owns, FreeOwner, TypeOK
  <2>8. row[c].batch \in Batch
    BY <1>0, <2>1, <2>7 DEF IndInv, ApprovalHeld, RowType
  <2>9. row'[c].owner = x
    BY <1>0, <2>1, <2>5, <2>6 DEF ClaimChild, Resumption, TypeOK, RowType
  <2>10. Resumed(x)'
    BY <2>5, <2>6, <2>8 DEF ClaimChild, Resumed
  <2>11. inv'[o].pc = "delegating"
    BY <1>0, <2>5, <2>7 DEF ClaimChild, TypeOK, InvType
  <2>12. inv'[x].pc = "claimed" /\ inv'[x].run = c /\ inv'[x].caller = o
    BY <1>0, <2>5, <2>6, <2>7 DEF ClaimChild, TypeOK, Invocation, FreeInv
  <2> QED BY <2>7, <2>9, <2>10, <2>11, <2>12 DEF Serves
<1> QED BY <1>1, <1>2

LEMMA InHandHolds == Spec => []InHand
<1>1. Init => InHand
  BY DEF Init, BlankRow, InHand, Accepting, Executable, Run
<1>2. IndInv /\ Consent /\ ReservedIdle /\ StagedContentOwned /\ InHand /\ [Next]_vars => InHand'
  BY InHandStep
<1> QED BY <1>1, <1>2, InductiveInvariant, ConsentHolds, PTL DEF Spec

\* A root that waits, or a family nobody resumed, holds nothing that was given
\* to an invocation.
LEMMA WaitingHoldsNothing ==
  ASSUME IndInv, Consent, InHand, Awaiting(Root), NEW r \in Run, NEW g \in grants, Open(r)
  PROVE  row[r].batch # g[1]
<1>1. TypeOK /\ g = <<g[1], g[2]>> /\ g[1] \in Batch /\ g[2] \in Owner
  BY DEF IndInv, TypeOK
<1>2. Granted(g[1])
  BY <1>1 DEF Granted
<1>3. CASE Awaiting(r)
  BY <1>2, <1>3 DEF Consent
<1>4. CASE ~Awaiting(r)
  <2>1. r \in Child /\ row[r].status \in Executable
    BY <1>1, <1>4 DEF TypeOK, RowType, Status, Open, Exists, IsTerminal, Awaiting, Run
  <2>2. row[r].batch = NoBatch
    BY <2>1 DEF InHand, Accepting, Awaiting
  <2> QED BY <1>1, <2>2, BatchAssumption
<1> QED BY <1>3, <1>4

\* The code a family ends with tells the truth: after "expired" nothing that
\* was still held had been handed out, after an interruption of accepted work
\* the family is up for review.
THEOREM OutcomesAreTold == Spec => OutcomeTold
<1> DEFINE Expires == row[Root].code # "approval_expired" /\ row'[Root].code = "approval_expired"
           Expired == \A r \in Run, g \in grants : Open(r) => row[r].batch # g[1]
           Interrupts == HasResv /\ row'[Root].status = "failed"
           Reviewed == row'[Root].code \in {"recovery", "agent_run_failed"}
<1>1. ASSUME IndInv, [Next]_vars
      PROVE  (Expires => Awaiting(Root)) /\ (Interrupts => Reviewed)
  <2> DEFINE Goal == (Expires => Awaiting(Root)) /\ (Interrupts => Reviewed)
  <2>0. /\ TypeOK /\ Root \in Run /\ Child \subseteq Run /\ Root \notin Child
        /\ \A r \in Run : row[r] \in RowType
        /\ \A o \in Owner : inv[o].run \in Run /\ inv[o].todo \subseteq Child
        /\ HasResv => row[Root].status = "running"
    BY <1>1, RootAssumption DEF IndInv, ReservationBound, TypeOK, InvType, Run
  <2>1. ASSUME row'[Root].code = row[Root].code, row'[Root].status = "failed" => row[Root].status = "failed"
        PROVE  Goal
    BY <2>0, <2>1
  <2>2. CASE row' = row
    BY <2>1, <2>2
  <2>3. ASSUME NEW r \in Run, NEW verdict, NEW code, SettleAs(r, verdict, code), r = Root
        PROVE  row'[Root] = row[Root] \/ (row'[Root].code = code /\ row'[Root].status = verdict)
    BY <2>0, <2>3 DEF SettleAs, RowType
  <2>4. ASSUME NEW c \in Child, NEW verdict, NEW code, SettleAs(c, verdict, code)
        PROVE  row'[Root] = row[Root]
    BY <2>0, <2>4 DEF SettleAs, Settled, Members
  <2>5. ASSUME NEW r \in Run, Cancel(r) PROVE Goal
    <3>1. CASE r \in Child
      BY <2>1, <2>4, <2>5, <3>1 DEF Cancel
    <3>2. CASE r = Root
      BY <2>1, <2>3, <2>5, <3>2 DEF Cancel
    <3> QED BY <3>1, <3>2 DEF Run
  <2>6. ASSUME NEW c \in Child, NEW code, Fail(c, code) PROVE Goal
    BY <2>0, <2>1, <2>4, <2>6 DEF Fail
  <2>7. ASSUME NEW code, Fail(Root, code),
               code = "approval_expired" => Awaiting(Root) /\ ~HasResv,
               code \in InterruptionCodes \cup {"agent_run_failed", "approval_expired"}
        PROVE  Goal
    <3>1. PICK verdict \in Verdicts(Root, code) : SettleAs(Root, "failed", verdict)
      BY <2>7 DEF Fail
    <3>2. row'[Root] = row[Root] \/ row'[Root].code = verdict
      BY <2>0, <2>3, <3>1
    <3>3. verdict = "approval_expired" => code = "approval_expired"
      BY <3>1 DEF Verdicts
    <3>4. HasResv => verdict \in {"recovery", "agent_run_failed"}
      BY <2>7, <3>1 DEF Verdicts, InterruptionCodes
    <3> QED BY <2>0, <2>1, <2>7, <3>2, <3>3, <3>4
  <2>8. ASSUME NEW r \in Run, NEW code \in InterruptionCodes \cup {"agent_run_failed"}, Fail(r, code)
        PROVE  Goal
    <3>1. code # "approval_expired"
      BY DEF InterruptionCodes
    <3> QED BY <2>6, <2>7, <2>8, <3>1 DEF Run
  <2>9. ASSUME NEW r \in Run, NEW new \in RowType, row' = [row EXCEPT ![r] = new],
               new.status # "failed", new.code \in {row[r].code, "none"}
        PROVE  Goal
    BY <2>0, <2>9 DEF TypeOK
  <2>10. ASSUME NEW o \in Owner, ExecutionStep(o) PROVE Goal
    <3>1. CASE \/ StartRefused(o) \/ ClaimContinuation(o) \/ ClaimRefused(o)
               \/ SuspendConflict(o) \/ FinaliseSuperseded(o) \/ Finish(o)
               \/ \E d \in inv[o].todo : ChildRefused(o, d)
      BY <2>2, <3>1 DEF StartRefused, ClaimContinuation, ClaimRefused, SuspendConflict,
         FinaliseSuperseded, Finish, ChildRefused, RowsUnchanged
    <3>2. CASE Start(o)
      <4> DEFINE new == [row[inv[o].run] EXCEPT
                           !.status = "running", !.owner = o, !.lease = "live"]
      <4>1. row[inv[o].run] \in RowType
        BY <2>0
      <4>2. new \in RowType /\ new.status = "running" /\ new.code = row[inv[o].run].code
        BY <4>1 DEF RowType, Status, Executable
      <4>3. row' = [row EXCEPT ![inv[o].run] = new]
        BY <3>2 DEF Start
      <4> HIDE DEF new
      <4> QED BY <2>0, <2>9, <4>2, <4>3
    <3>3. ASSUME NEW d \in inv[o].todo, DelegateNotAllowed(o, d) PROVE Goal
      BY <2>0, <2>6, <3>3 DEF DelegateNotAllowed
    <3>4. ASSUME NEW d \in Child, NEW x \in Owner, CreateChild(o, d, x) \/ ClaimChild(o, d, x)
          PROVE  Goal
      <4>1. row'[Root] = row[Root]
        BY <2>0, <3>4 DEF CreateChild, ClaimChild, TypeOK
      <4> QED BY <2>1, <4>1
    <3>5. ASSUME NEW b \in Batch, SuspendRun(o, b) PROVE Goal
      <4> DEFINE new == [row[inv[o].run] EXCEPT !.status = "awaiting_approval",
                           !.lease = "none", !.late = FALSE, !.batch = b]
      <4>1. row[inv[o].run] \in RowType
        BY <2>0
      <4>2. /\ new \in RowType /\ new.status = "awaiting_approval"
            /\ new.code = row[inv[o].run].code
        BY <4>1 DEF RowType, Status
      <4>3. row' = [row EXCEPT ![inv[o].run] = new]
        BY <3>5 DEF SuspendRun
      <4> HIDE DEF new
      <4> QED BY <2>0, <2>9, <4>2, <4>3
    <3>6. CASE Succeed(o)
      <4> DEFINE new == [row[inv[o].run] EXCEPT !.status = "completed",
                           !.lease = "none", !.late = FALSE, !.batch = NoBatch]
      <4>1. row[inv[o].run] \in RowType
        BY <2>0
      <4>2. new \in RowType /\ new.status = "completed" /\ new.code = row[inv[o].run].code
        BY <4>1 DEF RowType, Status, Terminal
      <4>3. Fail(Root, "delegation_requires_recovery") \/ row' = [row EXCEPT ![inv[o].run] = new]
        BY <3>6 DEF Succeed
      <4>4. "delegation_requires_recovery" \in InterruptionCodes
        BY DEF InterruptionCodes
      <4> HIDE DEF new
      <4> QED BY <2>0, <2>8, <2>9, <4>2, <4>3, <4>4
    <3> HIDE DEF Goal
    <3> QED BY <2>10, <3>1, <3>2, <3>3, <3>4, <3>5, <3>6 DEF ExecutionStep
  <2>11. ASSUME NEW o \in Owner, FailureStep(o) PROVE Goal
    <3>1. FailureCode(inv[o].pc) \in InterruptionCodes \cup {"agent_run_failed"}
      BY DEF FailureCode, InterruptionCodes
    <3>2. row' = row \/ Fail(inv[o].run, FailureCode(inv[o].pc)) \/ Cancel(inv[o].run)
      BY <2>11 DEF FailureStep, Raise, Stop, PostCommitFailure, PersistFailure,
         PersistCancelled, SettlementLost, RowsUnchanged
    <3> QED BY <2>0, <2>2, <2>5, <2>8, <3>1, <3>2
  <2>12. ASSUME NEW o \in Owner, CreateRoot(o) \/ Reserve(o) PROVE Goal
    <3> DEFINE new == [BlankRow EXCEPT !.status = "pending", !.owner = o, !.lease = "live"]
    <3>1. new \in RowType /\ new.status = "pending" /\ new.code = "none"
      BY DEF BlankRow, RowType, Status, Executable, Code
    <3>2. /\ Resumption(row[Root], o) \in RowType
          /\ Resumption(row[Root], o).status = "running"
          /\ Resumption(row[Root], o).code = row[Root].code
      <4>1. row[Root] \in RowType
        BY <2>0
      <4> QED BY <4>1, ResumptionType DEF Resumption, RowType
    <3>3. row' = [row EXCEPT ![Root] = new] \/ row' = [row EXCEPT ![Root] = Resumption(row[Root], o)]
      BY <2>12 DEF CreateRoot, Reserve
    <3> HIDE DEF new
    <3> QED BY <2>0, <2>9, <3>1, <3>2, <3>3
  <2>13. CASE ResumeExpired \/ ExpireApprovals \/ ResumeInvalid
    <3>1. \/ Awaiting(Root) /\ ~HasResv /\ Fail(Root, "approval_expired")
          \/ Fail(Root, "recovery")
      BY <2>13 DEF ResumeExpired, ExpireApprovals, ResumeInvalid, Resumable
    <3>2. "recovery" \in InterruptionCodes
      BY DEF InterruptionCodes
    <3> QED BY <2>0, <2>7, <2>8, <3>1, <3>2
  <2>14. ASSUME NEW r \in Run, RequestCancel(r) \/ Reap(r) PROVE Goal
    BY <2>5, <2>8, <2>14 DEF RequestCancel, Reap, InterruptionCodes
  <2>15. ASSUME NEW r \in Run, LeaseExpires(r) \/ BecomesLate(r) PROVE Goal
    <3>1. row'[Root].status = row[Root].status /\ row'[Root].code = row[Root].code
      BY <2>0, <2>15 DEF LeaseExpires, BecomesLate, TypeOK, RowType
    <3> QED BY <2>1, <3>1
  <2>16. CASE UNCHANGED vars \/ \E o \in Owner : Crash(o)
    BY <2>2, <2>16 DEF Crash, RowsUnchanged, vars
  <2>17. \/ \E o \in Owner : ExecutionStep(o) \/ FailureStep(o) \/ CreateRoot(o) \/ Reserve(o)
         \/ ResumeExpired \/ ExpireApprovals \/ ResumeInvalid
         \/ \E r \in Run : RequestCancel(r) \/ Reap(r) \/ LeaseExpires(r) \/ BecomesLate(r)
         \/ UNCHANGED vars \/ \E o \in Owner : Crash(o)
    BY <1>1 DEF Next, UserStep, RecoveryStep, EnvironmentStep
  <2> QED BY <2>10, <2>11, <2>12, <2>13, <2>14, <2>15, <2>16, <2>17
<1>2. IndInv /\ Consent /\ ReservedIdle /\ StagedContentOwned /\ InHand /\ [Next]_vars =>
        [row[Root].code # "approval_expired" /\ row'[Root].code = "approval_expired"
          => \A r \in Run, g \in grants : Open(r) => row[r].batch # g[1]]_vars
  BY <1>1, WaitingHoldsNothing
<1>3. IndInv /\ [Next]_vars =>
        [HasResv /\ row'[Root].status = "failed" =>
           row'[Root].code \in {"recovery", "agent_run_failed"}]_vars
  BY <1>1
<1>4. Spec => ExpiredMeansNotTaken
  BY <1>2, InductiveInvariant, ConsentHolds, InHandHolds, PTL DEF Spec, ExpiredMeansNotTaken
<1>5. Spec => AcceptedWorkReviewed
  BY <1>3, InductiveInvariant, PTL DEF Spec, AcceptedWorkReviewed
<1> QED BY <1>4, <1>5 DEF OutcomeTold


=============================================================================
