------------------------- MODULE TurnRegistryProofs -------------------------
(* Theorems of TurnRegistry for any turns, runs and number of slots.         *)
EXTENDS TurnRegistry, FiniteSetTheorems, TLAPS

Task ==
  [pc : {"unused", "refused", "created", "waiting", "joining", "working", "settling",
         "closing", "done", "forgotten"},
   must : Cause \union {"none"}, reason : Cause \union {"none"},
   beat : {"none", "running", "stopping", "over"}, holds : BOOLEAN,
   entered : BOOLEAN, settled : Nat, cleanup : {"none", "pending", "done"},
   open : BOOLEAN, cut : BOOLEAN]

\* What is known of a task at each place it can be in.
TurnKnown(task) ==
  /\ task.pc \in {"unused", "refused"} =>
       task.beat = "none" /\ ~task.open /\ task.cleanup = "none" /\ task.settled = 0
  /\ task.pc \in {"unused", "refused", "created", "waiting"} => ~task.holds
  /\ task.pc \in {"unused", "refused", "created", "waiting", "joining", "settling"} => ~task.entered
  /\ task.pc = "joining" => task.holds
  /\ task.pc = "working" => task.holds /\ task.entered /\ task.beat \in {"none", "over"}
  /\ task.pc = "created" =>
       /\ task.beat = "none"
       /\ IF task.must = "none"
          THEN task.settled = 0 /\ task.cleanup = "none" /\ task.reason = "none"
          ELSE task.cleanup # "none"
  /\ task.pc \in {"waiting", "joining"} =>
       /\ task.settled = 0 /\ task.cleanup = "none"
       /\ task.must = "none" => task.reason = "none"
  /\ task.pc \in {"waiting", "joining", "settling"} => task.beat # "none"
  /\ task.pc = "settling" => task.settled = 0 /\ task.cleanup = "none"
  /\ task.pc \in {"closing", "done", "forgotten"} /\ ~task.entered =>
       \/ task.settled = 1 /\ task.cleanup # "pending"
       \/ task.pc # "closing" /\ task.settled = 0 /\ task.cleanup = "pending"
  /\ task.pc = "closing" => task.cleanup = "none" /\ task.beat # "none"
  /\ task.entered => task.settled = 0 /\ task.cleanup = "none"
  /\ task.cleanup = "pending" => task.settled = 0
  /\ task.cleanup = "done" => task.settled = 1 /\ ~task.open
  /\ task.settled <= 1
  /\ task.pc \in {"done", "forgotten"} /\ ~task.cut =>
       ~task.holds /\ (task.cleanup # "pending" => ~task.open)

TasksKnown == \A t \in Turn : TurnKnown(turn[t])

\* A slot is free or belongs to a turn, also to one that has lost it for good.
SlotsCounted == slots + Cardinality({t \in Turn : turn[t].holds}) = MaxTurns

\* A drain knows of whatever is still there, and of no task that may not have
\* begun.
DrainKnows ==
  /\ drain.pc \notin {"off", "drained"} => \A t \in Turn : Running(t) => t \in drain.of
  /\ drain.pc = "drained" => \A t \in Turn : ~Running(t)
  /\ drain.pc # "off" => ordered = {}

RegistryInv == TypeOK /\ LiveIsRegistered /\ TasksKnown /\ SlotsCounted /\ DrainKnows

-----------------------------------------------------------------------------
(* A step of one task                                                       *)

Holders == {t \in Turn : turn[t].holds}

LEMMA HoldersFinite == IsFiniteSet(Holders) /\ Cardinality(Holders) \in Nat
<1>1. Holders \subseteq Turn
  BY DEF Holders
<1> QED BY <1>1, RegistryAssumption, FS_Subset, FS_CardinalityType

\* A step of one task keeps the invariant if what it makes of the task is known,
\* a slot changes hands with its count, and nothing comes to life.
LEMMA OneTask ==
  ASSUME RegistryInv, NEW t \in Turn, NEW new \in Task, Set(t, new), TurnKnown(new),
         slots' \in Nat,
         \/ slots' = slots /\ new.holds = turn[t].holds
         \/ slots' = slots - 1 /\ new.holds /\ ~turn[t].holds
         \/ slots' = slots + 1 /\ ~new.holds /\ turn[t].holds
  PROVE  /\ turn' \in [Turn -> Task] /\ turn'[t] = new
         /\ \A u \in Turn : u # t => turn'[u] = turn[u]
         /\ TasksKnown' /\ SlotsCounted' /\ slots' \in 0..MaxTurns
<1>1. turn \in [Turn -> Task]
  BY DEF RegistryInv, TypeOK, Task
<1>2. /\ turn' \in [Turn -> Task] /\ turn'[t] = new
      /\ \A u \in Turn : u # t => turn'[u] = turn[u]
  BY <1>1 DEF Set
<1>3. TasksKnown'
  BY <1>2 DEF RegistryInv, TasksKnown
<1>4. /\ slots \in Nat /\ MaxTurns \in Nat /\ slots + Cardinality(Holders) = MaxTurns
  BY RegistryAssumption DEF RegistryInv, SlotsCounted, TypeOK, Holders
<1>5. slots' + Cardinality(Holders') = MaxTurns /\ Cardinality(Holders') \in Nat
  <2>1. CASE new.holds = turn[t].holds
    <3>1. Holders' = Holders
      BY <1>2, <2>1 DEF Holders
    <3>2. slots' = slots
      BY <2>1
    <3> QED BY <1>4, <3>1, <3>2, HoldersFinite
  <2>2. CASE slots' = slots - 1 /\ new.holds /\ ~turn[t].holds
    <3>1. Holders' = Holders \union {t} /\ t \notin Holders
      BY <1>2, <2>2 DEF Holders
    <3>2. Cardinality(Holders') = Cardinality(Holders) + 1
      BY <3>1, HoldersFinite, FS_AddElement
    <3> QED BY <1>4, <2>2, <3>2, HoldersFinite
  <2>3. CASE slots' = slots + 1 /\ ~new.holds /\ turn[t].holds
    <3>1. Holders' = Holders \ {t} /\ t \in Holders
      BY <1>2, <2>3 DEF Holders
    <3>2. Cardinality(Holders') = Cardinality(Holders) - 1
      BY <3>1, HoldersFinite, FS_RemoveElement
    <3>3. Cardinality(Holders) > 0
      BY <3>1, HoldersFinite, FS_EmptySet
    <3> QED BY <1>4, <2>3, <3>2, <3>3, HoldersFinite
  <2> QED BY <2>1, <2>2, <2>3
<1>6. SlotsCounted'
  BY <1>5 DEF SlotsCounted, Holders
<1> QED BY <1>2, <1>3, <1>4, <1>5, <1>6

\* Most steps also leave the registry and the drain alone.
LEMMA OrdinaryStep ==
  ASSUME RegistryInv, NEW t \in Turn, NEW new \in Task, Set(t, new), TurnKnown(new),
         slots' \in Nat,
         \/ slots' = slots /\ new.holds = turn[t].holds
         \/ slots' = slots - 1 /\ new.holds /\ ~turn[t].holds
         \/ slots' = slots + 1 /\ ~new.holds /\ turn[t].holds,
         Live(t)' => Live(t), new.cleanup = "pending" => turn[t].cleanup = "pending",
         UNCHANGED <<tasks, ordered, drain>>,
         row' \in [Run ->
           [status : {"new", "running", "awaiting", "completed", "failed", "cancelled"},
            owner : Turn \union {NoTurn}]],
         waiters' \in Seq(Turn)
  PROVE  RegistryInv'
<1>1. /\ turn' \in [Turn -> Task] /\ turn'[t] = new
      /\ \A u \in Turn : u # t => turn'[u] = turn[u]
      /\ TasksKnown' /\ SlotsCounted' /\ slots' \in 0..MaxTurns
  BY OneTask
<1>2. TypeOK'
  BY <1>1 DEF RegistryInv, TypeOK, Task
<1>3. \A u \in Turn : /\ Live(u)' => Live(u)
                      /\ Running(u)' => Running(u)
  BY <1>1 DEF Live, Running
<1>4. LiveIsRegistered'
  BY <1>3 DEF RegistryInv, LiveIsRegistered
<1>5. DrainKnows'
  BY <1>3 DEF RegistryInv, DrainKnows
<1> QED BY <1>1, <1>2, <1>4, <1>5 DEF RegistryInv

\* What is known before a step.
LEMMA Known ==
  ASSUME RegistryInv, NEW t \in Turn
  PROVE  /\ turn[t] \in Task /\ TurnKnown(turn[t])
         /\ slots \in Nat /\ waiters \in Seq(Turn) /\ RunOf[t] \in Run
         /\ row \in [Run ->
              [status : {"new", "running", "awaiting", "completed", "failed", "cancelled"},
               owner : Turn \union {NoTurn}]]
  BY RegistryAssumption DEF RegistryInv, TypeOK, Task, TasksKnown

\* A turn that leaves the queue leaves the others in it.
LEMMA Queue ==
  ASSUME waiters \in Seq(Turn), NEW t \in Turn
  PROVE  Without(t) \in Seq(Turn)
<1>1. CASE \E i \in 1..Len(waiters) : waiters[i] = t
  <2> DEFINE i == CHOOSE n \in 1..Len(waiters) : waiters[n] = t
  <2>1. i \in 1..Len(waiters)
    BY <1>1
  <2> HIDE DEF i
  <2>2. /\ SubSeq(waiters, 1, i - 1) \in Seq(Turn)
        /\ SubSeq(waiters, i + 1, Len(waiters)) \in Seq(Turn)
    BY <2>1
  <2>3. Without(t) = SubSeq(waiters, 1, i - 1) \o SubSeq(waiters, i + 1, Len(waiters))
    BY <1>1 DEF Without, i
  <2> QED BY <2>2, <2>3
<1>2. CASE ~\E i \in 1..Len(waiters) : waiters[i] = t
  BY <1>2 DEF Without
<1> QED BY <1>1, <1>2

-----------------------------------------------------------------------------
(* The steps of a task                                                      *)

LEMMA StartStep ==
  ASSUME RegistryInv, NEW t \in Turn, Start(t)
  PROVE  RegistryInv'
<1>1. turn[t] \in Task /\ TurnKnown(turn[t]) /\ At(t, "created") /\ turn[t].must = "none"
  BY Known DEF Start
<1>2. UNCHANGED <<row, tasks, ordered, drain>>
  BY DEF Start
<1>3. CASE MustQueue
  <2> DEFINE new == [turn[t] EXCEPT !.pc = "waiting", !.beat = "running"]
  <2>1. new \in Task /\ TurnKnown(new) /\ new.holds = turn[t].holds
        /\ new.cleanup = turn[t].cleanup
    BY <1>1 DEF At, Task, TurnKnown
  <2>2. Set(t, new) /\ waiters' = Append(waiters, t) /\ slots' = slots
    BY <1>3 DEF Start
  <2>3. waiters' \in Seq(Turn)
    BY <2>2, Known
  <2>4. Live(t)
    BY <1>1 DEF Live, At
  <2> HIDE DEF new
  <2> QED BY <1>2, <2>1, <2>2, <2>3, <2>4, Known, OrdinaryStep
<1>4. CASE ~MustQueue
  <2> DEFINE new == [turn[t] EXCEPT !.pc = "working", !.holds = TRUE, !.entered = TRUE]
  <2>1. new \in Task /\ TurnKnown(new) /\ new.holds /\ ~turn[t].holds
        /\ new.cleanup = turn[t].cleanup
    BY <1>1 DEF At, Task, TurnKnown
  <2>2. Set(t, new) /\ slots' = slots - 1 /\ waiters' = waiters
    BY <1>4 DEF Start
  <2>3. slots' \in Nat
    BY <1>4, <2>2, Known DEF MustQueue
  <2>4. Live(t)
    BY <1>1 DEF Live, At
  <2> HIDE DEF new
  <2> QED BY <1>2, <2>1, <2>2, <2>3, <2>4, Known, OrdinaryStep
<1> QED BY <1>3, <1>4

LEMMA AdmitStep ==
  ASSUME RegistryInv, NEW t \in Turn, Admit(t)
  PROVE  RegistryInv'
<1> DEFINE new == [turn[t] EXCEPT !.pc = "joining", !.holds = TRUE,
                            !.beat = IF @ = "running" THEN "stopping" ELSE @]
<1>1. turn[t] \in Task /\ TurnKnown(turn[t])
  BY Known
<1>2. new \in Task /\ TurnKnown(new) /\ new.holds /\ ~turn[t].holds
      /\ new.cleanup = turn[t].cleanup
  BY <1>1 DEF Admit, At, Task, TurnKnown
<1>3. Set(t, new) /\ slots' = slots - 1 /\ UNCHANGED <<tasks, ordered, drain>>
  BY DEF Admit
<1>4. waiters' \in Seq(Turn)
  BY Known DEF Admit
<1>5. Live(t)
  BY <1>1, <1>2, <1>3 DEF Admit, At, Live
<1>6. slots' \in Nat
  BY <1>3, Known DEF Admit
<1> HIDE DEF new
<1> QED BY <1>1, <1>2, <1>3, <1>4, <1>5, <1>6, Known, OrdinaryStep DEF Admit

LEMMA EnterStep ==
  ASSUME RegistryInv, NEW t \in Turn, Enter(t)
  PROVE  RegistryInv'
<1> DEFINE new == [turn[t] EXCEPT !.pc = "working", !.entered = TRUE]
<1>1. turn[t] \in Task /\ TurnKnown(turn[t])
  BY Known
<1>2. new \in Task /\ TurnKnown(new) /\ new.holds = turn[t].holds
      /\ new.cleanup = turn[t].cleanup
  BY <1>1 DEF Enter, At, Task, TurnKnown, MayEnter
<1>3. Set(t, new) /\ slots' = slots /\ UNCHANGED <<tasks, ordered, drain>>
  BY DEF Enter, MayEnter
<1>4. waiters' \in Seq(Turn)
  BY Known DEF Enter
<1>5. Live(t)
  BY <1>1, <1>2, <1>3 DEF Enter, At, Live
<1>6. slots' \in Nat
  BY <1>3, Known DEF Enter
<1> HIDE DEF new
<1> QED BY <1>1, <1>2, <1>3, <1>4, <1>5, <1>6, Known, OrdinaryStep DEF Enter

LEMMA BeatEndsStep ==
  ASSUME RegistryInv, NEW t \in Turn, BeatEnds(t)
  PROVE  RegistryInv'
<1> DEFINE new == [turn[t] EXCEPT !.beat = "over"]
<1>1. turn[t] \in Task /\ TurnKnown(turn[t])
  BY Known
<1>2. new \in Task /\ TurnKnown(new) /\ new.holds = turn[t].holds
      /\ new.cleanup = turn[t].cleanup
  BY <1>1 DEF BeatEnds, At, Task, TurnKnown
<1>3. Set(t, new) /\ slots' = slots /\ UNCHANGED <<tasks, ordered, drain>>
  BY DEF BeatEnds
<1>4. waiters' \in Seq(Turn)
  BY Known DEF BeatEnds
<1>5. Live(t)' => Live(t)
  BY <1>1, <1>2, <1>3 DEF BeatEnds, Live, Set, RegistryInv, TypeOK, Task
<1>6. slots' \in Nat
  BY <1>3, Known DEF BeatEnds
<1> HIDE DEF new
<1> QED BY <1>1, <1>2, <1>3, <1>4, <1>5, <1>6, Known, OrdinaryStep DEF BeatEnds

LEMMA NeverStartsStep ==
  ASSUME RegistryInv, NEW t \in Turn, NeverStarts(t)
  PROVE  RegistryInv'
<1> DEFINE new == [turn[t] EXCEPT !.pc = "done"]
<1>1. turn[t] \in Task /\ TurnKnown(turn[t])
  BY Known
<1>2. new \in Task /\ TurnKnown(new) /\ new.holds = turn[t].holds
      /\ new.cleanup = turn[t].cleanup
  BY <1>1 DEF NeverStarts, At, Task, TurnKnown
<1>3. Set(t, new) /\ slots' = slots /\ UNCHANGED <<tasks, ordered, drain>>
  BY DEF NeverStarts
<1>4. waiters' \in Seq(Turn)
  BY Known DEF NeverStarts
<1>5. Live(t)
  BY <1>1, <1>2, <1>3 DEF NeverStarts, At, Live
<1>6. slots' \in Nat
  BY <1>3, Known DEF NeverStarts
<1> HIDE DEF new
<1> QED BY <1>1, <1>2, <1>3, <1>4, <1>5, <1>6, Known, OrdinaryStep DEF NeverStarts

LEMMA TakeCancelStep ==
  ASSUME RegistryInv, NEW t \in Turn, TakeCancel(t)
  PROVE  RegistryInv'
<1> DEFINE new == Interrupted(turn[t], turn[t].must)
<1>1. turn[t] \in Task /\ TurnKnown(turn[t])
  BY Known
<1>2. new \in Task /\ TurnKnown(new) /\ new.holds = turn[t].holds
      /\ new.cleanup = turn[t].cleanup
  BY <1>1 DEF TakeCancel, At, Task, TurnKnown, Interrupted
<1>3. Set(t, new) /\ slots' = slots /\ UNCHANGED <<tasks, ordered, drain>>
  BY DEF TakeCancel, Interrupted
<1>4. waiters' \in Seq(Turn)
  BY Known, Queue DEF TakeCancel
<1>5. Live(t)
  BY <1>1, <1>2, <1>3 DEF TakeCancel, At, Live
<1>6. slots' \in Nat
  BY <1>3, Known DEF TakeCancel
<1> HIDE DEF new
<1> QED BY <1>1, <1>2, <1>3, <1>4, <1>5, <1>6, Known, OrdinaryStep DEF TakeCancel

LEMMA ExpireStep ==
  ASSUME RegistryInv, NEW t \in Turn, Expire(t)
  PROVE  RegistryInv'
<1> DEFINE new == Interrupted(turn[t], "deadline")
<1>1. turn[t] \in Task /\ TurnKnown(turn[t])
  BY Known
<1>2. new \in Task /\ TurnKnown(new) /\ new.holds = turn[t].holds
      /\ new.cleanup = turn[t].cleanup
  BY <1>1 DEF Expire, At, Task, TurnKnown, Interrupted, Overdue, Cause
<1>3. Set(t, new) /\ slots' = slots /\ UNCHANGED <<tasks, ordered, drain>>
  BY DEF Expire, Interrupted, Overdue, Cause
<1>4. waiters' \in Seq(Turn)
  BY Known, Queue DEF Expire
<1>5. Live(t)
  BY <1>1, <1>2, <1>3 DEF Expire, At, Live, Overdue
<1>6. slots' \in Nat
  BY <1>3, Known DEF Expire
<1> HIDE DEF new
<1> QED BY <1>1, <1>2, <1>3, <1>4, <1>5, <1>6, Known, OrdinaryStep DEF Expire

LEMMA CutShortStep ==
  ASSUME RegistryInv, NEW t \in Turn, CutShort(t)
  PROVE  RegistryInv'
<1> DEFINE new == [turn[t] EXCEPT !.pc = "done", !.must = "none", !.cut = TRUE]
<1>1. turn[t] \in Task /\ TurnKnown(turn[t])
  BY Known
<1>2. new \in Task /\ TurnKnown(new) /\ new.holds = turn[t].holds
      /\ new.cleanup = turn[t].cleanup
  BY <1>1 DEF CutShort, At, Task, TurnKnown
<1>3. Set(t, new) /\ slots' = slots /\ UNCHANGED <<tasks, ordered, drain>>
  BY DEF CutShort
<1>4. waiters' \in Seq(Turn)
  BY Known DEF CutShort
<1>5. Live(t)
  BY <1>1, <1>2, <1>3 DEF CutShort, At, Live
<1>6. slots' \in Nat
  BY <1>3, Known DEF CutShort
<1> HIDE DEF new
<1> QED BY <1>1, <1>2, <1>3, <1>4, <1>5, <1>6, Known, OrdinaryStep DEF CutShort

\* What a settlement writes is a row.
LEMMA Rows ==
  ASSUME RegistryInv, NEW t \in Turn, NEW cause, Settles(t, cause)
  PROVE  row' \in [Run ->
           [status : {"new", "running", "awaiting", "completed", "failed", "cancelled"},
            owner : Turn \union {NoTurn}]]
  BY Known DEF Settles

LEMMA RevokeStep ==
  ASSUME RegistryInv, NEW t \in Turn, Revoke(t)
  PROVE  RegistryInv'
<1>1. PICK cause \in {"lease", "cancel"} : Set(t, Revoked(turn[t], cause))
  BY DEF Revoke
<1> DEFINE why == IF turn[t].reason = "none" THEN cause ELSE turn[t].reason
           told == [turn[t] EXCEPT !.beat = "over", !.reason = why]
           new == Revoked(turn[t], cause)
<1>2. turn[t] \in Task /\ TurnKnown(turn[t]) /\ turn[t].beat = "running"
  BY Known DEF Revoke
<1>3. why \in Cause /\ why # "none"
  BY <1>2 DEF Task, Cause
<1>4. /\ told \in Task /\ told.pc = turn[t].pc /\ told.must = turn[t].must /\ told.beat = "over"
      /\ told.reason = why /\ told.holds = turn[t].holds /\ told.entered = turn[t].entered
      /\ told.settled = turn[t].settled /\ told.cleanup = turn[t].cleanup
      /\ told.open = turn[t].open /\ told.cut = turn[t].cut
  BY <1>2, <1>3 DEF Task
<1>5. new = IF told.pc = "settling" \/ told.must # "none" THEN told
            ELSE [told EXCEPT !.must = why]
  BY DEF Revoked, Cancelled
<1> HIDE DEF told, new, why
<1>6. /\ new \in Task /\ new.pc = turn[t].pc /\ new.beat = "over"
      /\ new.holds = turn[t].holds /\ new.entered = turn[t].entered
      /\ new.settled = turn[t].settled /\ new.cleanup = turn[t].cleanup
      /\ new.open = turn[t].open /\ new.cut = turn[t].cut
      /\ new.must = "none" => new.pc = "settling"
      /\ new.pc = "settling" \/ new.must # "none"
  BY <1>3, <1>4, <1>5 DEF Task
<1>7. TurnKnown(new)
  BY <1>2, <1>6 DEF TurnKnown
<1>8. Set(t, new)
  BY <1>1 DEF new
<1>9. Live(t)' => Live(t)
  BY <1>6, <1>8 DEF Live, Set, RegistryInv, TypeOK
<1> QED BY <1>6, <1>7, <1>8, <1>9, Known, OrdinaryStep DEF Revoke

LEMMA SettleStep ==
  ASSUME RegistryInv, NEW t \in Turn, Settle(t)
  PROVE  RegistryInv'
<1> DEFINE new == [turn[t] EXCEPT !.pc = "closing", !.settled = @ + 1,
                                  !.beat = IF @ = "running" THEN "stopping" ELSE @]
<1>1. turn[t] \in Task /\ TurnKnown(turn[t]) /\ At(t, "settling")
  BY Known DEF Settle
<1>2. /\ new \in Task
      /\ new.pc = "closing" /\ new.must = turn[t].must /\ new.reason = turn[t].reason
      /\ new.beat = (IF turn[t].beat = "running" THEN "stopping" ELSE turn[t].beat)
      /\ new.holds = turn[t].holds /\ new.entered = turn[t].entered
      /\ new.settled = 1 /\ new.cleanup = turn[t].cleanup /\ new.open = turn[t].open
      /\ new.cut = turn[t].cut
  <2>1. turn[t].settled = 0
    BY <1>1 DEF At, TurnKnown
  <2>2. new = [turn[t] EXCEPT !.pc = "closing", !.settled = 1,
                              !.beat = IF @ = "running" THEN "stopping" ELSE @]
    BY <2>1
  <2> HIDE DEF new
  <2> QED BY <1>1, <2>2 DEF Task
<1>3. TurnKnown(new)
  BY <1>1, <1>2 DEF At, TurnKnown
<1>4. Set(t, new)
  BY DEF Settle
<1>5. Live(t)
  BY <1>1 DEF Live, At
<1> HIDE DEF new
<1> QED BY <1>2, <1>3, <1>4, <1>5, Known, Rows, OrdinaryStep DEF Settle

LEMMA CleanUpStep ==
  ASSUME RegistryInv, NEW t \in Turn, CleanUp(t)
  PROVE  RegistryInv'
<1> DEFINE new == [turn[t] EXCEPT !.cleanup = "done", !.settled = @ + 1, !.open = FALSE]
<1>1. turn[t] \in Task /\ TurnKnown(turn[t]) /\ turn[t].cleanup = "pending"
  BY Known DEF CleanUp
<1>2. /\ new \in Task
      /\ new.pc = turn[t].pc /\ new.must = turn[t].must /\ new.reason = turn[t].reason
      /\ new.beat = turn[t].beat /\ new.holds = turn[t].holds /\ new.entered = turn[t].entered
      /\ new.settled = 1 /\ new.cleanup = "done" /\ new.open = FALSE
      /\ new.cut = turn[t].cut
  <2>1. turn[t].settled = 0
    BY <1>1 DEF TurnKnown
  <2>2. new = [turn[t] EXCEPT !.cleanup = "done", !.settled = 1, !.open = FALSE]
    BY <2>1
  <2> HIDE DEF new
  <2> QED BY <1>1, <2>2 DEF Task
<1>3. TurnKnown(new)
  BY <1>1, <1>2 DEF TurnKnown
<1>4. Set(t, new)
  BY DEF CleanUp
<1>5. Live(t)' => Live(t)
  BY <1>2, <1>4 DEF Live, Set, RegistryInv, TypeOK
<1> HIDE DEF new
<1> QED BY <1>2, <1>3, <1>4, <1>5, Known, Rows, OrdinaryStep DEF CleanUp

\* The end of the finally block.
LEMMA ClosedKnown ==
  ASSUME RegistryInv, NEW t \in Turn, Closed(t, turn[t]), turn[t].pc \in {"working", "closing"},
         UNCHANGED <<tasks, waiters, ordered, drain>>,
         row' \in [Run ->
           [status : {"new", "running", "awaiting", "completed", "failed", "cancelled"},
            owner : Turn \union {NoTurn}]]
  PROVE  RegistryInv'
<1> DEFINE new == [turn[t] EXCEPT !.pc = "done", !.holds = FALSE, !.open = FALSE, !.must = "none"]
<1>1. turn[t] \in Task /\ TurnKnown(turn[t])
  BY Known
<1>2. new \in Task /\ TurnKnown(new) /\ ~new.holds /\ new.cleanup = turn[t].cleanup
  BY <1>1 DEF Task, TurnKnown
<1>3. Set(t, new) /\ slots' = IF turn[t].holds THEN slots + 1 ELSE slots
  BY DEF Closed, Releases
<1>4. /\ slots' \in Nat
      /\ \/ slots' = slots /\ new.holds = turn[t].holds
         \/ slots' = slots + 1 /\ ~new.holds /\ turn[t].holds
  <2>1. new.holds = FALSE /\ turn[t].holds \in BOOLEAN /\ slots \in Nat
    BY <1>1, Known DEF Task
  <2> HIDE DEF new
  <2>2. CASE turn[t].holds
    <3>1. slots' = slots + 1
      BY <1>3, <2>2
    <3>2. slots' \in Nat
      BY <2>1, <3>1
    <3>3. ~new.holds
      BY <1>2
    <3> QED BY <2>2, <3>1, <3>2, <3>3
  <2>3. CASE ~turn[t].holds
    <3>1. turn[t].holds = FALSE
      BY <2>1, <2>3
    <3> QED BY <1>3, <2>1, <3>1
  <2> QED BY <2>2, <2>3
<1>5. Live(t)
  BY DEF Live
<1> HIDE DEF new
<1> QED BY <1>2, <1>3, <1>4, <1>5, Known, OrdinaryStep

LEMMA CloseTurnStep ==
  ASSUME RegistryInv, NEW t \in Turn, CloseTurn(t)
  PROVE  RegistryInv'
  BY ClosedKnown, Known DEF CloseTurn, At

LEMMA WorkerEndsStep ==
  ASSUME RegistryInv, NEW t \in Turn, WorkerEnds(t)
  PROVE  RegistryInv'
<1>1. /\ turn[t] \in Task /\ TurnKnown(turn[t]) /\ turn[t].pc = "working"
      /\ UNCHANGED <<tasks, waiters, ordered, drain>>
  BY Known DEF WorkerEnds, At
<1>2. row' \in [Run ->
        [status : {"new", "running", "awaiting", "completed", "failed", "cancelled"},
         owner : Turn \union {NoTurn}]]
  BY Known DEF WorkerEnds
<1>3. CASE turn[t].beat = "none"
  BY <1>1, <1>2, <1>3, ClosedKnown DEF WorkerEnds
<1>4. CASE turn[t].beat # "none"
  <2> DEFINE new == [turn[t] EXCEPT !.pc = "closing", !.must = "none"]
  <2>1. new \in Task /\ TurnKnown(new) /\ new.holds = turn[t].holds
        /\ new.cleanup = turn[t].cleanup
    BY <1>1, <1>4 DEF Task, TurnKnown
  <2>2. Set(t, new) /\ slots' = slots
    BY <1>4 DEF WorkerEnds
  <2>3. Live(t)
    BY <1>1 DEF Live
  <2> HIDE DEF new
  <2> QED BY <1>1, <1>2, <2>1, <2>2, <2>3, Known, OrdinaryStep
<1> QED BY <1>3, <1>4

-----------------------------------------------------------------------------
(* Requests, the registry and rows settled elsewhere                        *)

\* The callback of a task that is over finds nothing to replace: its cleanup,
\* where one is due, was scheduled when it was cancelled.
LEMMA FinishStep ==
  ASSUME RegistryInv, NEW t \in Turn, Finish(t)
  PROVE  RegistryInv'
<1> DEFINE new == [turn[t] EXCEPT !.pc = "forgotten"]
<1>1. turn[t] \in Task /\ TurnKnown(turn[t]) /\ turn[t].pc = "done"
  BY Known DEF Finish, At
<1>2. turn[t].entered \/ turn[t].settled > 0 \/ turn[t].cleanup = "pending"
  BY <1>1 DEF TurnKnown
<1>3. Set(t, new)
  BY <1>2 DEF Finish, Cleaned
<1>4. new \in Task /\ TurnKnown(new) /\ new.pc = "forgotten" /\ new.holds = turn[t].holds
      /\ new.cleanup = turn[t].cleanup
  BY <1>1 DEF Task, TurnKnown
<1>5. slots' = slots /\ slots' \in Nat /\ UNCHANGED <<row, waiters, ordered, drain>>
  BY Known DEF Finish
<1> HIDE DEF new
<1>6. /\ turn' \in [Turn -> Task] /\ turn'[t] = new
      /\ \A u \in Turn : u # t => turn'[u] = turn[u]
      /\ TasksKnown' /\ SlotsCounted' /\ slots' \in 0..MaxTurns
  BY <1>3, <1>4, <1>5, OneTask
<1>7. \A u \in Turn : /\ Live(u)' => Live(u) /\ u # t
                      /\ Running(u)' => Running(u)
  BY <1>4, <1>6 DEF Live, Running
<1>8. tasks \in [Run -> Turn \union {NoTurn}] /\ RunOf \in [Turn -> Run]
  BY RegistryAssumption DEF RegistryInv, TypeOK
<1>9. tasks' = IF tasks[RunOf[t]] = t THEN [tasks EXCEPT ![RunOf[t]] = NoTurn] ELSE tasks
  BY DEF Finish, Registered
<1>10. LiveIsRegistered'
  BY <1>7, <1>8, <1>9 DEF RegistryInv, LiveIsRegistered
<1>11. TypeOK'
  BY <1>5, <1>6, <1>8, <1>9 DEF RegistryInv, TypeOK, Task
<1>12. DrainKnows'
  BY <1>5, <1>7 DEF RegistryInv, DrainKnows
<1> QED BY <1>6, <1>10, <1>11, <1>12 DEF RegistryInv

LEMMA SpawnStep ==
  ASSUME RegistryInv, NEW t \in Turn, Spawn(t)
  PROVE  RegistryInv'
<1> DEFINE r == RunOf[t]
           taken == tasks[r] # NoTurn /\ Live(tasks[r])
           new == [Unused EXCEPT !.pc = IF taken THEN "refused" ELSE "created",
                                 !.open = ~taken]
<1>1. turn[t] \in Task /\ TurnKnown(turn[t]) /\ turn[t].pc = "unused" /\ drain.pc = "off"
  BY Known DEF Spawn, At, Serving
<1>2. /\ Set(t, new) /\ row' = [row EXCEPT ![r] = [status |-> "running", owner |-> t]]
      /\ tasks' = IF taken THEN tasks ELSE [tasks EXCEPT ![r] = t]
      /\ UNCHANGED <<slots, waiters, ordered, drain>>
  BY DEF Spawn
<1>3. tasks \in [Run -> Turn \union {NoTurn}] /\ RunOf \in [Turn -> Run] /\ r \in Run
  BY RegistryAssumption DEF RegistryInv, TypeOK
<1>4. /\ new.pc = (IF taken THEN "refused" ELSE "created") /\ new.open = ~taken
      /\ new.must = "none" /\ new.reason = "none" /\ new.beat = "none" /\ new.holds = FALSE
      /\ new.entered = FALSE /\ new.settled = 0 /\ new.cleanup = "none" /\ new.cut = FALSE
      /\ new \in Task
  BY DEF Unused, Task
<1> HIDE DEF new
<1>5. TurnKnown(new) /\ new.holds = turn[t].holds
  BY <1>1, <1>4 DEF TurnKnown, Task
<1>6. slots' = slots /\ slots' \in Nat
  BY <1>2, Known
<1>7. /\ turn' \in [Turn -> Task] /\ turn'[t] = new
      /\ \A u \in Turn : u # t => turn'[u] = turn[u]
      /\ TasksKnown' /\ SlotsCounted' /\ slots' \in 0..MaxTurns
  BY <1>2, <1>4, <1>5, <1>6, OneTask
<1>8. LiveIsRegistered'
  <2> SUFFICES ASSUME NEW u \in Turn, Live(u)'
               PROVE  tasks'[RunOf[u]] = u
    BY DEF LiveIsRegistered
  <2>1. CASE u = t
    BY <1>2, <1>3, <1>4, <1>7, <2>1 DEF Live
  <2>2. CASE u # t
    <3>1. Live(u) /\ tasks[RunOf[u]] = u /\ u # NoTurn
      BY <1>7, <2>2, RegistryAssumption DEF Live, RegistryInv, LiveIsRegistered
    <3>2. RunOf[u] = r => taken
      BY <3>1
    <3> QED BY <1>2, <1>3, <3>1, <3>2
  <2> QED BY <2>1, <2>2
<1>9. row' \in [Run ->
        [status : {"new", "running", "awaiting", "completed", "failed", "cancelled"},
         owner : Turn \union {NoTurn}]]
  BY <1>2, <1>3, Known
<1>10. TypeOK'
  BY <1>2, <1>3, <1>7, <1>9 DEF RegistryInv, TypeOK, Task
<1>11. DrainKnows'
  BY <1>1, <1>2 DEF RegistryInv, DrainKnows
<1> QED BY <1>7, <1>8, <1>10, <1>11 DEF RegistryInv

\* A task that never began gets its cleanup before the mark.
Markable(task) ==
  \/ task.pc \in {"waiting", "joining", "working", "settling", "closing"}
  \/ task.pc = "created" /\ task.cleanup # "none"

\* A cancellation leaves a task where it is and marks it.
LEMMA CancelledKnown ==
  ASSUME NEW t \in Turn, turn[t] \in Task, TurnKnown(turn[t]), NEW cause \in Cause,
         Markable(turn[t])
  PROVE  /\ Cancelled(turn[t], cause) \in Task /\ TurnKnown(Cancelled(turn[t], cause))
         /\ Cancelled(turn[t], cause).pc = turn[t].pc
         /\ Cancelled(turn[t], cause).holds = turn[t].holds
         /\ Cancelled(turn[t], cause).cleanup = turn[t].cleanup
<1> DEFINE new == [turn[t] EXCEPT !.must = cause]
<1>1. CASE turn[t].pc = "settling" \/ turn[t].must # "none"
  BY <1>1 DEF Cancelled
<1>2. CASE ~(turn[t].pc = "settling" \/ turn[t].must # "none")
  <2>1. cause # "none"
    BY DEF Cause
  <2>2. /\ new \in Task /\ new.pc = turn[t].pc /\ new.must = cause /\ new.reason = turn[t].reason
        /\ new.beat = turn[t].beat /\ new.holds = turn[t].holds /\ new.entered = turn[t].entered
        /\ new.settled = turn[t].settled /\ new.cleanup = turn[t].cleanup
        /\ new.open = turn[t].open /\ new.cut = turn[t].cut
    BY DEF Task
  <2>3. Cancelled(turn[t], cause) = new
    BY <1>2 DEF Cancelled
  <2> HIDE DEF new
  <2>4. TurnKnown(new)
    BY <2>1, <2>2, <1>2 DEF TurnKnown, Markable
  <2> QED BY <2>2, <2>3, <2>4
<1> QED BY <1>1, <1>2

LEMMA DeliverCancelStep ==
  ASSUME RegistryInv, NEW r \in Run, DeliverCancel(r)
  PROVE  RegistryInv'
<1> DEFINE t == tasks[r]
<1>1. drain.pc = "off" /\ ordered' \subseteq Run /\ UNCHANGED <<row, tasks, slots, waiters, drain>>
  BY DEF DeliverCancel, RegistryInv, DrainKnows, TypeOK
<1>2. DrainKnows'
  BY <1>1 DEF DrainKnows
<1>3. CASE t # NoTurn /\ Live(t)
  <2> DEFINE task == IF Started(t) THEN turn[t] ELSE Cleaned(turn[t])
             new == Cancelled(task, "cancel")
  <2>1. t \in Turn
    BY <1>3 DEF RegistryInv, TypeOK
  <2>2. turn[t] \in Task /\ TurnKnown(turn[t]) /\ slots \in Nat
    BY <2>1, Known
  <2>3. Set(t, new)
    BY <1>3 DEF DeliverCancel
  <2>4. /\ task \in Task /\ task.pc = turn[t].pc /\ task.holds = turn[t].holds
        /\ task.pc = "created" => task.cleanup # "none"
    <3>1. CASE Started(t)
      BY <2>2, <3>1 DEF Started
    <3>2. CASE ~Started(t)
      <4>1. task = Cleaned(turn[t])
        BY <3>2
      <4> HIDE DEF task, t
      <4> QED BY <2>2, <4>1 DEF Cleaned, Task, Cause
    <3> QED BY <3>1, <3>2
  <2>5. task.pc # "created" => task = turn[t]
    BY <1>3, <2>4 DEF Started, Live
  <2>6. task.pc = "created" => /\ new \in Task /\ TurnKnown(new)
                               /\ new.pc = task.pc /\ new.holds = task.holds
    <3> SUFFICES ASSUME task.pc = "created"
                 PROVE  /\ new \in Task /\ TurnKnown(new)
                        /\ new.pc = task.pc /\ new.holds = task.holds
      OBVIOUS
    <3>1. task = Cleaned(turn[t]) /\ turn[t].pc = "created"
      BY <2>4 DEF Started
    <3>2. CASE turn[t].cleanup = "none"
      <4> DEFINE made == [turn[t] EXCEPT !.cleanup = "pending", !.reason = "cancel",
                                         !.must = "cancel"]
      <4>1. turn[t].must = "none" /\ turn[t].settled = 0
        BY <2>2, <3>1, <3>2 DEF TurnKnown
      <4>2. new = made
        BY <2>2, <3>1, <3>2, <4>1 DEF Cleaned, Cancelled, Task
      <4>3. /\ made \in Task /\ made.pc = "created" /\ made.must = "cancel"
            /\ made.reason = "cancel" /\ made.cleanup = "pending"
            /\ made.beat = turn[t].beat /\ made.holds = turn[t].holds
            /\ made.entered = turn[t].entered /\ made.settled = 0
            /\ made.open = turn[t].open /\ made.cut = turn[t].cut
        BY <2>2, <3>1, <4>1 DEF Task, Cause
      <4> HIDE DEF made
      <4>4. TurnKnown(made)
        BY <2>2, <3>1, <4>3 DEF TurnKnown
      <4> QED BY <2>4, <3>1, <4>2, <4>3, <4>4
    <3>3. CASE turn[t].cleanup # "none"
      <4>1. task = turn[t]
        BY <3>1, <3>3 DEF Cleaned
      <4> HIDE DEF task, t
      <4>2. Markable(turn[t]) /\ "cancel" \in Cause
        BY <3>1, <3>3 DEF Markable, Cause
      <4> QED BY <2>1, <2>2, <4>1, <4>2, CancelledKnown
    <3> QED BY <3>2, <3>3
  <2>7. new \in Task /\ TurnKnown(new) /\ new.pc = turn[t].pc /\ new.holds = turn[t].holds
    <3>1. CASE task.pc = "created"
      BY <2>4, <2>6, <3>1
    <3>2. CASE task.pc # "created"
      <4>1. /\ task = turn[t]
            /\ turn[t].pc \in {"waiting", "joining", "working", "settling", "closing"}
        BY <1>3, <2>4, <2>5, <3>2 DEF Live
      <4>2. Markable(turn[t]) /\ "cancel" \in Cause
        BY <4>1 DEF Markable, Cause
      <4> HIDE DEF task, t
      <4> QED BY <2>1, <2>2, <4>1, <4>2, CancelledKnown
    <3> QED BY <3>1, <3>2
  <2> HIDE DEF new
  <2>8. /\ turn' \in [Turn -> Task] /\ turn'[t] = new
        /\ \A u \in Turn : u # t => turn'[u] = turn[u]
        /\ TasksKnown' /\ SlotsCounted' /\ slots' \in 0..MaxTurns
    BY <1>1, <2>1, <2>2, <2>3, <2>7, OneTask
  <2>9. TypeOK'
    BY <1>1, <2>8 DEF RegistryInv, TypeOK, Task
  <2>10. LiveIsRegistered'
    BY <1>1, <2>7, <2>8 DEF RegistryInv, LiveIsRegistered, Live
  <2> QED BY <1>2, <2>8, <2>9, <2>10 DEF RegistryInv
<1>4. CASE ~(t # NoTurn /\ Live(t))
  <2>1. turn' = turn
    BY <1>4 DEF DeliverCancel
  <2> QED BY <1>1, <1>2, <2>1
        DEF RegistryInv, TypeOK, LiveIsRegistered, Live, TasksKnown, SlotsCounted
<1> QED BY <1>3, <1>4

\* A step that touches no task, no slot and not the drain.
LEMMA RowStep ==
  ASSUME RegistryInv, UNCHANGED <<turn, tasks, slots, waiters, drain>>,
         row' \in [Run ->
           [status : {"new", "running", "awaiting", "completed", "failed", "cancelled"},
            owner : Turn \union {NoTurn}]],
         ordered' = ordered \/ (drain.pc = "off" /\ ordered' \subseteq Run)
  PROVE  RegistryInv'
<1>1. TypeOK'
  BY DEF RegistryInv, TypeOK
<1>2. LiveIsRegistered' /\ TasksKnown' /\ SlotsCounted'
  BY DEF RegistryInv, LiveIsRegistered, Live, TasksKnown, SlotsCounted
<1>3. DrainKnows'
  BY DEF RegistryInv, DrainKnows, Running, Live
<1> QED BY <1>1, <1>2, <1>3 DEF RegistryInv

LEMMA OrderCancelStep ==
  ASSUME RegistryInv, NEW r \in Run, NEW here \in BOOLEAN, OrderCancel(r, here)
  PROVE  RegistryInv'
<1>1. ordered' \subseteq Run /\ drain.pc = "off"
  BY DEF OrderCancel, Serving, RegistryInv, TypeOK
<1>2. row' \in [Run ->
        [status : {"new", "running", "awaiting", "completed", "failed", "cancelled"},
         owner : Turn \union {NoTurn}]]
  BY DEF OrderCancel, RegistryInv, TypeOK
<1> QED BY <1>1, <1>2, RowStep DEF OrderCancel

LEMMA ReapStep ==
  ASSUME RegistryInv, NEW r \in Run, Reap(r)
  PROVE  RegistryInv'
<1>1. row' \in [Run ->
        [status : {"new", "running", "awaiting", "completed", "failed", "cancelled"},
         owner : Turn \union {NoTurn}]]
  BY DEF Reap, RegistryInv, TypeOK
<1> QED BY <1>1, RowStep DEF Reap

LEMMA SuspendStep ==
  ASSUME RegistryInv, NEW t \in Turn, Suspend(t)
  PROVE  RegistryInv'
<1>1. row' \in [Run ->
        [status : {"new", "running", "awaiting", "completed", "failed", "cancelled"},
         owner : Turn \union {NoTurn}]]
  BY Known DEF Suspend
<1> QED BY <1>1, RowStep DEF Suspend

-----------------------------------------------------------------------------
(* The drain                                                                *)

LEMMA DrainStartsStep ==
  ASSUME RegistryInv, DrainStarts
  PROVE  RegistryInv'
<1>1. /\ drain' = [pc |-> "waiting", of |-> InFlight]
      /\ UNCHANGED <<turn, row, tasks, slots, waiters, ordered>>
  BY DEF DrainStarts
<1>2. \A t \in Turn : Running(t) => t \in InFlight
  BY DEF RegistryInv, LiveIsRegistered, Running, InFlight, Registered
<1>3. TypeOK'
  BY <1>1 DEF RegistryInv, TypeOK, InFlight
<1>4. LiveIsRegistered' /\ TasksKnown' /\ SlotsCounted'
  BY <1>1 DEF RegistryInv, LiveIsRegistered, Live, TasksKnown, SlotsCounted
<1>5. \A t \in Turn : Running(t)' = Running(t)
  BY <1>1 DEF Running, Live
<1>6. ordered' = {}
  BY DEF DrainStarts
<1>7. DrainKnows'
  BY <1>1, <1>2, <1>5, <1>6 DEF DrainKnows
<1> QED BY <1>3, <1>4, <1>7 DEF RegistryInv

LEMMA DrainCancelsStep ==
  ASSUME RegistryInv, DrainCancels
  PROVE  RegistryInv'
<1>1. /\ drain.pc = "waiting" /\ drain'.pc = "stopping" /\ drain'.of = drain.of
      /\ drain' \in [pc : {"off", "waiting", "stopping", "drained", "left"}, of : SUBSET Turn]
      /\ UNCHANGED <<row, tasks, slots, waiters, ordered>>
  BY DEF DrainCancels, RegistryInv, TypeOK
<1>2. turn' = [t \in Turn |-> IF t \in drain.of /\ Live(t)
                              THEN Cancelled(turn[t], "shutdown") ELSE turn[t]]
  BY DEF DrainCancels
<1>3. ASSUME NEW t \in Turn
      PROVE  /\ turn'[t] \in Task /\ TurnKnown(turn'[t]) /\ turn'[t].pc = turn[t].pc
             /\ turn'[t].holds = turn[t].holds /\ turn'[t].cleanup = turn[t].cleanup
  <2>1. turn[t] \in Task /\ TurnKnown(turn[t])
    BY Known
  <2>2. CASE t \in drain.of /\ Live(t)
    <3>1. turn'[t] = Cancelled(turn[t], "shutdown")
      BY <1>2, <2>2
    <3>2. Markable(turn[t]) /\ "shutdown" \in Cause
      BY <2>2 DEF DrainCancels, At, Live, Markable, Cause
    <3> QED BY <2>1, <3>1, <3>2, CancelledKnown
  <2>3. CASE ~(t \in drain.of /\ Live(t))
    <3>1. turn'[t] = turn[t]
      BY <1>2, <2>3
    <3> QED BY <2>1, <3>1
  <2> QED BY <2>2, <2>3
<1>4. turn' \in [Turn -> Task]
  <2>1. turn' = [t \in Turn |-> turn'[t]]
    BY <1>2
  <2> QED BY <1>3, <2>1
<1>5. TypeOK'
  BY <1>1, <1>4 DEF RegistryInv, TypeOK, Task
<1>6. \A t \in Turn : /\ Live(t)' <=> Live(t)
                      /\ Running(t)' <=> Running(t)
  BY <1>3 DEF Live, Running
<1>7. LiveIsRegistered' /\ TasksKnown'
  BY <1>1, <1>3, <1>6 DEF RegistryInv, LiveIsRegistered, TasksKnown
<1>8. SlotsCounted'
  <2>1. Holders' = Holders
    BY <1>3 DEF Holders
  <2> QED BY <1>1, <2>1 DEF RegistryInv, SlotsCounted, Holders
<1>9. DrainKnows'
  BY <1>1, <1>6 DEF RegistryInv, DrainKnows
<1> QED BY <1>5, <1>7, <1>8, <1>9 DEF RegistryInv

LEMMA DrainOverStep ==
  ASSUME RegistryInv, DrainEnds \/ DrainGivesUp
  PROVE  RegistryInv'
<1>1. /\ drain'.pc \in {"drained", "left"} /\ drain'.of = drain.of
      /\ drain' \in [pc : {"off", "waiting", "stopping", "drained", "left"}, of : SUBSET Turn]
      /\ drain'.pc = "drained" => \A t \in drain.of : ~Running(t)
      /\ drain.pc \in {"waiting", "stopping"}
      /\ UNCHANGED <<turn, row, tasks, slots, waiters, ordered>>
  <2>1. CASE DrainEnds
    BY <2>1 DEF DrainEnds, RegistryInv, TypeOK
  <2>2. CASE DrainGivesUp
    BY <2>2 DEF DrainGivesUp, RegistryInv, TypeOK
  <2> QED BY <2>1, <2>2
<1>2. TypeOK'
  BY <1>1 DEF RegistryInv, TypeOK
<1>3. LiveIsRegistered' /\ TasksKnown' /\ SlotsCounted'
  BY <1>1 DEF RegistryInv, LiveIsRegistered, Live, TasksKnown, SlotsCounted
<1>4. \A t \in Turn : Running(t)' <=> Running(t)
  BY <1>1 DEF Running, Live
<1>5. DrainKnows'
  BY <1>1, <1>4 DEF RegistryInv, DrainKnows
<1> QED BY <1>2, <1>3, <1>5 DEF RegistryInv

-----------------------------------------------------------------------------
(* The invariant                                                            *)

LEMMA InitInv == Init => RegistryInv
<1> SUFFICES ASSUME Init PROVE RegistryInv
  OBVIOUS
<1>1. \A t \in Turn : turn[t] = Unused
  BY DEF Init
<1>2. Unused \in Task /\ TurnKnown(Unused) /\ Unused.holds = FALSE
  BY DEF Unused, Task, TurnKnown
<1>3. TypeOK
  <2>1. turn \in [Turn -> Task]
    BY <1>2 DEF Init
  <2>2. slots \in 0..MaxTurns /\ waiters \in Seq(Turn) /\ ordered \subseteq Run
    BY RegistryAssumption DEF Init
  <2>3. tasks \in [Run -> Turn \union {NoTurn}] /\ row \in [Run ->
          [status : {"new", "running", "awaiting", "completed", "failed", "cancelled"},
           owner : Turn \union {NoTurn}]]
    BY DEF Init
  <2> QED BY <2>1, <2>2, <2>3 DEF TypeOK, Task, Init
<1>4. SlotsCounted
  <2>1. {t \in Turn : turn[t].holds} = {}
    BY <1>1, <1>2
  <2>2. Cardinality({t \in Turn : turn[t].holds}) = 0
    BY <2>1, FS_EmptySet
  <2> QED BY <2>2, RegistryAssumption DEF SlotsCounted, Init
<1>5. LiveIsRegistered /\ TasksKnown
  BY <1>1, <1>2 DEF LiveIsRegistered, Live, TasksKnown, Unused
<1>6. DrainKnows
  BY DEF DrainKnows, Init
<1> QED BY <1>3, <1>4, <1>5, <1>6 DEF RegistryInv

LEMMA NextInv == RegistryInv /\ [Next]_vars => RegistryInv'
<1> SUFFICES ASSUME RegistryInv, [Next]_vars PROVE RegistryInv'
  OBVIOUS
<1>1. ASSUME NEW t \in Turn, Step(t) PROVE RegistryInv'
  BY <1>1, StartStep, NeverStartsStep, EnterStep, TakeCancelStep, SettleStep, CloseTurnStep,
     CutShortStep, FinishStep, CleanUpStep, BeatEndsStep DEF Step
<1>2. ASSUME NEW t \in Turn,
             Spawn(t) \/ Admit(t) \/ Revoke(t) \/ Expire(t) \/ Suspend(t) \/ WorkerEnds(t)
      PROVE  RegistryInv'
  BY <1>2, SpawnStep, AdmitStep, RevokeStep, ExpireStep, SuspendStep, WorkerEndsStep
<1>3. ASSUME NEW r \in Run,
             DeliverCancel(r) \/ Reap(r) \/ \E here \in BOOLEAN : OrderCancel(r, here)
      PROVE  RegistryInv'
  BY <1>3, DeliverCancelStep, ReapStep, OrderCancelStep
<1>4. ASSUME DrainStarts \/ DrainCancels \/ DrainEnds \/ DrainGivesUp PROVE RegistryInv'
  BY <1>4, DrainStartsStep, DrainCancelsStep, DrainOverStep
<1>5. ASSUME UNCHANGED vars PROVE RegistryInv'
  <2>1. UNCHANGED <<turn, tasks, slots, waiters, drain>> /\ row' = row /\ ordered' = ordered
    BY <1>5 DEF vars
  <2>2. row' \in [Run ->
          [status : {"new", "running", "awaiting", "completed", "failed", "cancelled"},
           owner : Turn \union {NoTurn}]]
    BY <2>1 DEF RegistryInv, TypeOK
  <2> QED BY <2>1, <2>2, RowStep
<1> QED BY <1>1, <1>2, <1>3, <1>4, <1>5 DEF Next

\* What is known of each task, that a slot is free or held, and that a drain
\* knows of whatever is left, in every reachable state (run_manager.py).
THEOREM RegistryIsKnown == Spec => []RegistryInv
  BY InitInv, NextInv, PTL DEF Spec

\* Who works holds a slot, and there are MaxTurns of them.
LEMMA WorkIsBounded == RegistryInv => WorkBounded
<1> SUFFICES ASSUME RegistryInv PROVE WorkBounded
  OBVIOUS
<1> DEFINE working == {t \in Turn : At(t, "working")}
<1>1. working \subseteq Holders
  BY DEF RegistryInv, TasksKnown, TurnKnown, At, Holders
<1>2. Cardinality(working) <= Cardinality(Holders) /\ Cardinality(working) \in Nat
  BY <1>1, HoldersFinite, FS_Subset, FS_CardinalityType
<1>3. slots \in Nat /\ MaxTurns \in Nat /\ slots + Cardinality(Holders) = MaxTurns
  BY RegistryAssumption DEF RegistryInv, TypeOK, SlotsCounted, Holders
<1> HIDE DEF working
<1>4. Cardinality(working) <= MaxTurns
  BY <1>2, <1>3, HoldersFinite
<1> QED BY <1>4 DEF WorkBounded, working

\* The registry knows every task that has not ended, so that a cancellation
\* reaches it, and at most MaxTurns turns are in their workers, for any turns
\* and any number of slots.
THEOREM RegistryIsKept == Spec => []RegistryKept
<1>1. RegistryInv => RegistryKept
  BY WorkIsBounded DEF RegistryInv, RegistryKept
<1> QED BY <1>1, RegistryIsKnown, PTL

\* A turn that ended without its worker is settled exactly once, whatever
\* cancelled it and wherever it was; a drain that does not give up leaves no
\* task and no cleanup behind.
THEOREM TurnsAreNotForgotten == Spec => []NoTurnForgotten
<1>1. RegistryInv => SettledOnce
  <2> SUFFICES ASSUME RegistryInv, NEW t \in Turn
               PROVE  LET over == At(t, "forgotten") /\ turn[t].cleanup # "pending"
                      IN  /\ turn[t].entered => turn[t].settled = 0
                          /\ turn[t].settled <= 1
                          /\ over /\ ~turn[t].entered => turn[t].settled = 1
                          /\ over /\ ~turn[t].cut => ~turn[t].open /\ ~turn[t].holds
    BY DEF SettledOnce
  <2>1. TurnKnown(turn[t])
    BY Known
  <2> QED BY <2>1 DEF TurnKnown, At
<1>2. RegistryInv => DrainLeavesNothing
  BY DEF RegistryInv, DrainKnows, DrainLeavesNothing
<1>3. RegistryInv => NoTurnForgotten
  BY <1>1, <1>2 DEF NoTurnForgotten
<1> QED BY <1>3, RegistryIsKnown, PTL

-----------------------------------------------------------------------------
(* Who enters a worker                                                      *)

\* A step that leaves `entered` as it was in the task it is about.
LEMMA NotEntered ==
  ASSUME RegistryInv, NEW t \in Turn, NEW new, Set(t, new), new.entered = turn[t].entered,
         NEW u \in Turn
  PROVE  turn'[u].entered = turn[u].entered
  BY DEF Set, RegistryInv, TypeOK

\* Of the steps of a task only its start and its entry after the queue.
LEMMA StepEnters ==
  ASSUME RegistryInv, NEW t \in Turn, Step(t), NEW u \in Turn,
         turn'[u].entered, ~turn[u].entered
  PROVE  u = t /\ (Start(t) \/ Enter(t))
<1>1. turn \in [Turn -> Task] /\ turn[t] \in Task
  BY Known DEF RegistryInv, TypeOK, Task
<1>2. ASSUME NEW new, Set(t, new), u # t PROVE FALSE
  BY <1>1, <1>2 DEF Set
<1>3. ~NeverStarts(t)
  <2> SUFFICES ASSUME NeverStarts(t) PROVE FALSE
    OBVIOUS
  <2> QED BY <1>1, NotEntered DEF NeverStarts, Task
<1>4. ~TakeCancel(t)
  <2> SUFFICES ASSUME TakeCancel(t) PROVE FALSE
    OBVIOUS
  <2> QED BY <1>1, NotEntered DEF TakeCancel, Interrupted, Task
<1>5. ~Settle(t)
  <2> SUFFICES ASSUME Settle(t) PROVE FALSE
    OBVIOUS
  <2> QED BY <1>1, NotEntered DEF Settle, Task
<1>6. ~CloseTurn(t)
  <2> SUFFICES ASSUME CloseTurn(t) PROVE FALSE
    OBVIOUS
  <2> QED BY <1>1, NotEntered DEF CloseTurn, Closed, Task
<1>7. ~CutShort(t)
  <2> SUFFICES ASSUME CutShort(t) PROVE FALSE
    OBVIOUS
  <2> QED BY <1>1, NotEntered DEF CutShort, Task
<1>8. ~Finish(t)
  <2> SUFFICES ASSUME Finish(t) PROVE FALSE
    OBVIOUS
  <2> QED BY <1>1, NotEntered DEF Finish, Cleaned, Task
<1>9. ~CleanUp(t)
  <2> SUFFICES ASSUME CleanUp(t) PROVE FALSE
    OBVIOUS
  <2> QED BY <1>1, NotEntered DEF CleanUp, Task
<1>10. ~BeatEnds(t)
  <2> SUFFICES ASSUME BeatEnds(t) PROVE FALSE
    OBVIOUS
  <2> QED BY <1>1, NotEntered DEF BeatEnds, Task
<1>11. Start(t) \/ Enter(t)
  BY <1>3, <1>4, <1>5, <1>6, <1>7, <1>8, <1>9, <1>10 DEF Step
<1>12. u = t
  BY <1>2, <1>11 DEF Start, Enter
<1> QED BY <1>11, <1>12

\* No request, row or drain lets a turn into its worker.
LEMMA OthersDoNotEnter ==
  ASSUME RegistryInv, NEW u \in Turn, turn'[u].entered, ~turn[u].entered,
         \/ \E t \in Turn : Spawn(t) \/ Admit(t) \/ Revoke(t) \/ Expire(t) \/ Suspend(t)
                            \/ WorkerEnds(t)
         \/ \E r \in Run : \/ DeliverCancel(r) \/ Reap(r)
                           \/ \E here \in BOOLEAN : OrderCancel(r, here)
         \/ DrainStarts \/ DrainCancels \/ DrainEnds \/ DrainGivesUp
         \/ UNCHANGED vars
  PROVE  FALSE
<1>1. turn \in [Turn -> Task] /\ \A t \in Turn : turn[t] \in Task
  BY Known DEF RegistryInv, TypeOK, Task
<1>2. turn' # turn
  OBVIOUS
<1>3. ASSUME NEW t \in Turn, Spawn(t) PROVE FALSE
  <2>1. ~turn[t].entered /\ turn[t].entered \in BOOLEAN
    BY <1>1, <1>3, Known DEF Spawn, At, TurnKnown, Task
  <2> QED BY <1>3, <2>1, NotEntered DEF Spawn, Unused
<1>4. ASSUME NEW t \in Turn, Admit(t) PROVE FALSE
  BY <1>1, <1>4, NotEntered DEF Admit, Task
<1>5. ASSUME NEW t \in Turn, Revoke(t) PROVE FALSE
  <2>1. PICK cause : Set(t, Revoked(turn[t], cause))
    BY <1>5 DEF Revoke
  <2>2. Revoked(turn[t], cause).entered = turn[t].entered
    BY <1>1 DEF Revoked, Cancelled, Task
  <2> QED BY <2>1, <2>2, NotEntered
<1>6. ASSUME NEW t \in Turn, Expire(t) PROVE FALSE
  BY <1>1, <1>6, NotEntered DEF Expire, Interrupted, Task
<1>7. ASSUME NEW t \in Turn, WorkerEnds(t) PROVE FALSE
  <2>1. CASE turn[t].beat = "none"
    BY <1>1, <1>7, <2>1, NotEntered DEF WorkerEnds, Closed, Task
  <2>2. CASE turn[t].beat # "none"
    BY <1>1, <1>7, <2>2, NotEntered DEF WorkerEnds, Task
  <2> QED BY <2>1, <2>2
<1>8. ASSUME NEW r \in Run, DeliverCancel(r) PROVE FALSE
  <2> DEFINE t == tasks[r]
             task == IF Started(t) THEN turn[t] ELSE Cleaned(turn[t])
  <2>1. t # NoTurn /\ Live(t) /\ Set(t, Cancelled(task, "cancel"))
    BY <1>2, <1>8 DEF DeliverCancel
  <2>2. t \in Turn
    BY <2>1 DEF RegistryInv, TypeOK
  <2>3. Cancelled(task, "cancel").entered = turn[t].entered
    BY <1>1, <2>2 DEF Cleaned, Cancelled, Task
  <2> QED BY <2>1, <2>2, <2>3, NotEntered
<1>9. ~DrainCancels
  <2> SUFFICES ASSUME DrainCancels PROVE FALSE
    OBVIOUS
  <2>1. turn'[u] = turn[u] \/ turn'[u] = Cancelled(turn[u], "shutdown")
    BY DEF DrainCancels
  <2> QED BY <1>1, <2>1 DEF Cancelled, Task
<1>10. ~(DrainStarts \/ DrainEnds \/ DrainGivesUp \/ UNCHANGED vars)
  BY <1>2 DEF DrainStarts, DrainEnds, DrainGivesUp, vars
<1>11. \A t \in Turn : ~Suspend(t)
  BY <1>2 DEF Suspend
<1>12. \A r \in Run : ~Reap(r) /\ \A here \in BOOLEAN : ~OrderCancel(r, here)
  BY <1>2 DEF Reap, OrderCancel
<1> QED BY <1>3, <1>4, <1>5, <1>6, <1>7, <1>8, <1>9, <1>10, <1>11, <1>12

\* A worker is entered only by a turn that nobody has told to stop while it was
\* queued, and no heartbeat of the queue is left beside that of the worker.
THEOREM TurnsEnterAlone == Spec => EnteredAlone
<1>1. ASSUME RegistryInv, [Next]_vars, NEW u \in Turn, turn'[u].entered, ~turn[u].entered
      PROVE  turn[u].reason = "none" /\ turn[u].must = "none"
  <2>1. Start(u) \/ Enter(u)
    BY <1>1, StepEnters, OthersDoNotEnter DEF Next
  <2>2. TurnKnown(turn[u])
    BY <1>1, Known
  <2> QED BY <2>1, <2>2 DEF Start, Enter, At, MayEnter, TurnKnown
<1>2. RegistryInv' => BeatHandedOff'
  BY DEF RegistryInv, TasksKnown, TurnKnown, BeatHandedOff, At
<1>3. RegistryInv /\ RegistryInv' /\ [Next]_vars
      => [/\ \A t \in Turn : turn'[t].entered /\ ~turn[t].entered
                             => turn[t].reason = "none" /\ turn[t].must = "none"
          /\ BeatHandedOff']_vars
  BY <1>1, <1>2
<1> QED BY <1>3, RegistryIsKnown, PTL DEF Spec, EnteredAlone
=============================================================================
