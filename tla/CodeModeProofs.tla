--------------------------- MODULE CodeModeProofs ---------------------------
(* Theorems of CodeMode for any scripts, number of run_code calls and budget *)
(* of nested calls.                                                         *)
EXTENDS CodeMode, TLAPS

Task == [stage: Stages, id: Ids \cup {<<>>}, approved: BOOLEAN]
Bridge == [count: 0..MaxCalls, ledger: SUBSET Ids, tainted: BOOLEAN, resumed: BOOLEAN]
Artifact == [call: Outer, place: Places, id: Ids, count: 0..MaxCalls, ledger: SUBSET Ids,
             tainted: BOOLEAN, health: {"good", "unreadable", "garbled"}]
Request == [call: Outer, id: Ids, ledger: SUBSET Ids]

----------------------------------------------------------------------------
(* Scripts and tasks                                                        *)

\* A script is made of calls and awaits, and has a place for each.
LEMMA Scripts ==
  ASSUME TypeOK, NEW c \in Outer
  PROVE  /\ Len(prog[c]) \in Nat /\ Len(prog[c]) <= MaxSteps
         /\ 1..Len(prog[c]) \subseteq Places
         /\ \A s \in 1..Len(prog[c]) : prog[c][s] \in Calls \cup {"await"}
<1>1. prog[c] \in Programs
  BY DEF TypeOK
<1>2. prog[c] \in Seq(Calls \cup {"await"}) /\ Len(prog[c]) <= MaxSteps
  BY <1>1, CodeModeAssumption
<1> QED BY <1>2, CodeModeAssumption DEF Places

LEMMA AwaitIsNoCall == "await" \notin Calls
  BY DEF Calls

\* Moving a task on changes its stage and nothing else.
LEMMA Moved ==
  ASSUME TypeOK, NEW s \in Places, NEW stage \in Stages, Move(s, stage)
  PROVE  /\ task' \in [Places -> Task]
         /\ \A t \in Places : /\ Stage(t)' = IF t = s THEN stage ELSE Stage(t)
                              /\ task'[t].id = task[t].id
                              /\ task'[t].approved = task[t].approved
<1>1. task \in [Places -> Task]
  BY DEF TypeOK, Task
<1> QED BY <1>1 DEF Move, Stage, Task

\* What a step inside a script leaves alone keeps what is said of the run, of
\* its requests and of its artifact.
LEMMA InsideScript ==
  ASSUME IndInv, Running, UNCHANGED <<turn, prog, answer, saved, asked, cut>>,
         bridge'.resumed = bridge.resumed,
         effects' \in [Outer -> [Places -> Nat]],
         \A c \in Outer : c # o => effects'[c] = effects[c],
         seen' \subseteq seen \cup {o},
         names' \subseteq Ids \X Places,
         \A a \in names' : a \in names \/ a[1][1] = o
  PROVE  ReviewMatches' /\ RedraftSafe' /\ Bookkeeping' /\ SavedEnough'
<1>1. /\ turn.pc = "script" /\ turn'.pc = "script" /\ o' = o
      /\ Running' /\ o \in Outer /\ answer[o] = "open"
  BY DEF IndInv, Bookkeeping, Running, o
<1>2. ReviewMatches'
  BY <1>1 DEF ReviewMatches
<1>3. \A c \in Outer, s \in Places : c # o => (Happened(c, s)' <=> Happened(c, s))
  BY DEF Happened
<1>4. RedraftSafe'
  BY <1>1, <1>3 DEF IndInv, RedraftSafe
<1>5. Bookkeeping'
  BY <1>1 DEF IndInv, Bookkeeping, Running, o
<1>6. ASSUME Paused'
      PROVE  Paused /\ saved.call \in Outer /\ saved.call # o
  <2>1. Paused
    BY <1>1, <1>6 DEF Paused
  <2>2. saved.call # o
    BY <1>1, <2>1 DEF IndInv, Bookkeeping, Paused
  <2>3. saved.call \in Outer
    BY <2>1 DEF IndInv, TypeOK, Paused, None
  <2> QED BY <2>1, <2>2, <2>3
<1>7. \A q \in asked : q.call \in Outer /\ q.call # o
  BY <1>1 DEF IndInv, Bookkeeping, TypeOK
<1>8. SavedEnough'
  <2>1. \A q \in asked, s \in Places : Happened(q.call, s)' => q.ledger # {}
    BY <1>3, <1>7 DEF IndInv, SavedEnough
  <2>2. ASSUME Paused'
        PROVE  /\ \A s \in Places : Happened(saved.call, s)' => saved.ledger # {}
               /\ \A a \in names' : a[1][1] = saved.call => a[1][2] <= saved.count
               /\ saved.call \in seen' => saved.tainted
               /\ prog[saved.call][saved.place + 1] = "await" =>
                    \A s \in Places : s >= saved.place => effects'[saved.call][s] = 0
    BY <1>3, <1>6, <2>2 DEF IndInv, SavedEnough
  <2> QED BY <1>6, <2>1, <2>2 DEF IndInv, SavedEnough
<1> QED BY <1>2, <1>4, <1>5, <1>8

----------------------------------------------------------------------------
(* The steps of a script                                                    *)

\* The types the step lemmas use.
LEMMA Typed ==
  ASSUME TypeOK
  PROVE  /\ bridge \in Bridge /\ task \in [Places -> Task]
         /\ saved \in {None} \cup Artifact /\ asked \subseteq Request
         /\ vm.pc \in 1..(MaxSteps + 1) /\ vm.pc \in Nat /\ vm.open \subseteq Places
         /\ Places \subseteq Nat /\ MaxSteps \in Nat
         /\ MaxCalls \in Nat /\ bridge.count \in Nat
  BY CodeModeAssumption DEF TypeOK, Bridge, Task, Artifact, Request, Places

LEMMA IssueStep ==
  ASSUME IndInv, Issue
  PROVE  IndInv'
<1>1. /\ Running /\ Running' /\ o' = o /\ o \in Outer /\ TypeOK
      /\ UNCHANGED <<turn, prog, answer, bridge, saved, asked, effects, cut, names, seen, granted>>
  BY DEF Issue, AtCall, IndInv, Bookkeeping, Running, o, history
<1>2. /\ vm.pc \in Places /\ vm.pc <= Len(prog[o]) /\ Len(prog[o]) <= MaxSteps
      /\ Kind(vm.pc) \in Calls
  BY <1>1, Scripts, Typed DEF Issue, AtCall, AtEnd, Kind, Places
<1>3. /\ task' \in [Places -> Task]
      /\ \A t \in Places : /\ Stage(t)' = IF t = vm.pc THEN "queued" ELSE Stage(t)
                           /\ task'[t].id = task[t].id
                           /\ task'[t].approved = task[t].approved
  BY <1>1, <1>2, Moved DEF Issue, Stages
<1>4. vm'.pc = vm.pc + 1 /\ vm'.open = vm.open \cup {vm.pc} /\ vm' = [pc |-> vm.pc + 1, open |-> vm.open \cup {vm.pc}]
  BY DEF Issue
<1>5. TypeOK'
  <2>1. vm' \in [pc: 1..(MaxSteps + 1), open: SUBSET Places]
    BY <1>1, <1>2, <1>4, Typed DEF Places
  <2> QED BY <1>1, <1>3, <2>1 DEF TypeOK, Task
<1>6. ReviewMatches' /\ RedraftSafe' /\ Bookkeeping' /\ SavedEnough'
  BY <1>1, InsideScript DEF TypeOK
<1>7. EffectsOnce' /\ NamesAreUnique'
  BY <1>1 DEF IndInv, EffectsOnce, NamesAreUnique
<1>8. OneAtATime'
  BY <1>3 DEF IndInv, OneAtATime, Active
<1>9. ScriptShape'
  <2>1. \A s \in Places : Kind(s)' = Kind(s)
    BY <1>1 DEF Kind
  <2>2. \A s \in Places : Stage(s)' # "none" => s < vm'.pc /\ Kind(s) \in Calls
    BY <1>1, <1>2, <1>3, <1>4, Typed DEF IndInv, ScriptShape
  <2>3. \A s \in vm'.open : s < vm'.pc /\ \A u \in s..(vm'.pc - 1) : Kind(u) \in Calls
    BY <1>1, <1>2, <1>4, Typed DEF IndInv, ScriptShape
  <2> QED BY <1>1, <2>1, <2>2, <2>3 DEF ScriptShape, Kind
<1>10. Unspent'
  BY <1>1, <1>2, <1>3, <1>4, Typed DEF IndInv, Unspent
<1>11. Stage(vm.pc) = "none"
  BY <1>1, <1>2, Typed DEF IndInv, ScriptShape
<1>12. Recording'
  BY <1>1, <1>3, <1>11 DEF IndInv, Recording, Happened, Writes, Kind
<1>13. Counted'
  BY <1>1, <1>3 DEF IndInv, Counted, Active
<1>14. ConsentNoted'
  BY <1>1, <1>3 DEF IndInv, ConsentNoted, Kind
<1> QED BY <1>5, <1>6, <1>7, <1>8, <1>9, <1>10, <1>12, <1>13, <1>14 DEF IndInv

\* A task's step leaves the interpreter where it is: what it has to show.
LEMMA TaskMoves ==
  ASSUME IndInv, Running, NEW s \in Places, Stage(s) # "none",
         UNCHANGED <<turn, prog, answer, vm, saved, asked, cut, seen, granted>>,
         bridge' \in Bridge, bridge'.resumed = bridge.resumed,
         bridge.count <= bridge'.count,
         task' \in [Places -> Task],
         \A t \in Places \ {s} : task'[t] = task[t],
         Stage(s)' # "none",
         effects' \in [Outer -> [Places -> Nat]],
         \A c \in Outer : c # o => effects'[c] = effects[c],
         names' \subseteq Ids \X Places,
         \A a \in names' : a \in names \/ a[1][1] = o
  PROVE  /\ TypeOK' /\ ReviewMatches' /\ RedraftSafe' /\ Bookkeeping' /\ ScriptShape'
         /\ SavedEnough'
         /\ Running' /\ o' = o /\ o \in Outer /\ s < vm.pc /\ Kind(s) \in Calls
         /\ \A t \in Places : Kind(t)' = Kind(t)
         /\ \A t \in Places \ {s} : Stage(t)' = Stage(t)
<1>1. Running' /\ o' = o /\ o \in Outer
  BY DEF IndInv, Bookkeeping, Running, o
<1>2. TypeOK'
  BY DEF IndInv, TypeOK, Bridge, Task
<1>3. ReviewMatches' /\ RedraftSafe' /\ Bookkeeping' /\ SavedEnough'
  BY InsideScript
<1>4. \A t \in Places : Kind(t)' = Kind(t)
  BY <1>1 DEF Kind
<1>5. \A t \in Places \ {s} : Stage(t)' = Stage(t)
  BY DEF Stage
<1>6. s < vm.pc /\ Kind(s) \in Calls
  BY DEF IndInv, ScriptShape
<1>7. ScriptShape'
  <2>1. \A t \in Places : Stage(t)' # "none" => t < vm.pc /\ Kind(t) \in Calls
    BY <1>5, <1>6 DEF IndInv, ScriptShape
  <2>2. \A t \in vm.open : t < vm.pc /\ \A u \in t..(vm.pc - 1) : Kind(u) \in Calls
    BY DEF IndInv, ScriptShape
  <2> QED BY <1>1, <2>1, <2>2 DEF ScriptShape, Kind
<1> QED BY <1>1, <1>2, <1>3, <1>4, <1>5, <1>6, <1>7

LEMMA EnterStep ==
  ASSUME IndInv, NEW s \in Places, Enter(s)
  PROVE  IndInv'
<1> DEFINE id == <<o, bridge.count + 1>>
<1>1. /\ Running /\ TypeOK /\ Stage(s) = "queued" /\ o \in Outer
      /\ \A t \in Places : Stage(t) \notin Active
      /\ UNCHANGED <<turn, prog, answer, vm, saved, asked, effects, cut, seen, granted>>
  BY DEF Enter, LockFree, IndInv, Bookkeeping
<1>2. /\ bridge' \in Bridge /\ bridge'.resumed = bridge.resumed
      /\ bridge'.ledger = bridge.ledger /\ bridge'.tainted = bridge.tainted
      /\ task' \in [Places -> Task]
      /\ \A t \in Places \ {s} : task'[t] = task[t]
      /\ names' \subseteq Ids \X Places
      /\ Stage(s)' \in {"failed", "gated", "dispatching"}
      /\ Stage(s)' = "dispatching" => ~(bridge.tainted /\ Writes(s))
      /\ Stage(s)' # "failed" => task'[s].id \in Ids /\ ~task'[s].approved
      /\ Stage(s)' = "failed" => /\ task'[s].id = task[s].id
                                 /\ task'[s].approved = task[s].approved
      /\ \/ bridge'.count = bridge.count /\ names' = names
         \/ bridge'.count = bridge.count + 1 /\ names' = names \cup {<<id, s>>}
  <2>1. CASE bridge.count >= MaxCalls /\ Move(s, "failed") /\ UNCHANGED <<bridge, names>>
    <3>1. /\ task' \in [Places -> Task]
          /\ \A t \in Places : /\ Stage(t)' = IF t = s THEN "failed" ELSE Stage(t)
                               /\ task'[t].id = task[t].id
                               /\ task'[t].approved = task[t].approved
      BY <1>1, <2>1, Moved DEF Stages
    <3>2. \A t \in Places \ {s} : task'[t] = task[t]
      BY <1>1, <2>1, Typed DEF Move
    <3> QED BY <1>1, <2>1, <3>1, <3>2, Typed DEF TypeOK
  <2>2. CASE ~(bridge.count >= MaxCalls /\ Move(s, "failed") /\ UNCHANGED <<bridge, names>>)
    <3> DEFINE new == [stage |-> IF bridge.tainted /\ Writes(s) THEN "gated" ELSE "dispatching",
                       id |-> id, approved |-> FALSE]
    <3>1. /\ bridge.count < MaxCalls
          /\ bridge' = [bridge EXCEPT !.count = @ + 1]
          /\ names' = names \cup {<<id, s>>}
          /\ task' = [task EXCEPT ![s] = new]
      BY <2>2 DEF Enter
    <3>2. id \in Ids /\ bridge.count + 1 \in 0..MaxCalls
      BY <1>1, <3>1, Typed DEF Ids
    <3>3. new \in Task
      BY <3>2 DEF Task, Stages
    <3>4. /\ bridge' \in Bridge /\ bridge'.resumed = bridge.resumed
          /\ bridge'.ledger = bridge.ledger /\ bridge'.tainted = bridge.tainted
          /\ bridge'.count = bridge.count + 1
      BY <1>1, <3>1, <3>2, Typed DEF Bridge
    <3>5. /\ task' \in [Places -> Task]
          /\ \A t \in Places \ {s} : task'[t] = task[t]
          /\ task'[s] = new
      BY <1>1, <3>1, <3>3, Typed
    <3>6. names' \subseteq Ids \X Places
      <4>1. <<id, s>> \in Ids \X Places
        BY <3>2
      <4>2. names \subseteq Ids \X Places
        BY <1>1 DEF TypeOK
      <4> HIDE DEF id
      <4> QED BY <3>1, <4>1, <4>2
    <3> QED BY <3>1, <3>2, <3>4, <3>5, <3>6 DEF Stage
  <2> QED BY <2>1, <2>2
<1>3. bridge.count <= bridge'.count
  BY <1>1, <1>2, Typed
<1>4. \A a \in names' : a \in names \/ a[1][1] = o
  BY <1>2
<1>5. /\ TypeOK' /\ ReviewMatches' /\ RedraftSafe' /\ Bookkeeping' /\ ScriptShape'
      /\ SavedEnough'
      /\ Running' /\ o' = o /\ o \in Outer /\ s < vm.pc /\ Kind(s) \in Calls
      /\ \A t \in Places : Kind(t)' = Kind(t)
      /\ \A t \in Places \ {s} : Stage(t)' = Stage(t)
  <2>1. Stage(s) # "none" /\ Stage(s)' # "none"
    BY <1>1, <1>2
  <2> QED BY <1>1, <1>2, <1>3, <1>4, <2>1, TaskMoves DEF TypeOK
<1>6. EffectsOnce'
  BY <1>1 DEF IndInv, EffectsOnce
<1>7. NamesAreUnique'
  <2>1. \A a \in names : a[1] # id
    BY <1>1, Typed DEF IndInv, Counted, TypeOK, Ids
  <2> QED BY <1>2, <2>1 DEF IndInv, NamesAreUnique
<1>8. OneAtATime'
  BY <1>1, <1>5 DEF OneAtATime, Active
<1>9. Unspent'
  BY <1>1, <1>5 DEF IndInv, Unspent
<1>10. Recording'
  BY <1>1, <1>2, <1>5 DEF IndInv, Recording, Happened, Writes
<1>11. Counted'
  <2>1. \A a \in names' : a[1][1] = o => a[1][2] <= bridge'.count
    <3>1. \A a \in names : a[1][1] = o => a[1][2] \in Nat /\ a[1][2] <= bridge.count
      BY <1>1, Typed DEF IndInv, Counted, TypeOK, Ids
    <3> QED BY <1>1, <1>2, <3>1, Typed
  <2> QED BY <1>2, <1>5, <2>1 DEF IndInv, Counted, Active
<1>12. ConsentNoted'
  BY <1>1, <1>2, <1>5 DEF IndInv, ConsentNoted, Writes
<1> QED BY <1>5, <1>6, <1>7, <1>8, <1>9, <1>10, <1>11, <1>12 DEF IndInv

LEMMA DispatchStep ==
  ASSUME IndInv, NEW s \in Places, Dispatch(s)
  PROVE  IndInv'
<1>1. /\ Running /\ TypeOK /\ Stage(s) = "dispatching"
      /\ UNCHANGED <<turn, prog, answer, vm, bridge, saved, asked, effects, cut, names, seen, granted>>
  BY DEF Dispatch, IndInv, history
<1>2. PICK stage \in {"failed", "gated", "handling"} :
        /\ Move(s, stage)
        /\ stage = "handling" => (Kind(s) = "gated" => task[s].approved)
  BY DEF Dispatch
<1>3. /\ task' \in [Places -> Task]
      /\ \A t \in Places : /\ Stage(t)' = IF t = s THEN stage ELSE Stage(t)
                           /\ task'[t].id = task[t].id
                           /\ task'[t].approved = task[t].approved
      /\ \A t \in Places \ {s} : task'[t] = task[t]
  BY <1>1, <1>2, Moved, Typed DEF Stages, Move
<1>4. /\ TypeOK' /\ ReviewMatches' /\ RedraftSafe' /\ Bookkeeping' /\ ScriptShape'
      /\ SavedEnough'
      /\ Running' /\ o' = o /\ o \in Outer /\ s < vm.pc /\ Kind(s) \in Calls
      /\ \A t \in Places : Kind(t)' = Kind(t)
      /\ \A t \in Places \ {s} : Stage(t)' = Stage(t)
  <2>1. /\ Stage(s) # "none" /\ Stage(s)' # "none"
        /\ bridge' \in Bridge /\ bridge'.resumed = bridge.resumed
        /\ bridge.count <= bridge'.count
    BY <1>1, <1>3, Typed
  <2>2. effects' \in [Outer -> [Places -> Nat]] /\ names' \subseteq Ids \X Places
    BY <1>1, <1>3 DEF TypeOK
  <2> QED BY <1>1, <1>3, <2>1, <2>2, TaskMoves
<1>5. EffectsOnce' /\ NamesAreUnique'
  BY <1>1 DEF IndInv, EffectsOnce, NamesAreUnique
<1>6. OneAtATime'
  BY <1>1, <1>3 DEF IndInv, OneAtATime, Active
<1>7. Unspent'
  BY <1>1, <1>3, <1>4 DEF IndInv, Unspent
<1>8. Recording'
  BY <1>1, <1>3, <1>4 DEF IndInv, Recording, Happened, Writes
<1>9. Counted'
  BY <1>1, <1>3, <1>4 DEF IndInv, Counted, Active
<1>10. ConsentNoted'
  BY <1>1, <1>2, <1>3, <1>4 DEF IndInv, ConsentNoted
<1> QED BY <1>4, <1>5, <1>6, <1>7, <1>8, <1>9, <1>10 DEF IndInv

LEMMA HandleStep ==
  ASSUME IndInv, NEW s \in Places, Handle(s)
  PROVE  IndInv'
<1>1. /\ Running /\ TypeOK /\ Stage(s) = "handling" /\ o \in Outer
      /\ UNCHANGED <<turn, prog, answer, vm, bridge, saved, asked, cut, names, seen, granted>>
  BY DEF Handle, IndInv, Bookkeeping
<1>2. effects[o][s] = 0
  BY <1>1 DEF IndInv, Unspent
<1>3. /\ effects' \in [Outer -> [Places -> Nat]]
      /\ \A c \in Outer : c # o => effects'[c] = effects[c]
      /\ \A t \in Places \ {s} : effects'[o][t] = effects[o][t]
      /\ effects'[o][s] <= 1
      /\ ~Writes(s) => effects' = effects
  <2>1. effects \in [Outer -> [Places -> Nat]]
    BY <1>1 DEF TypeOK
  <2>2. CASE Writes(s)
    <3>1. effects' = [effects EXCEPT ![o] = [effects[o] EXCEPT ![s] = 1]]
      BY <1>1, <1>2, <2>1, <2>2 DEF Handle
    <3>2. [effects[o] EXCEPT ![s] = 1] \in [Places -> Nat]
      BY <1>1, <2>1
    <3> QED BY <1>1, <2>1, <2>2, <3>1, <3>2
  <2>3. CASE ~Writes(s)
    BY <1>2, <2>1, <2>3 DEF Handle
  <2> QED BY <2>2, <2>3
<1>4. /\ task' \in [Places -> Task]
      /\ \A t \in Places : /\ Stage(t)' = IF t = s THEN "effected" ELSE Stage(t)
                           /\ task'[t].id = task[t].id
                           /\ task'[t].approved = task[t].approved
      /\ \A t \in Places \ {s} : task'[t] = task[t]
  BY <1>1, Moved, Typed DEF Stages, Move, Handle
<1>5. /\ TypeOK' /\ ReviewMatches' /\ RedraftSafe' /\ Bookkeeping' /\ ScriptShape'
      /\ SavedEnough'
      /\ Running' /\ o' = o /\ o \in Outer /\ s < vm.pc /\ Kind(s) \in Calls
      /\ \A t \in Places : Kind(t)' = Kind(t)
      /\ \A t \in Places \ {s} : Stage(t)' = Stage(t)
  <2>1. /\ Stage(s) # "none" /\ Stage(s)' # "none"
        /\ bridge' \in Bridge /\ bridge'.resumed = bridge.resumed
        /\ bridge.count <= bridge'.count
    BY <1>1, <1>3, <1>4, Typed
  <2>2. effects' \in [Outer -> [Places -> Nat]] /\ names' \subseteq Ids \X Places
    BY <1>1, <1>3, <1>4 DEF TypeOK
  <2> QED BY <1>1, <1>3, <1>4, <2>1, <2>2, TaskMoves
<1>6. EffectsOnce'
  BY <1>1, <1>3 DEF IndInv, EffectsOnce
<1>7. NamesAreUnique'
  BY <1>1 DEF IndInv, NamesAreUnique
<1>8. OneAtATime'
  BY <1>1, <1>4 DEF IndInv, OneAtATime, Active
<1>9. Unspent'
  BY <1>1, <1>3, <1>4, <1>5, Typed DEF IndInv, Unspent
<1>10. Recording'
  <2>1. \A t \in Places : (Writes(t)' <=> Writes(t))
    BY <1>5 DEF Writes
  <2>2. ASSUME NEW t \in Places, t # s, Happened(o, t)'
        PROVE  bridge'.ledger # {} \/ (Stage(t)' = "effected" /\ Writes(t)')
    BY <1>1, <1>3, <1>4, <1>5, <2>1, <2>2 DEF IndInv, Recording, Happened
  <2>3. ASSUME Happened(o, s)'
        PROVE  Stage(s)' = "effected" /\ Writes(s)'
    BY <1>1, <1>2, <1>3, <1>4, <1>5, <2>1, <2>3 DEF Happened
  <2> QED BY <1>5, <2>2, <2>3 DEF Recording
<1>11. Counted'
  BY <1>1, <1>4, <1>5 DEF IndInv, Counted, Active
<1>12. ConsentNoted'
  BY <1>1, <1>4, <1>5 DEF IndInv, ConsentNoted
<1> QED BY <1>5, <1>6, <1>7, <1>8, <1>9, <1>10, <1>11, <1>12 DEF IndInv

\* A call that was handled, or failed, and its record.
LEMMA Recording1 ==
  ASSUME IndInv, Running, NEW s \in Places, Stage(s) \in {"handling", "effected"},
         NEW stage \in {"ok", "failed"}, Move(s, stage),
         NEW tainted \in BOOLEAN, bridge.tainted => tainted,
         stage = "ok" /\ Kind(s) = "fetch" => tainted,
         bridge' = [bridge EXCEPT !.ledger = Recorded(s), !.tainted = tainted],
         UNCHANGED <<turn, prog, answer, vm, saved, asked, history>>
  PROVE  IndInv'
<1>1. /\ TypeOK /\ o \in Outer /\ task[s].id \in Ids
      /\ UNCHANGED <<effects, cut, names, seen, granted>>
  BY DEF IndInv, Bookkeeping, Counted, Active, history
<1>2. /\ bridge' \in Bridge /\ bridge'.resumed = bridge.resumed
      /\ bridge'.count = bridge.count /\ bridge'.ledger = Recorded(s)
      /\ bridge'.tainted = tainted
  <2>1. Recorded(s) \subseteq Ids
    BY <1>1, Typed DEF Recorded, Bridge
  <2> QED BY <1>1, <2>1, Typed DEF Bridge
<1>3. /\ task' \in [Places -> Task]
      /\ \A t \in Places : /\ Stage(t)' = IF t = s THEN stage ELSE Stage(t)
                           /\ task'[t].id = task[t].id
                           /\ task'[t].approved = task[t].approved
      /\ \A t \in Places \ {s} : task'[t] = task[t]
  BY <1>1, Moved, Typed DEF Stages, Move
<1>4. /\ TypeOK' /\ ReviewMatches' /\ RedraftSafe' /\ Bookkeeping' /\ ScriptShape'
      /\ SavedEnough'
      /\ Running' /\ o' = o /\ o \in Outer /\ s < vm.pc /\ Kind(s) \in Calls
      /\ \A t \in Places : Kind(t)' = Kind(t)
      /\ \A t \in Places \ {s} : Stage(t)' = Stage(t)
  <2>1. /\ Stage(s) # "none" /\ Stage(s)' # "none"
        /\ bridge' \in Bridge /\ bridge'.resumed = bridge.resumed
        /\ bridge.count <= bridge'.count
    BY <1>1, <1>2, <1>3, Typed
  <2>2. effects' \in [Outer -> [Places -> Nat]] /\ names' \subseteq Ids \X Places
    BY <1>1, <1>2, <1>3 DEF TypeOK
  <2> QED BY <1>1, <1>2, <1>3, <2>1, <2>2, TaskMoves
<1>5. EffectsOnce' /\ NamesAreUnique'
  BY <1>1 DEF IndInv, EffectsOnce, NamesAreUnique
<1>6. OneAtATime'
  BY <1>3 DEF IndInv, OneAtATime, Active
<1>7. Unspent'
  BY <1>1, <1>3, <1>4 DEF IndInv, Unspent
<1>8. Recording'
  BY <1>1, <1>2, <1>3, <1>4 DEF IndInv, Recording, Happened, Recorded, Writes
<1>9. Counted'
  BY <1>1, <1>2, <1>3, <1>4 DEF IndInv, Counted, Active
<1>10. ConsentNoted'
  <2>1. \A t \in Places : Stage(t) \in {"dispatching", "handling"} => t = s
    BY DEF IndInv, OneAtATime, Active
  <2>2. \A t \in Places : /\ task'[t].approved => task'[t].id \in granted'
                          /\ Stage(t)' \notin {"dispatching", "handling"}
    BY <1>1, <1>3, <2>1 DEF IndInv, ConsentNoted
  <2>3. \A t \in Places : Stage(t)' = "ok" /\ Kind(t)' = "fetch" => bridge'.tainted
    BY <1>2, <1>3, <1>4 DEF IndInv, ConsentNoted
  <2>4. o \in seen => bridge'.tainted
    BY <1>2 DEF IndInv, ConsentNoted
  <2> QED BY <1>1, <1>4, <2>2, <2>3, <2>4 DEF ConsentNoted
<1> QED BY <1>4, <1>5, <1>6, <1>7, <1>8, <1>9, <1>10 DEF IndInv

LEMMA HandlerFailsStep ==
  ASSUME IndInv, NEW s \in Places, HandlerFails(s)
  PROVE  IndInv'
<1>1. bridge \in Bridge
  BY Typed DEF IndInv
<1>2. /\ bridge.tainted \in BOOLEAN
      /\ bridge' = [bridge EXCEPT !.ledger = Recorded(s), !.tainted = bridge.tainted]
  BY <1>1 DEF HandlerFails, Bridge
<1> QED BY <1>2, Recording1 DEF HandlerFails

LEMMA ReturnStep ==
  ASSUME IndInv, NEW s \in Places, Return(s)
  PROVE  IndInv'
<1>1. bridge \in Bridge
  BY Typed DEF IndInv
<1> DEFINE tainted == bridge.tainted \/ Kind(s) = "fetch"
<1>2. tainted \in BOOLEAN
  BY <1>1 DEF Bridge
<1>3. bridge' = [bridge EXCEPT !.ledger = Recorded(s), !.tainted = tainted]
  BY DEF Return
<1>4. PICK stage \in {"ok", "failed"} : Move(s, stage)
  BY DEF Return
<1>5. bridge.tainted => tainted
  OBVIOUS
<1>6. Kind(s) = "fetch" => tainted
  OBVIOUS
<1>7. Running /\ Stage(s) = "effected" /\ UNCHANGED <<turn, prog, answer, vm, saved, asked, history>>
  BY DEF Return
<1> HIDE DEF tainted
<1> QED BY <1>2, <1>3, <1>4, <1>5, <1>6, <1>7, Recording1

LEMMA DeliverStep ==
  ASSUME IndInv, NEW s \in Places, Deliver(s)
  PROVE  IndInv'
<1>1. /\ Running /\ Running' /\ o' = o /\ o \in Outer /\ TypeOK /\ AtAwait
      /\ UNCHANGED <<turn, prog, answer, bridge, task, saved, asked, effects, cut, names, granted>>
  BY DEF Deliver, Awaits, AtAwait, IndInv, Bookkeeping, Running, o
<1>2. vm.pc <= MaxSteps
  BY <1>1, Scripts, Typed DEF AtAwait, AtEnd
<1>3. /\ vm'.pc \in {vm.pc, vm.pc + 1} /\ vm'.open = vm.open \ {s}
      /\ vm'.pc # vm.pc => vm'.open = {}
      /\ vm' = [pc |-> vm'.pc, open |-> vm'.open]
  BY DEF Deliver
<1>4. /\ seen' \subseteq seen \cup {o}
      /\ o \in seen' => o \in seen \/ (Stage(s) = "ok" /\ Kind(s) = "fetch")
  BY DEF Deliver
<1>5. TypeOK'
  <2>1. vm' \in [pc: 1..(MaxSteps + 1), open: SUBSET Places]
    BY <1>1, <1>2, <1>3, Typed DEF Places
  <2> QED BY <1>1, <1>4, <2>1 DEF TypeOK
<1>6. ReviewMatches' /\ RedraftSafe' /\ Bookkeeping' /\ SavedEnough'
  <2>1. effects' \in [Outer -> [Places -> Nat]] /\ names' \subseteq Ids \X Places
    BY <1>1 DEF TypeOK
  <2> QED BY <1>1, <1>4, <2>1, InsideScript
<1>7. EffectsOnce' /\ NamesAreUnique' /\ OneAtATime'
  BY <1>1 DEF IndInv, EffectsOnce, NamesAreUnique, OneAtATime, Stage
<1>8. ScriptShape'
  <2>1. vm.pc \in Nat /\ Places \subseteq Nat /\ vm.open \subseteq Places
    BY <1>1, Typed
  <2>2. \A t \in Places : Stage(t)' # "none" => t < vm'.pc /\ Kind(t)' \in Calls
    BY <1>1, <1>3, <2>1 DEF IndInv, ScriptShape, Stage, Kind
  <2>3. \A t \in vm'.open : t < vm'.pc /\ \A u \in t..(vm'.pc - 1) : Kind(u)' \in Calls
    BY <1>1, <1>3, <2>1 DEF IndInv, ScriptShape, Kind
  <2> QED BY <1>1, <2>2, <2>3 DEF ScriptShape
<1>9. Unspent'
  BY <1>1, <1>3, Typed DEF IndInv, Unspent, Stage
<1>10. Recording'
  BY <1>1 DEF IndInv, Recording, Happened, Stage, Writes, Kind
<1>11. Counted'
  BY <1>1 DEF IndInv, Counted, Stage
<1>12. ConsentNoted'
  BY <1>1, <1>4 DEF IndInv, ConsentNoted, Stage, Kind
<1> QED BY <1>5, <1>6, <1>7, <1>8, <1>9, <1>10, <1>11, <1>12 DEF IndInv

----------------------------------------------------------------------------
(* The ends of a segment                                                    *)

\* When a script stops, everything of it is gone but its history; what it has
\* done, and that was not cut short, is in its ledger.
LEMMA Stopped ==
  ASSUME IndInv, Running, Teardown, bridge' = Fresh, prog' = prog
  PROVE  /\ o \in Outer /\ answer[o] = "open" /\ TypeOK
         /\ task' = [s \in Places |-> NoTask] /\ vm' = [pc |-> 1, open |-> {}]
         /\ bridge' \in Bridge /\ ~bridge'.resumed
         /\ UNCHANGED <<effects, names, seen, granted>>
         /\ cut' \subseteq Outer \X Places
         /\ EffectsOnce' /\ NamesAreUnique' /\ OneAtATime'
         /\ \A c \in Outer, s \in Places : Happened(c, s)' => Happened(c, s)
         /\ \A s \in Places : effects[o][s] > 0 /\ <<o, s>> \notin cut' => bridge.ledger # {}
<1>1. o \in Outer /\ answer[o] = "open" /\ TypeOK
  BY DEF IndInv, Bookkeeping
<1>2. /\ task' = [s \in Places |-> NoTask] /\ vm' = [pc |-> 1, open |-> {}]
      /\ UNCHANGED <<effects, names, seen, granted>> /\ cut' = cut \cup CutShort
  BY DEF Teardown
<1>3. bridge' \in Bridge /\ ~bridge'.resumed
  BY <1>1, Typed DEF Fresh, Bridge
<1>4. CutShort \subseteq Outer \X Places
  BY <1>1 DEF CutShort
<1>5. cut' \subseteq Outer \X Places
  BY <1>1, <1>2, <1>4 DEF TypeOK
<1>6. EffectsOnce' /\ NamesAreUnique' /\ OneAtATime'
  BY <1>2 DEF IndInv, EffectsOnce, NamesAreUnique, OneAtATime, Stage, NoTask, Active
<1>7. \A c \in Outer, s \in Places : Happened(c, s)' => Happened(c, s)
  BY <1>2 DEF Happened
<1>8. ASSUME NEW s \in Places, effects[o][s] > 0, <<o, s>> \notin cut'
      PROVE  bridge.ledger # {}
  <2>1. ~(Stage(s) = "effected" /\ Writes(s))
    BY <1>2, <1>8 DEF CutShort
  <2>2. Happened(o, s)
    BY <1>2, <1>8 DEF Happened
  <2> QED BY <2>1, <2>2 DEF IndInv, Recording
<1> QED BY <1>1, <1>2, <1>3, <1>5, <1>6, <1>7, <1>8

\* Without a running script most of the invariant says nothing.
LEMMA Idle ==
  ASSUME ~Running', bridge' = Fresh, task' = [s \in Places |-> NoTask],
         vm' = [pc |-> 1, open |-> {}]
  PROVE  ScriptShape' /\ Unspent' /\ Recording' /\ Counted' /\ ConsentNoted'
<1>1. \A s \in Places : Stage(s)' = "none" /\ ~task'[s].approved
  BY DEF Stage, NoTask
<1> QED BY <1>1 DEF ScriptShape, Unspent, Recording, Counted, ConsentNoted, Active

\* A run has one artifact: with none of another script, no request waits.
LEMMA NoRequest ==
  ASSUME IndInv, Running, saved.call \in {0, o}
  PROVE  asked = {}
<1>1. \A q \in asked : q.call \in Outer /\ q.call # o /\ saved.call = q.call
  BY DEF IndInv, Bookkeeping, TypeOK, Running
<1> QED BY <1>1, CodeModeAssumption

\* A segment ends with an answer to the model, and the artifact is dropped or is
\* that of another script.
LEMMA SegmentEnds ==
  ASSUME IndInv, Running, Teardown, bridge' = Fresh, UNCHANGED <<prog, asked>>,
         turn' \in {[pc |-> "model", call |-> 0], [pc |-> "over", call |-> 0]},
         NEW a \in {"result", "failed", "refused", "redraft", "recovery"},
         Answer(o, a),
         a = "redraft" => bridge.ledger = {},
         \/ saved' = None /\ asked = {}
         \/ saved' = saved /\ ~bridge.resumed
  PROVE  IndInv'
<1>1. /\ o \in Outer /\ answer[o] = "open" /\ TypeOK
      /\ task' = [s \in Places |-> NoTask] /\ vm' = [pc |-> 1, open |-> {}]
      /\ bridge' \in Bridge /\ ~bridge'.resumed
      /\ UNCHANGED <<effects, names, seen, granted>>
      /\ cut' \subseteq Outer \X Places
      /\ EffectsOnce' /\ NamesAreUnique' /\ OneAtATime'
      /\ \A c \in Outer, s \in Places : Happened(c, s)' => Happened(c, s)
      /\ \A s \in Places : effects[o][s] > 0 /\ <<o, s>> \notin cut' => bridge.ledger # {}
  BY Stopped
<1>2. /\ ~Running' /\ turn'.pc \in {"model", "over"} /\ turn'.call = 0 /\ 0 \notin Outer
      /\ turn' \in [pc: {"model", "script", "review", "over"}, call: Outer \cup {0}]
  BY CodeModeAssumption DEF Running
<1>3. /\ answer' \in [Outer -> Answers] /\ answer'[o] = a
      /\ \A c \in Outer : c # o => answer'[c] = answer[c]
  BY <1>1 DEF Answer, TypeOK, Answers
<1>4. TypeOK'
  <2>1. vm' \in [pc: 1..(MaxSteps + 1), open: SUBSET Places]
    BY <1>1, Typed
  <2>2. task' \in [Places -> Task]
    BY <1>1 DEF Task, NoTask, Stages
  <2> QED BY <1>1, <1>2, <1>3, <2>1, <2>2 DEF TypeOK, Bridge, Task
<1>5. ScriptShape' /\ Unspent' /\ Recording' /\ Counted' /\ ConsentNoted'
  BY <1>1, <1>2, Idle
<1>6. ReviewMatches'
  BY <1>2 DEF ReviewMatches
<1>7. RedraftSafe'
  <2>1. ASSUME NEW c \in Outer, NEW s \in Places, answer'[c] = "redraft"
        PROVE  ~Happened(c, s)'
    <3>1. CASE c = o
      BY <1>1, <1>3, <2>1, <3>1 DEF Happened
    <3>2. CASE c # o
      BY <1>1, <1>3, <2>1, <3>2 DEF IndInv, RedraftSafe
    <3> QED BY <3>1, <3>2
  <2> QED BY <2>1 DEF RedraftSafe
<1>8. \A q \in asked : q.call \in Outer /\ answer[q.call] = "suspended" /\ q.call # o
  BY <1>1 DEF IndInv, Bookkeeping, TypeOK, Running
<1>9. None.call = 0
  BY DEF None
<1>10. Bookkeeping'
  <2>1. \A q \in asked' : answer'[q.call] = "suspended"
    BY <1>3, <1>8
  <2>2. \A q \in asked' : saved'.call = q.call /\ saved'.id = q.id
    BY DEF IndInv, Bookkeeping, Running
  <2>3. ASSUME NEW c \in Outer, answer'[c] = "uncalled"
        PROVE  /\ turn'.call # c /\ saved'.call # c /\ c \notin seen'
               /\ \A s \in Places : effects'[c][s] = 0
               /\ \A n \in names' : n[1][1] # c
    BY <1>1, <1>2, <1>3, <1>9, <2>3 DEF IndInv, Bookkeeping
  <2>4. \A q, r \in asked' : q = r
    BY DEF IndInv, Bookkeeping
  <2> QED BY <1>1, <1>2, <2>1, <2>2, <2>3, <2>4 DEF Bookkeeping
<1>11. SavedEnough'
  <2>1. \A q \in asked', s \in Places : Happened(q.call, s)' => q.ledger # {}
    BY <1>1, <1>8 DEF IndInv, SavedEnough
  <2>2. ASSUME Paused'
        PROVE  saved' = saved /\ Paused /\ saved.call \in Outer
    BY <1>2, <1>9, <2>2 DEF Paused, IndInv, TypeOK, Running, None
  <2>3. ASSUME Paused'
        PROVE  /\ saved'.place < Len(prog'[saved'.call])
               /\ prog'[saved'.call][saved'.place] \in Calls
               /\ prog'[saved'.call][saved'.place + 1] = "await" =>
                    \A s \in Places : s >= saved'.place => effects'[saved'.call][s] = 0
               /\ \A s \in Places : Happened(saved.call, s)' => saved'.ledger # {}
               /\ \A n \in names' : n[1][1] = saved'.call => n[1][2] <= saved'.count
               /\ saved'.call \in seen' => saved'.tainted
    <3>1. saved' = saved /\ Paused /\ saved.call \in Outer
      BY <2>2, <2>3
    <3>2. \A s \in Places : Happened(saved.call, s)' => Happened(saved.call, s)
      BY <1>1, <3>1 DEF Happened, TypeOK
    <3> QED BY <1>1, <3>1, <3>2 DEF IndInv, SavedEnough
  <2> QED BY <2>1, <2>3 DEF SavedEnough
<1> QED BY <1>1, <1>4, <1>5, <1>6, <1>7, <1>10, <1>11 DEF IndInv

LEMMA CompleteStep ==
  ASSUME IndInv, Complete
  PROVE  IndInv'
<1>1. PICK a \in {"result", "failed"} : Answer(o, a)
  BY DEF Complete
<1>2. Running
  BY DEF Complete, AtEnd
<1>3. \/ saved' = None /\ asked = {}
      \/ saved' = saved /\ ~bridge.resumed
  BY <1>2 DEF Complete, IndInv, Bookkeeping
<1>4. /\ Teardown /\ bridge' = Fresh /\ UNCHANGED <<prog, asked>>
      /\ turn' = [pc |-> "model", call |-> 0]
  BY DEF Complete, BackToModel
<1> QED BY <1>1, <1>2, <1>3, <1>4, SegmentEnds

LEMMA BreakStep ==
  ASSUME IndInv, Break
  PROVE  IndInv'
<1>1. Running /\ Teardown /\ bridge' = Fresh /\ UNCHANGED <<prog, asked>>
  BY DEF Break
<1>2. CASE ~bridge.resumed /\ Answer(o, "failed") /\ BackToModel /\ UNCHANGED saved
  BY <1>1, <1>2, SegmentEnds DEF BackToModel
<1>3. CASE bridge.resumed /\ GiveUp(o, bridge.ledger # {})
  <2>1. saved' = None /\ asked = {}
    BY <1>3 DEF GiveUp, IndInv, Bookkeeping
  <2>2. CASE Answer(o, "recovery") /\ Ends
    BY <1>1, <2>1, <2>2, SegmentEnds DEF Ends
  <2>3. CASE bridge.ledger = {} /\ Answer(o, "redraft") /\ BackToModel
    BY <1>1, <2>1, <2>3, SegmentEnds DEF BackToModel
  <2> QED BY <1>3, <2>2, <2>3 DEF GiveUp
<1> QED BY <1>2, <1>3 DEF Break

\* The suspension that saves the script.
LEMMA SuspendSaves ==
  ASSUME IndInv, NEW s \in Places, Awaits(s), Stage(s) = "gated", Teardown,
         saved.call \in {0, o}, bridge' = Fresh, UNCHANGED prog,
         saved' = [call |-> o, place |-> s, id |-> task[s].id,
                   count |-> bridge.count, ledger |-> bridge.ledger,
                   tainted |-> bridge.tainted, health |-> "good"],
         asked' = asked \cup {[call |-> o, id |-> task[s].id, ledger |-> bridge.ledger]},
         Answer(o, "suspended"), BackToModel
  PROVE  IndInv'
<1>1. Running /\ AtAwait
  BY DEF Awaits, AtAwait
<1>2. /\ o \in Outer /\ answer[o] = "open" /\ TypeOK
      /\ task' = [t \in Places |-> NoTask] /\ vm' = [pc |-> 1, open |-> {}]
      /\ bridge' \in Bridge /\ ~bridge'.resumed
      /\ UNCHANGED <<effects, names, seen, granted>>
      /\ cut' \subseteq Outer \X Places
      /\ EffectsOnce' /\ NamesAreUnique' /\ OneAtATime'
      /\ \A c \in Outer, t \in Places : Happened(c, t)' => Happened(c, t)
      /\ \A t \in Places : effects[o][t] > 0 /\ <<o, t>> \notin cut' => bridge.ledger # {}
  BY <1>1, Stopped
<1> DEFINE q == [call |-> o, id |-> task[s].id, ledger |-> bridge.ledger]
<1>3. asked' = {q} /\ q.call = o /\ q.id = task[s].id /\ q.ledger = bridge.ledger
  BY <1>1, NoRequest
<1>4. /\ ~Running' /\ turn'.pc = "model" /\ turn'.call = 0 /\ 0 \notin Outer
      /\ turn' \in [pc: {"model", "script", "review", "over"}, call: Outer \cup {0}]
  BY CodeModeAssumption DEF Running, BackToModel
<1>5. /\ answer' \in [Outer -> Answers] /\ answer'[o] = "suspended"
      /\ \A c \in Outer : c # o => answer'[c] = answer[c]
  BY <1>2 DEF Answer, TypeOK, Answers
<1>6. task[s].id \in Ids
  BY DEF IndInv, Counted
<1>7. saved' \in Artifact /\ q \in Request
  BY <1>2, <1>6, Typed DEF Artifact, Request, Bridge
<1>8. TypeOK'
  <2>1. vm' \in [pc: 1..(MaxSteps + 1), open: SUBSET Places]
    BY <1>2, Typed
  <2>2. task' \in [Places -> Task]
    BY <1>2 DEF Task, NoTask, Stages
  <2>3. saved' \in {None} \cup Artifact /\ asked' \in SUBSET Request
    BY <1>3, <1>7
  <2> HIDE DEF q
  <2> QED BY <1>2, <1>4, <1>5, <2>1, <2>2, <2>3 DEF TypeOK, Bridge, Task, Artifact, Request
<1>9. ScriptShape' /\ Unspent' /\ Recording' /\ Counted' /\ ConsentNoted'
  BY <1>2, <1>4, Idle
<1>10. ReviewMatches'
  BY <1>4 DEF ReviewMatches
<1>11. RedraftSafe'
  <2>1. ASSUME NEW c \in Outer, NEW t \in Places, answer'[c] = "redraft"
        PROVE  ~Happened(c, t)'
    BY <1>2, <1>5, <2>1 DEF IndInv, RedraftSafe
  <2> QED BY <2>1 DEF RedraftSafe
<1>12. saved'.call = o /\ saved'.id = task[s].id /\ saved'.place = s /\ saved'.ledger = bridge.ledger
       /\ saved'.count = bridge.count /\ saved'.tainted = bridge.tainted
  OBVIOUS
<1> HIDE DEF q
<1>13. Bookkeeping'
  <2>1. ASSUME NEW c \in Outer, answer'[c] = "uncalled"
        PROVE  /\ turn'.call # c /\ saved'.call # c /\ c \notin seen'
               /\ \A t \in Places : effects'[c][t] = 0
               /\ \A n \in names' : n[1][1] # c
    BY <1>2, <1>4, <1>5, <1>12, <2>1 DEF IndInv, Bookkeeping
  <2> QED BY <1>2, <1>3, <1>4, <1>5, <1>12, <2>1 DEF Bookkeeping
<1>14. s \in vm.open /\ s \in Nat /\ vm.pc \in Nat /\ vm.pc <= Len(prog[o]) /\ Len(prog[o]) \in Nat
       /\ prog[o][vm.pc] = "await"
  BY <1>1, <1>2, Typed, Scripts DEF Awaits, Known, AtAwait, AtEnd
<1>15. s < vm.pc /\ \A u \in s..(vm.pc - 1) : prog[o][u] \in Calls
  BY <1>14 DEF IndInv, ScriptShape, Kind
<1>16. SavedEnough'
  <2>1. s < Len(prog[o]) /\ prog[o][s] \in Calls
    BY <1>14, <1>15
  <2>2. ASSUME prog[o][s + 1] = "await", NEW t \in Places, t >= s
        PROVE  effects[o][t] = 0
    <3>1. s + 1 = vm.pc
      BY <1>14, <1>15, <2>2, AwaitIsNoCall
    <3>2. t \in Nat
      BY <1>2, Typed
    <3>3. t = s \/ t >= vm.pc
      BY <1>14, <2>2, <3>1, <3>2
    <3> QED BY <1>1, <3>3 DEF IndInv, Unspent
  <2>3. \A n \in names : n[1][1] = o => n[1][2] <= bridge.count
    BY <1>1 DEF IndInv, Counted
  <2>4. o \in seen => bridge.tainted
    BY <1>1 DEF IndInv, ConsentNoted
  <2>5. \A c \in Outer, t \in Places : c = o /\ Happened(c, t)' => bridge.ledger # {}
    BY <1>2 DEF Happened
  <2>6. prog' = prog
    OBVIOUS
  <2> QED BY <1>2, <1>3, <1>12, <2>1, <2>2, <2>3, <2>4, <2>5, <2>6 DEF SavedEnough
<1> QED BY <1>2, <1>8, <1>9, <1>10, <1>11, <1>13, <1>16 DEF IndInv

LEMMA SuspendStep ==
  ASSUME IndInv, NEW s \in Places, Suspend(s)
  PROVE  IndInv'
<1>1. /\ Running /\ Awaits(s) /\ Stage(s) = "gated" /\ Teardown
      /\ bridge' = Fresh /\ UNCHANGED prog
  BY DEF Suspend, Awaits, AtAwait
<1>2. CASE /\ saved # None /\ saved.call # o
           /\ Answer(o, "refused") /\ BackToModel
           /\ UNCHANGED <<saved, asked>>
  <2>1. ~bridge.resumed
    BY <1>1, <1>2 DEF IndInv, Bookkeeping
  <2> QED BY <1>1, <1>2, <2>1, SegmentEnds DEF BackToModel
<1>3. CASE /\ saved.call \in {0, o}
           /\ saved' = None
           /\ \/ bridge.ledger # {} /\ Answer(o, "recovery") /\ Ends
              \/ bridge.ledger = {} /\ Answer(o, "failed") /\ BackToModel
           /\ UNCHANGED asked
  <2>1. asked = {}
    BY <1>1, <1>3, NoRequest
  <2>2. CASE Answer(o, "recovery") /\ Ends
    BY <1>1, <1>3, <2>1, <2>2, SegmentEnds DEF Ends
  <2>3. CASE Answer(o, "failed") /\ BackToModel
    BY <1>1, <1>3, <2>1, <2>3, SegmentEnds DEF BackToModel
  <2> QED BY <1>3, <2>2, <2>3
<1>4. CASE /\ saved.call \in {0, o}
           /\ saved' = [call |-> o, place |-> s, id |-> task[s].id,
                        count |-> bridge.count, ledger |-> bridge.ledger,
                        tainted |-> bridge.tainted, health |-> "good"]
           /\ asked' = asked \cup {[call |-> o, id |-> task[s].id, ledger |-> bridge.ledger]}
           /\ Answer(o, "suspended") /\ BackToModel
  BY <1>1, <1>4, SuspendSaves
<1> QED BY <1>2, <1>3, <1>4 DEF Suspend

----------------------------------------------------------------------------
(* The run around its scripts                                               *)

LEMMA NothingRuns ==
  ASSUME IndInv, ~Running
  PROVE  /\ \A s \in Places : Stage(s) = "none" /\ task[s].id \in Ids \cup {<<>>}
         /\ vm.open = {} /\ ~bridge.resumed /\ TypeOK
<1>1. TypeOK
  BY DEF IndInv
<1> QED BY <1>1, Typed DEF IndInv, ScriptShape, Bookkeeping, Task

LEMMA CallScriptStep ==
  ASSUME IndInv, NEW call \in Outer, CallScript(call)
  PROVE  IndInv'
<1>1. /\ ~Running /\ turn.pc = "model" /\ answer[call] = "uncalled"
      /\ turn' = [pc |-> "script", call |-> call] /\ Running' /\ o' = call
      /\ bridge' = Fresh /\ Answer(call, "open")
      /\ UNCHANGED <<prog, vm, task, saved, asked, effects, cut, names, seen, granted>>
  BY DEF CallScript, Running, o, history
<1>2. /\ \A s \in Places : Stage(s) = "none"
      /\ vm.open = {} /\ ~bridge.resumed /\ TypeOK
  BY <1>1, NothingRuns
<1>3. /\ saved.call # call /\ call \notin seen
      /\ \A s \in Places : effects[call][s] = 0
      /\ \A n \in names : n[1][1] # call
  BY <1>1 DEF IndInv, Bookkeeping
<1>4. /\ answer' \in [Outer -> Answers] /\ answer'[call] = "open"
      /\ \A c \in Outer : c # call => answer'[c] = answer[c]
  BY <1>1, <1>2 DEF Answer, TypeOK, Answers
<1>5. bridge' \in Bridge /\ ~bridge'.resumed /\ ~bridge'.tainted
  BY <1>1, <1>2, Typed DEF Fresh, Bridge
<1>6. TypeOK'
  <2>1. turn' \in [pc: {"model", "script", "review", "over"}, call: Outer \cup {0}]
    BY <1>1
  <2> QED BY <1>1, <1>2, <1>4, <1>5, <2>1 DEF TypeOK, Bridge
<1>7. EffectsOnce' /\ NamesAreUnique' /\ OneAtATime' /\ ReviewMatches'
  BY <1>1, <1>2 DEF IndInv, EffectsOnce, NamesAreUnique, OneAtATime, ReviewMatches, Stage, Active
<1>8. RedraftSafe'
  BY <1>1, <1>4 DEF IndInv, RedraftSafe, Happened
<1>9. Bookkeeping'
  <2>1. \A q \in asked' : answer'[q.call] = "suspended"
    BY <1>1, <1>2, <1>4 DEF IndInv, Bookkeeping, TypeOK
  <2>2. ASSUME NEW c \in Outer, answer'[c] = "uncalled"
        PROVE  /\ turn'.call # c /\ saved'.call # c /\ c \notin seen'
               /\ \A s \in Places : effects'[c][s] = 0
               /\ \A n \in names' : n[1][1] # c
    BY <1>1, <1>4, <2>2 DEF IndInv, Bookkeeping
  <2> QED BY <1>1, <1>3, <1>4, <1>5, <2>1, <2>2 DEF IndInv, Bookkeeping
<1>10. ScriptShape' /\ Unspent' /\ Recording' /\ Counted'
  BY <1>1, <1>2, <1>3 DEF ScriptShape, Unspent, Recording, Counted, Happened, Stage, Active
<1>11. ConsentNoted'
  BY <1>1, <1>2, <1>3, <1>5 DEF IndInv, ConsentNoted, Stage
<1>12. SavedEnough'
  <2>1. Paused' => Paused
    BY <1>1, <1>2 DEF Paused
  <2> QED BY <1>1, <2>1 DEF IndInv, SavedEnough, Happened
<1> QED BY <1>6, <1>7, <1>8, <1>9, <1>10, <1>11, <1>12 DEF IndInv

\* A step between scripts, that changes neither answers nor requests.
LEMMA Between ==
  ASSUME IndInv, ~Running, turn.pc # "over",
         turn' \in [pc: {"review", "over"}, call: {0, turn.call}],
         turn'.pc = "review" => ReviewMatches',
         UNCHANGED <<prog, answer, vm, bridge, task, asked, history>>,
         saved' \in {None} \cup Artifact,
         saved' # None => /\ saved'.call = saved.call /\ saved'.place = saved.place
                          /\ saved'.ledger = saved.ledger /\ saved'.count = saved.count
                          /\ saved'.tainted = saved.tainted
  PROVE  IndInv'
<1>1. /\ UNCHANGED <<effects, cut, names, seen, granted>> /\ ~Running'
      /\ turn'.call \in {0, turn.call} /\ turn'.pc \in {"review", "over"} /\ 0 \notin Outer
  BY CodeModeAssumption DEF history, Running
<1>2. /\ \A s \in Places : Stage(s) = "none" /\ Stage(s)' = "none"
      /\ vm.open = {} /\ ~bridge.resumed /\ TypeOK
  BY NothingRuns DEF Stage
<1>3. TypeOK'
  <2>1. turn' \in [pc: {"model", "script", "review", "over"}, call: Outer \cup {0}]
    BY <1>2 DEF TypeOK
  <2> QED BY <1>1, <1>2, <2>1 DEF TypeOK, Artifact
<1>4. EffectsOnce' /\ NamesAreUnique' /\ OneAtATime' /\ RedraftSafe' /\ ReviewMatches'
  BY <1>1, <1>2 DEF IndInv, EffectsOnce, NamesAreUnique, OneAtATime, RedraftSafe, Happened,
     ReviewMatches, Active
<1>5. ScriptShape' /\ Unspent' /\ Recording' /\ Counted'
  BY <1>1, <1>2 DEF ScriptShape, Unspent, Recording, Counted, Active
<1>6. ConsentNoted'
  BY <1>1, <1>2 DEF IndInv, ConsentNoted
<1>7. saved'.call \in {0, saved.call}
  BY DEF None
<1>8. Bookkeeping'
  BY <1>1, <1>2, <1>7 DEF IndInv, Bookkeeping
<1>9. SavedEnough'
  <2>1. Paused' => Paused /\ saved' # None
    BY <1>2, <1>7 DEF Paused, None
  <2> QED BY <1>1, <2>1 DEF IndInv, SavedEnough, Happened
<1> QED BY <1>3, <1>4, <1>5, <1>6, <1>8, <1>9 DEF IndInv

LEMMA BeginReviewStep ==
  ASSUME IndInv, BeginReview
  PROVE  IndInv'
<1>1. ~Running /\ saved \in {None} \cup Artifact
  BY Typed DEF BeginReview, Running, IndInv
<1>2. ReviewMatches'
  BY DEF BeginReview, IndInv, Bookkeeping, ReviewMatches
<1> QED BY <1>1, <1>2, Between DEF BeginReview

LEMMA DegradeStep ==
  ASSUME IndInv, Degrade
  PROVE  IndInv'
<1>1. ~Running /\ saved \in Artifact /\ turn.pc = "review" /\ TypeOK
  BY Typed DEF Degrade, Running, IndInv
<1>2. /\ saved' \in {None} \cup Artifact
      /\ saved' # None => /\ saved'.call = saved.call /\ saved'.place = saved.place
                          /\ saved'.ledger = saved.ledger /\ saved'.count = saved.count
                          /\ saved'.tainted = saved.tainted /\ saved'.id = saved.id
  <2>1. CASE saved' = None
    BY <2>1
  <2>2. CASE \E h \in {"unreadable", "garbled"} : saved' = [saved EXCEPT !.health = h]
    BY <1>1, <2>2 DEF Artifact
  <2> QED BY <2>1, <2>2 DEF Degrade
<1>3. ReviewMatches'
  BY <1>1, <1>2 DEF Degrade, IndInv, ReviewMatches
<1>4. turn' \in [pc: {"review", "over"}, call: {0, turn.call}]
  BY <1>1 DEF Degrade, TypeOK
<1> QED BY <1>1, <1>2, <1>3, <1>4, Between DEF Degrade

LEMMA EndRunStep ==
  ASSUME IndInv, EndRun
  PROVE  IndInv'
<1>1. ~Running /\ saved \in {None} \cup Artifact
  BY Typed DEF EndRun, Running, IndInv
<1> QED BY <1>1, Between DEF EndRun, Ends

LEMMA InterruptStep ==
  ASSUME IndInv, Interrupt
  PROVE  IndInv'
<1>1. /\ turn' = [pc |-> "over", call |-> 0] /\ ~Running' /\ Teardown /\ bridge' = Fresh
      /\ UNCHANGED <<prog, saved, asked, effects, names, seen, granted>>
      /\ task' = [s \in Places |-> NoTask] /\ vm' = [pc |-> 1, open |-> {}]
      /\ cut' = cut \cup CutShort /\ TypeOK /\ 0 \notin Outer
  BY CodeModeAssumption DEF Interrupt, Ends, Teardown, Running, IndInv
<1>2. /\ answer' \in [Outer -> Answers]
      /\ \A c \in Outer : answer'[c] \in {answer[c], "lost"}
      /\ \A c \in Outer : answer'[c] = "uncalled" => answer[c] = "uncalled"
  BY <1>1 DEF Interrupt, TypeOK, Answers
<1>3. CutShort \subseteq Outer \X Places
  <2>1. CASE Running
    BY <2>1 DEF CutShort, IndInv, Bookkeeping
  <2>2. CASE ~Running
    BY <2>2, NothingRuns DEF CutShort
  <2> QED BY <2>1, <2>2
<1>4. TypeOK'
  <2>1. vm' \in [pc: 1..(MaxSteps + 1), open: SUBSET Places]
    BY <1>1, Typed
  <2>2. task' \in [Places -> Task] /\ bridge' \in Bridge
    BY <1>1, Typed DEF Task, NoTask, Stages, Fresh, Bridge
  <2>3. turn' \in [pc: {"model", "script", "review", "over"}, call: Outer \cup {0}]
    BY <1>1
  <2> QED BY <1>1, <1>2, <1>3, <2>1, <2>2, <2>3 DEF TypeOK, Bridge, Task
<1>5. EffectsOnce' /\ NamesAreUnique' /\ OneAtATime' /\ ReviewMatches'
  BY <1>1 DEF IndInv, EffectsOnce, NamesAreUnique, OneAtATime, ReviewMatches, Stage, NoTask, Active
<1>6. \A c \in Outer, s \in Places : Happened(c, s)' => Happened(c, s)
  BY <1>1 DEF Happened
<1>7. RedraftSafe'
  BY <1>2, <1>6 DEF IndInv, RedraftSafe
<1>8. Bookkeeping'
  <2>1. ~bridge'.resumed
    BY <1>1 DEF Fresh
  <2>2. ASSUME NEW c \in Outer, answer'[c] = "uncalled"
        PROVE  /\ turn'.call # c /\ saved'.call # c /\ c \notin seen'
               /\ \A s \in Places : effects'[c][s] = 0
               /\ \A n \in names' : n[1][1] # c
    BY <1>1, <1>2, <2>2 DEF IndInv, Bookkeeping
  <2> QED BY <1>1, <2>1, <2>2 DEF IndInv, Bookkeeping
<1>9. ScriptShape' /\ Unspent' /\ Recording' /\ Counted' /\ ConsentNoted'
  BY <1>1, Idle
<1>10. SavedEnough'
  <2>1. ~Paused'
    BY <1>1 DEF Paused
  <2>2. \A q \in asked : q.call \in Outer
    BY <1>1 DEF TypeOK
  <2> QED BY <1>1, <1>6, <2>1, <2>2 DEF IndInv, SavedEnough
<1> QED BY <1>4, <1>5, <1>7, <1>8, <1>9, <1>10 DEF IndInv

\* The run goes on without the suspended script.
LEMMA Abandoned ==
  ASSUME IndInv, turn.pc = "review", NEW q \in asked, asked' = asked \ {q},
         NEW evidence \in BOOLEAN, GiveUp(q.call, evidence),
         ~evidence => \A s \in Places : ~Happened(q.call, s),
         UNCHANGED <<prog, vm, bridge, task, effects, cut, names, seen, granted>>
  PROVE  IndInv'
<1>1. /\ \A s \in Places : Stage(s) = "none" /\ Stage(s)' = "none"
      /\ vm.open = {} /\ ~bridge.resumed /\ TypeOK
  BY NothingRuns DEF Running, Stage
<1>2. asked' = {} /\ q.call \in Outer
  BY <1>1 DEF IndInv, Bookkeeping, TypeOK
<1>3. /\ saved' = None /\ None.call = 0 /\ 0 \notin Outer
      /\ turn' \in [pc: {"model", "script", "review", "over"}, call: Outer \cup {0}]
      /\ turn'.call = 0 /\ ~Running'
  BY CodeModeAssumption DEF GiveUp, Ends, BackToModel, None, Running
<1>4. /\ answer' \in [Outer -> Answers] /\ answer'[q.call] \in {"recovery", "redraft"}
      /\ answer'[q.call] = "redraft" => ~evidence
      /\ \A c \in Outer : c # q.call => answer'[c] = answer[c]
  <2>1. PICK a \in {"recovery", "redraft"} :
          Answer(q.call, a) /\ (a = "redraft" => ~evidence)
    BY DEF GiveUp
  <2>2. answer' = [answer EXCEPT ![q.call] = a]
    BY <2>1 DEF Answer
  <2> QED BY <1>1, <1>2, <2>1, <2>2 DEF TypeOK, Answers
<1>5. TypeOK'
  BY <1>1, <1>2, <1>3, <1>4 DEF TypeOK
<1>6. EffectsOnce' /\ NamesAreUnique' /\ OneAtATime' /\ ReviewMatches'
  BY <1>1, <1>2 DEF IndInv, EffectsOnce, NamesAreUnique, OneAtATime, ReviewMatches, Active
<1>7. RedraftSafe'
  <2>1. ASSUME NEW c \in Outer, NEW s \in Places, answer'[c] = "redraft"
        PROVE  ~Happened(c, s)'
    BY <1>4, <2>1 DEF IndInv, RedraftSafe, Happened
  <2> QED BY <2>1 DEF RedraftSafe
<1>8. Bookkeeping'
  <2>1. ASSUME NEW c \in Outer, answer'[c] = "uncalled"
        PROVE  /\ turn'.call # c /\ saved'.call # c /\ c \notin seen'
               /\ \A s \in Places : effects'[c][s] = 0
               /\ \A n \in names' : n[1][1] # c
    BY <1>3, <1>4, <2>1 DEF IndInv, Bookkeeping
  <2> QED BY <1>1, <1>2, <1>3, <2>1 DEF Bookkeeping
<1>9. ScriptShape' /\ Unspent' /\ Recording' /\ Counted'
  BY <1>1, <1>3 DEF ScriptShape, Unspent, Recording, Counted, Active
<1>10. ConsentNoted'
  BY <1>1, <1>3 DEF IndInv, ConsentNoted
<1>11. SavedEnough'
  BY <1>2, <1>3 DEF SavedEnough, Paused
<1> QED BY <1>5, <1>6, <1>7, <1>8, <1>9, <1>10, <1>11 DEF IndInv

\* The script goes on where it stopped.
LEMMA GoesOn ==
  ASSUME IndInv, turn.pc = "review", NEW q \in asked, asked' = asked \ {q},
         NEW approved \in BOOLEAN, ~Unrestorable(q), AwaitedAtOnce,
         turn' = [pc |-> "script", call |-> q.call],
         Answer(q.call, "open"), bridge' = Restored,
         vm' = [pc |-> saved.place + 1,
                open |-> Gathered(prog[q.call], saved.place) \cup {saved.place}],
         task' = [task EXCEPT ![saved.place] =
                     [stage |-> IF approved THEN "dispatching" ELSE "failed",
                      id |-> saved.id, approved |-> approved]],
         granted' = (IF approved THEN granted \cup {saved.id} ELSE granted),
         UNCHANGED <<prog, saved, effects, cut, names, seen>>
  PROVE  IndInv'
<1> DEFINE call == q.call
           place == saved.place
<1>1. /\ \A s \in Places : Stage(s) = "none"
      /\ ~bridge.resumed /\ TypeOK
  BY NothingRuns DEF Running
<1>2. asked' = {} /\ call \in Outer /\ answer[call] = "suspended"
  BY <1>1 DEF IndInv, Bookkeeping, TypeOK
<1>3. saved.call = call /\ saved \in Artifact
  BY <1>1, <1>2, Typed, CodeModeAssumption DEF Unrestorable, None
<1>4. Paused
  BY <1>1, <1>2, <1>3, CodeModeAssumption DEF Paused
<1>5. /\ place \in Places /\ saved.id \in Ids /\ place \in Nat
      /\ place < Len(prog[call]) /\ prog[call][place] \in Calls
      /\ \A s \in Places : s >= place => effects[call][s] = 0
      /\ \A s \in Places : Happened(call, s) => saved.ledger # {}
      /\ \A n \in names : n[1][1] = call => n[1][2] <= saved.count
      /\ call \in seen => saved.tainted
  BY <1>1, <1>3, <1>4, Typed DEF IndInv, SavedEnough, AwaitedAtOnce, Artifact
<1>6. /\ Running' /\ o' = call /\ bridge' \in Bridge /\ bridge'.resumed
      /\ bridge'.count = saved.count /\ bridge'.ledger = saved.ledger
      /\ bridge'.tainted = saved.tainted
  BY <1>3 DEF Running, o, Restored, Artifact, Bridge
<1>7. /\ task' \in [Places -> Task]
      /\ \A s \in Places \ {place} : task'[s] = task[s] /\ Stage(s)' = "none"
      /\ Stage(place)' = (IF approved THEN "dispatching" ELSE "failed")
      /\ task'[place].id = saved.id /\ task'[place].approved = approved
  <2>1. [stage |-> IF approved THEN "dispatching" ELSE "failed",
         id |-> saved.id, approved |-> approved] \in Task
    BY <1>5 DEF Task, Stages
  <2> QED BY <1>1, <1>5, <2>1, Typed DEF Stage
<1>8. /\ answer' \in [Outer -> Answers] /\ answer'[call] = "open"
      /\ \A c \in Outer : c # call => answer'[c] = answer[c]
  BY <1>1, <1>2 DEF Answer, TypeOK, Answers
<1>9. granted' \subseteq Ids /\ granted \subseteq granted' /\ (approved => saved.id \in granted')
  BY <1>1, <1>5 DEF TypeOK
<1>10. Gathered(prog[call], place) \subseteq 1..(place - 1)
  BY DEF Gathered
<1>11. TypeOK'
  <2>1. Len(prog[call]) <= MaxSteps /\ Len(prog[call]) \in Nat /\ MaxSteps \in Nat
    BY <1>1, <1>2, Scripts, Typed
  <2>2. place + 1 \in 1..(MaxSteps + 1) /\ 1..(place - 1) \subseteq Places
    BY <1>5, <2>1 DEF Places
  <2>3. vm' \in [pc: 1..(MaxSteps + 1), open: SUBSET Places]
    BY <1>5, <1>10, <2>2
  <2>4. turn' \in [pc: {"model", "script", "review", "over"}, call: Outer \cup {0}]
    BY <1>2
  <2> QED BY <1>1, <1>2, <1>6, <1>7, <1>8, <1>9, <2>3, <2>4 DEF TypeOK, Bridge, Task
<1>12. EffectsOnce' /\ NamesAreUnique' /\ ReviewMatches'
  BY <1>2 DEF IndInv, EffectsOnce, NamesAreUnique, ReviewMatches
<1>13. OneAtATime'
  BY <1>7 DEF OneAtATime, Active
<1>14. RedraftSafe'
  BY <1>8 DEF IndInv, RedraftSafe, Happened
<1>15. Bookkeeping'
  <2>1. ASSUME NEW c \in Outer, answer'[c] = "uncalled"
        PROVE  /\ turn'.call # c /\ saved'.call # c /\ c \notin seen'
               /\ \A s \in Places : effects'[c][s] = 0
               /\ \A n \in names' : n[1][1] # c
    BY <1>3, <1>8, <2>1 DEF IndInv, Bookkeeping
  <2> QED BY <1>2, <1>3, <1>6, <1>8, <2>1 DEF Bookkeeping
<1>16. ScriptShape'
  <2>1. \A s \in Places : Stage(s)' # "none" => s < vm'.pc /\ Kind(s)' \in Calls
    BY <1>5, <1>6, <1>7 DEF Kind
  <2>2. ASSUME NEW s \in vm'.open
        PROVE  s < vm'.pc /\ \A u \in s..(vm'.pc - 1) : Kind(u)' \in Calls
    <3>1. CASE s = place
      BY <1>5, <1>6, <3>1 DEF Kind
    <3>2. CASE s \in Gathered(prog[call], place)
      BY <1>5, <1>6, <3>2 DEF Kind, Gathered
    <3> QED BY <2>2, <3>1, <3>2
  <2> QED BY <1>6, <2>1, <2>2 DEF ScriptShape
<1>17. Unspent'
  <2>1. \A s \in Places : s >= vm'.pc => s >= place
    BY <1>1, <1>5, Typed
  <2> QED BY <1>5, <1>6, <1>7, <2>1 DEF Unspent
<1>18. Recording'
  BY <1>5, <1>6 DEF Recording, Happened
<1>19. Counted'
  BY <1>5, <1>6, <1>7 DEF Counted, Active
<1>20. ConsentNoted'
  <2>1. \A s \in Places : task'[s].approved => task'[s].id \in granted'
    BY <1>7, <1>9 DEF IndInv, ConsentNoted
  <2>2. \A s \in Places : Stage(s)' \in {"dispatching", "handling"} =>
          Stage(s)' = "dispatching" /\ task'[s].approved
    BY <1>5, <1>7
  <2>3. \A s \in Places : Stage(s)' # "ok"
    BY <1>5, <1>7
  <2> QED BY <1>5, <1>6, <2>1, <2>2, <2>3 DEF ConsentNoted
<1>21. SavedEnough'
  BY <1>2, <1>6 DEF SavedEnough, Paused
<1> QED BY <1>11, <1>12, <1>13, <1>14, <1>15, <1>16, <1>17, <1>18, <1>19, <1>20, <1>21 DEF IndInv

LEMMA ResumeStep ==
  ASSUME IndInv, NEW q \in asked, NEW approved \in BOOLEAN, Resume(q, approved)
  PROVE  IndInv'
<1>1. /\ turn.pc = "review" /\ asked' = asked \ {q}
      /\ UNCHANGED <<prog, effects, cut, names, seen>> /\ TypeOK /\ q.call \in Outer
  BY DEF Resume, IndInv, TypeOK
<1>2. CASE /\ Unrestorable(q)
           /\ GiveUp(q.call, Evidence(q))
           /\ UNCHANGED <<vm, bridge, task, granted>>
  <2>1. Evidence(q) \in BOOLEAN
    BY DEF Evidence
  <2>2. ~Evidence(q) => \A s \in Places : ~Happened(q.call, s)
    BY DEF Evidence, IndInv, SavedEnough
  <2> QED BY <1>1, <1>2, <2>1, <2>2, Abandoned
<1>3. CASE /\ ~Unrestorable(q) /\ ~AwaitedAtOnce
           /\ GiveUp(q.call, saved.ledger # {})
           /\ UNCHANGED <<vm, bridge, task, granted>>
  <2>1. saved.call = q.call /\ ~bridge.resumed
    BY <1>1, <1>3 DEF Unrestorable, IndInv, Bookkeeping, Running
  <2>2. Paused
    BY <1>1, <2>1, CodeModeAssumption DEF Paused
  <2>3. saved.ledger = {} => \A s \in Places : ~Happened(q.call, s)
    BY <2>1, <2>2 DEF IndInv, SavedEnough
  <2> QED BY <1>1, <1>3, <2>3, Abandoned
<1>4. CASE /\ ~Unrestorable(q) /\ AwaitedAtOnce
           /\ turn' = [pc |-> "script", call |-> q.call]
           /\ Answer(q.call, "open")
           /\ bridge' = Restored
           /\ vm' = [pc |-> saved.place + 1,
                     open |-> Gathered(prog[q.call], saved.place) \cup {saved.place}]
           /\ task' = [task EXCEPT ![saved.place] =
                 [stage |-> IF approved THEN "dispatching" ELSE "failed",
                  id |-> saved.id, approved |-> approved]]
           /\ granted' = IF approved THEN granted \cup {saved.id} ELSE granted
           /\ UNCHANGED saved
  BY <1>1, <1>4, GoesOn
<1> QED BY <1>2, <1>3, <1>4 DEF Resume

----------------------------------------------------------------------------
(* Theorems                                                                 *)

LEMMA InitIndInv == Init => IndInv
<1> SUFFICES ASSUME Init
             PROVE  IndInv
  OBVIOUS
<1>1. /\ turn = [pc |-> "model", call |-> 0] /\ ~Running /\ 0 \notin Outer
      /\ MaxCalls \in Nat /\ MaxSteps \in Nat
  BY CodeModeAssumption DEF Init, Running
<1>2. bridge \in Bridge /\ ~bridge.resumed
  BY <1>1 DEF Init, Fresh, Bridge
<1>3. task \in [Places -> Task]
      /\ \A s \in Places : Stage(s) = "none" /\ ~task[s].approved
  BY DEF Init, NoTask, Task, Stages, Stage
<1>4. TypeOK
  <2>1. vm \in [pc: 1..(MaxSteps + 1), open: SUBSET Places]
    BY <1>1 DEF Init
  <2>2. effects \in [Outer -> [Places -> Nat]]
    BY DEF Init
  <2>3. answer \in [Outer -> Answers]
    BY DEF Init, Answers
  <2> QED BY <1>1, <1>2, <1>3, <2>1, <2>2, <2>3 DEF Init, TypeOK, Bridge, Task
<1>5. EffectsOnce /\ NamesAreUnique /\ ReviewMatches /\ OneAtATime /\ RedraftSafe
  BY <1>3 DEF Init, EffectsOnce, NamesAreUnique, ReviewMatches, OneAtATime, RedraftSafe, Active,
     Happened
<1>6. Bookkeeping
  BY <1>1, <1>2 DEF Init, Bookkeeping, None
<1>7. ScriptShape /\ Unspent /\ Recording /\ Counted /\ ConsentNoted
  BY <1>1, <1>3 DEF Init, ScriptShape, Unspent, Recording, Counted, ConsentNoted, Active
<1>8. SavedEnough
  BY DEF Init, SavedEnough, Paused, None
<1> QED BY <1>4, <1>5, <1>6, <1>7, <1>8 DEF IndInv

LEMMA NextIndInv == IndInv /\ [Next]_vars => IndInv'
<1> SUFFICES ASSUME IndInv, [Next]_vars
             PROVE  IndInv'
  OBVIOUS
<1>1. CASE TaskStep
  BY <1>1, EnterStep, DispatchStep, HandleStep, HandlerFailsStep, ReturnStep DEF TaskStep
<1>2. CASE ScriptStep
  BY <1>2, IssueStep, CompleteStep, BreakStep, DeliverStep, SuspendStep DEF ScriptStep, UnknownCall
<1>3. CASE RunStep
  BY <1>3, CallScriptStep, BeginReviewStep, DegradeStep, EndRunStep, ResumeStep DEF RunStep
<1>4. CASE Break
  BY <1>4, BreakStep
<1>5. CASE Interrupt
  BY <1>5, InterruptStep
<1>6. CASE UNCHANGED vars
  BY <1>6 DEF vars, IndInv, TypeOK, EffectsOnce, NamesAreUnique, ReviewMatches, OneAtATime,
     RedraftSafe, Bookkeeping, ScriptShape, Unspent, Recording, Counted, ConsentNoted,
     SavedEnough, Paused, Happened, Running, Stage, Kind, Writes, o
<1> QED BY <1>1, <1>2, <1>3, <1>4, <1>5, <1>6 DEF Next

\* Whatever the scripts and however often they are suspended, a restored script
\* goes on where it stopped: no call of it takes effect twice, gets the id of
\* another, or is dispatched beside another, and a person decides about the call
\* the run would go on with.
THEOREM RestoredScriptsAreSound == Spec => []IndInv
  BY InitIndInv, NextIndInv, PTL DEF Spec

\* The model is never told to write a script again whose writes happened, save
\* for those that were cut short before they could be recorded.
THEOREM RedraftsAreSafe == Spec => []RedraftSafe
<1>1. IndInv => RedraftSafe
  BY DEF IndInv
<1> QED BY <1>1, RestoredScriptsAreSound, PTL

\* No call that needs approval takes effect without the approval of that call.
THEOREM ConsentIsPerCall == Spec => ConsentPerCall
<1>1. ASSUME IndInv, [Next]_vars, NEW c \in Outer, NEW s \in Places,
             effects'[c][s] > effects[c][s]
      PROVE  (prog[c][s] = "write" /\ c \notin seen) \/ task[s].id \in granted
  <2>1. effects \in [Outer -> [Places -> Nat]]
    BY <1>1 DEF IndInv, TypeOK
  <2>2. effects' # effects
    <3>1. effects[c][s] \in Nat
      BY <2>1
    <3> QED BY <1>1, <3>1
  <2>3. PICK t \in Places : Handle(t)
    BY <1>1, <2>2 DEF Next, TaskStep, ScriptStep, RunStep, Enter, Dispatch, HandlerFails, Return,
       Issue, Complete, UnknownCall, Break, Deliver, Suspend, CallScript, BeginReview, Degrade,
       EndRun, Resume, Interrupt, Teardown, history, vars
  <2>4. Running /\ Stage(t) = "handling" /\ Writes(t)
    BY <2>2, <2>3 DEF Handle
  <2>5. c = o /\ s = t
    <3>1. effects' = [effects EXCEPT ![o][t] = effects[o][t] + 1]
      BY <2>3, <2>4 DEF Handle
    <3>2. c # o \/ s # t => effects'[c][s] = effects[c][s]
      BY <2>1, <3>1
    <3>3. effects[c][s] \in Nat
      BY <2>1
    <3> QED BY <1>1, <3>2, <3>3
  <2>6. CASE Kind(t) = "gated"
    BY <1>1, <2>4, <2>5, <2>6 DEF IndInv, ConsentNoted
  <2>7. CASE Kind(t) = "write"
    BY <1>1, <2>4, <2>5, <2>7 DEF IndInv, ConsentNoted, Kind
  <2> QED BY <2>4, <2>6, <2>7 DEF Writes
<1>2. IndInv /\ [Next]_vars =>
        [\A c \in Outer, s \in Places :
            effects'[c][s] > effects[c][s] =>
              \/ prog[c][s] = "write" /\ c \notin seen
              \/ task[s].id \in granted]_vars
  BY <1>1
<1> QED BY <1>2, RestoredScriptsAreSound, PTL DEF Spec, ConsentPerCall
=============================================================================
