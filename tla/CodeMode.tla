------------------------------ MODULE CodeMode ------------------------------
(***************************************************************************)
(* Code mode: the run_code calls of one agent run.  A script executes in a  *)
(* sandboxed interpreter and calls tools.  Each call becomes a task of the  *)
(* host; the tasks dispatch one at a time, under a lock.  A call that needs *)
(* approval stops the script: the interpreter's state from before the call  *)
(* is saved with what the script has done so far, and restored, perhaps by  *)
(* another process, once somebody has decided about this one call.          *)
(*                                                                         *)
(* A script is a sequence of calls and of awaits; an await waits for every  *)
(* call issued so far.  A place in the script stands for the call made      *)
(* there, so a restored script that makes a call again makes it at the same *)
(* place.  What the script computes, and values that do not fit through the *)
(* sandbox's boundary, are left open; a failed call may be caught, or may   *)
(* break the script, as may its time budget.                                *)
(***************************************************************************)
EXTENDS Naturals, Sequences

CONSTANTS
    Outer,      \* run_code calls of the run, numbered in the order they are made
    Programs,   \* scripts
    MaxSteps,   \* how long a script may be
    MaxCalls    \* nested calls a script may make

\* A read, a read of untrusted data, a write the run may make on its own, and
\* a write that is approved first.
Calls == {"read", "fetch", "write", "gated"}

ASSUME CodeModeAssumption ==
    /\ Outer \subseteq Nat /\ 0 \notin Outer
    /\ MaxCalls \in Nat /\ MaxSteps \in Nat
    /\ Programs \subseteq Seq(Calls \cup {"await"})
    /\ \A p \in Programs : Len(p) <= MaxSteps

VARIABLES
    turn,       \* the run: which run_code call it executes, if any
    prog,       \* the script of each run_code call
    answer,     \* what the model was told of each call
    vm,         \* the interpreter: its place, and the calls it has no result of
    bridge,     \* what the host knows of the script: see Fresh
    task,       \* the host's task for each place of the script
    saved,      \* the run's resume artifact
    asked,      \* the run's deferred requests, with the evidence they carry
    effects,    \* history: how often the call at each place took effect
    cut,        \* history: calls cut short after their effect
    names,      \* history: the id of each call, with its place
    seen,       \* history: scripts that were given untrusted data
    granted     \* history: ids of approved calls

vars == <<turn, prog, answer, vm, bridge, task, saved, asked,
          effects, cut, names, seen, granted>>
history == <<effects, cut, names, seen, granted>>

Places == 1..MaxSteps
None == [call |-> 0, health |-> "missing"]
NoTask == [stage |-> "none", id |-> <<>>, approved |-> FALSE]

\* A new script: no calls counted, no writes recorded, nothing untrusted read.
Fresh == [count |-> 0, ledger |-> {}, tainted |-> FALSE, resumed |-> FALSE]

Init ==
    /\ turn = [pc |-> "model", call |-> 0]
    /\ prog \in [Outer -> Programs]
    /\ answer = [c \in Outer |-> "uncalled"]
    /\ vm = [pc |-> 1, open |-> {}]
    /\ bridge = Fresh
    /\ task = [s \in Places |-> NoTask]
    /\ saved = None
    /\ asked = {}
    /\ effects = [c \in Outer |-> [s \in Places |-> 0]]
    /\ cut = {} /\ names = {} /\ seen = {} /\ granted = {}

----------------------------------------------------------------------------
(* The interpreter and the host's tasks                                     *)

o == turn.call
Kind(s) == prog[o][s]
Running == turn.pc = "script"
AtEnd == Running /\ vm.pc > Len(prog[o])
AtAwait == Running /\ ~AtEnd /\ prog[o][vm.pc] = "await"
AtCall == Running /\ ~AtEnd /\ prog[o][vm.pc] \in Calls
Stage(s) == task[s].stage
Writes(s) == Kind(s) \in {"write", "gated"}
Known == {s \in vm.open : Stage(s) # "none"}
Active == {"dispatching", "handling", "effected"}

\* A call that fails keeps the lock.
BugHoldsOnFailure(s) ==
    \A t \in Places : Stage(t) \notin Active \cup {"failed"} /\ (Stage(t) = "queued" => s <= t)

\* asyncio.Lock: tasks enter in the order they were created.
LockFree(s) ==
    \A t \in Places : Stage(t) \notin Active /\ (Stage(t) = "queued" => s <= t)

Move(s, stage) == task' = [task EXCEPT ![s].stage = stage]
Recorded(s) == IF Writes(s) THEN bridge.ledger \cup {task[s].id} ELSE bridge.ledger

\* Pending tasks are cancelled when a segment ends.  A write whose effect has
\* happened, and is not recorded yet, is not recorded any more.
CutShort == {<<o, s>> : s \in {t \in Places : Stage(t) = "effected" /\ Writes(t)}}
Teardown ==
    /\ task' = [s \in Places |-> NoTask]
    /\ vm' = [pc |-> 1, open |-> {}]
    /\ cut' = cut \cup CutShort
    /\ UNCHANGED <<effects, names, seen, granted>>

Answer(call, a) == answer' = [answer EXCEPT ![call] = a]

\* The run ends: for operator recovery, or otherwise.
Ends == turn' = [pc |-> "over", call |-> 0]
BackToModel == turn' = [pc |-> "model", call |-> 0]

\* What a script that cannot go on ends as.  With recorded writes a person has
\* to look; without, the model may write the script again.
GiveUp(call, evidence) ==
    /\ saved' = None
    /\ \/ evidence /\ Answer(call, "recovery") /\ Ends
       \/ ~evidence /\ Answer(call, "redraft") /\ BackToModel

----------------------------------------------------------------------------
(* The script                                                               *)

CallScript(call) ==
    /\ turn.pc = "model" /\ answer[call] = "uncalled"
    /\ \A c \in Outer : c < call => answer[c] # "uncalled"
    /\ turn' = [pc |-> "script", call |-> call]
    /\ Answer(call, "open")
    /\ bridge' = Fresh
    /\ UNCHANGED <<prog, vm, task, saved, asked, history>>

\* The driver creates a task for the call and keeps the snapshot from before it.
Issue ==
    /\ AtCall
    /\ Move(vm.pc, "queued")
    /\ vm' = [pc |-> vm.pc + 1, open |-> vm.open \cup {vm.pc}]
    /\ UNCHANGED <<turn, prog, answer, bridge, saved, asked, history>>

\* The task gets the lock.  It counts, unless the budget of calls is used up;
\* a write after untrusted data needs approval whatever the run may do alone.
Enter(s) ==
    /\ Running /\ Stage(s) = "queued" /\ LockFree(s)
    /\ LET id == <<o, bridge.count + 1>>
       IN  \/ /\ bridge.count >= MaxCalls
              /\ Move(s, "failed")
              /\ UNCHANGED <<bridge, names>>
           \/ /\ bridge.count < MaxCalls
              /\ bridge' = [bridge EXCEPT !.count = @ + 1]
              /\ names' = names \cup {<<id, s>>}
              /\ task' = [task EXCEPT ![s] =
                    [stage |-> IF bridge.tainted /\ Writes(s) THEN "gated" ELSE "dispatching",
                     id |-> id, approved |-> FALSE]]
    /\ UNCHANGED <<turn, prog, answer, vm, saved, asked, effects, cut, seen, granted>>

\* Arguments, membership, role and envelope are checked, for an approved call
\* again; then approval is required or the handler starts.
Dispatch(s) ==
    /\ Running /\ Stage(s) = "dispatching"
    /\ \/ Move(s, "failed")
       \/ Kind(s) = "gated" /\ ~task[s].approved /\ Move(s, "gated")
       \/ (Kind(s) = "gated" => task[s].approved) /\ Move(s, "handling")
    /\ UNCHANGED <<turn, prog, answer, vm, bridge, saved, asked, history>>

Handle(s) ==
    /\ Running /\ Stage(s) = "handling"
    /\ Move(s, "effected")
    /\ effects' = IF Writes(s) THEN [effects EXCEPT ![o][s] = @ + 1] ELSE effects
    /\ UNCHANGED <<turn, prog, answer, vm, bridge, saved, asked, cut, names, seen, granted>>

\* The handler fails, before its effect or after it: the write is recorded.
HandlerFails(s) ==
    /\ Running /\ Stage(s) \in {"handling", "effected"}
    /\ Move(s, "failed")
    /\ bridge' = [bridge EXCEPT !.ledger = Recorded(s)]
    /\ UNCHANGED <<turn, prog, answer, vm, saved, asked, history>>

\* The result reaches the bridge, which notes the write and untrusted content.
\* A result that does not fit through the boundary fails here.
Return(s) ==
    /\ Running /\ Stage(s) = "effected"
    /\ \E stage \in {"ok", "failed"} : Move(s, stage)
    /\ bridge' = [bridge EXCEPT !.ledger = Recorded(s),
                                !.tainted = @ \/ Kind(s) = "fetch"]
    /\ UNCHANGED <<turn, prog, answer, vm, saved, asked, history>>

\* At an await the driver settles the pending calls in their order.
Awaits(s) == AtAwait /\ s \in Known /\ \A t \in Known : s <= t

Deliver(s) ==
    /\ Awaits(s) /\ Stage(s) \in {"ok", "failed"}
    /\ LET open == vm.open \ {s}
       IN  vm' = [pc |-> IF open = {} THEN vm.pc + 1 ELSE vm.pc, open |-> open]
    /\ seen' = IF Stage(s) = "ok" /\ Kind(s) = "fetch" THEN seen \cup {o} ELSE seen
    /\ UNCHANGED <<turn, prog, answer, bridge, task, saved, asked, effects, cut, names, granted>>

----------------------------------------------------------------------------
(* The ends of a segment                                                    *)

\* The call waited for needs approval: the script is saved as it was before the
\* call, unless another script of the run is saved already or the state is too
\* large.
Suspend(s) ==
    /\ Awaits(s) /\ Stage(s) = "gated"
    /\ Teardown
    /\ \/ /\ saved # None /\ saved.call # o
          /\ Answer(o, "refused") /\ BackToModel
          /\ UNCHANGED <<saved, asked>>
       \/ /\ saved.call \in {0, o}
          /\ saved' = None
          /\ \/ bridge.ledger # {} /\ Answer(o, "recovery") /\ Ends
             \/ bridge.ledger = {} /\ Answer(o, "failed") /\ BackToModel
          /\ UNCHANGED asked
       \/ /\ saved.call \in {0, o}
          /\ saved' = [call |-> o, place |-> s, id |-> task[s].id,
                       count |-> bridge.count, ledger |-> bridge.ledger,
                       tainted |-> bridge.tainted, health |-> "good"]
          /\ asked' = asked \cup {[call |-> o, id |-> task[s].id, ledger |-> bridge.ledger]}
          /\ Answer(o, "suspended") /\ BackToModel
    /\ bridge' = Fresh
    /\ UNCHANGED prog

\* The script reaches its end; its value may not fit.
Complete ==
    /\ AtEnd
    /\ Teardown
    /\ saved' = IF bridge.resumed THEN None ELSE saved
    /\ \E a \in {"result", "failed"} : Answer(o, a)
    /\ BackToModel
    /\ bridge' = Fresh
    /\ UNCHANGED <<prog, asked>>

\* The script raises, its time is up, or its interpreter dies.
Break ==
    /\ Running
    /\ Teardown
    /\ \/ ~bridge.resumed /\ Answer(o, "failed") /\ BackToModel /\ UNCHANGED saved
       \/ bridge.resumed /\ GiveUp(o, bridge.ledger # {})
    /\ bridge' = Fresh
    /\ UNCHANGED <<prog, asked>>

\* A restored script waits for a call of before its suspension as well: the
\* driver does not know it.
UnknownCall == AtAwait /\ vm.open # {} /\ Known = {} /\ Break

----------------------------------------------------------------------------
(* Approval                                                                 *)

\* The model's response has been dealt with; its deferred calls wait.
BeginReview ==
    /\ turn.pc = "model" /\ asked # {}
    /\ turn' = [pc |-> "review", call |-> 0]
    /\ UNCHANGED <<prog, answer, vm, bridge, task, saved, asked, history>>

\* While the run waits, a deployment may change the interpreter's version, or
\* the artifact may be lost or damaged, the record of its writes included.
Degrade ==
    /\ turn.pc = "review" /\ saved # None
    /\ \/ saved' = None
       \/ \E h \in {"unreadable", "garbled"} : saved' = [saved EXCEPT !.health = h]
    /\ UNCHANGED <<turn, prog, answer, vm, bridge, task, asked, history>>

\* Evidence is looked for in the artifact only.
BugArtifactOnly(q) == saved # None /\ (saved.ledger # {} \/ saved.health = "garbled")

\* The evidence of writes, from the artifact and from the deferred request.
Evidence(q) ==
    \/ q.ledger # {}
    \/ saved # None /\ (saved.ledger # {} \/ saved.health = "garbled")

\* A restored script goes on wherever its call was made.
BugRestoresAnywhere == TRUE

\* The calls a script had made and not yet awaited before one of its calls.
Gathered(p, s) == {t \in 1..s-1 : \A u \in t..s : p[u] \in Calls}

\* The executor goes on only from a call that is awaited as it is made.
AwaitedAtOnce == prog[saved.call][saved.place + 1] = "await"

Unrestorable(q) == saved.call # q.call \/ saved.health # "good"

\* What the script has read is forgotten.
BugForgetsTaint ==
    [count |-> saved.count, ledger |-> saved.ledger, tainted |-> FALSE,
     resumed |-> TRUE]

\* What the host gets back of a suspended script.
Restored ==
    [count |-> saved.count, ledger |-> saved.ledger, tainted |-> saved.tainted,
     resumed |-> TRUE]

\* The run goes on with the decision about one nested call.
Resume(q, approved) ==
    /\ turn.pc = "review" /\ q \in asked
    /\ asked' = asked \ {q}
    /\ \/ /\ Unrestorable(q)
          /\ GiveUp(q.call, Evidence(q))
          /\ UNCHANGED <<vm, bridge, task, granted>>
       \/ /\ ~Unrestorable(q) /\ ~AwaitedAtOnce
          /\ GiveUp(q.call, saved.ledger # {})
          /\ UNCHANGED <<vm, bridge, task, granted>>
       \/ /\ ~Unrestorable(q) /\ AwaitedAtOnce
          /\ turn' = [pc |-> "script", call |-> q.call]
          /\ Answer(q.call, "open")
          /\ bridge' = Restored
          /\ vm' = [pc |-> saved.place + 1,
                     open |-> Gathered(prog[q.call], saved.place) \cup {saved.place}]
          /\ task' = [task EXCEPT ![saved.place] =
                [stage |-> IF approved THEN "dispatching" ELSE "failed",
                 id |-> saved.id, approved |-> approved]]
          /\ granted' = IF approved THEN granted \cup {saved.id} ELSE granted
          /\ UNCHANGED saved
    /\ UNCHANGED <<prog, effects, cut, names, seen>>

----------------------------------------------------------------------------
(* The run around it                                                        *)

\* Cancellation, a crash or a deadline ends the run wherever it is.
Interrupt ==
    /\ turn.pc # "over"
    /\ Ends /\ Teardown
    /\ answer' = [c \in Outer |-> IF answer[c] \in {"open", "suspended"} THEN "lost" ELSE answer[c]]
    /\ bridge' = Fresh
    /\ UNCHANGED <<prog, saved, asked>>

EndRun ==
    /\ turn.pc = "model" /\ asked = {}
    /\ Ends
    /\ UNCHANGED <<prog, answer, vm, bridge, task, saved, asked, history>>

TaskStep ==
    \E s \in Places :
        \/ Enter(s) \/ Dispatch(s) \/ Handle(s) \/ HandlerFails(s) \/ Return(s)
ScriptStep ==
    \/ Issue \/ Complete \/ UnknownCall
    \/ \E s \in Places : Deliver(s) \/ Suspend(s)
RunStep ==
    \/ \E call \in Outer : CallScript(call)
    \/ BeginReview \/ Degrade \/ EndRun
    \/ \E q \in asked, approved \in BOOLEAN : Resume(q, approved)

Next == TaskStep \/ ScriptStep \/ RunStep \/ Break \/ Interrupt

Spec == Init /\ [][Next]_vars

\* The event loop runs ready tasks, handlers return, the driver drives.
FairSpec == Spec /\ WF_vars(TaskStep) /\ WF_vars(ScriptStep)

----------------------------------------------------------------------------
(* Properties                                                               *)

Ids == Outer \X (0..MaxCalls)
Answers == {"uncalled", "open", "suspended", "result", "failed", "refused",
            "redraft", "recovery", "lost"}
Stages == {"none", "queued", "dispatching", "handling", "effected", "ok", "failed", "gated"}

TypeOK ==
    /\ turn \in [pc: {"model", "script", "review", "over"}, call: Outer \cup {0}]
    /\ prog \in [Outer -> Programs]
    /\ answer \in [Outer -> Answers]
    /\ vm \in [pc: 1..(MaxSteps + 1), open: SUBSET Places]
    /\ bridge \in [count: 0..MaxCalls, ledger: SUBSET Ids, tainted: BOOLEAN, resumed: BOOLEAN]
    /\ task \in [Places -> [stage: Stages, id: Ids \cup {<<>>}, approved: BOOLEAN]]
    /\ saved \in {None} \cup
          [call: Outer, place: Places, id: Ids, count: 0..MaxCalls, ledger: SUBSET Ids,
           tainted: BOOLEAN, health: {"good", "unreadable", "garbled"}]
    /\ asked \in SUBSET [call: Outer, id: Ids, ledger: SUBSET Ids]
    /\ effects \in [Outer -> [Places -> Nat]] /\ cut \subseteq Outer \X Places
    /\ names \subseteq Ids \X Places /\ seen \subseteq Outer /\ granted \subseteq Ids

\* A restored script goes on where it stopped: no call of it takes effect
\* twice, no call gets the id of another, and the calls of all its segments
\* together stay within the budget.
EffectsOnce == \A c \in Outer, s \in Places : effects[c][s] <= 1
NamesAreUnique == \A a, b \in names : a[1] = b[1] => a = b

\* What a person is asked about is what the run would go on with.
ReviewMatches ==
    turn.pc = "review" =>
        \A q \in asked : saved = None \/ (saved.call = q.call /\ saved.id = q.id)

\* Nested calls are dispatched one at a time, also when a script gathers them.
OneAtATime == \A s, t \in Places : {Stage(s), Stage(t)} \subseteq Active => s = t

\* The model is told to write a script again only when none of its writes
\* happened, except those that were cut short between the effect and its
\* record.
Happened(c, s) == effects[c][s] > 0 /\ <<c, s>> \notin cut
RedraftSafe ==
    \A c \in Outer, s \in Places : answer[c] = "redraft" => ~Happened(c, s)

\* What makes these inductive.  The run, its requests and its artifact belong
\* together;
Bookkeeping ==
    /\ Running => o \in Outer /\ answer[o] = "open"
    /\ bridge.resumed => Running /\ asked = {}
    /\ Running => (bridge.resumed <=> saved.call = o)
    /\ turn.pc # "over" => \A q \in asked : answer[q.call] = "suspended"
    /\ \A q, r \in asked : q = r
    /\ turn.pc \in {"model", "script"} =>
          \A q \in asked : saved.call = q.call /\ saved.id = q.id
    /\ \A c \in Outer : answer[c] = "uncalled" =>
          /\ turn.call # c /\ saved.call # c /\ c \notin seen
          /\ \A s \in Places : effects[c][s] = 0
          /\ \A a \in names : a[1][1] # c

\* the interpreter has passed exactly the calls that have tasks or results;
ScriptShape ==
    /\ \A s \in Places : Stage(s) # "none" => Running /\ s < vm.pc /\ Kind(s) \in Calls
    /\ vm.open # {} => Running
    /\ \A s \in vm.open : s < vm.pc /\ \A u \in s..(vm.pc - 1) : Kind(u) \in Calls

\* what has not been called, or not been handled yet, has had no effect;
Unspent ==
    Running =>
        \A s \in Places :
            s >= vm.pc \/ Stage(s) \in {"queued", "dispatching", "handling", "gated"} =>
                effects[o][s] = 0

\* what has happened is recorded, or about to be;
Recording ==
    Running =>
        \A s \in Places :
            Happened(o, s) => bridge.ledger # {} \/ (Stage(s) = "effected" /\ Writes(s))

\* ids are counted up;
Counted ==
    /\ Running => \A a \in names : a[1][1] = o => a[1][2] <= bridge.count
    /\ \A s \in Places : Stage(s) \in Active \cup {"gated"} => task[s].id \in Ids

\* consent is noted on the task, and taint by the host;
ConsentNoted ==
    /\ \A s \in Places :
          /\ task[s].approved => task[s].id \in granted
          /\ Stage(s) = "handling" /\ Kind(s) = "gated" => task[s].approved
          /\ Stage(s) \in {"dispatching", "handling"} /\ Kind(s) = "write" /\ bridge.tainted =>
                task[s].approved
          /\ Stage(s) = "ok" /\ Kind(s) = "fetch" => bridge.tainted
    /\ Running /\ o \in seen => bridge.tainted

\* and all of that can be had back from a saved script nobody is executing, and
\* its writes be known from the request, should it be lost.
Paused == saved.call # 0 /\ turn.pc # "over" /\ ~bridge.resumed
SavedEnough ==
    /\ Paused =>
          /\ saved.place < Len(prog[saved.call])
          /\ prog[saved.call][saved.place] \in Calls
          /\ prog[saved.call][saved.place + 1] = "await" =>
                \A s \in Places : s >= saved.place => effects[saved.call][s] = 0
          /\ \A s \in Places : Happened(saved.call, s) => saved.ledger # {}
          /\ \A a \in names : a[1][1] = saved.call => a[1][2] <= saved.count
          /\ saved.call \in seen => saved.tainted
    /\ \A q \in asked, s \in Places : Happened(q.call, s) => q.ledger # {}

\* The inductive invariant of the proofs.
IndInv ==
    /\ TypeOK /\ EffectsOnce /\ NamesAreUnique /\ ReviewMatches /\ OneAtATime
    /\ RedraftSafe /\ Bookkeeping /\ ScriptShape /\ Unspent /\ Recording
    /\ Counted /\ ConsentNoted /\ SavedEnough

\* One decision, one nested call: a call that needs approval, by its policy or
\* because the script has seen untrusted data, takes effect only if that very
\* call was approved, however often the script was suspended before.
ConsentPerCall ==
    [][\A c \in Outer, s \in Places :
          effects'[c][s] > effects[c][s] =>
            \/ prog[c][s] = "write" /\ c \notin seen
            \/ task[s].id \in granted]_vars

\* A script does not wait for itself: the lock, the order of the awaits and the
\* suspensions let it end or stop, without its time budget.
ScriptsEnd == Running ~> ~Running

=============================================================================
