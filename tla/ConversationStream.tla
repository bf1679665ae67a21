------------------------- MODULE ConversationStream -------------------------
(***************************************************************************)
(* What the owner of a conversation sees of its runs: the event stream of  *)
(* a turn (services/agents/runtime/sinks.py, streaming.py, the requests    *)
(* that open a stream) and the browser tab that reads it, falls back to    *)
(* reading the rows, and retries (apps/web/src/features/conversations).    *)
(*                                                                         *)
(* A turn runs in a detached worker. Its events go through a bounded queue *)
(* to the response of the request, and from there over a connection that   *)
(* may break. Beside the stream the tab keeps a pane: what it knows of the *)
(* newest run from the rows, and the transcript it has read. Other tabs,   *)
(* the reaper and the expiry sweep act on the rows as well. The tab has    *)
(* the conversation open; the first message of a new one is left out.      *)
(***************************************************************************)
EXTENDS Naturals, Sequences

CONSTANTS
  MaxRuns,       \* bound: runs of the conversation
  MaxRevisions,  \* bound: suspensions of a run
  MaxEvents,     \* bound: events of a stream before its last ones
  QueueSize,     \* DEFAULT_STREAM_QUEUE_SIZE
  MaxFaults      \* bound: broken connections, failed reads, crashes, reloads

ASSUME StreamAssumption ==
  /\ {MaxRuns, QueueSize} \subseteq Nat \ {0}
  /\ {MaxRevisions, MaxEvents, MaxFaults} \subseteq Nat

VARIABLES
  run,     \* the agent_runs rows: status, approval revision, messages saved
  worker,  \* the detached worker of each run, and the events it owes
  sink,    \* the StreamSink of the newest request of the tab
  reader,  \* drain_sse_sink: the response of that request
  link,    \* the connection of that request: none yet, up or down
  tab,     \* the state of useAgentStream
  pane,    \* the active-run query: what the tab knows from the rows
  shown,   \* the transcript and the approval requests the tab has read
  fetch,   \* the recovery read in flight
  faults

vars == <<run, worker, sink, reader, link, tab, pane, shown, fetch, faults>>
server == <<run, worker>>
client == <<tab, pane, shown, fetch>>
pipe == <<sink, reader, link>>

Run == 1 .. MaxRuns
Waiting == "awaiting_approval"
Ended == {"completed", "failed"}
Polled == {"pending", "running"}
Active == Polled \union {Waiting}

\* An event, numbered and addressed when it is emitted.
Event(kind, s, v) == [kind |-> kind, status |-> s, rev |-> v, run |-> 0, seq |-> 0]
Status(s) == Event("run.status", s, 0)
Final(s) == Event("final", s, 0)  \* run.status, error after a failure, done
Done(s) == Event("done", s, 0)
Delta == Event("delta", "none", 0)
Approval(v) == Event("tool.approval_required", "none", v)
End == Event("end", "none", 0)

NoRun == [status |-> "none", rev |-> 0, saved |-> 0]
NewSink(r) == [run |-> r, queue |-> <<>>, seq |-> 0, closed |-> FALSE, detached |-> FALSE]
NoSink == [NewSink(0) EXCEPT !.closed = TRUE, !.detached = TRUE]
NoFetch == [phase |-> "idle", run |-> 0, status |-> "none", rev |-> 0,
            messages |-> FALSE, proposal |-> 0]
NewTab ==
  [phase |-> "idle", call |-> "none", run |-> 0, status |-> "idle", done |-> FALSE,
   connected |-> FALSE, last |-> 0, ask |-> [run |-> 0, rev |-> 0, saw |-> 0]]
\* A page that has just been mounted always reads the rows.
NewPane == [known |-> FALSE, run |-> 0, status |-> "none", rev |-> 0,
            read |-> FALSE, error |-> "none", stale |-> TRUE]

Init ==
  /\ run = [r \in Run |-> NoRun]
  /\ worker = [r \in Run |-> [pc |-> "none", owes |-> <<>>]]
  /\ sink = NoSink
  /\ reader = "over" /\ link = "none"
  /\ tab = NewTab /\ pane = NewPane
  /\ shown = [saved |-> [r \in Run |-> 0], proposal |-> 0]
  /\ fetch = NoFetch
  /\ faults = 0

Open(r) == run[r].status \in Active
NextRun == CHOOSE r \in Run : run[r].status = "none" /\ \A q \in 1 .. r - 1 : run[q].status # "none"
Newest == CHOOSE r \in 0 .. MaxRuns :
  /\ r # 0 => run[r].status # "none"
  /\ \A q \in r + 1 .. MaxRuns : run[q].status = "none"
MayFault == faults < MaxFaults /\ faults' = faults + 1

-----------------------------------------------------------------------------
(* The sink. A definition named Bug... is the next one with a plausible    *)
(* mistake; no specification uses it.                                      *)

Detach(s) ==
  IF s.detached THEN s ELSE [s EXCEPT !.detached = TRUE, !.queue = <<End>>]

\* A sink neither its worker nor its response uses any more is garbage.
Kept(s) == IF s.closed /\ s.detached THEN NoSink ELSE s

\* A full queue loses its place in line: the stream is given up, never thinned.
Numbered(s, e) == [e EXCEPT !.run = s.run, !.seq = s.seq + 1]
BugDrops(s, e) ==
  IF s.closed \/ s.detached THEN s
  ELSE [s EXCEPT !.seq = @ + 1,
                 !.queue = IF Len(@) < QueueSize THEN Append(@, Numbered(s, e)) ELSE @]
Emit(s, e) ==
  CASE s.closed \/ s.detached -> s
    [] ~(s.closed \/ s.detached) /\ Len(s.queue) < QueueSize ->
         [s EXCEPT !.seq = @ + 1, !.queue = Append(@, Numbered(s, e))]
    [] OTHER -> Detach([s EXCEPT !.seq = @ + 1])

BugCloseWhenFull(s) ==
  IF s.closed THEN s
  ELSE [s EXCEPT !.closed = TRUE,
                 !.queue = IF s.detached \/ Len(@) >= QueueSize THEN @ ELSE Append(@, End)]
Close(s) ==
  LET shut == [s EXCEPT !.closed = TRUE]
  IN  CASE s.closed \/ s.detached -> shut
        [] ~(s.closed \/ s.detached) /\ Len(s.queue) < QueueSize ->
             [shut EXCEPT !.queue = Append(@, End)]
        [] OTHER -> Detach(shut)

\* A continuation another tab asked for has a sink of its own; the one this
\* tab had for the run is closed by then. A worker has one or two to emit.
EmitAll(s, events) ==
  IF Len(events) = 1 THEN Emit(s, events[1]) ELSE Emit(Emit(s, events[1]), events[2])
Sent(r, events) == IF sink.run = r THEN EmitAll(sink, events) ELSE sink

-----------------------------------------------------------------------------
(* The worker of a run.                                                    *)

\* emit_final_events projects the committed row; its events enter the queue
\* without a wait between them and are one frame here.
Verdict(s) == <<Final(s)>>
Owing(r, events) == worker' = [worker EXCEPT ![r] = [pc |-> "telling", owes |-> events]]

\* execute_run persists the prompt and the running status, then says so.
Start(r) ==
  /\ worker[r].pc = "created" /\ run[r].status = "pending"
  /\ run' = [run EXCEPT ![r] = [status |-> "running", rev |-> @.rev, saved |-> @.saved + 1]]
  /\ worker' = [worker EXCEPT ![r].pc = "working"]
  /\ sink' = Sent(r, <<Status("running")>>)
  /\ UNCHANGED <<reader, link, client, faults>>

Speak(r) ==
  /\ worker[r].pc = "working" /\ sink.run = r /\ ~sink.closed /\ sink.seq < MaxEvents
  /\ sink' = Sent(r, <<Delta>>)
  /\ UNCHANGED <<server, reader, link, client, faults>>

\* The three ways a turn ends, each committed before a word of it is told.
Suspend(r) ==
  /\ worker[r].pc = "working" /\ run[r].status = "running" /\ run[r].rev < MaxRevisions
  /\ run' = [run EXCEPT ![r] = [status |-> Waiting, rev |-> @.rev + 1, saved |-> @.saved + 1]]
  /\ Owing(r, <<Approval(run[r].rev + 1), Final(Waiting)>>)
  /\ UNCHANGED <<pipe, client, faults>>

BugTellsFirst(r) ==
  /\ worker[r].pc = "working" /\ run[r].status = "running"
  /\ sink' = Sent(r, Verdict("completed"))
  /\ Owing(r, <<>>)
  /\ UNCHANGED <<run, reader, link, client, faults>>
Complete(r) ==
  /\ worker[r].pc = "working" /\ run[r].status = "running"
  /\ run' = [run EXCEPT ![r] = [status |-> "completed", rev |-> @.rev, saved |-> @.saved + 1]]
  /\ Owing(r, Verdict("completed"))
  /\ UNCHANGED <<pipe, client, faults>>

\* A failure keeps the part of the answer that was prepared, if any.
Fail(r) ==
  /\ worker[r].pc \in {"created", "working"} /\ run[r].status \in Polled
  /\ \E part \in 0 .. 1 :
       run' = [run EXCEPT ![r] = [status |-> "failed", rev |-> @.rev, saved |-> @.saved + part]]
  /\ Owing(r, Verdict("failed"))
  /\ UNCHANGED <<pipe, client, faults>>

\* The row was settled by someone else: the verdict is theirs, or the failure
\* path finds that the row is not its own and says only that it is over.
LoseRow(r) ==
  /\ worker[r].pc \in {"created", "working"} /\ run[r].status \in Ended
  /\ \/ Owing(r, Verdict(run[r].status))
     \/ Owing(r, <<Done("failed")>>)
  /\ UNCHANGED <<run, pipe, client, faults>>

\* The last events follow the commit after an await; emits do not suspend.
Tell(r) ==
  /\ worker[r].pc = "telling" /\ worker[r].owes # <<>>
  /\ sink' = Sent(r, worker[r].owes)
  /\ worker' = [worker EXCEPT ![r].owes = <<>>]
  /\ UNCHANGED <<run, reader, link, client, faults>>

\* The wait between commit and events times out: the failure path meets a row
\* that has its verdict, or one it does not own, or fails as well.
TellOtherwise(r) ==
  /\ worker[r].pc = "telling" /\ worker[r].owes # <<>> /\ MayFault
  /\ \/ Owing(r, <<Done("failed")>>) /\ worker[r].owes # <<Done("failed")>>
     \/ Owing(r, <<>>)
  /\ UNCHANGED <<run, pipe, client>>

\* The finally block of the worker closes the sink.
Leave(r) ==
  /\ worker[r].pc = "telling" /\ worker[r].owes = <<>>
  /\ sink' = CASE sink.run = r /\ reader = "over" -> Kept(Close(sink))
              [] sink.run = r /\ reader = "reading" -> Close(sink)
              [] OTHER -> sink
  /\ worker' = [worker EXCEPT ![r].pc = "over"]
  /\ UNCHANGED <<run, reader, link, client, faults>>

\* The process dies with the worker, the response and the connection.
Crash(r) ==
  /\ worker[r].pc \in {"created", "working", "telling"} /\ MayFault
  /\ worker' = [worker EXCEPT ![r] = [pc |-> "over", owes |-> <<>>]]
  /\ IF sink.run = r
     THEN /\ sink' = NoSink /\ reader' = "over"
          /\ link' = IF link = "up" THEN "down" ELSE link
     ELSE UNCHANGED pipe
  /\ UNCHANGED <<run, client>>

-----------------------------------------------------------------------------
(* Other actors on the rows.                                               *)

Abandoned(r) == run[r].status \in Polled /\ worker[r].pc = "over"
Reaped == [r \in Run |-> IF Abandoned(r) THEN [run[r] EXCEPT !.status = "failed"] ELSE run[r]]

\* A cancellation, a lost lease, or the expiry sweep after the deadline of a
\* wait settles the row first. The deadline may pass at any time.
SettleElsewhere(r) ==
  /\ Open(r)
  /\ run' = [run EXCEPT ![r].status = "failed"]
  /\ UNCHANGED <<worker, pipe, client, faults>>

\* Another tab answers the approval; its stream is not the one of this tab.
ResumeElsewhere(r) ==
  /\ run[r].status = Waiting
  /\ run' = [run EXCEPT ![r].status = "running"]
  /\ worker' = [worker EXCEPT ![r].pc = IF @ = "over" THEN "working" ELSE @]
  /\ UNCHANGED <<pipe, client, faults>>

\* create_turn_stream, under the lock of the conversation and after reaping.
TurnAllowed ==
  /\ \E r \in Run : run[r].status = "none"
  /\ \A r \in Run : Reaped[r].status \notin Active

\* Another tab, or this one in a request whose answer was lost.
TurnElsewhere ==
  /\ TurnAllowed
  /\ run' = [Reaped EXCEPT ![NextRun].status = "pending"]
  /\ worker' = [worker EXCEPT ![NextRun].pc = "created"]
  /\ UNCHANGED <<pipe, client, faults>>

-----------------------------------------------------------------------------
(* Requests of the tab that open a stream.                                 *)

\* While connected the stream speaks for its run; otherwise the rows do.
StreamSpeaks == tab.connected /\ tab.run # 0 /\ ~tab.done /\ tab.status \in Active
View == IF StreamSpeaks THEN [run |-> tab.run, status |-> tab.status]
        ELSE [run |-> pane.run, status |-> pane.status]

\* The finally block of runStream: the rows are read again when the stream has
\* named its conversation, or when it answered an approval; a read in flight
\* is given up for it.
Invalidated(t, p) ==
  IF t.run # 0 \/ t.call = "resume" THEN [p EXCEPT !.stale = TRUE] ELSE p
LeaveStream ==
  /\ pane' = Invalidated(tab, pane)
  /\ fetch' = IF pane'.stale THEN NoFetch ELSE fetch

\* runStream: an open stream is given up only for the answer to its approval.
\* The request carries what the tab knew when it was made.
Call(what, ask) ==
  /\ tab' = [NewTab EXCEPT !.phase = "calling", !.call = what, !.status = "pending", !.ask = ask]
  /\ link' = "none"
  /\ sink' = Kept(Detach(sink)) /\ reader' = "over"
  /\ IF tab.phase = "open" THEN LeaveStream ELSE UNCHANGED <<pane, fetch>>
  /\ UNCHANGED <<server, shown, faults>>

Send ==
  /\ tab.phase = "idle" /\ pane.known /\ pane.error = "none" /\ View.status \notin Active
  /\ Call("turn", NewTab.ask)

\* Nothing is decided about a pane that is being read again.
Answerable ==
  /\ pane.status = Waiting /\ pane.error = "none"
  /\ fetch.phase = "idle" /\ ~pane.stale
Answer ==
  /\ tab.phase = "idle" \/ tab.status = Waiting
  /\ tab.phase # "calling"
  /\ Answerable /\ shown.proposal = pane.rev /\ pane.rev # 0
  /\ Call("resume", [run |-> pane.run, rev |-> pane.rev, saw |-> shown.proposal])

\* create_turn_stream: under the lock of the conversation, after reaping, no
\* run may be open; the row commits before the first event and the worker.
Stream(r, status) ==
  /\ sink' = Emit(NewSink(r), Status(status))
  /\ reader' = "reading" /\ link' = "up"
  /\ UNCHANGED <<client, faults>>

Arrives(what) == tab.phase = "calling" /\ tab.call = what /\ link = "none"
AcceptTurn ==
  /\ Arrives("turn") /\ TurnAllowed
  /\ run' = [Reaped EXCEPT ![NextRun].status = "pending"]
  /\ worker' = [worker EXCEPT ![NextRun].pc = "created"]
  /\ Stream(NextRun, "pending")

\* resume_run_stream: the revision the decision was made about must stand.
BugAnyRevision(r, rev) == run[r].status = Waiting
ResumeAllowed(r, rev) == run[r].status = Waiting /\ run[r].rev = rev
AcceptResume ==
  LET r == tab.ask.run
  IN  /\ Arrives("resume") /\ ResumeAllowed(r, tab.ask.rev) /\ worker[r].pc = "over"
      /\ run' = [run EXCEPT ![r].status = "running"]
      /\ worker' = [worker EXCEPT ![r].pc = "working"]
      /\ Stream(r, "running")

\* A conflict. A decision that comes after the deadline ends the run, and one
\* that meets the task that suspended has no task of its own: the reservation
\* is committed and the registry raises.
Refuse ==
  /\ \/ Arrives("turn") /\ ~TurnAllowed /\ run' = Reaped
     \/ /\ Arrives("resume")
        /\ LET r == tab.ask.run
           IN  \/ ~ResumeAllowed(r, tab.ask.rev) /\ run' = run
               \/ run[r].status = Waiting /\ run' = [run EXCEPT ![r].status = "failed"]
               \/ /\ ResumeAllowed(r, tab.ask.rev) /\ worker[r].pc # "over"
                  /\ run' = [run EXCEPT ![r].status = "running"]
  /\ link' = "down"
  /\ UNCHANGED <<worker, sink, reader, client, faults>>

Break ==
  /\ tab.phase \in {"calling", "open"} /\ link # "down" /\ MayFault
  /\ link' = "down"
  /\ UNCHANGED <<server, sink, reader, client>>

-----------------------------------------------------------------------------
(* The response. A frame is handed over when the tab takes it: one that is *)
(* on the wire when the connection breaks is lost like one in the queue.   *)

\* The response learns that the client is gone; the worker goes on.
Disconnected ==
  /\ reader = "reading" /\ link = "down"
  /\ reader' = "over" /\ sink' = Kept(Detach(sink))
  /\ UNCHANGED <<server, link, client, faults>>

-----------------------------------------------------------------------------
(* The tab.                                                                *)

Connect ==
  /\ tab.phase = "calling" /\ link = "up"
  /\ tab' = [tab EXCEPT !.phase = "open", !.connected = TRUE]
  /\ UNCHANGED <<server, pipe, pane, shown, fetch, faults>>

\* agentStreamReducer. A frame out of order is an error of the stream.
Reduce(t, e) ==
  LET seen == [t EXCEPT !.run = e.run, !.last = e.seq]
  IN  CASE t.done -> t
        [] ~t.done /\ e.seq <= t.last ->
             [t EXCEPT !.status = "failed", !.done = TRUE, !.connected = FALSE]
        [] ~t.done /\ e.seq > t.last /\ e.kind = "run.status" -> [seen EXCEPT !.status = e.status]
        [] ~t.done /\ e.seq > t.last /\ e.kind = "done" ->
             [seen EXCEPT !.status = e.status, !.done = TRUE]
        [] ~t.done /\ e.seq > t.last /\ e.kind = "final" ->
             [seen EXCEPT !.status = e.status, !.done = TRUE,
                          !.connected = @ /\ e.status # "failed"]
        [] OTHER -> seen

\* seedStreamQueryCache: the stream writes what it says of the run into the
\* active-run query; that also clears an error of an earlier read.
Seeded(p, e) ==
  CASE e.kind \in {"run.status", "final"} /\ e.status \in Active ->
         [p EXCEPT !.known = TRUE, !.run = e.run, !.status = e.status,
                   !.read = FALSE, !.error = "none",
                   !.rev = IF p.run = e.run /\ e.status = Waiting THEN @ ELSE 0]
    [] e.kind = "final" /\ e.status \in Ended ->
         [p EXCEPT !.known = TRUE, !.status = IF @ \in Active THEN e.status ELSE @,
                   !.read = FALSE, !.error = "none", !.rev = 0]
    [] e.kind = "tool.approval_required" /\ p.run = e.run /\ p.status \in Active ->
         [p EXCEPT !.rev = e.rev, !.read = FALSE, !.error = "none"]
    [] OTHER -> p

\* drain_sse_sink forwards a frame, the tab applies it.
Delivered == tab.phase = "open" /\ reader = "reading" /\ link = "up" /\ sink.queue # <<>>
Receive ==
  /\ Delivered /\ Head(sink.queue) # End
  /\ LET e == Head(sink.queue)
     IN  tab' = Reduce(tab, e) /\ pane' = Seeded(pane, e)
  /\ sink' = [sink EXCEPT !.queue = Tail(@)]
  /\ UNCHANGED <<server, reader, link, shown, fetch, faults>>

\* useConversationRunState: once the rows have taken over from a stream that
\* is closed, its drafts go.
Reconciled(t, p) ==
  IF /\ t.phase = "idle" /\ t.run # 0 /\ t.run = p.run
     /\ p.status \in Ended \/ (p.status = Waiting /\ shown.proposal # 0)
  THEN NewTab ELSE t

\* At the end the response detaches the sink.
Finish ==
  /\ Delivered /\ Head(sink.queue) = End
  /\ reader' = "over" /\ sink' = Kept(Detach(sink))
  /\ LeaveStream
  /\ tab' = Reconciled([tab EXCEPT !.phase = "idle", !.connected = FALSE, !.done = TRUE], pane)
  /\ link' = "none"
  /\ UNCHANGED <<server, shown, faults>>

StreamFails ==
  /\ tab.phase \in {"calling", "open"} /\ link = "down"
  /\ LeaveStream
  /\ tab' = Reconciled([tab EXCEPT !.phase = "idle", !.connected = FALSE, !.done = TRUE,
                                   !.status = "failed"], pane)
  /\ UNCHANGED <<server, pipe, shown, faults>>

\* The page is loaded again.
Reload ==
  /\ MayFault
  /\ tab' = NewTab /\ pane' = NewPane /\ fetch' = NoFetch
  /\ shown' = [saved |-> [r \in Run |-> 0], proposal |-> 0]
  /\ link' = "none"
  /\ sink' = Kept(Detach(sink)) /\ reader' = "over"
  /\ UNCHANGED server

-----------------------------------------------------------------------------
(* The recovery reads.                                                     *)

\* conversationActiveRunRefetchInterval: no polling while connected; a
\* recoverable error is retried; pending and running runs are polled, a wait
\* for approval from its deadline on.
BugErrorStops == ~tab.connected /\ pane.error = "none" /\ pane.status \in Active
Polls ==
  /\ ~tab.connected
  /\ \/ pane.error = "retry"
     \/ pane.error = "none" /\ pane.status \in Active

Begin ==
  /\ fetch.phase = "idle" /\ (pane.stale \/ Polls)
  /\ fetch' = [NoFetch EXCEPT !.phase = "reading"]
  /\ pane' = [pane EXCEPT !.stale = FALSE]
  /\ UNCHANGED <<server, pipe, tab, shown, faults>>

\* The Retry button. The reads at the focus of the window are left out: what
\* they add to polling is a read of a wait or of an ended run.
Retry ==
  /\ pane.error = "final" /\ ~pane.stale /\ fetch.phase = "idle" /\ ~tab.connected
  /\ pane' = [pane EXCEPT !.stale = TRUE]
  /\ UNCHANGED <<server, pipe, tab, shown, fetch, faults>>

\* get_conversation_active_run reaps before it reads.
ReadRun ==
  /\ fetch.phase = "reading"
  /\ run' = Reaped
  /\ fetch' = [fetch EXCEPT !.phase = "rest", !.run = Newest,
                 !.status = IF Newest = 0 THEN "none" ELSE Reaped[Newest].status,
                 !.rev = IF Newest # 0 /\ run[Newest].status = Waiting THEN run[Newest].rev ELSE 0]
  /\ UNCHANGED <<worker, pipe, tab, pane, shown, faults>>

\* The transcript follows the status it is shown with.
MayReadMessages(f) == f.phase = "rest"

ReadMessages ==
  /\ MayReadMessages(fetch) /\ ~fetch.messages
  /\ shown' = [shown EXCEPT !.saved = [r \in Run |-> run[r].saved]]
  /\ fetch' = [fetch EXCEPT !.messages = TRUE]
  /\ UNCHANGED <<server, pipe, tab, pane, faults>>

Broken(kind) ==
  /\ fetch' = NoFetch
  /\ pane' = [pane EXCEPT !.error = kind]
  /\ UNCHANGED <<server, pipe, tab, shown>>

\* The approval projection exists only while the run waits; asking for it
\* afterwards is a conflict, which the tab does not retry by itself.
ReadApproval ==
  /\ fetch.phase = "rest" /\ fetch.status = Waiting /\ fetch.proposal = 0
  /\ IF run[fetch.run].status = Waiting
     THEN /\ fetch' = [fetch EXCEPT !.proposal = run[fetch.run].rev]
          /\ shown' = [shown EXCEPT !.proposal = run[fetch.run].rev]
          /\ UNCHANGED <<server, pipe, tab, pane, faults>>
     ELSE Broken("final") /\ UNCHANGED faults

\* Publish a recovered status only with its transcript and its proposal.
Whole(f) == f.messages /\ (f.status = Waiting => f.proposal = f.rev)

Publish ==
  /\ fetch.phase = "rest" /\ Whole(fetch)
  /\ pane' = [known |-> TRUE, run |-> fetch.run, status |-> fetch.status, rev |-> fetch.rev,
              read |-> TRUE, error |-> "none", stale |-> pane.stale]
  /\ tab' = Reconciled(tab, pane')
  /\ fetch' = NoFetch
  /\ UNCHANGED <<server, pipe, shown, faults>>

\* ConversationProjectionChangedError is retried.
Changed ==
  /\ fetch.phase = "rest" /\ fetch.messages
  /\ fetch.status = Waiting /\ fetch.proposal \notin {0, fetch.rev}
  /\ Broken("retry") /\ UNCHANGED faults

ReadFails == fetch.phase # "idle" /\ MayFault /\ Broken("retry")

-----------------------------------------------------------------------------
WorkerEnds(r) == Complete(r) \/ Suspend(r) \/ Fail(r) \/ LoseRow(r)

WorkerStep(r) ==
  \/ Start(r) \/ Speak(r) \/ Suspend(r) \/ Complete(r) \/ Fail(r) \/ LoseRow(r)
  \/ Tell(r) \/ TellOtherwise(r) \/ Leave(r) \/ Crash(r)
Elsewhere(r) == SettleElsewhere(r) \/ ResumeElsewhere(r)

Next ==
  \/ \E r \in Run : WorkerStep(r) \/ Elsewhere(r)
  \/ TurnElsewhere
  \/ Send \/ Answer \/ AcceptTurn \/ AcceptResume \/ Refuse \/ Break
  \/ Disconnected
  \/ Connect \/ Receive \/ Finish \/ StreamFails \/ Reload
  \/ Begin \/ Retry \/ ReadRun \/ ReadMessages \/ ReadApproval
  \/ Publish \/ Changed \/ ReadFails

\* Workers end, deadlines and the sweep come, the server answers, connections
\* move, and the timers of the tab fire. Nobody has to send, answer or focus.
Fairness ==
  /\ \A r \in Run : /\ WF_vars(WorkerEnds(r)) /\ WF_vars(Tell(r)) /\ WF_vars(Leave(r))
  /\ WF_vars(AcceptTurn \/ AcceptResume \/ Refuse)
  /\ WF_vars(Disconnected)
  /\ WF_vars(Connect \/ Receive \/ Finish \/ StreamFails)
  /\ WF_vars(Begin) /\ WF_vars(ReadRun)
  /\ WF_vars(ReadMessages) /\ WF_vars(ReadApproval) /\ WF_vars(Publish \/ Changed)

Spec == Init /\ [][Next]_vars
FairSpec == Spec /\ Fairness

-----------------------------------------------------------------------------
Statuses == Active \union Ended \union {"none"}
Kinds == {"run.status", "final", "done", "delta", "tool.approval_required", "end"}
AnyRun == 0 .. MaxRuns
Revision == 0 .. MaxRevisions
RunRow == [status : Statuses, rev : Revision, saved : Nat]
StreamEvent == [kind : Kinds, status : Statuses, rev : Revision, run : AnyRun, seq : Nat]
Worker == [pc : {"none", "created", "working", "telling", "over"}, owes : Seq(StreamEvent)]
StreamSink ==
  [run : AnyRun, queue : Seq(StreamEvent), seq : Nat, closed : BOOLEAN, detached : BOOLEAN]
Ask == [run : AnyRun, rev : Revision, saw : Revision]
Tab ==
  [phase : {"idle", "calling", "open"}, call : {"none", "turn", "resume"}, run : AnyRun,
   status : Statuses \union {"idle"}, done : BOOLEAN, connected : BOOLEAN, last : Nat, ask : Ask]
Pane ==
  [known : BOOLEAN, run : AnyRun, status : Statuses, rev : Revision, read : BOOLEAN,
   error : {"none", "retry", "final"}, stale : BOOLEAN]
Shown == [saved : [Run -> Nat], proposal : Revision]
Fetch ==
  [phase : {"idle", "reading", "rest"}, run : AnyRun, status : Statuses, rev : Revision,
   messages : BOOLEAN, proposal : Revision]

TypeOK ==
  /\ run \in [Run -> RunRow]
  /\ worker \in [Run -> Worker] /\ \A r \in Run : Len(worker[r].owes) <= 2
  /\ sink \in StreamSink /\ Len(sink.queue) <= QueueSize
  /\ reader \in {"reading", "over"} /\ link \in {"none", "up", "down"}
  /\ tab \in Tab /\ pane \in Pane /\ shown \in Shown /\ fetch \in Fetch
  /\ faults \in 0 .. MaxFaults

\* What a tab has received of a stream is an unbroken beginning of it: a slow
\* or broken connection ends the stream and never leaves a hole in it
\* (StreamSink.emit, drain_sse_sink).
GapFree == [][tab'.last \in {0, tab.last, tab.last + 1}]_vars

\* Neither a stream nor a read is about to replace what the pane shows.
AtRest ==
  /\ tab.phase # "open" /\ fetch.phase = "idle" /\ ~pane.stale /\ pane.error = "none"

\* A stream that said how its run ended said what the database has: an answer
\* or an approval announced to the user survives any crash that follows
\* (the order of commit and emit_final_events in finalize.py). The end of a
\* stream may meet a pane that a read has moved on to the run of another tab:
\* it is taken for the end of that run until the read that follows the stream.
ToldIsSaved ==
  /\ tab.run # 0 /\ tab.status = "completed" => run[tab.run].status = "completed"
  /\ tab.run # 0 /\ tab.status = Waiting => run[tab.run].rev > 0
  /\ pane.status = "completed" =>
       /\ \E r \in Run : run[r].status = "completed"
       /\ pane.read \/ AtRest => run[pane.run].status = "completed"

\* A recovered status is shown only with what belongs to it: the end of a run
\* with its whole transcript, a wait with the approval requests of its
\* revision (conversationRecoveryQueryOptions).
RecoveredWhole ==
  pane.read =>
    /\ pane.status = "completed" => shown.saved[pane.run] = run[pane.run].saved
    /\ Answerable => shown.proposal = pane.rev

\* What is shown is what is saved, and all of it.
ShownIsSaved == TypeOK /\ ToldIsSaved /\ RecoveredWhole

\* A run is resumed with the decisions of a tab only about the requests the
\* user of that tab had before them, whatever another tab has done to the run
\* and whatever the tab has read since (handleApprovalSubmit, resume_run_stream).
AnswersShownRequests ==
  [][AcceptResume => run[tab.ask.run].rev = tab.ask.saw]_vars

\* The response of a stream ends once the worker has left: no request of a tab
\* stays open behind a queue that was full when the stream was closed
\* (StreamSink.close, StreamSink.detach).
ReaderEnds ==
  \A r \in Run : sink.run = r /\ worker[r].pc = "over" /\ reader = "reading"
                    ~> reader = "over" \/ sink.run # r

\* A tab that saw a run in progress ends up showing that it ended, with its
\* whole transcript, or an error that asks the user to retry, through broken
\* streams, failed reads, crashes and reloads (use-agent-stream.ts,
\* conversation-heal-polling.ts, reap_abandoned).
Sees(r) == (tab.run = r /\ tab.phase = "open") \/ (pane.run = r /\ pane.status \in Polled)
Settled(r) ==
  /\ View.run = r => View.status \in Ended
  /\ shown.saved[r] = run[r].saved
ViewSettles ==
  \A r \in Run : Sees(r) /\ run[r].status \in Ended ~> Settled(r) \/ pane.error = "final"

\* Responses end and views catch up.
TabCatchesUp == ReaderEnds /\ ViewSettles

=============================================================================
