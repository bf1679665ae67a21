---------------------- MODULE ConversationStreamProofs ----------------------
(* Theorems of ConversationStream for any number of runs, suspensions,      *)
(* events and faults, and any size of the queue.                            *)
EXTENDS ConversationStream, TLAPS

(* The inductive invariant                                                   *)

\* The runs of a conversation are started one after the other.
RunsInOrder == \E k \in AnyRun : \A r \in Run : run[r].status # "none" <=> r <= k

\* A run that waits was suspended.
WaitsSuspended == \A r \in Run : run[r].status = Waiting => run[r].rev > 0

\* What an event says of run r is committed in the rows.
True(rows, e, r) ==
    /\ e.status = "completed" => rows[r].status = "completed"
    /\ e.status = Waiting => rows[r].rev > 0

QueueTrue(rows, s) ==
    \A i \in 1 .. Len(s.queue) :
        s.queue[i] # End => s.queue[i].run \in Run /\ True(rows, s.queue[i], s.queue[i].run)

OwedTrue(rows, owes, r) == \A i \in 1 .. Len(owes) : True(rows, owes[i], r)

EventsTrue ==
    /\ \A r \in Run : OwedTrue(run, worker[r].owes, r)
    /\ QueueTrue(run, sink)

\* The queue of a sink goes on after event n of its stream.
GoesOn(s, n) ==
    /\ \A i \in 1 .. Len(s.queue) :
          s.queue[i] # End => s.queue[i].run = s.run /\ s.queue[i].seq = n + i
    /\ ~s.closed /\ ~s.detached => s.seq = n + Len(s.queue)

QueueGoesOn ==
    reader = "reading" /\ tab.phase # "idle" /\ ~tab.done =>
        /\ GoesOn(sink, tab.last)
        /\ tab.run \in {0, sink.run}
        /\ tab.run = 0 => tab.status = "pending"

\* What a stream starts from, and what an open one has had.
CallsFresh ==
    /\ tab.phase = "calling" => tab.last = 0 /\ ~tab.done /\ tab.run = 0 /\ tab.status = "pending"
    /\ tab.phase = "calling" /\ link = "none" => reader = "over"
    /\ tab.phase = "open" /\ tab.done => tab.run # 0

\* A decision is asked about the requests the tab had read.
AskKept ==
    /\ tab.call = "resume" /\ tab.phase = "calling" => tab.ask.run \in Run
    /\ tab.ask.rev = tab.ask.saw

\* The verdict of another run on the pane does not last.
PaneTrue ==
    /\ pane.status # "none" => pane.run \in Run
    /\ pane.status = "completed" =>
          /\ \E r \in Run : run[r].status = "completed"
          /\ \/ run[pane.run].status = "completed"
             \/ /\ ~pane.read
                /\ \/ pane.stale \/ fetch.phase # "idle" \/ pane.error # "none"
                   \/ tab.phase = "open" /\ tab.run # 0

TabTrue == tab.run # 0 => True(run, tab, tab.run)

\* A read of the run, and what was read for it.
FetchTrue ==
    /\ fetch.status # "none" => fetch.run \in Run
    /\ fetch.status = "completed" =>
          /\ run[fetch.run].status = "completed"
          /\ fetch.messages => shown.saved[fetch.run] = run[fetch.run].saved
    /\ fetch.status = Waiting => fetch.rev > 0
    /\ fetch.proposal # 0 => shown.proposal = fetch.proposal
    /\ fetch.phase # "rest" => ~fetch.messages /\ fetch.proposal = 0

IInv ==
    /\ TypeOK
    /\ RunsInOrder /\ WaitsSuspended /\ EventsTrue
    /\ QueueGoesOn /\ CallsFresh /\ AskKept
    /\ PaneTrue /\ TabTrue /\ FetchTrue /\ RecoveredWhole

----------------------------------------------------------------------------
(* The sink                                                                 *)

\* The events a stream carries are of their type.
LEMMA EventsTyped ==
    /\ End \in StreamEvent /\ Delta \in StreamEvent
    /\ \A s \in Statuses : {Status(s), Final(s), Done(s)} \subseteq StreamEvent
    /\ \A v \in Revision : Approval(v) \in StreamEvent
BY StreamAssumption DEF End, Delta, Status, Final, Done, Approval, Event, StreamEvent, Kinds,
   Statuses, Active, Polled, Ended, AnyRun, Revision

\* A new sink, and the one that is garbage.
LEMMA NoSinkTyped ==
    /\ NoSink \in StreamSink /\ NoSink.queue = <<>> /\ NoSink.run = 0
    /\ NoSink.closed /\ NoSink.detached
    /\ \A r \in AnyRun : /\ NewSink(r) \in StreamSink /\ NewSink(r).queue = <<>>
                         /\ NewSink(r).run = r /\ NewSink(r).seq = 0
                         /\ ~NewSink(r).closed /\ ~NewSink(r).detached
<1>1. 0 \in AnyRun /\ <<>> \in Seq(StreamEvent)
  BY StreamAssumption DEF AnyRun
<1>2. \A r \in AnyRun : /\ NewSink(r) \in StreamSink /\ NewSink(r).queue = <<>>
                         /\ NewSink(r).run = r /\ NewSink(r).seq = 0
                         /\ ~NewSink(r).closed /\ ~NewSink(r).detached
  BY <1>1 DEF NewSink, StreamSink
<1>3. NoSink \in StreamSink /\ NoSink.queue = <<>> /\ NoSink.run = 0
  BY <1>1 DEF NoSink, NewSink, StreamSink
<1>4. NoSink.closed /\ NoSink.detached
  BY <1>1, <1>2 DEF NoSink, StreamSink
<1>5. QED
  BY <1>2, <1>3, <1>4

\* A sink as the queue and the numbers of its stream have it.
Fits(s) == s \in StreamSink /\ Len(s.queue) <= QueueSize

\* What a detached sink leaves to its reader.
LEMMA DetachKeeps ==
    ASSUME NEW s, Fits(s)
    PROVE  /\ Fits(Detach(s)) /\ Detach(s).run = s.run /\ Detach(s).closed = s.closed
           /\ \A rows : QueueTrue(rows, s) => QueueTrue(rows, Detach(s))
           /\ \A n \in Nat : GoesOn(s, n) => GoesOn(Detach(s), n)
<1>1. CASE s.detached
  BY <1>1 DEF Detach
<1>2. CASE ~s.detached
  <2> DEFINE d == [s EXCEPT !.detached = TRUE, !.queue = <<End>>]
  <2>1. Detach(s) = d
    BY <1>2 DEF Detach
  <2>2. /\ d \in StreamSink /\ d.queue = <<End>> /\ d.run = s.run
        /\ d.closed = s.closed /\ d.detached
    <3>1. <<End>> \in Seq(StreamEvent)
      BY EventsTyped
    <3>2. d \in StreamSink /\ d.queue = <<End>> /\ d.run = s.run
      BY <3>1 DEF Fits, StreamSink
    <3>3. d.closed = s.closed /\ d.detached
      BY DEF Fits, StreamSink
    <3>4. QED
      BY <3>2, <3>3
  <2>3. Len(d.queue) = 1 /\ \A i \in 1 .. Len(d.queue) : d.queue[i] = End
    BY <2>2
  <2> HIDE DEF d
  <2>4. QED
    BY <2>1, <2>2, <2>3, StreamAssumption DEF Fits, QueueTrue, GoesOn
<1>3. QED
  BY <1>1, <1>2

\* A sink that is dropped leaves an empty queue.
LEMMA KeptKeeps ==
    ASSUME NEW s, Fits(s)
    PROVE  /\ Fits(Kept(s))
           /\ \A rows : QueueTrue(rows, s) => QueueTrue(rows, Kept(s))
           /\ \A n \in Nat : GoesOn(s, n) => GoesOn(Kept(s), n)
<1>1. Fits(NoSink) /\ Len(NoSink.queue) = 0
  BY NoSinkTyped, StreamAssumption DEF Fits
<1>2. \A rows : QueueTrue(rows, NoSink)
  BY <1>1 DEF QueueTrue
<1>3. \A n \in Nat : GoesOn(NoSink, n)
  BY <1>1, NoSinkTyped DEF GoesOn
<1>4. QED
  BY <1>1, <1>2, <1>3 DEF Kept

\* An event joins the queue with the next number, or the stream is given up.
LEMMA EmitKeeps ==
    ASSUME NEW s, Fits(s), NEW e \in StreamEvent
    PROVE  /\ Fits(Emit(s, e)) /\ Emit(s, e).run = s.run
           /\ \A rows : QueueTrue(rows, s) /\ s.run \in Run /\ True(rows, e, s.run)
                           => QueueTrue(rows, Emit(s, e))
           /\ \A n \in Nat : GoesOn(s, n) => GoesOn(Emit(s, e), n)
<1>1. CASE s.closed \/ s.detached
  BY <1>1 DEF Emit
<1>2. CASE ~(s.closed \/ s.detached) /\ Len(s.queue) < QueueSize
  <2> DEFINE x == Numbered(s, e)
             q == Append(s.queue, x)
             t == [s EXCEPT !.seq = @ + 1, !.queue = q]
  <2>1. Emit(s, e) = t
    BY <1>2 DEF Emit
  <2>2. x \in StreamEvent /\ x.run = s.run /\ x.seq = s.seq + 1 /\ x.status = e.status
    <3>1. s.run \in AnyRun /\ s.seq + 1 \in Nat
      BY DEF Fits, StreamSink
    <3>2. QED
      BY <3>1 DEF Numbered, StreamEvent
  <2>3. s.queue \in Seq(StreamEvent) /\ s.seq \in Nat
    BY DEF Fits, StreamSink
  <2> HIDE DEF x
  <2>4. /\ q \in Seq(StreamEvent) /\ Len(q) = Len(s.queue) + 1
        /\ \A i \in 1 .. Len(s.queue) : q[i] = s.queue[i]
        /\ q[Len(s.queue) + 1] = x
    BY <2>2, <2>3
  <2> HIDE DEF q
  <2>5. /\ t \in StreamSink /\ t.queue = q /\ t.seq = s.seq + 1 /\ t.run = s.run
        /\ t.closed = s.closed /\ t.detached = s.detached
    <3>1. s.seq + 1 \in Nat
      BY <2>3
    <3>2. t \in StreamSink /\ t.queue = q /\ t.seq = s.seq + 1 /\ t.run = s.run
      BY <2>4, <3>1 DEF Fits, StreamSink
    <3>3. t.closed = s.closed /\ t.detached = s.detached
      BY DEF Fits, StreamSink
    <3>4. QED
      BY <3>2, <3>3
  <2> HIDE DEF t
  <2>6. Fits(t)
    BY <1>2, <2>3, <2>4, <2>5, StreamAssumption DEF Fits
  <2>7. ASSUME NEW rows, QueueTrue(rows, s), s.run \in Run, True(rows, e, s.run)
        PROVE  QueueTrue(rows, t)
    <3> SUFFICES ASSUME NEW i \in 1 .. Len(q), q[i] # End
                 PROVE  q[i].run \in Run /\ True(rows, q[i], q[i].run)
      BY <2>5 DEF QueueTrue
    <3>1. CASE i = Len(s.queue) + 1
      BY <2>2, <2>4, <2>7, <3>1 DEF True
    <3>2. CASE i # Len(s.queue) + 1
      BY <2>3, <2>4, <2>7, <3>2 DEF QueueTrue
    <3>3. QED
      BY <3>1, <3>2
  <2>8. ASSUME NEW n \in Nat, GoesOn(s, n)
        PROVE  GoesOn(t, n)
    <3>1. s.seq = n + Len(s.queue)
      BY <1>2, <2>8 DEF GoesOn
    <3>2. t.seq = n + Len(t.queue)
      BY <2>3, <2>4, <2>5, <3>1
    <3>3. ASSUME NEW i \in 1 .. Len(q), q[i] # End
          PROVE  q[i].run = t.run /\ q[i].seq = n + i
      <4>1. CASE i = Len(s.queue) + 1
        BY <2>2, <2>3, <2>4, <2>5, <3>1, <4>1
      <4>2. CASE i # Len(s.queue) + 1
        BY <2>3, <2>4, <2>5, <2>8, <3>3, <4>2 DEF GoesOn
      <4>3. QED
        BY <4>1, <4>2
    <3>4. QED
      BY <2>5, <3>2, <3>3 DEF GoesOn
  <2>9. QED
    BY <2>1, <2>5, <2>6, <2>7, <2>8
<1>3. CASE ~(s.closed \/ s.detached) /\ ~(Len(s.queue) < QueueSize)
  <2> DEFINE t == [s EXCEPT !.seq = @ + 1]
  <2>1. Emit(s, e) = Detach(t)
    BY <1>3 DEF Emit
  <2>2. t \in StreamSink /\ t.queue = s.queue /\ t.run = s.run /\ ~t.detached
    BY <1>3 DEF Fits, StreamSink
  <2>3. Fits(t)
    BY <2>2 DEF Fits
  <2> HIDE DEF t
  <2>4. \A rows : QueueTrue(rows, s) => QueueTrue(rows, t)
    BY <2>2 DEF QueueTrue
  <2>5. /\ Detach(t).detached /\ Detach(t).queue = <<End>>
    BY <2>2 DEF Detach, StreamSink
  <2>6. Len(Detach(t).queue) = 1 /\ \A i \in 1 .. Len(Detach(t).queue) : Detach(t).queue[i] = End
    BY <2>5
  <2>7. \A n \in Nat : GoesOn(Detach(t), n)
    BY <2>5, <2>6 DEF GoesOn
  <2>8. QED
    BY <2>1, <2>2, <2>3, <2>4, <2>7, DetachKeeps
<1>4. QED
  BY <1>1, <1>2, <1>3

\* One or two events of a worker join the queue in order.
LEMMA EmitAllKeeps ==
    ASSUME NEW s, Fits(s), NEW owes \in Seq(StreamEvent), Len(owes) \in {1, 2}
    PROVE  /\ Fits(EmitAll(s, owes)) /\ EmitAll(s, owes).run = s.run
           /\ \A rows : QueueTrue(rows, s) /\ s.run \in Run /\ OwedTrue(rows, owes, s.run)
                           => QueueTrue(rows, EmitAll(s, owes))
           /\ \A n \in Nat : GoesOn(s, n) => GoesOn(EmitAll(s, owes), n)
<1>1. owes[1] \in StreamEvent /\ \A rows : OwedTrue(rows, owes, s.run) => True(rows, owes[1], s.run)
  BY DEF OwedTrue
<1>2. CASE Len(owes) = 1
  BY <1>1, <1>2, EmitKeeps DEF EmitAll
<1>3. CASE Len(owes) = 2
  <2>1. /\ owes[2] \in StreamEvent
        /\ \A rows : OwedTrue(rows, owes, s.run) => True(rows, owes[2], s.run)
    <3>1. 2 \in 1 .. Len(owes)
      BY <1>3
    <3>2. QED
      BY <3>1 DEF OwedTrue
  <2> DEFINE t == Emit(s, owes[1])
  <2>2. EmitAll(s, owes) = Emit(t, owes[2])
    BY <1>3 DEF EmitAll
  <2>3. /\ Fits(t) /\ t.run = s.run
        /\ \A rows : QueueTrue(rows, s) /\ s.run \in Run /\ OwedTrue(rows, owes, s.run)
                        => QueueTrue(rows, t)
        /\ \A n \in Nat : GoesOn(s, n) => GoesOn(t, n)
    BY <1>1, EmitKeeps
  <2> HIDE DEF t
  <2>4. QED
    BY <2>1, <2>2, <2>3, EmitKeeps
<1>4. QED
  BY <1>2, <1>3

\* Closing appends the end of the stream, or gives the stream up when the
\* queue is full.
LEMMA CloseKeeps ==
    ASSUME NEW s, Fits(s)
    PROVE  /\ Fits(Close(s)) /\ Close(s).run = s.run
           /\ \A rows : QueueTrue(rows, s) => QueueTrue(rows, Close(s))
           /\ \A n \in Nat : GoesOn(s, n) => GoesOn(Close(s), n)
<1> DEFINE shut == [s EXCEPT !.closed = TRUE]
<1>1. /\ shut \in StreamSink /\ shut.queue = s.queue /\ shut.run = s.run
      /\ shut.closed /\ shut.detached = s.detached
  BY DEF Fits, StreamSink
<1>2. /\ Close(s) = CASE s.closed \/ s.detached -> shut
                      [] ~(s.closed \/ s.detached) /\ Len(s.queue) < QueueSize ->
                           [shut EXCEPT !.queue = Append(@, End)]
                      [] OTHER -> Detach(shut)
  BY DEF Close
<1> HIDE DEF shut
<1>3. /\ Fits(shut)
      /\ \A rows : QueueTrue(rows, s) => QueueTrue(rows, shut)
      /\ \A n \in Nat : GoesOn(s, n) => GoesOn(shut, n)
  BY <1>1 DEF Fits, QueueTrue, GoesOn
<1>4. CASE ~(s.closed \/ s.detached) /\ Len(s.queue) < QueueSize
  <2> DEFINE q == Append(s.queue, End)
             t == [shut EXCEPT !.queue = Append(@, End)]
  <2>1. Close(s) = t
    BY <1>2, <1>4
  <2>2. s.queue \in Seq(StreamEvent)
    BY DEF Fits, StreamSink
  <2>3. /\ q \in Seq(StreamEvent) /\ Len(q) = Len(s.queue) + 1
        /\ \A i \in 1 .. Len(s.queue) : q[i] = s.queue[i]
        /\ q[Len(s.queue) + 1] = End
    BY <2>2, EventsTyped
  <2>4. t \in StreamSink /\ t.queue = q /\ t.run = s.run /\ t.closed
    BY <1>1, <2>3 DEF StreamSink
  <2> HIDE DEF q, t
  <2>5. \A i \in 1 .. Len(q) : q[i] # End => i \in 1 .. Len(s.queue) /\ q[i] = s.queue[i]
    BY <2>2, <2>3
  <2>6. Len(q) <= QueueSize
    BY <1>4, <2>2, <2>3, StreamAssumption
  <2>7. \A rows : QueueTrue(rows, s) => QueueTrue(rows, t)
    BY <2>4, <2>5 DEF QueueTrue
  <2>8. \A n \in Nat : GoesOn(s, n) => GoesOn(t, n)
    BY <2>4, <2>5 DEF GoesOn
  <2>9. QED
    BY <2>1, <2>4, <2>6, <2>7, <2>8 DEF Fits
<1>5. CASE s.closed \/ s.detached
  BY <1>1, <1>2, <1>3, <1>5
<1>6. CASE ~(s.closed \/ s.detached) /\ ~(Len(s.queue) < QueueSize)
  BY <1>1, <1>2, <1>3, <1>6, DetachKeeps
<1>7. QED
  BY <1>4, <1>5, <1>6

\* The reader takes the first frame.
LEMMA TailKeeps ==
    ASSUME NEW s, Fits(s), s.queue # <<>>
    PROVE  LET t == [s EXCEPT !.queue = Tail(@)]
           IN  /\ Fits(t) /\ t.run = s.run
               /\ \A rows : QueueTrue(rows, s) => QueueTrue(rows, t)
               /\ \A n \in Nat : GoesOn(s, n) => GoesOn(t, n + 1)
<1> DEFINE q == Tail(s.queue)
           t == [s EXCEPT !.queue = Tail(@)]
<1>1. s.queue \in Seq(StreamEvent) /\ s.seq \in Nat
  BY DEF Fits, StreamSink
<1>2. /\ q \in Seq(StreamEvent) /\ Len(q) = Len(s.queue) - 1 /\ Len(s.queue) \in Nat \ {0}
      /\ \A i \in 1 .. Len(q) : q[i] = s.queue[i + 1]
  BY <1>1
<1>3. /\ t \in StreamSink /\ t.queue = q /\ t.seq = s.seq /\ t.run = s.run
      /\ t.closed = s.closed /\ t.detached = s.detached
  BY <1>1, <1>2 DEF Fits, StreamSink
<1> HIDE DEF q, t
<1>4. \A i \in 1 .. Len(q) : i + 1 \in 1 .. Len(s.queue)
  BY <1>2
<1>5. Fits(t)
  BY <1>2, <1>3, StreamAssumption DEF Fits
<1>6. \A rows : QueueTrue(rows, s) => QueueTrue(rows, t)
  BY <1>2, <1>3, <1>4 DEF QueueTrue
<1>7. ASSUME NEW n \in Nat, GoesOn(s, n)
      PROVE  GoesOn(t, n + 1)
  <2>1. ASSUME NEW i \in 1 .. Len(q), q[i] # End
        PROVE  q[i].run = s.run /\ q[i].seq = (n + 1) + i
    <3>1. s.queue[i + 1].run = s.run /\ s.queue[i + 1].seq = n + (i + 1)
      BY <1>2, <1>4, <1>7, <2>1 DEF GoesOn
    <3>2. QED
      BY <1>2, <3>1
  <2>2. ~s.closed /\ ~s.detached => s.seq = (n + 1) + Len(q)
    <3> SUFFICES ASSUME ~s.closed, ~s.detached
                 PROVE  s.seq = (n + 1) + Len(q)
      OBVIOUS
    <3>1. s.seq = n + Len(s.queue)
      BY <1>7 DEF GoesOn
    <3>2. Len(q) \in Nat /\ Len(s.queue) = Len(q) + 1
      BY <1>2
    <3>3. QED
      BY <3>1, <3>2
  <2>3. QED
    BY <1>3, <2>1, <2>2 DEF GoesOn
<1>8. QED
  BY <1>3, <1>5, <1>6, <1>7 DEF t

----------------------------------------------------------------------------
(* The rows                                                                 *)

\* A run that completed stays so, with its messages, and one that was
\* suspended keeps a revision.
Grows(rows, rows2) ==
    \A r \in Run :
        /\ rows[r].status = "completed" =>
              rows2[r].status = "completed" /\ rows2[r].saved = rows[r].saved
        /\ rows[r].rev > 0 => rows2[r].rev > 0

RowsGrow ==
    /\ run' \in [Run -> RunRow] /\ Grows(run, run')
    /\ RunsInOrder' /\ WaitsSuspended'

\* What was said of the rows stays true.
LEMMA TrueStays ==
    ASSUME NEW rows, NEW rows2, Grows(rows, rows2)
    PROVE  /\ \A s : QueueTrue(rows, s) => QueueTrue(rows2, s)
           /\ \A owes, r : r \in Run /\ OwedTrue(rows, owes, r) => OwedTrue(rows2, owes, r)
<1>1. \A e, r : r \in Run /\ True(rows, e, r) => True(rows2, e, r)
  BY DEF Grows, True
<1>2. QED
  BY <1>1 DEF QueueTrue, OwedTrue

\* Rows that nobody wrote.
LEMMA RowsSame ==
    ASSUME IInv, UNCHANGED run
    PROVE  RowsGrow
BY DEF IInv, TypeOK, RowsGrow, Grows, RunsInOrder, WaitsSuspended

\* A run that is not over moves on.
LEMMA RowMoves ==
    ASSUME IInv, NEW r \in Run, NEW row \in RunRow, run' = [run EXCEPT ![r] = row],
           run[r].status \notin {"none", "completed"}, row.status # "none",
           run[r].rev > 0 => row.rev > 0, row.status = Waiting => row.rev > 0
    PROVE  RowsGrow
<1>1. /\ run \in [Run -> RunRow] /\ run' \in [Run -> RunRow]
      /\ run'[r] = row /\ \A q \in Run : q # r => run'[q] = run[q]
  BY DEF IInv, TypeOK
<1>2. Grows(run, run')
  BY <1>1 DEF Grows
<1>3. RunsInOrder'
  BY <1>1 DEF IInv, RunsInOrder
<1>4. WaitsSuspended'
  BY <1>1 DEF IInv, WaitsSuspended
<1>5. QED
  BY <1>1, <1>2, <1>3, <1>4 DEF RowsGrow

\* Reaping fails the runs whose worker is gone.
LEMMA ReapedRows ==
    ASSUME IInv
    PROVE  /\ Reaped \in [Run -> RunRow]
           /\ \A r \in Run : /\ Reaped[r].rev = run[r].rev /\ Reaped[r].saved = run[r].saved
                             /\ \/ Reaped[r].status = run[r].status
                                \/ Reaped[r].status = "failed" /\ run[r].status \in Polled
<1>1. \A r \in Run : run[r] \in RunRow
  BY DEF IInv, TypeOK
<1>2. \A r \in Run : [run[r] EXCEPT !.status = "failed"] \in RunRow
  BY <1>1 DEF RunRow, Statuses, Ended
<1>3. \A r \in Run :
         Reaped[r] = IF Abandoned(r) THEN [run[r] EXCEPT !.status = "failed"] ELSE run[r]
  BY DEF Reaped
<1>4. Reaped \in [Run -> RunRow]
  BY <1>1, <1>2 DEF Reaped
<1>5. QED
  BY <1>1, <1>3, <1>4 DEF Abandoned, RunRow

\* Reaping loses no committed answer (reap_abandoned_runs).
LEMMA ReapGrows ==
    ASSUME IInv, run' = Reaped
    PROVE  RowsGrow
<1>1. Grows(run, run')
  BY ReapedRows DEF Grows, Polled
<1>2. RunsInOrder'
  BY ReapedRows DEF IInv, RunsInOrder, Polled
<1>3. WaitsSuspended'
  BY ReapedRows DEF IInv, WaitsSuspended, Waiting
<1>4. QED
  BY <1>1, <1>2, <1>3, ReapedRows DEF RowsGrow

\* A turn takes the first run that was not started.
LEMMA NextRunIs ==
    ASSUME IInv, TurnAllowed
    PROVE  /\ NextRun \in Run /\ run[NextRun].status = "none"
           /\ \A r \in Run : run[r].status # "none" <=> r < NextRun
<1>1. PICK k \in AnyRun : \A r \in Run : run[r].status # "none" <=> r <= k
  BY DEF IInv, RunsInOrder
<1>2. k + 1 \in Run /\ k \in Nat
  BY <1>1, StreamAssumption DEF TurnAllowed, Run, AnyRun
<1>3. run[k + 1].status = "none" /\ \A q \in 1 .. (k + 1) - 1 : run[q].status # "none"
  <2>1. run[k + 1].status = "none"
    BY <1>1, <1>2 DEF Run
  <2>2. (k + 1) - 1 = k
    BY <1>2
  <2>3. \A q \in 1 .. k : q \in Run /\ q <= k
    BY <1>2, StreamAssumption DEF Run
  <2>4. QED
    BY <1>1, <2>1, <2>2, <2>3
<1>4. /\ NextRun \in Run /\ run[NextRun].status = "none"
      /\ \A q \in 1 .. NextRun - 1 : run[q].status # "none"
  BY <1>2, <1>3 DEF NextRun
<1>5. NextRun = k + 1
  <2>1. ~(NextRun <= k)
    BY <1>1, <1>4
  <2>2. ~(k + 1 < NextRun)
    BY <1>2, <1>3, <1>4 DEF Run
  <2>3. QED
    BY <1>2, <1>4, <2>1, <2>2 DEF Run
<1>6. QED
  BY <1>1, <1>2, <1>4, <1>5 DEF Run

\* The row of a new turn is the next one (create_conversation_turn_stream).
LEMMA TurnGrows ==
    ASSUME IInv, TurnAllowed, run' = [Reaped EXCEPT ![NextRun].status = "pending"]
    PROVE  RowsGrow
<1> DEFINE n == NextRun
<1>1. n \in Run /\ run[n].status = "none" /\ \A r \in Run : run[r].status # "none" <=> r < n
  BY NextRunIs
<1> HIDE DEF n
<1>2. run' = [Reaped EXCEPT ![n] = [Reaped[n] EXCEPT !.status = "pending"]]
  BY DEF n
<1>3. [Reaped[n] EXCEPT !.status = "pending"] \in RunRow
  BY <1>1, ReapedRows DEF RunRow, Statuses, Active, Polled
<1>4. /\ run' \in [Run -> RunRow] /\ run'[n].status = "pending" /\ run'[n].rev = Reaped[n].rev
      /\ \A r \in Run : r # n => run'[r] = Reaped[r]
  BY <1>1, <1>2, <1>3, ReapedRows DEF RunRow
<1>5. Grows(run, run')
  BY <1>1, <1>4, ReapedRows DEF Grows, Polled
<1>6. RunsInOrder'
  <2>1. n \in AnyRun /\ n \in Nat
    BY <1>1 DEF AnyRun, Run
  <2>2. \A r \in Run : run'[r].status # "none" <=> r <= n
    BY <1>1, <1>4, <2>1, ReapedRows DEF Polled, Run
  <2>3. QED
    BY <2>1, <2>2 DEF RunsInOrder
<1>7. WaitsSuspended'
  BY <1>4, ReapedRows DEF IInv, WaitsSuspended, Waiting
<1>8. QED
  BY <1>4, <1>5, <1>6, <1>7 DEF RowsGrow

\* The newest run is the last that was started.
LEMMA NewestIs ==
    ASSUME IInv
    PROVE  Newest \in AnyRun /\ (Newest # 0 => Newest \in Run /\ run[Newest].status # "none")
<1>1. PICK k \in AnyRun : \A r \in Run : run[r].status # "none" <=> r <= k
  BY DEF IInv, RunsInOrder
<1>2. /\ k # 0 => run[k].status # "none"
      /\ \A q \in k + 1 .. MaxRuns : run[q].status = "none"
  BY <1>1, StreamAssumption DEF AnyRun, Run
<1>3. /\ Newest \in AnyRun
      /\ Newest # 0 => run[Newest].status # "none"
  BY <1>2 DEF Newest, AnyRun
<1>4. QED
  BY <1>3, StreamAssumption DEF AnyRun, Run

----------------------------------------------------------------------------
(* The server                                                               *)

\* What a step of the server does to the workers and to a stream.
OwesGrow ==
    /\ worker' \in [Run -> Worker]
    /\ \A r \in Run : Len(worker'[r].owes) <= 2 /\ OwedTrue(run', worker'[r].owes, r)

StreamGrows ==
    /\ Fits(sink') /\ QueueTrue(run', sink')
    /\ \A n \in Nat : GoesOn(sink, n) => GoesOn(sink', n)
    /\ reader' = "reading" => sink'.run = sink.run
    /\ reader' \in {reader, "over"} /\ link' \in {link, "down"}

\* The sink of the tab fits its queue and says what is committed.
LEMMA SinkFits ==
    ASSUME IInv
    PROVE  Fits(sink) /\ QueueTrue(run, sink) /\ NoSink \in StreamSink
BY NoSinkTyped DEF IInv, TypeOK, Fits, EventsTrue

\* A stream that nobody touches stays true while the rows move on.
LEMMA StreamSame ==
    ASSUME IInv, RowsGrow, UNCHANGED pipe
    PROVE  StreamGrows
BY SinkFits, TrueStays DEF RowsGrow, StreamGrows, pipe

\* The tab does not mind a step of the server.
LEMMA ClientKept ==
    ASSUME IInv, RowsGrow, UNCHANGED client
    PROVE  AskKept' /\ PaneTrue' /\ TabTrue' /\ FetchTrue' /\ RecoveredWhole'
<1> USE DEF client
<1>1. AskKept'
  BY DEF IInv, AskKept
<1>2. PaneTrue'
  BY DEF IInv, PaneTrue, RowsGrow, Grows
<1>3. TabTrue'
  <2>1. tab.run # 0 => tab.run \in Run
    BY StreamAssumption DEF IInv, TypeOK, Tab, AnyRun, Run
  <2>2. QED
    BY <2>1 DEF IInv, TabTrue, True, RowsGrow, Grows
<1>4. FetchTrue'
  BY DEF IInv, FetchTrue, RowsGrow, Grows
<1>5. RecoveredWhole'
  <2>1. Answerable' = Answerable
    BY DEF Answerable
  <2>2. pane.read /\ pane.status = "completed" =>
           pane.run \in Run /\ run[pane.run].status = "completed"
    BY DEF IInv, PaneTrue
  <2>3. QED
    BY <2>1, <2>2 DEF IInv, RecoveredWhole, RowsGrow, Grows
<1>6. QED
  BY <1>1, <1>2, <1>3, <1>4, <1>5

\* What has to be shown of a step of the server.
LEMMA ServerKeeps ==
    ASSUME IInv, RowsGrow, OwesGrow, StreamGrows, UNCHANGED client, faults' \in 0 .. MaxFaults
    PROVE  IInv'
<1>1. TypeOK'
  BY DEF IInv, TypeOK, RowsGrow, OwesGrow, StreamGrows, Fits, client
<1>2. EventsTrue'
  BY DEF EventsTrue, OwesGrow, StreamGrows
<1>3. QueueGoesOn'
  <2>1. tab.last \in Nat
    BY DEF IInv, TypeOK, Tab
  <2>2. QED
    BY <2>1 DEF IInv, QueueGoesOn, StreamGrows, client
<1>4. CallsFresh'
  BY DEF IInv, CallsFresh, StreamGrows, client
<1>5. QED
  BY <1>1, <1>2, <1>3, <1>4, ClientKept DEF IInv, RowsGrow

\* A worker that changes its place only owes what it owed.
LEMMA WorkersSame ==
    ASSUME IInv, RowsGrow, NEW r \in Run,
           \/ worker' = worker
           \/ \E p \in {"none", "created", "working", "telling", "over"} :
                 worker' = [worker EXCEPT ![r].pc = p]
    PROVE  OwesGrow
<1>1. worker \in [Run -> Worker] /\ \A q \in Run : worker[q] \in Worker
  BY DEF IInv, TypeOK
<1>2. \A p \in {"none", "created", "working", "telling", "over"} :
         /\ [worker EXCEPT ![r].pc = p] \in [Run -> Worker]
         /\ \A q \in Run : [worker EXCEPT ![r].pc = p][q].owes = worker[q].owes
  BY <1>1 DEF Worker
<1>3. worker' \in [Run -> Worker] /\ \A q \in Run : worker'[q].owes = worker[q].owes
  <2>1. CASE worker' = worker
    BY <1>1, <2>1
  <2>2. CASE worker' # worker
    <3>1. PICK p \in {"none", "created", "working", "telling", "over"} :
             worker' = [worker EXCEPT ![r].pc = p]
      BY <2>2
    <3>2. QED
      BY <1>2, <3>1
  <2>3. QED
    BY <2>1, <2>2
<1>4. \A q \in Run : Len(worker[q].owes) <= 2 /\ OwedTrue(run, worker[q].owes, q)
  BY DEF IInv, TypeOK, EventsTrue
<1>5. QED
  BY <1>3, <1>4, TrueStays DEF OwesGrow, RowsGrow

\* A worker is left with events to tell, or with none.
LEMMA WorkerOwes ==
    ASSUME IInv, RowsGrow, NEW r \in Run,
           NEW p \in {"none", "created", "working", "telling", "over"},
           NEW owes \in Seq(StreamEvent), Len(owes) <= 2, OwedTrue(run', owes, r),
           worker' = [worker EXCEPT ![r] = [pc |-> p, owes |-> owes]]
    PROVE  OwesGrow
<1>1. worker \in [Run -> Worker] /\ [pc |-> p, owes |-> owes] \in Worker
  BY DEF IInv, TypeOK, Worker
<1>2. /\ worker' \in [Run -> Worker] /\ worker'[r].owes = owes
      /\ \A q \in Run : q # r => worker'[q] = worker[q]
  BY <1>1
<1>3. \A q \in Run : Len(worker[q].owes) <= 2 /\ OwedTrue(run, worker[q].owes, q)
  BY DEF IInv, TypeOK, EventsTrue
<1>4. QED
  BY <1>2, <1>3, TrueStays DEF OwesGrow, RowsGrow

\* Events without a verdict are true of any run.
LEMMA OneEvent ==
    ASSUME NEW rows, NEW r \in Run, NEW e \in StreamEvent, True(rows, e, r)
    PROVE  <<e>> \in Seq(StreamEvent) /\ Len(<<e>>) = 1 /\ OwedTrue(rows, <<e>>, r)
BY DEF OwedTrue

\* Events join the stream of their run, if the tab has one.
LEMMA SentGrows ==
    ASSUME IInv, RowsGrow, NEW r \in Run, NEW owes \in Seq(StreamEvent), Len(owes) \in {1, 2},
           OwedTrue(run', owes, r), sink' = Sent(r, owes), UNCHANGED <<reader, link>>
    PROVE  StreamGrows
<1>1. Fits(sink) /\ QueueTrue(run', sink)
  BY SinkFits, TrueStays DEF RowsGrow
<1>2. CASE sink.run = r
  BY <1>1, <1>2, EmitAllKeeps DEF Sent, StreamGrows
<1>3. CASE sink.run # r
  BY <1>1, <1>3 DEF Sent, StreamGrows
<1>4. QED
  BY <1>2, <1>3

\* execute_run persists the prompt, then says that it runs.
LEMMA StartKeeps ==
    ASSUME IInv, NEW r \in Run, Start(r)
    PROVE  IInv'
<1>1. run[r] \in RunRow
  BY DEF IInv, TypeOK
<1>2. RowsGrow
  <2> DEFINE row == [status |-> "running", rev |-> run[r].rev, saved |-> run[r].saved + 1]
  <2>1. run' = [run EXCEPT ![r] = row] /\ run[r].status = "pending"
    BY DEF Start
  <2>2. row \in RunRow /\ row.status = "running" /\ row.rev = run[r].rev
    BY <1>1 DEF RunRow, Statuses, Active, Polled
  <2> HIDE DEF row
  <2>3. QED
    BY <2>1, <2>2, RowMoves DEF Waiting
<1>3. OwesGrow
  BY <1>2, WorkersSame DEF Start
<1>4. Status("running") \in StreamEvent /\ True(run', Status("running"), r)
  BY EventsTyped DEF Statuses, Active, Polled, Status, Event, True, Waiting
<1>5. StreamGrows
  BY <1>2, <1>4, OneEvent, SentGrows DEF Start
<1>6. QED
  BY <1>2, <1>3, <1>5, ServerKeeps DEF Start, IInv, TypeOK

\* A delta says nothing of the rows.
LEMMA SpeakKeeps ==
    ASSUME IInv, NEW r \in Run, Speak(r)
    PROVE  IInv'
<1>1. RowsGrow
  BY RowsSame DEF Speak, server
<1>2. OwesGrow
  BY <1>1, WorkersSame DEF Speak, server
<1>3. Delta \in StreamEvent /\ True(run', Delta, r)
  BY EventsTyped DEF Delta, Event, True, Waiting
<1>4. StreamGrows
  BY <1>1, <1>3, OneEvent, SentGrows DEF Speak
<1>5. QED
  BY <1>1, <1>2, <1>4, ServerKeeps DEF Speak, IInv, TypeOK

\* finalize_suspended_run commits the revision it announces.
LEMMA SuspendKeeps ==
    ASSUME IInv, NEW r \in Run, Suspend(r)
    PROVE  IInv'
<1> DEFINE row == [status |-> Waiting, rev |-> run[r].rev + 1, saved |-> run[r].saved + 1]
           a == Approval(run[r].rev + 1)
           b == Final(Waiting)
<1>1. run[r] \in RunRow /\ run \in [Run -> RunRow]
  BY DEF IInv, TypeOK
<1>2. run[r].rev + 1 \in Revision /\ run[r].rev + 1 > 0 /\ Waiting \in Statuses
  BY <1>1, StreamAssumption DEF RunRow, Revision, Suspend, Statuses, Active
<1>3. row \in RunRow /\ row.status = Waiting /\ row.rev > 0
  BY <1>1, <1>2 DEF RunRow
<1>4. run' = [run EXCEPT ![r] = row] /\ run[r].status = "running"
  BY DEF Suspend
<1> HIDE DEF row
<1>5. RowsGrow
  BY <1>3, <1>4, RowMoves DEF Waiting
<1>6. run'[r].rev > 0
  BY <1>1, <1>3, <1>4
<1>7. {a, b} \subseteq StreamEvent /\ True(run', a, r) /\ True(run', b, r)
  BY <1>2, <1>6, EventsTyped DEF Approval, Final, Event, True, Waiting
<1> HIDE DEF a, b
<1>8. <<a, b>> \in Seq(StreamEvent) /\ Len(<<a, b>>) = 2 /\ OwedTrue(run', <<a, b>>, r)
  BY <1>7 DEF OwedTrue
<1>9. worker' = [worker EXCEPT ![r] = [pc |-> "telling", owes |-> <<a, b>>]]
  BY DEF Suspend, Owing, a, b
<1>10. OwesGrow
  <2> DEFINE owes == <<a, b>>
  <2>1. owes \in Seq(StreamEvent) /\ Len(owes) <= 2 /\ OwedTrue(run', owes, r)
    BY <1>8
  <2>2. worker' = [worker EXCEPT ![r] = [pc |-> "telling", owes |-> owes]]
    BY <1>9
  <2> HIDE DEF owes
  <2>3. QED
    BY <1>5, <2>1, <2>2, WorkerOwes
<1>11. StreamGrows
  BY <1>5, StreamSame DEF Suspend
<1>12. QED
  BY <1>5, <1>10, <1>11, ServerKeeps DEF Suspend, IInv, TypeOK

\* A worker owes one event, which the rows bear out.
LEMMA OwingKeeps ==
    ASSUME IInv, RowsGrow, NEW r \in Run, NEW e \in StreamEvent, True(run', e, r),
           Owing(r, <<e>>), UNCHANGED pipe, UNCHANGED client, faults' \in 0 .. MaxFaults
    PROVE  IInv'
<1>1. OwesGrow
  <2> DEFINE owes == <<e>>
  <2>1. owes \in Seq(StreamEvent) /\ Len(owes) <= 2 /\ OwedTrue(run', owes, r)
    BY OneEvent
  <2>2. worker' = [worker EXCEPT ![r] = [pc |-> "telling", owes |-> owes]]
    BY DEF Owing
  <2> HIDE DEF owes
  <2>3. QED
    BY <2>1, <2>2, WorkerOwes
<1>2. QED
  BY <1>1, StreamSame, ServerKeeps

\* finalize_successful_run commits the answer it announces.
LEMMA CompleteKeeps ==
    ASSUME IInv, NEW r \in Run, Complete(r)
    PROVE  IInv'
<1> DEFINE row == [status |-> "completed", rev |-> run[r].rev, saved |-> run[r].saved + 1]
<1>1. run[r] \in RunRow /\ run \in [Run -> RunRow]
  BY DEF IInv, TypeOK
<1>2. run' = [run EXCEPT ![r] = row] /\ run[r].status = "running"
  BY DEF Complete
<1>3. row \in RunRow /\ row.status = "completed" /\ row.rev = run[r].rev
  BY <1>1 DEF RunRow, Statuses, Ended
<1> HIDE DEF row
<1>4. RowsGrow
  BY <1>2, <1>3, RowMoves DEF Waiting
<1>5. Final("completed") \in StreamEvent /\ True(run', Final("completed"), r)
  BY <1>1, <1>2, <1>3, EventsTyped DEF Statuses, Ended, Final, Event, True, Waiting
<1>6. QED
  BY <1>4, <1>5, OwingKeeps DEF Complete, Verdict, IInv, TypeOK

\* A run that failed, and was open.
LEMMA FailedRow ==
    ASSUME IInv, NEW r \in Run, run[r].status \in Active, NEW n \in Nat,
           run' = [run EXCEPT ![r] = [status |-> "failed", rev |-> run[r].rev, saved |-> n]]
    PROVE  RowsGrow
<1> DEFINE row == [status |-> "failed", rev |-> run[r].rev, saved |-> n]
<1>1. run[r] \in RunRow
  BY DEF IInv, TypeOK
<1>2. row \in RunRow /\ row.status = "failed" /\ row.rev = run[r].rev
  BY <1>1 DEF RunRow, Statuses, Ended
<1>3. run' = [run EXCEPT ![r] = row]
  OBVIOUS
<1> HIDE DEF row
<1>4. QED
  BY <1>2, <1>3, RowMoves DEF Waiting, Active, Polled

\* emit_failure_events commits the failure it announces.
LEMMA FailKeeps ==
    ASSUME IInv, NEW r \in Run, Fail(r)
    PROVE  IInv'
<1>1. run[r] \in RunRow
  BY DEF IInv, TypeOK
<1>2. PICK part \in 0 .. 1 :
         run' = [run EXCEPT ![r] =
                    [status |-> "failed", rev |-> run[r].rev, saved |-> run[r].saved + part]]
  BY DEF Fail
<1>3. run[r].saved + part \in Nat /\ run[r].status \in Active
  BY <1>1 DEF RunRow, Fail, Active
<1>5. RowsGrow
  BY <1>2, <1>3, FailedRow
<1>6. Final("failed") \in StreamEvent /\ True(run', Final("failed"), r)
  BY EventsTyped DEF Statuses, Ended, Final, Event, True, Waiting
<1>7. QED
  BY <1>5, <1>6, OwingKeeps DEF Fail, Verdict, IInv, TypeOK

\* A worker that lost its row tells the verdict of the row, or a failure.
LEMMA LoseRowKeeps ==
    ASSUME IInv, NEW r \in Run, LoseRow(r)
    PROVE  IInv'
<1>1. RowsGrow
  BY RowsSame DEF LoseRow
<1>2. PICK e \in {Final(run[r].status), Done("failed")} : Owing(r, <<e>>)
  BY DEF LoseRow, Verdict
<1>3. e \in StreamEvent /\ True(run', e, r)
  <2>1. CASE e = Done("failed")
    BY <2>1, EventsTyped DEF Statuses, Ended, Done, Event, True, Waiting
  <2>2. CASE e = Final(run[r].status)
    <3>1. run[r].status \in Statuses /\ run[r].status # Waiting /\ run' = run
      BY DEF LoseRow, Statuses, Ended, Waiting
    <3>2. e.status = run[r].status
      BY <2>2 DEF Final, Event
    <3>3. QED
      BY <2>2, <3>1, <3>2, EventsTyped DEF True
  <2>3. QED
    BY <1>2, <2>1, <2>2
<1>4. QED
  BY <1>1, <1>2, <1>3, OwingKeeps DEF LoseRow, IInv, TypeOK

\* The events a worker owes are true when they are emitted.
LEMMA TellKeeps ==
    ASSUME IInv, NEW r \in Run, Tell(r)
    PROVE  IInv'
<1> DEFINE owes == worker[r].owes
<1>1. RowsGrow
  BY RowsSame DEF Tell
<1>2. worker[r] \in Worker /\ worker \in [Run -> Worker]
  BY DEF IInv, TypeOK
<1>3. owes \in Seq(StreamEvent) /\ Len(owes) \in {1, 2} /\ OwedTrue(run', owes, r)
  <2>1. owes \in Seq(StreamEvent) /\ owes # <<>> /\ Len(owes) <= 2
    BY <1>2 DEF Worker, Tell, IInv, TypeOK
  <2>2. OwedTrue(run', owes, r)
    BY DEF IInv, EventsTrue, Tell
  <2> HIDE DEF owes
  <2>3. Len(owes) \in Nat /\ Len(owes) # 0 /\ Len(owes) <= 2
    BY <2>1
  <2>4. \A n \in Nat : n # 0 /\ n <= 2 => n \in {1, 2}
    OBVIOUS
  <2>5. QED
    BY <2>1, <2>2, <2>3, <2>4
<1>4. StreamGrows
  BY <1>1, <1>3, SentGrows DEF Tell
<1>5. worker' = [worker EXCEPT ![r] = [pc |-> worker[r].pc, owes |-> <<>>]]
  <2>1. [worker[r] EXCEPT !.owes = <<>>] = [pc |-> worker[r].pc, owes |-> <<>>]
    BY <1>2 DEF Worker
  <2>2. worker' = [worker EXCEPT ![r] = [worker[r] EXCEPT !.owes = <<>>]]
    BY DEF Tell
  <2>3. QED
    BY <2>1, <2>2
<1>6. worker[r].pc \in {"none", "created", "working", "telling", "over"}
  BY <1>2 DEF Worker
<1>7. <<>> \in Seq(StreamEvent) /\ Len(<<>>) <= 2 /\ OwedTrue(run', <<>>, r)
  BY DEF OwedTrue
<1>8. OwesGrow
  BY <1>1, <1>5, <1>6, <1>7, WorkerOwes
<1>9. QED
  BY <1>1, <1>4, <1>8, ServerKeeps DEF Tell, IInv, TypeOK

\* Faults stay within their bound.
LEMMA FaultsTyped ==
    ASSUME IInv, MayFault
    PROVE  faults' \in 0 .. MaxFaults
BY StreamAssumption DEF IInv, TypeOK, MayFault

\* A worker cut off before its events tells a failure, or nothing.
LEMMA TellOtherwiseKeeps ==
    ASSUME IInv, NEW r \in Run, TellOtherwise(r)
    PROVE  IInv'
<1>1. RowsGrow /\ faults' \in 0 .. MaxFaults
  BY RowsSame, FaultsTyped DEF TellOtherwise
<1>2. CASE Owing(r, <<Done("failed")>>)
  <2>1. Done("failed") \in StreamEvent /\ True(run', Done("failed"), r)
    BY EventsTyped DEF Statuses, Ended, Done, Event, True, Waiting
  <2>2. QED
    BY <1>1, <1>2, <2>1, OwingKeeps DEF TellOtherwise
<1>3. CASE Owing(r, <<>>)
  <2>1. <<>> \in Seq(StreamEvent) /\ Len(<<>>) <= 2 /\ OwedTrue(run', <<>>, r)
    BY DEF OwedTrue
  <2>2. OwesGrow
    BY <1>1, <1>3, <2>1, WorkerOwes DEF Owing
  <2>3. QED
    BY <1>1, <2>2, StreamSame, ServerKeeps DEF TellOtherwise
<1>4. QED
  BY <1>2, <1>3 DEF TellOtherwise

\* run_turn_worker closes the sink of its stream.
LEMMA LeaveKeeps ==
    ASSUME IInv, NEW r \in Run, Leave(r)
    PROVE  IInv'
<1>1. RowsGrow
  BY RowsSame DEF Leave
<1>2. OwesGrow
  BY <1>1, WorkersSame DEF Leave
<1>3. StreamGrows
  <2>1. Fits(sink) /\ QueueTrue(run', sink)
    BY SinkFits DEF Leave
  <2>2. sink' \in {sink, Close(sink), Kept(Close(sink))}
    BY DEF Leave
  <2>3. QED
    BY <2>1, <2>2, CloseKeeps, KeptKeeps DEF StreamGrows, Leave
<1>4. QED
  BY <1>1, <1>2, <1>3, ServerKeeps DEF Leave, IInv, TypeOK

\* A crash takes the worker, the sink and the connection.
LEMMA CrashKeeps ==
    ASSUME IInv, NEW r \in Run, Crash(r)
    PROVE  IInv'
<1>1. RowsGrow /\ faults' \in 0 .. MaxFaults
  BY RowsSame, FaultsTyped DEF Crash
<1>2. OwesGrow
  <2>1. <<>> \in Seq(StreamEvent) /\ Len(<<>>) <= 2 /\ OwedTrue(run', <<>>, r)
    BY DEF OwedTrue
  <2>2. QED
    BY <1>1, <2>1, WorkerOwes DEF Crash
<1>3. StreamGrows
  <2>1. CASE sink.run # r
    BY <1>1, <2>1, StreamSame DEF Crash
  <2>2. CASE sink.run = r
    <3>1. Fits(NoSink) /\ QueueTrue(run', NoSink) /\ \A n \in Nat : GoesOn(NoSink, n)
      BY NoSinkTyped, StreamAssumption DEF Fits, QueueTrue, GoesOn
    <3>2. sink' = NoSink /\ reader' = "over" /\ link' \in {link, "down"}
      BY <2>2 DEF Crash
    <3>3. QED
      BY <3>1, <3>2 DEF StreamGrows
  <2>3. QED
    BY <2>1, <2>2
<1>4. QED
  BY <1>1, <1>2, <1>3, ServerKeeps DEF Crash

\* A cancellation settles an open run (request_agent_run_cancel).
LEMMA SettleElsewhereKeeps ==
    ASSUME IInv, NEW r \in Run, SettleElsewhere(r)
    PROVE  IInv'
<1>1. run[r] \in RunRow
  BY DEF IInv, TypeOK
<1>2. run[r].saved \in Nat /\ run[r].status \in Active
  BY <1>1 DEF RunRow, SettleElsewhere, Open
<1>3. run' = [run EXCEPT ![r] = [status |-> "failed", rev |-> run[r].rev, saved |-> run[r].saved]]
  <2>1. [run[r] EXCEPT !.status = "failed"]
           = [status |-> "failed", rev |-> run[r].rev, saved |-> run[r].saved]
    BY <1>1 DEF RunRow
  <2>2. run' = [run EXCEPT ![r] = [run[r] EXCEPT !.status = "failed"]]
    BY DEF SettleElsewhere
  <2>3. QED
    BY <2>1, <2>2
<1>4. RowsGrow
  BY <1>2, <1>3, FailedRow
<1>5. QED
  BY <1>4, WorkersSame, StreamSame, ServerKeeps DEF SettleElsewhere, IInv, TypeOK

\* A run goes on after a wait.
LEMMA ResumedRow ==
    ASSUME IInv, NEW r \in Run, run[r].status = Waiting,
           run' = [run EXCEPT ![r].status = "running"]
    PROVE  RowsGrow
<1> DEFINE row == [run[r] EXCEPT !.status = "running"]
<1>1. run[r] \in RunRow
  BY DEF IInv, TypeOK
<1>2. row \in RunRow /\ row.status = "running" /\ row.rev = run[r].rev
  BY <1>1 DEF RunRow, Statuses, Active, Polled
<1>3. run' = [run EXCEPT ![r] = row]
  OBVIOUS
<1> HIDE DEF row
<1>4. QED
  BY <1>2, <1>3, RowMoves DEF Waiting

\* Another tab answers the approval (resume_agent_run_stream).
LEMMA ResumeElsewhereKeeps ==
    ASSUME IInv, NEW r \in Run, ResumeElsewhere(r)
    PROVE  IInv'
<1>1. RowsGrow
  BY ResumedRow DEF ResumeElsewhere
<1>2. OwesGrow
  <2>1. worker[r].pc \in {"none", "created", "working", "telling", "over"}
    BY DEF IInv, TypeOK, Worker
  <2>2. \E p \in {"none", "created", "working", "telling", "over"} :
           worker' = [worker EXCEPT ![r].pc = p]
    BY <2>1 DEF ResumeElsewhere
  <2>3. QED
    BY <1>1, <2>2, WorkersSame
<1>3. QED
  BY <1>1, <1>2, StreamSame, ServerKeeps DEF ResumeElsewhere, IInv, TypeOK

\* Another tab starts a turn (create_conversation_turn_stream).
LEMMA TurnElsewhereKeeps ==
    ASSUME IInv, TurnElsewhere
    PROVE  IInv'
<1>1. RowsGrow /\ NextRun \in Run
  BY TurnGrows, NextRunIs DEF TurnElsewhere
<1>2. OwesGrow
  BY <1>1, WorkersSame DEF TurnElsewhere
<1>3. QED
  BY <1>1, <1>2, StreamSame, ServerKeeps DEF TurnElsewhere, IInv, TypeOK

----------------------------------------------------------------------------
(* The connection                                                           *)

\* A new stream starts where the tab that called is.
LEMMA StreamKeeps ==
    ASSUME IInv, RowsGrow, OwesGrow, NEW r \in Run, NEW status \in Polled,
           tab.phase = "calling", Stream(r, status)
    PROVE  IInv'
<1> DEFINE e == Status(status)
           s == Emit(NewSink(r), e)
<1>1. e \in StreamEvent /\ True(run', e, r)
  BY EventsTyped DEF Statuses, Active, Polled, Status, Event, True, Waiting
<1>2. r \in AnyRun
  BY DEF Run, AnyRun
<1>3. Fits(NewSink(r)) /\ QueueTrue(run', NewSink(r)) /\ GoesOn(NewSink(r), 0) /\ NewSink(r).run = r
  BY <1>2, NoSinkTyped, StreamAssumption DEF Fits, QueueTrue, GoesOn
<1> HIDE DEF e
<1>4. Fits(s) /\ QueueTrue(run', s) /\ GoesOn(s, 0)
  BY <1>1, <1>3, EmitKeeps
<1>5. sink' = s /\ reader' = "reading" /\ link' = "up" /\ UNCHANGED client /\ UNCHANGED faults
  BY DEF Stream, e
<1> HIDE DEF s
<1>6. TypeOK'
  BY <1>4, <1>5 DEF IInv, TypeOK, RowsGrow, OwesGrow, Fits, client
<1>7. EventsTrue'
  BY <1>4, <1>5 DEF EventsTrue, OwesGrow
<1>8. QueueGoesOn' /\ CallsFresh'
  BY <1>4, <1>5 DEF IInv, QueueGoesOn, CallsFresh, client
<1>9. QED
  BY <1>5, <1>6, <1>7, <1>8, ClientKept DEF IInv, RowsGrow

\* A turn of the tab commits its row before the first event.
LEMMA AcceptTurnKeeps ==
    ASSUME IInv, AcceptTurn
    PROVE  IInv'
<1>1. RowsGrow /\ NextRun \in Run
  BY TurnGrows, NextRunIs DEF AcceptTurn
<1>2. OwesGrow
  BY <1>1, WorkersSame DEF AcceptTurn
<1>3. QED
  BY <1>1, <1>2, StreamKeeps DEF AcceptTurn, Arrives, Polled

\* An answer of the tab resumes the run that waits for it.
LEMMA AcceptResumeKeeps ==
    ASSUME IInv, AcceptResume
    PROVE  IInv'
<1> DEFINE r == tab.ask.run
<1>1. r \in Run /\ run[r].status = Waiting /\ tab.phase = "calling"
  BY DEF IInv, AskKept, AcceptResume, Arrives, ResumeAllowed
<1>2. /\ run' = [run EXCEPT ![r].status = "running"]
      /\ worker' = [worker EXCEPT ![r].pc = "working"]
      /\ Stream(r, "running")
  BY DEF AcceptResume
<1> HIDE DEF r
<1>3. RowsGrow
  BY <1>1, <1>2, ResumedRow
<1>4. OwesGrow
  BY <1>1, <1>2, <1>3, WorkersSame
<1>5. QED
  BY <1>1, <1>2, <1>3, <1>4, StreamKeeps DEF Polled

\* A conflict may end a run or resume one, without a stream.
LEMMA RefuseKeeps ==
    ASSUME IInv, Refuse
    PROVE  IInv'
<1> DEFINE r == tab.ask.run
<1>1. RowsGrow
  <2>1. CASE run' = Reaped
    BY <2>1, ReapGrows
  <2>2. CASE run' = run
    BY <2>2, RowsSame
  <2>3. CASE /\ Arrives("resume") /\ run[r].status = Waiting
             /\ \E s \in {"failed", "running"} : run' = [run EXCEPT ![r].status = s]
    <3>1. r \in Run /\ run[r] \in RunRow
      BY <2>3 DEF IInv, TypeOK, AskKept, Arrives
    <3>2. PICK s \in {"failed", "running"} : run' = [run EXCEPT ![r].status = s]
      BY <2>3
    <3> DEFINE row == [run[r] EXCEPT !.status = s]
    <3>3. row \in RunRow /\ row.status = s /\ row.rev = run[r].rev
      BY <3>1, <3>2 DEF RunRow, Statuses, Active, Polled, Ended
    <3>4. run' = [run EXCEPT ![r] = row]
      BY <3>2
    <3> HIDE DEF row, r
    <3>5. QED
      BY <2>3, <3>1, <3>2, <3>3, <3>4, RowMoves DEF Waiting
  <2>4. QED
    BY <2>1, <2>2, <2>3 DEF Refuse, ResumeAllowed
<1>2. 1 \in Run
  BY StreamAssumption DEF Run
<1>3. OwesGrow
  BY <1>1, <1>2, WorkersSame DEF Refuse
<1>4. StreamGrows
  BY <1>1, SinkFits, TrueStays DEF Refuse, RowsGrow, StreamGrows
<1>5. QED
  BY <1>1, <1>3, <1>4, ServerKeeps DEF Refuse, IInv, TypeOK

\* The rows and the workers are as they were.
LEMMA ServerSame ==
    ASSUME IInv, UNCHANGED server
    PROVE  RowsGrow /\ OwesGrow
<1>1. RowsGrow
  BY RowsSame DEF server
<1>2. 1 \in Run
  BY StreamAssumption DEF Run
<1>3. QED
  BY <1>1, <1>2, WorkersSame DEF server

\* A connection breaks beside the rows and the queue.
LEMMA BreakKeeps ==
    ASSUME IInv, Break
    PROVE  IInv'
<1>1. RowsGrow /\ OwesGrow /\ faults' \in 0 .. MaxFaults
  BY ServerSame, FaultsTyped DEF Break
<1>2. StreamGrows
  BY <1>1, SinkFits, TrueStays DEF Break, RowsGrow, StreamGrows
<1>3. QED
  BY <1>1, <1>2, ServerKeeps DEF Break

\* A response that ends leaves the sink to its worker.
LEMMA Detached ==
    ASSUME IInv
    PROVE  LET s == Kept(Detach(sink))
           IN  Fits(s) /\ QueueTrue(run, s) /\ \A n \in Nat : GoesOn(sink, n) => GoesOn(s, n)
BY SinkFits, DetachKeeps, KeptKeeps

\* The response notices it and detaches its sink (drain_sse_sink).
LEMMA DisconnectedKeeps ==
    ASSUME IInv, Disconnected
    PROVE  IInv'
<1>1. RowsGrow /\ OwesGrow
  BY ServerSame DEF Disconnected
<1>2. StreamGrows
  BY <1>1, Detached, TrueStays DEF Disconnected, RowsGrow, StreamGrows
<1>3. QED
  BY <1>1, <1>2, ServerKeeps DEF Disconnected, IInv, TypeOK

----------------------------------------------------------------------------
(* The tab                                                                  *)

\* What remains to be said of a step of the tab.
LEMMA StepKept ==
    ASSUME IInv, RowsGrow, OwesGrow, Fits(sink'), QueueTrue(run', sink'),
           reader' \in {"reading", "over"}, link' \in {"none", "up", "down"},
           tab' \in Tab, pane' \in Pane, shown' \in Shown, fetch' \in Fetch,
           faults' \in 0 .. MaxFaults,
           QueueGoesOn', CallsFresh', AskKept', PaneTrue', TabTrue', FetchTrue', RecoveredWhole'
    PROVE  IInv'
<1>1. TypeOK'
  BY DEF TypeOK, RowsGrow, OwesGrow, Fits
<1>2. EventsTrue'
  BY DEF EventsTrue, OwesGrow
<1>3. QED
  BY <1>1, <1>2 DEF IInv, RowsGrow

\* What has to be shown of a step of the tab beside unchanged rows.
LEMMA TabKeeps ==
    ASSUME IInv, UNCHANGED server, Fits(sink'), QueueTrue(run, sink'),
           reader' \in {"reading", "over"}, link' \in {"none", "up", "down"},
           tab' \in Tab, pane' \in Pane, shown' \in Shown, fetch' \in Fetch,
           faults' \in 0 .. MaxFaults,
           QueueGoesOn', CallsFresh', AskKept', PaneTrue', TabTrue', FetchTrue', RecoveredWhole'
    PROVE  IInv'
BY ServerSame, StepKept DEF server

\* A pane that is stale is not shown as whole, nor as current.
LEMMA PaneLeft ==
    ASSUME IInv, LeaveStream, UNCHANGED <<run, shown>>
    PROVE  /\ pane' \in Pane /\ fetch' \in Fetch
           /\ PaneTrue' /\ FetchTrue' /\ RecoveredWhole'
<1>1. pane \in Pane /\ fetch \in Fetch /\ NoFetch \in Fetch
  BY StreamAssumption
  DEF IInv, TypeOK, NoFetch, Fetch, AnyRun, Revision, Statuses
<1>2. CASE tab.run # 0 \/ tab.call = "resume"
  <2>1. pane' = [pane EXCEPT !.stale = TRUE]
    BY <1>2 DEF LeaveStream, Invalidated
  <2>2. /\ pane' \in Pane /\ pane'.run = pane.run /\ pane'.status = pane.status
        /\ pane'.rev = pane.rev /\ pane'.error = pane.error
    BY <1>1, <2>1 DEF Pane
  <2>3. pane'.stale /\ (pane'.read <=> pane.read)
    BY <1>1, <2>1 DEF Pane
  <2>4. fetch' = NoFetch
    BY <2>3 DEF LeaveStream
  <2>5. PaneTrue'
    BY <2>2, <2>3 DEF IInv, PaneTrue
  <2>6. FetchTrue'
    BY <2>4 DEF FetchTrue, NoFetch, Waiting
  <2>7. RecoveredWhole'
    BY <2>2, <2>3 DEF IInv, RecoveredWhole, Answerable
  <2>8. QED
    BY <1>1, <2>2, <2>4, <2>5, <2>6, <2>7
<1>3. CASE ~(tab.run # 0 \/ tab.call = "resume")
  <2>1. pane' = pane
    BY <1>3 DEF LeaveStream, Invalidated
  <2>2. CASE pane.stale
    <3>1. fetch' = NoFetch
      BY <2>1, <2>2 DEF LeaveStream
    <3>2. PaneTrue' /\ RecoveredWhole'
      BY <2>1, <2>2 DEF IInv, PaneTrue, RecoveredWhole, Answerable
    <3>3. FetchTrue'
      BY <3>1 DEF FetchTrue, NoFetch, Waiting
    <3>4. QED
      BY <1>1, <2>1, <3>1, <3>2, <3>3
  <2>3. CASE ~pane.stale
    <3>1. fetch' = fetch
      BY <2>1, <2>3 DEF LeaveStream
    <3>2. PaneTrue' /\ RecoveredWhole' /\ FetchTrue'
      BY <1>3, <2>1, <3>1 DEF IInv, PaneTrue, RecoveredWhole, Answerable, FetchTrue
    <3>3. QED
      BY <1>1, <2>1, <3>1, <3>2
  <2>4. QED
    BY <2>2, <2>3
<1>4. QED
  BY <1>2, <1>3

\* The state a stream of the tab starts from (initialAgentStreamState).
LEMMA NewTabTyped ==
    /\ NewTab \in Tab /\ NewTab.phase = "idle" /\ NewTab.call = "none" /\ NewTab.run = 0
    /\ NewTab.last = 0 /\ ~NewTab.done /\ NewTab.ask.rev = NewTab.ask.saw /\ NewTab.ask \in Ask
<1>1. 0 \in AnyRun /\ 0 \in Revision
  BY StreamAssumption DEF AnyRun, Revision
<1>2. QED
  BY <1>1 DEF NewTab, Tab, Ask

\* A call starts afresh, and gives up the stream that was open.
LEMMA CallKeeps ==
    ASSUME IInv, NEW what \in {"turn", "resume"}, NEW ask \in Ask, ask.rev = ask.saw,
           what = "resume" => ask.run \in Run, Call(what, ask)
    PROVE  IInv'
<1> DEFINE t == [NewTab EXCEPT !.phase = "calling", !.call = what, !.status = "pending",
                               !.ask = ask]
<1>1. /\ t \in Tab /\ t.phase = "calling" /\ t.call = what /\ t.status = "pending" /\ t.ask = ask
      /\ t.run = 0 /\ t.last = 0
  BY NewTabTyped DEF Tab, Statuses, Active, Polled
<1>2. ~t.done
  BY DEF NewTab
<1>3. tab' = t /\ link' = "none" /\ reader' = "over" /\ sink' = Kept(Detach(sink))
      /\ UNCHANGED server /\ UNCHANGED shown /\ UNCHANGED faults
  BY DEF Call
<1> HIDE DEF t
<1>4. QueueGoesOn' /\ CallsFresh' /\ AskKept' /\ TabTrue'
  BY <1>1, <1>2, <1>3 DEF QueueGoesOn, CallsFresh, AskKept, TabTrue
<1>5. /\ pane' \in Pane /\ fetch' \in Fetch
      /\ PaneTrue' /\ FetchTrue' /\ RecoveredWhole'
  <2>1. CASE tab.phase = "open"
    BY <1>3, <2>1, PaneLeft DEF Call, server
  <2>2. CASE tab.phase # "open"
    <3>1. UNCHANGED <<pane, fetch, run, shown>>
      BY <1>3, <2>2 DEF Call, server
    <3>2. PaneTrue' /\ FetchTrue' /\ RecoveredWhole'
      BY <2>2, <3>1 DEF IInv, PaneTrue, FetchTrue, RecoveredWhole, Answerable
    <3>3. QED
      BY <3>1, <3>2 DEF IInv, TypeOK
  <2>3. QED
    BY <2>1, <2>2
<1>6. shown' \in Shown /\ faults' \in 0 .. MaxFaults
  BY <1>3 DEF IInv, TypeOK
<1>7. QED
  BY <1>1, <1>3, <1>4, <1>5, <1>6, Detached, TabKeeps

\* A message is sent from an idle tab.
LEMMA SendKeeps ==
    ASSUME IInv, Send
    PROVE  IInv'
BY NewTabTyped, CallKeeps DEF Send

\* An answer names the revision whose requests are shown
\* (handleApprovalSubmit).
LEMMA AnswerKeeps ==
    ASSUME IInv, Answer
    PROVE  IInv'
<1> DEFINE ask == [run |-> pane.run, rev |-> pane.rev, saw |-> shown.proposal]
<1>1. pane.run \in AnyRun /\ pane.rev \in Revision /\ shown.proposal \in Revision
  BY DEF IInv, TypeOK, Pane, Shown
<1>2. ask \in Ask /\ ask.run = pane.run /\ ask.rev = ask.saw
  BY <1>1 DEF Ask, Answer
<1>3. pane.run \in Run
  BY DEF IInv, PaneTrue, Answer, Answerable, Waiting
<1>4. Call("resume", ask)
  BY DEF Answer
<1> HIDE DEF ask
<1>5. QED
  BY <1>2, <1>3, <1>4, CallKeeps

\* The response of a call begins.
LEMMA ConnectKeeps ==
    ASSUME IInv, Connect
    PROVE  IInv'
<1>1. tab \in Tab /\ tab' = [tab EXCEPT !.phase = "open", !.connected = TRUE]
  BY DEF IInv, TypeOK, Connect
<1>2. /\ tab' \in Tab /\ tab'.phase = "open" /\ tab'.run = tab.run /\ tab'.status = tab.status
      /\ tab'.last = tab.last /\ tab'.ask = tab.ask /\ tab'.call = tab.call
  BY <1>1 DEF Tab
<1>3. tab'.done <=> tab.done
  BY <1>1 DEF Tab
<1>4. /\ QueueGoesOn' /\ CallsFresh' /\ AskKept'
      /\ PaneTrue' /\ TabTrue' /\ FetchTrue' /\ RecoveredWhole'
  <2> USE DEF Connect, server, pipe, IInv
  <2>1. QueueGoesOn'
    BY <1>2, <1>3 DEF QueueGoesOn
  <2>2. CallsFresh' /\ AskKept'
    BY <1>2, <1>3 DEF CallsFresh, AskKept
  <2>3. PaneTrue'
    BY DEF PaneTrue
  <2>4. TabTrue'
    BY <1>2 DEF TabTrue, True
  <2>5. FetchTrue' /\ RecoveredWhole'
    BY DEF FetchTrue, RecoveredWhole, Answerable
  <2>6. QED
    BY <2>1, <2>2, <2>3, <2>4, <2>5
<1>5. QED
  BY <1>2, <1>4, SinkFits, TabKeeps DEF Connect, pipe, IInv, TypeOK

\* The first event of the queue, and what the tab makes of it.
LEMMA Received ==
    ASSUME IInv, Receive
    PROVE  LET e == Head(sink.queue)
           IN  /\ e \in StreamEvent /\ e.run \in Run /\ True(run, e, e.run)
               /\ tab.done => tab' = tab
               /\ ~tab.done => /\ tab.run \in {0, e.run} /\ e.seq = tab.last + 1
                               /\ tab'.run = e.run /\ tab'.last = e.seq
                               /\ tab'.status \in {tab.status, e.status}
               /\ tab' \in Tab /\ tab'.phase = "open" /\ tab'.ask = tab.ask /\ tab'.run # 0
<1> DEFINE e == Head(sink.queue)
<1>1. sink.queue \in Seq(StreamEvent) /\ sink.queue # <<>> /\ e # End
  BY DEF IInv, TypeOK, StreamSink, Receive, Delivered
<1>2. 1 \in 1 .. Len(sink.queue) /\ e = sink.queue[1] /\ e \in StreamEvent
  BY <1>1
<1> HIDE DEF e
<1>3. e.run \in Run /\ True(run, e, e.run)
  BY <1>1, <1>2 DEF IInv, EventsTrue, QueueTrue
<1>4. tab \in Tab /\ tab.phase = "open" /\ tab' = Reduce(tab, e)
  BY DEF IInv, TypeOK, Receive, Delivered, e
<1>5. e.run \in AnyRun /\ e.run # 0 /\ e.seq \in Nat /\ e.status \in Statuses
  BY <1>2, <1>3 DEF StreamEvent, Run
<1>6. CASE tab.done
  <2>1. tab' = tab
    BY <1>4, <1>6 DEF Reduce
  <2>2. tab.run # 0
    BY <1>4, <1>6 DEF IInv, CallsFresh
  <2>3. QED
    BY <1>2, <1>3, <1>4, <1>6, <2>1, <2>2 DEF e
<1>7. CASE ~tab.done
  <2>1. GoesOn(sink, tab.last) /\ tab.run \in {0, sink.run} /\ tab.last \in Nat
    BY <1>4, <1>7 DEF IInv, QueueGoesOn, Receive, Delivered, Tab
  <2>2. e.run = sink.run /\ e.seq = tab.last + 1
    BY <1>1, <1>2, <2>1 DEF GoesOn
  <2>3. ~(e.seq <= tab.last) /\ e.seq > tab.last
    BY <2>1, <2>2
  <2> DEFINE seen == [tab EXCEPT !.run = e.run, !.last = e.seq]
  <2>4. /\ seen \in Tab /\ seen.run = e.run /\ seen.last = e.seq /\ seen.phase = "open"
        /\ seen.ask = tab.ask /\ seen.status = tab.status
    BY <1>4, <1>5 DEF Tab
  <2>5. \/ tab' = seen
        \/ tab' = [seen EXCEPT !.status = e.status]
        \/ tab' = [seen EXCEPT !.status = e.status, !.done = TRUE]
        \/ tab' = [seen EXCEPT !.status = e.status, !.done = TRUE,
                               !.connected = @ /\ e.status # "failed"]
    BY <1>4, <1>7, <2>3 DEF Reduce
  <2> HIDE DEF seen
  <2>6. /\ tab' \in Tab /\ tab'.run = e.run /\ tab'.last = e.seq /\ tab'.phase = "open"
        /\ tab'.ask = tab.ask /\ tab'.status \in {tab.status, e.status}
    BY <1>5, <2>4, <2>5 DEF Tab
  <2>7. QED
    BY <1>2, <1>3, <1>5, <1>7, <2>1, <2>2, <2>6 DEF e
<1>8. QED
  BY <1>6, <1>7

\* A frame moves the stream and the pane to what it says (reduceStreamEvent,
\* seedStreamQueryCache).
LEMMA ReceiveKeeps ==
    ASSUME IInv, Receive
    PROVE  IInv'
<1> DEFINE e == Head(sink.queue)
<1>1. /\ e \in StreamEvent /\ e.run \in Run /\ True(run, e, e.run)
      /\ tab.done => tab' = tab
      /\ ~tab.done => /\ tab.run \in {0, e.run} /\ e.seq = tab.last + 1
                      /\ tab'.run = e.run /\ tab'.last = e.seq
                      /\ tab'.status \in {tab.status, e.status}
      /\ tab' \in Tab /\ tab'.phase = "open" /\ tab'.ask = tab.ask /\ tab'.run # 0
  BY Received
<1>2. pane' = Seeded(pane, e)
  BY DEF Receive
<1> HIDE DEF e
<1>3. /\ tab \in Tab /\ pane \in Pane /\ tab.last \in Nat /\ tab.phase = "open"
      /\ UNCHANGED <<run, worker, reader, link, shown, fetch, faults>>
      /\ sink' = [sink EXCEPT !.queue = Tail(@)] /\ sink.queue # <<>> /\ reader = "reading"
  BY DEF IInv, TypeOK, Tab, Receive, Delivered, server
<1>4. Fits(sink') /\ QueueTrue(run, sink') /\ sink'.run = sink.run
  BY <1>3, SinkFits, TailKeeps
<1>5. QueueGoesOn'
  <2> SUFFICES ASSUME ~tab.done
               PROVE  GoesOn(sink', tab'.last) /\ tab'.run \in {0, sink'.run} /\ tab'.run # 0
    BY <1>1 DEF QueueGoesOn
  <2>1. GoesOn(sink, tab.last) /\ sink.queue \in Seq(StreamEvent) /\ e = sink.queue[1] /\ e # End
    BY <1>3 DEF IInv, TypeOK, StreamSink, QueueGoesOn, Receive, e
  <2>2. GoesOn(sink', tab.last + 1)
    BY <1>3, <2>1, SinkFits, TailKeeps
  <2>3. 1 \in 1 .. Len(sink.queue)
    BY <1>3, <2>1
  <2>4. e.run = sink.run
    BY <2>1, <2>3 DEF GoesOn
  <2>5. QED
    BY <1>1, <1>4, <2>2, <2>4
<1>6. CallsFresh' /\ AskKept'
  BY <1>1 DEF CallsFresh, IInv, AskKept
<1>7. TabTrue'
  <2>1. CASE tab.done
    BY <1>1, <1>3, <2>1 DEF IInv, TabTrue
  <2>2. CASE ~tab.done
    <3>1. tab.run = 0 => tab.status = "pending"
      BY <1>3, <2>2 DEF IInv, QueueGoesOn
    <3>2. QED
      BY <1>1, <1>3, <2>2, <3>1 DEF IInv, TabTrue, True, Waiting
  <2>3. QED
    BY <2>1, <2>2
<1>8. pane' \in Pane /\ PaneTrue' /\ RecoveredWhole'
  <2>1. e.status \in Statuses /\ e.rev \in Revision /\ e.run \in AnyRun
    BY <1>1 DEF StreamEvent
  <2>2. CASE e.kind \in {"run.status", "final"} /\ e.status \in Active
    <3>1. 0 \in Revision
      BY StreamAssumption DEF Revision
    <3>2. pane' = [pane EXCEPT !.known = TRUE, !.run = e.run, !.status = e.status, !.read = FALSE,
                               !.error = "none",
                               !.rev = IF pane.run = e.run /\ e.status = Waiting THEN @ ELSE 0]
      BY <1>2, <2>2 DEF Seeded, Active, Ended, Polled, Waiting
    <3>3. pane' \in Pane /\ pane'.run = e.run /\ pane'.status = e.status
      BY <1>3, <2>1, <3>1, <3>2 DEF Pane
    <3>4. ~pane'.read
      BY <1>3, <3>2 DEF Pane
    <3>5. QED
      BY <1>1, <2>2, <3>3, <3>4 DEF PaneTrue, RecoveredWhole, Active, Polled, Waiting
  <2>3. CASE e.kind = "final" /\ e.status \in Ended
    <3>1. 0 \in Revision
      BY StreamAssumption DEF Revision
    <3>2. pane' = [pane EXCEPT !.known = TRUE, !.status = IF @ \in Active THEN e.status ELSE @,
                               !.read = FALSE, !.error = "none", !.rev = 0]
      BY <1>2, <2>3 DEF Seeded, Active, Ended, Polled, Waiting
    <3>3. /\ pane' \in Pane /\ pane'.run = pane.run
          /\ pane'.status = IF pane.status \in Active THEN e.status ELSE pane.status
      BY <1>3, <2>1, <3>1, <3>2 DEF Pane
    <3>4. ~pane'.read
      BY <1>3, <3>2 DEF Pane
    <3>5. pane'.status # "none" => pane.run \in Run
      BY <3>3 DEF IInv, PaneTrue, Active, Polled, Waiting
    <3>6. pane'.status = "completed" => \E r \in Run : run[r].status = "completed"
      BY <1>1, <3>3 DEF IInv, PaneTrue, True
    <3>7. QED
      BY <1>1, <1>3, <3>3, <3>4, <3>5, <3>6 DEF PaneTrue, RecoveredWhole
  <2>4. CASE e.kind = "tool.approval_required" /\ pane.run = e.run /\ pane.status \in Active
    <3>1. pane' = [pane EXCEPT !.rev = e.rev, !.read = FALSE, !.error = "none"]
      BY <1>2, <2>4 DEF Seeded
    <3>2. pane' \in Pane /\ pane'.run = pane.run /\ pane'.status = pane.status
      BY <1>3, <2>1, <3>1 DEF Pane
    <3>3. ~pane'.read
      BY <1>3, <3>1 DEF Pane
    <3>4. QED
      BY <1>1, <2>4, <3>2, <3>3 DEF PaneTrue, RecoveredWhole, Active, Polled, Waiting
  <2>5. CASE pane' = pane
    BY <1>1, <1>3, <2>5 DEF IInv, PaneTrue, RecoveredWhole, Answerable
  <2>6. QED
    BY <1>2, <2>2, <2>3, <2>4, <2>5 DEF Seeded
<1>9. FetchTrue'
  BY <1>3 DEF IInv, FetchTrue
<1>10. QED
  BY <1>1, <1>3, <1>4, <1>5, <1>6, <1>7, <1>8, <1>9, TabKeeps DEF IInv, TypeOK, server

\* A stream that ends leaves its tab idle, or as new.
LEMMA EndKept ==
    ASSUME IInv, NEW t \in Tab, t.phase = "idle", t.ask = tab.ask,
           t.run # 0 => True(run, t, t.run), tab' \in {t, NewTab}, UNCHANGED run
    PROVE  tab' \in Tab /\ QueueGoesOn' /\ CallsFresh' /\ AskKept' /\ TabTrue'
<1>1. tab' \in Tab /\ tab'.phase = "idle" /\ tab'.ask.rev = tab'.ask.saw
  BY NewTabTyped DEF IInv, AskKept
<1>2. TabTrue'
  BY NewTabTyped DEF TabTrue
<1>3. QED
  BY <1>1, <1>2 DEF QueueGoesOn, CallsFresh, AskKept

\* A stream that ends hands over to the rows (runStream).
LEMMA FinishKeeps ==
    ASSUME IInv, Finish
    PROVE  IInv'
<1> DEFINE t == [tab EXCEPT !.phase = "idle", !.connected = FALSE, !.done = TRUE]
<1>1. /\ t \in Tab /\ t.phase = "idle" /\ t.ask = tab.ask
      /\ t.run = tab.run /\ t.status = tab.status
  BY DEF IInv, TypeOK, Tab
<1>2. tab' \in {t, NewTab}
  BY DEF Finish, Reconciled
<1> HIDE DEF t
<1>3. t.run # 0 => True(run, t, t.run)
  BY <1>1 DEF IInv, TabTrue, True
<1>4. UNCHANGED <<run, shown>>
  BY DEF Finish, server
<1>5. tab' \in Tab /\ QueueGoesOn' /\ CallsFresh' /\ AskKept' /\ TabTrue'
  BY <1>1, <1>2, <1>3, <1>4, EndKept
<1>6. QED
  BY <1>4, <1>5, PaneLeft, Detached, TabKeeps DEF Finish, IInv, TypeOK

\* So does a stream that breaks.
LEMMA StreamFailsKeeps ==
    ASSUME IInv, StreamFails
    PROVE  IInv'
<1> DEFINE t == [tab EXCEPT !.phase = "idle", !.connected = FALSE, !.done = TRUE,
                            !.status = "failed"]
<1>1. t \in Tab /\ t.phase = "idle" /\ t.ask = tab.ask /\ t.run = tab.run /\ t.status = "failed"
  BY DEF IInv, TypeOK, Tab, Statuses, Ended
<1>2. tab' \in {t, NewTab}
  BY DEF StreamFails, Reconciled
<1> HIDE DEF t
<1>3. t.run # 0 => True(run, t, t.run)
  BY <1>1 DEF True, Waiting
<1>4. UNCHANGED <<run, shown>>
  BY DEF StreamFails, server
<1>5. tab' \in Tab /\ QueueGoesOn' /\ CallsFresh' /\ AskKept' /\ TabTrue'
  BY <1>1, <1>2, <1>3, <1>4, EndKept
<1>6. QED
  BY <1>4, <1>5, PaneLeft, SinkFits, TabKeeps DEF StreamFails, IInv, TypeOK, pipe

\* A page that has just been mounted, and a read that has not begun.
LEMMA NewPaneTyped ==
    /\ NewPane \in Pane /\ NewPane.status = "none" /\ ~NewPane.read
    /\ NoFetch \in Fetch /\ NoFetch.phase = "idle" /\ NoFetch.status = "none"
    /\ ~NoFetch.messages /\ NoFetch.proposal = 0
    /\ [saved |-> [r \in Run |-> 0], proposal |-> 0] \in Shown
<1>1. 0 \in AnyRun /\ 0 \in Revision /\ "none" \in Statuses
  BY StreamAssumption DEF AnyRun, Revision, Statuses
<1>2. NewPane \in Pane /\ NewPane.status = "none" /\ ~NewPane.read
  BY <1>1 DEF NewPane, Pane
<1>3. /\ NoFetch \in Fetch /\ NoFetch.phase = "idle" /\ NoFetch.status = "none"
      /\ ~NoFetch.messages /\ NoFetch.proposal = 0
  BY <1>1 DEF NoFetch, Fetch
<1>4. [saved |-> [r \in Run |-> 0], proposal |-> 0] \in Shown
  BY <1>1 DEF Shown
<1>5. QED
  BY <1>2, <1>3, <1>4

\* A page that has just been loaded says nothing.
LEMMA NewPage ==
    ASSUME pane = NewPane, fetch = NoFetch, tab = NewTab
    PROVE  /\ QueueGoesOn /\ CallsFresh /\ AskKept
           /\ PaneTrue /\ TabTrue /\ FetchTrue /\ RecoveredWhole
BY NewPaneTyped, NewTabTyped
DEF QueueGoesOn, CallsFresh, AskKept, PaneTrue, TabTrue, FetchTrue, RecoveredWhole, Waiting

\* The page is loaded again.
LEMMA ReloadKeeps ==
    ASSUME IInv, Reload
    PROVE  IInv'
<1>1. tab' = NewTab /\ pane' = NewPane /\ fetch' = NoFetch /\ faults' \in 0 .. MaxFaults
  BY FaultsTyped DEF Reload
<1>2. /\ QueueGoesOn' /\ CallsFresh' /\ AskKept'
      /\ PaneTrue' /\ TabTrue' /\ FetchTrue' /\ RecoveredWhole'
  BY <1>1, NewPaneTyped, NewTabTyped
  DEF QueueGoesOn, CallsFresh, AskKept, PaneTrue, TabTrue, FetchTrue, RecoveredWhole, Waiting
<1>3. QED
  BY <1>1, <1>2, NewPaneTyped, NewTabTyped, Detached, TabKeeps DEF Reload

----------------------------------------------------------------------------
(* The recovery reads                                                       *)

\* A read leaves the stream alone.
LEMMA ReadKept ==
    ASSUME IInv, UNCHANGED <<server, pipe, tab>>, faults' \in 0 .. MaxFaults,
           pane' \in Pane, shown' \in Shown, fetch' \in Fetch,
           PaneTrue', FetchTrue', RecoveredWhole'
    PROVE  IInv'
<1>1. QueueGoesOn' /\ CallsFresh' /\ AskKept' /\ TabTrue'
  BY DEF IInv, QueueGoesOn, CallsFresh, AskKept, TabTrue, server, pipe
<1>2. QED
  BY <1>1, SinkFits, TabKeeps DEF IInv, TypeOK, pipe

\* A read begins.
LEMMA BeginKeeps ==
    ASSUME IInv, Begin
    PROVE  IInv'
<1>1. fetch' = [NoFetch EXCEPT !.phase = "reading"] /\ pane' = [pane EXCEPT !.stale = FALSE]
  BY DEF Begin
<1>2. /\ fetch' \in Fetch /\ fetch'.phase = "reading" /\ fetch'.status = "none"
      /\ fetch'.proposal = 0
  BY <1>1, NewPaneTyped DEF Fetch
<1>3. ~fetch'.messages
  BY <1>1, NewPaneTyped DEF Fetch
<1>4. /\ pane' \in Pane /\ pane'.run = pane.run /\ pane'.status = pane.status
      /\ pane'.rev = pane.rev /\ pane'.error = pane.error
  BY <1>1 DEF IInv, TypeOK, Pane
<1>5. pane'.read <=> pane.read
  BY <1>1 DEF IInv, TypeOK, Pane
<1>6. UNCHANGED <<server, pipe, tab, shown, faults, run>>
  BY DEF Begin, server
<1>7. PaneTrue' /\ FetchTrue' /\ RecoveredWhole'
  BY <1>2, <1>3, <1>4, <1>5, <1>6 DEF IInv, PaneTrue, FetchTrue, RecoveredWhole, Answerable, Waiting
<1>8. QED
  BY <1>2, <1>4, <1>6, <1>7, ReadKept DEF IInv, TypeOK

\* The user asks for a read.
LEMMA RetryKeeps ==
    ASSUME IInv, Retry
    PROVE  IInv'
<1>1. pane' = [pane EXCEPT !.stale = TRUE]
  BY DEF Retry
<1>2. /\ pane' \in Pane /\ pane'.run = pane.run /\ pane'.status = pane.status
      /\ pane'.rev = pane.rev /\ pane'.error = pane.error
  BY <1>1 DEF IInv, TypeOK, Pane
<1>3. pane'.stale /\ (pane'.read <=> pane.read)
  BY <1>1 DEF IInv, TypeOK, Pane
<1>4. UNCHANGED <<server, pipe, tab, shown, fetch, faults, run>>
  BY DEF Retry, server
<1>5. PaneTrue' /\ FetchTrue' /\ RecoveredWhole'
  BY <1>2, <1>3, <1>4 DEF IInv, PaneTrue, FetchTrue, RecoveredWhole, Answerable
<1>6. QED
  BY <1>2, <1>4, <1>5, ReadKept DEF IInv, TypeOK

\* The newest run is read after reaping (get_conversation_active_run).
LEMMA ReadRunKeeps ==
    ASSUME IInv, ReadRun
    PROVE  IInv'
<1> DEFINE n == Newest
           st == IF n = 0 THEN "none" ELSE Reaped[n].status
           v == IF n # 0 /\ run[n].status = Waiting THEN run[n].rev ELSE 0
<1>1. RowsGrow /\ run' = Reaped
  BY ReapGrows DEF ReadRun
<1>2. n \in AnyRun /\ (n # 0 => n \in Run /\ run[n].status # "none")
  BY NewestIs
<1>3. fetch' = [fetch EXCEPT !.phase = "rest", !.run = n, !.status = st, !.rev = v]
  BY DEF ReadRun
<1> HIDE DEF n
<1>4. fetch \in Fetch /\ run \in [Run -> RunRow] /\ fetch.phase = "reading"
  BY DEF IInv, TypeOK, ReadRun
<1>5. st \in Statuses /\ v \in Revision
  BY <1>2, <1>4, ReapedRows, StreamAssumption DEF RunRow, Statuses, Revision
<1>6. /\ st # "none" => n \in Run
      /\ st = "completed" => Reaped[n].status = "completed"
      /\ st = Waiting => v > 0
  <2>1. st = Waiting => n \in Run /\ run[n].status = Waiting
    BY <1>2, ReapedRows DEF Waiting
  <2>2. QED
    BY <1>2, <2>1 DEF IInv, WaitsSuspended, Waiting
<1> HIDE DEF st, v
<1>7. /\ fetch' \in Fetch /\ fetch'.phase = "rest" /\ fetch'.run = n /\ fetch'.status = st
      /\ fetch'.rev = v /\ fetch'.proposal = fetch.proposal
  BY <1>2, <1>3, <1>4, <1>5 DEF Fetch
<1>8. fetch'.messages <=> fetch.messages
  BY <1>3, <1>4 DEF Fetch
<1>9. UNCHANGED <<worker, pipe, tab, pane, shown, faults>>
  BY DEF ReadRun
<1>10. FetchTrue'
  <2>1. ~fetch.messages /\ fetch.proposal = 0
    BY <1>4 DEF IInv, FetchTrue
  <2>2. QED
    BY <1>1, <1>6, <1>7, <1>8, <1>9, <2>1 DEF FetchTrue
<1>11. PaneTrue' /\ RecoveredWhole'
  <2>1. PaneTrue'
    BY <1>1, <1>7, <1>9 DEF IInv, PaneTrue, RowsGrow, Grows
  <2>2. pane.read /\ pane.status = "completed" =>
           pane.run \in Run /\ run[pane.run].status = "completed"
    BY DEF IInv, PaneTrue
  <2>3. RecoveredWhole'
    BY <1>1, <1>7, <1>9, <2>2 DEF IInv, RecoveredWhole, Answerable, RowsGrow, Grows
  <2>4. QED
    BY <2>1, <2>3
<1>12. QueueGoesOn' /\ CallsFresh' /\ AskKept'
  BY <1>9 DEF IInv, QueueGoesOn, CallsFresh, AskKept, pipe
<1>13. TabTrue'
  <2>1. tab.run # 0 => tab.run \in Run
    BY StreamAssumption DEF IInv, TypeOK, Tab, AnyRun, Run
  <2>2. QED
    BY <1>1, <1>9, <2>1 DEF IInv, TabTrue, True, RowsGrow, Grows
<1>14. OwesGrow
  <2>1. 1 \in Run
    BY StreamAssumption DEF Run
  <2>2. QED
    BY <1>1, <1>9, <2>1, WorkersSame
<1>15. Fits(sink') /\ QueueTrue(run', sink')
  BY <1>1, <1>9, SinkFits, TrueStays DEF RowsGrow, pipe
<1>16. QED
  BY <1>1, <1>7, <1>9, <1>10, <1>11, <1>12, <1>13, <1>14, <1>15, StepKept DEF IInv, TypeOK, pipe

\* The transcript is read after the status.
LEMMA ReadMessagesKeeps ==
    ASSUME IInv, ReadMessages
    PROVE  IInv'
<1>1. /\ shown' = [shown EXCEPT !.saved = [r \in Run |-> run[r].saved]]
      /\ fetch' = [fetch EXCEPT !.messages = TRUE] /\ fetch.phase = "rest"
      /\ UNCHANGED <<server, pipe, tab, pane, faults, run>>
  BY DEF ReadMessages, MayReadMessages, server
<1>2. [r \in Run |-> run[r].saved] \in [Run -> Nat]
  BY DEF IInv, TypeOK, RunRow
<1>3. /\ shown' \in Shown /\ shown'.proposal = shown.proposal
      /\ \A r \in Run : shown'.saved[r] = run[r].saved
  BY <1>1, <1>2 DEF IInv, TypeOK, Shown
<1>4. /\ fetch' \in Fetch /\ fetch'.phase = "rest" /\ fetch'.run = fetch.run
      /\ fetch'.status = fetch.status /\ fetch'.rev = fetch.rev /\ fetch'.proposal = fetch.proposal
  BY <1>1 DEF IInv, TypeOK, Fetch
<1>5. FetchTrue'
  BY <1>1, <1>3, <1>4 DEF IInv, FetchTrue, Waiting
<1>6. PaneTrue' /\ RecoveredWhole'
  BY <1>1, <1>3, <1>4 DEF IInv, PaneTrue, RecoveredWhole, Answerable
<1>7. QED
  BY <1>1, <1>3, <1>4, <1>5, <1>6, ReadKept DEF IInv, TypeOK

\* A read that breaks is told.
LEMMA BrokenKeeps ==
    ASSUME IInv, NEW kind \in {"retry", "final"}, Broken(kind), faults' \in 0 .. MaxFaults
    PROVE  IInv'
<1>1. fetch' = NoFetch /\ pane' = [pane EXCEPT !.error = kind]
      /\ UNCHANGED <<server, pipe, tab, shown, run>>
  BY DEF Broken, server
<1>2. /\ pane' \in Pane /\ pane'.run = pane.run /\ pane'.status = pane.status
      /\ pane'.rev = pane.rev /\ pane'.error = kind
  BY <1>1 DEF IInv, TypeOK, Pane
<1>3. pane'.read <=> pane.read
  BY <1>1 DEF IInv, TypeOK, Pane
<1>4. PaneTrue' /\ RecoveredWhole'
  BY <1>1, <1>2, <1>3 DEF IInv, PaneTrue, RecoveredWhole, Answerable
<1>5. FetchTrue'
  BY <1>1, NewPaneTyped DEF FetchTrue, Waiting
<1>6. QED
  BY <1>1, <1>2, <1>4, <1>5, NewPaneTyped, ReadKept DEF IInv, TypeOK

\* The requests are read while the run waits, or the read breaks.
LEMMA ReadApprovalKeeps ==
    ASSUME IInv, ReadApproval
    PROVE  IInv'
<1>1. fetch.phase = "rest" /\ fetch.status = Waiting /\ fetch.run \in Run
  BY DEF IInv, FetchTrue, ReadApproval, Waiting
<1>2. CASE run[fetch.run].status = Waiting
  <2> DEFINE v == run[fetch.run].rev
  <2>1. /\ fetch' = [fetch EXCEPT !.proposal = v] /\ shown' = [shown EXCEPT !.proposal = v]
        /\ UNCHANGED <<server, pipe, tab, pane, faults, run>>
    BY <1>2 DEF ReadApproval, server
  <2>2. v \in Revision
    BY <1>1 DEF IInv, TypeOK, RunRow
  <2> HIDE DEF v
  <2>3. shown' \in Shown /\ shown'.proposal = v /\ shown'.saved = shown.saved
    BY <2>1, <2>2 DEF IInv, TypeOK, Shown
  <2>4. /\ fetch' \in Fetch /\ fetch'.phase = "rest" /\ fetch'.run = fetch.run
        /\ fetch'.status = fetch.status /\ fetch'.rev = fetch.rev /\ fetch'.proposal = v
    BY <1>1, <2>1, <2>2 DEF IInv, TypeOK, Fetch
  <2>5. FetchTrue'
    BY <1>1, <2>1, <2>3, <2>4 DEF IInv, FetchTrue, Waiting
  <2>6. PaneTrue' /\ RecoveredWhole'
    BY <2>1, <2>3, <2>4 DEF IInv, PaneTrue, RecoveredWhole, Answerable
  <2>7. QED
    BY <2>1, <2>3, <2>4, <2>5, <2>6, ReadKept DEF IInv, TypeOK
<1>3. CASE run[fetch.run].status # Waiting
  BY <1>3, BrokenKeeps DEF ReadApproval, IInv, TypeOK
<1>4. QED
  BY <1>2, <1>3

\* A read is shown with its transcript and its requests
\* (conversationRecoveryQueryOptions).
LEMMA PublishKeeps ==
    ASSUME IInv, Publish
    PROVE  IInv'
<1>1. fetch \in Fetch /\ pane \in Pane /\ fetch.messages
  BY DEF IInv, TypeOK, Publish, Whole
<1>2. /\ pane' = [known |-> TRUE, run |-> fetch.run, status |-> fetch.status, rev |-> fetch.rev,
                  read |-> TRUE, error |-> "none", stale |-> pane.stale]
      /\ fetch' = NoFetch /\ UNCHANGED <<server, pipe, shown, faults, run>>
  BY DEF Publish, server
<1>3. pane' \in Pane
  BY <1>1, <1>2 DEF Fetch, Pane
<1>4. PaneTrue'
  BY <1>2 DEF IInv, PaneTrue, FetchTrue
<1>5. RecoveredWhole'
  <2>1. fetch.status = "completed" => shown.saved[fetch.run] = run[fetch.run].saved
    BY <1>1 DEF IInv, FetchTrue
  <2>2. fetch.status = Waiting => shown.proposal = fetch.rev
    <3> SUFFICES ASSUME fetch.status = Waiting PROVE shown.proposal = fetch.rev
      OBVIOUS
    <3>1. fetch.proposal = fetch.rev /\ fetch.rev > 0 /\ fetch.rev \in Nat
      BY <1>1 DEF IInv, FetchTrue, Publish, Whole, Fetch, Revision
    <3>2. fetch.proposal # 0
      BY <3>1
    <3>3. QED
      BY <3>1, <3>2 DEF IInv, FetchTrue
  <2>3. QED
    BY <1>2, <2>1, <2>2 DEF RecoveredWhole, Answerable
<1>6. FetchTrue'
  BY <1>2, NewPaneTyped DEF FetchTrue, Waiting
<1>7. tab' = tab \/ (tab' = NewTab /\ tab.phase = "idle")
  BY DEF Publish, Reconciled
<1>8. tab' \in Tab /\ QueueGoesOn' /\ CallsFresh' /\ AskKept' /\ TabTrue'
  <2>1. CASE tab' = tab
    BY <1>2, <2>1 DEF IInv, TypeOK, QueueGoesOn, CallsFresh, AskKept, TabTrue, pipe
  <2>2. CASE tab' = NewTab
    BY <2>2, NewTabTyped DEF QueueGoesOn, CallsFresh, AskKept, TabTrue
  <2>3. QED
    BY <1>7, <2>1, <2>2
<1>9. QED
  BY <1>2, <1>3, <1>4, <1>5, <1>6, <1>8, NewPaneTyped, SinkFits, TabKeeps DEF IInv, TypeOK, pipe

\* A read that met two revisions is told as one to retry.
LEMMA ChangedKeeps ==
    ASSUME IInv, Changed
    PROVE  IInv'
BY BrokenKeeps DEF Changed, IInv, TypeOK

\* So is one whose request failed.
LEMMA ReadFailsKeeps ==
    ASSUME IInv, ReadFails
    PROVE  IInv'
BY BrokenKeeps, FaultsTyped DEF ReadFails

----------------------------------------------------------------------------
(* The theorems                                                             *)

\* The first page of a conversation without runs.
LEMMA InitKeeps == Init => IInv
<1> SUFFICES ASSUME Init PROVE IInv
  OBVIOUS
<1>1. /\ run = [r \in Run |-> NoRun] /\ worker = [r \in Run |-> [pc |-> "none", owes |-> <<>>]]
      /\ sink = NoSink /\ reader = "over" /\ link = "none" /\ faults = 0
      /\ tab = NewTab /\ pane = NewPane /\ fetch = NoFetch
      /\ shown = [saved |-> [r \in Run |-> 0], proposal |-> 0]
  BY DEF Init
<1>2. NoRun \in RunRow /\ NoRun.status = "none"
  BY StreamAssumption DEF NoRun, RunRow, Statuses, Revision
<1>3. /\ <<>> \in Seq(StreamEvent) /\ Len(<<>>) = 0
      /\ [pc |-> "none", owes |-> <<>>] \in Worker
  BY DEF Worker
<1>4. Fits(NoSink) /\ QueueTrue(run, NoSink)
  BY NoSinkTyped, StreamAssumption DEF Fits, QueueTrue
<1>5. TypeOK
  BY <1>1, <1>2, <1>3, <1>4, NewTabTyped, NewPaneTyped, StreamAssumption DEF TypeOK, Fits
<1>6. RunsInOrder
  <2>1. 0 \in AnyRun /\ \A r \in Run : ~(r <= 0)
    BY StreamAssumption DEF AnyRun, Run
  <2>2. QED
    BY <1>1, <1>2, <2>1 DEF RunsInOrder
<1>7. WaitsSuspended
  BY <1>1, <1>2 DEF WaitsSuspended, Waiting
<1>8. EventsTrue
  BY <1>1, <1>3, <1>4 DEF EventsTrue, OwedTrue
<1>9. QED
  BY <1>1, <1>5, <1>6, <1>7, <1>8, NewPage DEF IInv

\* Nothing happens.
LEMMA StutterKeeps == IInv /\ UNCHANGED vars => IInv'
<1> SUFFICES ASSUME IInv, UNCHANGED vars PROVE IInv'
  OBVIOUS
<1>1. UNCHANGED <<server, pipe, client, faults>>
  BY DEF vars, server, pipe, client
<1>2. QED
  BY <1>1, ServerSame, StreamSame, ServerKeeps DEF IInv, TypeOK

\* Every step keeps the invariant.
LEMMA StepKeeps == IInv /\ Next => IInv'
<1> SUFFICES ASSUME IInv, Next PROVE IInv'
  OBVIOUS
<1>1. CASE \E r \in Run : WorkerStep(r)
  BY <1>1, StartKeeps, SpeakKeeps, SuspendKeeps, CompleteKeeps, FailKeeps, LoseRowKeeps,
     TellKeeps, TellOtherwiseKeeps, LeaveKeeps, CrashKeeps DEF WorkerStep
<1>2. CASE \E r \in Run : Elsewhere(r)
  BY <1>2, SettleElsewhereKeeps, ResumeElsewhereKeeps DEF Elsewhere
<1>3. CASE \/ TurnElsewhere \/ Send \/ Answer \/ AcceptTurn \/ AcceptResume \/ Refuse \/ Break
           \/ Disconnected
  BY <1>3, TurnElsewhereKeeps, SendKeeps, AnswerKeeps, AcceptTurnKeeps, AcceptResumeKeeps,
     RefuseKeeps, BreakKeeps, DisconnectedKeeps
<1>4. CASE Connect \/ Receive \/ Finish \/ StreamFails \/ Reload
  BY <1>4, ConnectKeeps, ReceiveKeeps, FinishKeeps, StreamFailsKeeps, ReloadKeeps
<1>5. CASE \/ Begin \/ Retry \/ ReadRun \/ ReadMessages \/ ReadApproval
           \/ Publish \/ Changed \/ ReadFails
  BY <1>5, BeginKeeps, RetryKeeps, ReadRunKeeps, ReadMessagesKeeps, ReadApprovalKeeps,
     PublishKeeps, ChangedKeeps, ReadFailsKeeps
<1>6. QED
  BY <1>1, <1>2, <1>3, <1>4, <1>5 DEF Next

\* Streams, the tab and its reads keep their types and say only what is
\* committed (sinks.py, use-agent-stream.ts, get-conversation-recovery.ts).
THEOREM StreamInvariant == Spec => []IInv
<1>1. IInv /\ [Next]_vars => IInv'
  BY StepKeeps, StutterKeeps
<1>2. QED
  BY <1>1, InitKeeps, PTL DEF Spec

\* What is shown is what is saved, and all of it, for any number of runs,
\* tabs and faults (finalize.py, conversationRecoveryQueryOptions).
THEOREM ShownAlwaysSaved == Spec => []ShownIsSaved
<1>1. IInv => ShownIsSaved
  <2> SUFFICES ASSUME IInv PROVE ToldIsSaved /\ RecoveredWhole
    BY DEF IInv, ShownIsSaved
  <2>1. tab.run # 0 => True(run, tab, tab.run)
    BY DEF IInv, TabTrue
  <2>2. pane.status = "completed" =>
           /\ \E r \in Run : run[r].status = "completed"
           /\ pane.read \/ AtRest => run[pane.run].status = "completed"
    BY DEF IInv, PaneTrue, AtRest
  <2>3. QED
    BY <2>1, <2>2 DEF IInv, ToldIsSaved, True
<1>2. QED
  BY <1>1, StreamInvariant, PTL

\* A tab receives an unbroken beginning of a stream, whatever the size of the
\* queue (StreamSink.emit, StreamSink.detach, drain_sse_sink).
THEOREM StreamsAlwaysGapFree == Spec => GapFree
<1> DEFINE Step == tab'.last \in {0, tab.last, tab.last + 1}
<1>1. IInv /\ [Next]_vars => [Step]_vars
  <2> SUFFICES ASSUME IInv, Next PROVE Step
    OBVIOUS
  <2>1. CASE Receive
    BY <2>1, Received
  <2>2. CASE tab' = tab
    BY <2>2
  <2>3. CASE \E t \in {NewTab, [tab EXCEPT !.phase = "open", !.connected = TRUE]} : tab' = t
    BY <2>3, NewTabTyped DEF IInv, TypeOK, Tab
  <2>4. CASE Send \/ Answer
    <3>1. PICK what, ask : Call(what, ask)
      BY <2>4 DEF Send, Answer
    <3>2. tab'.last = NewTab.last
      BY <3>1 DEF Call, NewTab
    <3>3. QED
      BY <3>2, NewTabTyped
  <2>5. CASE Finish \/ StreamFails
    <3>1. \/ tab' = NewTab
          \/ tab' = [tab EXCEPT !.phase = "idle", !.connected = FALSE, !.done = TRUE]
          \/ tab' = [tab EXCEPT !.phase = "idle", !.connected = FALSE, !.done = TRUE,
                                !.status = "failed"]
      BY <2>5 DEF Finish, StreamFails, Reconciled
    <3>2. tab'.last \in {NewTab.last, tab.last}
      BY <3>1 DEF IInv, TypeOK, Tab
    <3>3. QED
      BY <3>2, NewTabTyped
  <2>6. CASE Publish
    BY <2>2, <2>3, <2>6 DEF Publish, Reconciled
  <2>7. QED
    BY <2>1, <2>2, <2>3, <2>4, <2>5, <2>6
    DEF Next, WorkerStep, Elsewhere, Start, Speak, Suspend, Complete, Fail, LoseRow, Tell,
        TellOtherwise, Leave, Crash, SettleElsewhere, ResumeElsewhere, TurnElsewhere, AcceptTurn,
        AcceptResume, Stream, Refuse, Break, Disconnected, Connect, Reload, Begin, Retry, ReadRun,
        ReadMessages, ReadApproval, Broken, Changed, ReadFails, client
<1>2. QED
  BY <1>1, StreamInvariant, PTL DEF Spec, GapFree, Step

\* The decisions a run is resumed with are about the requests its user had
\* read (handleApprovalSubmit, resume_run_stream).
THEOREM AnswersAlwaysShown == Spec => AnswersShownRequests
<1> DEFINE Step == AcceptResume => run[tab.ask.run].rev = tab.ask.saw
<1>1. IInv /\ [Next]_vars => [Step]_vars
  BY DEF IInv, AskKept, AcceptResume, ResumeAllowed
<1>2. QED
  BY <1>1, StreamInvariant, PTL DEF Spec, AnswersShownRequests, Step
=============================================================================
