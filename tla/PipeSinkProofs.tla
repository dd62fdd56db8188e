--------------------------- MODULE PipeSinkProofs ---------------------------
(***************************************************************************)
(* Theorems about PipeSink: its types, the bound of the queue included,    *)
(* and that ffmpeg is never given a picture whose predecessor was dropped. *)
(***************************************************************************)
EXTENDS PipeSink, TLAPS

\* An item a decoder can take wherever it comes.
Whole(item) == item.gap => item.key
WholeAll(q) == \A i \in DOMAIN q : Whole(q[i])

\* A queue as a child's may be.
Queue(q) == q \in Seq(Item) /\ Len(q) <= Limit /\ WholeAll(q)

\* A sink the relay has not started has no child; one that is closing has been
\* detached.
NoChild ==
  /\ ~ started => sink.child = None
  /\ sink.closing => ~ attached

\* After a drop the sink waits for a keyframe, unless it was opened since.
Marked == sink.child # None /\ lost => sink.resync

\* What waits in the queues and what was handed on is whole.
Wholes ==
  /\ \A k \in Kid : WholeAll(queue[k])
  /\ \A k \in Kid : Whole(fed[k])

PInv == TypeOK /\ NoChild /\ Marked /\ Wholes
-----------------------------------------------------------------------------
LEMMA ItemTypes ==
  /\ Header \in Item /\ Whole(Header)
  /\ \A key, gap \in BOOLEAN :
       Cluster(key, gap) \in Item /\ ((gap => key) => Whole(Cluster(key, gap)))
BY DEF Header, Cluster, Item, Whole

\* _Queue.put keeps a queue one, whatever its answer.
LEMMA PutKeeps ==
  ASSUME NEW q, Queue(q), NEW item \in Item, Whole(item)
  PROVE  Put(q, item)[1] \in BOOLEAN /\ Queue(Put(q, item)[2])
<1>1. CASE Len(q) < Limit
  <2>1. Put(q, item) = <<TRUE, Append(q, item)>> BY <1>1 DEF Put
  <2>2. Append(q, item) \in Seq(Item) /\ Len(Append(q, item)) = Len(q) + 1
    BY DEF Queue
  <2>3. \A i \in DOMAIN Append(q, item) : Whole(Append(q, item)[i])
    <3>1. TAKE i \in DOMAIN Append(q, item)
    <3>2. CASE i = Len(q) + 1 BY <3>2 DEF Queue
    <3>3. CASE i # Len(q) + 1
      <4>1. i \in DOMAIN q /\ Append(q, item)[i] = q[i] BY <3>1, <3>3 DEF Queue
      <4> QED BY <4>1 DEF Queue, WholeAll
    <3> QED BY <3>2, <3>3
  <2>4. Len(q) + 1 <= Limit BY <1>1, PipeSinkAssumption DEF Queue
  <2> QED BY <2>1, <2>2, <2>3, <2>4 DEF Queue, WholeAll
<1>2. CASE ~ (Len(q) < Limit)
  <2>1. Put(q, item) = <<FALSE, q>> BY <1>2 DEF Put
  <2> QED BY <2>1
<1> QED BY <1>1, <1>2

LEMMA EmptyQueue == Queue(<<>>)
BY PipeSinkAssumption DEF Queue, WholeAll

\* write leaves the sink as it is but for the note that it waits for a keyframe,
\* which it has after it dropped something.
LEMMA WriteKeeps ==
  ASSUME NEW s \in SinkState, NEW q, Queue(q), NEW key \in BOOLEAN,
         lost \in BOOLEAN, lost /\ ~ key => s.resync
  PROVE  /\ Write(s, q, key)[1] \in SinkState
         /\ Write(s, q, key)[1].child = s.child
         /\ Write(s, q, key)[1].closing = s.closing
         /\ Queue(Write(s, q, key)[2])
         /\ Write(s, q, key)[3] \in BOOLEAN
         /\ Write(s, q, key)[3] => Write(s, q, key)[1].resync
<1> DEFINE put == Put(q, Cluster(key, lost))
<1> DEFINE joined == [s EXCEPT !.resync = FALSE]
<1> DEFINE missed == [s EXCEPT !.resync = TRUE]
<1>0. /\ joined \in SinkState /\ joined.child = s.child /\ joined.closing = s.closing
      /\ missed \in SinkState /\ missed.child = s.child /\ missed.closing = s.closing
      /\ missed.resync
  BY DEF SinkState
<1>1. CASE s.resync /\ ~ key
  <2>1. Write(s, q, key) = <<s, q, TRUE>> BY <1>1 DEF Write
  <2> QED BY <1>1, <2>1
<1>2. CASE ~ (s.resync /\ ~ key)
  <2>1. lost => key BY <1>2
  <2>2. put[1] \in BOOLEAN /\ Queue(put[2])
    BY <2>1, ItemTypes, PutKeeps
  <2>3. CASE put[1]
    <3>1. Write(s, q, key) = <<joined, put[2], FALSE>> BY <1>2, <2>3 DEF Write
    <3> HIDE DEF joined, put
    <3> QED BY <3>1, <1>0, <2>2
  <2>4. CASE ~ put[1]
    <3>1. Write(s, q, key) = <<missed, <<>>, TRUE>> BY <1>2, <2>4 DEF Write
    <3> HIDE DEF missed
    <3> QED BY <3>1, <1>0, EmptyQueue
  <2> QED BY <2>2, <2>3, <2>4
<1> QED BY <1>1, <1>2

\* _fail and _exited leave a sink one, and touch neither `closing` nor `resync`.
LEMMA FailTypes ==
  ASSUME NEW s \in SinkState
  PROVE  /\ Fail(s) \in SinkState /\ Fail(s).child = s.child
         /\ Fail(s).closing = s.closing /\ Fail(s).resync = s.resync
<1> DEFINE n == AtMost(s.failures + 1, Len(Backoff))
<1> DEFINE wait == Backoff[n]
<1>1. Len(Backoff) \in Nat \ {0} /\ Backoff \in [1 .. Len(Backoff) -> Nat]
  BY PipeSinkAssumption
<1>2. n \in 1 .. Len(Backoff) BY <1>1 DEF SinkState, AtMost
<1>3. n \in 0 .. Len(Backoff) /\ wait \in Nat BY <1>1, <1>2
<1>4. Fail(s) = [s EXCEPT !.wait = wait, !.failures = n, !.state = "backoff"]
  BY DEF Fail
<1> HIDE DEF n, wait
<1> QED BY <1>3, <1>4 DEF SinkState

LEMMA LostChildTypes ==
  ASSUME NEW s \in SinkState
  PROVE  /\ LostChild(s) \in SinkState /\ LostChild(s).child = None
         /\ LostChild(s).closing = s.closing
<1> DEFINE t == [s EXCEPT !.child = None]
<1> DEFINE u == IF s.uptime >= Stable THEN [t EXCEPT !.failures = 0] ELSE t
<1>1. t \in SinkState /\ t.child = None /\ t.closing = s.closing
  BY DEF SinkState
<1>2. LET v == [t EXCEPT !.failures = 0] IN
      v \in SinkState /\ v.child = t.child /\ v.closing = t.closing
  <2>1. 0 \in 0 .. Len(Backoff) BY PipeSinkAssumption
  <2> HIDE DEF t
  <2> QED BY <1>1, <2>1 DEF SinkState
<1>3. u \in SinkState /\ u.child = None /\ u.closing = s.closing
  <2> HIDE DEF t
  <2> QED BY <1>1, <1>2
<1>4. LostChild(s) = Fail(u) BY DEF LostChild
<1> HIDE DEF u
<1> QED BY <1>3, <1>4, FailTypes
-----------------------------------------------------------------------------
LEMMA InitPInv == Init => PInv
<1> SUFFICES ASSUME Init PROVE PInv OBVIOUS
<1> USE PipeSinkAssumption
<1>1. TypeOK
  <2>1. sink \in SinkState BY DEF Init, SinkState
  <2>2. queue \in [Kid -> Seq(Item)] /\ \A k \in Kid : Len(queue[k]) <= Limit
    BY EmptyQueue DEF Init, Queue
  <2>3. fed \in [Kid -> Item] BY ItemTypes DEF Init
  <2> QED BY <2>1, <2>2, <2>3 DEF Init, TypeOK
<1>2. NoChild /\ Marked BY DEF Init, NoChild, Marked
<1>3. Wholes BY ItemTypes DEF Init, Wholes, WholeAll
<1> QED BY <1>1, <1>2, <1>3 DEF PInv

\* The queues as they are in a state that satisfies the invariant.
LEMMA QueuesKept == PInv => \A k \in Kid : Queue(queue[k])
BY DEF PInv, TypeOK, Wholes, Queue

\* A step that gives one child another queue, or none, leaves the queues typed
\* and whole.
LEMMA QueueChanged ==
  ASSUME PInv, NEW k \in Kid, NEW q, Queue(q), queue' = [queue EXCEPT ![k] = q]
  PROVE  /\ queue' \in [Kid -> Seq(Item)]
         /\ \A j \in Kid : Len(queue'[j]) <= Limit /\ WholeAll(queue'[j])
BY QueuesKept DEF PInv, TypeOK, Queue

LEMMA TeardownKeeps ==
  ASSUME PInv, Teardown
  PROVE  /\ queue' \in [Kid -> Seq(Item)]
         /\ \A j \in Kid : Len(queue'[j]) <= Limit /\ WholeAll(queue'[j])
         /\ alive' \subseteq Kid /\ stopping' \subseteq Kid /\ waiters' \subseteq Kid
<1>1. \A j \in Kid : Queue(queue'[j])
  BY QueuesKept, EmptyQueue DEF Teardown
<1>2. queue' \in [Kid -> Seq(Item)] BY <1>1 DEF Teardown, Queue
<1>3. /\ alive' \subseteq Kid /\ waiters' \subseteq Kid
      /\ stopping' \subseteq Kid
  BY DEF PInv, TypeOK, SinkState, Teardown
<1> QED BY <1>1, <1>2, <1>3 DEF Queue

LEMMA DeliverNoChildKeeps == ASSUME PInv, DeliverNoChild PROVE PInv'
<1>1. sink.child = None BY DEF PInv, NoChild, DeliverNoChild
<1> DEFINE s == [sink EXCEPT !.resync = FALSE]
<1>2. s \in SinkState /\ s.child = sink.child /\ s.closing = sink.closing
  BY DEF PInv, TypeOK, SinkState
<1>3. sink' \in SinkState /\ sink'.child = None /\ sink'.closing = sink.closing
  <2>1. sink' = Fail(s) BY DEF DeliverNoChild
  <2> HIDE DEF s
  <2> QED BY <2>1, <1>1, <1>2, FailTypes
<1>4. TypeOK' BY <1>3 DEF PInv, TypeOK, DeliverNoChild
<1>5. NoChild' /\ Marked' BY <1>3 DEF PInv, NoChild, Marked, DeliverNoChild
<1>6. Wholes' BY DEF PInv, Wholes, DeliverNoChild
<1> QED BY <1>4, <1>5, <1>6 DEF PInv

LEMMA DeliverOpenKeeps == ASSUME PInv, NEW k \in Kid, DeliverOpen(k) PROVE PInv'
<1> DEFINE s == Opened(sink, k)
<1> DEFINE q == Put(<<>>, Header)[2]
<1> DEFINE w == Write(s, q, TRUE)
<1>1. s \in SinkState /\ s.child = k /\ s.closing = sink.closing
  <2> DEFINE uptime == -1
  <2>1. uptime \in -1 .. Stable BY PipeSinkAssumption
  <2>2. sink \in SinkState BY DEF PInv, TypeOK
  <2>3. s = [sink EXCEPT !.child = k, !.state = "connecting", !.resync = FALSE, !.uptime = uptime]
    BY DEF Opened
  <2> HIDE DEF uptime, s
  <2> QED BY <2>1, <2>2, <2>3 DEF SinkState
<1>2. Queue(q) BY EmptyQueue, PutKeeps, ItemTypes
<1>3. /\ w[1] \in SinkState /\ w[1].child = k /\ w[1].closing = sink.closing
      /\ Queue(w[2]) /\ w[3] \in BOOLEAN /\ (w[3] => w[1].resync)
  <2>1. lost \in BOOLEAN BY DEF PInv, TypeOK
  <2> HIDE DEF s, q
  <2> QED BY <2>1, <1>1, <1>2, WriteKeeps
<1>4. /\ sink' = w[1] /\ queue' = [queue EXCEPT ![k] = w[2]] /\ lost' = w[3]
      /\ fed' = [fed EXCEPT ![k] = Header] /\ started' = TRUE
      /\ alive' = alive \cup {k} /\ stopping' = stopping \ {k}
      /\ UNCHANGED <<waiters, attached, net>>
      /\ attached /\ ~ sink.closing
  BY DEF DeliverOpen
<1> HIDE DEF w
<1>5. /\ queue' \in [Kid -> Seq(Item)]
      /\ \A j \in Kid : Len(queue'[j]) <= Limit /\ WholeAll(queue'[j])
  BY <1>3, <1>4, QueueChanged
<1>6. fed' \in [Kid -> Item] /\ \A j \in Kid : Whole(fed'[j])
  BY <1>4, ItemTypes DEF PInv, TypeOK, Wholes
<1>7. TypeOK' BY <1>3, <1>4, <1>5, <1>6 DEF PInv, TypeOK
<1>8. NoChild' BY <1>3, <1>4 DEF NoChild
<1>9. Marked' BY <1>3, <1>4 DEF Marked
<1>10. Wholes' BY <1>5, <1>6 DEF Wholes
<1> QED BY <1>7, <1>8, <1>9, <1>10 DEF PInv

LEMMA DeliverWriteKeeps == ASSUME PInv, NEW key \in BOOLEAN, DeliverWrite(key) PROVE PInv'
<1> DEFINE k == sink.child
<1> DEFINE w == Write(sink, queue[k], key)
<1>1. k \in Kid BY DEF PInv, TypeOK, SinkState, DeliverWrite
<1>2. /\ w[1] \in SinkState /\ w[1].child = k /\ w[1].closing = sink.closing
      /\ Queue(w[2]) /\ w[3] \in BOOLEAN /\ (w[3] => w[1].resync)
  <2>1. sink \in SinkState /\ lost \in BOOLEAN BY DEF PInv, TypeOK
  <2>2. Queue(queue[k]) BY <1>1, QueuesKept
  <2>3. lost /\ ~ key => sink.resync BY DEF PInv, Marked, DeliverWrite
  <2> QED BY <2>1, <2>2, <2>3, WriteKeeps
<1>3. /\ sink' = w[1] /\ queue' = [queue EXCEPT ![k] = w[2]] /\ lost' = w[3]
      /\ UNCHANGED <<fed, alive, stopping, waiters, attached, started, net>>
      /\ attached /\ started /\ ~ sink.closing
  BY DEF DeliverWrite
<1> HIDE DEF w
<1>4. /\ queue' \in [Kid -> Seq(Item)]
      /\ \A j \in Kid : Len(queue'[j]) <= Limit /\ WholeAll(queue'[j])
  BY <1>1, <1>2, <1>3, QueueChanged
<1>5. TypeOK' BY <1>2, <1>3, <1>4 DEF PInv, TypeOK
<1>6. NoChild' BY <1>2, <1>3 DEF NoChild
<1>7. Marked' BY <1>2, <1>3 DEF Marked
<1>8. Wholes' BY <1>3, <1>4 DEF PInv, Wholes
<1> QED BY <1>5, <1>6, <1>7, <1>8 DEF PInv

LEMMA GeometryKeeps == ASSUME PInv, Geometry PROVE PInv'
<1>1. sink' \in SinkState /\ sink'.child = None /\ ~ sink'.closing
  BY DEF PInv, TypeOK, SinkState, Geometry
<1>2. Teardown BY DEF Geometry
<1>3. TypeOK' BY <1>1, <1>2, TeardownKeeps DEF PInv, TypeOK, Geometry
<1>4. NoChild' /\ Marked' BY <1>1 DEF NoChild, Marked
<1>5. Wholes' BY <1>2, TeardownKeeps DEF PInv, Wholes, Geometry
<1> QED BY <1>3, <1>4, <1>5 DEF PInv

LEMMA DeactivateKeeps == ASSUME PInv, Deactivate PROVE PInv'
<1>1. sink' \in SinkState /\ sink'.child = None
  BY DEF PInv, TypeOK, SinkState, Deactivate
<1>2. Teardown /\ attached' = FALSE BY DEF Deactivate
<1>3. TypeOK' BY <1>1, <1>2, TeardownKeeps DEF PInv, TypeOK, Deactivate
<1>4. NoChild' /\ Marked' BY <1>1, <1>2 DEF NoChild, Marked
<1>5. Wholes' BY <1>2, TeardownKeeps DEF PInv, Wholes, Deactivate
<1> QED BY <1>3, <1>4, <1>5 DEF PInv

LEMMA FeedKeeps == ASSUME PInv, NEW k \in Kid, Feed(k) PROVE PInv'
<1>1. Queue(queue[k]) /\ queue[k] # <<>> BY QueuesKept DEF Feed
<1>2. Head(queue[k]) \in Item /\ Whole(Head(queue[k]))
  BY <1>1 DEF Queue, WholeAll
<1>3. Queue(Tail(queue[k]))
  <2>1. Tail(queue[k]) \in Seq(Item) /\ Len(Tail(queue[k])) = Len(queue[k]) - 1
    BY <1>1 DEF Queue
  <2>2. \A i \in DOMAIN Tail(queue[k]) :
          i + 1 \in DOMAIN queue[k] /\ Tail(queue[k])[i] = queue[k][i + 1]
    BY <1>1, <2>1 DEF Queue
  <2>3. WholeAll(Tail(queue[k])) BY <1>1, <2>2 DEF Queue, WholeAll
  <2>4. Len(queue[k]) \in Nat BY <1>1 DEF Queue
  <2> QED BY <1>1, <2>1, <2>3, <2>4, PipeSinkAssumption DEF Queue
<1>4. fed' \in [Kid -> Item] /\ \A j \in Kid : Whole(fed'[j])
  BY <1>2 DEF PInv, TypeOK, Wholes, Feed
<1>5. /\ queue' \in [Kid -> Seq(Item)]
      /\ \A j \in Kid : Len(queue'[j]) <= Limit /\ WholeAll(queue'[j])
  BY <1>3, QueueChanged DEF Feed
<1>6. TypeOK' BY <1>4, <1>5 DEF PInv, TypeOK, Feed
<1>7. NoChild' /\ Marked' BY DEF PInv, NoChild, Marked, Feed
<1>8. Wholes' BY <1>4, <1>5 DEF Wholes
<1> QED BY <1>6, <1>7, <1>8 DEF PInv

LEMMA ExitedKeeps == ASSUME PInv, NEW k \in Kid, Exited(k) PROVE PInv'
<1>1. /\ sink' \in SinkState /\ sink'.closing = sink.closing
      /\ sink' = sink \/ sink'.child = None
  BY LostChildTypes DEF PInv, TypeOK, Exited
<1>2. /\ queue' \in [Kid -> Seq(Item)]
      /\ \A j \in Kid : Len(queue'[j]) <= Limit /\ WholeAll(queue'[j])
  BY EmptyQueue, QueueChanged DEF Exited
<1>3. fed' \in [Kid -> Item] /\ \A j \in Kid : Whole(fed'[j])
  BY ItemTypes DEF PInv, TypeOK, Wholes, Exited
<1>4. TypeOK' BY <1>1, <1>2, <1>3 DEF PInv, TypeOK, Exited
<1>5. NoChild' BY <1>1 DEF PInv, NoChild, Exited
<1>6. Marked' BY <1>1 DEF PInv, Marked, Exited
<1>7. Wholes' BY <1>2, <1>3 DEF Wholes
<1> QED BY <1>4, <1>5, <1>6, <1>7 DEF PInv

\* A step that touches neither the child of the sink nor what is delivered.
LEMMA OtherKeeps ==
  ASSUME PInv, UNCHANGED <<queue, lost, fed, attached, stopping>>,
         sink' \in SinkState, sink'.child = sink.child, sink'.closing = sink.closing,
         sink'.resync = sink.resync, alive' \subseteq Kid, waiters' \subseteq Kid,
         net' \in {"good", "bad"}, started' = started \/ (started' = FALSE /\ sink.child = None)
  PROVE  PInv'
<1>1. TypeOK' BY DEF PInv, TypeOK
<1>2. NoChild' /\ Marked' BY DEF PInv, NoChild, Marked
<1>3. Wholes' BY DEF PInv, Wholes
<1> QED BY <1>1, <1>2, <1>3 DEF PInv

LEMMA LineKeeps == ASSUME PInv, NEW k \in Kid, Line(k) PROVE PInv'
<1>1. /\ sink' \in SinkState /\ sink'.child = sink.child
      /\ sink'.closing = sink.closing /\ sink'.resync = sink.resync
  <2> DEFINE uptime == 0
  <2>1. uptime \in -1 .. Stable BY PipeSinkAssumption
  <2>2. sink \in SinkState BY DEF PInv, TypeOK
  <2>3. sink' = [sink EXCEPT !.state = "live", !.uptime = uptime] BY DEF Line
  <2> HIDE DEF uptime
  <2> QED BY <2>1, <2>2, <2>3 DEF SinkState
<1> QED BY <1>1, OtherKeeps DEF PInv, TypeOK, Line

LEMMA SecondKeeps == ASSUME PInv, Second PROVE PInv'
<1> DEFINE wait == IF sink.wait = 0 THEN 0 ELSE sink.wait - 1
<1> DEFINE uptime == IF sink.uptime = -1 THEN -1 ELSE AtMost(sink.uptime + 1, Stable)
<1>1. wait \in Nat /\ uptime \in -1 .. Stable
  BY PipeSinkAssumption DEF PInv, TypeOK, SinkState, AtMost
<1>2. sink' = [sink EXCEPT !.wait = wait, !.uptime = uptime] BY DEF Second
<1>3. /\ sink' \in SinkState /\ sink'.child = sink.child
      /\ sink'.closing = sink.closing /\ sink'.resync = sink.resync
  <2> HIDE DEF wait, uptime
  <2> QED BY <1>1, <1>2 DEF PInv, TypeOK, SinkState
<1> QED BY <1>3, OtherKeeps DEF PInv, TypeOK, Second

LEMMA StepPInv == PInv /\ [Next]_vars => PInv'
<1> SUFFICES ASSUME PInv, [Next]_vars PROVE PInv' OBVIOUS
<1>1. ASSUME NEW key \in BOOLEAN, DeliverWrite(key) PROVE PInv'
  BY <1>1, DeliverWriteKeeps
<1>2. CASE DeliverNoChild BY <1>2, DeliverNoChildKeeps
<1>3. ASSUME NEW k \in Kid, DeliverOpen(k) PROVE PInv'
  BY <1>3, DeliverOpenKeeps
<1>4. CASE DeliverGone
  BY <1>4, OtherKeeps DEF PInv, TypeOK, NoChild, DeliverGone
<1>5. CASE Geometry BY <1>5, GeometryKeeps
<1>6. CASE Deactivate BY <1>6, DeactivateKeeps
<1>7. ASSUME NEW k \in Kid, Feed(k) PROVE PInv' BY <1>7, FeedKeeps
<1>8. ASSUME NEW k \in Kid, Line(k) PROVE PInv' BY <1>8, LineKeeps
<1>9. ASSUME NEW k \in Kid, Crash(k) PROVE PInv'
  BY <1>9, OtherKeeps DEF PInv, TypeOK, Crash
<1>10. ASSUME NEW k \in Kid, Exited(k) PROVE PInv' BY <1>10, ExitedKeeps
<1>11. CASE Second BY <1>11, SecondKeeps
<1>12. CASE Weather
  BY <1>12, OtherKeeps DEF PInv, TypeOK, Weather
<1>13. CASE UNCHANGED vars
  BY <1>13, OtherKeeps DEF PInv, TypeOK, vars
<1> QED BY <1>1, <1>2, <1>3, <1>4, <1>5, <1>6, <1>7, <1>8, <1>9, <1>10, <1>11, <1>12, <1>13
    DEF Next

\* The sink is always in one of its states, and its queue never holds more than
\* its limit (_Queue.put).
THEOREM SinkTypeCorrect == Spec => []TypeOK
<1>1. PInv => TypeOK BY DEF PInv
<1> QED BY InitPInv, StepPInv, <1>1, PTL DEF Spec

\* The writer never hands ffmpeg a picture that builds on one that was dropped:
\* after a drop the sink waits for a keyframe (write, `_resync`), and a child
\* starts with nothing that is older than its header.
THEOREM OnlyWholePictures == Spec => []Decodable
<1>1. PInv => Decodable BY DEF PInv, Wholes, Whole, Decodable
<1> QED BY InitPInv, StepPInv, <1>1, PTL DEF Spec
=============================================================================
