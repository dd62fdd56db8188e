------------------------------ MODULE PipeSink ------------------------------
(***************************************************************************)
(* class PipeSink of stream/sinks.py, an ffmpeg child fed through its      *)
(* stdin and reconnected with backoff, with the bounded _Queue before it,  *)
(* the Child of stream/proc.py behind it, and the relay that drives it     *)
(* (Chain._deliver, adopt_geometry, detach).                               *)
(*                                                                         *)
(* Four threads meet in the sink's lock: the relay, the writer that feeds  *)
(* the child, the child's reader (progress lines) and the child's waiter,  *)
(* which calls _exited.  Child.stop joins reader and waiter for a second   *)
(* only, and they may be waiting for the lock its caller holds, so both    *)
(* can come through after stop has returned.                               *)
(*                                                                         *)
(* Times are what is left of a delay, or an age that saturates; slots of   *)
(* children are reused, so nothing bounds the length of a behaviour.       *)
(***************************************************************************)
EXTENDS Integers, Sequences

CONSTANTS
  Kid,        \* slots for child processes
  None,       \* no child
  Limit,      \* clusters the queue holds, the header included
  Backoff,    \* BACKOFF, a sequence
  Stable      \* STABLE_SECONDS

ASSUME PipeSinkAssumption ==
  /\ None \notin Kid
  /\ Limit \in Nat \ {0}
  /\ Backoff \in Seq(Nat) /\ Len(Backoff) > 0
  /\ Stable \in Nat \ {0}

VARIABLES
  sink,       \* the attributes of the PipeSink
  queue,      \* queue[k]: the _Queue made for child k
  lost,       \* history: a cluster was dropped since the last one queued
  fed,        \* history: fed[k]: what the writer handed child k last
  alive,      \* children that run
  stopping,   \* children told to stop
  waiters,    \* children whose waiter thread has yet to call _exited
  attached,   \* the relay still has the sink
  started,    \* Attached.started
  net         \* "good": what is sent arrives and no child fails

vars == <<sink, queue, lost, fed, alive, stopping, waiters, attached, started, net>>

\* A queued item: the header, or a cluster that may follow a gap.
Header == [key |-> TRUE, gap |-> FALSE, header |-> TRUE]
Cluster(key, gap) == [key |-> key, gap |-> gap, header |-> FALSE]
Item == [key : BOOLEAN, gap : BOOLEAN, header : BOOLEAN]

Init ==
  /\ sink = [child |-> None, state |-> "idle", resync |-> FALSE, closing |-> FALSE,
             failures |-> 0, wait |-> 0, uptime |-> -1]
  /\ queue = [k \in Kid |-> <<>>] /\ lost = FALSE /\ fed = [k \in Kid |-> Header]
  /\ alive = {} /\ stopping = {} /\ waiters = {}
  /\ attached = TRUE /\ started = FALSE /\ net = "good"

AtMost(a, b) == IF a <= b THEN a ELSE b
-----------------------------------------------------------------------------
(* What the methods make of the sink.                                      *)

\* _fail.
Fail(s) ==
  [s EXCEPT !.wait = Backoff[AtMost(s.failures + 1, Len(Backoff))],
            !.failures = AtMost(s.failures + 1, Len(Backoff)), !.state = "backoff"]

\* Mutant: the child that is gone is not forgotten.
LostChildKept(s) == Fail(IF s.uptime >= Stable THEN [s EXCEPT !.failures = 0] ELSE s)

\* _exited, when it does not return early.
LostChild(s) ==
  LET t == [s EXCEPT !.child = None] IN
  Fail(IF s.uptime >= Stable THEN [t EXCEPT !.failures = 0] ELSE t)

\* Mutant: a full queue is not noticed.
PutUnbounded(q, item) == <<TRUE, Append(q, item)>>

\* _Queue.put: whether there was room, and the queue after it.
Put(q, item) == IF Len(q) < Limit THEN <<TRUE, Append(q, item)>> ELSE <<FALSE, q>>

\* Mutant: after a drop the sink rejoins at once.
WriteEager(s, q, key) ==
  LET put == Put(q, Cluster(key, lost)) IN
  IF put[1] THEN <<s, put[2], FALSE>> ELSE <<s, <<>>, TRUE>>

\* write to a sink that has a child: the sink, the child's queue and whether
\* a cluster was dropped.
Write(s, q, key) ==
  LET put == Put(q, Cluster(key, lost)) IN
  CASE s.resync /\ ~ key -> <<s, q, TRUE>>
    [] ~ (s.resync /\ ~ key) /\ put[1] -> <<[s EXCEPT !.resync = FALSE], put[2], FALSE>>
    [] ~ (s.resync /\ ~ key) /\ ~ put[1] -> <<[s EXCEPT !.resync = TRUE], <<>>, TRUE>>

Opened(s, k) ==
  [s EXCEPT !.child = k, !.state = "connecting", !.resync = FALSE, !.uptime = -1]

\* _teardown_locked: queue.close and child.stop, which returns when the process
\* is gone; its threads may not be.
Teardown ==
  /\ alive' = alive \ {sink.child}
  /\ stopping' = stopping \cup ({sink.child} \ {None})
  /\ waiters' = waiters \cup ({sink.child} \cap alive)
  /\ queue' = [k \in Kid |-> IF k = sink.child THEN <<>> ELSE queue[k]]
-----------------------------------------------------------------------------
(* The relay: _deliver with one cluster.                                   *)

\* A sink that is not started is opened at a keyframe, once its backoff is
\* over; ffmpeg may not start.
DeliverNoChild ==
  /\ attached /\ ~ started /\ ~ sink.closing /\ sink.wait = 0 /\ net = "bad"
  /\ sink' = Fail([sink EXCEPT !.resync = FALSE])
  /\ UNCHANGED <<queue, lost, fed, alive, stopping, waiters, attached, started, net>>

DeliverOpen(k) ==
  LET s == Opened(sink, k)
      q == Put(<<>>, Header)[2]
      w == Write(s, q, TRUE)
  IN
  /\ attached /\ ~ started /\ ~ sink.closing /\ sink.wait = 0
  /\ k \notin alive \cup waiters
  /\ sink' = w[1] /\ queue' = [queue EXCEPT ![k] = w[2]] /\ lost' = w[3]
  /\ fed' = [fed EXCEPT ![k] = Header]
  /\ alive' = alive \cup {k} /\ stopping' = stopping \ {k}
  /\ started' = TRUE
  /\ UNCHANGED <<waiters, attached, net>>

DeliverWrite(key) ==
  LET w == Write(sink, queue[sink.child], key) IN
  /\ attached /\ started /\ sink.child # None /\ ~ sink.closing
  /\ sink' = w[1] /\ queue' = [queue EXCEPT ![sink.child] = w[2]]
  /\ lost' = w[3]
  /\ UNCHANGED <<fed, alive, stopping, waiters, attached, started, net>>

\* write returns False: opened again at the next keyframe.
DeliverGone ==
  /\ attached /\ started /\ (sink.child = None \/ sink.closing)
  /\ started' = FALSE
  /\ UNCHANGED <<sink, queue, lost, fed, alive, stopping, waiters, attached, net>>

\* adopt_geometry: the sink is closed, to be opened with the new header.
Geometry ==
  /\ attached
  /\ Teardown
  /\ sink' = [sink EXCEPT !.child = None, !.closing = FALSE,
                !.state = IF sink.state = "backoff" THEN "backoff" ELSE "idle"]
  /\ started' = FALSE
  /\ UNCHANGED <<lost, fed, attached, net>>

\* _deactivate: detach (which closes it) and shutdown.
Deactivate ==
  /\ attached
  /\ Teardown
  /\ sink' = [sink EXCEPT !.child = None, !.closing = TRUE, !.state = "stopped"]
  /\ attached' = FALSE
  /\ UNCHANGED <<lost, fed, started, net>>
-----------------------------------------------------------------------------
(* The child's threads.                                                    *)

\* _write_loop: the writer of a closed queue still empties it.
Feed(k) ==
  /\ k \in alive /\ queue[k] # <<>>
  /\ fed' = [fed EXCEPT ![k] = Head(queue[k])]
  /\ queue' = [queue EXCEPT ![k] = Tail(queue[k])]
  /\ UNCHANGED <<sink, lost, alive, stopping, waiters, attached, started, net>>

\* _line: a progress report, of whichever child.
Line(k) ==
  /\ k \in alive \cup waiters /\ net = "good" /\ sink.state = "connecting"
  /\ sink' = [sink EXCEPT !.state = "live", !.uptime = 0]
  /\ UNCHANGED <<queue, lost, fed, alive, stopping, waiters, attached, started, net>>

\* The connection fails and ffmpeg exits.
Crash(k) ==
  /\ k \in alive /\ net = "bad"
  /\ alive' = alive \ {k} /\ waiters' = waiters \cup {k}
  /\ UNCHANGED <<sink, queue, lost, fed, stopping, attached, started, net>>

\* _exited: looks at the child the sink has now.  The slot is free again.
Exited(k) ==
  /\ k \in waiters
  /\ waiters' = waiters \ {k}
  /\ sink' = IF sink.child = None \/ sink.child \in stopping THEN sink ELSE LostChild(sink)
  /\ queue' = [queue EXCEPT ![k] = <<>>]
  /\ fed' = [fed EXCEPT ![k] = Header]
  /\ stopping' = stopping \ {k}
  /\ UNCHANGED <<lost, alive, attached, started, net>>

Second ==
  /\ sink' = [sink EXCEPT !.wait = IF @ = 0 THEN 0 ELSE @ - 1,
                          !.uptime = IF @ = -1 THEN -1 ELSE AtMost(@ + 1, Stable)]
  /\ UNCHANGED <<queue, lost, fed, alive, stopping, waiters, attached, started, net>>

Weather ==
  /\ net' \in {"good", "bad"}
  /\ UNCHANGED <<sink, queue, lost, fed, alive, stopping, waiters, attached, started>>

Next ==
  \/ \E key \in BOOLEAN : DeliverWrite(key)
  \/ DeliverNoChild
  \/ \E k \in Kid : DeliverOpen(k)
  \/ DeliverGone
  \/ Geometry
  \/ Deactivate
  \/ \E k \in Kid : Feed(k) \/ Line(k) \/ Crash(k) \/ Exited(k)
  \/ Second
  \/ Weather

Spec == Init /\ [][Next]_vars

\* Time passes, keyframes keep coming, and every thread gets its turn.
FairSpec ==
  /\ Spec
  /\ WF_vars(Second)
  /\ SF_vars(\E k \in Kid : DeliverOpen(k)) /\ WF_vars(DeliverGone)
  /\ \A k \in Kid : WF_vars(Exited(k)) /\ WF_vars(Feed(k))
-----------------------------------------------------------------------------
SinkState ==
  [child : Kid \cup {None}, state : {"idle", "connecting", "live", "backoff", "stopped"},
   resync : BOOLEAN, closing : BOOLEAN, failures : 0 .. Len(Backoff),
   wait : Nat, uptime : -1 .. Stable]

TypeOK ==
  /\ sink \in SinkState
  /\ queue \in [Kid -> Seq(Item)] /\ \A k \in Kid : Len(queue[k]) <= Limit
  /\ fed \in [Kid -> Item] /\ lost \in BOOLEAN
  /\ alive \subseteq Kid /\ stopping \subseteq Kid /\ waiters \subseteq Kid
  /\ attached \in BOOLEAN /\ started \in BOOLEAN /\ net \in {"good", "bad"}

(* "when it is full the queue is dropped and the sink waits for the next    *)
(* keyframe": a picture that builds on one before it is only ever handed to *)
(* ffmpeg right after that one, whatever was dropped in between.            *)
Decodable == \A k \in Kid : fed[k].gap => fed[k].key

(* Every ffmpeg that runs for this destination is the one the sink feeds    *)
(* and will stop: "every destination reconnects once" after a change of     *)
(* picture, and nothing keeps sending to it after it was stopped.           *)
OnlyChild == alive \subseteq {sink.child}

(* "reconnected with backoff when it exits": while the network stays good   *)
(* and the sink is wanted, it keeps coming back to a child that runs.       *)
Reconnects ==
  <>[](net = "good" /\ attached) => []<>(started /\ sink.child \in alive)
=============================================================================
