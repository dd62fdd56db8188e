------------------------------- MODULE Engine -------------------------------
(***************************************************************************)
(* VideoEngine (engine/process.py): the thread that supervises the ffmpeg  *)
(* child writing the program node, with what it calls before a child       *)
(* starts and after one ended, Delivery.guard and on_exit                  *)
(* (console/delivery.py), and the slate, the second ffmpeg writer of the   *)
(* node (engine/slate.py).  The looks, the crop and the blur, which are    *)
(* sent to the running child, are left out.                                *)
(***************************************************************************)
EXTENDS Integers, FiniteSets

CONSTANTS
  Camera,     \* the cameras; a Spec is the camera it reads
  First,      \* the first in the list
  Loss,       \* STREAMSTACK_CAMERA_LOSS: "slate" ("hold" differs in looks) or "off"
  MaxFaults   \* bound: writers that die and cameras that come or go

ASSUME EngineAssumption ==
  First \in Camera /\ "none" \notin Camera /\ Loss \in {"slate", "off"} /\ MaxFaults \in Nat

VARIABLES
  engine,   \* VideoEngine; work: the spec its thread is busy with
  child,    \* the camera the ffmpeg child reads, or None
  slate,    \* SlateFeeder: what it should show, and its child
  faulted,  \* Delivery._faulted
  source,   \* the cameras: "good", "silent" (no picture) or "gone"
  faults    \* counter for the bound

engineVars == <<engine, child, slate, faulted, source, faults>>

None == "none"
NoSlate == [shows |-> "none", alive |-> FALSE]

\* A new engine on a camera that has just been resolved, started.
EngineInit ==
  /\ source = [c \in Camera |-> "good"]
  /\ engine = [thread |-> "head", halt |-> FALSE, state |-> "starting", spec |-> First,
               planned |-> FALSE, stalled |-> FALSE, work |-> None]
  /\ child = None
  /\ slate = NoSlate /\ faulted = FALSE /\ faults = 0

Alive == child # None

\* _proc is not None.
Known == engine.thread = "run"
-----------------------------------------------------------------------------
(* Requests: what each makes of the engine (and of the child).             *)

\* start: nothing while the thread is alive.
Started(e) ==
  IF e.thread # "none" THEN e
  ELSE [e EXCEPT !.thread = "head", !.halt = FALSE, !.state = "starting"]

\* stop, up to the join: the child that is known now is terminated.
StopBegun ==
  /\ engine' = [engine EXCEPT !.halt = TRUE]
  /\ child' = IF Known THEN None ELSE child

\* The join in stop returns, or is given up on a thread that is still in the
\* guard, or waits for a child nobody has terminated.
Joined == engine.thread = "none"
JoinOver == Joined \/ engine.thread = "asking" \/ (Known /\ Alive)

\* set_spec, with _restart_child.
SpecSet(c) ==
  IF c = engine.spec THEN UNCHANGED <<engine, child>>
  ELSE /\ engine' = [engine EXCEPT !.spec = c, !.planned = TRUE]
       /\ child' = IF Known THEN None ELSE child
-----------------------------------------------------------------------------
(* The slate.                                                              *)

Shown(what) == [shows |-> what, alive |-> TRUE]

\* Delivery.cover.
Covered(s) == IF Loss = "off" THEN s ELSE Shown("cover")

\* Mutant: a slate that died is left dead.
PolledNever(s) == s

\* poll: a slate that should show and died is started again.
Polled(s) == [s EXCEPT !.alive = s.shows # "none"]
-----------------------------------------------------------------------------
(* The thread: _run.                                                       *)

\* The loop's head; before_child is called with the spec of this moment.
Head ==
  /\ engine.thread = "head"
  /\ engine' = IF engine.halt THEN [engine EXCEPT !.thread = "none"]
               ELSE [engine EXCEPT !.thread = "asking", !.work = engine.spec]
  /\ UNCHANGED <<child, slate, faulted, source, faults>>

\* The guard says no: the camera is gone, or after a fault shows no picture
\* (or is not asked before the pause is over).
GuardRefuses ==
  /\ engine.thread = "asking"
  /\ source[engine.work] = "gone" \/ faulted
  /\ slate' = Covered(slate)
  /\ engine' = [engine EXCEPT !.thread = "head", !.state = "waiting", !.work = None]
  /\ UNCHANGED <<child, faulted, source, faults>>

\* Mutant: the guard lets the child start beside the slate.
ReleasedLater(s) == s

\* release: the slate is off the node.
Released(s) == NoSlate

\* The guard lets the child start.
GuardAllows ==
  /\ engine.thread = "asking"
  /\ source[engine.work] # "gone" /\ (faulted => source[engine.work] = "good")
  /\ slate' = Released(slate) /\ faulted' = FALSE
  /\ engine' = [engine EXCEPT !.thread = "allowed", !.work = None]
  /\ UNCHANGED <<child, source, faults>>

\* _run_child, up to the process; whether the engine was stopped meanwhile is
\* not asked.
Prepare ==
  /\ engine.thread = "allowed"
  /\ engine' = [engine EXCEPT !.thread = "forking", !.work = engine.spec, !.state = "starting"]
  /\ UNCHANGED <<child, slate, faulted, source, faults>>

Fork ==
  /\ engine.thread = "forking"
  /\ child' = engine.work
  /\ engine' = [engine EXCEPT !.thread = "run", !.work = None]
  /\ UNCHANGED <<slate, faulted, source, faults>>

\* _read_progress: the child reports a frame.
Progress ==
  /\ Known /\ Alive /\ source[child] = "good"
  /\ engine.state \in {"starting", "waiting"}
  /\ engine' = [engine EXCEPT !.state = "running"]
  /\ UNCHANGED <<child, slate, faulted, source, faults>>

\* _watch_stall stops a child without frames, until the engine is stopped.
Stall ==
  /\ Known /\ Alive /\ source[child] # "good" /\ ~ engine.halt
  /\ child' = None
  /\ engine' = [engine EXCEPT !.stalled = TRUE]
  /\ UNCHANGED <<slate, faulted, source, faults>>

\* After _run_child: nothing more in an engine that was stopped; a fault is an
\* exit that was not planned, of a child that stalled or ran a short time.
Ended(short) ==
  LET fault == (short \/ engine.stalled) /\ ~ engine.planned IN
  IF engine.halt
  THEN /\ engine' = [engine EXCEPT !.thread = "none", !.stalled = FALSE, !.work = None]
       /\ UNCHANGED <<slate, faulted>>
  ELSE /\ engine' = [engine EXCEPT !.thread = "head", !.stalled = FALSE, !.planned = FALSE,
                                   !.state = "waiting", !.work = None]
       /\ slate' = IF fault THEN Covered(slate) ELSE slate
       /\ faulted' = (faulted \/ fault)

\* The thread sees the end of its child.
ChildEnded ==
  /\ Known /\ ~ Alive
  /\ \E short \in BOOLEAN : Ended(short)
  /\ UNCHANGED <<child, source, faults>>

\* The child cannot be started.
ForkFails ==
  /\ engine.thread = "forking" /\ faults < MaxFaults
  /\ faults' = faults + 1
  /\ Ended(TRUE)
  /\ UNCHANGED <<child, source>>
-----------------------------------------------------------------------------
(* What happens to the writers and the cameras.                            *)

Fault ==
  /\ faults < MaxFaults /\ faults' = faults + 1
  /\ \/ /\ Alive /\ child' = None
        /\ UNCHANGED <<slate, source>>
     \/ /\ slate.alive /\ slate' = [slate EXCEPT !.alive = FALSE]
        /\ UNCHANGED <<child, source>>
     \/ /\ \E c \in Camera, q \in {"good", "silent", "gone"} :
             q # source[c] /\ source' = [source EXCEPT ![c] = q]
        /\ UNCHANGED <<child, slate>>
  /\ UNCHANGED <<engine, faulted>>

EngineNext ==
  \/ Head \/ GuardRefuses \/ GuardAllows \/ Prepare \/ Fork \/ ForkFails
  \/ Progress \/ Stall \/ ChildEnded \/ Fault

\* The thread goes on, the guard's pause ends, and whoever watches the child
\* sees what it delivers.
Thread == Head \/ GuardRefuses \/ Prepare \/ Fork \/ ChildEnded

EngineFairness ==
  /\ WF_engineVars(Thread) /\ SF_engineVars(GuardAllows) /\ WF_engineVars(Progress \/ Stall)
-----------------------------------------------------------------------------
EngineState ==
  [thread : {"none", "head", "asking", "allowed", "forking", "run"}, halt : BOOLEAN,
   state : {"stopped", "starting", "running", "waiting"}, spec : Camera,
   planned : BOOLEAN, stalled : BOOLEAN, work : Camera \cup {None}]
SlateState == [shows : {"none", "cover", "idle"}, alive : BOOLEAN]

EngineTypeOK ==
  /\ engine \in EngineState /\ slate \in SlateState
  /\ child \in Camera \cup {None}
  /\ source \in [Camera -> {"good", "silent", "gone"}]
  /\ faulted \in BOOLEAN /\ faults \in 0 .. MaxFaults

\* Two processes write the program node.
TwoWriters == Alive /\ slate.alive
Fed == Alive \/ slate.alive
=============================================================================
