--------------------------- MODULE ProgramCamera ---------------------------
(***************************************************************************)
(* NativeVideo (console/native.py) around its Engine: the idle governor    *)
(* (engine/idle.py), which rests the engine behind a placeholder while no  *)
(* app reads the program camera, the reader watch that feeds it, the       *)
(* monitor's passes, and the switch and the camera choice of the page.     *)
(*                                                                         *)
(* A step of the governor holds the idle lock to its end, the waiting for  *)
(* an engine that stops included; the requests and the monitor hold it     *)
(* only where they call the governor.  Time is what may have elapsed: a    *)
(* debounce is over when nothing interrupted it, and never within the few  *)
(* instructions of a request or a pass that do not wait (idle_after is at  *)
(* least a second).                                                        *)
(***************************************************************************)
EXTENDS Engine

CONSTANTS
  Client,       \* threads that serve requests of the page
  MaxRequests,  \* bound: requests in all
  Repeats       \* bound: the switch may also be set to what it is

VARIABLES
  gov,      \* IdleGovernor: its state, and its debounce: "off", "on", "over"
  reader,   \* an app has the program node open
  seen,     \* the reader watch's last scan found one
  wanted,   \* _wanted: the switch
  picked,   \* _active: the camera chosen
  standin,  \* Delivery._fallback: the camera standing in for it, or None
  tick,     \* the governor's step under way: "free", "idling", "stopping"
  monitor,  \* the monitor's pass: "free", "unwanted", or the camera to ensure
  request,  \* client -> where its request is
  late,     \* history: a stop returned before the engine's thread had ended
  requests  \* counter for the bound

vars == <<engineVars, gov, reader, seen, wanted, picked, standin, tick, monitor, request, late, requests>>

ASSUME ProgramAssumption ==
  /\ MaxRequests \in Nat /\ Repeats \in BOOLEAN /\ Client # {}
  /\ Camera \cap {"free", "unwanted", "on", "off", "start", "stop", "joining"} = {}

\* The monitor's first pass has made the engine.
Init ==
  /\ EngineInit
  /\ gov = [state |-> "running", timer |-> "on"]
  /\ reader = FALSE /\ seen = FALSE /\ wanted = TRUE
  /\ picked = First /\ standin = None
  /\ tick = "free" /\ monitor = "free" /\ request = [c \in Client |-> "free"]
  /\ late = FALSE /\ requests = 0
-----------------------------------------------------------------------------
(* The reader watch.                                                       *)

ReaderMoves ==
  /\ reader' = ~ reader
  /\ UNCHANGED <<engineVars, gov, seen, wanted, picked, standin, tick, monitor, request, late, requests>>

Scan ==
  /\ seen' = reader
  /\ UNCHANGED <<engineVars, gov, reader, wanted, picked, standin, tick, monitor, request, late, requests>>
-----------------------------------------------------------------------------
(* The governor: _idle_tick, from the watch, the monitor and the page.     *)

\* Mutant: the confirmation starts over with every scan.
RestingUnsure(readers, demand) ==
  IF demand THEN [state |-> "waking", timer |-> "on"]
  ELSE [gov EXCEPT !.timer = IF readers /\ gov.timer = "off" THEN "on" ELSE "off"]

\* _while_idle.
Resting(readers, demand) ==
  CASE demand \/ (readers /\ gov.timer = "over") -> [state |-> "waking", timer |-> "on"]
    [] ~ demand /\ ~ readers                     -> [gov EXCEPT !.timer = "off"]
    [] ~ demand /\ readers /\ gov.timer # "over" -> [gov EXCEPT !.timer = "on"]

\* _while_running.
Running(need) ==
  CASE need \/ engine.state # "running" -> [gov EXCEPT !.timer = "off"]
    [] ~ need /\ engine.state = "running" /\ gov.timer # "over" -> [gov EXCEPT !.timer = "on"]
    [] ~ need /\ engine.state = "running" /\ gov.timer = "over" -> [state |-> "idle", timer |-> "off"]

\* _while_waking.
Waking(need) ==
  CASE engine.state = "running" -> [state |-> "running", timer |-> IF need THEN "off" ELSE "on"]
    [] engine.state # "running" /\ gov.timer = "over" -> [state |-> "running", timer |-> "off"]
    [] engine.state # "running" /\ gov.timer # "over" -> gov

\* step, and what comes of its verdict; readers: the last scan found one, or
\* is not to be trusted.
Tick(readers, demand) ==
  /\ tick = "free" /\ wanted
  /\ gov' = CASE gov.state = "running" -> Running(readers \/ demand)
              [] gov.state = "idle"    -> Resting(readers, demand)
              [] gov.state = "waking"  -> Waking(readers \/ demand)
  /\ tick' = IF gov'.state = "idle" /\ gov.state # "idle" THEN "idling" ELSE "free"
  /\ engine' = IF gov'.state = "waking" /\ gov.state = "idle" THEN Started(engine) ELSE engine
  /\ UNCHANGED <<child, slate, faulted, source, faults>>
  /\ UNCHANGED <<reader, seen, wanted, picked, standin, monitor, request, late, requests>>

\* _enter_idle stops the engine.
EnterIdle ==
  /\ tick = "idling"
  /\ StopBegun
  /\ tick' = "stopping"
  /\ UNCHANGED <<slate, faulted, source, faults>>
  /\ UNCHANGED <<gov, reader, seen, wanted, picked, standin, monitor, request, late, requests>>

\* Mutant: the engine rests and nothing takes its place.
ParkedNothing(s) == s

\* Delivery.park.
Parked(s) == Shown("idle")

\* It has stopped: the placeholder takes the node, or the engine goes on where
\* nothing but it may write the node.
Park ==
  /\ tick = "stopping" /\ JoinOver
  /\ late' = (late \/ ~ Joined)
  /\ IF Loss = "off"
     THEN /\ gov' = [state |-> "running", timer |-> "on"]
          /\ engine' = Started([engine EXCEPT !.state = "stopped"])
          /\ UNCHANGED slate
     ELSE /\ engine' = [engine EXCEPT !.state = "stopped"]
          /\ slate' = Parked(slate)
          /\ UNCHANGED gov
  /\ tick' = "free"
  /\ UNCHANGED <<child, faulted, source, faults>>
  /\ UNCHANGED <<reader, seen, wanted, picked, standin, monitor, request, requests>>

\* A debounce, a confirmation or the wait for a woken engine ends.
Elapse ==
  /\ gov.timer = "on" /\ monitor # "unwanted"
  /\ \A c \in Client : request[c] \in Camera \cup {"free", "joining"}
  /\ gov' = [gov EXCEPT !.timer = "over"]
  /\ UNCHANGED <<engineVars, reader, seen, wanted, picked, standin, tick, monitor, request, late, requests>>
-----------------------------------------------------------------------------
(* Requests of the page.                                                   *)

Ask(c, pc) == request' = [request EXCEPT ![c] = pc]

\* _virtualcam leaves idle at once (force_running),
Switch(c, on) ==
  /\ request[c] = "free" /\ tick = "free" /\ requests < MaxRequests
  /\ gov' = [state |-> "running", timer |-> "on"]
  /\ Ask(c, IF on THEN "on" ELSE "off")
  /\ requests' = requests + 1
  /\ UNCHANGED <<engineVars, reader, seen, wanted, picked, standin, tick, monitor, late>>

\* notes what is wanted,
Note(c) ==
  /\ request[c] \in {"on", "off"}
  /\ wanted' = (request[c] = "on")
  /\ Ask(c, IF request[c] = "on" THEN "start" ELSE "stop")
  /\ UNCHANGED <<engineVars, gov, reader, seen, picked, standin, tick, monitor, late, requests>>

\* and starts the engine
SwitchOn(c) ==
  /\ request[c] = "start"
  /\ engine' = Started(engine)
  /\ Ask(c, "free")
  /\ UNCHANGED <<child, slate, faulted, source, faults>>
  /\ UNCHANGED <<gov, reader, seen, wanted, picked, standin, tick, monitor, late, requests>>

\* or stops it
SwitchOff(c) ==
  /\ request[c] = "stop"
  /\ StopBegun
  /\ Ask(c, "joining")
  /\ UNCHANGED <<slate, faulted, source, faults>>
  /\ UNCHANGED <<gov, reader, seen, wanted, picked, standin, tick, monitor, late, requests>>

\* and answers "Program camera off".
AnswerOff(c) ==
  /\ request[c] = "joining" /\ JoinOver
  /\ late' = (late \/ ~ Joined)
  /\ engine' = [engine EXCEPT !.state = "stopped"]
  /\ Ask(c, "free")
  /\ UNCHANGED <<child, slate, faulted, source, faults>>
  /\ UNCHANGED <<gov, reader, seen, wanted, picked, standin, tick, monitor, requests>>

\* _source_action: the camera is noted,
Pick(c, camera) ==
  /\ request[c] = "free" /\ camera # picked /\ requests < MaxRequests
  /\ picked' = camera
  /\ Ask(c, camera)
  /\ requests' = requests + 1
  /\ UNCHANGED <<engineVars, gov, reader, seen, wanted, standin, tick, monitor, late>>

\* resolved, and given to the engine; an error when it is not there.
GivePicked(c) ==
  /\ request[c] \in Camera
  /\ IF source[request[c]] = "gone" THEN UNCHANGED <<engine, child>>
     ELSE SpecSet(request[c])
  /\ Ask(c, "free")
  /\ UNCHANGED <<slate, faulted, source, faults>>
  /\ UNCHANGED <<gov, reader, seen, wanted, picked, standin, tick, monitor, late, requests>>
-----------------------------------------------------------------------------
(* The monitor: _tick, whose step of the governor is Tick.                 *)

\* The cameras found: the first is listed whether it is there or not.
Listed == {c \in Camera : c = First \/ source[c] # "gone"}

\* Delivery.choose: the stand-in for camera p, if any.  One is found when p was
\* gone long enough and kept until p has been back long enough; the camera to
\* read is the stand-in while it is listed.
StandIns(p) ==
  IF source[p] # "gone" THEN {None, standin}
  ELSE LET ready == {s \in Camera \ {p} : source[s] # "gone"} IN
       IF standin \in ready THEN {standin}
       ELSE {None} \cup {s \in ready : standin = None}
Chosen(p, s) == IF s \in Listed THEN s ELSE p

Settles(c) == engine.spec = c /\ engine.state = "running"

\* A pass that is not wanted only stops what Delivery shows; one of a resting
\* engine, or of an engine that runs on its camera, ends here.
Pass ==
  /\ monitor = "free"
  /\ picked' = IF picked \in Listed THEN picked ELSE First
  /\ IF ~ wanted
     THEN monitor' = "unwanted" /\ UNCHANGED <<slate, standin>>
     ELSE /\ slate' = Polled(slate)
          /\ IF gov.state = "idle" THEN UNCHANGED <<monitor, standin>>
             ELSE \E s \in StandIns(picked') :
                    /\ standin' = s
                    /\ monitor' = IF Settles(Chosen(picked', s)) THEN "free" ELSE Chosen(picked', s)
  /\ UNCHANGED <<engine, child, faulted, source, faults>>
  /\ UNCHANGED <<gov, reader, seen, wanted, tick, request, late, requests>>

\* _ensure_engine.
Ensure ==
  /\ monitor \in Camera
  /\ IF source[monitor] = "gone" THEN UNCHANGED <<engine, child>>
     ELSE SpecSet(monitor)
  /\ monitor' = "free"
  /\ UNCHANGED <<slate, faulted, source, faults>>
  /\ UNCHANGED <<gov, reader, seen, wanted, picked, standin, tick, request, late, requests>>

\* Delivery.stop, of a camera that is not wanted.
StopDelivery ==
  /\ monitor = "unwanted"
  /\ slate' = NoSlate
  /\ monitor' = "free"
  /\ UNCHANGED <<engine, child, faulted, source, faults>>
  /\ UNCHANGED <<gov, reader, seen, wanted, picked, standin, tick, request, late, requests>>
-----------------------------------------------------------------------------
EngineStep ==
  EngineNext /\ UNCHANGED <<gov, reader, seen, wanted, picked, standin, tick, monitor, request, late, requests>>

Trusted == \E demand \in BOOLEAN : Tick(seen, demand)

Serve(c) == Note(c) \/ SwitchOn(c) \/ SwitchOff(c) \/ AnswerOff(c) \/ GivePicked(c)

Governs ==
  \/ ReaderMoves \/ Scan
  \/ \E readers \in {seen, TRUE}, demand \in BOOLEAN : Tick(readers, demand)
  \/ EnterIdle \/ Park \/ Elapse

\* What the switch may be set to.
Settable == {on \in BOOLEAN : Repeats \/ on # wanted}

Requests(c) ==
  Serve(c) \/ (\E on \in Settable : Switch(c, on)) \/ (\E k \in Camera : Pick(c, k))

Monitors == Pass \/ Ensure \/ StopDelivery

Next ==
  \/ EngineStep
  \/ Governs
  \/ \E c \in Client : Requests(c)
  \/ Monitors

Spec == Init /\ [][Next]_vars

\* Every thread gets its turn, time passes, and pauses end.
FairSpec ==
  /\ Spec /\ EngineFairness
  /\ WF_vars(Scan) /\ SF_vars(Trusted) /\ WF_vars(EnterIdle \/ Park) /\ SF_vars(Elapse)
  /\ \A c \in Client : WF_vars(Serve(c))
  /\ WF_vars(Monitors)
-----------------------------------------------------------------------------
GovernorState == [state : {"running", "idle", "waking"}, timer : {"off", "on", "over"}]

TypeOK ==
  /\ EngineTypeOK
  /\ gov \in GovernorState
  /\ reader \in BOOLEAN /\ seen \in BOOLEAN /\ wanted \in BOOLEAN /\ late \in BOOLEAN
  /\ picked \in Camera /\ standin \in Camera \cup {None}
  /\ tick \in {"free", "idling", "stopping"}
  /\ monitor \in Camera \cup {"free", "unwanted"}
  /\ request \in [Client -> Camera \cup {"free", "on", "off", "start", "stop", "joining"}]
  /\ requests \in 0 .. MaxRequests

\* "Exactly one of the two writes the node at any moment": the child and the
\* slate never both do, whatever starts, stops, dies and is replaced, as long
\* as a stop has not given up on the engine's thread.
OneWriter == ~ late => ~ TwoWriters

\* "Idle therefore means a cheap placeholder writer stays on the node": while
\* the engine rests, no pass, request or late guard takes the placeholder off.
RestIsCovered == ~ late /\ gov.state = "idle" /\ tick = "free" => slate.shows = "idle"

\* "While no engine child writes the node, a second small ffmpeg writes it":
\* the node of a camera that is switched on is never left unfed for good.
NeverUnfed == wanted /\ ~ Fed ~> Fed \/ ~ wanted \/ late

\* "wake it within a second of the first reader": an app that opens a resting
\* camera and stays gets the engine's picture, if its camera has one.
ReaderIsServed ==
  gov.state = "idle" /\ reader ~>
    Alive \/ ~ reader \/ ~ wanted \/ late \/ source[engine.spec] # "good"

\* "start/stop the program camera": after the answer to the last request of
\* the switch was "off", nothing is on air.
OffMeansOff == ~ wanted /\ (\A c \in Client : request[c] = "free") => ~ Alive

\* "Change the graph itself (another source or size). The one thing that
\* restarts the child": the child reads the camera the engine was given last.
SpecTaken == Known /\ Alive => child = engine.spec
=============================================================================
