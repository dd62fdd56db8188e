---------------------------- MODULE CameraProofs ----------------------------
(***************************************************************************)
(* Proofs about ProgramCamera: one writer of the program node, and a       *)
(* resting engine that stays covered, for any cameras, any number of       *)
(* requests at once and any number of faults.                              *)
(***************************************************************************)
EXTENDS ProgramCamera, TLAPS

\* From the guard's consent to the end of the child there is no slate, as long
\* as no stop has given up on the thread.
Writers ==
  /\ Alive => engine.thread = "run"
  /\ slate.shows = "none" => ~ slate.alive
  /\ ~ late /\ engine.thread \in {"allowed", "forking", "run"} => slate.shows = "none"

\* A request of the switch keeps the governor from its next rest until it has
\* started or stopped the engine.
Awake ==
  \A c \in Client : request[c] \in {"on", "off", "start", "stop"} =>
    gov.state = "running" /\ gov.timer # "over" /\ tick = "free"

\* So does a pass that is about to take the slate away.
Leaving == monitor = "unwanted" => gov.state # "idle" /\ (~ wanted \/ gov.timer # "over")

\* Only a wanted engine rests, and it rests with its thread over and the
\* placeholder shown.
AtRest ==
  /\ gov.state = "idle" => wanted
  /\ tick # "free" => gov.state = "idle"
  /\ ~ late /\ gov.state = "idle" /\ tick = "free" => engine.thread = "none" /\ slate.shows = "idle"

CInv == TypeOK /\ Writers /\ Awake /\ Leaving /\ AtRest
-----------------------------------------------------------------------------

\* The camera starts on its engine, with nothing else on the node.
LEMMA CameraInit == Init => CInv
<1> SUFFICES ASSUME Init PROVE CInv
  OBVIOUS
<1> USE EngineAssumption, ProgramAssumption DEF Init, EngineInit, None, NoSlate
<1>1. engine \in EngineState /\ slate \in SlateState /\ gov \in GovernorState
  BY DEF EngineState, SlateState, GovernorState
<1>2. TypeOK
  <2>1. source \in [Camera -> {"good", "silent", "gone"}] /\ faults \in 0 .. MaxFaults
    OBVIOUS
  <2>2. request \in [Client -> Camera \cup {"free", "on", "off", "start", "stop", "joining"}]
    OBVIOUS
  <2>3. /\ child \in Camera \cup {None} /\ faulted \in BOOLEAN
        /\ reader \in BOOLEAN /\ seen \in BOOLEAN /\ wanted \in BOOLEAN /\ late \in BOOLEAN
        /\ picked \in Camera /\ standin \in Camera \cup {None}
        /\ tick \in {"free", "idling", "stopping"}
        /\ monitor \in Camera \cup {"free", "unwanted"}
    OBVIOUS
  <2>4. requests \in 0 .. MaxRequests
    OBVIOUS
  <2> HIDE DEF Init, EngineInit
  <2> QED
    BY <1>1, <2>1, <2>2, <2>3, <2>4 DEF TypeOK, EngineTypeOK
<1>3. Writers
  BY DEF Writers, Alive
<1>4. Awake /\ Leaving /\ AtRest
  BY DEF Awake, Leaving, AtRest
<1> QED
  BY <1>2, <1>3, <1>4 DEF CInv

\* What the end of a child, or of the attempt to start one, leaves.
LEMMA EndedKeeps ==
  ASSUME engine \in EngineState, slate \in SlateState, faulted \in BOOLEAN,
         NEW short \in BOOLEAN, Ended(short)
  PROVE  /\ engine' \in EngineState /\ slate' \in SlateState /\ faulted' \in BOOLEAN
         /\ engine'.thread \in {"none", "head"}
         /\ slate' = slate \/ slate' = Shown("cover")
<1>1. CASE engine.halt
  <2>1. /\ engine' = [engine EXCEPT !.thread = "none", !.stalled = FALSE, !.work = None]
        /\ UNCHANGED <<slate, faulted>>
    BY <1>1 DEF Ended
  <2> QED
    BY <2>1 DEF EngineState, SlateState
<1>2. CASE ~ engine.halt
  <2>1. engine' = [engine EXCEPT !.thread = "head", !.stalled = FALSE, !.planned = FALSE,
                                 !.state = "waiting", !.work = None]
    BY <1>2 DEF Ended
  <2>2. slate' = slate \/ slate' = Shown("cover")
    BY <1>2 DEF Ended, Covered
  <2>3. faulted' \in BOOLEAN
    BY <1>2 DEF Ended
  <2>4. slate' \in SlateState
    <3>1. Shown("cover") \in SlateState
      BY DEF Shown, SlateState
    <3> QED
      BY <2>2, <3>1
  <2>5. engine' \in EngineState /\ engine'.thread = "head"
    BY <2>1 DEF EngineState
  <2> QED
    BY <2>2, <2>3, <2>4, <2>5
<1> QED
  BY <1>1, <1>2

\* What a request makes of the engine: an engine whose thread stands where it
\* stood, or, started, at its head.
LEMMA StartedKeeps ==
  ASSUME NEW e \in EngineState
  PROVE  /\ Started(e) \in EngineState
         /\ Started(e).thread = IF e.thread = "none" THEN "head" ELSE e.thread
<1>1. CASE e.thread # "none"
  BY <1>1 DEF Started
<1>2. CASE e.thread = "none"
  <2>1. Started(e) = [e EXCEPT !.thread = "head", !.halt = FALSE, !.state = "starting"]
    BY <1>2 DEF Started
  <2> QED
    BY <1>2, <2>1 DEF EngineState
<1> QED
  BY <1>1, <1>2

LEMMA AskedKeeps ==
  ASSUME engine \in EngineState, child \in Camera \cup {None},
         StopBegun \/ \E c \in Camera : SpecSet(c)
  PROVE  /\ engine' \in EngineState /\ engine'.thread = engine.thread
         /\ child' \in {child, None}
<1>1. CASE StopBegun
  <2>1. engine' = [engine EXCEPT !.halt = TRUE] /\ child' \in {child, None}
    BY <1>1 DEF StopBegun
  <2> QED
    BY <2>1 DEF EngineState
<1>2. ASSUME NEW c \in Camera, SpecSet(c)
      PROVE  /\ engine' \in EngineState /\ engine'.thread = engine.thread
             /\ child' \in {child, None}
  <2>1. CASE c = engine.spec
    BY <1>2, <2>1 DEF SpecSet
  <2>2. CASE c # engine.spec
    <3>1. engine' = [engine EXCEPT !.spec = c, !.planned = TRUE] /\ child' \in {child, None}
      BY <1>2, <2>2 DEF SpecSet
    <3> QED
      BY <3>1 DEF EngineState
  <2> QED
    BY <2>1, <2>2
<1> QED
  BY <1>1, <1>2

LEMMA PolledKeeps ==
  ASSUME NEW s \in SlateState
  PROVE  /\ Polled(s) \in SlateState /\ Polled(s).shows = s.shows
         /\ s.shows = "none" => ~ Polled(s).alive
BY DEF Polled, SlateState

\* The engine's thread, its child, the slate and the cameras.
LEMMA EngineKeeps == CInv /\ EngineStep => CInv'
<1> USE EngineAssumption, ProgramAssumption
    DEF CInv, Writers, Awake, Leaving, AtRest, None, NoSlate, Shown, Alive, Known
<1>1. ASSUME CInv, EngineStep, Head PROVE CInv'
  <2> USE <1>1 DEF EngineStep, Head
  <2>1. engine' \in EngineState
    BY DEF TypeOK, EngineTypeOK, EngineState
  <2>2. slate' \in SlateState /\ gov' \in GovernorState
    BY DEF TypeOK, EngineTypeOK, SlateState, GovernorState
  <2>3. TypeOK'
    BY <2>1, <2>2 DEF TypeOK, EngineTypeOK
  <2>4. Writers'
    BY DEF TypeOK, EngineTypeOK, EngineState, SlateState
  <2>5. Awake' /\ Leaving'
    BY DEF TypeOK, GovernorState
  <2>6. AtRest'
    BY DEF TypeOK, EngineTypeOK, EngineState, SlateState, GovernorState
  <2> QED
    BY <2>3, <2>4, <2>5, <2>6
<1>2. ASSUME CInv, EngineStep, GuardRefuses PROVE CInv'
  <2> USE <1>2 DEF EngineStep, GuardRefuses, Covered
  <2>1. engine' \in EngineState
    BY DEF TypeOK, EngineTypeOK, EngineState
  <2>2. slate' \in SlateState /\ gov' \in GovernorState
    BY DEF TypeOK, EngineTypeOK, SlateState, GovernorState
  <2>3. TypeOK'
    BY <2>1, <2>2 DEF TypeOK, EngineTypeOK
  <2>4. Writers'
    BY DEF TypeOK, EngineTypeOK, EngineState, SlateState
  <2>5. Awake' /\ Leaving'
    BY DEF TypeOK, GovernorState
  <2>6. AtRest'
    BY DEF TypeOK, EngineTypeOK, EngineState, SlateState, GovernorState
  <2> QED
    BY <2>3, <2>4, <2>5, <2>6
<1>3. ASSUME CInv, EngineStep, GuardAllows PROVE CInv'
  <2> USE <1>3 DEF EngineStep, GuardAllows, Released
  <2>1. engine' \in EngineState
    BY DEF TypeOK, EngineTypeOK, EngineState
  <2>2. slate' \in SlateState /\ gov' \in GovernorState
    BY DEF TypeOK, EngineTypeOK, SlateState, GovernorState
  <2>3. TypeOK'
    BY <2>1, <2>2 DEF TypeOK, EngineTypeOK
  <2>4. Writers'
    BY DEF TypeOK, EngineTypeOK, EngineState, SlateState
  <2>5. Awake' /\ Leaving'
    BY DEF TypeOK, GovernorState
  <2>6. AtRest'
    BY DEF TypeOK, EngineTypeOK, EngineState, SlateState, GovernorState
  <2> QED
    BY <2>3, <2>4, <2>5, <2>6
<1>4. ASSUME CInv, EngineStep, Prepare PROVE CInv'
  <2> USE <1>4 DEF EngineStep, Prepare
  <2>1. engine' \in EngineState
    BY DEF TypeOK, EngineTypeOK, EngineState
  <2>2. slate' \in SlateState /\ gov' \in GovernorState
    BY DEF TypeOK, EngineTypeOK, SlateState, GovernorState
  <2>3. TypeOK'
    BY <2>1, <2>2 DEF TypeOK, EngineTypeOK
  <2>4. Writers'
    BY DEF TypeOK, EngineTypeOK, EngineState, SlateState
  <2>5. Awake' /\ Leaving'
    BY DEF TypeOK, GovernorState
  <2>6. AtRest'
    BY DEF TypeOK, EngineTypeOK, EngineState, SlateState, GovernorState
  <2> QED
    BY <2>3, <2>4, <2>5, <2>6
<1>5. ASSUME CInv, EngineStep, Fork PROVE CInv'
  <2> USE <1>5 DEF EngineStep, Fork
  <2>1. engine' \in EngineState
    BY DEF TypeOK, EngineTypeOK, EngineState
  <2>2. slate' \in SlateState /\ gov' \in GovernorState
    BY DEF TypeOK, EngineTypeOK, SlateState, GovernorState
  <2>3. TypeOK'
    BY <2>1, <2>2 DEF TypeOK, EngineTypeOK, EngineState
  <2>4. Writers'
    BY DEF TypeOK, EngineTypeOK, EngineState, SlateState
  <2>5. Awake' /\ Leaving'
    BY DEF TypeOK, GovernorState
  <2>6. AtRest'
    BY DEF TypeOK, EngineTypeOK, EngineState, SlateState, GovernorState
  <2> QED
    BY <2>3, <2>4, <2>5, <2>6
<1>6. ASSUME CInv, EngineStep, ForkFails PROVE CInv'
  <2> PICK short \in BOOLEAN : Ended(short)
    BY <1>6 DEF ForkFails
  <2> USE <1>6 DEF EngineStep, ForkFails
  <2>1. /\ engine' \in EngineState /\ slate' \in SlateState /\ faulted' \in BOOLEAN
        /\ engine'.thread \in {"none", "head"}
        /\ slate' = slate \/ slate' = Shown("cover")
    BY EndedKeeps DEF TypeOK, EngineTypeOK
  <2>2. child' = None /\ engine.thread # "none"
    BY DEF TypeOK, EngineTypeOK
  <2>3. TypeOK'
    BY <2>1, <2>2 DEF TypeOK, EngineTypeOK
  <2>4. Writers'
    BY <2>1, <2>2 DEF TypeOK
  <2>5. Awake' /\ Leaving'
    BY DEF TypeOK
  <2>6. AtRest'
    BY <2>1, <2>2 DEF TypeOK, GovernorState
  <2> QED
    BY <2>3, <2>4, <2>5, <2>6
<1>7. ASSUME CInv, EngineStep, Progress PROVE CInv'
  <2> USE <1>7 DEF EngineStep, Progress
  <2>1. engine' \in EngineState
    BY DEF TypeOK, EngineTypeOK, EngineState
  <2>2. slate' \in SlateState /\ gov' \in GovernorState
    BY DEF TypeOK, EngineTypeOK, SlateState, GovernorState
  <2>3. TypeOK'
    BY <2>1, <2>2 DEF TypeOK, EngineTypeOK
  <2>4. Writers'
    BY DEF TypeOK, EngineTypeOK, EngineState, SlateState
  <2>5. Awake' /\ Leaving'
    BY DEF TypeOK, GovernorState
  <2>6. AtRest'
    BY DEF TypeOK, EngineTypeOK, EngineState, SlateState, GovernorState
  <2> QED
    BY <2>3, <2>4, <2>5, <2>6
<1>8. ASSUME CInv, EngineStep, Stall PROVE CInv'
  <2> USE <1>8 DEF EngineStep, Stall
  <2>1. engine' \in EngineState
    BY DEF TypeOK, EngineTypeOK, EngineState
  <2>2. slate' \in SlateState /\ gov' \in GovernorState
    BY DEF TypeOK, EngineTypeOK, SlateState, GovernorState
  <2>3. TypeOK'
    BY <2>1, <2>2 DEF TypeOK, EngineTypeOK
  <2>4. Writers'
    BY DEF TypeOK, EngineTypeOK, EngineState, SlateState
  <2>5. Awake' /\ Leaving'
    BY DEF TypeOK, GovernorState
  <2>6. AtRest'
    BY DEF TypeOK, EngineTypeOK, EngineState, SlateState, GovernorState
  <2> QED
    BY <2>3, <2>4, <2>5, <2>6
<1>9. ASSUME CInv, EngineStep, ChildEnded PROVE CInv'
  <2> PICK short \in BOOLEAN : Ended(short)
    BY <1>9 DEF ChildEnded
  <2> USE <1>9 DEF EngineStep, ChildEnded
  <2>1. /\ engine' \in EngineState /\ slate' \in SlateState /\ faulted' \in BOOLEAN
        /\ engine'.thread \in {"none", "head"}
        /\ slate' = slate \/ slate' = Shown("cover")
    BY EndedKeeps DEF TypeOK, EngineTypeOK
  <2>2. child' = None /\ engine.thread # "none"
    BY DEF TypeOK, EngineTypeOK
  <2>3. TypeOK'
    BY <2>1, <2>2 DEF TypeOK, EngineTypeOK
  <2>4. Writers'
    BY <2>1, <2>2 DEF TypeOK
  <2>5. Awake' /\ Leaving'
    BY DEF TypeOK
  <2>6. AtRest'
    BY <2>1, <2>2 DEF TypeOK, GovernorState
  <2> QED
    BY <2>3, <2>4, <2>5, <2>6
<1>10. ASSUME CInv, EngineStep, Fault PROVE CInv'
  <2> USE <1>10 DEF EngineStep, Fault
  <2>1. engine' \in EngineState
    BY DEF TypeOK, EngineTypeOK, EngineState
  <2>2. slate' \in SlateState /\ gov' \in GovernorState
    BY DEF TypeOK, EngineTypeOK, SlateState, GovernorState
  <2>3. TypeOK'
    BY <2>1, <2>2 DEF TypeOK, EngineTypeOK
  <2>4. Writers'
    BY DEF TypeOK, EngineTypeOK, EngineState, SlateState
  <2>5. Awake' /\ Leaving'
    BY DEF TypeOK, GovernorState
  <2>6. AtRest'
    BY DEF TypeOK, EngineTypeOK, EngineState, SlateState, GovernorState
  <2> QED
    BY <2>3, <2>4, <2>5, <2>6
<1> QED
  BY <1>1, <1>2, <1>3, <1>4, <1>5, <1>6, <1>7, <1>8, <1>9, <1>10 DEF EngineStep, EngineNext

\* The reader watch, the governor and its clock.
LEMMA GovernorKeeps == CInv /\ Governs => CInv'
<1> USE EngineAssumption, ProgramAssumption
    DEF CInv, Writers, Awake, Leaving, AtRest, None, NoSlate, Shown, Alive, Known
<1>1. ASSUME CInv, ReaderMoves PROVE CInv'
  <2> USE <1>1 DEF ReaderMoves, engineVars
  <2>1. engine' \in EngineState
    BY DEF TypeOK, EngineTypeOK, EngineState
  <2>2. slate' \in SlateState /\ gov' \in GovernorState
    BY DEF TypeOK, EngineTypeOK, SlateState, GovernorState
  <2>3. TypeOK'
    BY <2>1, <2>2 DEF TypeOK, EngineTypeOK
  <2>4. Writers'
    BY DEF TypeOK, EngineTypeOK, EngineState, SlateState
  <2>5. Awake' /\ Leaving'
    BY DEF TypeOK, GovernorState
  <2>6. AtRest'
    BY DEF TypeOK, EngineTypeOK, EngineState, SlateState, GovernorState
  <2> QED
    BY <2>3, <2>4, <2>5, <2>6
<1>2. ASSUME CInv, Scan PROVE CInv'
  <2> USE <1>2 DEF Scan, engineVars
  <2>1. engine' \in EngineState
    BY DEF TypeOK, EngineTypeOK, EngineState
  <2>2. slate' \in SlateState /\ gov' \in GovernorState
    BY DEF TypeOK, EngineTypeOK, SlateState, GovernorState
  <2>3. TypeOK'
    BY <2>1, <2>2 DEF TypeOK, EngineTypeOK
  <2>4. Writers'
    BY DEF TypeOK, EngineTypeOK, EngineState, SlateState
  <2>5. Awake' /\ Leaving'
    BY DEF TypeOK, GovernorState
  <2>6. AtRest'
    BY DEF TypeOK, EngineTypeOK, EngineState, SlateState, GovernorState
  <2> QED
    BY <2>3, <2>4, <2>5, <2>6
<1>3. ASSUME CInv, NEW readers \in {seen, TRUE}, NEW demand \in BOOLEAN, Tick(readers, demand)
     PROVE  CInv'
  <2>1. /\ tick = "free" /\ wanted
        /\ UNCHANGED <<child, slate, faulted, source, faults>>
        /\ UNCHANGED <<reader, seen, wanted, picked, standin, monitor, request, late, requests>>
        /\ tick' = IF gov'.state = "idle" /\ gov.state # "idle" THEN "idling" ELSE "free"
        /\ engine' = IF gov'.state = "waking" /\ gov.state = "idle" THEN Started(engine) ELSE engine
    BY <1>3 DEF Tick
  <2>2. /\ gov' \in GovernorState
        /\ gov.state = "running" /\ gov.timer # "over" => gov'.state = "running" /\ gov'.timer # "over"
        /\ gov.state # "idle" /\ gov.timer # "over" => gov'.timer # "over" /\ gov'.state # "idle"
    BY <1>3 DEF Tick, Running, Resting, Waking, TypeOK, GovernorState
  <2>3. /\ engine' \in EngineState
        /\ engine.thread \in {"allowed", "forking", "run"} <=> engine'.thread \in {"allowed", "forking", "run"}
        /\ engine.thread = "run" <=> engine'.thread = "run"
        /\ gov'.state = "idle" => engine' = engine
    BY <1>3, <2>1, StartedKeeps DEF TypeOK, EngineTypeOK
  <2>4. TypeOK'
    BY <1>3, <2>1, <2>2, <2>3 DEF TypeOK, EngineTypeOK
  <2>5. Writers'
    BY <1>3, <2>1, <2>3 DEF Writers, Alive
  <2>6. Awake'
    BY <1>3, <2>1, <2>2 DEF Awake
  <2>7. Leaving'
    BY <1>3, <2>1, <2>2 DEF Leaving
  <2>8. AtRest'
    BY <1>3, <2>1, <2>2, <2>3 DEF AtRest
  <2> QED
    BY <2>4, <2>5, <2>6, <2>7, <2>8 DEF CInv
<1>4. ASSUME CInv, EnterIdle PROVE CInv'
  <2> USE <1>4 DEF EnterIdle, StopBegun
  <2>1. engine' \in EngineState
    BY DEF TypeOK, EngineTypeOK, EngineState
  <2>2. slate' \in SlateState /\ gov' \in GovernorState
    BY DEF TypeOK, EngineTypeOK, SlateState, GovernorState
  <2>3. TypeOK'
    BY <2>1, <2>2 DEF TypeOK, EngineTypeOK
  <2>4. Writers'
    BY DEF TypeOK, EngineTypeOK, EngineState, SlateState
  <2>5. Awake' /\ Leaving'
    BY DEF TypeOK, GovernorState
  <2>6. AtRest'
    BY DEF TypeOK, EngineTypeOK, EngineState, SlateState, GovernorState
  <2> QED
    BY <2>3, <2>4, <2>5, <2>6
<1>5. ASSUME CInv, Park PROVE CInv'
  <2> USE <1>5 DEF Park
  <2>1. CASE Loss = "off"
    <3>1. /\ engine' = Started([engine EXCEPT !.state = "stopped"]) /\ slate' = slate
          /\ gov' = [state |-> "running", timer |-> "on"] /\ tick' = "free"
          /\ UNCHANGED <<child, faulted, source, faults>>
          /\ UNCHANGED <<reader, seen, wanted, picked, standin, monitor, request, requests>>
          /\ late' = (late \/ ~ Joined)
      BY <2>1
    <3>2. engine' \in EngineState /\ engine'.thread \in {engine.thread, "head"}
          /\ (engine.thread # "none" => engine'.thread = engine.thread)
      BY <3>1 DEF Started, TypeOK, EngineTypeOK, EngineState
    <3>3. gov' \in GovernorState
      BY <3>1 DEF GovernorState
    <3>4. TypeOK'
      BY <3>1, <3>2, <3>3 DEF TypeOK, EngineTypeOK
    <3>5. Writers'
      BY <3>1, <3>2 DEF Joined, TypeOK
    <3>6. Awake' /\ Leaving' /\ AtRest'
      BY <3>1 DEF TypeOK
    <3> QED
      BY <3>4, <3>5, <3>6
  <2>2. CASE Loss # "off"
    <3>1. /\ engine' = [engine EXCEPT !.state = "stopped"] /\ slate' = Shown("idle")
          /\ gov' = gov /\ tick' = "free"
          /\ UNCHANGED <<child, faulted, source, faults>>
          /\ UNCHANGED <<reader, seen, wanted, picked, standin, monitor, request, requests>>
          /\ late' = (late \/ ~ Joined)
      BY <2>2 DEF Parked
    <3>2. engine' \in EngineState /\ engine'.thread = engine.thread
      BY <3>1 DEF TypeOK, EngineTypeOK, EngineState
    <3>3. slate' \in SlateState /\ slate'.shows = "idle"
      BY <3>1 DEF SlateState
    <3>4. TypeOK'
      BY <3>1, <3>2, <3>3 DEF TypeOK, EngineTypeOK
    <3>5. Writers'
      BY <3>1, <3>2, <3>3 DEF Joined, TypeOK
    <3>6. Awake' /\ Leaving' /\ AtRest'
      BY <3>1, <3>2, <3>3 DEF Joined, TypeOK
    <3> QED
      BY <3>4, <3>5, <3>6
  <2> QED
    BY <2>1, <2>2
<1>6. ASSUME CInv, Elapse PROVE CInv'
  <2> USE <1>6 DEF Elapse, engineVars
  <2>1. engine' \in EngineState
    BY DEF TypeOK, EngineTypeOK, EngineState
  <2>2. slate' \in SlateState /\ gov' \in GovernorState
    BY DEF TypeOK, EngineTypeOK, SlateState, GovernorState
  <2>3. TypeOK'
    BY <2>1, <2>2 DEF TypeOK, EngineTypeOK
  <2>4. Writers'
    BY DEF TypeOK, EngineTypeOK, EngineState, SlateState
  <2>5. Awake' /\ Leaving'
    BY DEF TypeOK, GovernorState
  <2>6. AtRest'
    BY DEF TypeOK, EngineTypeOK, EngineState, SlateState, GovernorState
  <2> QED
    BY <2>3, <2>4, <2>5, <2>6
<1> QED
  BY <1>1, <1>2, <1>3, <1>4, <1>5, <1>6 DEF Governs

\* A request that goes on, to what is not the switch's: it may stop the engine
\* or give it a camera, and only one of the switch starts it.
LEMMA ClientKeeps ==
  ASSUME CInv, NEW c \in Client, NEW pc \in Camera \cup {"free", "joining"}, Ask(c, pc),
         engine' \in EngineState, child' \in {child, None}, late' \in BOOLEAN, late => late',
         \/ engine'.thread = engine.thread
         \/ request[c] = "start" /\ engine.thread = "none" /\ engine'.thread = "head",
         UNCHANGED <<slate, faulted, source, faults>>,
         UNCHANGED <<gov, reader, seen, wanted, picked, standin, tick, monitor, requests>>
  PROVE  CInv'
<1> USE EngineAssumption, ProgramAssumption DEF CInv
<1>1. pc \notin {"on", "off", "start", "stop"}
  OBVIOUS
<1>2. /\ request' \in [Client -> Camera \cup {"free", "on", "off", "start", "stop", "joining"}]
      /\ \A d \in Client : request'[d] = IF d = c THEN pc ELSE request[d]
  BY DEF Ask, TypeOK
<1>3. TypeOK'
  BY <1>2 DEF TypeOK, EngineTypeOK
<1>4. Writers'
  BY DEF Writers, Alive, None
<1>5. Awake' /\ Leaving'
  BY <1>1, <1>2 DEF Awake, Leaving
<1>6. AtRest'
  BY DEF AtRest, Awake
<1> QED
  BY <1>3, <1>4, <1>5, <1>6

\* The requests of the page.
LEMMA RequestKeeps == CInv /\ (\E c \in Client : Requests(c)) => CInv'
<1>1. ASSUME CInv, NEW c \in Client, NEW on \in BOOLEAN, Switch(c, on) PROVE CInv'
  <2> USE <1>1, EngineAssumption, ProgramAssumption
      DEF Switch, Ask, engineVars, CInv, Writers, Awake, Leaving, AtRest, Alive, None
  <2>1. engine' \in EngineState
    BY DEF TypeOK, EngineTypeOK, EngineState
  <2>2. slate' \in SlateState /\ gov' \in GovernorState
    BY DEF TypeOK, EngineTypeOK, SlateState, GovernorState
  <2>3. TypeOK'
    BY <2>1, <2>2 DEF TypeOK, EngineTypeOK
  <2>4. Writers'
    BY DEF TypeOK, EngineTypeOK, EngineState, SlateState
  <2>5. Awake' /\ Leaving'
    BY DEF TypeOK, GovernorState
  <2>6. AtRest'
    BY DEF TypeOK, EngineTypeOK, EngineState, SlateState, GovernorState
  <2> QED
    BY <2>3, <2>4, <2>5, <2>6
<1>2. ASSUME CInv, NEW c \in Client, Note(c) PROVE CInv'
  <2> USE <1>2, EngineAssumption, ProgramAssumption
      DEF Note, Ask, engineVars, CInv, Writers, Awake, Leaving, AtRest, Alive, None
  <2>1. engine' \in EngineState
    BY DEF TypeOK, EngineTypeOK, EngineState
  <2>2. slate' \in SlateState /\ gov' \in GovernorState
    BY DEF TypeOK, EngineTypeOK, SlateState, GovernorState
  <2>3. TypeOK'
    BY <2>1, <2>2 DEF TypeOK, EngineTypeOK
  <2>4. Writers'
    BY DEF TypeOK, EngineTypeOK, EngineState, SlateState
  <2>5. Awake' /\ Leaving'
    BY DEF TypeOK, GovernorState
  <2>6. AtRest'
    BY DEF TypeOK, EngineTypeOK, EngineState, SlateState, GovernorState
  <2> QED
    BY <2>3, <2>4, <2>5, <2>6
<1>3. ASSUME CInv, NEW c \in Client, SwitchOn(c) PROVE CInv'
  <2>1. /\ UNCHANGED <<slate, faulted, source, faults>>
        /\ UNCHANGED <<gov, reader, seen, wanted, picked, standin, tick, monitor, requests>>
        /\ UNCHANGED <<child, late>> /\ Ask(c, "free") /\ request[c] = "start"
        /\ engine' = Started(engine)
    BY <1>3 DEF SwitchOn
  <2>2. engine \in EngineState /\ late \in BOOLEAN
    BY <1>3 DEF CInv, TypeOK, EngineTypeOK
  <2> QED
    BY <1>3, <2>1, <2>2, StartedKeeps, ClientKeeps
<1>4. ASSUME CInv, NEW c \in Client, SwitchOff(c) PROVE CInv'
  <2>1. /\ UNCHANGED <<slate, faulted, source, faults>>
        /\ UNCHANGED <<gov, reader, seen, wanted, picked, standin, tick, monitor, requests>>
        /\ UNCHANGED late /\ Ask(c, "joining") /\ StopBegun
    BY <1>4 DEF SwitchOff
  <2>2. engine \in EngineState /\ child \in Camera \cup {None} /\ late \in BOOLEAN
    BY <1>4 DEF CInv, TypeOK, EngineTypeOK
  <2> QED
    BY <1>4, <2>1, <2>2, AskedKeeps, ClientKeeps
<1>5. ASSUME CInv, NEW c \in Client, AnswerOff(c) PROVE CInv'
  <2>1. /\ UNCHANGED <<slate, faulted, source, faults>>
        /\ UNCHANGED <<gov, reader, seen, wanted, picked, standin, tick, monitor, requests>>
        /\ UNCHANGED child /\ Ask(c, "free") /\ late' = (late \/ ~ Joined)
        /\ engine' = [engine EXCEPT !.state = "stopped"]
    BY <1>5 DEF AnswerOff
  <2>2. engine \in EngineState
    BY <1>5 DEF CInv, TypeOK, EngineTypeOK
  <2>3. engine' \in EngineState /\ engine'.thread = engine.thread
    BY <2>1, <2>2 DEF EngineState
  <2>4. late' \in BOOLEAN /\ (late => late')
    BY <2>1
  <2> QED
    BY <1>5, <2>1, <2>3, <2>4, ClientKeeps
<1>6. ASSUME CInv, NEW c \in Client, NEW k \in Camera, Pick(c, k) PROVE CInv'
  <2> USE <1>6, EngineAssumption, ProgramAssumption
      DEF Pick, Ask, engineVars, CInv, Writers, Awake, Leaving, AtRest, Alive, None
  <2>1. engine' \in EngineState
    BY DEF TypeOK, EngineTypeOK, EngineState
  <2>2. slate' \in SlateState /\ gov' \in GovernorState
    BY DEF TypeOK, EngineTypeOK, SlateState, GovernorState
  <2>3. TypeOK'
    BY <2>1, <2>2 DEF TypeOK, EngineTypeOK
  <2>4. Writers'
    BY DEF TypeOK, EngineTypeOK, EngineState, SlateState
  <2>5. Awake' /\ Leaving'
    BY DEF TypeOK, GovernorState
  <2>6. AtRest'
    BY DEF TypeOK, EngineTypeOK, EngineState, SlateState, GovernorState
  <2> QED
    BY <2>3, <2>4, <2>5, <2>6
<1>7. ASSUME CInv, NEW c \in Client, GivePicked(c) PROVE CInv'
  <2>1. /\ UNCHANGED <<slate, faulted, source, faults>>
        /\ UNCHANGED <<gov, reader, seen, wanted, picked, standin, tick, monitor, requests>>
        /\ UNCHANGED late /\ Ask(c, "free") /\ request[c] \in Camera
        /\ UNCHANGED <<engine, child>> \/ SpecSet(request[c])
    BY <1>7 DEF GivePicked
  <2>2. engine \in EngineState /\ child \in Camera \cup {None} /\ late \in BOOLEAN
    BY <1>7 DEF CInv, TypeOK, EngineTypeOK
  <2>3. engine' \in EngineState /\ engine'.thread = engine.thread /\ child' \in {child, None}
    BY <2>1, <2>2, AskedKeeps
  <2> QED
    BY <1>7, <2>1, <2>2, <2>3, ClientKeeps
<1> QED
  BY <1>1, <1>2, <1>3, <1>4, <1>5, <1>6, <1>7 DEF Requests, Serve, Settable

\* The monitor's pass.
LEMMA MonitorKeeps == CInv /\ (Pass \/ Ensure \/ StopDelivery) => CInv'
<1> USE EngineAssumption, ProgramAssumption DEF CInv, None
<1>1. ASSUME CInv, Pass PROVE CInv'
  <2>1. /\ UNCHANGED <<engine, child, faulted, source, faults>>
        /\ UNCHANGED <<gov, reader, seen, wanted, tick, request, late, requests>>
    BY <1>1 DEF Pass
  <2>2. slate' = slate \/ slate' = Polled(slate)
    BY <1>1 DEF Pass
  <2>3. slate' \in SlateState /\ slate'.shows = slate.shows /\ (slate.shows = "none" => ~ slate'.alive)
    BY <1>1, <2>2, PolledKeeps DEF TypeOK, EngineTypeOK, Writers
  <2>4. picked' \in Camera
    BY <1>1 DEF Pass, TypeOK, EngineTypeOK
  <2>5. standin' \in Camera \cup {None} /\ monitor' \in Camera \cup {"free", "unwanted"}
    <3>1. CASE ~ wanted \/ gov.state = "idle"
      BY <1>1, <3>1 DEF Pass, TypeOK
    <3>2. CASE wanted /\ gov.state # "idle"
      <4>1. PICK s \in StandIns(picked') :
              /\ standin' = s
              /\ monitor' = IF Settles(Chosen(picked', s)) THEN "free" ELSE Chosen(picked', s)
        BY <1>1, <3>2 DEF Pass
      <4>2. s \in Camera \cup {None}
        BY <1>1, <4>1 DEF StandIns, TypeOK
      <4>3. Chosen(picked', s) \in Camera
        BY <2>4, <4>2 DEF Chosen, Listed
      <4> QED
        BY <4>1, <4>2, <4>3
    <3> QED
      BY <3>1, <3>2
  <2>6. monitor' = "unwanted" => ~ wanted \/ monitor = "unwanted"
    <3>1. CASE ~ wanted \/ gov.state = "idle"
      BY <1>1, <3>1 DEF Pass
    <3>2. CASE wanted /\ gov.state # "idle"
      <4>1. PICK s \in StandIns(picked') :
              monitor' = IF Settles(Chosen(picked', s)) THEN "free" ELSE Chosen(picked', s)
        BY <1>1, <3>2 DEF Pass
      <4>2. s \in Camera \cup {None}
        BY <1>1, <4>1 DEF StandIns, TypeOK
      <4>3. Chosen(picked', s) \in Camera
        BY <2>4, <4>2 DEF Chosen, Listed
      <4> QED
        BY <4>1, <4>3, ProgramAssumption
    <3> QED
      BY <3>1, <3>2
  <2>7. TypeOK'
    BY <1>1, <2>1, <2>3, <2>4, <2>5 DEF TypeOK, EngineTypeOK
  <2>8. Writers' /\ Awake' /\ AtRest'
    BY <1>1, <2>1, <2>3 DEF Writers, Awake, AtRest, Alive
  <2>9. Leaving'
    BY <1>1, <2>1, <2>6 DEF Leaving, AtRest
  <2> QED
    BY <2>7, <2>8, <2>9
<1>2. ASSUME CInv, Ensure PROVE CInv'
  <2>1. /\ UNCHANGED <<slate, faulted, source, faults>>
        /\ UNCHANGED <<gov, reader, seen, wanted, picked, standin, tick, request, late, requests>>
        /\ monitor \in Camera /\ monitor' = "free"
        /\ UNCHANGED <<engine, child>> \/ SpecSet(monitor)
    BY <1>2 DEF Ensure
  <2>2. /\ engine' \in EngineState /\ engine'.thread = engine.thread
        /\ child' \in {child, None}
    BY <1>2, <2>1, AskedKeeps DEF TypeOK, EngineTypeOK
  <2>3. TypeOK'
    BY <1>2, <2>1, <2>2 DEF TypeOK, EngineTypeOK
  <2>4. Writers' /\ Awake' /\ Leaving' /\ AtRest'
    BY <1>2, <2>1, <2>2 DEF Writers, Awake, Leaving, AtRest, Alive
  <2> QED
    BY <2>3, <2>4
<1>3. ASSUME CInv, StopDelivery PROVE CInv'
  <2>1. /\ UNCHANGED <<engine, child, faulted, source, faults>>
        /\ UNCHANGED <<gov, reader, seen, wanted, picked, standin, tick, request, late, requests>>
        /\ slate' = NoSlate /\ monitor = "unwanted" /\ monitor' = "free"
    BY <1>3 DEF StopDelivery
  <2>2. slate'.shows = "none" /\ ~ slate'.alive /\ slate' \in SlateState
    BY <2>1 DEF NoSlate, SlateState
  <2>3. TypeOK'
    BY <1>3, <2>1, <2>2 DEF TypeOK, EngineTypeOK
  <2>4. Writers' /\ Awake' /\ Leaving'
    BY <1>3, <2>1, <2>2 DEF Writers, Awake, Leaving, Alive
  <2>5. AtRest'
    BY <1>3, <2>1, <2>2 DEF AtRest, Leaving
  <2> QED
    BY <2>3, <2>4, <2>5
<1> QED
  BY <1>1, <1>2, <1>3

\* Nothing happens.
LEMMA CameraIdle == CInv /\ UNCHANGED vars => CInv'
BY DEF CInv, TypeOK, EngineTypeOK, Writers, Awake, Leaving, AtRest, Alive, vars, engineVars

\* Every step keeps the invariant.
LEMMA CameraInvariant == Spec => []CInv
<1>1. CInv /\ [Next]_vars => CInv'
  BY EngineKeeps, GovernorKeeps, RequestKeeps, MonitorKeeps, CameraIdle DEF Next, Monitors, Governs, Requests
<1> QED
  BY CameraInit, <1>1, PTL DEF Spec

\* Types of the engine, the slate, the governor and the requests.
THEOREM CameraTypeCorrect == Spec => []TypeOK
BY CameraInvariant, PTL DEF CInv

\* The child and the slate never both write the program node
\* (engine/slate.py: "Exactly one of the two writes the node at any moment").
THEOREM OneWriterAlways == Spec => []OneWriter
<1>1. CInv => OneWriter
  BY DEF CInv, TypeOK, EngineTypeOK, Writers, OneWriter, TwoWriters, Alive
<1> QED
  BY CameraInvariant, <1>1, PTL

\* A resting engine is covered by the placeholder, whatever passes, requests
\* and guards come late (engine/idle.py, console/delivery.py park).
THEOREM RestCovered == Spec => []RestIsCovered
<1>1. CInv => RestIsCovered
  BY DEF CInv, AtRest, RestIsCovered
<1> QED
  BY CameraInvariant, <1>1, PTL
=============================================================================
