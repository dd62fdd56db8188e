-------------------------- MODULE SupervisorProofs --------------------------
(***************************************************************************)
(* Theorems about the supervision pass: Supervisor, and at the end         *)
(* AdaptController, which a pass consults last.  First, no encoder process *)
(* is left running that nobody will stop, and an exclusive device has one  *)
(* reader: what the operators on State make of the processes.  Then, the   *)
(* run tells what is sent, and a change is tried twice at most: what they  *)
(* make of it with whatever the switch decides.                            *)
(***************************************************************************)
EXTENDS Supervisor, AdaptController, FiniteSetTheorems, TLAPS

\* The records the operators work on have the fields that matter here.
Shaped(s) ==
  /\ {"roles", "run", "proc", "overlap", "tries"} \subseteq DOMAIN s
  /\ {"up", "settings", "choice", "pending", "gens", "failures", "bad", "noticed", "failed"}
       \subseteq DOMAIN s.run
  /\ {"begun", "made", "running", "dead", "exiting", "stopping"} \subseteq DOMAIN s.proc

\* Every process is one that was started; the next one is new.
Known(s) ==
  /\ s.proc.begun \in Nat
  /\ s.run.gens \subseteq 1 .. s.proc.begun
  /\ s.proc.running \subseteq 1 .. s.proc.begun
  /\ s.proc.dead \subseteq 1 .. s.proc.begun

\* Every process that runs is listed in the run or being stopped, and one that
\* was given up is being stopped.
Held(s) ==
  /\ s.proc.running \subseteq s.run.gens \cup s.proc.stopping
  /\ s.proc.running \cap s.proc.dead \subseteq s.proc.stopping

Kept(s) == Shaped(s) /\ Known(s) /\ Held(s)

\* The processes that hold the device.
Readers(s) == s.proc.running \ s.proc.stopping
Alone(s) == \A a, b \in Readers(s) : a = b

\* What is true of a state the operators leave: an exclusive device has one reader.
Good(s) == Kept(s) /\ (Exclusive => Alone(s))

\* What they have in common where no process is touched.
SameProcesses(s, t) ==
  t.run.gens = s.run.gens /\ t.proc = s.proc
-----------------------------------------------------------------------------
LEMMA SpawnKeeps ==
  ASSUME NEW s, Kept(s), NEW with
  PROVE  /\ Kept(Spawn(s, with))
         /\ Readers(Spawn(s, with)) \subseteq Readers(s) \cup {s.proc.begun + 1}
         /\ Spawn(s, with).run.up = s.run.up
<1> DEFINE t == Spawn(s, with)
<1> DEFINE g == s.proc.begun + 1
<1>1. /\ Shaped(t)
      /\ t.proc.begun = g /\ t.proc.running = s.proc.running \cup {g}
      /\ t.proc.dead = s.proc.dead /\ t.proc.stopping = s.proc.stopping
      /\ t.run.gens = s.run.gens \cup {g} /\ t.run.up = s.run.up
  BY DEF Kept, Shaped, Spawn
<1>2. Known(t) /\ Held(t)
  <2> HIDE DEF t
  <2> QED BY <1>1 DEF Kept, Known, Held
<1>3. Readers(t) \subseteq Readers(s) \cup {g}
  <2> HIDE DEF t
  <2> QED BY <1>1 DEF Readers
<1> QED BY <1>1, <1>2, <1>3 DEF Kept

LEMMA BeginSwapKeeps ==
  ASSUME NEW s, Kept(s)
  PROVE  Kept(BeginSwap(s)) /\ SameProcesses(s, BeginSwap(s)) /\ BeginSwap(s).run = s.run
BY DEF Kept, Shaped, Known, Held, SameProcesses, BeginSwap

LEMMA RetireKeeps ==
  ASSUME NEW s, Kept(s), NEW G, G \subseteq s.run.gens
  PROVE  /\ Kept(Retire(s, G)) /\ Readers(Retire(s, G)) \subseteq Readers(s)
         /\ Retire(s, G).run.up = s.run.up
<1> DEFINE t == Retire(s, G)
<1>1. /\ Shaped(t)
      /\ t.proc.begun = s.proc.begun /\ t.proc.running = s.proc.running
      /\ t.proc.dead = s.proc.dead \cup G
      /\ t.proc.stopping = s.proc.stopping \cup (G \cap s.proc.running)
      /\ t.run.gens = s.run.gens \ G /\ t.run.up = s.run.up
  BY DEF Kept, Shaped, Retire
<1>2. Kept(t) /\ Readers(t) \subseteq Readers(s)
  <2> HIDE DEF t
  <2> QED BY <1>1 DEF Kept, Known, Held, Readers
<1> QED BY <1>1, <1>2

\* Once the exclusive device's encoders are stopped nobody holds it.
LEMMA StopOldFrees ==
  ASSUME NEW s, Kept(s), NEW t \in StopOld(s)
  PROVE  Kept(t) /\ Readers(t) = {} /\ t.run.up = s.run.up
<1> DEFINE old == s.run.gens \ s.proc.dead
<1>1. PICK e : t = [s EXCEPT !.roles = e, !.run.gens = {},
                             !.proc.dead = @ \cup old, !.proc.running = @ \ old]
  BY DEF StopOld
<1>2. /\ Shaped(t)
      /\ t.proc.begun = s.proc.begun /\ t.proc.running = s.proc.running \ old
      /\ t.proc.dead = s.proc.dead \cup old /\ t.proc.stopping = s.proc.stopping
      /\ t.run.gens = {} /\ t.run.up = s.run.up
  BY <1>1 DEF Kept, Shaped
<1> QED BY <1>2 DEF Kept, Known, Held, Readers

LEMMA SwapVideoKeeps ==
  ASSUME NEW s, Good(s), NEW with, NEW attempt, NEW t \in SwapVideo(s, with, attempt)
  PROVE  Good(t) /\ t.run.up = s.run.up
<1>1. PICK e \in Choices(s), u \in IF Exclusive THEN StopOld(s) ELSE {s} :
        t = Swapped(s, u, with, attempt, e)
  BY DEF SwapVideo
<1> DEFINE v == Spawn(u, with)
<1> DEFINE w == [v EXCEPT
              !.run.pending = [gen |-> u.proc.begun + 1, settings |-> with, choice |-> e,
                               attempt |-> IF Exclusive THEN 1 ELSE attempt],
              !.overlap = @ \/ s.run.pending # NoSwap,
              !.tries = IF attempt = 1 THEN 1 ELSE @ + 1]
<1>2. Kept(u) /\ (Exclusive => Readers(u) = {}) /\ u.run.up = s.run.up
  BY StopOldFrees DEF Good
<1>3. Kept(v) /\ (Exclusive => Alone(v)) /\ v.run.up = s.run.up
  <2>1. Kept(v) /\ Readers(v) \subseteq Readers(u) \cup {u.proc.begun + 1} /\ v.run.up = u.run.up
    BY <1>2, SpawnKeeps
  <2> HIDE DEF v
  <2> QED BY <1>2, <2>1 DEF Alone
<1>4. Kept(w) /\ SameProcesses(v, w) /\ w.run.up = v.run.up
  <2> HIDE DEF v
  <2> QED BY <1>3 DEF Kept, Shaped, Known, Held, SameProcesses
<1>5. Kept(t) /\ SameProcesses(w, t) /\ t.run.up = w.run.up
  <2>1. t = BeginSwap(w) BY <1>1 DEF Swapped
  <2> HIDE DEF w
  <2> QED BY <1>4, <2>1, BeginSwapKeeps
<1> HIDE DEF v, w
<1> QED BY <1>3, <1>4, <1>5 DEF Good, SameProcesses, Alone, Readers

\* What changes neither the processes nor which of them are listed.
LEMMA SameKeeps ==
  ASSUME NEW s, Good(s), NEW t, Shaped(t), SameProcesses(s, t)
  PROVE  Good(t)
BY DEF Good, Kept, Known, Held, SameProcesses, Alone, Readers

LEMMA UndoneKeeps ==
  ASSUME NEW s, Good(s)
  PROVE  Good(Undone(s)) /\ Undone(s).run.up = s.run.up
<1> DEFINE u == [s EXCEPT !.run.pending = NoSwap]
<1> DEFINE G == {s.run.pending.gen} \cap s.run.gens
<1>1. Shaped(u) /\ SameProcesses(s, u) /\ u.run.up = s.run.up
  BY DEF Good, Kept, Shaped, SameProcesses
<1>2. Good(u) BY <1>1, SameKeeps
<1>3. G \subseteq u.run.gens BY <1>1 DEF SameProcesses
<1>4. Undone(s) = Retire(u, G) BY DEF Undone
<1> HIDE DEF u, G
<1> QED BY <1>1, <1>2, <1>3, <1>4, RetireKeeps DEF Good, Alone

LEMMA ReconcileKeeps ==
  ASSUME NEW s, Good(s), NEW t \in Reconcile(s)
  PROVE  Good(t) /\ t.run.up = s.run.up
<1>1. \/ t = Committed(s) \/ t = Undone(s) \/ t = s
      \/ t \in SwapVideo(Undone(s), s.run.pending.settings, s.run.pending.attempt + 1)
  BY DEF Reconcile
<1>2. Good(Committed(s)) /\ Committed(s).run.up = s.run.up
  <2>1. /\ Shaped(Committed(s)) /\ SameProcesses(s, Committed(s))
        /\ Committed(s).run.up = s.run.up
    BY DEF Good, Kept, Shaped, SameProcesses, Committed
  <2> QED BY <2>1, SameKeeps
<1> QED BY <1>1, <1>2, UndoneKeeps, SwapVideoKeeps

\* A run is restarted when every encoder it lists is dead, so none holds the
\* device.
LEMMA RestartedKeeps ==
  ASSUME NEW s, Good(s), s.run.gens \ s.proc.dead = {}, NEW t \in Restarted(s)
  PROVE  Good(t) /\ t.run.up = s.run.up
<1>1. PICK e : t = BeginSwap(Spawn([s EXCEPT !.run.gens = {}, !.run.noticed = FALSE,
                                             !.run.choice = e], s.run.settings))
  BY DEF Restarted
<1> DEFINE u == [s EXCEPT !.run.gens = {}, !.run.noticed = FALSE, !.run.choice = e]
<1> DEFINE v == Spawn(u, s.run.settings)
<1>2. Kept(u) /\ Readers(u) = {} /\ u.run.up = s.run.up
  <2>1. /\ Shaped(u) /\ u.proc = s.proc /\ u.run.gens = {} /\ u.run.up = s.run.up
    BY DEF Good, Kept, Shaped
  <2> HIDE DEF u
  <2> QED BY <2>1 DEF Good, Kept, Known, Held, Readers
<1>3. Kept(v) /\ Alone(v) /\ v.run.up = u.run.up
  <2> HIDE DEF u
  <2>1. Kept(v) /\ Readers(v) \subseteq Readers(u) \cup {u.proc.begun + 1} /\ v.run.up = u.run.up
    BY <1>2, SpawnKeeps
  <2> HIDE DEF v
  <2> QED BY <1>2, <2>1 DEF Alone
<1>4. Kept(t) /\ SameProcesses(v, t) /\ t.run.up = v.run.up
  <2>1. t = BeginSwap(v) BY <1>1
  <2> HIDE DEF v
  <2> QED BY <1>3, <2>1, BeginSwapKeeps
<1> HIDE DEF u, v
<1> QED BY <1>2, <1>3, <1>4 DEF Good, SameProcesses, Alone, Readers

LEMMA ReviveKeeps ==
  ASSUME NEW s, Good(s), NEW due, NEW fast, NEW t \in Revive(s, due, fast)
  PROVE  Good(t) /\ t.run.up = s.run.up
<1>1. \/ t = s \/ t = [s EXCEPT !.run.noticed = FALSE] \/ t = Noticed(s, fast)
      \/ t = [s EXCEPT !.run.failed = TRUE]
      \/ s.run.gens \ s.proc.dead = {} /\ t \in Restarted(s)
  BY DEF Revive
<1>2. ASSUME NEW u, \/ u = [s EXCEPT !.run.noticed = FALSE] \/ u = Noticed(s, fast)
                    \/ u = [s EXCEPT !.run.failed = TRUE]
      PROVE  Good(u) /\ u.run.up = s.run.up
  <2>1. Shaped(s) BY DEF Good, Kept
  <2>2. CASE u = Noticed(s, fast)
    <3>1. Shaped(u) /\ SameProcesses(s, u) /\ u.run.up = s.run.up
      BY <2>1, <2>2 DEF Shaped, SameProcesses, Noticed
    <3> QED BY <3>1, SameKeeps
  <2>3. CASE u # Noticed(s, fast)
    <3>1. Shaped(u) /\ SameProcesses(s, u) /\ u.run.up = s.run.up
      BY <1>2, <2>1, <2>3 DEF Shaped, SameProcesses
    <3> QED BY <3>1, SameKeeps
  <2> QED BY <2>2, <2>3
<1> QED BY <1>1, <1>2, RestartedKeeps
-----------------------------------------------------------------------------
\* No encoder is listed where there is no run, and a pass has one.
Down ==
  /\ ~ run.up => run.gens = {}
  /\ phase # "idle" => run.up

SInv == Good(State) /\ Down

\* What the variables are after a state was committed.
LEMMA CommitGood ==
  ASSUME NEW s, Good(s), Commit(s), device' = device
  PROVE  Good(State)' /\ run'.up = s.run.up /\ run' = s.run
<1>1. /\ State'.run = s.run /\ State'.proc = s.proc
      /\ DOMAIN State' = {"roles", "run", "proc", "overlap", "tries"}
  BY DEF State, Commit
<1>2. Shaped(State') BY <1>1 DEF Good, Kept, Shaped
<1>3. Known(State') /\ Held(State') BY <1>1 DEF Good, Kept, Known, Held
<1>4. Readers(State') = Readers(s) BY <1>1 DEF Readers
<1>5. Exclusive' => Alone(State') BY <1>4 DEF Good, Exclusive, Alone
<1> QED BY <1>2, <1>3, <1>5 DEF Good, Kept, Commit, Shaped, Known, Held, Alone, Readers

\* The same, said of the variables.
LEMMA GoodProcesses ==
  SInv => /\ Good(State) /\ State.run = run /\ State.proc = proc
BY DEF SInv, State

LEMMA InitSInv == Init => SInv
<1> SUFFICES ASSUME Init PROVE SInv OBVIOUS
<1>1. /\ ~ run.up /\ run.gens = {} /\ proc.begun = 0 /\ proc.running = {}
      /\ proc.dead = {} /\ proc.stopping = {} /\ phase = "idle"
  BY DEF Init, NoRun, NewRun
<1>2. Shaped(State) BY DEF Init, NoRun, NewRun, Shaped, State
<1>3. Known(State) /\ Held(State) /\ Alone(State)
  BY <1>1 DEF Known, Held, Alone, Readers, State
<1> QED BY <1>1, <1>2, <1>3 DEF SInv, Good, Kept, Down

LEMMA StartKeeps == ASSUME SInv, NEW e, Start(e) PROVE SInv'
<1> DEFINE s == [State EXCEPT !.run = NewRun(effective, e), !.roles = Switch!NoRoles]
<1> DEFINE t == Spawn(s, effective)
<1>1. Kept(s) /\ Readers(s) = {} /\ s.run.up
  <2>1. /\ Shaped(s) /\ s.proc = proc /\ s.run.gens = {} /\ s.run.up
    BY DEF SInv, Good, Kept, Shaped, State, NewRun
  <2>2. run.gens = {} BY DEF SInv, Down, Start
  <2> HIDE DEF s
  <2> QED BY <2>1, <2>2 DEF SInv, Good, Kept, Known, Held, Readers, State
<1>2. Kept(t) /\ Alone(t) /\ t.run.up
  <2> HIDE DEF s
  <2>1. Kept(t) /\ Readers(t) \subseteq Readers(s) \cup {s.proc.begun + 1} /\ t.run.up = s.run.up
    BY <1>1, SpawnKeeps
  <2> HIDE DEF t
  <2> QED BY <1>1, <2>1 DEF Alone
<1> DEFINE u == BeginSwap(t)
<1>3. Kept(u) /\ Alone(u) /\ u.run.up
  <2> HIDE DEF t
  <2>1. Kept(u) /\ SameProcesses(t, u) /\ u.run = t.run BY <1>2, BeginSwapKeeps
  <2> HIDE DEF u
  <2> QED BY <1>2, <2>1 DEF SameProcesses, Alone, Readers
<1>4. Commit(u) /\ phase' = phase /\ phase = "idle" BY DEF Start
<1> HIDE DEF u
<1>5. State'.run = u.run /\ State'.proc = u.proc
      /\ DOMAIN State' = {"roles", "run", "proc", "overlap", "tries"} /\ run' = u.run
  BY <1>4 DEF State, Commit
<1>6. Shaped(State') BY <1>3, <1>5 DEF Kept, Shaped
<1>7. Known(State') /\ Held(State') /\ Alone(State')
  BY <1>3, <1>5 DEF Kept, Known, Held, Alone, Readers
<1>8. Down' BY <1>3, <1>4, <1>5 DEF Down
<1> QED BY <1>6, <1>7, <1>8 DEF SInv, Good, Kept, Shaped, Known, Held, Alone, Readers

\* A step that changes the processes itself: what it must keep.
LEMMA ProcessesKeep ==
  ASSUME SInv,
         device' = device,
         Shaped(State)', Known(State)', Held(State)',
         proc'.running \ proc'.stopping \subseteq proc.running \ proc.stopping,
         Down'
  PROVE  SInv'
<1>1. Readers(State') \subseteq Readers(State) BY DEF Readers, State
<1>2. Exclusive' => Alone(State') BY <1>1 DEF SInv, Good, Exclusive, Alone
<1> QED BY <1>2 DEF SInv, Good, Kept, Alone, Readers

\* A step that leaves run and processes alone.
LEMMA ElsewhereKeeps ==
  ASSUME SInv, UNCHANGED <<device, run, proc>>, phase' = phase \/ phase' = "idle"
  PROVE  SInv'
<1>1. State'.run = State.run /\ State'.proc = State.proc
      /\ DOMAIN State' = {"roles", "run", "proc", "overlap", "tries"}
  BY DEF State
<1>2. Shaped(State') BY <1>1 DEF SInv, Good, Kept, Shaped
<1>3. Known(State') /\ Held(State') BY <1>1 DEF SInv, Good, Kept, Known, Held
<1>4. Down' BY DEF SInv, Down
<1> QED BY <1>2, <1>3, <1>4, ProcessesKeep DEF Shaped, Known, Held

LEMMA StopKeeps == ASSUME SInv, Stop PROVE SInv'
<1>1. /\ ~ run'.up /\ run'.gens = {} /\ phase' = "idle" /\ device' = device
      /\ proc' = [proc EXCEPT !.dead = @ \cup run.gens, !.running = @ \ run.gens, !.exiting = {}]
  BY DEF Stop, NoRun, NewRun
<1>2. Shaped(State)' BY <1>1 DEF SInv, Good, Kept, Shaped, State, Stop, NoRun, NewRun
<1>3. /\ proc'.begun = proc.begun /\ proc'.dead = proc.dead \cup run.gens
      /\ proc'.running = proc.running \ run.gens /\ proc'.stopping = proc.stopping
  BY <1>1 DEF SInv, Good, Kept, Shaped, State
<1>4. Known(State)' /\ Held(State)'
  BY <1>1, <1>3 DEF SInv, Good, Kept, Known, Held, State
<1>5. Down' BY <1>1 DEF Down
<1> QED BY <1>1, <1>2, <1>3, <1>4, <1>5, ProcessesKeep

\* A request or a pass that commits a state made by the operators.
LEMMA CommitKeeps ==
  ASSUME SInv, NEW s, Good(s), s.run.up, Commit(s), device' = device
  PROVE  SInv'
BY CommitGood DEF SInv, Down

LEMMA AppliedKeeps ==
  ASSUME SInv, NEW with, NEW s, s \in Applied(with) \/ s \in Replanned(with)
  PROVE  Good(s) /\ s.run.up = run.up
<1>1. s = State \/ s \in SwapVideo(State, with, 1) BY DEF Applied, Replanned
<1>2. Good(State) /\ State.run.up = run.up BY DEF SInv, State
<1> QED BY <1>1, <1>2, SwapVideoKeeps

LEMMA SetKeeps == ASSUME SInv, NEW with, NEW kind, Set(with, kind) PROVE SInv'
<1>1. PICK s \in IF ~ run.up \/ with = effective THEN {State}
                 ELSE IF kind = "codec" THEN Replanned(with) ELSE Applied(with) : Commit(s)
  BY DEF Set
<1>2. s = State \/ (run.up /\ (s \in Applied(with) \/ s \in Replanned(with)))
  BY DEF Set
<1>3. CASE s = State
  BY <1>1, <1>3, ElsewhereKeeps DEF Commit, State, Set
<1>4. CASE run.up /\ (s \in Applied(with) \/ s \in Replanned(with))
  BY <1>1, <1>4, AppliedKeeps, CommitKeeps DEF Set
<1> QED BY <1>2, <1>3, <1>4

LEMMA PassRetireKeeps == ASSUME SInv, PassRetire PROVE SInv'
<1> DEFINE G == roles.retired \cap run.gens
<1>1. Commit(Retire(State, G)) /\ run.up /\ device' = device BY DEF PassRetire
<1>2. Kept(State) /\ G \subseteq State.run.gens /\ State.run.up = run.up
  BY DEF SInv, Good, State
<1>3. Good(Retire(State, G)) /\ Retire(State, G).run.up
  <2> HIDE DEF G
  <2>1. /\ Kept(Retire(State, G)) /\ Readers(Retire(State, G)) \subseteq Readers(State)
        /\ Retire(State, G).run.up = State.run.up
    BY <1>2, RetireKeeps
  <2> QED BY <1>1, <1>2, <2>1 DEF SInv, Good, Alone
<1> QED BY <1>1, <1>3, CommitKeeps

LEMMA PassRunsKeeps == ASSUME SInv, NEW due, PassRuns(due) PROVE SInv'
<1>1. PICK fast \in BOOLEAN : \E m \in Reconcile(State) : \E s \in Revive(m, due, fast) : Commit(s)
  BY DEF PassRuns
<1>2. PICK m \in Reconcile(State) : \E s \in Revive(m, due, fast) : Commit(s) BY <1>1
<1>3. PICK s \in Revive(m, due, fast) : Commit(s) BY <1>2
<1>4. Good(State) /\ State.run.up /\ device' = device
  BY DEF SInv, Down, State, PassRuns
<1>5. Good(m) /\ m.run.up BY <1>2, <1>4, ReconcileKeeps
<1>6. Good(s) /\ s.run.up BY <1>3, <1>5, ReviveKeeps
<1> QED BY <1>3, <1>4, <1>6, CommitKeeps

LEMMA PassAdaptKeeps == ASSUME SInv, PassAdapt PROVE SInv'
<1>1. CASE UNCHANGED <<run, proc>>
  BY <1>1, ElsewhereKeeps DEF PassAdapt
<1>2. CASE \E with \in Setting \ {effective} : \E s \in Applied(with) : Commit(s)
  <2>1. PICK with \in Setting \ {effective} : \E s \in Applied(with) : Commit(s) BY <1>2
  <2>2. PICK s \in Applied(with) : Commit(s) BY <2>1
  <2>3. run.up /\ device' = device BY DEF SInv, Down, PassAdapt
  <2> QED BY <2>2, <2>3, AppliedKeeps, CommitKeeps
<1> QED BY <1>1, <1>2 DEF PassAdapt

\* A process ends, its end is handled, or a retire thread has ended it.
LEMMA DieKeeps == ASSUME SInv, NEW g, Die(g) PROVE SInv'
<1>1. Shaped(State)' BY DEF SInv, Good, Kept, Shaped, State, Die
<1>2. /\ proc'.begun = proc.begun /\ proc'.running = proc.running \ {g}
      /\ proc'.dead = proc.dead \cup {g} /\ proc'.stopping = proc.stopping
      /\ g \in proc.running /\ UNCHANGED <<run, phase, device>>
  BY DEF SInv, Good, Kept, Shaped, State, Die
<1>3. Known(State)' /\ Held(State)'
  BY <1>2 DEF SInv, Good, Kept, Known, Held, State
<1>4. Down' BY <1>2 DEF SInv, Down
<1> QED BY <1>1, <1>2, <1>3, <1>4, ProcessesKeep

LEMMA ExitHandledKeeps == ASSUME SInv, NEW g, ExitHandled(g) PROVE SInv'
<1>1. Shaped(State)' BY DEF SInv, Good, Kept, Shaped, State, ExitHandled
<1>2. /\ proc'.begun = proc.begun /\ proc'.running = proc.running
      /\ proc'.dead = proc.dead /\ proc'.stopping = proc.stopping
      /\ UNCHANGED <<run, phase, device>>
  BY DEF SInv, Good, Kept, Shaped, State, ExitHandled
<1>3. Known(State)' /\ Held(State)'
  BY <1>2 DEF SInv, Good, Kept, Known, Held, State
<1>4. Down' BY <1>2 DEF SInv, Down
<1> QED BY <1>1, <1>2, <1>3, <1>4, ProcessesKeep

LEMMA StoppedKeeps == ASSUME SInv, NEW g, Stopped(g) PROVE SInv'
<1>1. Shaped(State)' BY DEF SInv, Good, Kept, Shaped, State, Stopped
<1>2. /\ proc'.begun = proc.begun /\ proc'.running = proc.running \ {g}
      /\ proc'.dead = proc.dead /\ proc'.stopping = proc.stopping \ {g}
      /\ UNCHANGED <<run, phase, device>>
  BY DEF SInv, Good, Kept, Shaped, State, Stopped
<1>3. Known(State)' /\ Held(State)'
  BY <1>2 DEF SInv, Good, Kept, Known, Held, State
<1>4. Down' BY <1>2 DEF SInv, Down
<1> QED BY <1>1, <1>2, <1>3, <1>4, ProcessesKeep

LEMMA StepSInv == SInv /\ [Next]_vars => SInv'
<1> SUFFICES ASSUME SInv, [Next]_vars PROVE SInv' OBVIOUS
<1>1. ASSUME NEW e \in Encoder, Start(e) PROVE SInv' BY <1>1, StartKeeps
<1>2. CASE Stop BY <1>2, StopKeeps
<1>3. ASSUME NEW with \in Setting, NEW kind \in {"codec", "encode"}, Set(with, kind) PROVE SInv'
  BY <1>3, SetKeeps
<1>4. CASE PassRetire BY <1>4, PassRetireKeeps
<1>5. ASSUME NEW due \in BOOLEAN, PassRuns(due) PROVE SInv' BY <1>5, PassRunsKeeps
<1>6. CASE PassAdapt BY <1>6, PassAdaptKeeps
<1>7. CASE SwitchCompletes BY <1>7, ElsewhereKeeps DEF SwitchCompletes
<1>8. CASE SwitchGivesUp BY <1>8, ElsewhereKeeps DEF SwitchGivesUp
<1>9. ASSUME NEW g \in Gen, Die(g) PROVE SInv' BY <1>9, DieKeeps
<1>10. ASSUME NEW g \in Gen, ExitHandled(g) PROVE SInv' BY <1>10, ExitHandledKeeps
<1>11. ASSUME NEW g \in Gen, Stopped(g) PROVE SInv' BY <1>11, StoppedKeeps
<1>12. CASE UNCHANGED vars BY <1>12, ElsewhereKeeps DEF vars
<1> QED BY <1>1, <1>2, <1>3, <1>4, <1>5, <1>6, <1>7, <1>8, <1>9, <1>10, <1>11, <1>12 DEF Next

\* However swaps, deaths, retries and requests interleave, every encoder process
\* that runs is one the run lists or a retire thread is stopping (_retire,
\* _swap_video, _revive, _stop_run).
THEOREM NoProcessLeaks == Spec => []NoLeak
<1>1. SInv => NoLeak BY DEF SInv, Good, Kept, Held, NoLeak, State
<1> QED BY InitSInv, StepSInv, <1>1, PTL DEF Spec

\* An exclusive capture device is never opened by a second encoder while the
\* first holds it, unless a retire thread is stopping that one (_swap_video).
THEOREM ExclusiveHasOneReader == Spec => []OneReader
<1>1. SInv => OneReader
  <2> SUFFICES ASSUME SInv, Exclusive PROVE Cardinality(proc.running \ proc.stopping) <= 1
    BY DEF OneReader
  <2> DEFINE R == proc.running \ proc.stopping
  <2>1. \A a, b \in R : a = b BY DEF SInv, Good, Alone, Readers, State
  <2>2. CASE R = {}
    <3>1. Cardinality(R) = 0 BY <2>2, FS_EmptySet
    <3> QED BY <3>1
  <2>3. CASE R # {}
    <3>1. PICK a \in R : TRUE BY <2>3
    <3>2. R = {a} BY <2>1, <3>1
    <3>3. Cardinality(R) = 1 BY <3>2, FS_Singleton
    <3> QED BY <3>3
  <2> QED BY <2>2, <2>3
<1> QED BY InitSInv, StepSInv, <1>1, PTL DEF Spec
-----------------------------------------------------------------------------
(* What the run says of the encoder on air, and how often a change was      *)
(* tried.                                                                   *)

\* Roles as the switch keeps them, of n generations.
RolesIn(r, n) ==
  /\ {"active", "pending", "retired"} \subseteq DOMAIN r
  /\ r.active \in 0 .. n /\ r.pending \in 0 .. n
  /\ r.active = 0 => r.pending = 0
  /\ r.active # 0 => r.active # r.pending

\* Nobody has come on air who did not wait for it.
From(r, q) ==
  /\ q.active \in {r.active, r.pending, 0}
  /\ q.pending \in {r.pending, 0}

\* Processes that run and were not given up.
Alive(s) == s.proc.running \ s.proc.dead

\* Between swaps whoever is on air, or waits for it, was made with the run's
\* settings; during one, whoever is on air and not its new encoder was.
Matches(s) ==
  /\ s.run.pending = NoSwap =>
       \A x \in Alive(s) : x \in {s.roles.active, s.roles.pending} =>
         s.proc.made[x] = s.run.settings
  /\ s.run.pending # NoSwap =>
       /\ s.run.pending.gen \in 1 .. s.proc.begun
       /\ s.proc.made[s.run.pending.gen] = s.run.pending.settings
       /\ s.roles.pending \in {0, s.run.pending.gen}
       /\ \A x \in Alive(s) : x = s.roles.active /\ x # s.run.pending.gen =>
            s.proc.made[x] = s.run.settings

Sent(s) ==
  /\ RolesIn(s.roles, s.proc.begun)
  /\ s.proc.stopping \subseteq s.proc.dead
  /\ ~ s.overlap => Matches(s)

\* Where the attempt is carried along, it counts the tries.
Counted(s) ==
  ~ Exclusive =>
    /\ s.tries \in 0 .. 2
    /\ s.run.pending # NoSwap =>
         s.run.pending.attempt \in 1 .. 2 /\ s.tries <= s.run.pending.attempt

\* What the properties need of s and a later t is the same.
Carried(s, t) ==
  /\ t.run.pending = s.run.pending /\ t.run.settings = s.run.settings
  /\ t.proc.begun = s.proc.begun /\ t.proc.made = s.proc.made
  /\ t.overlap = s.overlap /\ t.tries = s.tries

Sound(s) == Good(s) /\ Sent(s) /\ Counted(s)
-----------------------------------------------------------------------------
LEMMA EndedFrom ==
  ASSUME NEW r, NEW n \in Nat, RolesIn(r, n), NEW g, NEW q \in Switch!Ended(r, g)
  PROVE  RolesIn(q, n) /\ From(r, q)
<1>1. \/ q = Switch!GivenUp(r)
      \/ q = Switch!Lost(r) /\ r.pending = 0
      \/ q = Switch!Completed(r) /\ r.pending # 0
      \/ q = r
  BY DEF Switch!Ended, Switch!NoGen
<1>2. CASE q = Switch!GivenUp(r)
  BY <1>2 DEF RolesIn, From, Switch!GivenUp, Switch!NoGen
<1>3. CASE q = Switch!Lost(r) /\ r.pending = 0
  BY <1>3 DEF RolesIn, From, Switch!Lost, Switch!NoGen
<1>4. CASE q = Switch!Completed(r) /\ r.pending # 0
  BY <1>4 DEF RolesIn, From, Switch!Completed, Switch!NoGen
<1>5. CASE q = r BY <1>5 DEF From
<1> QED BY <1>1, <1>2, <1>3, <1>4, <1>5

LEMMA FromTransitive ==
  ASSUME NEW r, NEW m, NEW q, From(r, m), From(m, q)
  PROVE  From(r, q)
BY DEF From

\* Whatever ends or is given up: what is sent still matches.
LEMMA SentShrinks ==
  ASSUME NEW s, Sent(s), 0 \notin Alive(s), NEW t, Carried(s, t),
         RolesIn(t.roles, t.proc.begun), From(s.roles, t.roles),
         Alive(t) \subseteq Alive(s), t.proc.stopping \subseteq t.proc.dead
  PROVE  Sent(t)
<1> SUFFICES ASSUME ~ t.overlap PROVE Matches(t) BY DEF Sent
<1>1. Matches(s) BY DEF Sent, Carried
<1>2. CASE s.run.pending = NoSwap
  <2> SUFFICES ASSUME NEW x \in Alive(t), x \in {t.roles.active, t.roles.pending}
               PROVE  t.proc.made[x] = t.run.settings
    BY <1>2 DEF Matches, Carried
  <2>1. x \in Alive(s) /\ x \in {s.roles.active, s.roles.pending} BY DEF From
  <2> QED BY <1>1, <1>2, <2>1 DEF Matches, Carried
<1>3. CASE s.run.pending # NoSwap
  <2>1. /\ s.run.pending.gen \in 1 .. s.proc.begun
        /\ s.proc.made[s.run.pending.gen] = s.run.pending.settings
        /\ s.roles.pending \in {0, s.run.pending.gen}
    BY <1>1, <1>3 DEF Matches
  <2>2. ASSUME NEW x \in Alive(t), x = t.roles.active, x # s.run.pending.gen
        PROVE  t.proc.made[x] = t.run.settings
    <3>1. x \in Alive(s) /\ x = s.roles.active BY <2>1, <2>2 DEF From
    <3>2. s.proc.made[x] = s.run.settings BY <1>1, <1>3, <2>2, <3>1 DEF Matches
    <3> QED BY <3>2 DEF Carried
  <2>3. t.roles.pending \in {0, s.run.pending.gen} BY <2>1 DEF From
  <2> QED BY <1>3, <2>1, <2>2, <2>3 DEF Matches, Carried
<1> QED BY <1>2, <1>3

LEMMA CountedCarried ==
  ASSUME NEW s, Counted(s), NEW t, Carried(s, t)
  PROVE  Counted(t)
BY DEF Counted, Carried

LEMMA NobodyZero == \A s : Good(s) => 0 \notin Alive(s) /\ s.proc.begun \in Nat
BY DEF Good, Kept, Known, Alive

\* A generation that leaves the run: nothing on air changes.
LEMMA RetireSent ==
  ASSUME NEW s, Sound(s), NEW G, G \subseteq s.run.gens
  PROVE  Sent(Retire(s, G)) /\ Carried(s, Retire(s, G)) /\ Retire(s, G).roles = s.roles
<1> DEFINE t == Retire(s, G)
<1>1. /\ Carried(s, t) /\ t.roles = s.roles /\ t.proc.running = s.proc.running
      /\ t.proc.dead = s.proc.dead \cup G
      /\ t.proc.stopping = s.proc.stopping \cup (G \cap s.proc.running)
  BY DEF Sound, Good, Kept, Shaped, Retire, Carried
<1> HIDE DEF t
<1>2. Alive(t) \subseteq Alive(s) /\ t.proc.stopping \subseteq t.proc.dead
  BY <1>1 DEF Sound, Sent, Alive
<1>3. RolesIn(t.roles, t.proc.begun) /\ From(s.roles, t.roles)
  BY <1>1 DEF Sound, Sent, Carried, From
<1>4. 0 \notin Alive(s) /\ Sent(s) BY NobodyZero DEF Sound
<1>5. Sent(t) BY <1>1, <1>2, <1>3, <1>4, SentShrinks
<1> QED BY <1>1, <1>5 DEF t

\* Every process that runs and was not given up is listed.
LEMMA AliveListed ==
  ASSUME NEW s, Good(s), Sent(s)
  PROVE  Alive(s) \subseteq s.run.gens \ s.proc.dead
BY DEF Good, Kept, Held, Sent, Alive

\* Stopping the old encoders leaves none alive.
LEMMA StopOldSent ==
  ASSUME NEW s, Sound(s), NEW t \in StopOld(s)
  PROVE  /\ Carried(s, t) /\ RolesIn(t.roles, t.proc.begun) /\ From(s.roles, t.roles)
         /\ Alive(t) = {} /\ t.proc.stopping \subseteq t.proc.dead
<1> DEFINE old == s.run.gens \ s.proc.dead
<1> DEFINE r == s.roles
<1> DEFINE mids == IF r.active \in old THEN Switch!Ended(r, r.active) ELSE {r}
<1> DEFINE ends == UNION {IF r.pending \in old THEN Switch!Ended(m, r.pending) ELSE {m} : m \in mids}
<1>1. PICK e \in ends : t = [s EXCEPT !.roles = e, !.run.gens = {},
                                      !.proc.dead = @ \cup old, !.proc.running = @ \ old]
  BY DEF StopOld
<1>2. /\ Carried(s, t) /\ t.roles = e /\ t.proc.dead = s.proc.dead \cup old
      /\ t.proc.running = s.proc.running \ old /\ t.proc.stopping = s.proc.stopping
  BY <1>1 DEF Sound, Good, Kept, Shaped, Carried
<1>3. RolesIn(r, s.proc.begun) /\ s.proc.begun \in Nat BY NobodyZero DEF Sound, Sent
<1>4. RolesIn(e, s.proc.begun) /\ From(r, e)
  <2>1. PICK m \in mids : e \in IF r.pending \in old THEN Switch!Ended(m, r.pending) ELSE {m}
    OBVIOUS
  <2>2. RolesIn(m, s.proc.begun) /\ From(r, m)
    <3>1. CASE m \in Switch!Ended(r, r.active) BY <3>1, <1>3, EndedFrom
    <3>2. CASE m = r BY <3>2, <1>3 DEF From
    <3> QED BY <3>1, <3>2
  <2>3. CASE e \in Switch!Ended(m, r.pending)
    <3>1. RolesIn(e, s.proc.begun) /\ From(m, e) BY <2>2, <2>3, <1>3, EndedFrom
    <3> QED BY <2>2, <3>1, FromTransitive
  <2>4. CASE e = m BY <2>2, <2>4
  <2> QED BY <2>1, <2>3, <2>4
<1>5. Alive(s) \subseteq old BY AliveListed DEF Sound
<1> HIDE DEF old
<1>6. Alive(t) = {} BY <1>2, <1>5 DEF Alive
<1>7. t.proc.stopping \subseteq t.proc.dead BY <1>2 DEF Sound, Sent
<1> QED BY <1>2, <1>4, <1>6, <1>7 DEF Carried

\* An encoder is started and handed to the switch: it takes the place that is
\* free, or the switch refuses and this is an overlap.
LEMMA Joins ==
  ASSUME NEW u, Kept(u), RolesIn(u.roles, u.proc.begun), NEW with, NEW w,
         w.roles = u.roles, DOMAIN w = DOMAIN u,
         w.proc = Spawn(u, with).proc
  PROVE  LET t == BeginSwap(w) IN
         /\ t.run = w.run /\ t.proc = w.proc /\ t.tries = w.tries
         /\ ~ t.overlap => ~ w.overlap
         /\ RolesIn(t.roles, t.proc.begun)
         /\ \/ t.overlap
            \/ t.roles.active = u.proc.begun + 1 /\ t.roles.pending = 0
            \/ t.roles.active = u.roles.active /\ t.roles.pending = u.proc.begun + 1
<1> DEFINE t == BeginSwap(w)
<1> DEFINE g == u.proc.begun + 1
<1>0. u.proc.begun \in Nat BY DEF Kept, Known
<1>1. w.proc.begun = g BY DEF Kept, Shaped, Spawn
<1>2. {"roles", "run", "proc", "overlap", "tries"} \subseteq DOMAIN w BY DEF Kept, Shaped
<1>3. CASE Switch!CanBegin(w.roles)
  <2>1. t = [w EXCEPT !.roles = Switch!Begun(@, w.proc.begun)] BY <1>3 DEF BeginSwap
  <2>2. /\ t.run = w.run /\ t.proc = w.proc /\ t.tries = w.tries /\ t.overlap = w.overlap
        /\ t.roles = Switch!Begun(u.roles, g)
    BY <1>1, <1>2, <2>1
  <2>3. CASE u.roles.active = 0
    <3>1. t.roles = [u.roles EXCEPT !.active = g] BY <2>2, <2>3 DEF Switch!Begun, Switch!NoGen
    <3>2. t.roles.active = g /\ t.roles.pending = 0 BY <3>1, <2>3 DEF RolesIn
    <3>3. RolesIn(t.roles, g) BY <3>1, <3>2, <1>0 DEF RolesIn
    <3> QED BY <1>1, <2>2, <3>2, <3>3
  <2>4. CASE u.roles.active # 0
    <3>1. t.roles = [u.roles EXCEPT !.pending = g] BY <2>2, <2>4 DEF Switch!Begun, Switch!NoGen
    <3>2. t.roles.active = u.roles.active /\ t.roles.pending = g BY <3>1 DEF RolesIn
    <3>3. RolesIn(t.roles, g) BY <3>1, <3>2, <2>4, <1>0 DEF RolesIn
    <3> QED BY <1>1, <2>2, <3>2, <3>3
  <2> QED BY <2>3, <2>4
<1>4. CASE ~ Switch!CanBegin(w.roles)
  <2>1. t = [w EXCEPT !.overlap = TRUE] BY <1>4 DEF BeginSwap
  <2>2. t.run = w.run /\ t.proc = w.proc /\ t.tries = w.tries /\ t.overlap /\ t.roles = u.roles
    BY <1>2, <2>1
  <2>3. RolesIn(t.roles, g) BY <2>2, <1>0 DEF RolesIn
  <2> QED BY <1>1, <2>2, <2>3
<1> QED BY <1>3, <1>4

\* A swap is begun: the new encoder carries the settings asked for, and whoever
\* else is alive was there before.
LEMMA SwapVideoSound ==
  ASSUME NEW s, Sound(s), NEW with, NEW attempt, NEW t \in SwapVideo(s, with, attempt),
         ~ Exclusive => attempt = 1 \/ (attempt = 2 /\ s.tries <= 1)
  PROVE  Sound(t)
<1>1. PICK e \in Choices(s), u \in IF Exclusive THEN StopOld(s) ELSE {s} :
        t = Swapped(s, u, with, attempt, e)
  BY DEF SwapVideo
<1> DEFINE g == u.proc.begun + 1
<1> DEFINE v == Spawn(u, with)
<1> DEFINE p == [gen |-> g, settings |-> with, choice |-> e,
                 attempt |-> IF Exclusive THEN 1 ELSE attempt]
<1> DEFINE w == [v EXCEPT !.run.pending = p,
                          !.overlap = @ \/ s.run.pending # NoSwap,
                          !.tries = IF attempt = 1 THEN 1 ELSE @ + 1]
<1>2. /\ Kept(u) /\ Carried(s, u) /\ RolesIn(u.roles, u.proc.begun) /\ From(s.roles, u.roles)
      /\ Alive(u) \subseteq Alive(s) /\ u.proc.stopping \subseteq u.proc.dead
  <2>1. CASE Exclusive
    <3>1. u \in StopOld(s) BY <2>1, <1>1
    <3>2. Kept(u) BY <3>1, StopOldFrees DEF Sound, Good
    <3> QED BY <3>1, <3>2, StopOldSent
  <2>2. CASE ~ Exclusive
    <3>1. u = s BY <2>2, <1>1
    <3> QED BY <3>1 DEF Sound, Good, Sent, Carried, From
  <2> QED BY <2>1, <2>2
<1>3. /\ v.proc.begun = g /\ v.proc.running = u.proc.running \cup {g}
      /\ v.proc.dead = u.proc.dead /\ v.proc.stopping = u.proc.stopping
      /\ v.proc.made = [x \in 1 .. g |-> IF x = g THEN with ELSE u.proc.made[x]]
      /\ v.run.settings = u.run.settings /\ v.roles = u.roles /\ v.overlap = u.overlap
      /\ v.tries = u.tries /\ DOMAIN v = DOMAIN u /\ DOMAIN v.run = DOMAIN u.run
  BY <1>2 DEF Kept, Shaped, Spawn
<1>4. /\ w.proc = v.proc /\ w.run.pending = p /\ w.run.settings = v.run.settings
      /\ w.roles = v.roles /\ w.overlap = (v.overlap \/ s.run.pending # NoSwap)
      /\ w.tries = IF attempt = 1 THEN 1 ELSE v.tries + 1
      /\ DOMAIN w = DOMAIN v
  <2> HIDE DEF v, p
  <2> QED BY <1>2, <1>3 DEF Kept, Shaped
<1>5. t = BeginSwap(w) BY <1>1 DEF Swapped
<1>6. w.roles = u.roles /\ DOMAIN w = DOMAIN u /\ w.proc = Spawn(u, with).proc
  BY <1>3, <1>4
<1> HIDE DEF w, v
<1>7. /\ t.run = w.run /\ t.proc = w.proc /\ t.tries = w.tries
      /\ ~ t.overlap => ~ w.overlap
      /\ RolesIn(t.roles, t.proc.begun)
      /\ t.overlap \/ (t.roles.active = g /\ t.roles.pending = 0)
                   \/ (t.roles.active = u.roles.active /\ t.roles.pending = g)
  BY <1>2, <1>5, <1>6, Joins
<1>8. p.gen = g /\ p.settings = with /\ p.attempt = IF Exclusive THEN 1 ELSE attempt
  OBVIOUS
<1>9. p # NoSwap
  <2>1. p.attempt # 0 BY <1>8
  <2> QED BY <2>1 DEF NoSwap
<1>10. u.proc.begun \in Nat /\ 0 \notin Alive(s) /\ Alive(s) \subseteq 1 .. u.proc.begun
  BY <1>2 DEF Sound, Good, Kept, Known, Alive, Carried
<1> HIDE DEF p
<1>11. Good(t) BY SwapVideoKeeps DEF Sound
<1>12. t.proc.stopping \subseteq t.proc.dead BY <1>2, <1>3, <1>4, <1>7
<1>13. ASSUME ~ t.overlap PROVE Matches(t)
  <2>1. ~ s.overlap /\ s.run.pending = NoSwap
    BY <1>13, <1>2, <1>3, <1>4, <1>7 DEF Carried
  <2>2. t.run.pending = p /\ t.run.settings = s.run.settings
    BY <1>2, <1>3, <1>4, <1>7 DEF Carried
  <2>3. g \in 1 .. t.proc.begun /\ t.proc.made[g] = with
    BY <1>3, <1>4, <1>7, <1>10
  <2>4. t.roles.pending \in {0, g} BY <1>13, <1>7
  <2>5. ASSUME NEW x \in Alive(t), x = t.roles.active, x # g
        PROVE  t.proc.made[x] = t.run.settings
    <3>1. x \in Alive(u) BY <2>5, <1>3, <1>4, <1>7 DEF Alive
    <3>2. x \in Alive(s) BY <3>1, <1>2
    <3>3. x = u.roles.active BY <2>5, <1>13, <1>7
    <3>4. x # 0 /\ x \in {s.roles.active, s.roles.pending} BY <3>2, <3>3, <1>2, <1>10 DEF From
    <3>5. s.proc.made[x] = s.run.settings
      BY <2>1, <3>2, <3>4 DEF Sound, Sent, Matches
    <3>6. t.proc.made[x] = s.proc.made[x]
      BY <2>5, <3>2, <1>2, <1>3, <1>4, <1>7, <1>10 DEF Carried
    <3> QED BY <2>2, <3>5, <3>6
  <2> QED BY <1>8, <1>9, <2>2, <2>3, <2>4, <2>5 DEF Matches
<1>14. Counted(t)
  <2> SUFFICES ASSUME ~ Exclusive
               PROVE  /\ t.tries \in 0 .. 2
                      /\ t.run.pending.attempt \in 1 .. 2 /\ t.tries <= t.run.pending.attempt
    BY DEF Counted
  <2>1. t.run.pending.attempt = attempt BY <1>4, <1>7, <1>8
  <2>2. t.tries = IF attempt = 1 THEN 1 ELSE s.tries + 1
    BY <1>2, <1>3, <1>4, <1>7 DEF Carried
  <2>3. s.tries \in 0 .. 2 BY DEF Sound, Counted
  <2> QED BY <2>1, <2>2, <2>3
<1> QED BY <1>7, <1>11, <1>12, <1>13, <1>14 DEF Sound, Sent

\* A swap that did not go through: whoever is alive on air was there before it.
LEMMA UndoneSound ==
  ASSUME NEW s, Sound(s), s.run.pending # NoSwap, s.roles.active # s.run.pending.gen,
         s.roles.pending = 0
  PROVE  Sound(Undone(s)) /\ Undone(s).tries = s.tries
<1> DEFINE u == [s EXCEPT !.run.pending = NoSwap]
<1> DEFINE G == {s.run.pending.gen} \cap s.run.gens
<1>1. /\ Shaped(u) /\ SameProcesses(s, u) /\ u.roles = s.roles
      /\ u.run.pending = NoSwap /\ u.run.settings = s.run.settings
      /\ u.overlap = s.overlap /\ u.tries = s.tries
  BY DEF Sound, Good, Kept, Shaped, SameProcesses
<1>2. G \subseteq u.run.gens BY <1>1 DEF SameProcesses
<1>3. Undone(s) = Retire(u, G) BY DEF Undone
<1> HIDE DEF u, G
<1>4. Good(u) BY <1>1, SameKeeps DEF Sound
<1>5. Alive(u) = Alive(s) BY <1>1 DEF SameProcesses, Alive
<1>6. 0 \notin Alive(s) BY NobodyZero DEF Sound
<1>7. ~ u.overlap => Matches(u)
  BY <1>1, <1>5, <1>6 DEF Sound, Sent, Matches, SameProcesses
<1>8. Sent(u) BY <1>1, <1>7 DEF Sound, Sent, SameProcesses
<1>9. Counted(u) BY <1>1 DEF Sound, Counted
<1>10. Sound(u) BY <1>4, <1>8, <1>9 DEF Sound
<1>11. Sent(Undone(s)) /\ Carried(u, Undone(s)) BY <1>2, <1>3, <1>10, RetireSent
<1>12. Counted(Undone(s)) BY <1>9, <1>11, CountedCarried
<1>13. Good(Undone(s)) BY UndoneKeeps DEF Sound
<1> QED BY <1>1, <1>11, <1>12, <1>13 DEF Sound, Carried

\* A swap that went through: nobody waits, and the run says what is on air.
LEMMA CommittedSound ==
  ASSUME NEW s, Sound(s), s.run.pending # NoSwap, s.roles.active = s.run.pending.gen
  PROVE  Sound(Committed(s))
<1> DEFINE t == Committed(s)
<1>1. /\ Shaped(t) /\ SameProcesses(s, t) /\ t.roles = s.roles
      /\ t.run.pending = NoSwap /\ t.run.settings = s.run.pending.settings
      /\ t.overlap = s.overlap /\ t.tries = s.tries
  BY DEF Sound, Good, Kept, Shaped, SameProcesses, Committed
<1> HIDE DEF t
<1>2. Good(t) BY <1>1, SameKeeps DEF Sound
<1>3. Alive(t) = Alive(s) BY <1>1 DEF SameProcesses, Alive
<1>4. ASSUME ~ t.overlap PROVE Matches(t)
  <2>1. /\ s.run.pending.gen \in 1 .. s.proc.begun
        /\ s.proc.made[s.run.pending.gen] = s.run.pending.settings
        /\ s.roles.pending \in {0, s.run.pending.gen}
    BY <1>1, <1>4 DEF Sound, Sent, Matches
  <2>2. 0 \notin Alive(s) /\ s.proc.begun \in Nat BY NobodyZero DEF Sound
  <2>3. s.roles.pending = 0 BY <2>1, <2>2 DEF Sound, Sent, RolesIn
  <2> QED BY <1>1, <1>3, <2>1, <2>2, <2>3 DEF Matches, SameProcesses
<1>5. Sent(t) BY <1>1, <1>4 DEF Sound, Sent, SameProcesses
<1>6. Counted(t) BY <1>1 DEF Sound, Counted
<1> QED BY <1>2, <1>5, <1>6 DEF Sound, t

LEMMA ReconcileSound ==
  ASSUME NEW s, Sound(s), NEW t \in Reconcile(s)
  PROVE  Sound(t)
<1> DEFINE p == s.run.pending
<1>1. CASE p # NoSwap /\ s.roles.active = p.gen
  <2>1. t = Committed(s) BY <1>1 DEF Reconcile
  <2> QED BY <1>1, <2>1, CommittedSound
<1>2. CASE p # NoSwap /\ s.roles.active # p.gen /\ s.roles.pending = 0
  <2>1. Sound(Undone(s)) /\ Undone(s).tries = s.tries BY <1>2, UndoneSound
  <2>2. \/ t = Undone(s)
        \/ p.attempt < 2 /\ t \in SwapVideo(Undone(s), p.settings, p.attempt + 1)
    BY <1>2 DEF Reconcile, NoGen
  <2>3. CASE p.attempt < 2 /\ t \in SwapVideo(Undone(s), p.settings, p.attempt + 1)
    <3>1. ASSUME ~ Exclusive PROVE p.attempt + 1 = 2 /\ s.tries <= 1
      BY <1>2, <2>3, <3>1 DEF Sound, Counted
    <3> HIDE DEF p
    <3> QED BY <2>1, <2>3, <3>1, SwapVideoSound
  <2> QED BY <2>1, <2>2, <2>3
<1>3. CASE ~ (p # NoSwap /\ s.roles.active = p.gen)
           /\ ~ (p # NoSwap /\ s.roles.active # p.gen /\ s.roles.pending = 0)
  <2>1. t = s BY <1>3 DEF Reconcile, NoGen
  <2> QED BY <2>1
<1> QED BY <1>1, <1>2, <1>3

\* Where nobody is alive, an encoder started with the run's settings is all
\* there is to match.
LEMMA FreshSent ==
  ASSUME NEW s, Kept(s), Alive(s) = {}, s.proc.stopping \subseteq s.proc.dead,
         RolesIn(s.roles, s.proc.begun), s.run.pending = NoSwap
  PROVE  LET t == BeginSwap(Spawn(s, s.run.settings)) IN
         Sent(t) /\ t.run.pending = NoSwap /\ t.tries = s.tries
<1> DEFINE v == Spawn(s, s.run.settings)
<1> DEFINE t == BeginSwap(v)
<1> DEFINE g == s.proc.begun + 1
<1>1. /\ v.proc.begun = g /\ v.proc.running = s.proc.running \cup {g}
      /\ v.proc.dead = s.proc.dead /\ v.proc.stopping = s.proc.stopping
      /\ v.proc.made = [x \in 1 .. g |-> IF x = g THEN s.run.settings ELSE s.proc.made[x]]
      /\ v.run.settings = s.run.settings /\ v.run.pending = NoSwap
      /\ v.roles = s.roles /\ v.tries = s.tries /\ DOMAIN v = DOMAIN s
  BY DEF Kept, Shaped, Spawn
<1>2. v.proc = Spawn(s, s.run.settings).proc OBVIOUS
<1> HIDE DEF v
<1>3. /\ t.run = v.run /\ t.proc = v.proc /\ t.tries = v.tries
      /\ RolesIn(t.roles, t.proc.begun)
  BY <1>1, <1>2, Joins
<1> HIDE DEF t
<1>4. g \in 1 .. g BY DEF Kept, Known
<1>5. t.proc.made[g] = t.run.settings BY <1>1, <1>3, <1>4
<1>6. Alive(t) \subseteq {g} BY <1>1, <1>3 DEF Alive
<1>7. Matches(t) BY <1>1, <1>3, <1>5, <1>6 DEF Matches
<1>8. Sent(t) BY <1>1, <1>3, <1>7 DEF Sent
<1> QED BY <1>1, <1>3, <1>8 DEF t, v

LEMMA RestartedSound ==
  ASSUME NEW s, Sound(s), s.run.pending = NoSwap, s.run.gens \ s.proc.dead = {},
         NEW t \in Restarted(s)
  PROVE  Sound(t)
<1>1. PICK e : t = BeginSwap(Spawn([s EXCEPT !.run.gens = {}, !.run.noticed = FALSE,
                                             !.run.choice = e], s.run.settings))
  BY DEF Restarted
<1> DEFINE u == [s EXCEPT !.run.gens = {}, !.run.noticed = FALSE, !.run.choice = e]
<1>2. /\ Shaped(u) /\ u.proc = s.proc /\ u.run.gens = {} /\ u.roles = s.roles
      /\ u.run.settings = s.run.settings /\ u.run.pending = NoSwap /\ u.tries = s.tries
  BY DEF Sound, Good, Kept, Shaped
<1>3. t = BeginSwap(Spawn(u, u.run.settings)) BY <1>1, <1>2
<1> HIDE DEF u
<1>4. Alive(s) = {} BY AliveListed DEF Sound
<1>5. Alive(u) = {} /\ Kept(u)
  BY <1>2, <1>4 DEF Sound, Good, Kept, Known, Held, Alive
<1>6. u.proc.stopping \subseteq u.proc.dead /\ RolesIn(u.roles, u.proc.begun)
  BY <1>2 DEF Sound, Sent
<1>7. Sent(t) /\ t.run.pending = NoSwap /\ t.tries = s.tries
  BY <1>2, <1>3, <1>5, <1>6, FreshSent
<1>8. Counted(t) BY <1>7 DEF Sound, Counted
<1>9. Good(t) BY RestartedKeeps DEF Sound
<1> QED BY <1>7, <1>8, <1>9 DEF Sound

LEMMA ReviveSound ==
  ASSUME NEW s, Sound(s), NEW due, NEW fast, NEW t \in Revive(s, due, fast)
  PROVE  Sound(t)
<1>1. \/ t = s \/ t = [s EXCEPT !.run.noticed = FALSE] \/ t = Noticed(s, fast)
      \/ t = [s EXCEPT !.run.failed = TRUE]
      \/ s.run.pending = NoSwap /\ s.run.gens \ s.proc.dead = {} /\ t \in Restarted(s)
  BY DEF Revive
<1>2. Good(t) BY ReviveKeeps DEF Sound
<1>3. ASSUME Carried(s, t), t.roles = s.roles, t.proc = s.proc PROVE Sound(t)
  <2>1. 0 \notin Alive(s) /\ Sent(s) /\ Counted(s) BY NobodyZero DEF Sound
  <2>2. Sent(t) BY <1>3, <2>1, SentShrinks DEF Sent, From, Alive
  <2>3. Counted(t) BY <1>3, <2>1, CountedCarried
  <2> QED BY <1>2, <2>2, <2>3 DEF Sound
<1>4. CASE t = [s EXCEPT !.run.noticed = FALSE] \/ t = [s EXCEPT !.run.failed = TRUE]
  <2>1. Carried(s, t) /\ t.roles = s.roles /\ t.proc = s.proc
    BY <1>4 DEF Sound, Good, Kept, Shaped, Carried
  <2> QED BY <1>3, <2>1
<1>5. CASE t = Noticed(s, fast)
  <2>1. Carried(s, t) /\ t.roles = s.roles /\ t.proc = s.proc
    BY <1>5 DEF Sound, Good, Kept, Shaped, Carried, Noticed
  <2> QED BY <1>3, <2>1
<1> QED BY <1>1, <1>4, <1>5, RestartedSound
-----------------------------------------------------------------------------
\* The last part lets a new run begin with the count at nothing.
AInv == Sound(State) /\ Down /\ (~ run.up => tries = 0)

LEMMA CommitSound ==
  ASSUME NEW s, Sound(s), s.run.up, Commit(s), device' = device, SInv'
  PROVE  AInv'
<1>1. /\ State'.run = s.run /\ State'.proc = s.proc /\ State'.roles = s.roles
      /\ State'.overlap = s.overlap /\ State'.tries = s.tries /\ run' = s.run
  BY DEF State, Commit
<1>2. Sent(State')
  BY <1>1 DEF Sound, Sent, Matches, Alive
<1>3. Counted(State)' BY <1>1 DEF Sound, Counted, Exclusive
<1>4. Sent(State)' BY <1>2 DEF Sent, Matches, Alive, RolesIn, NoSwap
<1> QED BY <1>1, <1>3, <1>4 DEF AInv, SInv, Sound

\* A step of an encoder, its threads or the switch: it takes away at most.
LEMMA ShrinkKeeps ==
  ASSUME AInv, SInv', UNCHANGED <<device, run, overlap, tries>>,
         proc'.begun = proc.begun, proc'.made = proc.made,
         proc'.running \ proc'.dead \subseteq proc.running \ proc.dead,
         proc'.stopping \subseteq proc'.dead,
         RolesIn(roles, proc.begun) => RolesIn(roles', proc.begun) /\ From(roles, roles')
  PROVE  AInv'
<1>1. RolesIn(roles, proc.begun) BY DEF AInv, Sound, Sent, State
<1>2. /\ Carried(State, State') /\ Alive(State') \subseteq Alive(State)
      /\ RolesIn(State'.roles, State'.proc.begun) /\ From(State.roles, State'.roles)
      /\ State'.proc.stopping \subseteq State'.proc.dead
  BY <1>1 DEF Carried, Alive, State
<1>3. Sent(State) /\ Counted(State) /\ 0 \notin Alive(State)
  BY NobodyZero DEF AInv, Sound
<1>4. Sent(State') BY <1>2, <1>3, SentShrinks
<1>5. Sent(State)' BY <1>4 DEF Sent, Matches, Alive, RolesIn, NoSwap
<1>6. Counted(State)' BY <1>2, <1>3 DEF Counted, Carried, Exclusive
<1> QED BY <1>5, <1>6 DEF AInv, SInv, Sound

\* A step that touches nothing of this.
LEMMA StillKeeps ==
  ASSUME AInv, SInv', UNCHANGED <<device, roles, run, proc, overlap, tries>>
  PROVE  AInv'
<1>1. proc.stopping \subseteq proc.dead BY DEF AInv, Sound, Sent, State
<1>2. RolesIn(roles, proc.begun) => RolesIn(roles', proc.begun) /\ From(roles, roles')
  BY DEF From
<1> QED BY <1>1, <1>2, ShrinkKeeps

LEMMA InitAInv == Init => AInv
<1> SUFFICES ASSUME Init PROVE AInv OBVIOUS
<1>1. Good(State) /\ Down BY InitSInv DEF SInv
<1>2. /\ ~ run.up /\ run.pending = NoSwap /\ tries = 0 /\ proc.begun = 0
      /\ proc.running = {} /\ proc.stopping = {} /\ proc.dead = {}
  BY DEF Init, NoRun, NewRun
<1>3. RolesIn(roles, 0) BY DEF Init, Switch!NoRoles, Switch!NoGen, RolesIn
<1>4. Sent(State) BY <1>2, <1>3 DEF Sent, Matches, Alive, State
<1>5. Counted(State) BY <1>2 DEF Counted, State
<1> QED BY <1>1, <1>2, <1>4, <1>5 DEF AInv, Sound

LEMMA StartSound == ASSUME AInv, SInv', NEW e, Start(e) PROVE AInv'
<1> DEFINE s == [State EXCEPT !.run = NewRun(effective, e), !.roles = Switch!NoRoles]
<1> DEFINE u == BeginSwap(Spawn(s, effective))
<1>1. /\ Shaped(s) /\ s.proc = proc /\ s.run.gens = {} /\ s.run.up /\ s.tries = tries
      /\ s.run.settings = effective /\ s.run.pending = NoSwap /\ s.roles = Switch!NoRoles
  BY DEF AInv, Sound, Good, Kept, Shaped, State, NewRun
<1>2. ~ run.up /\ run.gens = {} /\ tries = 0 BY DEF AInv, Down, Start
<1>3. Alive(State) = {} BY <1>2, AliveListed DEF AInv, Sound, State
<1>4. u = BeginSwap(Spawn(s, s.run.settings)) BY <1>1
<1>5. Commit(u) BY DEF Start
<1>6. Alive(s) = {} /\ s.proc.stopping \subseteq s.proc.dead
  BY <1>1, <1>3 DEF AInv, Sound, Sent, Alive, State
<1> HIDE DEF s, u
<1>7. Kept(s)
  BY <1>1, <1>2 DEF AInv, Sound, Good, Kept, Known, Held, State
<1>8. RolesIn(s.roles, s.proc.begun)
  BY <1>1, <1>7 DEF Kept, Known, Switch!NoRoles, Switch!NoGen, RolesIn
<1>9. Sent(u) /\ u.run.pending = NoSwap /\ u.tries = 0
  BY <1>1, <1>2, <1>4, <1>6, <1>7, <1>8, FreshSent
<1>10. u.run.up
  <2>1. Kept(Spawn(s, s.run.settings)) /\ Spawn(s, s.run.settings).run.up = s.run.up
    BY <1>7, SpawnKeeps
  <2>2. u.run = Spawn(s, s.run.settings).run BY <1>4, <2>1, BeginSwapKeeps
  <2> QED BY <1>1, <2>1, <2>2
<1>11. /\ State'.run = u.run /\ State'.proc = u.proc /\ State'.roles = u.roles
       /\ State'.overlap = u.overlap /\ State'.tries = u.tries /\ run' = u.run /\ tries' = u.tries
  BY <1>5 DEF State, Commit
<1>12. Sent(State') BY <1>9, <1>11 DEF Sent, Matches, Alive
<1>13. Sent(State)' BY <1>12 DEF Sent, Matches, Alive, RolesIn, NoSwap
<1>14. Counted(State)' BY <1>9, <1>11 DEF Counted, NoSwap
<1> QED BY <1>10, <1>11, <1>13, <1>14 DEF AInv, SInv, Sound

LEMMA StopSound == ASSUME AInv, SInv', Stop PROVE AInv'
<1>1. /\ ~ run'.up /\ run'.pending = NoSwap /\ tries' = 0 /\ roles' = Switch!NoRoles
      /\ proc' = [proc EXCEPT !.dead = @ \cup run.gens, !.running = @ \ run.gens, !.exiting = {}]
  BY DEF Stop, NoRun, NewRun
<1>2. /\ proc'.begun = proc.begun /\ proc'.dead = proc.dead \cup run.gens
      /\ proc'.running = proc.running \ run.gens /\ proc'.stopping = proc.stopping
  BY <1>1 DEF AInv, Sound, Good, Kept, Shaped, State
<1>3. proc.running \ proc.dead \subseteq run.gens /\ proc.stopping \subseteq proc.dead
      /\ proc.begun \in Nat
  BY AliveListed, NobodyZero DEF AInv, Sound, Sent, Alive, State
<1>4. RolesIn(roles', proc'.begun)
  BY <1>1, <1>2, <1>3 DEF Switch!NoRoles, Switch!NoGen, RolesIn
<1>5. Sent(State)'
  <2>1. Alive(State)' = {} BY <1>2, <1>3 DEF Alive, State
  <2>2. Matches(State)' BY <1>1, <2>1 DEF Matches, State
  <2>3. State'.proc.stopping \subseteq State'.proc.dead BY <1>2, <1>3 DEF State
  <2> QED BY <1>4, <2>2, <2>3 DEF Sent, State
<1>6. Counted(State)' BY <1>1 DEF Counted, State
<1> QED BY <1>1, <1>5, <1>6 DEF AInv, SInv, Sound

\* A change that is applied is the first try of its swap.
LEMMA AppliedSound ==
  ASSUME AInv, NEW with, NEW s, s \in Applied(with) \/ s \in Replanned(with)
  PROVE  Sound(s) /\ s.run.up = run.up
<1>1. s = State \/ s \in SwapVideo(State, with, 1) BY DEF Applied, Replanned
<1>2. Sound(State) BY DEF AInv
<1>3. s.run.up = run.up BY AppliedKeeps DEF AInv, SInv, Sound
<1>4. CASE s = State BY <1>2, <1>3, <1>4
<1>5. CASE s \in SwapVideo(State, with, 1)
  <2>1. ~ Exclusive => 1 = 1 \/ (1 = 2 /\ State.tries <= 1) OBVIOUS
  <2>2. Sound(s) BY <1>2, <1>5, <2>1, SwapVideoSound
  <2> QED BY <1>3, <2>2
<1> QED BY <1>1, <1>4, <1>5

LEMMA SetSound == ASSUME AInv, SInv', NEW with, NEW kind, Set(with, kind) PROVE AInv'
<1>1. PICK s \in IF ~ run.up \/ with = effective THEN {State}
                 ELSE IF kind = "codec" THEN Replanned(with) ELSE Applied(with) : Commit(s)
  BY DEF Set
<1>2. s = State \/ (run.up /\ (s \in Applied(with) \/ s \in Replanned(with)))
  BY DEF Set
<1>3. CASE s = State
  BY <1>1, <1>3, StillKeeps DEF Commit, State, Set
<1>4. CASE run.up /\ (s \in Applied(with) \/ s \in Replanned(with))
  BY <1>1, <1>4, AppliedSound, CommitSound DEF Set
<1> QED BY <1>2, <1>3, <1>4

LEMMA PassRetireSound == ASSUME AInv, SInv', PassRetire PROVE AInv'
<1> DEFINE G == roles.retired \cap run.gens
<1>1. Commit(Retire(State, G)) /\ run.up /\ device' = device BY DEF PassRetire
<1>2. Sound(State) /\ G \subseteq State.run.gens /\ State.run.up = run.up
  BY DEF AInv, State
<1> HIDE DEF G
<1>3. Sent(Retire(State, G)) /\ Carried(State, Retire(State, G)) BY <1>2, RetireSent
<1>4. Counted(Retire(State, G)) BY <1>2, <1>3, CountedCarried DEF Sound
<1>5. Good(Retire(State, G)) /\ Retire(State, G).run.up
  <2>1. /\ Kept(Retire(State, G)) /\ Readers(Retire(State, G)) \subseteq Readers(State)
        /\ Retire(State, G).run.up = State.run.up
    BY <1>2, RetireKeeps DEF Sound, Good
  <2> QED BY <1>1, <1>2, <2>1 DEF Sound, Good, Alone
<1>6. Sound(Retire(State, G)) BY <1>3, <1>4, <1>5 DEF Sound
<1> QED BY <1>1, <1>5, <1>6, CommitSound

LEMMA PassRunsSound == ASSUME AInv, SInv', NEW due, PassRuns(due) PROVE AInv'
<1>1. PICK fast \in BOOLEAN : \E m \in Reconcile(State) : \E s \in Revive(m, due, fast) : Commit(s)
  BY DEF PassRuns
<1>2. PICK m \in Reconcile(State) : \E s \in Revive(m, due, fast) : Commit(s) BY <1>1
<1>3. PICK s \in Revive(m, due, fast) : Commit(s) BY <1>2
<1>4. Sound(State) /\ State.run.up /\ device' = device
  BY DEF AInv, Down, State, PassRuns
<1>5. Sound(m) /\ m.run.up BY <1>2, <1>4, ReconcileSound, ReconcileKeeps DEF Sound
<1>6. Sound(s) /\ s.run.up BY <1>3, <1>5, ReviveSound, ReviveKeeps DEF Sound
<1> QED BY <1>3, <1>4, <1>6, CommitSound

LEMMA PassAdaptSound == ASSUME AInv, SInv', PassAdapt PROVE AInv'
<1>1. CASE UNCHANGED <<roles, run, proc, overlap, tries>>
  BY <1>1, StillKeeps DEF PassAdapt
<1>2. CASE \E with \in Setting \ {effective} : \E s \in Applied(with) : Commit(s)
  <2>1. PICK with \in Setting \ {effective} : \E s \in Applied(with) : Commit(s) BY <1>2
  <2>2. PICK s \in Applied(with) : Commit(s) BY <2>1
  <2>3. run.up /\ device' = device BY DEF AInv, Down, PassAdapt
  <2> QED BY <2>2, <2>3, AppliedSound, CommitSound
<1> QED BY <1>1, <1>2 DEF PassAdapt

\* The switch decides a swap.
LEMMA SwitchSound == ASSUME AInv, SInv', SwitchCompletes \/ SwitchGivesUp PROVE AInv'
<1>1. proc.stopping \subseteq proc.dead BY DEF AInv, Sound, Sent, State
<1>2. /\ roles.pending # 0 /\ UNCHANGED <<device, run, proc, overlap, tries>>
      /\ roles' = Switch!Completed(roles) \/ roles' = Switch!GivenUp(roles)
  BY DEF SwitchCompletes, SwitchGivesUp, NoGen
<1>3. RolesIn(roles, proc.begun) => RolesIn(roles', proc.begun) /\ From(roles, roles')
  <2> SUFFICES ASSUME RolesIn(roles, proc.begun)
               PROVE  RolesIn(roles', proc.begun) /\ From(roles, roles')
    OBVIOUS
  <2>0. proc.begun \in Nat BY NobodyZero DEF AInv, Sound, State
  <2>1. CASE roles' = Switch!Completed(roles)
    BY <1>2, <2>0, <2>1 DEF RolesIn, From, Switch!Completed, Switch!NoGen
  <2>2. CASE roles' = Switch!GivenUp(roles)
    BY <1>2, <2>0, <2>2 DEF RolesIn, From, Switch!GivenUp, Switch!NoGen
  <2> QED BY <1>2, <2>1, <2>2
<1> QED BY <1>1, <1>2, <1>3, ShrinkKeeps

\* A process ends, its end is handled, or a retire thread has ended it.
LEMMA EndSound ==
  ASSUME AInv, SInv', NEW g, Die(g) \/ ExitHandled(g) \/ Stopped(g)
  PROVE  AInv'
<1>1. /\ proc.stopping \subseteq proc.dead /\ proc.begun \in Nat
      /\ {"begun", "made", "running", "dead", "exiting", "stopping"} \subseteq DOMAIN proc
  BY NobodyZero DEF AInv, Sound, Sent, Good, Kept, Shaped, State
<1>2. UNCHANGED <<device, run, overlap, tries>> BY DEF Die, ExitHandled, Stopped
<1>3. /\ proc'.begun = proc.begun /\ proc'.made = proc.made
      /\ proc'.running \subseteq proc.running /\ proc.dead \subseteq proc'.dead
      /\ proc'.stopping \subseteq proc.stopping
  <2>1. CASE Die(g) BY <1>1, <2>1 DEF Die
  <2>2. CASE ExitHandled(g) BY <1>1, <2>2 DEF ExitHandled
  <2>3. CASE Stopped(g) BY <1>1, <2>3 DEF Stopped
  <2> QED BY <2>1, <2>2, <2>3
<1>4. RolesIn(roles, proc.begun) => RolesIn(roles', proc.begun) /\ From(roles, roles')
  <2>1. roles' = roles \/ roles' \in Switch!Ended(roles, g) BY DEF Die, ExitHandled, Stopped
  <2>2. CASE roles' = roles BY <2>2 DEF From
  <2>3. CASE roles' \in Switch!Ended(roles, g) BY <1>1, <2>3, EndedFrom
  <2> QED BY <2>1, <2>2, <2>3
<1> QED BY <1>1, <1>2, <1>3, <1>4, ShrinkKeeps

LEMMA StepAInv == AInv /\ [Next]_vars => AInv'
<1> SUFFICES ASSUME AInv, [Next]_vars PROVE AInv' OBVIOUS
<1>0. SInv' BY StepSInv DEF AInv, SInv, Sound
<1>1. ASSUME NEW e \in Encoder, Start(e) PROVE AInv' BY <1>0, <1>1, StartSound
<1>2. CASE Stop BY <1>0, <1>2, StopSound
<1>3. ASSUME NEW with \in Setting, NEW kind \in {"codec", "encode"}, Set(with, kind) PROVE AInv'
  BY <1>0, <1>3, SetSound
<1>4. CASE PassRetire BY <1>0, <1>4, PassRetireSound
<1>5. ASSUME NEW due \in BOOLEAN, PassRuns(due) PROVE AInv' BY <1>0, <1>5, PassRunsSound
<1>6. CASE PassAdapt BY <1>0, <1>6, PassAdaptSound
<1>7. CASE SwitchCompletes \/ SwitchGivesUp BY <1>0, <1>7, SwitchSound
<1>8. ASSUME NEW g \in Gen, Die(g) \/ ExitHandled(g) \/ Stopped(g) PROVE AInv'
  BY <1>0, <1>8, EndSound
<1>9. CASE UNCHANGED vars BY <1>0, <1>9, StillKeeps DEF vars
<1> QED BY <1>1, <1>2, <1>3, <1>4, <1>5, <1>6, <1>7, <1>8, <1>9 DEF Next

\* When no swap is in flight the run reports, and would restart with, the
\* settings of the encoder on air (_reconcile, _revive), unless _replan let a
\* second swap in.
THEOREM RunTellsWhatIsSent == Spec => []RunIsOnAir
<1>1. AInv => RunIsOnAir
  BY DEF AInv, Sound, Sent, Matches, Alive, RunIsOnAir, Settled, State
<1> QED BY InitAInv, StepAInv, <1>1, PTL DEF Spec

\* A change is tried twice at most where the Pending carries the attempt along
\* (_swap_video, _reconcile), whatever restarts and requests come between.
THEOREM SharedTriedTwice == Spec => []SharedRetriedOnce
<1>1. AInv => SharedRetriedOnce
  BY DEF AInv, Sound, Counted, SharedRetriedOnce, State
<1> QED BY InitAInv, StepAInv, <1>1, PTL DEF Spec
-----------------------------------------------------------------------------
(***************************************************************************)
(* The other half of the supervision pass: AdaptController, for every      *)
(* ladder and every setting of the thresholds.  The invariant ties the     *)
(* code's calm spell to what really happened on the link: the spell is     *)
(* never older than the last round that was not ok, nor than the last step *)
(* up, and a failed recovery that is not forgotten has left its mark on    *)
(* the hold factor.                                                        *)
(***************************************************************************)
LadderInv ==
  /\ AdaptTypeOK
  /\ calm <= quiet
  /\ calm # None /\ sinceUp # None => calm <= sinceUp
  /\ flapped => hold >= MinOf(2, MaxHold)

\* The assumptions but for the product, which the arithmetic below has no
\* use for.
LEMMA LadderConsts ==
  /\ Last \in Nat /\ DownAfter \in Nat /\ DownAfter >= 1
  /\ Interval \in Nat /\ Retry \in Nat /\ FlapWindow \in Nat /\ ResetCalm \in Nat
  /\ MaxHold \in Nat /\ MaxHold >= 1 /\ Cap \in Nat
  /\ Cooldown \in Nat /\ MinGap \in Nat /\ UpHold \in Nat
BY AdaptAssumption

LEMMA AgesHaveEnds == 0 \in Ages /\ None \in Ages
BY LadderConsts DEF Ages

LEMMA Times ==
  ASSUME NEW a \in Nat, NEW h \in Nat, NEW k \in Nat, k <= h
  PROVE  a * k \in Nat /\ a * h \in Nat /\ a * k <= a * h
<1>1. a * h = a * k + a * (h - k) /\ h - k \in Nat
  OBVIOUS
<1>2. \A x, y \in Nat : x * y \in Nat
  OBVIOUS
<1> QED
  BY <1>1, <1>2

\* What a round leaves behind before any shift.
LEMMA RoundFacts ==
  ASSUME LadderInv, NEW level \in Level
  PROVE  /\ CalmAfter(level) \in Ages /\ CalmAfter(level) <= quiet
         /\ CalmAfter(level) # None /\ sinceUp # None => CalmAfter(level) <= sinceUp
         /\ level # "ok" => CalmAfter(level) = None
         /\ BadAfter(level) \in 0 .. DownAfter + 1
         /\ HoldAfter(level) \in 1 .. MaxHold
         /\ HoldAfter(level) = hold \/ (index = 0 /\ quiet >= ResetCalm)
<1>1. /\ CalmAfter(level) \in Ages /\ CalmAfter(level) <= quiet
      /\ CalmAfter(level) # None /\ sinceUp # None => CalmAfter(level) <= sinceUp
      /\ level # "ok" => CalmAfter(level) = None
  BY LadderConsts DEF LadderInv, AdaptTypeOK, CalmAfter, Ages, None
<1>2. BadAfter(level) \in 0 .. DownAfter + 1
  BY LadderConsts DEF LadderInv, AdaptTypeOK, BadAfter, MinOf
<1>3. /\ HoldAfter(level) \in 1 .. MaxHold
      /\ HoldAfter(level) = hold \/ (index = 0 /\ quiet >= ResetCalm)
  BY <1>1, LadderConsts DEF LadderInv, AdaptTypeOK, HoldAfter, Ages, None
<1> QED
  BY <1>1, <1>2, <1>3

LEMMA LookStep == LadderInv /\ Look => LadderInv'
<1> SUFFICES ASSUME LadderInv, Look PROVE LadderInv'
  OBVIOUS
<1> DEFINE level == Judged
<1>1. level \in Level
  BY DEF LadderInv, AdaptTypeOK, Judged, Level
<1>2. /\ quiet' = IF level = "ok" THEN quiet ELSE 0
      /\ flapped' = \/ flapped /\ ~ (index = 0 /\ quiet >= ResetCalm)
                    \/ index' > index /\ sinceUp # None /\ sinceUp < FlapWindow
      /\ UNCHANGED <<link, poor, busy>>
      /\ \/ \E next \in {Interval, Retry} : Keep(level, next)
         \/ WantsDown(level) /\ CommitDown(level)
         \/ ~ WantsDown(level) /\ WantsUp(level) /\ CommitUp(level)
  BY DEF Look
<1> HIDE DEF level
<1>3. /\ index \in 0 .. Last /\ hold \in 1 .. MaxHold /\ quiet \in 0 .. Cap
      /\ sinceUp \in Ages /\ sinceChange \in Ages /\ calm \in Ages
      /\ flapped \in BOOLEAN /\ (flapped => hold >= MinOf(2, MaxHold))
      /\ 0 \in Ages /\ None \in Ages
  BY AgesHaveEnds DEF LadderInv, AdaptTypeOK
<1>4. quiet' \in 0 .. Cap /\ flapped' \in BOOLEAN
  BY <1>2, <1>3, LadderConsts
<1>5. /\ CalmAfter(level) \in Ages /\ CalmAfter(level) <= quiet'
      /\ CalmAfter(level) # None /\ sinceUp # None => CalmAfter(level) <= sinceUp
      /\ BadAfter(level) \in 0 .. DownAfter + 1
      /\ HoldAfter(level) \in 1 .. MaxHold
      /\ HoldAfter(level) = hold \/ (index = 0 /\ quiet >= ResetCalm)
  BY <1>1, <1>2, RoundFacts DEF None
<1>6. CASE \E next \in {Interval, Retry} : Keep(level, next)
  <2>1. /\ bad' = BadAfter(level) /\ calm' = CalmAfter(level) /\ hold' = HoldAfter(level)
        /\ wait' \in Nat /\ UNCHANGED <<index, sinceChange, sinceUp>>
    BY <1>6, LadderConsts DEF Keep
  <2>2. AdaptTypeOK'
    BY <1>2, <1>3, <1>4, <1>5, <2>1 DEF LadderInv, AdaptTypeOK
  <2>3. flapped' => hold' >= MinOf(2, MaxHold)
    <3>1. ~ (index' > index)
      BY <1>3, <2>1
    <3>2. flapped' => flapped /\ ~ (index = 0 /\ quiet >= ResetCalm)
      BY <1>2, <3>1, Zenon
    <3> QED
      BY <1>3, <1>5, <2>1, <3>2, Zenon
  <2> QED
    BY <1>5, <2>1, <2>2, <2>3 DEF LadderInv
<1>7. CASE WantsDown(level) /\ CommitDown(level)
  <2>1. /\ index' = DownTo(level) /\ bad' = 0 /\ calm' = None /\ sinceChange' = 0
        /\ wait' = Interval /\ UNCHANGED sinceUp
        /\ hold' = IF sinceUp # None /\ sinceUp < FlapWindow
                   THEN MinOf(MaxHold, 2 * HoldAfter(level)) ELSE HoldAfter(level)
    BY <1>7 DEF CommitDown
  <2>2. index' \in 0 .. Last
    BY <1>3, <2>1, LadderConsts DEF DownTo, MinOf
  <2>3. hold' \in 1 .. MaxHold
    BY <1>5, <2>1, LadderConsts DEF MinOf
  <2>4. flapped' => hold' >= MinOf(2, MaxHold)
    <3>1. CASE sinceUp # None /\ sinceUp < FlapWindow
      <4>1. hold' = MinOf(MaxHold, 2 * HoldAfter(level))
        BY <2>1, <3>1
      <4>2. HoldAfter(level) \in Nat /\ HoldAfter(level) >= 1
        BY <1>5
      <4> QED
        BY <4>1, <4>2, LadderConsts DEF MinOf
    <3>2. CASE ~ (sinceUp # None /\ sinceUp < FlapWindow)
      BY <1>2, <1>3, <1>5, <2>1, <3>2
    <3> QED
      BY <3>1, <3>2
  <2>5. AdaptTypeOK'
    <3>1. bad' \in 0 .. DownAfter + 1 /\ wait' \in Nat
      BY <2>1, LadderConsts
    <3> QED
      BY <1>2, <1>3, <1>4, <2>1, <2>2, <2>3, <3>1 DEF LadderInv, AdaptTypeOK
  <2> QED
    BY <1>4, <2>1, <2>4, <2>5 DEF LadderInv, None
<1>8. CASE ~ WantsDown(level) /\ WantsUp(level) /\ CommitUp(level)
  <2>1. /\ index' = index - 1 /\ bad' = 0 /\ calm' = 0 /\ sinceChange' = 0
        /\ sinceUp' = 0 /\ wait' = Interval /\ hold' = HoldAfter(level) /\ index > 0
    BY <1>8 DEF CommitUp, WantsUp
  <2>2. index' \in 0 .. Last /\ ~ (index' > index) /\ ~ (index = 0)
    BY <1>3, <2>1, LadderConsts
  <2>3. flapped' => hold' >= MinOf(2, MaxHold)
    BY <1>2, <1>3, <1>5, <2>1, <2>2
  <2>4. AdaptTypeOK'
    BY <1>2, <1>3, <1>4, <1>5, <2>1, <2>2, LadderConsts DEF LadderInv, AdaptTypeOK
  <2> QED
    BY <1>4, <2>1, <2>3, <2>4 DEF LadderInv, None
<1> QED
  BY <1>2, <1>6, <1>7, <1>8

LEMMA SecondStep == LadderInv /\ Second => LadderInv'
<1> SUFFICES ASSUME LadderInv, Second PROVE LadderInv'
  OBVIOUS
<1>1. \A a \in Ages : Older(a) \in Ages /\ (Older(a) = None <=> a = None)
  BY LadderConsts DEF Ages, Older, MinOf, None
<1>2. \A a, b \in Ages : a # None /\ a <= b => Older(a) <= Older(b)
  BY LadderConsts DEF Ages, Older, MinOf, None
<1>3. quiet' \in 0 .. Cap /\ quiet' = Older(quiet) /\ quiet \in Ages /\ quiet # None
  BY LadderConsts DEF LadderInv, AdaptTypeOK, Second, MinOf, Older, Ages, None
<1>4. /\ calm' = Older(calm) /\ sinceUp' = Older(sinceUp) /\ sinceChange' = Older(sinceChange)
      /\ wait' \in Nat /\ UNCHANGED <<index, bad, hold, link, poor, busy, flapped>>
      /\ calm \in Ages /\ sinceUp \in Ages /\ sinceChange \in Ages
  BY DEF LadderInv, AdaptTypeOK, Second
<1>5. AdaptTypeOK'
  BY <1>1, <1>3, <1>4 DEF LadderInv, AdaptTypeOK
<1>6. calm' <= quiet'
  <2>1. CASE calm = None
    BY <1>3, <1>4, <2>1 DEF Older, None
  <2>2. CASE calm # None
    BY <1>2, <1>3, <1>4, <2>2 DEF LadderInv
  <2> QED
    BY <2>1, <2>2
<1>7. calm' # None /\ sinceUp' # None => calm' <= sinceUp'
  BY <1>1, <1>2, <1>4 DEF LadderInv
<1> QED
  BY <1>4, <1>5, <1>6, <1>7 DEF LadderInv

LEMMA LadderInit == AdaptInit => LadderInv
<1> SUFFICES ASSUME AdaptInit PROVE LadderInv
  OBVIOUS
<1>1. /\ index \in 0 .. Last /\ bad \in 0 .. DownAfter + 1 /\ hold \in 1 .. MaxHold
      /\ wait \in Nat /\ quiet \in 0 .. Cap
  BY LadderConsts DEF AdaptInit
<1>2. AdaptTypeOK
  BY <1>1, AgesHaveEnds DEF AdaptInit, AdaptTypeOK, Level
<1> QED
  BY <1>2 DEF AdaptInit, LadderInv, None

LEMMA LadderNext == LadderInv /\ [AdaptNext]_adaptVars => LadderInv'
<1>1. ASSUME LadderInv, Reset PROVE LadderInv'
  <2>1. /\ index' \in 0 .. Last /\ bad' \in 0 .. DownAfter + 1 /\ hold' \in 1 .. MaxHold
        /\ quiet' \in 0 .. Cap
    BY <1>1, LadderConsts DEF Reset
  <2>2. AdaptTypeOK'
    BY <1>1, <2>1, AgesHaveEnds DEF LadderInv, AdaptTypeOK, Reset
  <2> QED
    BY <1>1, <2>2 DEF LadderInv, Reset, None
<1>2. ASSUME LadderInv, World PROVE LadderInv'
  BY <1>2 DEF LadderInv, AdaptTypeOK, World
<1>3. ASSUME LadderInv, UNCHANGED adaptVars PROVE LadderInv'
  BY <1>3 DEF LadderInv, AdaptTypeOK, adaptVars
<1> QED
  BY <1>1, <1>2, <1>3, LookStep, SecondStep DEF AdaptNext

(* The controller keeps its types: it never leaves the ladder, and the      *)
(* doubling of the calm spell stays within its limit.                       *)
THEOREM AdaptTypeCorrect == AdaptSpec => []AdaptTypeOK
<1>1. LadderInv => AdaptTypeOK
  BY DEF LadderInv
<1> QED
  BY <1>1, LadderInit, LadderNext, PTL DEF AdaptSpec

\* In the invariant, a step up is what the two action properties allow.
LEMMA StepUpFacts ==
  ASSUME LadderInv, [AdaptNext]_adaptVars, StepUp
  PROVE  /\ index' = index - 1
         /\ quiet >= UpHold * hold /\ hold \in 1 .. MaxHold
         /\ sinceUp = None \/ sinceUp >= UpHold * hold
<1> DEFINE level == Judged
<1>0. /\ level \in Level /\ index \in 0 .. Last /\ sinceUp \in Ages /\ quiet \in 0 .. Cap
      /\ hold \in 1 .. MaxHold
  BY DEF LadderInv, AdaptTypeOK, Judged, Level
<1>1. Look
  <2>1. ~ Reset /\ ~ Second /\ ~ World /\ ~ UNCHANGED adaptVars
    BY <1>0 DEF StepUp, Reset, Second, World, adaptVars, None
  <2> QED
    BY <2>1 DEF AdaptNext
<1>2. ~ WantsDown(level) /\ WantsUp(level) /\ CommitUp(level)
  <2>1. ~ \E next \in {Interval, Retry} : Keep(level, next)
    BY <1>0 DEF StepUp, Keep
  <2>2. ~ (WantsDown(level) /\ CommitDown(level))
    BY <1>0, LadderConsts DEF StepUp, WantsDown, CommitDown, DownTo, MinOf
  <2> QED
    BY <1>1, <2>1, <2>2 DEF Look
<1> HIDE DEF level
<1>3. /\ CalmAfter(level) # None /\ CalmAfter(level) >= UpHold * HoldAfter(level)
      /\ index > 0 /\ index' = index - 1
  BY <1>2 DEF WantsUp, CommitUp
<1>4. HoldAfter(level) = hold
  BY <1>0, <1>3 DEF HoldAfter
<1>5. /\ CalmAfter(level) \in Ages /\ CalmAfter(level) <= quiet
      /\ sinceUp # None => CalmAfter(level) <= sinceUp
  BY <1>0, <1>3, RoundFacts
<1>6. UpHold * hold \in Nat
  BY <1>0, LadderConsts, Times
<1> QED
  BY <1>0, <1>3, <1>4, <1>5, <1>6 DEF Ages, None

(* Every step up is one rung, after a full unbroken calm spell.             *)
THEOREM CalmBeforeUp == AdaptSpec => UpAfterCalm
<1>1. LadderInv /\ [AdaptNext]_adaptVars =>
        [StepUp => /\ index' = index - 1
                   /\ quiet >= UpHold
                   /\ sinceUp = None \/ sinceUp >= UpHold]_adaptVars
  <2> SUFFICES ASSUME LadderInv, [AdaptNext]_adaptVars, StepUp
      PROVE  /\ index' = index - 1
             /\ quiet >= UpHold
             /\ sinceUp = None \/ sinceUp >= UpHold
    OBVIOUS
  <2>1. /\ index' = index - 1
        /\ quiet >= UpHold * hold /\ hold \in 1 .. MaxHold
        /\ sinceUp = None \/ sinceUp >= UpHold * hold
    BY StepUpFacts
  <2>2. UpHold * 1 = UpHold /\ UpHold * hold \in Nat /\ UpHold * 1 <= UpHold * hold
    BY <2>1, LadderConsts, Times
  <2>3. quiet \in Int /\ sinceUp \in Int
    BY DEF LadderInv, AdaptTypeOK, Ages, None
  <2> QED
    BY <2>1, <2>2, <2>3, LadderConsts
<1> QED
  BY <1>1, LadderInit, LadderNext, PTL DEF AdaptSpec, UpAfterCalm

(* After a failed recovery every further one waits at least twice as long.  *)
THEOREM BackOffAfterFlap == AdaptSpec => FailedRecoveryWaits
<1>1. LadderInv /\ [AdaptNext]_adaptVars =>
        [StepUp /\ flapped => quiet >= UpHold * MinOf(2, MaxHold)]_adaptVars
  <2> SUFFICES ASSUME LadderInv, [AdaptNext]_adaptVars, StepUp, flapped
      PROVE  quiet >= UpHold * MinOf(2, MaxHold)
    OBVIOUS
  <2>1. quiet >= UpHold * hold /\ hold \in 1 .. MaxHold
    BY StepUpFacts
  <2>2. hold >= MinOf(2, MaxHold) /\ MinOf(2, MaxHold) \in Nat
    BY LadderConsts DEF LadderInv, MinOf
  <2>3. /\ UpHold * hold \in Nat /\ UpHold * MinOf(2, MaxHold) \in Nat
        /\ UpHold * MinOf(2, MaxHold) <= UpHold * hold
    BY <2>1, <2>2, LadderConsts, Times
  <2>4. quiet \in Int
    BY DEF LadderInv, AdaptTypeOK
  <2> QED
    BY <2>1, <2>3, <2>4
<1> QED
  BY <1>1, LadderInit, LadderNext, PTL DEF AdaptSpec, FailedRecoveryWaits
=============================================================================
