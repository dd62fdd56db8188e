----------------------------- MODULE Supervisor -----------------------------
(***************************************************************************)
(* The video side of StreamService (stream/service.py) for one codec: the  *)
(* run and its encoder processes, the requests that change the settings,   *)
(* the supervision pass (tick) that commits, retries or gives up a swap    *)
(* and restarts a dead encoder, and the exit handlers of the processes.    *)
(* The TrackSwitch is seen through its interface, Handover.                *)
(*                                                                         *)
(* Requests, exit handlers and the supervision pass hold the service's     *)
(* lock; the switch decides swaps on the encoders' reader threads, under   *)
(* the chain's lock only, so also in the middle of a pass.                 *)
(***************************************************************************)
EXTENDS Integers, FiniteSets

CONSTANTS
  MaxGen,        \* bound: generations started in all
  Setting,       \* encoder settings
  Default,       \* the settings at start
  Encoder,       \* encoders of the codec the probe found working
  Failures,      \* ENCODER_FAILURES
  Device,        \* kinds of capture device: "shared", "exclusive" (one reader only)
  MaxChanges,    \* bound: requests that change the settings
  MaxTrouble     \* bound: encoders that die or miss their keyframe

ASSUME SupervisorAssumption ==
  /\ MaxGen \in Nat /\ Failures \in Nat \ {0}
  /\ MaxChanges \in Nat /\ MaxTrouble \in Nat
  /\ Default \in Setting /\ Encoder # {}
  /\ Device # {} /\ Device \subseteq {"shared", "exclusive"}

VARIABLES
  roles,      \* run.chain.switch: see Handover
  run,        \* the rest of the Run; run.up: it exists
  proc,       \* the encoder processes
  device,     \* the capture device of this session (_source)
  effective,  \* _effective
  chosen,     \* _settings
  phase,      \* "pass": a supervision pass holds the lock, midway
  overlap,    \* history: a swap was begun while another was in flight
  tries,      \* history: swaps begun for the last change
  changes, trouble   \* counters for the bounds

vars == <<roles, run, proc, device, effective, chosen, phase, overlap, tries, changes, trouble>>

Switch == INSTANCE Handover WITH roles <- roles, spent <- 1 .. proc.begun

Gen == 1 .. MaxGen
NoGen == 0
Exclusive == device = "exclusive"     \* ~ _multi_reader
NoSwap == [gen |-> NoGen, settings |-> Default, choice |-> "none", attempt |-> 0]

\* A state the methods below take and return: what a critical section works on.
State == [roles |-> roles, run |-> run, proc |-> proc, overlap |-> overlap, tries |-> tries]

Commit(s) ==
  /\ roles' = s.roles /\ run' = s.run /\ proc' = s.proc
  /\ overlap' = s.overlap /\ tries' = s.tries

NewRun(s, e) ==
  [up |-> TRUE, settings |-> s, choice |-> e, pending |-> NoSwap, gens |-> {},
   failures |-> 0, bad |-> {}, noticed |-> FALSE, failed |-> FALSE]

NoRun == [NewRun(Default, "none") EXCEPT !.up = FALSE]

Init ==
  /\ roles = Switch!NoRoles /\ run = NoRun
  /\ proc = [begun |-> 0, made |-> << >>, running |-> {}, dead |-> {},
             exiting |-> {}, stopping |-> {}]
  /\ effective = Default /\ chosen = Default
  /\ device \in Device
  /\ phase = "idle" /\ overlap = FALSE /\ tries = 0 /\ changes = 0 /\ trouble = 0
-----------------------------------------------------------------------------
\* _choose: the encoders that may be taken; none is a StreamError.
Choices(s) == Encoder \ s.run.bad

\* _spawn_video, of generation s.proc.begun + 1.
Spawn(s, with) ==
  LET g == s.proc.begun + 1 IN
  [s EXCEPT !.proc.begun = g,
            !.proc.made = [x \in 1 .. g |-> IF x = g THEN with ELSE @[x]],
            !.proc.running = @ \cup {g}, !.run.gens = @ \cup {g}]

\* chain.begin_swap of the generation just spawned; the RuntimeError leaves
\* the switch as it is.
BeginSwap(s) ==
  IF Switch!CanBegin(s.roles)
  THEN [s EXCEPT !.roles = Switch!Begun(@, s.proc.begun)]
  ELSE [s EXCEPT !.overlap = TRUE]

\* Mutant: the switch is told that the old encoder ended, and it runs on.
StopOldLater(s) ==
  {[s EXCEPT !.roles = r] : r \in Switch!Ended(s.roles, s.roles.active)}

\* The exclusive device's turn: every encoder not known dead is stopped, and
\* waited for, before the next starts.  Only the two in the switch matter to
\* it, and the one on air is the older.
StopOld(s) ==
  LET old  == s.run.gens \ s.proc.dead
      r    == s.roles
      mids == IF r.active \in old THEN Switch!Ended(r, r.active) ELSE {r}
      ends == UNION {IF r.pending \in old THEN Switch!Ended(m, r.pending) ELSE {m} : m \in mids}
  IN  {[s EXCEPT !.roles = e, !.run.gens = {},
                 !.proc.dead = @ \cup old, !.proc.running = @ \ old] : e \in ends}

\* Mutant: a retry is not counted as one.
SwapVideoUncounted(s, with, attempt) ==
  {BeginSwap([Spawn(t, with) EXCEPT
     !.run.pending = [gen |-> t.proc.begun + 1, settings |-> with, choice |-> e, attempt |-> 1],
     !.tries = IF attempt = 1 THEN 1 ELSE @ + 1])
   : e \in Choices(s), t \in IF Exclusive THEN StopOld(s) ELSE {s}}

\* The swap to encoder e, begun in state t.  On an exclusive device the Pending
\* does not carry the attempt.
Swapped(s, t, with, attempt, e) ==
  BeginSwap([Spawn(t, with) EXCEPT
    !.run.pending = [gen |-> t.proc.begun + 1, settings |-> with, choice |-> e,
                     attempt |-> IF Exclusive THEN 1 ELSE attempt],
    !.overlap = @ \/ s.run.pending # NoSwap,
    !.tries = IF attempt = 1 THEN 1 ELSE @ + 1])

\* _swap_video; the empty set when no encoder can be chosen.
SwapVideo(s, with, attempt) ==
  {Swapped(s, t, with, attempt, e) : e \in Choices(s), t \in IF Exclusive THEN StopOld(s) ELSE {s}}

\* A generation leaves the run and a thread of its own stops it.
Retire(s, G) ==
  [s EXCEPT !.run.gens = @ \ G, !.proc.dead = @ \cup G,
            !.proc.stopping = @ \cup (G \cap s.proc.running)]
-----------------------------------------------------------------------------
(* Requests.                                                               *)

\* The first destination of the codec starts: _bring_up, _start_run.
Start(e) ==
  /\ phase = "idle" /\ ~ run.up /\ changes < MaxChanges
  /\ Commit(BeginSwap(Spawn([State EXCEPT !.run = NewRun(effective, e),
                                          !.roles = Switch!NoRoles], effective)))
  /\ device' \in Device
  /\ changes' = changes + 1
  /\ UNCHANGED <<effective, chosen, phase, trouble>>

\* The last one stops: _after_change, _stop_run.  The exit handlers of this
\* run's encoders find another run, or none, and return.
Stop ==
  /\ phase = "idle" /\ run.up
  /\ run' = NoRun /\ roles' = Switch!NoRoles /\ tries' = 0
  /\ proc' = [proc EXCEPT !.dead = @ \cup run.gens, !.running = @ \ run.gens, !.exiting = {}]
  /\ UNCHANGED <<device, effective, chosen, phase, overlap, changes, trouble>>

\* What _apply_change makes of a change of kind geometry or seamless.
Applied(with) ==
  IF run.failed \/ run.pending # NoSwap \/ Choices(State) = {} THEN {State}
  ELSE SwapVideo(State, with, 1)

\* The same for a codec change that leaves this run's codec alone: _replan
\* does not ask whether a swap is in flight.
Replanned(with) ==
  IF run.settings = with \/ Choices(State) = {} THEN {State}
  ELSE SwapVideo(State, with, 1)

\* set.
Set(with, kind) ==
  /\ phase = "idle" /\ changes < MaxChanges
  /\ chosen' = with /\ effective' = with
  /\ \E s \in IF ~ run.up \/ with = effective THEN {State}
              ELSE IF kind = "codec" THEN Replanned(with) ELSE Applied(with) : Commit(s)
  /\ changes' = changes + 1
  /\ UNCHANGED <<device, phase, trouble>>
-----------------------------------------------------------------------------
(* The supervision pass.                                                   *)

\* Retired generations are stopped.
PassRetire ==
  /\ phase = "idle" /\ run.up
  /\ Commit(Retire(State, roles.retired \cap run.gens))
  /\ phase' = "runs"
  /\ UNCHANGED <<device, effective, chosen, changes, trouble>>

\* Mutant: a swap that went through is not recorded in the run.
CommittedLazy(s) == [s EXCEPT !.run.pending = NoSwap, !.run.failures = 0]

Committed(s) ==
  [s EXCEPT !.run.settings = s.run.pending.settings, !.run.choice = s.run.pending.choice,
            !.run.pending = NoSwap, !.run.failures = 0]

\* Mutant: the encoder of a swap that did not go through is not stopped.
UndoneForgetful(s) == [s EXCEPT !.run.pending = NoSwap, !.run.gens = @ \ {s.run.pending.gen}]

Undone(s) == Retire([s EXCEPT !.run.pending = NoSwap], {s.run.pending.gen} \cap s.run.gens)

\* Mutant: a swap that was given up is waited for.
ReconcileHopeful(s) ==
  IF s.run.pending # NoSwap /\ s.roles.active = s.run.pending.gen THEN {Committed(s)} ELSE {s}

\* _reconcile.
Reconcile(s) ==
  LET p == s.run.pending IN
  CASE p # NoSwap /\ s.roles.active = p.gen -> {Committed(s)}
    [] p # NoSwap /\ s.roles.active # p.gen /\ s.roles.pending = NoGen ->
         IF p.attempt < 2 /\ ~ s.run.failed /\ Choices(s) # {}
         THEN SwapVideo(Undone(s), p.settings, p.attempt + 1) ELSE {Undone(s)}
    [] OTHER -> {s}

\* _revive notices that every encoder is dead: the failure is counted, and an
\* encoder that fails too often is avoided from then on.
Noticed(s, fast) ==
  LET n == IF fast \/ s.run.gens = {} THEN s.run.failures + 1 ELSE 1 IN
  [s EXCEPT !.run.noticed = TRUE,
            !.run.failures = IF n > Failures THEN 1 ELSE n,
            !.run.bad = IF n > Failures THEN @ \cup {s.run.choice} ELSE @]

Restarted(s) ==
  {BeginSwap(Spawn([s EXCEPT !.run.gens = {}, !.run.noticed = FALSE, !.run.choice = e],
                   s.run.settings)) : e \in Choices(s)}

\* Mutant: an encoder that died but is still listed counts as one.
ReviveWaits(s, due, fast) ==
  IF s.run.failed \/ s.run.pending # NoSwap \/ s.roles.pending # NoGen \/ s.run.gens # {} THEN {s}
  ELSE IF ~ s.run.noticed THEN {Noticed(s, fast)} ELSE IF due THEN Restarted(s) ELSE {s}

\* _revive; due: the backoff is over.
Revive(s, due, fast) ==
  LET busy  == s.run.failed \/ s.run.pending # NoSwap \/ s.roles.pending # NoGen
      alive == s.run.gens \ s.proc.dead # {}
  IN  CASE busy -> {s}
        [] ~ busy /\ alive -> {[s EXCEPT !.run.noticed = FALSE]}
        [] ~ busy /\ ~ alive /\ ~ s.run.noticed -> {Noticed(s, fast)}
        [] ~ busy /\ ~ alive /\ s.run.noticed /\ ~ due -> {s}
        [] ~ busy /\ ~ alive /\ s.run.noticed /\ due ->
             IF Choices(s) = {} THEN {[s EXCEPT !.run.failed = TRUE]} ELSE Restarted(s)

PassRuns(due) ==
  /\ phase = "runs"
  /\ \E fast \in BOOLEAN : \E m \in Reconcile(State) : \E s \in Revive(m, due, fast) : Commit(s)
  /\ phase' = "adapt"
  /\ UNCHANGED <<device, effective, chosen, changes, trouble>>

\* _adapt_tick: no shift; a shift, taken back when it cannot be applied now
\* (but not when begin_swap raises); or the reset after the last live
\* destination stopped, which applies nothing.
PassAdapt ==
  /\ phase = "adapt"
  /\ phase' = "idle"
  /\ \/ UNCHANGED <<roles, run, proc, overlap, tries, effective, changes>>
     \/ \E with \in Setting \ {effective} :
          /\ changes < MaxChanges
          /\ changes' = changes + 1
          /\ \E s \in Applied(with) : Commit(s)
          /\ effective' = IF run.failed \/ run' # run THEN with ELSE effective
     \/ /\ effective # chosen
        /\ effective' = chosen
        /\ UNCHANGED <<roles, run, proc, overlap, tries, changes>>
  /\ UNCHANGED <<device, chosen, trouble>>
-----------------------------------------------------------------------------
(* Encoders and their threads.                                             *)

\* The waiting encoder's keyframe arrives and the switch cuts.
SwitchCompletes ==
  /\ roles.pending # NoGen
  /\ roles' = Switch!Completed(roles)
  /\ UNCHANGED <<device, run, proc, effective, chosen, phase, overlap, tries, changes, trouble>>

\* It does not, in time.
SwitchGivesUp ==
  /\ roles.pending # NoGen /\ trouble < MaxTrouble
  /\ roles' = Switch!GivenUp(roles)
  /\ trouble' = trouble + 1
  /\ UNCHANGED <<device, run, proc, effective, chosen, phase, overlap, tries, changes>>

\* A process ends by itself: _gen_exited, up to the lock.
Die(g) ==
  /\ g \in proc.running \ proc.stopping /\ trouble < MaxTrouble
  /\ proc' = [proc EXCEPT !.running = @ \ {g}, !.dead = @ \cup {g},
                          !.exiting = IF g \in proc.dead THEN @ ELSE @ \cup {g}]
  /\ trouble' = trouble + 1
  /\ UNCHANGED <<device, roles, run, effective, chosen, phase, overlap, tries, changes>>

\* _gen_exited, under the lock.
ExitHandled(g) ==
  /\ phase = "idle" /\ g \in proc.exiting
  /\ proc' = [proc EXCEPT !.exiting = @ \ {g}]
  /\ roles' \in Switch!Ended(roles, g)
  /\ UNCHANGED <<device, run, effective, chosen, phase, overlap, tries, changes, trouble>>

\* A stream-retire thread has stopped its process.
Stopped(g) ==
  /\ g \in proc.stopping
  /\ proc' = [proc EXCEPT !.running = @ \ {g}, !.stopping = @ \ {g}]
  /\ UNCHANGED <<device, roles, run, effective, chosen, phase, overlap, tries, changes, trouble>>

Next ==
  \/ \E e \in Encoder : Start(e)
  \/ Stop
  \/ \E with \in Setting, kind \in {"codec", "encode"} : Set(with, kind)
  \/ PassRetire
  \/ \E due \in BOOLEAN : PassRuns(due)
  \/ PassAdapt
  \/ SwitchCompletes
  \/ SwitchGivesUp
  \/ \E g \in Gen : Die(g) \/ ExitHandled(g) \/ Stopped(g)

Spec == Init /\ [][Next]_vars

\* The supervisor's thread keeps going and a backoff ends; every thread gets
\* its turn; a swap is decided (CutOver's SwapDecided).
FairSpec ==
  /\ Spec
  /\ WF_vars(PassRetire) /\ SF_vars(PassRuns(TRUE)) /\ WF_vars(PassAdapt)
  /\ WF_vars(SwitchCompletes)
  /\ \A g \in Gen : SF_vars(ExitHandled(g)) /\ WF_vars(Stopped(g))
-----------------------------------------------------------------------------
Pending == [gen : Gen, settings : Setting, choice : Encoder, attempt : 1 .. 2] \cup {NoSwap}

TypeOK ==
  /\ roles \in Switch!Roles
  /\ run \in [up : BOOLEAN, settings : Setting, choice : Encoder \cup {"none"},
              pending : Pending, gens : SUBSET Gen, failures : 0 .. Failures,
              bad : SUBSET Encoder, noticed : BOOLEAN, failed : BOOLEAN]
  /\ proc \in [begun : 0 .. MaxGen, made : UNION {[1 .. n -> Setting] : n \in 0 .. MaxGen},
               running : SUBSET Gen, dead : SUBSET Gen, exiting : SUBSET Gen, stopping : SUBSET Gen]
  /\ DOMAIN proc.made = 1 .. proc.begun
  /\ effective \in Setting /\ chosen \in Setting
  /\ phase \in {"idle", "runs", "adapt"} /\ overlap \in BOOLEAN /\ device \in Device
  /\ tries \in Nat /\ changes \in 0 .. MaxChanges /\ trouble \in 0 .. MaxTrouble

\* No swap is in flight and the generation on air runs.
Settled ==
  run.up /\ run.pending = NoSwap /\ roles.pending = NoGen /\ roles.active \in proc.running \ proc.dead

(* No encoder process is left running that nobody will stop, however swaps, *)
(* deaths, retries and requests interleave.                                 *)
NoLeak == proc.running \subseteq run.gens \cup proc.stopping

(* When no swap is in flight, the settings the run reports and restarts     *)
(* with are those of the encoder on air, unless a codec change was let in   *)
(* while another change was being applied.                                  *)
RunIsOnAir == Settled /\ ~ overlap => proc.made[roles.active] = run.settings

(* "the swap is retried once with more lead": a change is tried at most     *)
(* twice where more than one encoder may read the device, so that           *)
(* _swap_video carries the attempt along.                                   *)
SharedRetriedOnce == ~ Exclusive => tries <= 2

(* "`effective` is what is being sent": when no swap is in flight and the   *)
(* encoder can be chosen.                                                   *)
EffectiveIsSent == Settled /\ ~ run.failed => proc.made[roles.active] = effective

(* "an exclusive capture device cannot be opened twice": whatever dies, is   *)
(* retried or replaced, at most one encoder holds it, but for those a retire *)
(* thread is stopping at this moment.                                       *)
OneReader == Exclusive => Cardinality(proc.running \ proc.stopping) <= 1

(* "the stream is never left without an encoder": once encoders behave, a   *)
(* run that is up has a living encoder on air for good, or has run out of   *)
(* encoders to try.                                                         *)
ComesBack == <>[](run.up => run.failed \/ roles.active \in proc.running)

(* Every swap the service waits for is settled, one way or the other.       *)
SwapSettled == run.pending # NoSwap ~> run.pending = NoSwap
=============================================================================
