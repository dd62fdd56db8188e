--------------------------- MODULE AdaptController ---------------------------
(***************************************************************************)
(* The bandwidth controller of stream/adapt.py, as the supervisor drives   *)
(* it (StreamService._adapt_tick): verdicts about the link in, steps down  *)
(* and up a ladder of picture sizes out, with hysteresis.                  *)
(*                                                                         *)
(* The code keeps instants and compares now - instant with thresholds.     *)
(* Here each is an age that saturates at Cap, above every threshold, so    *)
(* the model is finite and its behaviours are not cut short.               *)
(*                                                                         *)
(* The specification's own names begin with Adapt: a module about the      *)
(* whole supervision pass extends this one and Supervisor.                 *)
(***************************************************************************)
EXTENDS Integers

CONSTANTS
  Last,        \* index of the lowest rung: len(steps) - 1
  Interval,    \* eval_interval_s
  Retry,       \* seconds until the next look after a refused shift
  DownAfter,   \* down_after
  Cooldown,    \* cooldown_s
  MinGap,      \* min_gap_s
  UpHold,      \* up_hold_s
  FlapWindow,  \* flap_window_s
  MaxHold,     \* max_hold_factor
  ResetCalm,   \* reset_calm_s
  Cap          \* bound: ages are not told apart from here on

ASSUME AdaptAssumption ==
  /\ Last \in Nat /\ DownAfter \in Nat \ {0}
  /\ Interval \in Nat \ {0} /\ Retry \in Nat \ {0}
  /\ Cooldown \in Nat /\ MinGap \in Nat /\ UpHold \in Nat /\ FlapWindow \in Nat
  /\ MaxHold \in Nat \ {0} /\ ResetCalm \in Nat
  /\ Cap \in Nat
  /\ Cap >= Cooldown /\ Cap >= MinGap /\ Cap >= FlapWindow /\ Cap >= ResetCalm
  /\ Cap >= UpHold * MaxHold

VARIABLES
  index,        \* the rung sent now
  bad,          \* _bad, congested rounds in a row (counted up to DownAfter + 1)
  calm,         \* age of _calm_since
  sinceChange,  \* age of _last_change
  sinceUp,      \* age of _last_up
  hold,         \* _hold_factor
  wait,         \* time left until _adapt_next
  link,         \* what the worst destination's samples say now
  poor,         \* the network monitor rates the uplink poor or offline
  busy,         \* an encoder swap is in flight: a shift is refused (409)
  quiet,        \* history: age of the last round that was not ok
  flapped       \* history: the last recovery failed and is not forgotten

adaptVars == <<index, bad, calm, sinceChange, sinceUp, hold, wait,
          link, poor, busy, quiet, flapped>>

None == -1
Level == {"ok", "warn", "congested", "severe"}
Ages == {None} \cup 0 .. Cap
Congestion == {"congested", "severe"}

MinOf(a, b) == IF a <= b THEN a ELSE b
Older(a) == IF a = None THEN None ELSE MinOf(a + 1, Cap)

AdaptInit ==
  /\ index = 0 /\ bad = 0
  /\ calm = None /\ sinceChange = None /\ sinceUp = None /\ hold = 1
  /\ wait = 0 /\ link = "ok" /\ poor = FALSE /\ busy = FALSE
  /\ quiet = 0 /\ flapped = FALSE
-----------------------------------------------------------------------------
(* evaluate: what a round makes of the counters, before any shift.         *)
\* Mutant: a warning does not break the calm spell.
CalmAfterForgiving(level) ==
  IF level \in Congestion THEN None ELSE IF calm = None THEN 0 ELSE calm

CalmAfter(level) ==
  IF level # "ok" THEN None ELSE IF calm = None THEN 0 ELSE calm

BadAfter(level) ==
  IF level \in Congestion THEN MinOf(bad + 1, DownAfter + 1) ELSE 0

HoldAfter(level) ==
  IF index = 0 /\ CalmAfter(level) # None /\ CalmAfter(level) >= ResetCalm
  THEN 1 ELSE hold

Past(age, gap) == age = None \/ age >= gap

\* Mutant: off by one, the lowest rung is never used.
WantsDownStops(level) ==
  /\ level \in Congestion /\ index + 1 < Last
  /\ BadAfter(level) >= (IF level = "severe" THEN 1 ELSE DownAfter)
  /\ Past(sinceChange, IF level = "severe" THEN MinGap ELSE Cooldown)

WantsDown(level) ==
  /\ level \in Congestion /\ index < Last
  /\ BadAfter(level) >= (IF level = "severe" THEN 1 ELSE DownAfter)
  /\ Past(sinceChange, IF level = "severe" THEN MinGap ELSE Cooldown)

\* Mutant: off by one, the top rung is never regained.
WantsUpNever(level) ==
  /\ level = "ok" /\ index > 1
  /\ CalmAfter(level) # None /\ CalmAfter(level) >= UpHold * HoldAfter(level)
  /\ Past(sinceChange, Cooldown)

WantsUp(level) ==
  /\ level = "ok" /\ index > 0
  /\ CalmAfter(level) # None /\ CalmAfter(level) >= UpHold * HoldAfter(level)
  /\ Past(sinceChange, Cooldown)

\* Two rungs when the link stayed severe, one otherwise.
DownTo(level) ==
  MinOf(Last, index + (IF level = "severe" /\ BadAfter(level) >= 2 THEN 2 ELSE 1))

\* The network monitor's distrust turns ok into a warning.
Judged == IF link = "ok" /\ poor THEN "warn" ELSE link
-----------------------------------------------------------------------------
\* The round's bookkeeping, when it ends without a committed shift.
Keep(level, next) ==
  /\ bad' = BadAfter(level)
  /\ calm' = CalmAfter(level)
  /\ hold' = HoldAfter(level)
  /\ wait' = next
  /\ UNCHANGED <<index, sinceChange, sinceUp>>

\* Mutant: a commit forgets to double the spell after a failed recovery.
CommitDownForgets(level) ==
  /\ index' = DownTo(level)
  /\ hold' = HoldAfter(level)
  /\ bad' = 0 /\ calm' = None /\ sinceChange' = 0
  /\ wait' = Interval
  /\ UNCHANGED sinceUp

\* commit, for the two directions.
CommitDown(level) ==
  /\ index' = DownTo(level)
  /\ hold' = IF sinceUp # None /\ sinceUp < FlapWindow
             THEN MinOf(MaxHold, 2 * HoldAfter(level)) ELSE HoldAfter(level)
  /\ bad' = 0 /\ calm' = None /\ sinceChange' = 0
  /\ wait' = Interval
  /\ UNCHANGED sinceUp

CommitUp(level) ==
  /\ index' = index - 1
  /\ hold' = HoldAfter(level)
  /\ bad' = 0 /\ calm' = 0 /\ sinceChange' = 0 /\ sinceUp' = 0
  /\ wait' = Interval

\* One look of _adapt_tick while a live destination is up.  A shift that
\* cannot be applied now is not committed and is tried again soon.
Look ==
  LET level == Judged IN
  /\ wait = 0
  /\ \/ /\ ~ WantsDown(level) /\ ~ WantsUp(level)
        /\ Keep(level, Interval)
     \/ /\ WantsDown(level) \/ WantsUp(level)
        /\ busy
        /\ Keep(level, Retry)
     \/ WantsDown(level) /\ ~ busy /\ CommitDown(level)
     \/ ~ WantsDown(level) /\ WantsUp(level) /\ ~ busy /\ CommitUp(level)
  /\ quiet' = IF level = "ok" THEN quiet ELSE 0
  /\ flapped' = \/ flapped /\ ~ (index = 0 /\ quiet >= ResetCalm)
                \/ index' > index /\ sinceUp # None /\ sinceUp < FlapWindow
  /\ UNCHANGED <<link, poor, busy>>

\* reset: the stream stopped, a new one starts, or new settings were chosen.
Reset ==
  /\ index' = 0 /\ bad' = 0 /\ calm' = None /\ sinceChange' = None
  /\ sinceUp' = None /\ hold' = 1
  /\ quiet' = 0 /\ flapped' = FALSE
  /\ UNCHANGED <<wait, link, poor, busy>>

Second ==
  /\ wait' = IF wait = 0 THEN 0 ELSE wait - 1
  /\ calm' = Older(calm) /\ sinceChange' = Older(sinceChange)
  /\ sinceUp' = Older(sinceUp) /\ quiet' = MinOf(quiet + 1, Cap)
  /\ UNCHANGED <<index, bad, hold, link, poor, busy, flapped>>

\* The world: the link gets better or worse, a swap begins or ends.
World ==
  /\ link' \in Level /\ poor' \in BOOLEAN /\ busy' \in BOOLEAN
  /\ UNCHANGED <<index, bad, calm, sinceChange, sinceUp, hold, wait, quiet, flapped>>

AdaptNext == Look \/ Reset \/ Second \/ World

AdaptSpec == AdaptInit /\ [][AdaptNext]_adaptVars

\* Time passes and the supervisor keeps looking.
AdaptFairSpec == AdaptSpec /\ WF_adaptVars(Second) /\ WF_adaptVars(Look)
-----------------------------------------------------------------------------
AdaptTypeOK ==
  /\ index \in 0 .. Last /\ bad \in 0 .. DownAfter + 1
  /\ calm \in Ages /\ sinceChange \in Ages /\ sinceUp \in Ages
  /\ hold \in 1 .. MaxHold
  /\ wait \in Nat /\ link \in Level /\ poor \in BOOLEAN /\ busy \in BOOLEAN
  /\ quiet \in 0 .. Cap /\ flapped \in BOOLEAN

\* A committed step up (a reset forgets the last change instead).
StepUp == index' < index /\ sinceChange' = 0

(* "a step up is one rung and needs 30 s of an unbroken ok verdict (a       *)
(* warning restarts the count)": every step up comes that long after the   *)
(* last round that was not ok, and that long after the step up before it.   *)
UpAfterCalm ==
  [][StepUp => /\ index' = index - 1
               /\ quiet >= UpHold
               /\ sinceUp = None \/ sinceUp >= UpHold]_adaptVars

(* "a link that cannot carry a rung is not hammered with it": after a       *)
(* recovery that failed within the flap window, the next one waits at least *)
(* twice as long, until the memory is dropped by a long calm at the top.    *)
FailedRecoveryWaits ==
  [][StepUp /\ flapped => quiet >= UpHold * MinOf(2, MaxHold)]_adaptVars

(* A link that stays good with nothing in the way returns to the picture    *)
(* the person chose, however far it was stepped down.                       *)
Recovers == <>[](link = "ok" /\ ~ poor /\ ~ busy) => <>[](index = 0)

(* A link that stays severe is stepped down to the floor, in a session that *)
(* nothing resets any more.                                                 *)
GivesWay ==
  <>[](link = "severe" /\ ~ busy) /\ <>[][~ Reset]_adaptVars => <>[](index = Last)
=============================================================================
