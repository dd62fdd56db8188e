----------------------------- MODULE TrackSwitch -----------------------------
(***************************************************************************)
(* class TrackSwitch of stream/relay.py: the methods of the object that    *)
(* cuts a live video track from one encoder generation to the next, as     *)
(* operators from the state of the object to its next state.               *)
(*                                                                         *)
(* Timestamps are in a unit that makes one frame a whole number (the code  *)
(* has floats), so `x >= cut - frame / 2` is 2 * x >= 2 * cut - Frame.     *)
(* One generation's timestamps increase, so the lists _held and _staged    *)
(* are sets of blocks here, read in the order of their timestamps.         *)
(***************************************************************************)
EXTENDS Integers

CONSTANTS
  MaxGen,         \* generations the service may start (ids come from _next_gen)
  Frame,          \* frame_ms
  HoldLimit,      \* HOLD_LIMIT_MS
  SwitchTimeout,  \* SWITCH_TIMEOUT_MS
  StallLimit      \* the 250 ms a staged keyframe waits for a quiet old encoder

ASSUME SwitchAssumption ==
  /\ MaxGen \in Nat
  /\ Frame \in Nat \ {0}
  /\ HoldLimit \in Nat
  /\ SwitchTimeout \in Nat
  /\ StallLimit \in Nat

Gen == 1 .. MaxGen
NoGen == 0          \* None, where the code has a generation id or None
Never == -1         \* None, where the code has a timestamp or None

\* A video block; the id of its encoder travels with it (the argument gen).
Block == [gen : Gen, ts : Nat, key : BOOLEAN]

\* The attributes of the object, what it emitted and whom it retired.
Switch ==
  [active : Gen \cup {NoGen}, pending : Gen \cup {NoGen},
   cut : Nat \cup {Never}, lastTs : Nat \cup {Never}, started : BOOLEAN,
   held : SUBSET Block, staged : SUBSET Block,
   swapStarted : Nat, syncedAt : Nat \cup {Never}, head : Nat \cup {Never},
   out : SUBSET Block, retired : SUBSET Gen]

NewSwitch ==
  [active |-> NoGen, pending |-> NoGen, cut |-> Never, lastTs |-> Never,
   started |-> FALSE, held |-> {}, staged |-> {}, swapStarted |-> 0,
   syncedAt |-> Never, head |-> Never, out |-> {}, retired |-> {}]

First(B) == CHOOSE b \in B : \A c \in B : b.ts <= c.ts
Last(B)  == CHOOSE b \in B : \A c \in B : c.ts <= b.ts
-----------------------------------------------------------------------------
(* _forward, for the blocks of B in order: nothing leaves before the first *)
(* keyframe, and no block runs time backwards.                             *)
Forward(s, B) ==
  LET begun  == IF s.started THEN B
                ELSE {b \in B : \E k \in B : k.key /\ k.ts <= b.ts}
      passed == {b \in begun : b.ts >= s.lastTs}
  IN  [s EXCEPT !.started = s.started \/ begun # {},
                !.lastTs  = IF passed = {} THEN s.lastTs ELSE Last(passed).ts,
                !.out     = s.out \cup passed]

Activate(s, g) == [s EXCEPT !.active = g, !.started = FALSE, !.head = Never]

\* The caller's obligation, a RuntimeError in the code.
MayBegin(s) == s.active = NoGen \/ s.pending = NoGen

BeginSwap(s, g, cut, now) ==
  IF s.active = NoGen THEN Activate(s, g)
  ELSE [s EXCEPT !.pending = g, !.cut = cut, !.held = {}, !.staged = {},
                 !.syncedAt = Never, !.swapStarted = now]

\* Mutants: what was held is forgotten once an earlier swap has completed; the
\* pending generation is forgotten.
AbortSwapDropsHeld(s) ==
  LET later == \E b \in s.out : b.gen # s.active
      idle  == [s EXCEPT !.pending = NoGen, !.cut = Never, !.syncedAt = Never,
                         !.held = {}, !.staged = {}]
      sent  == Forward(idle, IF later THEN {} ELSE s.held)
  IN  IF s.pending = NoGen THEN s
      ELSE [sent EXCEPT !.retired = s.retired \cup {s.pending}]

AbortSwapKeepsEncoder(s) ==
  Forward([s EXCEPT !.pending = NoGen, !.cut = Never, !.syncedAt = Never,
                    !.held = {}, !.staged = {}], s.held)

AbortSwap(s) ==
  LET idle == [s EXCEPT !.pending = NoGen, !.cut = Never, !.syncedAt = Never,
                        !.held = {}, !.staged = {}]
      sent == Forward(idle, s.held)
  IN  IF s.pending = NoGen THEN s
      ELSE [sent EXCEPT !.retired = s.retired \cup {s.pending}]

\* The held blocks the new keyframe does not replace (half a frame apart is
\* the same picture).
Before(B, k) == {b \in B : 2 * b.ts < 2 * k.ts - Frame}

Finish(s) ==
  LET old  == Forward(s, Before(s.held, First(s.staged)))
      new  == [old EXCEPT !.active = s.pending, !.pending = NoGen,
                          !.cut = Never, !.held = {}, !.staged = {},
                          !.syncedAt = Never, !.head = Last(s.staged).ts,
                          !.started = TRUE]
      sent == Forward(new, s.staged)
  IN  [sent EXCEPT !.retired =
         IF s.active = NoGen THEN s.retired ELSE s.retired \cup {s.active}]

\* The old encoder has delivered what comes before the new keyframe.
CaughtUp(s) ==
  \/ s.active = NoGen
  \/ s.head = Never
  \/ s.head >= First(s.staged).ts - Frame

MaybeFinish(s) ==
  IF s.pending # NoGen /\ s.staged # {} /\ CaughtUp(s) THEN Finish(s) ELSE s

Hold(s, b) ==
  LET h == [s EXCEPT !.held = s.held \cup {b}]
  IN  IF Last(h.held).ts - First(h.held).ts > HoldLimit THEN AbortSwap(h) ELSE h

\* on_block, for a block of the active generation.
OnActive(s, b) ==
  LET t == [s EXCEPT !.head = b.ts]
      atCut  == s.pending # NoGen /\ 2 * b.ts >= 2 * s.cut - Frame
      synced == s.staged # {} /\ 2 * b.ts >= 2 * First(s.staged).ts - Frame
  IN  CASE atCut /\ synced  -> MaybeFinish(t)
        [] atCut /\ ~synced -> Hold(t, b)
        [] OTHER            -> MaybeFinish(Forward(t, {b}))

\* Mutant: any frame at or after the cut is taken for the sync point.
OnPendingAnyFrame(s, b, now) ==
  IF s.staged # {} THEN MaybeFinish([s EXCEPT !.staged = s.staged \cup {b}])
  ELSE IF b.ts >= s.cut /\ b.ts > s.lastTs
  THEN MaybeFinish([s EXCEPT !.staged = {b}, !.syncedAt = now])
  ELSE s

OnPending(s, b, now) ==
  CASE s.staged # {} ->
         MaybeFinish([s EXCEPT !.staged = s.staged \cup {b}])
    [] s.staged = {} /\ b.key /\ b.ts >= s.cut /\ b.ts > s.lastTs ->
         MaybeFinish([s EXCEPT !.staged = {b}, !.syncedAt = now])
    [] OTHER -> s

\* Mutant: a block of a retired generation is still forwarded.
OnBlockForwardsRetired(s, b, now) ==
  CASE b.gen = s.active                      -> OnActive(s, b)
    [] b.gen # s.active /\ b.gen = s.pending -> OnPending(s, b, now)
    [] OTHER                                 -> Forward(s, {b})

\* A block of a retired generation is dropped.
OnBlock(s, b, now) ==
  CASE b.gen = s.active                         -> OnActive(s, b)
    [] b.gen # s.active /\ b.gen = s.pending    -> OnPending(s, b, now)
    [] OTHER                                    -> s

\* Mutant: a swap whose encoder never shows a keyframe is never given up.
TickSwitchNoTimeout(s, now) ==
  IF s.pending # NoGen /\ s.staged # {} /\ now - s.syncedAt > StallLimit
  THEN Finish(s) ELSE s

TickSwitch(s, now) ==
  CASE s.pending # NoGen /\ s.staged # {} /\ now - s.syncedAt > StallLimit ->
         Finish(s)
    [] /\ s.pending # NoGen
       /\ ~(s.staged # {} /\ now - s.syncedAt > StallLimit)
       /\ now - s.swapStarted > SwitchTimeout -> AbortSwap(s)
    [] OTHER -> s

GenerationEnded(s, g) ==
  CASE g = s.pending -> AbortSwap(s)
    [] g # s.pending /\ g = s.active /\ s.pending # NoGen /\ s.staged # {} ->
         Finish(s)
    [] g # s.pending /\ g = s.active /\ s.pending = NoGen ->
         [s EXCEPT !.active = NoGen]
    [] OTHER -> s
=============================================================================
