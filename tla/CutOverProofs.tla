---------------------------- MODULE CutOverProofs ----------------------------
(***************************************************************************)
(* Proofs about CutOver, for every number of generations, every clock and  *)
(* every limit.  The inductive invariant says of the switch which blocks   *)
(* its two lists may hold, how their stamps compare with the last one      *)
(* emitted, and that what is on air began with a keyframe.  The last part  *)
(* adds to it what became of every block that was delivered.               *)
(***************************************************************************)
EXTENDS CutOver, WellFoundedInduction, TLAPS

Shape(s) ==
  /\ s.pending # NoGen => s.active # NoGen /\ s.active < s.pending /\ s.cut \in Nat
  /\ s.pending = NoGen => s.held = {} /\ s.staged = {}

\* beg generations were started; each list holds blocks of its generation.
Owned(s, beg) ==
  /\ s.active <= beg /\ s.pending <= beg
  /\ \A b \in s.out : b.gen <= beg
  /\ s.active # NoGen => \A b \in s.out : b.gen <= s.active
  /\ \A b \in s.held : b.gen = s.active
  /\ \A b \in s.staged : b.gen = s.pending

\* n is the clock, nw[g] the newest stamp of generation g.
Stamped(s, n, nw) ==
  /\ s.lastTs <= n
  /\ \A b \in s.out : b.ts <= s.lastTs
  /\ \A b \in s.held \cup s.staged : b.ts <= nw[b.gen]

\* The staged blocks begin with a keyframe past all that was emitted.
Synced(s) ==
  s.staged # {} => \E k \in s.staged :
    /\ k.key /\ k.ts >= s.cut /\ k.ts > s.lastTs
    /\ \A c \in s.staged : c = k \/ k.ts < c.ts

OnAir(s) ==
  s.started /\ s.active # NoGen => \E k \in s.out : k.gen = s.active /\ k.key

\* A generation that is not on air yet is younger than all that was emitted.
Fresh(s, nw) ==
  ~ s.started /\ s.active # NoGen =>
    /\ s.lastTs <= nw[s.active] + 1
    /\ \A b \in s.held : b.ts >= s.lastTs

Keyed(s) ==
  \A b \in s.out : \E k \in s.out : k.gen = b.gen /\ k.key /\ k.ts <= b.ts
Ordered(s) == \A b, c \in s.out : b.gen < c.gen => b.ts <= c.ts

\* What Forward of blocks of the active generation keeps.
Core(s, n, nw, beg) ==
  /\ s \in Switch
  /\ Shape(s) /\ Owned(s, beg) /\ Stamped(s, n, nw)
  /\ OnAir(s) /\ Fresh(s, nw) /\ Keyed(s) /\ Ordered(s)

SInv(s, n, nw, beg) == Core(s, n, nw, beg) /\ Synced(s)

\* What a step may do to the two encoders: nothing, hand the pending one
\* back, or put the pending one in the place of the active one.
Roles(s, t) ==
  \/ t.active = s.active /\ t.pending = s.pending /\ t.retired = s.retired
  \/ /\ s.pending # NoGen /\ t.active = s.active /\ t.pending = NoGen
     /\ t.retired = s.retired \cup {s.pending}
  \/ /\ s.pending # NoGen /\ t.active = s.pending /\ t.pending = NoGen
     /\ t.retired = s.retired \cup {s.active}

Good(s, t, n, nw, beg) == SInv(t, n, nw, beg) /\ Roles(s, t)

IInv ==
  /\ TypeOK
  /\ \A g \in Gen : newest[g] <= now
  /\ sw.retired \subseteq 1 .. begun
  /\ SInv(sw, now, newest, begun)
-----------------------------------------------------------------------------
LEMMA NatMin ==
  ASSUME NEW T, T \subseteq Nat, T # {}
  PROVE  \E x \in T : \A y \in T : x <= y
<1> DEFINE R == OpToRel(<, Nat)
<1>1. IsWellFoundedOn(R, Nat)
  BY NatLessThanWellFounded, Zenon
<1>2. \A x, y \in Nat : x < y => <<x, y>> \in R
  BY DEF OpToRel
<1> HIDE DEF R
<1>3. PICK x \in T : \A y \in T : ~ (<<y, x>> \in R)
  BY <1>1, WFMin, Zenon
<1>4. \A y \in T : ~ (y < x)
  BY <1>2, <1>3
<1> QED
  BY <1>4

LEMMA NatMax ==
  ASSUME NEW T, T \subseteq Nat, T # {}, NEW m \in Nat, \A x \in T : x <= m
  PROVE  \E x \in T : \A y \in T : y <= x
<1> DEFINE U == {m - x : x \in T}
<1>1. \A u \in U : u \in Nat
  OBVIOUS
<1>2. U # {}
  OBVIOUS
<1>3. U \subseteq Nat
  BY <1>1
<1> HIDE DEF U
<1>4. PICK u \in U : \A v \in U : u <= v
  BY <1>2, <1>3, NatMin
<1> USE DEF U
<1>5. PICK x \in T : u = m - x
  BY <1>4
<1>6. \A y \in T : m - x <= m - y
  BY <1>4, <1>5
<1> QED
  BY <1>6

LEMMA LastBlock ==
  ASSUME NEW B, B \subseteq Block, B # {}, NEW n \in Nat, \A b \in B : b.ts <= n
  PROVE  Last(B) \in B /\ \A c \in B : c.ts <= Last(B).ts
<1> DEFINE T == {b.ts : b \in B}
<1>1. T # {} /\ T \subseteq Nat /\ \A t \in T : t <= n
  BY DEF Block
<1> HIDE DEF T
<1>2. PICK t \in T : \A u \in T : u <= t
  BY <1>1, NatMax
<1>3. \E b \in B : \A c \in B : c.ts <= b.ts
  BY <1>2 DEF T
<1> QED
  BY <1>3 DEF Last

LEMMA FirstBlock ==
  ASSUME NEW B, NEW k \in B, B \subseteq Block, \A c \in B : c = k \/ k.ts < c.ts
  PROVE  First(B) = k
<1>1. \A c \in B : k.ts <= c.ts
  BY DEF Block
<1>2. First(B) \in B /\ \A c \in B : First(B).ts <= c.ts
  BY <1>1 DEF First
<1> QED
  BY <1>2 DEF Block
-----------------------------------------------------------------------------
(* What _forward makes of a set of blocks stamped no later than n.         *)
Forwarded(s, B, n, t) ==
  /\ t \in Switch
  /\ /\ t.active = s.active /\ t.pending = s.pending /\ t.cut = s.cut
     /\ t.held = s.held /\ t.staged = s.staged /\ t.head = s.head
     /\ t.syncedAt = s.syncedAt /\ t.swapStarted = s.swapStarted
     /\ t.retired = s.retired
  /\ s.started => t.started
  /\ ~ t.started => t.lastTs = s.lastTs
  /\ s.out \subseteq t.out /\ t.out \subseteq s.out \cup B
  /\ s.lastTs <= t.lastTs /\ t.lastTs <= n
  /\ t.lastTs # s.lastTs => \E b \in B : t.lastTs = b.ts
  /\ \A b \in t.out : b \in s.out \/ (s.lastTs <= b.ts /\ b.ts <= t.lastTs)
  /\ s.started => \A b \in B : b.ts >= s.lastTs => b \in t.out
  /\ ~ s.started => \A b \in t.out : b \in s.out \/ \E k \in B : k.key /\ k.ts <= b.ts
  /\ ~ s.started /\ t.started => \E k \in B : k.key
  /\ ~ s.started => \A b \in B : b.key /\ b.ts >= s.lastTs => b \in t.out

LEMMA SwitchMoved ==
  ASSUME NEW s \in Switch, NEW on \in BOOLEAN, NEW ts \in Nat \cup {Never}, NEW out \in SUBSET Block
  PROVE  [s EXCEPT !.started = on, !.lastTs = ts, !.out = out] \in Switch
BY DEF Switch

LEMMA ForwardFacts ==
  ASSUME NEW s \in Switch, NEW n \in Nat, NEW B, B \subseteq Block,
         \A b \in B : b.ts <= n, s.lastTs <= n
  PROVE  Forwarded(s, B, n, Forward(s, B))
<1> DEFINE begunB == IF s.started THEN B
                     ELSE {b \in B : \E k \in B : k.key /\ k.ts <= b.ts}
           passed == {b \in begunB : b.ts >= s.lastTs}
           t == Forward(s, B)
           top == IF passed = {} THEN s.lastTs ELSE Last(passed).ts
<1>1. passed \subseteq begunB /\ begunB \subseteq B
  OBVIOUS
<1>2. t = [s EXCEPT !.started = s.started \/ begunB # {}, !.lastTs = top,
                    !.out = s.out \cup passed]
  BY DEF Forward
<1>3. passed # {} => Last(passed) \in passed /\ \A c \in passed : c.ts <= Last(passed).ts
  <2> SUFFICES ASSUME passed # {}
      PROVE  Last(passed) \in passed /\ \A c \in passed : c.ts <= Last(passed).ts
    OBVIOUS
  <2>1. passed \subseteq Block /\ \A b \in passed : b.ts <= n
    BY <1>1
  <2> HIDE DEF passed
  <2> QED
    BY <2>1, LastBlock
<1>4. /\ top \in Nat \cup {Never} /\ s.lastTs <= top /\ top <= n
      /\ top # s.lastTs => \E b \in B : top = b.ts
      /\ \A b \in passed : s.lastTs <= b.ts /\ b.ts <= top
  <2>1. s.lastTs \in Int /\ s.lastTs \in Nat \cup {Never}
    BY DEF Switch, Never
  <2>2. \A b \in passed : b \in B /\ b.ts \in Nat /\ b.ts <= n /\ b.ts >= s.lastTs
    BY <1>1 DEF Block
  <2> HIDE DEF passed
  <2>3. CASE passed = {}
    BY <2>1, <2>3
  <2>4. CASE passed # {}
    BY <1>3, <2>1, <2>2, <2>4
  <2> QED
    BY <2>3, <2>4
<1>5. /\ s.started => begunB = B
      /\ ~ s.started => begunB = {b \in B : \E k \in B : k.key /\ k.ts <= b.ts}
  OBVIOUS
<1>5a. s.started \in BOOLEAN
  BY DEF Switch
<1>6. ~ s.started => \A b \in B : b.key /\ b.ts >= s.lastTs => b \in passed
  BY <1>5 DEF Block
<1>6a. s.started => \A b \in B : b.ts >= s.lastTs => b \in passed
  BY <1>5
<1>6b. begunB = {} => passed = {}
  BY <1>1
<1>6c. ~ s.started => \A b \in begunB : \E k \in B : k.key /\ k.ts <= b.ts
  BY <1>5
<1> HIDE DEF begunB, passed, top, t
<1>7. /\ t.started = (s.started \/ begunB # {}) /\ t.lastTs = top
      /\ t.out = s.out \cup passed
      /\ t.active = s.active /\ t.pending = s.pending /\ t.cut = s.cut
      /\ t.held = s.held /\ t.staged = s.staged /\ t.head = s.head
      /\ t.syncedAt = s.syncedAt /\ t.swapStarted = s.swapStarted
      /\ t.retired = s.retired
  BY <1>2 DEF Switch
<1>8. t \in Switch
  <2>1. s.out \cup passed \in SUBSET Block
    BY <1>1 DEF Switch
  <2>2. top \in Nat \cup {Never}
    BY <1>4
  <2>3. (s.started \/ begunB # {}) \in BOOLEAN
    BY <1>5a
  <2> QED
    BY <1>2, <2>1, <2>2, <2>3, SwitchMoved
<1>9. ~ t.started => t.lastTs = s.lastTs
  BY <1>6b, <1>7 DEF top
<1> QED
  <2>1. \A b \in t.out : b \in s.out \/ (s.lastTs <= b.ts /\ b.ts <= t.lastTs)
    BY <1>4, <1>7
  <2>2. ~ s.started => \A b \in t.out : b \in s.out \/ \E k \in B : k.key /\ k.ts <= b.ts
    BY <1>1, <1>6c, <1>7
  <2>3. ~ s.started /\ t.started => \E k \in B : k.key
    BY <1>6c, <1>7
  <2>4. s.out \subseteq t.out /\ t.out \subseteq s.out \cup B
    BY <1>1, <1>7
  <2> QED
    BY <1>4, <1>6, <1>6a, <1>7, <1>8, <1>9, <2>1, <2>2, <2>3, <2>4, <1>5a
    DEF t, Forwarded

(* Forwarding blocks of the generation on air keeps the core.              *)
LEMMA ForwardCore ==
  ASSUME NEW n \in Nat, NEW beg \in Nat, NEW nw \in [Gen -> Nat \cup {Never}],
         NEW s, Core(s, n, nw, beg), s.active # NoGen,
         NEW B, B \subseteq Block,
         \A b \in B : b.gen = s.active /\ b.ts <= n,
         ~ s.started => \A b \in B : b.ts >= s.lastTs
  PROVE  Core(Forward(s, B), n, nw, beg)
<1> DEFINE t == Forward(s, B)
<1>1. s \in Switch /\ s.lastTs <= n /\ \A b \in B : b.ts <= n
  BY DEF Core, Stamped
<1>0. Forwarded(s, B, n, t)
  BY <1>1, ForwardFacts
<1> HIDE DEF t
<1>2. /\ t \in Switch
      /\ t.active = s.active /\ t.pending = s.pending /\ t.cut = s.cut
      /\ t.held = s.held /\ t.staged = s.staged
      /\ s.started => t.started
      /\ ~ t.started => t.lastTs = s.lastTs
      /\ s.out \subseteq t.out /\ t.out \subseteq s.out \cup B
      /\ s.lastTs <= t.lastTs /\ t.lastTs <= n
      /\ \A b \in t.out : b \in s.out \/ (s.lastTs <= b.ts /\ b.ts <= t.lastTs)
      /\ ~ s.started => \A b \in t.out : b \in s.out \/ \E k \in B : k.key /\ k.ts <= b.ts
      /\ ~ s.started /\ t.started => \E k \in B : k.key
      /\ ~ s.started => \A b \in B : b.key /\ b.ts >= s.lastTs => b \in t.out
  BY <1>0 DEF Forwarded
<1>3. /\ s.started \in BOOLEAN /\ t.started \in BOOLEAN
      /\ s.lastTs \in Int /\ t.lastTs \in Int
      /\ s.active \in Nat /\ s.out \subseteq Block
  BY <1>1, <1>2 DEF Switch, Never, NoGen, Gen
<1>4. Shape(t)
  BY <1>2 DEF Core, Shape
<1>5. Owned(t, beg)
  BY <1>2, <1>3 DEF Core, Owned, Block, Gen
<1>6. Stamped(t, n, nw)
  <2>1. \A b \in t.out : b.ts <= t.lastTs
    BY <1>2, <1>3 DEF Core, Stamped, Block
  <2> QED
    BY <1>2, <2>1 DEF Core, Stamped
<1>7. OnAir(t)
  <2>1. CASE s.started
    BY <1>2, <1>3, <2>1 DEF Core, OnAir
  <2>2. CASE ~ s.started
    BY <1>2, <1>3, <2>2 DEF OnAir
  <2> QED
    BY <2>1, <2>2
<1>8. Fresh(t, nw)
  BY <1>2, <1>3 DEF Core, Fresh
<1>9. Keyed(t)
  <2> SUFFICES ASSUME NEW b \in t.out
      PROVE  \E k \in t.out : k.gen = b.gen /\ k.key /\ k.ts <= b.ts
    BY DEF Keyed
  <2>1. CASE b \in s.out
    BY <1>2, <2>1 DEF Core, Keyed
  <2>2. CASE b \notin s.out /\ s.started
    <3>1. PICK k \in s.out : k.gen = s.active /\ k.key
      BY <2>2 DEF Core, OnAir
    <3>2. b \in B /\ b.gen = s.active /\ s.lastTs <= b.ts
      BY <1>2, <2>2
    <3>3. k.ts <= s.lastTs
      BY <3>1 DEF Core, Stamped
    <3>4. k.ts <= b.ts
      BY <1>3, <3>1, <3>2, <3>3 DEF Block
    <3> QED
      BY <1>2, <3>1, <3>2, <3>4
  <2>3. CASE b \notin s.out /\ ~ s.started
    <3>1. PICK k \in B : k.key /\ k.ts <= b.ts
      BY <1>2, <2>3
    <3>2. b \in B /\ b.gen = s.active /\ k.gen = s.active
      BY <1>2, <2>3, <3>1
    <3>3. k \in t.out
      BY <1>2, <2>3, <3>1
    <3> QED
      BY <3>1, <3>2, <3>3
  <2> QED
    BY <2>1, <2>2, <2>3
<1>10. Ordered(t)
  <2> SUFFICES ASSUME NEW b \in t.out, NEW c \in t.out, b.gen < c.gen
      PROVE  b.ts <= c.ts
    BY DEF Ordered
  <2>1. b \in Block /\ c \in Block
    BY <1>2, <1>3
  <2>2. \A d \in t.out : d \in s.out => d.gen <= s.active /\ d.ts <= s.lastTs
    BY DEF Core, Owned, Stamped
  <2>3. \A d \in t.out : d \notin s.out => d.gen = s.active /\ s.lastTs <= d.ts
    BY <1>2
  <2>4. CASE b \in s.out /\ c \in s.out
    BY <2>4 DEF Core, Ordered
  <2>5. CASE b \in s.out /\ c \notin s.out
    BY <1>3, <2>1, <2>2, <2>3, <2>5 DEF Block
  <2>6. CASE b \notin s.out
    BY <1>3, <2>1, <2>2, <2>3, <2>6 DEF Block, Gen
  <2> QED
    BY <2>4, <2>5, <2>6
<1> QED
  BY <1>2, <1>4, <1>5, <1>6, <1>7, <1>8, <1>9, <1>10 DEF Core, t

(* Giving a swap up puts the held blocks back on air.                      *)
LEMMA AbortInv ==
  ASSUME NEW n \in Nat, NEW beg \in Nat, NEW nw \in [Gen -> Nat \cup {Never}],
         \A g \in Gen : nw[g] <= n,
         NEW s, SInv(s, n, nw, beg)
  PROVE  Good(s, AbortSwap(s), n, nw, beg)
<1>1. CASE s.pending = NoGen
  BY <1>1 DEF AbortSwap, Good, Roles
<1>2. CASE s.pending # NoGen
  <2> DEFINE u == [s EXCEPT !.pending = NoGen, !.cut = Never, !.syncedAt = Never,
                            !.held = {}, !.staged = {}]
             v == Forward(u, s.held)
             t == [v EXCEPT !.retired = s.retired \cup {s.pending}]
  <2>0. AbortSwap(s) = t
    BY <1>2 DEF AbortSwap
  <2>1. s \in Switch /\ s.active # NoGen
    BY <1>2 DEF SInv, Core, Shape
  <2>2. /\ u.active = s.active /\ u.pending = NoGen /\ u.held = {} /\ u.staged = {}
        /\ u.lastTs = s.lastTs /\ u.started = s.started /\ u.out = s.out
        /\ u.retired = s.retired
    BY <2>1 DEF Switch
  <2>3. u \in Switch
    BY <2>1 DEF Switch
  <2> HIDE DEF u
  <2>4. Core(u, n, nw, beg)
    BY <2>1, <2>2, <2>3 DEF SInv, Core, Shape, Owned, Stamped, OnAir, Fresh, Keyed, Ordered, NoGen
  <2>5. s.held \subseteq Block /\ \A b \in s.held : b.gen = u.active /\ b.ts <= n
    <3>1. s.held \subseteq Block
      BY <2>1 DEF Switch
    <3>2. \A b \in s.held : b.gen = s.active /\ b.ts <= nw[b.gen]
      BY DEF SInv, Core, Owned, Stamped
    <3> QED
      BY <2>2, <3>1, <3>2 DEF Block, Never
  <2>6. ~ u.started => \A b \in s.held : b.ts >= u.lastTs
    BY <2>1, <2>2 DEF SInv, Core, Fresh
  <2>7. Core(v, n, nw, beg)
    BY <2>1, <2>2, <2>4, <2>5, <2>6, ForwardCore
  <2>8. v.active = s.active /\ v.pending = NoGen /\ v.staged = {} /\ v.retired = s.retired
    <3>1. u.lastTs <= n /\ \A b \in s.held : b.ts <= n
      BY <2>4, <2>5 DEF Core, Stamped
    <3>2. Forwarded(u, s.held, n, v)
      BY <2>3, <2>5, <3>1, ForwardFacts
    <3> QED
      BY <2>2, <3>2 DEF Forwarded
  <2> HIDE DEF v
  <2>9. v \in Switch
    BY <2>7 DEF Core
  <2>10. /\ t.active = v.active /\ t.pending = v.pending /\ t.held = v.held
         /\ t.staged = v.staged /\ t.lastTs = v.lastTs /\ t.started = v.started
         /\ t.out = v.out /\ t.cut = v.cut
         /\ t.retired = s.retired \cup {s.pending}
    BY <2>9 DEF Switch
  <2>11. t \in Switch
    <3>1. s.retired \cup {s.pending} \subseteq Gen
      BY <1>2, <2>1 DEF Switch
    <3> QED
      BY <2>9, <3>1 DEF Switch
  <2> HIDE DEF t
  <2>12. Core(t, n, nw, beg)
    BY <2>7, <2>10, <2>11 DEF Core, Shape, Owned, Stamped, OnAir, Fresh, Keyed, Ordered
  <2> QED
    BY <1>2, <2>0, <2>8, <2>10, <2>12 DEF SInv, Synced, Good, Roles
<1> QED
  BY <1>1, <1>2

(* Cutting over puts the new generation on air at its keyframe.            *)
LEMMA FinishInv ==
  ASSUME NEW n \in Nat, NEW beg \in Nat, NEW nw \in [Gen -> Nat \cup {Never}],
         \A g \in Gen : nw[g] <= n,
         NEW s, SInv(s, n, nw, beg), s.pending # NoGen, s.staged # {}
  PROVE  Good(s, Finish(s), n, nw, beg)
<1>1. /\ s \in Switch /\ s.active # NoGen /\ s.active < s.pending
      /\ s.active \in Gen /\ s.pending \in Gen /\ s.held \subseteq Block
      /\ s.staged \subseteq Block /\ s.lastTs \in Int /\ s.out \subseteq Block
  BY DEF SInv, Core, Shape, Switch, Never
<1>2. PICK k \in s.staged :
        /\ k.key /\ k.ts > s.lastTs
        /\ \A c \in s.staged : c = k \/ k.ts < c.ts
  BY DEF SInv, Synced
<1>3. First(s.staged) = k
  BY <1>1, <1>2, FirstBlock
<1>4. \A b \in s.held \cup s.staged : b \in Block /\ b.ts \in Nat /\ b.ts <= n
  <2>1. \A b \in s.held \cup s.staged : b \in Block /\ b.ts <= nw[b.gen]
    BY <1>1 DEF SInv, Core, Stamped
  <2> QED
    BY <2>1 DEF Block, Never
<1>5. k \in Block /\ k.ts \in Nat /\ \A c \in s.staged : k.ts <= c.ts
  BY <1>2, <1>4
<1> DEFINE B   == Before(s.held, k)
           old == Forward(s, B)
           top == Last(s.staged).ts
           new == [old EXCEPT !.active = s.pending, !.pending = NoGen,
                              !.cut = Never, !.held = {}, !.staged = {},
                              !.syncedAt = Never, !.head = top, !.started = TRUE]
           sent == Forward(new, s.staged)
           t == [sent EXCEPT !.retired = s.retired \cup {s.active}]
<1>6. Finish(s) = t
  BY <1>1, <1>3 DEF Finish
<1>7. B \subseteq s.held /\ \A b \in B : b.ts < k.ts
  BY <1>4, <1>5, SwitchAssumption DEF Before
<1>8. Core(old, n, nw, beg)
  <2>1. B \subseteq Block /\ \A b \in B : b.gen = s.active /\ b.ts <= n
    BY <1>4, <1>7 DEF SInv, Core, Owned
  <2>2. ~ s.started => \A b \in B : b.ts >= s.lastTs
    BY <1>1, <1>7 DEF SInv, Core, Fresh
  <2> HIDE DEF B
  <2> QED
    BY <1>1, <2>1, <2>2, ForwardCore DEF SInv
<1>9. Forwarded(s, B, n, old)
  <2>1. B \subseteq Block /\ (\A b \in B : b.ts <= n) /\ s.lastTs <= n
    BY <1>4, <1>7 DEF SInv, Core, Stamped
  <2> HIDE DEF B
  <2> QED
    BY <1>1, <2>1, ForwardFacts
<1>10. /\ old \in Switch /\ old.active = s.active /\ old.retired = s.retired
       /\ old.lastTs \in Int /\ old.lastTs < k.ts /\ old.lastTs <= n
  <2> HIDE DEF old, B
  <2>1. old \in Switch /\ old.active = s.active /\ old.retired = s.retired /\ old.lastTs <= n
    BY <1>9 DEF Forwarded
  <2>2. old.lastTs = s.lastTs \/ \E b \in B : old.lastTs = b.ts
    BY <1>9 DEF Forwarded
  <2>3. old.lastTs \in Int
    BY <2>1 DEF Switch, Never
  <2> QED
    BY <1>1, <1>2, <1>5, <1>7, <2>1, <2>2, <2>3
<1> HIDE DEF old, B
<1>11. top \in Nat
  BY <1>1, <1>4, LastBlock
<1> HIDE DEF top
<1>12. /\ new.active = s.pending /\ new.pending = NoGen /\ new.held = {}
       /\ new.staged = {} /\ new.started = TRUE /\ new.out = old.out
       /\ new.lastTs = old.lastTs /\ new.retired = s.retired
  BY <1>10 DEF Switch
<1>13. new \in Switch
  BY <1>1, <1>10, <1>11 DEF Switch
<1> HIDE DEF new
<1>14. Forwarded(new, s.staged, n, sent)
  <2>1. \A b \in s.staged : b.ts <= n
    BY <1>4
  <2> QED
    BY <1>1, <1>10, <1>12, <1>13, <2>1, ForwardFacts
<1>15. s.staged \subseteq sent.out
  <2>1. \A b \in s.staged : b.ts >= new.lastTs
    BY <1>4, <1>5, <1>10, <1>12
  <2> HIDE DEF sent
  <2> QED
    BY <1>12, <1>14, <2>1 DEF Forwarded
<1> HIDE DEF sent
<1>16. /\ sent \in Switch /\ sent.active = s.pending /\ sent.pending = NoGen
       /\ sent.held = {} /\ sent.staged = {} /\ sent.started
       /\ sent.retired = s.retired /\ sent.out = old.out \cup s.staged
       /\ old.lastTs <= sent.lastTs /\ sent.lastTs <= n /\ sent.lastTs \in Int
       /\ \A b \in sent.out : b \in old.out \/ b.ts <= sent.lastTs
  <2>1. sent \in Switch
    BY <1>14 DEF Forwarded
  <2>2. sent.lastTs \in Int
    BY <2>1 DEF Switch, Never
  <2>3. /\ sent.active = s.pending /\ sent.pending = NoGen
        /\ sent.held = {} /\ sent.staged = {} /\ sent.started
        /\ sent.retired = s.retired
        /\ old.lastTs <= sent.lastTs /\ sent.lastTs <= n
        /\ \A b \in sent.out : b \in old.out \/ b.ts <= sent.lastTs
    BY <1>12, <1>14 DEF Forwarded
  <2>4. sent.out = old.out \cup s.staged
    BY <1>12, <1>14, <1>15 DEF Forwarded
  <2> QED
    BY <2>1, <2>2, <2>3, <2>4
<1>17. /\ t.active = s.pending /\ t.pending = NoGen /\ t.held = {} /\ t.staged = {}
       /\ t.started /\ t.out = old.out \cup s.staged /\ t.lastTs = sent.lastTs
       /\ t.retired = s.retired \cup {s.active}
  BY <1>16 DEF Switch
<1>18. t \in Switch
  <2>1. s.retired \cup {s.active} \subseteq Gen
    BY <1>1 DEF Switch
  <2> QED
    BY <1>16, <2>1 DEF Switch
<1> HIDE DEF t
<1>19. \A b \in s.staged : b \in Block /\ b.gen = s.pending /\ b.ts >= k.ts
  BY <1>4, <1>5 DEF SInv, Core, Owned
<1>20. \A b \in old.out :
         b \in Block /\ b.gen <= s.active /\ b.gen < s.pending /\ b.ts <= old.lastTs
  <2>1. \A b \in old.out : b \in Block /\ b.gen <= s.active /\ b.ts <= old.lastTs
    BY <1>1, <1>8, <1>10 DEF Core, Owned, Stamped, Switch
  <2> QED
    BY <1>1, <2>1 DEF Block, Gen
<1>21. Shape(t) /\ OnAir(t) /\ Fresh(t, nw) /\ Synced(t)
  BY <1>2, <1>17, <1>19 DEF Shape, OnAir, Fresh, Synced
<1>22. Owned(t, beg)
  <2>1. s.pending <= beg /\ \A b \in old.out : b.gen <= beg
    BY <1>8 DEF SInv, Core, Owned
  <2>2. \A b \in t.out : b.gen <= beg /\ b.gen <= s.pending
    BY <1>1, <1>17, <1>19, <1>20, <2>1 DEF Block, Gen
  <2> QED
    BY <1>17, <2>1, <2>2 DEF Owned, NoGen
<1>23. Stamped(t, n, nw)
  <2>1. \A b \in t.out : b.ts <= t.lastTs
    BY <1>10, <1>16, <1>17, <1>20 DEF Block
  <2> QED
    BY <1>16, <1>17, <2>1 DEF Stamped
<1>24. Keyed(t)
  BY <1>2, <1>8, <1>17, <1>19 DEF Core, Keyed
<1>25. Ordered(t)
  <2> SUFFICES ASSUME NEW b \in t.out, NEW c \in t.out, b.gen < c.gen
      PROVE  b.ts <= c.ts
    BY DEF Ordered
  <2>1. CASE b \in old.out /\ c \in old.out
    BY <1>8, <2>1 DEF Core, Ordered
  <2>2. CASE b \in old.out /\ c \in s.staged
    BY <1>5, <1>10, <1>19, <1>20, <2>2 DEF Block
  <2>3. CASE b \in s.staged
    BY <1>1, <1>17, <1>19, <1>20, <2>3 DEF Block, Gen
  <2> QED
    BY <1>17, <2>1, <2>2, <2>3
<1> QED
  BY <1>6, <1>17, <1>18, <1>21, <1>22, <1>23, <1>24, <1>25 DEF SInv, Core, Good, Roles

LEMMA MaybeFinishInv ==
  ASSUME NEW n \in Nat, NEW beg \in Nat, NEW nw \in [Gen -> Nat \cup {Never}],
         \A g \in Gen : nw[g] <= n, NEW s, SInv(s, n, nw, beg)
  PROVE  Good(s, MaybeFinish(s), n, nw, beg)
<1>1. Good(s, s, n, nw, beg)
  BY DEF Good, Roles
<1> QED
  BY <1>1, FinishInv DEF MaybeFinish
-----------------------------------------------------------------------------
\* A block a reader thread hands over is the newest of its generation.
Handed(s, b, n, nw) ==
  /\ b \in Block /\ b.ts <= n /\ nw[b.gen] = b.ts
  /\ \A c \in s.held \cup s.staged : c.gen = b.gen => c.ts < b.ts
  /\ ~ s.started /\ s.active = b.gen => b.ts >= s.lastTs

\* The head moves on to a block of the generation on air.
LEMMA HeadInv ==
  ASSUME NEW n \in Nat, NEW beg \in Nat, NEW nw \in [Gen -> Nat \cup {Never}],
         \A g \in Gen : nw[g] <= n,
         NEW s, SInv(s, n, nw, beg), NEW b, Handed(s, b, n, nw), b.gen = s.active
  PROVE  LET t == [s EXCEPT !.head = b.ts] IN
         Good(s, t, n, nw, beg) /\ Handed(t, b, n, nw) /\ b.gen = t.active
<1> DEFINE t == [s EXCEPT !.head = b.ts]
<1>1. s \in Switch /\ b \in Block /\ b.ts \in Nat /\ b.ts <= n /\ b.gen \in Gen
  BY DEF SInv, Core, Handed, Block
<1>2. /\ t.active = s.active /\ t.pending = s.pending /\ t.held = s.held
      /\ t.staged = s.staged /\ t.lastTs = s.lastTs /\ t.started = s.started
      /\ t.out = s.out /\ t.cut = s.cut /\ t.retired = s.retired
  BY <1>1 DEF Switch
<1>3. t \in Switch
  BY <1>1 DEF Switch
<1> HIDE DEF t
<1>4. SInv(t, n, nw, beg)
  BY <1>2, <1>3 DEF SInv, Core, Shape, Owned, Stamped, Synced, OnAir, Fresh, Keyed, Ordered
<1>5. Handed(t, b, n, nw) /\ b.gen = t.active
  BY <1>2 DEF Handed
<1> QED
  BY <1>2, <1>4, <1>5 DEF Good, Roles, t

\* A block joins the held ones.
LEMMA HeldInv ==
  ASSUME NEW n \in Nat, NEW beg \in Nat, NEW nw \in [Gen -> Nat \cup {Never}],
         \A g \in Gen : nw[g] <= n,
         NEW s, SInv(s, n, nw, beg), NEW b, Handed(s, b, n, nw), b.gen = s.active,
         s.pending # NoGen
  PROVE  Good(s, [s EXCEPT !.held = s.held \cup {b}], n, nw, beg)
<1> DEFINE t == [s EXCEPT !.held = s.held \cup {b}]
<1>1. s \in Switch /\ b \in Block /\ b.ts \in Nat /\ b.ts <= n /\ b.gen \in Gen
  BY DEF SInv, Core, Handed, Block
<1>2. /\ t.active = s.active /\ t.pending = s.pending /\ t.held = s.held \cup {b}
      /\ t.staged = s.staged /\ t.lastTs = s.lastTs /\ t.started = s.started
      /\ t.out = s.out /\ t.cut = s.cut /\ t.retired = s.retired
  BY <1>1 DEF Switch
<1>3. t \in Switch
  BY <1>1 DEF Switch
<1> HIDE DEF t
<1>4. Owned(t, beg)
  BY <1>1, <1>2 DEF SInv, Core, Owned
<1>5. Stamped(t, n, nw)
  BY <1>1, <1>2 DEF SInv, Core, Stamped, Handed
<1>6. Fresh(t, nw)
  BY <1>1, <1>2 DEF SInv, Core, Fresh, Handed
<1>7. Shape(t)
  BY <1>2 DEF SInv, Core, Shape
<1>8. OnAir(t) /\ Keyed(t) /\ Ordered(t) /\ Synced(t)
  BY <1>2 DEF SInv, Core, OnAir, Keyed, Ordered, Synced
<1>9. SInv(t, n, nw, beg)
  BY <1>3, <1>4, <1>5, <1>6, <1>7, <1>8 DEF SInv, Core
<1> QED
  BY <1>2, <1>9 DEF Good, Roles, t

\* A block before the cut is sent.
LEMMA SentInv ==
  ASSUME NEW n \in Nat, NEW beg \in Nat, NEW nw \in [Gen -> Nat \cup {Never}],
         \A g \in Gen : nw[g] <= n,
         NEW s, SInv(s, n, nw, beg), NEW b, Handed(s, b, n, nw), b.gen = s.active,
         ~ (s.pending # NoGen /\ 2 * b.ts >= 2 * s.cut - Frame)
  PROVE  Forwarded(s, {b}, n, Forward(s, {b})) /\ Good(s, Forward(s, {b}), n, nw, beg)
<1> DEFINE f == Forward(s, {b})
<1>1. s \in Switch /\ b \in Block /\ b.ts \in Nat /\ b.ts <= n /\ b.gen \in Gen
  BY DEF SInv, Core, Handed, Block
<1>2. {b} \subseteq Block /\ (\A c \in {b} : c.gen = s.active /\ c.ts <= n) /\ s.active # NoGen
  BY <1>1 DEF Gen, NoGen
<1>3. ~ s.started => \A c \in {b} : c.ts >= s.lastTs
  BY DEF Handed
<1>4. Core(f, n, nw, beg)
  BY <1>2, <1>3, ForwardCore DEF SInv
<1>5. Forwarded(s, {b}, n, f)
  <2>1. s.lastTs <= n
    BY DEF SInv, Core, Stamped
  <2> QED
    BY <1>1, <1>2, <2>1, ForwardFacts
<1> HIDE DEF f
<1>6. Synced(f)
  <2>1. /\ f.staged = s.staged /\ f.cut = s.cut
        /\ f.lastTs = s.lastTs \/ f.lastTs = b.ts
    BY <1>5 DEF Forwarded
  <2> SUFFICES ASSUME s.staged # {}
      PROVE  \E k \in s.staged :
               /\ k.key /\ k.ts >= s.cut /\ k.ts > f.lastTs
               /\ \A c \in s.staged : c = k \/ k.ts < c.ts
    BY <2>1 DEF Synced
  <2>2. PICK k \in s.staged :
          /\ k.key /\ k.ts >= s.cut /\ k.ts > s.lastTs
          /\ \A c \in s.staged : c = k \/ k.ts < c.ts
    BY DEF SInv, Synced
  <2>3. s.cut \in Nat /\ 2 * b.ts < 2 * s.cut - Frame
    BY <1>1, SwitchAssumption DEF SInv, Core, Shape
  <2>4. k.ts \in Nat
    BY <1>1, <2>2 DEF SInv, Core, Switch, Block
  <2>5. b.ts < k.ts
    BY <1>1, <2>2, <2>3, <2>4, SwitchAssumption
  <2> QED
    BY <2>1, <2>2, <2>5
<1>7. f.active = s.active /\ f.pending = s.pending /\ f.retired = s.retired
  BY <1>5 DEF Forwarded
<1> QED
  BY <1>4, <1>5, <1>6, <1>7 DEF SInv, Good, Roles, f

LEMMA OnActiveInv ==
  ASSUME NEW n \in Nat, NEW beg \in Nat, NEW nw \in [Gen -> Nat \cup {Never}],
         \A g \in Gen : nw[g] <= n,
         NEW s, SInv(s, n, nw, beg), NEW b, Handed(s, b, n, nw), b.gen = s.active
  PROVE  Good(s, OnActive(s, b), n, nw, beg)
<1> DEFINE t == [s EXCEPT !.head = b.ts]
           atCut  == s.pending # NoGen /\ 2 * b.ts >= 2 * s.cut - Frame
           synced == s.staged # {} /\ 2 * b.ts >= 2 * First(s.staged).ts - Frame
           h == [t EXCEPT !.held = t.held \cup {b}]
           f == Forward(t, {b})
<1>1. /\ Good(s, t, n, nw, beg) /\ Handed(t, b, n, nw) /\ b.gen = t.active
      /\ t.pending = s.pending /\ t.cut = s.cut
  <2>1. s \in Switch
    BY DEF SInv, Core
  <2> QED
    BY <2>1, HeadInv DEF Switch
<1>2. OnActive(s, b) = CASE atCut /\ synced  -> MaybeFinish(t)
                         [] atCut /\ ~synced -> Hold(t, b)
                         [] OTHER            -> MaybeFinish(f)
  BY DEF OnActive
<1>3. Hold(t, b) = IF Last(h.held).ts - First(h.held).ts > HoldLimit THEN AbortSwap(h) ELSE h
  BY DEF Hold
<1> HIDE DEF t
<1>4. SInv(t, n, nw, beg) /\ Roles(s, t) /\ t.active = s.active /\ t.retired = s.retired
  BY <1>1 DEF Good, Roles
<1>5. CASE atCut /\ synced
  <2>1. Good(t, MaybeFinish(t), n, nw, beg)
    BY <1>4, MaybeFinishInv
  <2> QED
    BY <1>1, <1>2, <1>4, <1>5, <2>1 DEF Good, Roles
<1>6. CASE atCut /\ ~ synced
  <2>1. Good(t, h, n, nw, beg) /\ h.pending = t.pending
    <3>1. t \in Switch
      BY <1>4 DEF SInv, Core
    <3> QED
      BY <1>1, <1>4, <1>6, <3>1, HeldInv DEF Switch
  <2> HIDE DEF h
  <2>2. Good(h, AbortSwap(h), n, nw, beg) /\ Good(h, h, n, nw, beg)
    BY <2>1, AbortInv DEF Good, Roles
  <2>3. Good(h, Hold(t, b), n, nw, beg)
    BY <1>3, <2>2
  <2>4. Hold(t, b) = OnActive(s, b)
    BY <1>2, <1>6
  <2>5. h.active = t.active /\ h.retired = t.retired
    BY <1>6, <1>1, <2>1 DEF Good, Roles
  <2> QED
    BY <1>1, <1>4, <2>1, <2>3, <2>4, <2>5 DEF Good, Roles
<1>7. CASE ~ atCut
  <2>1. Forwarded(t, {b}, n, f) /\ Good(t, f, n, nw, beg)
    BY <1>1, <1>4, <1>7, SentInv
  <2> HIDE DEF f
  <2>2. Good(f, MaybeFinish(f), n, nw, beg)
    BY <2>1, MaybeFinishInv DEF Good
  <2>3. OnActive(s, b) = MaybeFinish(f)
    BY <1>2, <1>7
  <2>4. f.active = t.active /\ f.pending = t.pending /\ f.retired = t.retired
    BY <2>1 DEF Forwarded
  <2> QED
    BY <1>1, <1>4, <2>2, <2>3, <2>4 DEF Good, Roles
<1> QED
  BY <1>5, <1>6, <1>7

\* The pending generation's block joins the staged ones.
LEMMA StagedInv ==
  ASSUME NEW n \in Nat, NEW beg \in Nat, NEW nw \in [Gen -> Nat \cup {Never}],
         \A g \in Gen : nw[g] <= n,
         NEW s, SInv(s, n, nw, beg), NEW b, Handed(s, b, n, nw), b.gen = s.pending, s.staged # {}
  PROVE  Good(s, [s EXCEPT !.staged = s.staged \cup {b}], n, nw, beg)
<1> DEFINE t == [s EXCEPT !.staged = s.staged \cup {b}]
<1>1. /\ s \in Switch /\ b \in Block /\ b.ts \in Nat /\ b.ts <= n /\ b.gen \in Gen
      /\ s.pending # NoGen
  BY DEF SInv, Core, Handed, Block, Gen, NoGen
<1>2. /\ t.active = s.active /\ t.pending = s.pending /\ t.held = s.held
      /\ t.staged = s.staged \cup {b} /\ t.lastTs = s.lastTs /\ t.started = s.started
      /\ t.out = s.out /\ t.cut = s.cut /\ t.retired = s.retired
  BY <1>1 DEF Switch
<1>3. t \in Switch
  BY <1>1 DEF Switch
<1> HIDE DEF t
<1>4. Synced(t)
  <2>1. PICK k \in s.staged :
          /\ k.key /\ k.ts >= s.cut /\ k.ts > s.lastTs
          /\ \A c \in s.staged : c = k \/ k.ts < c.ts
    BY DEF SInv, Synced
  <2>2. k.ts < b.ts
    BY <2>1 DEF SInv, Core, Owned, Handed
  <2> QED
    BY <1>2, <2>1, <2>2 DEF Synced
<1>5. Core(t, n, nw, beg)
  BY <1>1, <1>2, <1>3 DEF SInv, Core, Shape, Owned, Stamped, OnAir, Fresh, Keyed, Ordered, Handed
<1> QED
  BY <1>2, <1>4, <1>5 DEF SInv, Good, Roles, t

\* Its first keyframe past the cut is the sync point.
LEMMA SyncInv ==
  ASSUME NEW n \in Nat, NEW beg \in Nat, NEW nw \in [Gen -> Nat \cup {Never}],
         \A g \in Gen : nw[g] <= n,
         NEW s, SInv(s, n, nw, beg), NEW b, Handed(s, b, n, nw), b.gen = s.pending,
         b.key, b.ts >= s.cut, b.ts > s.lastTs
  PROVE  Good(s, [s EXCEPT !.staged = {b}, !.syncedAt = n], n, nw, beg)
<1> DEFINE t == [s EXCEPT !.staged = {b}, !.syncedAt = n]
<1>1. /\ s \in Switch /\ b \in Block /\ b.ts \in Nat /\ b.ts <= n /\ b.gen \in Gen
      /\ s.pending # NoGen
  BY DEF SInv, Core, Handed, Block, Gen, NoGen
<1>2. /\ t.active = s.active /\ t.pending = s.pending /\ t.held = s.held
      /\ t.staged = {b} /\ t.lastTs = s.lastTs /\ t.started = s.started
      /\ t.out = s.out /\ t.cut = s.cut /\ t.retired = s.retired
  BY <1>1 DEF Switch
<1>3. t \in Switch
  BY <1>1 DEF Switch
<1> HIDE DEF t
<1>4. Synced(t)
  BY <1>2 DEF Synced
<1>5. Core(t, n, nw, beg)
  BY <1>1, <1>2, <1>3 DEF SInv, Core, Shape, Owned, Stamped, OnAir, Fresh, Keyed, Ordered, Handed
<1> QED
  BY <1>2, <1>4, <1>5 DEF SInv, Good, Roles, t

LEMMA OnPendingInv ==
  ASSUME NEW n \in Nat, NEW beg \in Nat, NEW nw \in [Gen -> Nat \cup {Never}],
         \A g \in Gen : nw[g] <= n,
         NEW s, SInv(s, n, nw, beg), NEW b, Handed(s, b, n, nw), b.gen = s.pending
  PROVE  Good(s, OnPending(s, b, n), n, nw, beg)
<1>1. CASE s.staged # {}
  <2> DEFINE t == [s EXCEPT !.staged = s.staged \cup {b}]
  <2>1. Good(s, t, n, nw, beg) /\ t.active = s.active /\ t.pending = s.pending
        /\ t.retired = s.retired
    <3>1. s \in Switch
      BY DEF SInv, Core
    <3> QED
      BY <1>1, <3>1, StagedInv DEF Switch
  <2>2. OnPending(s, b, n) = MaybeFinish(t)
    BY <1>1 DEF OnPending
  <2> HIDE DEF t
  <2>3. Good(t, MaybeFinish(t), n, nw, beg)
    BY <2>1, MaybeFinishInv DEF Good
  <2> QED
    BY <2>1, <2>2, <2>3 DEF Good, Roles
<1>2. CASE s.staged = {} /\ b.key /\ b.ts >= s.cut /\ b.ts > s.lastTs
  <2> DEFINE t == [s EXCEPT !.staged = {b}, !.syncedAt = n]
  <2>1. Good(s, t, n, nw, beg) /\ t.active = s.active /\ t.pending = s.pending
        /\ t.retired = s.retired
    <3>1. s \in Switch
      BY DEF SInv, Core
    <3> QED
      BY <1>2, <3>1, SyncInv DEF Switch
  <2>2. OnPending(s, b, n) = MaybeFinish(t)
    BY <1>2 DEF OnPending
  <2> HIDE DEF t
  <2>3. Good(t, MaybeFinish(t), n, nw, beg)
    BY <2>1, MaybeFinishInv DEF Good
  <2> QED
    BY <2>1, <2>2, <2>3 DEF Good, Roles
<1>3. CASE s.staged = {} /\ ~ (b.key /\ b.ts >= s.cut /\ b.ts > s.lastTs)
  BY <1>3 DEF OnPending, Good, Roles
<1> QED
  BY <1>1, <1>2, <1>3

LEMMA OnBlockInv ==
  ASSUME NEW n \in Nat, NEW beg \in Nat, NEW nw \in [Gen -> Nat \cup {Never}],
         \A g \in Gen : nw[g] <= n,
         NEW s, SInv(s, n, nw, beg), NEW b, Handed(s, b, n, nw)
  PROVE  Good(s, OnBlock(s, b, n), n, nw, beg)
<1>1. CASE b.gen = s.active
  BY <1>1, OnActiveInv DEF OnBlock
<1>2. CASE b.gen # s.active /\ b.gen = s.pending
  <2>1. Good(s, OnPending(s, b, n), n, nw, beg)
    BY <1>2, OnPendingInv
  <2> QED
    BY <1>2, <2>1 DEF OnBlock
<1>3. CASE b.gen # s.active /\ b.gen # s.pending
  BY <1>3 DEF OnBlock, Good, Roles
<1> QED
  BY <1>1, <1>2, <1>3

LEMMA TickInv ==
  ASSUME NEW n \in Nat, NEW beg \in Nat, NEW nw \in [Gen -> Nat \cup {Never}],
         \A g \in Gen : nw[g] <= n, NEW s, SInv(s, n, nw, beg)
  PROVE  Good(s, TickSwitch(s, n), n, nw, beg)
<1>1. Good(s, s, n, nw, beg)
  BY DEF Good, Roles
<1> QED
  BY <1>1, FinishInv, AbortInv DEF TickSwitch

LEMMA EndedInv ==
  ASSUME NEW n \in Nat, NEW beg \in Nat, NEW nw \in [Gen -> Nat \cup {Never}],
         \A g \in Gen : nw[g] <= n, NEW s, SInv(s, n, nw, beg), NEW g \in Gen
  PROVE  /\ SInv(GenerationEnded(s, g), n, nw, beg)
         /\ \/ Roles(s, GenerationEnded(s, g))
            \/ /\ g = s.active /\ s.pending = NoGen
               /\ GenerationEnded(s, g) = [s EXCEPT !.active = NoGen]
<1>1. CASE g = s.pending
  BY <1>1, AbortInv DEF GenerationEnded, Good
<1>2. CASE g # s.pending /\ g = s.active /\ s.pending # NoGen /\ s.staged # {}
  BY <1>2, FinishInv DEF GenerationEnded, Good
<1>3. CASE g # s.pending /\ g = s.active /\ s.pending = NoGen
  <2> DEFINE t == [s EXCEPT !.active = NoGen]
  <2>1. s \in Switch /\ s.held = {} /\ s.staged = {}
    BY <1>3 DEF SInv, Core, Shape
  <2>2. /\ t.active = NoGen /\ t.pending = s.pending /\ t.held = s.held
        /\ t.staged = s.staged /\ t.lastTs = s.lastTs /\ t.started = s.started
        /\ t.out = s.out /\ t.cut = s.cut
    BY <2>1 DEF Switch
  <2>3. t \in Switch
    BY <2>1 DEF Switch
  <2>4. GenerationEnded(s, g) = t
    BY <1>3 DEF GenerationEnded
  <2> HIDE DEF t
  <2>5. Owned(t, beg)
    BY <2>1, <2>2 DEF SInv, Core, Owned, NoGen
  <2>6. SInv(t, n, nw, beg)
    BY <1>3, <2>1, <2>2, <2>3, <2>5
    DEF SInv, Core, Shape, Stamped, Synced, OnAir, Fresh, Keyed, Ordered
  <2> QED
    BY <1>3, <2>4, <2>6 DEF t
<1>4. CASE g # s.pending /\ g = s.active /\ s.pending # NoGen /\ s.staged = {}
  BY <1>4 DEF GenerationEnded, Roles
<1>5. CASE g # s.pending /\ g # s.active
  BY <1>5 DEF GenerationEnded, Roles
<1> QED
  BY <1>1, <1>2, <1>3, <1>4, <1>5
-----------------------------------------------------------------------------
(* The invariant and NoOrphan together are inductive: one step per action. *)
LEMMA InitInv == Init => IInv /\ NoOrphan
<1> SUFFICES ASSUME Init PROVE IInv /\ NoOrphan
  OBVIOUS
<1> USE DEF Init, NewSwitch, NoGen, Never
<1>1. sw \in Switch
  BY DEF Switch
<1>2. TypeOK
  BY <1>1, SwitchAssumption DEF TypeOK
<1>3. SInv(sw, now, newest, begun)
  BY <1>1 DEF SInv, Core, Shape, Owned, Stamped, Synced, OnAir, Fresh, Keyed, Ordered
<1>4. NoOrphan
  BY DEF NoOrphan
<1> QED
  BY <1>2, <1>3, <1>4 DEF IInv

LEMMA RolesStep ==
  ASSUME IInv, NoOrphan, begun' = begun, gone \subseteq gone',
         SInv(sw', now', newest', begun),
         Roles(sw, sw')
  PROVE  NoOrphan' /\ sw'.retired \subseteq 1 .. begun'
<1>1. /\ sw.active \in Gen \cup {NoGen} /\ sw.pending \in Gen \cup {NoGen}
      /\ sw.active <= begun /\ sw.pending <= begun /\ begun \in Nat
      /\ sw.retired \subseteq 1 .. begun
      /\ sw.pending # NoGen => sw.active # NoGen /\ sw.active < sw.pending
  BY DEF IInv, TypeOK, SInv, Core, Owned, Shape, Switch
<1>2. sw'.retired \subseteq 1 .. begun'
  BY <1>1 DEF Roles, Gen, NoGen
<1>3. \A g \in 1 .. begun' :
        g \in {sw'.active, sw'.pending} \cup sw'.retired \cup gone'
  BY <1>1 DEF Roles, NoOrphan, Gen, NoGen
<1>4. sw'.retired \cap {sw'.active, sw'.pending} = {}
  BY <1>1 DEF Roles, NoOrphan, Gen, NoGen
<1> QED
  BY <1>2, <1>3, <1>4 DEF NoOrphan

\* A step of the switch as the service sees it.
Kept == [Promise!Next]_(Promise!vars)

\* A change of roles is a step of Handover.
LEMMA RolesKept ==
  ASSUME IInv, begun' = begun, Roles(sw, sw')
  PROVE  Kept
<1>1. CASE UNCHANGED <<sw.active, sw.pending, sw.retired>>
  BY <1>1 DEF Kept, Promise!vars
<1>2. CASE /\ sw.pending # NoGen /\ sw'.active = sw.active /\ sw'.pending = NoGen
           /\ sw'.retired = sw.retired \cup {sw.pending}
  <2>1. Promise!GiveUp
    BY <1>2 DEF Promise!GiveUp, Promise!GivenUp, Promise!NoGen, NoGen
  <2> QED
    BY <2>1 DEF Kept, Promise!Next
<1>3. CASE /\ sw.pending # NoGen /\ sw'.active = sw.pending /\ sw'.pending = NoGen
           /\ sw'.retired = sw.retired \cup {sw.active}
  <2>1. {sw.active} \ {NoGen} = {sw.active}
    BY <1>3 DEF IInv, SInv, Core, Shape
  <2>2. Promise!Complete
    BY <1>3, <2>1 DEF Promise!Complete, Promise!Completed, Promise!NoGen, NoGen
  <2> QED
    BY <2>2 DEF Kept, Promise!Next
<1> QED
  BY <1>1, <1>2, <1>3 DEF Roles

LEMMA BeginStep ==
  ASSUME IInv, NoOrphan, NEW g \in Gen, NEW cut \in Nat, Begin(g, cut)
  PROVE  IInv' /\ NoOrphan' /\ Kept
<1>1. /\ sw \in Switch /\ sw.pending = NoGen /\ sw.held = {} /\ sw.staged = {}
      /\ begun \in Nat /\ begun' = g /\ g = begun + 1 /\ now \in Nat /\ now' = now
      /\ newest \in [Gen -> Nat \cup {Never}] /\ UNCHANGED <<gone, forced, seen>>
      /\ newest' = [newest EXCEPT ![g] = now - 1]
      /\ gone \subseteq 1 .. begun /\ forced \subseteq 1 .. begun /\ seen \subseteq Block
  BY DEF IInv, TypeOK, SInv, Core, Shape, Begin
<1>2. newest' \in [Gen -> Nat \cup {Never}] /\ \A h \in Gen : newest'[h] <= now
  <2>1. now - 1 \in Nat \cup {Never} /\ now - 1 <= now
    BY <1>1 DEF Never
  <2>2. newest' \in [Gen -> Nat \cup {Never}]
    BY <1>1, <2>1
  <2>3. \A h \in Gen : newest'[h] = IF h = g THEN now - 1 ELSE newest[h]
    BY <1>1
  <2> QED
    BY <2>1, <2>2, <2>3 DEF IInv
<1>2a. sw.retired \subseteq 1 .. begun /\ sw.retired \subseteq 1 .. g /\ g \notin sw.retired
  BY <1>1 DEF IInv
<1>3. CASE sw.active = NoGen
  <2>1. sw' = [sw EXCEPT !.active = g, !.started = FALSE, !.head = Never]
    BY <1>3 DEF Begin, BeginSwap, Activate
  <2>2. /\ sw'.active = g /\ sw'.pending = NoGen /\ sw'.held = {} /\ sw'.staged = {}
        /\ sw'.lastTs = sw.lastTs /\ sw'.started = FALSE /\ sw'.out = sw.out
        /\ sw'.retired = sw.retired
    BY <1>1, <2>1 DEF Switch
  <2>3. sw' \in Switch
    BY <1>1, <2>1 DEF Switch
  <2>4. Owned(sw', g)
    <3>1. \A b \in sw.out : b.gen <= begun /\ b \in Block
      BY <1>1 DEF IInv, SInv, Core, Owned, Switch
    <3> QED
      BY <1>1, <2>2, <3>1 DEF Owned, NoGen, Gen, Block
  <2>5. Stamped(sw', now, newest')
    BY <2>2 DEF IInv, SInv, Core, Stamped
  <2>6. Fresh(sw', newest')
    <3>1. sw.lastTs <= now /\ sw.lastTs \in Int
      BY <1>1 DEF IInv, SInv, Core, Stamped, Switch, Never
    <3> QED
      BY <1>1, <2>2, <3>1 DEF Fresh
  <2>7. SInv(sw', now', newest', begun')
    BY <1>1, <2>2, <2>3, <2>4, <2>5, <2>6
    DEF IInv, SInv, Core, Shape, Synced, OnAir, Keyed, Ordered
  <2>8. NoOrphan'
    BY <1>1, <1>2a, <1>3, <2>2 DEF NoOrphan, NoGen, Gen
  <2>9. Kept
    <3>1. g \in Promise!Gen
      BY DEF Promise!Gen, Gen
    <3>2. Promise!Begin(g)
      BY <1>1, <1>3, <2>2 DEF Promise!Begin, Promise!CanBegin, Promise!Begun, Promise!NoGen, NoGen
    <3> QED
      BY <3>1, <3>2 DEF Kept, Promise!Next
  <2> QED
    BY <1>1, <1>2, <1>2a, <2>2, <2>3, <2>7, <2>8, <2>9 DEF IInv, TypeOK, Gen
<1>4. CASE sw.active # NoGen
  <2>1. sw' = [sw EXCEPT !.pending = g, !.cut = cut, !.held = {}, !.staged = {},
                         !.syncedAt = Never, !.swapStarted = now]
    BY <1>4 DEF Begin, BeginSwap
  <2>2. /\ sw'.active = sw.active /\ sw'.pending = g /\ sw'.held = {} /\ sw'.staged = {}
        /\ sw'.lastTs = sw.lastTs /\ sw'.started = sw.started /\ sw'.out = sw.out
        /\ sw'.retired = sw.retired /\ sw'.cut = cut
    BY <1>1, <2>1 DEF Switch
  <2>3. sw' \in Switch
    BY <1>1, <2>1 DEF Switch
  <2>3a. sw.active \in Gen /\ sw.active <= begun
    BY <1>1, <1>4 DEF IInv, SInv, Core, Owned, Switch
  <2>4. Owned(sw', g)
    <3>1. \A b \in sw.out : b.gen <= begun /\ b \in Block /\ b.gen <= sw.active
      BY <1>1, <1>4 DEF IInv, SInv, Core, Owned, Switch
    <3> QED
      BY <1>1, <2>2, <2>3a, <3>1 DEF Owned, NoGen, Gen, Block
  <2>5. Stamped(sw', now, newest')
    BY <2>2 DEF IInv, SInv, Core, Stamped
  <2>6. Fresh(sw', newest') /\ Shape(sw')
    BY <1>1, <2>2, <2>3a DEF IInv, SInv, Core, Fresh, Shape, Gen, NoGen
  <2>7. SInv(sw', now', newest', begun')
    BY <1>1, <2>2, <2>3, <2>4, <2>5, <2>6
    DEF IInv, SInv, Core, Synced, OnAir, Keyed, Ordered
  <2>8. NoOrphan'
    BY <1>1, <1>2a, <2>2, <2>3a DEF NoOrphan, NoGen, Gen
  <2>9. Kept
    <3>1. g \in Promise!Gen
      BY DEF Promise!Gen, Gen
    <3>2. Promise!Begin(g)
      BY <1>1, <1>4, <2>2 DEF Promise!Begin, Promise!CanBegin, Promise!Begun, Promise!NoGen, NoGen
    <3> QED
      BY <3>1, <3>2 DEF Kept, Promise!Next
  <2> QED
    BY <1>1, <1>2, <1>2a, <2>2, <2>3, <2>7, <2>8, <2>9 DEF IInv, TypeOK, Gen
<1> QED
  BY <1>3, <1>4

\* What a delivered block finds.
LEMMA Delivered ==
  ASSUME IInv, NEW g \in Gen, NEW ts \in Nat, NEW key \in BOOLEAN, Deliver(g, ts, key)
  PROVE  LET b == [gen |-> g, ts |-> ts, key |-> key] IN
         /\ SInv(sw, now, newest', begun) /\ Handed(sw, b, now, newest')
         /\ newest' \in [Gen -> Nat \cup {Never}]
         /\ \A h \in Gen : newest'[h] <= now /\ newest[h] <= newest'[h]
<1> DEFINE b == [gen |-> g, ts |-> ts, key |-> key]
<1>1. /\ g \in 1 .. begun /\ g \notin gone /\ ts > newest[g] /\ ts <= now
      /\ newest' = [newest EXCEPT ![g] = ts]
      /\ sw' = OnBlock(sw, b, now)
      /\ seen' = IF g \in forced THEN seen ELSE seen \cup {b}
      /\ UNCHANGED <<now, begun, gone, forced>>
  BY DEF Deliver
<1>2. b \in Block /\ b.gen = g /\ b.ts = ts
  BY DEF Block
<1> HIDE DEF b
<1>3. /\ sw \in Switch /\ begun \in Nat /\ now \in Nat
      /\ newest \in [Gen -> Nat \cup {Never}] /\ \A h \in Gen : newest[h] <= now
      /\ SInv(sw, now, newest, begun)
  BY DEF IInv, TypeOK
<1>4. newest' \in [Gen -> Nat \cup {Never}]
  BY <1>1, <1>3
<1>5. \A h \in Gen : newest'[h] = IF h = g THEN ts ELSE newest[h]
  BY <1>1, <1>3
<1>6. \A h \in Gen : newest'[h] <= now /\ newest[h] <= newest'[h] /\ newest[h] \in Int
  BY <1>1, <1>3, <1>5 DEF Never
<1>7. SInv(sw, now, newest', begun)
  <2>1. \A c \in sw.held \cup sw.staged : c.gen \in Gen /\ c.ts \in Nat
    BY <1>3 DEF Switch, Block
  <2>2. Stamped(sw, now, newest')
    <3>1. \A c \in sw.held \cup sw.staged : c.ts <= newest'[c.gen]
      <4> SUFFICES ASSUME NEW c \in sw.held \cup sw.staged
          PROVE  c.ts <= newest'[c.gen]
        OBVIOUS
      <4>1. c.ts <= newest[c.gen]
        BY <1>3 DEF SInv, Core, Stamped
      <4>2. newest'[c.gen] \in Int
        BY <1>4, <2>1 DEF Never
      <4> QED
        BY <1>6, <2>1, <4>1, <4>2
    <3> QED
      BY <1>3, <3>1 DEF SInv, Core, Stamped
  <2>3. Fresh(sw, newest')
    <3>1. sw.active # NoGen => sw.active \in Gen /\ newest'[sw.active] \in Int
      BY <1>3, <1>4 DEF Switch, Never
    <3>2. sw.lastTs \in Int
      BY <1>3 DEF Switch, Never
    <3> QED
      BY <1>3, <1>6, <3>1, <3>2 DEF SInv, Core, Fresh
  <2> QED
    BY <1>3, <2>2, <2>3 DEF SInv, Core
<1>8. Handed(sw, b, now, newest')
  <2>1. newest'[b.gen] = b.ts
    BY <1>2, <1>5
  <2>2. \A c \in sw.held \cup sw.staged : c.gen = b.gen => c.ts < b.ts
    <3> SUFFICES ASSUME NEW c \in sw.held \cup sw.staged, c.gen = g
        PROVE  c.ts < ts
      BY <1>2
    <3>1. c.ts <= newest[g] /\ c.ts \in Nat
      BY <1>3 DEF SInv, Core, Stamped, Switch, Block
    <3> QED
      BY <1>1, <1>6, <3>1
  <2>3. ~ sw.started /\ sw.active = b.gen => b.ts >= sw.lastTs
    <3>1. sw.lastTs \in Int
      BY <1>3 DEF Switch, Never
    <3>2. ~ sw.started /\ sw.active = g => sw.lastTs <= newest[g] + 1
      BY <1>3 DEF SInv, Core, Fresh, Gen, NoGen
    <3> QED
      BY <1>1, <1>2, <1>6, <3>1, <3>2
  <2> QED
    BY <1>1, <1>2, <2>1, <2>2, <2>3 DEF Handed
<1> QED
  BY <1>4, <1>6, <1>7, <1>8 DEF b

LEMMA DeliverStep ==
  ASSUME IInv, NoOrphan, NEW g \in Gen, NEW ts \in Nat, NEW key \in BOOLEAN,
         Deliver(g, ts, key)
  PROVE  IInv' /\ NoOrphan' /\ Kept
<1> DEFINE b == [gen |-> g, ts |-> ts, key |-> key]
<1>1. /\ g \in 1 .. begun /\ g \notin gone /\ ts > newest[g] /\ ts <= now
      /\ newest' = [newest EXCEPT ![g] = ts]
      /\ sw' = OnBlock(sw, b, now)
      /\ seen' = IF g \in forced THEN seen ELSE seen \cup {b}
      /\ UNCHANGED <<now, begun, gone, forced>>
  BY DEF Deliver
<1>2. b \in Block /\ b.gen = g /\ b.ts = ts
  BY DEF Block
<1> HIDE DEF b
<1>3. begun \in Nat /\ now \in Nat
  BY DEF IInv, TypeOK
<1>4. /\ SInv(sw, now, newest', begun) /\ Handed(sw, b, now, newest')
      /\ newest' \in [Gen -> Nat \cup {Never}]
      /\ \A h \in Gen : newest'[h] <= now
  BY Delivered DEF b
<1>9. Good(sw, sw', now, newest', begun)
  BY <1>1, <1>3, <1>4, OnBlockInv
<1>10. NoOrphan' /\ sw'.retired \subseteq 1 .. begun'
  BY <1>1, <1>9, RolesStep DEF Good
<1>11. TypeOK'
  BY <1>1, <1>2, <1>4, <1>9 DEF Good, SInv, Core, IInv, TypeOK
<1>12. Kept
  BY <1>1, <1>9, RolesKept DEF Good
<1> QED
  BY <1>1, <1>4, <1>9, <1>10, <1>11, <1>12 DEF IInv, Good

LEMMA ExitStep ==
  ASSUME IInv, NoOrphan, NEW g \in Gen, Exit(g)
  PROVE  IInv' /\ NoOrphan' /\ Kept
<1>1. /\ g \in 1 .. begun /\ gone' = gone \cup {g} /\ sw' = GenerationEnded(sw, g)
      /\ UNCHANGED <<now, begun, newest, forced, seen>>
  BY DEF Exit
<1>2. /\ sw \in Switch /\ begun \in Nat /\ now \in Nat
      /\ newest \in [Gen -> Nat \cup {Never}] /\ \A h \in Gen : newest[h] <= now
      /\ SInv(sw, now, newest, begun)
  BY DEF IInv, TypeOK
<1>3. /\ SInv(sw', now, newest, begun)
      /\ \/ Roles(sw, sw')
         \/ g = sw.active /\ sw.pending = NoGen /\ sw' = [sw EXCEPT !.active = NoGen]
  BY <1>1, <1>2, EndedInv
<1>4. NoOrphan' /\ sw'.retired \subseteq 1 .. begun'
  <2>1. CASE Roles(sw, sw')
    BY <1>1, <1>3, <2>1, RolesStep
  <2>2. CASE g = sw.active /\ sw.pending = NoGen /\ sw' = [sw EXCEPT !.active = NoGen]
    <3>1. sw'.active = NoGen /\ sw'.pending = NoGen /\ sw'.retired = sw.retired
      BY <1>2, <2>2 DEF Switch
    <3> QED
      BY <1>1, <2>2, <3>1 DEF IInv, NoOrphan, NoGen
  <2> QED
    BY <1>3, <2>1, <2>2
<1>5. TypeOK'
  BY <1>1, <1>3 DEF SInv, Core, IInv, TypeOK
<1>6. Kept
  <2>1. CASE Roles(sw, sw')
    BY <1>1, <2>1, RolesKept
  <2>2. CASE g = sw.active /\ sw.pending = NoGen /\ sw' = [sw EXCEPT !.active = NoGen]
    <3>1. sw'.active = NoGen /\ sw'.pending = NoGen /\ sw'.retired = sw.retired /\ g # NoGen
      BY <1>1, <1>2, <2>2 DEF Switch, NoGen
    <3>2. Promise!Lose
      BY <1>1, <2>2, <3>1 DEF Promise!Lose, Promise!Lost, Promise!NoGen, NoGen
    <3> QED
      BY <3>2 DEF Kept, Promise!Next
  <2> QED
    BY <1>3, <2>1, <2>2
<1> QED
  BY <1>1, <1>2, <1>3, <1>4, <1>5, <1>6 DEF IInv

LEMMA TickStep ==
  ASSUME IInv, NoOrphan, Tick
  PROVE  IInv' /\ NoOrphan' /\ Kept
<1>1. /\ sw' = TickSwitch(sw, now) /\ UNCHANGED <<now, begun, newest, gone, seen>>
      /\ forced' = IF sw'.active # sw.active THEN forced \cup {sw.active} ELSE forced
  BY DEF Tick
<1>2. /\ sw \in Switch /\ begun \in Nat /\ now \in Nat
      /\ newest \in [Gen -> Nat \cup {Never}] /\ \A h \in Gen : newest[h] <= now
      /\ SInv(sw, now, newest, begun)
  BY DEF IInv, TypeOK
<1>3. Good(sw, sw', now, newest, begun)
  BY <1>1, <1>2, TickInv
<1>4. NoOrphan' /\ sw'.retired \subseteq 1 .. begun'
  BY <1>1, <1>3, RolesStep DEF Good
<1>5. forced' \subseteq 1 .. begun
  <2>1. sw'.active # sw.active => sw.active \in 1 .. begun
    BY <1>2, <1>3 DEF Good, Roles, SInv, Core, Shape, Owned, Switch, Gen
  <2> QED
    BY <1>1, <2>1 DEF IInv, TypeOK
<1>6. TypeOK'
  BY <1>1, <1>3, <1>5 DEF Good, SInv, Core, IInv, TypeOK
<1>7. Kept
  BY <1>1, <1>3, RolesKept DEF Good
<1> QED
  BY <1>1, <1>2, <1>3, <1>4, <1>6, <1>7 DEF IInv, Good

LEMMA PassStep ==
  ASSUME IInv, NoOrphan, Pass
  PROVE  IInv' /\ NoOrphan' /\ Kept
<1>1. /\ now' = now + 1 /\ now \in Nat /\ UNCHANGED <<sw, begun, newest, gone, forced, seen>>
      /\ sw.lastTs \in Int /\ newest \in [Gen -> Nat \cup {Never}]
  BY DEF Pass, IInv, TypeOK, Switch, Never
<1>2. \A h \in Gen : newest[h] \in Int
  BY <1>1 DEF Never
<1>3. Stamped(sw, now + 1, newest)
  BY <1>1 DEF IInv, SInv, Core, Stamped
<1>4. SInv(sw', now', newest', begun')
  BY <1>1, <1>3 DEF IInv, SInv, Core
<1>5. Kept
  BY <1>1 DEF Kept, Promise!vars
<1> QED
  BY <1>1, <1>2, <1>4, <1>5 DEF IInv, TypeOK, NoOrphan

LEMMA NextInv == IInv /\ NoOrphan /\ [Next]_vars => IInv' /\ NoOrphan' /\ Kept
<1> SUFFICES ASSUME IInv, NoOrphan, [Next]_vars
    PROVE  IInv' /\ NoOrphan' /\ Kept
  OBVIOUS
<1>1. ASSUME NEW g \in Gen, NEW cut \in {0, now + Lead}, Begin(g, cut)
      PROVE  IInv' /\ NoOrphan' /\ Kept
  <2>1. cut \in Nat
    BY CutOverAssumption DEF IInv, TypeOK
  <2> QED
    BY <1>1, <2>1, BeginStep
<1>2. ASSUME NEW g \in Gen, NEW ts \in 0 .. MaxNow, NEW key \in BOOLEAN, Deliver(g, ts, key)
      PROVE  IInv' /\ NoOrphan' /\ Kept
  BY <1>2, DeliverStep
<1>3. ASSUME NEW g \in Gen, Exit(g)
      PROVE  IInv' /\ NoOrphan' /\ Kept
  BY <1>3, ExitStep
<1>4. CASE Tick
  BY <1>4, TickStep
<1>5. CASE Pass
  BY <1>5, PassStep
<1>6. CASE UNCHANGED vars
  BY <1>6 DEF vars, IInv, TypeOK, NoOrphan, Kept, Promise!vars
<1> QED
  BY <1>1, <1>2, <1>3, <1>4, <1>5, <1>6 DEF Next

(* The switch keeps its types, for every number of generations, every      *)
(* clock and every limit.                                                  *)
THEOREM TypeCorrect == Spec => []TypeOK
<1>1. IInv => TypeOK
  BY DEF IInv
<1> QED
  BY <1>1, InitInv, NextInv, PTL DEF Spec

(* Every generation reaches the viewers keyframe first.                    *)
THEOREM KeyframeCut == Spec => []CutAtKeyframe
<1>1. IInv => CutAtKeyframe
  BY DEF IInv, SInv, Core, Keyed, CutAtKeyframe
<1> QED
  BY <1>1, InitInv, NextInv, PTL DEF Spec

(* Time never runs backwards from one generation to the next.              *)
THEOREM OutputInOrder == Spec => []InOrder
<1>1. IInv => InOrder
  BY DEF IInv, SInv, Core, Ordered, InOrder
<1> QED
  BY <1>1, InitInv, NextInv, PTL DEF Spec

(* No encoder process is forgotten, and none in use is handed back.        *)
THEOREM NoEncoderForgotten == Spec => []NoOrphan
BY InitInv, NextInv, PTL DEF Spec

(* The switch implements Handover, the interface the supervisor relies on: *)
(* each of its steps is one of the four steps of the interface, or changes *)
(* no role.                                                                *)
THEOREM SwitchImplementsHandover == Spec => KeepsPromise
<1>1. Init => Promise!Init
  BY DEF Init, NewSwitch, Promise!Init, Promise!NoRoles, Promise!NoGen, NoGen
<1>2. IInv /\ NoOrphan /\ [Next]_vars => [Promise!Next]_(Promise!vars)
  BY NextInv DEF Kept
<1> QED
  BY <1>1, <1>2, InitInv, NextInv, PTL DEF Spec, KeepsPromise, Promise!Spec
-----------------------------------------------------------------------------
(* No block of a generation on air is lost: one its encoder delivered went *)
(* out, waits in the hold, or is replaced by a newer encoder's picture.    *)

\* A keyframe of a newer encoder went out that shows what b shows.
Replaced(s, b) == \E k \in s.out : k.gen > b.gen /\ k.key /\ b.ts > k.ts - Frame

\* b is accounted for, or its generation shows later blocks only.
Covered(s, b) ==
  \/ b \in s.out \cup s.held
  \/ Replaced(s, b)
  \/ \A e \in s.out \cup s.held : e.gen = b.gen => b.ts < e.ts

\* What is on air began, and the head follows it.
Shown(s) ==
  s.active # NoGen /\ ~ s.started => \A e \in s.out : e.gen # s.active

Headed(s, nw) ==
  s.active # NoGen =>
    /\ s.head <= nw[s.active]
    /\ s.started => s.head # Never /\ s.lastTs <= nw[s.active]

\* Once a block is held every later one of its encoder is.
HeldLate(s) ==
  /\ s.held # {} => s.head # Never
  /\ \A h \in s.held : h.ts >= s.lastTs /\ 2 * h.ts >= 2 * s.cut - Frame

\* Of the waiting generation every block since its keyframe is staged.
Waits(s, S) ==
  s.pending # NoGen => \A b \in S : b.gen = s.pending =>
    b \in s.staged \/ \A k \in s.staged : b.ts < k.ts

\* The blocks of S, delivered in all, are covered.
Cov(s, nw, S) ==
  /\ S \subseteq Block /\ \A b \in S : b.ts <= nw[b.gen]
  /\ Shown(s) /\ Headed(s, nw) /\ HeldLate(s) /\ Waits(s, S)
  /\ \A b \in S : Covered(s, b)

\* A generation that left the air without having died or been forced off it
\* had come within a frame of a newer one's keyframe.
CaughtUpWith(s, g, nw) ==
  (\E e \in s.out : e.gen = g) =>
     \E k \in s.out : k.gen > g /\ k.key /\ nw[g] >= k.ts - Frame

Relieved(s, nw, G) == \A g \in G : g \in {s.active, s.pending} \/ CaughtUpWith(s, g, nw)

\* Only the two generations in use bring anything new.
Brings(s, t) ==
  /\ s.out \subseteq t.out
  /\ \A e \in t.out : e \in s.out \/ e.gen \in {s.active, s.pending}

NInv ==
  /\ \A g \in Gen : g > begun => newest[g] = Never
  /\ Cov(sw, newest, seen)
  /\ Relieved(sw, newest, (1 .. begun) \ (gone \cup forced))
-----------------------------------------------------------------------------
LEMMA ForwardMore ==
  ASSUME NEW s \in Switch, NEW B, B \subseteq Block
  PROVE  LET t == Forward(s, B) IN
         /\ (\E b \in B : b \in t.out /\ b \notin s.out) => t.started
         /\ \A x \in B : x.ts >= s.lastTs /\ (s.started \/ \E k \in B : k.key /\ k.ts <= x.ts)
              => x \in t.out
<1> DEFINE begunB == IF s.started THEN B
                     ELSE {b \in B : \E k \in B : k.key /\ k.ts <= b.ts}
           passed == {b \in begunB : b.ts >= s.lastTs}
           t == Forward(s, B)
<1>1. t.out = s.out \cup passed /\ t.started = (s.started \/ begunB # {})
  BY DEF Forward, Switch
<1>2. \A x \in B : x.ts >= s.lastTs /\ (s.started \/ \E k \in B : k.key /\ k.ts <= x.ts)
        => x \in passed
  OBVIOUS
<1>3. passed # {} => begunB # {}
  OBVIOUS
<1> HIDE DEF begunB, passed, t
<1>4. (\E b \in B : b \in t.out /\ b \notin s.out) => t.started
  BY <1>1, <1>3
<1>5. \A x \in B : x.ts >= s.lastTs /\ (s.started \/ \E k \in B : k.key /\ k.ts <= x.ts)
        => x \in t.out
  BY <1>1, <1>2
<1> QED
  BY <1>4, <1>5 DEF t

(* Blocks of the generation on air that are sent in order: each goes out,  *)
(* or comes before the keyframe that its generation begins with.           *)
LEMMA SentCovers ==
  ASSUME NEW n \in Nat, NEW s \in Switch, s.lastTs <= n, Shown(s), s.active # NoGen,
         NEW B, B \subseteq Block,
         \A b \in B : b.gen = s.active /\ b.ts <= n /\ b.ts >= s.lastTs
  PROVE  LET t == Forward(s, B) IN
         /\ Forwarded(s, B, n, t) /\ Shown(t)
         /\ \A x \in B : x \in t.out \/ \A e \in t.out : e.gen = x.gen => x.ts < e.ts
         /\ t.started => s.started \/ \E b \in B : t.lastTs = b.ts
<1> DEFINE t == Forward(s, B)
<1>1. Forwarded(s, B, n, t)
  BY ForwardFacts
<1>2. /\ (\E b \in B : b \in t.out /\ b \notin s.out) => t.started
      /\ \A x \in B : s.started \/ (\E k \in B : k.key /\ k.ts <= x.ts) => x \in t.out
  BY ForwardMore
<1> HIDE DEF t
<1>3. /\ t.active = s.active /\ t.out \subseteq s.out \cup B
      /\ s.started => t.started
  BY <1>1 DEF Forwarded
<1>3a. s.started \in BOOLEAN /\ s.lastTs \in Int /\ t.lastTs \in Int
  BY <1>1 DEF Forwarded, Switch, Never
<1>4. Shown(t)
  BY <1>2, <1>3 DEF Shown
<1>5. ASSUME NEW x \in B, x \notin t.out, NEW e \in t.out, e.gen = x.gen
      PROVE  x.ts < e.ts
  <2>1. ~ s.started /\ \A k \in B : k.key => ~ (k.ts <= x.ts)
    BY <1>2, <1>5
  <2>2. e \notin s.out
    BY <1>5, <2>1 DEF Shown
  <2>3. PICK k \in B : k.key /\ k.ts <= e.ts
    BY <1>1, <1>5, <2>1, <2>2 DEF Forwarded
  <2>4. e \in B
    BY <1>3, <1>5, <2>2
  <2> QED
    BY <2>1, <2>3, <2>4, <1>5 DEF Block
<1>6. ASSUME t.started, ~ s.started
      PROVE  \E b \in B : t.lastTs = b.ts
  <2>1. PICK k \in B : k.key
    BY <1>1, <1>6 DEF Forwarded
  <2>2. k \in t.out
    BY <1>1, <1>6, <2>1 DEF Forwarded
  <2>3. k \notin s.out
    BY <1>6 DEF Shown
  <2>4. s.lastTs <= k.ts /\ k.ts <= t.lastTs /\ k.ts \in Nat
    BY <1>1, <2>2, <2>3 DEF Forwarded, Block
  <2>5. t.lastTs # s.lastTs => \E b \in B : t.lastTs = b.ts
    BY <1>1 DEF Forwarded
  <2> QED
    BY <1>3a, <2>4, <2>5
<1> QED
  BY <1>1, <1>4, <1>5, <1>6 DEF t
-----------------------------------------------------------------------------
LEMMA AbortCovers ==
  ASSUME NEW n \in Nat, NEW beg \in Nat, NEW nw \in [Gen -> Nat \cup {Never}],
         \A g \in Gen : nw[g] <= n,
         NEW s, SInv(s, n, nw, beg), NEW S, Cov(s, nw, S), s.pending # NoGen
  PROVE  /\ Cov(AbortSwap(s), nw, S) /\ Brings(s, AbortSwap(s))
         /\ AbortSwap(s).active = s.active
<1> DEFINE u == [s EXCEPT !.pending = NoGen, !.cut = Never, !.syncedAt = Never,
                          !.held = {}, !.staged = {}]
           v == Forward(u, s.held)
           t == [v EXCEPT !.retired = s.retired \cup {s.pending}]
<1>1. AbortSwap(s) = t
  BY DEF AbortSwap
<1>2. s \in Switch /\ s.active # NoGen /\ s.active \in Gen /\ s.lastTs <= n
  BY DEF SInv, Core, Shape, Stamped, Switch
<1>3. /\ u.active = s.active /\ u.pending = NoGen /\ u.held = {} /\ u.staged = {}
      /\ u.lastTs = s.lastTs /\ u.started = s.started /\ u.out = s.out /\ u.head = s.head
      /\ u \in Switch
  BY <1>2 DEF Switch
<1> HIDE DEF u
<1>4. /\ s.held \subseteq Block
      /\ \A b \in s.held : b.gen = u.active /\ b.ts <= n /\ b.ts >= u.lastTs /\ b.ts <= nw[s.active]
  <2>1. s.held \subseteq Block
    BY <1>2 DEF Switch
  <2>2. \A b \in s.held : b.gen = s.active /\ b.ts <= nw[b.gen] /\ b.ts >= s.lastTs
    BY DEF SInv, Core, Owned, Stamped, Cov, HeldLate
  <2>3. nw[s.active] \in Int /\ nw[s.active] <= n
    BY <1>2 DEF Never
  <2> QED
    BY <1>3, <2>1, <2>2, <2>3 DEF Block
<1>5. Shown(u)
  BY <1>3 DEF Cov, Shown
<1>6. /\ Forwarded(u, s.held, n, v) /\ Shown(v)
      /\ \A x \in s.held : x \in v.out \/ \A e \in v.out : e.gen = x.gen => x.ts < e.ts
      /\ v.started => u.started \/ \E b \in s.held : v.lastTs = b.ts
  BY <1>2, <1>3, <1>4, <1>5, SentCovers
<1> HIDE DEF v
<1>7. v \in Switch
  BY <1>6 DEF Forwarded
<1>8. /\ t.active = v.active /\ t.pending = v.pending /\ t.held = v.held /\ t.head = v.head
      /\ t.lastTs = v.lastTs /\ t.started = v.started /\ t.out = v.out
  BY <1>7 DEF Switch
<1> HIDE DEF t
<1>9. /\ t.active = s.active /\ t.pending = NoGen /\ t.held = {} /\ t.head = s.head
      /\ t.started = v.started /\ t.out = v.out /\ s.out \subseteq t.out
      /\ t.out \subseteq s.out \cup s.held
      /\ t.lastTs # s.lastTs => \E b \in s.held : t.lastTs = b.ts
  BY <1>3, <1>6, <1>8 DEF Forwarded
<1>10. Shown(t)
  BY <1>6, <1>8 DEF Shown
<1>11. Headed(t, nw)
  <2>1. t.started => t.head # Never /\ t.lastTs <= nw[s.active]
    <3> SUFFICES ASSUME t.started PROVE t.head # Never /\ t.lastTs <= nw[s.active]
      OBVIOUS
    <3>1. CASE s.started
      <4>1. s.head # Never /\ s.lastTs <= nw[s.active]
        BY <1>2, <3>1 DEF Cov, Headed
      <4> QED
        BY <1>4, <1>9, <4>1
    <3>2. CASE ~ s.started
      <4>1. PICK b \in s.held : v.lastTs = b.ts
        BY <1>3, <1>6, <1>9, <3>2
      <4>2. s.head # Never
        BY <4>1 DEF Cov, HeldLate
      <4> QED
        BY <1>4, <1>8, <1>9, <4>1, <4>2
    <3> QED
      BY <3>1, <3>2
  <2> QED
    BY <1>2, <1>9, <2>1 DEF Cov, Headed
<1>12. HeldLate(t) /\ Waits(t, S)
  BY <1>9 DEF HeldLate, Waits
<1>13. ASSUME NEW x \in S PROVE Covered(t, x)
  <2>1. Covered(s, x)
    BY DEF Cov
  <2>2. CASE x \in s.held
    BY <1>6, <1>9, <2>2 DEF Covered
  <2>3. CASE x \notin s.held
    BY <1>9, <2>1, <2>3 DEF Covered, Replaced
  <2> QED
    BY <2>2, <2>3
<1>14. Brings(s, t)
  BY <1>3, <1>4, <1>9 DEF Brings
<1> QED
  BY <1>1, <1>9, <1>10, <1>11, <1>12, <1>13, <1>14 DEF Cov

(* The cut: what it drops of the old generation shows what the new one's   *)
(* keyframe shows.                                                         *)
LEMMA FinishCovers ==
  ASSUME NEW n \in Nat, NEW beg \in Nat, NEW nw \in [Gen -> Nat \cup {Never}],
         \A g \in Gen : nw[g] <= n,
         NEW s, SInv(s, n, nw, beg), NEW S, Cov(s, nw, S), s.pending # NoGen, s.staged # {}
  PROVE  LET t == Finish(s) IN
         /\ Cov(t, nw, S) /\ Brings(s, t)
         /\ t.active = s.pending /\ t.pending = NoGen
         /\ First(s.staged) \in t.out /\ First(s.staged).key /\ First(s.staged).gen = s.pending
         /\ t.out \subseteq s.out \cup s.held \cup s.staged
<1>1. /\ s \in Switch /\ s.active # NoGen /\ s.active < s.pending /\ s.lastTs <= n
      /\ s.active \in Gen /\ s.pending \in Gen /\ s.held \subseteq Block
      /\ s.staged \subseteq Block /\ s.lastTs \in Int /\ s.out \subseteq Block
  BY DEF SInv, Core, Shape, Stamped, Switch, Never
<1>2. PICK k \in s.staged :
        /\ k.key /\ k.ts > s.lastTs
        /\ \A c \in s.staged : c = k \/ k.ts < c.ts
  BY DEF SInv, Synced
<1>3. First(s.staged) = k
  BY <1>1, <1>2, FirstBlock
<1>4. /\ \A b \in s.held : b.gen = s.active /\ b.ts \in Nat /\ b.ts <= n /\ b.ts >= s.lastTs
      /\ \A b \in s.staged : b.gen = s.pending /\ b.ts \in Nat /\ b.ts <= n /\ b.ts <= nw[s.pending]
  <2>1. /\ \A b \in s.held : b.gen = s.active /\ b.ts <= nw[b.gen] /\ b.ts >= s.lastTs
        /\ \A b \in s.staged : b.gen = s.pending /\ b.ts <= nw[b.gen]
    BY DEF SInv, Core, Owned, Stamped, Cov, HeldLate
  <2>2. /\ nw[s.active] \in Int /\ nw[s.active] <= n
        /\ nw[s.pending] \in Int /\ nw[s.pending] <= n
    BY <1>1 DEF Never
  <2> QED
    BY <1>1, <2>1, <2>2 DEF Block
<1>5. k.ts \in Nat /\ k.gen = s.pending /\ \A c \in s.staged : k.ts <= c.ts
  BY <1>2, <1>4
<1> DEFINE B   == Before(s.held, k)
           old == Forward(s, B)
           top == Last(s.staged).ts
           new == [old EXCEPT !.active = s.pending, !.pending = NoGen,
                              !.cut = Never, !.held = {}, !.staged = {},
                              !.syncedAt = Never, !.head = top, !.started = TRUE]
           sent == Forward(new, s.staged)
           t == [sent EXCEPT !.retired = s.retired \cup {s.active}]
<1>6. Finish(s) = t
  BY <1>1, <1>3 DEF Finish
<1>7. /\ B \subseteq s.held /\ \A b \in B : b.ts < k.ts
      /\ \A b \in s.held : b \in B \/ b.ts > k.ts - Frame
  BY <1>4, <1>5, SwitchAssumption DEF Before
<1>8. /\ Forwarded(s, B, n, old)
      /\ \A x \in B : x \in old.out \/ \A e \in old.out : e.gen = x.gen => x.ts < e.ts
  <2>1. /\ B \subseteq Block
        /\ \A b \in B : b.gen = s.active /\ b.ts <= n /\ b.ts >= s.lastTs
    BY <1>1, <1>4, <1>7
  <2> HIDE DEF B
  <2> QED
    BY <1>1, <2>1, SentCovers DEF Cov
<1> HIDE DEF B, old
<1>9. /\ old \in Switch /\ s.out \subseteq old.out /\ old.out \subseteq s.out \cup B
      /\ old.lastTs \in Int /\ old.lastTs < k.ts /\ old.lastTs <= n
  <2>1. /\ old \in Switch /\ s.out \subseteq old.out /\ old.out \subseteq s.out \cup B
        /\ old.lastTs <= n
        /\ old.lastTs = s.lastTs \/ \E b \in B : old.lastTs = b.ts
    BY <1>8 DEF Forwarded
  <2>2. old.lastTs \in Int
    BY <2>1 DEF Switch, Never
  <2> QED
    BY <1>1, <1>2, <1>5, <1>7, <2>1, <2>2
<1>10. top \in Nat /\ top <= nw[s.pending] /\ \A c \in s.staged : c.ts <= top
  BY <1>1, <1>4, LastBlock
<1> HIDE DEF top
<1>11. /\ new.active = s.pending /\ new.pending = NoGen /\ new.held = {} /\ new.staged = {}
       /\ new.started = TRUE /\ new.out = old.out /\ new.lastTs = old.lastTs
       /\ new.head = top
       /\ new \in Switch
  BY <1>1, <1>9, <1>10 DEF Switch
<1> HIDE DEF new
<1>12. Forwarded(new, s.staged, n, sent)
  BY <1>1, <1>4, <1>9, <1>11, ForwardFacts
<1>13. s.staged \subseteq sent.out
  <2>1. \A b \in s.staged : b.ts >= new.lastTs
    BY <1>4, <1>5, <1>9, <1>11
  <2> HIDE DEF sent
  <2> QED
    BY <1>11, <1>12, <2>1 DEF Forwarded
<1> HIDE DEF sent
<1>14. sent \in Switch
  BY <1>12 DEF Forwarded
<1>15. /\ t.active = sent.active /\ t.pending = sent.pending /\ t.held = sent.held
       /\ t.started = sent.started /\ t.out = sent.out /\ t.lastTs = sent.lastTs
       /\ t.head = sent.head
  BY <1>14 DEF Switch
<1> HIDE DEF t
<1>16. /\ t.active = s.pending /\ t.pending = NoGen /\ t.held = {} /\ t.started
       /\ t.out = old.out \cup s.staged /\ t.head = top
       /\ t.lastTs = old.lastTs \/ \E b \in s.staged : t.lastTs = b.ts
  BY <1>11, <1>12, <1>13, <1>15 DEF Forwarded
<1>17. k \in t.out /\ t.out \subseteq s.out \cup s.held \cup s.staged /\ s.out \subseteq t.out
  BY <1>7, <1>9, <1>16
<1>18. Brings(s, t)
  BY <1>4, <1>17 DEF Brings
<1>19. Headed(t, nw)
  <2>1. k.ts <= nw[s.pending] /\ nw[s.pending] \in Int
    BY <1>1, <1>2, <1>4 DEF Never
  <2>2. t.lastTs <= nw[s.pending]
    BY <1>4, <1>5, <1>9, <1>16, <2>1
  <2> QED
    BY <1>10, <1>16, <2>2 DEF Headed, Never
<1>20. Shown(t) /\ HeldLate(t) /\ Waits(t, S)
  BY <1>16 DEF Shown, HeldLate, Waits
<1>21. ASSUME NEW x \in S PROVE Covered(t, x)
  <2>1. Covered(s, x) /\ x \in Block
    BY DEF Cov
  <2>2. \A b \in s.out : b.gen <= s.active
    BY <1>1 DEF SInv, Core, Owned
  <2>3. \A b \in s.out \cup s.held : b.gen # s.pending
    BY <1>1, <1>4, <2>2 DEF Block, Gen
  <2>4. CASE x.gen = s.pending
    <3>1. x \in s.staged \/ \A c \in s.staged : x.ts < c.ts
      BY <2>4 DEF Cov, Waits
    <3>2. CASE x \in s.staged
      BY <1>16, <3>2 DEF Covered
    <3>3. CASE \A c \in s.staged : x.ts < c.ts
      BY <1>7, <1>9, <1>16, <2>3, <2>4, <3>3 DEF Covered
    <3> QED
      BY <3>1, <3>2, <3>3
  <2>5. CASE x \in s.held
    <3>1. x.gen = s.active /\ x.gen < s.pending
      BY <1>1, <1>4, <2>5 DEF Gen
    <3>2. CASE x \in B
      <4>1. x.gen # s.pending
        BY <1>1, <3>1 DEF Gen
      <4> QED
        BY <1>4, <1>8, <1>16, <4>1, <3>2 DEF Covered
    <3>3. CASE x \notin B
      BY <1>2, <1>5, <1>7, <1>17, <2>5, <3>1, <3>3 DEF Covered, Replaced
    <3> QED
      BY <3>2, <3>3
  <2>6. CASE x.gen # s.pending /\ x \notin s.held
    <3>1. CASE x \in s.out
      BY <1>17, <3>1 DEF Covered
    <3>2. CASE Replaced(s, x)
      BY <1>17, <3>2 DEF Covered, Replaced
    <3>3. CASE \A e \in s.out \cup s.held : e.gen = x.gen => x.ts < e.ts
      BY <1>4, <1>16, <1>17, <2>6, <3>3 DEF Covered
    <3> QED
      BY <2>1, <2>6, <3>1, <3>2, <3>3 DEF Covered
  <2> QED
    BY <2>4, <2>5, <2>6
<1>22. Cov(t, nw, S)
  BY <1>19, <1>20, <1>21 DEF Cov
<1> QED
  BY <1>2, <1>3, <1>5, <1>6, <1>16, <1>17, <1>18, <1>22

\* Who leaves the air at a cut had come within a frame of the new keyframe.
LEMMA MaybeFinishCovers ==
  ASSUME NEW n \in Nat, NEW beg \in Nat, NEW nw \in [Gen -> Nat \cup {Never}],
         \A g \in Gen : nw[g] <= n,
         NEW s, SInv(s, n, nw, beg), NEW S, Cov(s, nw, S)
  PROVE  LET t == MaybeFinish(s) IN
         /\ Cov(t, nw, S) /\ Brings(s, t)
         /\ t.active # s.active => CaughtUpWith(t, s.active, nw)
<1>1. CASE s.pending # NoGen /\ s.staged # {} /\ CaughtUp(s)
  <2> DEFINE t == Finish(s)
             k == First(s.staged)
  <2>1. /\ Cov(t, nw, S) /\ Brings(s, t) /\ t.active = s.pending
        /\ k \in t.out /\ k.key /\ k.gen = s.pending
        /\ t.out \subseteq s.out \cup s.held \cup s.staged
    BY <1>1, FinishCovers
  <2>2. MaybeFinish(s) = t
    BY <1>1 DEF MaybeFinish
  <2>3. /\ s.active # NoGen /\ s.active \in Gen /\ s.active < s.pending
        /\ s.head \in Nat \cup {Never} /\ s.started \in BOOLEAN
    BY <1>1 DEF SInv, Core, Shape, Switch, NoGen, Gen
  <2>4. s.head = Never \/ s.head >= k.ts - Frame
    BY <1>1, <2>3 DEF CaughtUp
  <2>5. k.ts \in Nat
    <3>1. SInv(t, n, nw, beg)
      BY <1>1, FinishInv DEF Good
    <3> QED
      BY <2>1, <3>1 DEF SInv, Core, Switch, Block
  <2> HIDE DEF t, k
  <2>6. CASE s.head = Never
    <3>1. s.held = {} /\ ~ s.started
      BY <2>3, <2>6 DEF Cov, HeldLate, Headed
    <3>2. (\A e \in s.staged : e.gen = s.pending) /\ s.active # s.pending
      BY <1>1, <2>3 DEF SInv, Core, Owned, Switch, Gen
    <3>3. \A e \in t.out : e.gen # s.active
      BY <2>1, <2>3, <3>1, <3>2 DEF Cov, Shown
    <3> QED
      BY <2>1, <2>2, <3>3 DEF CaughtUpWith
  <2>7. CASE s.head # Never
    <3>1. nw[s.active] >= k.ts - Frame
      <4>1. s.head <= nw[s.active] /\ nw[s.active] \in Int /\ s.head \in Int
        BY <2>3 DEF Cov, Headed, Never
      <4> QED
        BY <2>4, <2>5, <2>7, <4>1, SwitchAssumption
    <3>2. CaughtUpWith(t, s.active, nw)
      BY <2>1, <2>3, <3>1 DEF CaughtUpWith
    <3> QED
      BY <2>1, <2>2, <3>2
  <2> QED
    BY <2>6, <2>7
<1>2. CASE ~ (s.pending # NoGen /\ s.staged # {} /\ CaughtUp(s))
  BY <1>2 DEF MaybeFinish, Brings
<1> QED
  BY <1>1, <1>2
-----------------------------------------------------------------------------
\* b is the newest of its generation.
Latest(b, S) == \A x \in S : x.gen = b.gen => x.ts < b.ts

\* Its generation showed nothing, or another one's keyframe came before it.
CaughtUpWithin(s, b) == (\E e \in s.out : e.gen = b.gen) => Replaced(s, b)

\* b is at the planned cut or after it, and is held.
AtCut(s, b) == s.pending # NoGen /\ 2 * b.ts >= 2 * s.cut - Frame
WithHeld(s, b) == [s EXCEPT !.held = s.held \cup {b}]

LEMMA HeadCovers ==
  ASSUME NEW n \in Nat, NEW beg \in Nat, NEW nw \in [Gen -> Nat \cup {Never}],
         \A g \in Gen : nw[g] <= n,
         NEW s, SInv(s, n, nw, beg), NEW b, Handed(s, b, n, nw), b.gen = s.active,
         NEW S, Cov(s, nw, S), Latest(b, S)
  PROVE  LET t == [s EXCEPT !.head = b.ts] IN
         /\ Cov(t, nw, S) /\ t.head = b.ts /\ t.active = s.active /\ t.pending = s.pending
         /\ t.out = s.out /\ t.held = s.held /\ t.staged = s.staged /\ t.cut = s.cut
<1> DEFINE t == [s EXCEPT !.head = b.ts]
<1>1. s \in Switch /\ b.ts \in Nat /\ nw[s.active] = b.ts
  BY DEF SInv, Core, Handed, Block
<1>2. /\ t.active = s.active /\ t.pending = s.pending /\ t.held = s.held
      /\ t.staged = s.staged /\ t.lastTs = s.lastTs /\ t.started = s.started
      /\ t.out = s.out /\ t.cut = s.cut /\ t.head = b.ts
  BY <1>1 DEF Switch
<1> HIDE DEF t
<1>3. Headed(t, nw) /\ HeldLate(t)
  BY <1>1, <1>2 DEF Cov, Headed, HeldLate, Never
<1>4. Shown(t) /\ Waits(t, S) /\ \A x \in S : Covered(t, x)
  BY <1>2 DEF Cov, Shown, Waits, Covered, Replaced
<1>5. Cov(t, nw, S)
  BY <1>3, <1>4 DEF Cov
<1> QED
  BY <1>2, <1>5 DEF t

LEMMA HeldCovers ==
  ASSUME NEW n \in Nat, NEW beg \in Nat, NEW nw \in [Gen -> Nat \cup {Never}],
         \A g \in Gen : nw[g] <= n,
         NEW s, SInv(s, n, nw, beg), NEW b, Handed(s, b, n, nw), b.gen = s.active,
         NEW S, Cov(s, nw, S), Latest(b, S),
         s.head = b.ts, AtCut(s, b)
  PROVE  LET t == WithHeld(s, b) IN
         /\ Cov(t, nw, S \cup {b}) /\ Brings(s, t)
<1> DEFINE t == WithHeld(s, b)
<1>0. s.pending # NoGen /\ 2 * b.ts >= 2 * s.cut - Frame
  BY DEF AtCut
<1>1. /\ s \in Switch /\ b \in Block /\ b.ts \in Nat /\ nw[b.gen] = b.ts
      /\ s.active # NoGen /\ s.active # s.pending
  BY <1>0 DEF SInv, Core, Shape, Handed, Block, Gen, NoGen, Switch
<1>2. /\ t.active = s.active /\ t.pending = s.pending /\ t.held = s.held \cup {b}
      /\ t.staged = s.staged /\ t.lastTs = s.lastTs /\ t.started = s.started
      /\ t.out = s.out /\ t.cut = s.cut /\ t.head = s.head
  BY <1>1 DEF Switch, WithHeld
<1> HIDE DEF t
<1>3. b.ts >= s.lastTs
  <2>1. s.started \in BOOLEAN /\ s.lastTs \in Int
    BY <1>1 DEF Switch, Never
  <2>2. CASE s.started
    BY <1>1, <2>1, <2>2 DEF Cov, Headed
  <2>3. CASE ~ s.started
    BY <2>3 DEF Handed
  <2> QED
    BY <2>1, <2>2, <2>3
<1>4. HeldLate(t) /\ Headed(t, nw) /\ Shown(t)
  BY <1>0, <1>1, <1>2, <1>3 DEF Cov, HeldLate, Headed, Shown, Never
<1>5. Waits(t, S \cup {b})
  BY <1>1, <1>2 DEF Cov, Waits
<1>6. ASSUME NEW x \in S \cup {b} PROVE Covered(t, x)
  <2>1. CASE x = b
    BY <1>2, <2>1 DEF Covered
  <2>2. CASE x \in S
    BY <1>2, <2>2 DEF Cov, Covered, Replaced, Latest
  <2> QED
    BY <2>1, <2>2
<1>7. S \cup {b} \subseteq Block /\ \A x \in S \cup {b} : x.ts <= nw[x.gen]
  BY <1>1 DEF Cov
<1> QED
  BY <1>2, <1>4, <1>5, <1>6, <1>7 DEF Cov, Brings, t

LEMMA SendCovers ==
  ASSUME NEW n \in Nat, NEW beg \in Nat, NEW nw \in [Gen -> Nat \cup {Never}],
         \A g \in Gen : nw[g] <= n,
         NEW s, SInv(s, n, nw, beg), NEW b, Handed(s, b, n, nw), b.gen = s.active,
         NEW S, Cov(s, nw, S), Latest(b, S),
         s.head = b.ts, ~ AtCut(s, b)
  PROVE  LET t == Forward(s, {b}) IN
         /\ Cov(t, nw, S \cup {b}) /\ Brings(s, t)
<1> DEFINE t == Forward(s, {b})
<1>1. /\ s \in Switch /\ b \in Block /\ b.ts \in Nat /\ b.ts <= n /\ nw[b.gen] = b.ts
      /\ s.active # NoGen /\ s.active # s.pending /\ s.lastTs <= n /\ s.lastTs \in Int
  BY DEF SInv, Core, Shape, Stamped, Handed, Block, Gen, NoGen, Switch, Never
<1>2. b.ts >= s.lastTs
  <2>1. s.started \in BOOLEAN
    BY <1>1 DEF Switch
  <2>2. CASE s.started
    BY <1>1, <2>2 DEF Cov, Headed
  <2>3. CASE ~ s.started
    BY <2>3 DEF Handed
  <2> QED
    BY <2>1, <2>2, <2>3
<1>3. s.held = {}
  <2> SUFFICES ASSUME NEW h \in s.held PROVE FALSE
    OBVIOUS
  <2>1. s.pending # NoGen /\ s.cut \in Nat
    BY DEF SInv, Core, Shape
  <2>2. h.ts \in Nat /\ h.ts < b.ts
    BY <1>1 DEF SInv, Core, Owned, Handed, Switch, Block
  <2>3. 2 * h.ts >= 2 * s.cut - Frame
    BY DEF Cov, HeldLate
  <2> QED
    BY <1>1, <2>1, <2>2, <2>3, SwitchAssumption DEF AtCut
<1>4. /\ Forwarded(s, {b}, n, t) /\ Shown(t)
      /\ b \in t.out \/ \A e \in t.out : e.gen = b.gen => b.ts < e.ts
      /\ t.started => s.started \/ t.lastTs = b.ts
  <2>1. /\ {b} \subseteq Block
        /\ \A c \in {b} : c.gen = s.active /\ c.ts <= n /\ c.ts >= s.lastTs
    BY <1>1, <1>2
  <2>2. Shown(s)
    BY DEF Cov
  <2>3. /\ Forwarded(s, {b}, n, t) /\ Shown(t)
        /\ \A x \in {b} : x \in t.out \/ \A e \in t.out : e.gen = x.gen => x.ts < e.ts
        /\ t.started => s.started \/ \E c \in {b} : t.lastTs = c.ts
    BY <1>1, <2>1, <2>2, SentCovers
  <2> HIDE DEF t
  <2> QED
    BY <2>3
<1> HIDE DEF t
<1>5. /\ t.active = s.active /\ t.pending = s.pending /\ t.held = {} /\ t.staged = s.staged
      /\ t.cut = s.cut /\ t.head = b.ts
      /\ s.out \subseteq t.out /\ t.out \subseteq s.out \cup {b}
      /\ t.lastTs = s.lastTs \/ t.lastTs = b.ts
  BY <1>3, <1>4 DEF Forwarded
<1>6. Headed(t, nw) /\ HeldLate(t)
  BY <1>1, <1>4, <1>5 DEF Cov, Headed, HeldLate, Never
<1>7. Waits(t, S \cup {b})
  BY <1>1, <1>5 DEF Cov, Waits
<1>8. ASSUME NEW x \in S \cup {b} PROVE Covered(t, x)
  <2>1. CASE x = b
    BY <1>4, <1>5, <2>1 DEF Covered
  <2>2. CASE x \in S
    BY <1>3, <1>5, <2>2 DEF Cov, Covered, Replaced, Latest
  <2> QED
    BY <2>1, <2>2
<1>9. S \cup {b} \subseteq Block /\ \A x \in S \cup {b} : x.ts <= nw[x.gen]
  BY <1>1 DEF Cov
<1>10. Brings(s, t)
  BY <1>5 DEF Brings
<1> QED
  BY <1>4, <1>5, <1>6, <1>7, <1>8, <1>9, <1>10 DEF Cov, t

LEMMA OnActiveCovers ==
  ASSUME NEW n \in Nat, NEW beg \in Nat, NEW nw \in [Gen -> Nat \cup {Never}],
         \A g \in Gen : nw[g] <= n,
         NEW s, SInv(s, n, nw, beg), NEW b, Handed(s, b, n, nw), b.gen = s.active,
         NEW S, Cov(s, nw, S), Latest(b, S)
  PROVE  LET t == OnActive(s, b) IN
         /\ Cov(t, nw, S \cup {b}) /\ Brings(s, t)
         /\ t.active # s.active => CaughtUpWith(t, s.active, nw)
<1> DEFINE t == [s EXCEPT !.head = b.ts]
           synced == s.staged # {} /\ 2 * b.ts >= 2 * First(s.staged).ts - Frame
           h == WithHeld(t, b)
           f == Forward(t, {b})
<1>1. /\ SInv(t, n, nw, beg) /\ Handed(t, b, n, nw) /\ b.gen = t.active
      /\ Cov(t, nw, S) /\ t.head = b.ts
      /\ t.active = s.active /\ t.pending = s.pending
      /\ t.out = s.out /\ t.held = s.held /\ t.staged = s.staged /\ t.cut = s.cut
  BY HeadInv, HeadCovers DEF Good
<1>1a. AtCut(t, b) = AtCut(s, b)
  BY <1>1 DEF AtCut
<1>2. OnActive(s, b) = CASE AtCut(s, b) /\ synced  -> MaybeFinish(t)
                         [] AtCut(s, b) /\ ~synced -> Hold(t, b)
                         [] OTHER            -> MaybeFinish(f)
  BY DEF OnActive, AtCut
<1>3. Hold(t, b) = IF Last(h.held).ts - First(h.held).ts > HoldLimit THEN AbortSwap(h) ELSE h
  BY DEF Hold, WithHeld
<1> HIDE DEF t
<1>4. b \in Block /\ b.ts \in Nat /\ b.ts <= nw[b.gen]
  BY DEF Handed, Block
<1>5. CASE AtCut(s, b) /\ synced
  <2> DEFINE k == First(t.staged)
             m == MaybeFinish(t)
  <2>1. k.ts \in Nat
    <3>1. Good(t, Finish(t), n, nw, beg)
      BY <1>1, <1>5, FinishInv DEF AtCut
    <3>2. k \in Finish(t).out
      BY <1>1, <1>5, FinishCovers DEF AtCut
    <3> HIDE DEF k
    <3> QED
      BY <3>1, <3>2 DEF Good, SInv, Core, Switch, Block
  <2>2. b.ts > k.ts - Frame /\ b.ts >= k.ts - Frame
    BY <1>1, <1>4, <1>5, <2>1, SwitchAssumption
  <2>3. m = Finish(t)
    BY <1>1, <1>5, <2>2 DEF MaybeFinish, CaughtUp, AtCut
  <2>4. /\ m.active = t.pending /\ m.pending = NoGen
        /\ k \in m.out /\ k.key /\ k.gen = t.pending
    BY <1>1, <1>5, <2>3, FinishCovers DEF AtCut
  <2>5. /\ Cov(m, nw, S) /\ Brings(t, m)
        /\ m.active # t.active => CaughtUpWith(m, t.active, nw)
    BY <1>1, MaybeFinishCovers
  <2>6. OnActive(s, b) = m
    BY <1>2, <1>5
  <2> HIDE DEF m, k
  <2>7. t.active < t.pending
    BY <1>1, <1>5 DEF AtCut, SInv, Core, Shape, Switch, Gen, NoGen
  <2>8. Covered(m, b)
    BY <1>1, <2>2, <2>4, <2>7 DEF Covered, Replaced
  <2>9. Waits(m, S \cup {b})
    BY <2>4 DEF Waits
  <2>10. Cov(m, nw, S \cup {b})
    BY <1>4, <2>5, <2>8, <2>9 DEF Cov
  <2> QED
    BY <1>1, <2>5, <2>6, <2>10 DEF Brings
<1>6. CASE AtCut(s, b) /\ ~ synced
  <2>1. AtCut(t, b) /\ t.pending # NoGen
    BY <1>1a, <1>6 DEF AtCut
  <2>2. SInv(h, n, nw, beg)
    BY <1>1, <2>1, HeldInv DEF Good, WithHeld
  <2>3. /\ Cov(h, nw, S \cup {b}) /\ Brings(t, h)
        /\ h.active = t.active /\ h.pending = t.pending
    <3>1. Cov(h, nw, S \cup {b}) /\ Brings(t, h)
      BY <1>1, <2>1, HeldCovers
    <3>2. h.active = t.active /\ h.pending = t.pending
      BY <1>1 DEF WithHeld, SInv, Core, Switch
    <3> QED
      BY <3>1, <3>2
  <2> HIDE DEF h
  <2>4. /\ Cov(AbortSwap(h), nw, S \cup {b}) /\ Brings(h, AbortSwap(h))
        /\ AbortSwap(h).active = h.active
    BY <2>1, <2>3, <2>2, AbortCovers
  <2>5. OnActive(s, b) = AbortSwap(h) \/ OnActive(s, b) = h
    BY <1>2, <1>3, <1>6
  <2>6. Brings(s, h) /\ Brings(s, AbortSwap(h))
    BY <1>1, <2>3, <2>4 DEF Brings
  <2> QED
    BY <1>1, <2>3, <2>4, <2>5, <2>6
<1>7. CASE ~ AtCut(s, b)
  <2>1. ~ AtCut(t, b)
    BY <1>1a, <1>7
  <2>2. SInv(f, n, nw, beg) /\ Forwarded(t, {b}, n, f)
    BY <1>1, <2>1, SentInv DEF Good, AtCut
  <2>3. /\ Cov(f, nw, S \cup {b}) /\ Brings(t, f)
        /\ f.active = t.active /\ f.pending = t.pending
    <3>1. Cov(f, nw, S \cup {b}) /\ Brings(t, f)
      BY <1>1, <2>1, SendCovers
    <3>2. f.active = t.active /\ f.pending = t.pending
      BY <2>2 DEF Forwarded
    <3> QED
      BY <3>1, <3>2
  <2> HIDE DEF f
  <2> DEFINE m == MaybeFinish(f)
  <2>4. /\ Cov(m, nw, S \cup {b}) /\ Brings(f, m)
        /\ m.active # f.active => CaughtUpWith(m, f.active, nw)
    BY <2>3, <2>2, MaybeFinishCovers
  <2>5. OnActive(s, b) = m
    BY <1>2, <1>7
  <2> HIDE DEF m
  <2>6. Brings(s, m)
    BY <1>1, <2>3, <2>4 DEF Brings
  <2> QED
    BY <1>1, <2>3, <2>4, <2>5, <2>6
<1> QED
  BY <1>5, <1>6, <1>7

LEMMA OnPendingCovers ==
  ASSUME NEW n \in Nat, NEW beg \in Nat, NEW nw \in [Gen -> Nat \cup {Never}],
         \A g \in Gen : nw[g] <= n,
         NEW s, SInv(s, n, nw, beg), NEW b, Handed(s, b, n, nw), b.gen = s.pending,
         NEW S, Cov(s, nw, S), Latest(b, S)
  PROVE  LET t == OnPending(s, b, n) IN
         /\ Cov(t, nw, S \cup {b}) /\ Brings(s, t)
         /\ t.active # s.active => CaughtUpWith(t, s.active, nw)
<1>1. /\ s \in Switch /\ b \in Block /\ b.ts \in Nat /\ b.ts <= nw[b.gen]
      /\ s.active # NoGen /\ s.pending # NoGen /\ s.active \in Gen /\ s.pending \in Gen
      /\ s.active # s.pending
  BY DEF SInv, Core, Shape, Handed, Block, Gen, NoGen, Switch
<1>2. \A e \in s.out \cup s.held : e.gen # s.pending
  <2>1. \A e \in s.out : e \in Block /\ e.gen <= s.active
    BY <1>1 DEF SInv, Core, Owned, Switch
  <2>2. \A e \in s.held : e.gen = s.active
    BY DEF SInv, Core, Owned
  <2>3. s.active < s.pending
    BY <1>1 DEF SInv, Core, Shape
  <2> QED
    BY <1>1, <2>1, <2>2, <2>3 DEF Block, Gen
\* What stages b, or drops it.
<1>3. ASSUME NEW t,
             /\ t.active = s.active /\ t.pending = s.pending /\ t.held = s.held
             /\ t.lastTs = s.lastTs /\ t.started = s.started /\ t.head = s.head
             /\ t.out = s.out /\ t.cut = s.cut,
             \/ t.staged = s.staged \cup {b}
             \/ t.staged = {}
             \/ t.staged = {b} /\ s.staged = {}
      PROVE  Cov(t, nw, S \cup {b})
  <2>1. Shown(t) /\ Headed(t, nw) /\ HeldLate(t)
    BY <1>3 DEF Cov, Shown, Headed, HeldLate
  <2>2. Waits(t, S \cup {b})
    BY <1>1, <1>3 DEF Cov, Waits, Latest
  <2>3. \A x \in S \cup {b} : Covered(t, x)
    BY <1>2, <1>3 DEF Cov, Covered, Replaced
  <2> QED
    BY <1>1, <2>1, <2>2, <2>3 DEF Cov
\* What follows once it is staged.
<1>4. ASSUME NEW t, SInv(t, n, nw, beg), Cov(t, nw, S \cup {b}),
             t.active = s.active, t.pending = s.pending, t.out = s.out,
             OnPending(s, b, n) = MaybeFinish(t)
      PROVE  LET m == OnPending(s, b, n) IN
             /\ Cov(m, nw, S \cup {b}) /\ Brings(s, m)
             /\ m.active # s.active => CaughtUpWith(m, s.active, nw)
  <2> DEFINE m == MaybeFinish(t)
  <2>1. /\ Cov(m, nw, S \cup {b}) /\ Brings(t, m)
        /\ m.active # t.active => CaughtUpWith(m, t.active, nw)
    BY <1>4, MaybeFinishCovers
  <2> HIDE DEF m
  <2> QED
    BY <1>4, <2>1 DEF Brings, m
<1>5. CASE s.staged # {}
  <2> DEFINE t == [s EXCEPT !.staged = s.staged \cup {b}]
  <2>1. SInv(t, n, nw, beg)
    BY <1>5, StagedInv DEF Good
  <2>2. /\ t.active = s.active /\ t.pending = s.pending /\ t.held = s.held
        /\ t.lastTs = s.lastTs /\ t.started = s.started /\ t.head = s.head
        /\ t.out = s.out /\ t.cut = s.cut /\ t.staged = s.staged \cup {b}
    BY <1>1 DEF Switch
  <2>3. OnPending(s, b, n) = MaybeFinish(t)
    BY <1>5 DEF OnPending
  <2> HIDE DEF t
  <2>4. Cov(t, nw, S \cup {b})
    BY <1>3, <2>2
  <2> QED
    BY <1>4, <2>1, <2>2, <2>3, <2>4
<1>6. CASE s.staged = {} /\ b.key /\ b.ts >= s.cut /\ b.ts > s.lastTs
  <2> DEFINE t == [s EXCEPT !.staged = {b}, !.syncedAt = n]
  <2>1. SInv(t, n, nw, beg)
    BY <1>6, SyncInv DEF Good
  <2>2. /\ t.active = s.active /\ t.pending = s.pending /\ t.held = s.held
        /\ t.lastTs = s.lastTs /\ t.started = s.started /\ t.head = s.head
        /\ t.out = s.out /\ t.cut = s.cut /\ t.staged = {b}
    BY <1>1 DEF Switch
  <2>3. OnPending(s, b, n) = MaybeFinish(t)
    BY <1>6 DEF OnPending
  <2> HIDE DEF t
  <2>4. Cov(t, nw, S \cup {b})
    BY <1>3, <1>6, <2>2
  <2> QED
    BY <1>4, <2>1, <2>2, <2>3, <2>4
<1>7. CASE s.staged = {} /\ ~ (b.key /\ b.ts >= s.cut /\ b.ts > s.lastTs)
  <2>1. OnPending(s, b, n) = s
    BY <1>7 DEF OnPending
  <2>2. Cov(s, nw, S \cup {b})
    BY <1>3, <1>7
  <2> QED
    BY <2>1, <2>2 DEF Brings
<1> QED
  BY <1>5, <1>6, <1>7

\* A block that nobody waits for had better come late.
LEMMA OnBlockCovers ==
  ASSUME NEW n \in Nat, NEW beg \in Nat, NEW nw \in [Gen -> Nat \cup {Never}],
         \A g \in Gen : nw[g] <= n,
         NEW s, SInv(s, n, nw, beg), NEW b, Handed(s, b, n, nw),
         NEW S, Cov(s, nw, S), Latest(b, S),
         b.gen \in {s.active, s.pending} \/ CaughtUpWithin(s, b)
  PROVE  LET t == OnBlock(s, b, n) IN
         /\ Cov(t, nw, S \cup {b}) /\ Brings(s, t)
         /\ t.active # s.active => CaughtUpWith(t, s.active, nw)
<1>1. CASE b.gen = s.active
  BY <1>1, OnActiveCovers DEF OnBlock
<1>2. CASE b.gen # s.active /\ b.gen = s.pending
  <2>1. OnBlock(s, b, n) = OnPending(s, b, n)
    BY <1>2 DEF OnBlock
  <2> QED
    BY <1>2, <2>1, OnPendingCovers
<1>3. CASE b.gen # s.active /\ b.gen # s.pending
  <2>1. OnBlock(s, b, n) = s
    BY <1>3 DEF OnBlock
  <2>2. \A e \in s.held : e.gen # b.gen
    BY <1>3 DEF SInv, Core, Owned
  <2>3. Covered(s, b)
    BY <1>3, <2>2 DEF CaughtUpWithin, Covered, Replaced
  <2>4. Waits(s, S \cup {b})
    BY <1>3 DEF Cov, Waits
  <2>5. Cov(s, nw, S \cup {b})
    BY <2>3, <2>4 DEF Cov, Handed, Block
  <2> QED
    BY <2>1, <2>5 DEF Brings
<1> QED
  BY <1>1, <1>2, <1>3
-----------------------------------------------------------------------------
\* Later stamps and fewer blocks leave covered what is covered.
LEMMA CovLater ==
  ASSUME NEW nw \in [Gen -> Nat \cup {Never}], NEW nx \in [Gen -> Nat \cup {Never}],
         \A g \in Gen : nw[g] <= nx[g],
         NEW s \in Switch, NEW S, NEW R, R \subseteq S, Cov(s, nw, S)
  PROVE  Cov(s, nx, R)
<1>1. \A g \in Gen : nw[g] \in Int /\ nx[g] \in Int
  BY DEF Never
<1>2. R \subseteq Block /\ \A b \in R : b.ts <= nx[b.gen]
  BY <1>1 DEF Cov, Block
<1>3. Headed(s, nx)
  <2> SUFFICES ASSUME s.active # NoGen PROVE Headed(s, nx)
    BY DEF Headed
  <2>1. s.active \in Gen /\ s.head \in Int /\ s.lastTs \in Int
    BY DEF Switch, Never
  <2> QED
    BY <1>1, <2>1 DEF Cov, Headed
<1> QED
  BY <1>2, <1>3 DEF Cov, Waits

\* Who is not in use shows nothing new, so only who leaves needs a look.
LEMMA StillRelieved ==
  ASSUME NEW nw \in [Gen -> Nat \cup {Never}], NEW nx \in [Gen -> Nat \cup {Never}],
         \A g \in Gen : nw[g] <= nx[g],
         NEW s \in Switch, NEW t, Brings(s, t),
         NEW G, NEW H, H \subseteq G, G \subseteq Gen, Relieved(s, nw, G),
         \A g \in H : g \in {s.active, s.pending} =>
           g \in {t.active, t.pending} \/ CaughtUpWith(t, g, nx)
  PROVE  Relieved(t, nx, H)
<1> SUFFICES ASSUME NEW g \in H, g \notin {s.active, s.pending}
    PROVE  CaughtUpWith(t, g, nx)
  BY DEF Relieved
<1> SUFFICES ASSUME NEW e \in t.out, e.gen = g
    PROVE  \E k \in t.out : k.gen > g /\ k.key /\ nx[g] >= k.ts - Frame
  BY DEF CaughtUpWith
<1>1. e \in s.out
  BY DEF Brings
<1>2. PICK k \in s.out : k.gen > g /\ k.key /\ nw[g] >= k.ts - Frame
  BY <1>1 DEF Relieved, CaughtUpWith
<1>3. /\ nw[g] \in Int /\ nx[g] \in Int /\ nw[g] <= nx[g] /\ k.ts \in Nat
      /\ k.ts - Frame \in Int
  BY SwitchAssumption DEF Never, Switch, Block
<1> QED
  BY <1>2, <1>3 DEF Brings

\* A swap given up showed nothing of its encoder; one that is cut through
\* takes the encoder on air off it.
LEMMA RolesRelieve ==
  ASSUME NEW n, NEW beg \in Nat, NEW nw, NEW nx,
         NEW s, SInv(s, n, nw, beg), NEW t, SInv(t, n, nw, beg), Roles(s, t),
         NEW H, H \subseteq Gen,
         t.active # s.active => s.active \notin H \/ CaughtUpWith(t, s.active, nx)
  PROVE  \A g \in H : g \in {s.active, s.pending} =>
           g \in {t.active, t.pending} \/ CaughtUpWith(t, g, nx)
<1> SUFFICES ASSUME NEW g \in H, g \in {s.active, s.pending}, g \notin {t.active, t.pending}
    PROVE  CaughtUpWith(t, g, nx)
  OBVIOUS
<1>1. g # NoGen /\ g \in Gen
  BY DEF Gen, NoGen
<1>2. CASE g = s.active
  BY <1>2
<1>3. CASE g # s.active /\ g = s.pending
  <2>1. t.active = s.active /\ s.active # NoGen /\ s.active < g
    BY <1>1, <1>3 DEF Roles, SInv, Core, Shape
  <2>2. \A e \in t.out : e.gen <= s.active /\ e.gen \in Gen
    BY <2>1 DEF SInv, Core, Owned, Switch, Block
  <2>3. s.active \in Nat /\ g \in Nat
    BY DEF SInv, Core, Switch, Gen, NoGen
  <2>4. \A e \in t.out : e.gen # g
    BY <2>1, <2>2, <2>3 DEF Gen
  <2> QED
    BY <2>4 DEF CaughtUpWith
<1> QED
  BY <1>2, <1>3

LEMMA BeginLoss ==
  ASSUME IInv, NInv, NEW g \in Gen, NEW cut \in Nat, Begin(g, cut)
  PROVE  NInv'
<1>1. /\ sw \in Switch /\ sw.pending = NoGen /\ sw.held = {} /\ sw.staged = {}
      /\ begun \in Nat /\ begun' = g /\ g = begun + 1 /\ now \in Nat
      /\ newest \in [Gen -> Nat \cup {Never}] /\ UNCHANGED <<gone, forced, seen>>
      /\ newest' = [newest EXCEPT ![g] = now - 1]
  BY DEF IInv, TypeOK, SInv, Core, Shape, Begin
<1>2. /\ newest' \in [Gen -> Nat \cup {Never}]
      /\ \A h \in Gen : newest'[h] = IF h = g THEN now - 1 ELSE newest[h]
  <2>1. now - 1 \in Nat \cup {Never}
    BY <1>1 DEF Never
  <2> QED
    BY <1>1, <2>1
<1>3. \A h \in Gen : newest[h] <= newest'[h] /\ newest[h] \in Int
  <2>1. newest[g] = Never
    BY <1>1 DEF NInv
  <2>2. \A h \in Gen : newest[h] \in Int
    BY <1>1 DEF Never
  <2> QED
    BY <1>1, <1>2, <2>1, <2>2 DEF Never
<1>4. \A h \in Gen : h > begun' => newest'[h] = Never
  BY <1>1, <1>2 DEF NInv, Gen
<1>5. Cov(sw, newest', seen)
  BY <1>1, <1>2, <1>3, CovLater DEF NInv
<1>6. \A e \in sw.out : e.gen \in Gen /\ e.gen # g
  BY <1>1 DEF IInv, SInv, Core, Owned, Switch, Block, Gen
<1>7. /\ sw'.out = sw.out /\ sw'.held = {} /\ sw'.staged = {}
      /\ sw'.lastTs = sw.lastTs
      /\ \/ /\ sw.active = NoGen /\ sw'.active = g /\ sw'.pending = NoGen
            /\ sw'.started = FALSE /\ sw'.head = Never
         \/ /\ sw'.active = sw.active /\ sw'.pending = g
            /\ sw'.started = sw.started /\ sw'.head = sw.head
  BY <1>1 DEF Begin, BeginSwap, Activate, Switch
<1>8. Cov(sw', newest', seen)
  <2>1. Shown(sw')
    BY <1>5, <1>6, <1>7 DEF Cov, Shown
  <2>2. Headed(sw', newest')
    <3>1. newest'[g] = now - 1 /\ Never <= now - 1
      BY <1>1, <1>2 DEF Never
    <3> QED
      BY <1>5, <1>7, <3>1 DEF Cov, Headed
  <2>3. HeldLate(sw') /\ Waits(sw', seen)
    BY <1>7 DEF HeldLate, Waits
  <2>4. \A b \in seen : Covered(sw', b)
    BY <1>1, <1>5, <1>7 DEF Cov, Covered, Replaced
  <2> QED
    BY <1>5, <2>1, <2>2, <2>3, <2>4 DEF Cov
<1>9. Relieved(sw', newest', (1 .. begun') \ (gone' \cup forced'))
  <2> DEFINE G == (1 .. begun) \ (gone \cup forced)
             H == (1 .. begun') \ (gone' \cup forced')
  <2>1. G \subseteq Gen /\ H \subseteq G \cup {g}
    <3>1. 1 .. begun \subseteq Gen /\ 1 .. begun' \subseteq (1 .. begun) \cup {g}
      BY <1>1, SwitchAssumption DEF Gen
    <3> QED
      BY <1>1, <3>1
  <2>2. Brings(sw, sw') /\ Relieved(sw, newest, G)
    BY <1>7 DEF Brings, NInv
  <2> DEFINE K == H \cap G
  <2>3. /\ K \subseteq G
        /\ \A h \in K : h \in {sw.active, sw.pending} =>
             h \in {sw'.active, sw'.pending} \/ CaughtUpWith(sw', h, newest')
    BY <1>1, <1>7, <2>1 DEF Gen, NoGen
  <2>3a. H \subseteq K \cup {g}
    BY <2>1
  <2> HIDE DEF G, H, K
  <2>3b. /\ newest' \in [Gen -> Nat \cup {Never}]
         /\ \A h \in Gen : newest[h] <= newest'[h]
    BY <1>2, <1>3
  <2>3c. newest \in [Gen -> Nat \cup {Never}] /\ sw \in Switch /\ G \subseteq Gen
    BY <1>1, <2>1
  <2>4. Relieved(sw', newest', K)
    BY <2>2, <2>3, <2>3b, <2>3c, StillRelieved
  <2>5. g \in {sw'.active, sw'.pending}
    BY <1>7
  <2>6. Relieved(sw', newest', H)
    BY <2>3a, <2>4, <2>5 DEF Relieved
  <2> QED
    BY <2>6 DEF H
<1> QED
  BY <1>1, <1>4, <1>8, <1>9 DEF NInv

LEMMA DeliverLoss ==
  ASSUME IInv, NInv, NEW g \in Gen, NEW ts \in Nat, NEW key \in BOOLEAN,
         Deliver(g, ts, key)
  PROVE  NInv'
<1> DEFINE b == [gen |-> g, ts |-> ts, key |-> key]
           G == (1 .. begun) \ (gone \cup forced)
<1>1. /\ g \in 1 .. begun /\ g \notin gone /\ ts > newest[g] /\ ts <= now
      /\ newest' = [newest EXCEPT ![g] = ts]
      /\ sw' = OnBlock(sw, b, now)
      /\ seen' = IF g \in forced THEN seen ELSE seen \cup {b}
      /\ UNCHANGED <<now, begun, gone, forced>>
  BY DEF Deliver
<1>2. b \in Block /\ b.gen = g /\ b.ts = ts
  BY DEF Block
<1>3. /\ begun \in Nat /\ begun \in 0 .. MaxGen /\ now \in Nat
      /\ newest \in [Gen -> Nat \cup {Never}] /\ sw \in Switch
  BY DEF IInv, TypeOK
<1>4. /\ SInv(sw, now, newest', begun) /\ Handed(sw, b, now, newest')
      /\ newest' \in [Gen -> Nat \cup {Never}]
      /\ \A h \in Gen : newest'[h] <= now /\ newest[h] <= newest'[h]
  BY Delivered
<1>5. G \subseteq Gen /\ Relieved(sw, newest, G)
  BY <1>3, SwitchAssumption DEF NInv, Gen
<1> HIDE DEF b
<1>6. Cov(sw, newest', seen)
  BY <1>3, <1>4, CovLater DEF NInv
<1>7. Latest(b, seen)
  <2> SUFFICES ASSUME NEW x \in seen, x.gen = g PROVE x.ts < ts
    BY <1>2 DEF Latest
  <2>1. x.ts <= newest[g] /\ x.ts \in Nat /\ newest[g] \in Int
    BY <1>3 DEF NInv, Cov, Block, Never
  <2> QED
    BY <1>1, <2>1
<1>8. Good(sw, sw', now, newest', begun)
  BY <1>1, <1>3, <1>4, OnBlockInv
<1>9. \A h \in Gen : h > begun' => newest'[h] = Never
  BY <1>1, <1>3 DEF NInv, Gen
<1>10. /\ Cov(sw', newest', seen') /\ Brings(sw, sw')
       /\ sw'.active # sw.active => CaughtUpWith(sw', sw.active, newest')
  <2>1. CASE g \in {sw.active, sw.pending} \/ g \notin forced
    <3>1. g \in {sw.active, sw.pending} \/ CaughtUpWithin(sw, b)
      <4> SUFFICES ASSUME g \notin {sw.active, sw.pending}, NEW e \in sw.out, e.gen = g
          PROVE  Replaced(sw, b)
        BY <1>2 DEF CaughtUpWithin
      <4>1. g \in G
        BY <1>1, <2>1
      <4>2. PICK k \in sw.out : k.gen > g /\ k.key /\ newest[g] >= k.ts - Frame
        BY <1>5, <4>1 DEF Relieved, CaughtUpWith
      <4>3. newest[g] \in Int /\ k.ts \in Nat /\ k.ts - Frame \in Int
        BY <1>3, SwitchAssumption DEF Never, Switch, Block
      <4>4. ts > k.ts - Frame
        BY <1>1, <4>2, <4>3
      <4> QED
        BY <1>2, <4>2, <4>4 DEF Replaced
    <3>2. /\ Cov(sw', newest', seen \cup {b}) /\ Brings(sw, sw')
          /\ sw'.active # sw.active => CaughtUpWith(sw', sw.active, newest')
      BY <1>1, <1>2, <1>3, <1>4, <1>6, <1>7, <3>1, OnBlockCovers
    <3>3. seen' \subseteq seen \cup {b} /\ sw' \in Switch
      BY <1>1, <1>8 DEF Good, SInv, Core
    <3>4. \A h \in Gen : newest'[h] <= newest'[h]
      BY <1>4 DEF Never
    <3>5. Cov(sw', newest', seen')
      BY <1>4, <3>2, <3>3, <3>4, CovLater
    <3> QED
      BY <3>2, <3>5
  <2>2. CASE g \notin {sw.active, sw.pending} /\ g \in forced
    <3>1. sw' = sw /\ seen' = seen
      BY <1>1, <1>2, <2>2 DEF OnBlock
    <3> QED
      BY <1>6, <3>1 DEF Brings
  <2> QED
    BY <2>1, <2>2
<1>11. Relieved(sw', newest', G)
  <2> HIDE DEF G
  <2>1. \A h \in G : h \in {sw.active, sw.pending} =>
          h \in {sw'.active, sw'.pending} \/ CaughtUpWith(sw', h, newest')
    BY <1>3, <1>4, <1>5, <1>8, <1>10, RolesRelieve DEF Good
  <2> QED
    BY <1>3, <1>4, <1>5, <1>10, <2>1, StillRelieved
<1> QED
  BY <1>1, <1>9, <1>10, <1>11 DEF NInv

\* A step that moves neither stamps nor blocks, but may take g off the air.
LEMMA QuietLoss ==
  ASSUME IInv, NInv, UNCHANGED <<begun, newest, seen>>,
         Cov(sw', newest, seen), Brings(sw, sw'),
         gone \subseteq gone', forced \subseteq forced',
         \A g \in (1 .. begun) \ (gone' \cup forced') : g \in {sw.active, sw.pending} =>
           g \in {sw'.active, sw'.pending} \/ CaughtUpWith(sw', g, newest)
  PROVE  NInv'
<1> DEFINE G == (1 .. begun) \ (gone \cup forced)
           H == (1 .. begun) \ (gone' \cup forced')
<1>1. /\ begun \in 0 .. MaxGen /\ newest \in [Gen -> Nat \cup {Never}] /\ sw \in Switch
      /\ \A h \in Gen : newest[h] <= newest[h]
  BY DEF IInv, TypeOK, Never
<1>2. G \subseteq Gen /\ H \subseteq G /\ Relieved(sw, newest, G)
  BY <1>1, SwitchAssumption DEF NInv, Gen
<1>3. \A g \in H : g \in {sw.active, sw.pending} =>
        g \in {sw'.active, sw'.pending} \/ CaughtUpWith(sw', g, newest)
  OBVIOUS
<1> HIDE DEF G, H
<1>4. Relieved(sw', newest, H)
  BY <1>1, <1>2, <1>3, StillRelieved
<1> QED
  BY <1>4 DEF NInv, H

LEMMA ExitLoss ==
  ASSUME IInv, NInv, NEW g \in Gen, Exit(g)
  PROVE  NInv'
<1>1. /\ g \in 1 .. begun /\ gone' = gone \cup {g} /\ sw' = GenerationEnded(sw, g)
      /\ UNCHANGED <<now, begun, newest, forced, seen>>
  BY DEF Exit
<1>2. /\ sw \in Switch /\ begun \in Nat /\ now \in Nat
      /\ newest \in [Gen -> Nat \cup {Never}] /\ \A h \in Gen : newest[h] <= now
      /\ SInv(sw, now, newest, begun) /\ Cov(sw, newest, seen)
  BY DEF IInv, TypeOK, NInv
<1>3. g # NoGen
  BY DEF Gen, NoGen
<1>4. CASE g = sw.pending
  <2>1. sw' = AbortSwap(sw)
    BY <1>1, <1>4 DEF GenerationEnded
  <2>2. Cov(sw', newest, seen) /\ Brings(sw, sw') /\ sw'.active = sw.active
    BY <1>2, <1>3, <1>4, <2>1, AbortCovers
  <2> QED
    BY <1>1, <1>4, <2>2, QuietLoss
<1>5. CASE g # sw.pending /\ g = sw.active /\ sw.pending # NoGen /\ sw.staged # {}
  <2>1. sw' = Finish(sw)
    BY <1>1, <1>5 DEF GenerationEnded
  <2>2. Cov(sw', newest, seen) /\ Brings(sw, sw') /\ sw'.active = sw.pending
    BY <1>2, <1>5, <2>1, FinishCovers
  <2> QED
    BY <1>1, <1>5, <2>2, QuietLoss
<1>6. CASE g # sw.pending /\ g = sw.active /\ sw.pending = NoGen
  <2>1. sw' = [sw EXCEPT !.active = NoGen]
    BY <1>1, <1>6 DEF GenerationEnded
  <2>2. /\ sw'.active = NoGen /\ sw'.pending = NoGen /\ sw'.held = sw.held
        /\ sw'.lastTs = sw.lastTs /\ sw'.head = sw.head
        /\ sw'.out = sw.out /\ sw'.cut = sw.cut
    BY <1>2, <1>6, <2>1 DEF Switch
  <2>3. Shown(sw') /\ Headed(sw', newest) /\ HeldLate(sw') /\ Waits(sw', seen)
    BY <1>2, <2>2 DEF Cov, Shown, Headed, HeldLate, Waits
  <2>4. Cov(sw', newest, seen) /\ Brings(sw, sw')
    BY <1>2, <2>2, <2>3 DEF Cov, Covered, Replaced, Brings
  <2>5. \A h \in (1 .. begun) \ (gone' \cup forced') : h \notin {sw.active, sw.pending}
    BY <1>1, <1>6 DEF NoGen
  <2> QED
    BY <1>1, <2>4, <2>5, QuietLoss
<1>7. CASE /\ ~ (g = sw.pending)
           /\ ~ (g # sw.pending /\ g = sw.active /\ sw.pending # NoGen /\ sw.staged # {})
           /\ ~ (g # sw.pending /\ g = sw.active /\ sw.pending = NoGen)
  <2>1. sw' = sw
    BY <1>1, <1>7 DEF GenerationEnded
  <2>2. Cov(sw', newest, seen) /\ Brings(sw, sw')
    BY <1>2, <2>1 DEF Brings
  <2> QED
    BY <1>1, <2>1, <2>2, QuietLoss
<1> QED
  BY <1>4, <1>5, <1>6, <1>7

LEMMA TickLoss ==
  ASSUME IInv, NInv, Tick
  PROVE  NInv'
<1>1. /\ sw' = TickSwitch(sw, now) /\ UNCHANGED <<now, begun, newest, gone, seen>>
      /\ forced' = IF sw'.active # sw.active THEN forced \cup {sw.active} ELSE forced
  BY DEF Tick
<1>2. /\ sw \in Switch /\ begun \in Nat /\ now \in Nat
      /\ newest \in [Gen -> Nat \cup {Never}] /\ \A h \in Gen : newest[h] <= now
      /\ SInv(sw, now, newest, begun) /\ Cov(sw, newest, seen)
  BY DEF IInv, TypeOK, NInv
<1>3. /\ Good(sw, sw', now, newest, begun)
  BY <1>1, <1>2, TickInv
<1>4. Cov(sw', newest, seen) /\ Brings(sw, sw')
  <2>1. CASE sw.pending # NoGen /\ sw.staged # {} /\ sw' = Finish(sw)
    BY <1>2, <2>1, FinishCovers
  <2>2. CASE sw.pending # NoGen /\ sw' = AbortSwap(sw)
    BY <1>2, <2>2, AbortCovers
  <2>3. CASE sw' = sw
    BY <1>2, <2>3 DEF Brings
  <2> QED
    BY <1>1, <2>1, <2>2, <2>3 DEF TickSwitch
<1>5. \A g \in (1 .. begun) \ (gone' \cup forced') : g \in {sw.active, sw.pending} =>
        g \in {sw'.active, sw'.pending} \/ CaughtUpWith(sw', g, newest)
  <2> DEFINE H == (1 .. begun) \ (gone' \cup forced')
  <2>1. H \subseteq Gen /\ (sw'.active # sw.active => sw.active \notin H)
    BY <1>1, SwitchAssumption DEF IInv, TypeOK, Gen
  <2> HIDE DEF H
  <2>2. \A g \in H : g \in {sw.active, sw.pending} =>
          g \in {sw'.active, sw'.pending} \/ CaughtUpWith(sw', g, newest)
    BY <1>2, <1>3, <2>1, RolesRelieve DEF Good
  <2> QED
    BY <2>2 DEF H
<1> QED
  BY <1>1, <1>4, <1>5, QuietLoss

LEMMA NextLoss == IInv /\ NInv /\ [Next]_vars => NInv'
<1> SUFFICES ASSUME IInv, NInv, [Next]_vars PROVE NInv'
  OBVIOUS
<1>1. ASSUME NEW g \in Gen, NEW cut \in {0, now + Lead}, Begin(g, cut)
      PROVE  NInv'
  <2>1. cut \in Nat
    BY CutOverAssumption DEF IInv, TypeOK
  <2> QED
    BY <1>1, <2>1, BeginLoss
<1>2. ASSUME NEW g \in Gen, NEW ts \in 0 .. MaxNow, NEW key \in BOOLEAN, Deliver(g, ts, key)
      PROVE  NInv'
  BY <1>2, DeliverLoss
<1>3. ASSUME NEW g \in Gen, Exit(g)
      PROVE  NInv'
  BY <1>3, ExitLoss
<1>4. CASE Tick
  BY <1>4, TickLoss
<1>5. CASE Pass
  BY <1>5 DEF Pass, NInv
<1>6. CASE UNCHANGED vars
  BY <1>6 DEF vars, NInv
<1> QED
  BY <1>1, <1>2, <1>3, <1>4, <1>5, <1>6 DEF Next

LEMMA InitLoss == Init => NInv
<1> SUFFICES ASSUME Init PROVE NInv
  OBVIOUS
<1> USE DEF Init, NewSwitch
<1>1. Cov(sw, newest, seen)
  BY DEF Cov, Shown, Headed, HeldLate, Waits, NoGen
<1>2. Relieved(sw, newest, (1 .. begun) \ (gone \cup forced))
  BY DEF Relieved
<1> QED
  BY <1>1, <1>2 DEF NInv

(* Once a generation is on air every block it delivers goes out, waits in  *)
(* the hold or is replaced by a newer encoder's picture: on_block, hold,   *)
(* abort, finish, tick and generation_ended of relay.py's TrackSwitch drop *)
(* nothing else, for every number of generations, clock and limit.         *)
THEOREM NothingIsLost == Spec => []NothingLost
<1>1. IInv /\ NInv => NothingLost
  <2> SUFFICES ASSUME IInv, NInv, NEW b \in seen,
                      NEW e \in sw.out, e.gen = b.gen, e.ts <= b.ts
      PROVE  b \in sw.out \cup sw.held \/ Superseded(b)
    BY DEF NothingLost
  <2>1. Covered(sw, b)
    BY DEF NInv, Cov
  <2>2. e.ts \in Nat /\ b.ts \in Nat
    BY DEF IInv, TypeOK, Switch, Block
  <2> QED
    BY <2>1, <2>2 DEF Covered, Replaced, Superseded
<1> QED
  BY <1>1, InitInv, InitLoss, NextInv, NextLoss, PTL DEF Spec
=============================================================================
