------------------------------ MODULE Handover ------------------------------
(***************************************************************************)
(* What a TrackSwitch promises the service that uses it, without blocks    *)
(* and timestamps: one generation on air, at most one waiting to replace   *)
(* it, and every generation taken out of use handed back exactly once (the *)
(* on_retire callback).  CutOver implements this specification; Supervisor *)
(* is written against it.                                                  *)
(***************************************************************************)
EXTENDS Integers

CONSTANT MaxGen    \* generations the service may start

Gen == 1 .. MaxGen
NoGen == 0         \* None

Roles == [active : Gen \cup {NoGen}, pending : Gen \cup {NoGen}, retired : SUBSET Gen]

NoRoles == [active |-> NoGen, pending |-> NoGen, retired |-> {}]

\* Where begin_swap does not raise RuntimeError.
CanBegin(r) == r.active = NoGen \/ r.pending = NoGen

Begun(r, g) ==
  IF r.active = NoGen THEN [r EXCEPT !.active = g] ELSE [r EXCEPT !.pending = g]

\* The cut: the waiting generation takes over.
Completed(r) ==
  [active |-> r.pending, pending |-> NoGen, retired |-> r.retired \cup ({r.active} \ {NoGen})]

\* The swap is given up: the one on air stays.
GivenUp(r) ==
  [active |-> r.active, pending |-> NoGen, retired |-> r.retired \cup {r.pending}]

Lost(r) == [r EXCEPT !.active = NoGen]

\* What generation_ended may make of it.  An active generation that ends while
\* a swap is pending is replaced at once when the successor has shown its
\* keyframe, and keeps its role until then.
Ended(r, g) ==
  CASE g = r.pending -> {GivenUp(r)}
    [] g # r.pending /\ g = r.active /\ r.pending = NoGen -> {Lost(r)}
    [] g # r.pending /\ g = r.active /\ r.pending # NoGen -> {Completed(r), r}
    [] OTHER -> {r}
-----------------------------------------------------------------------------
VARIABLES
  roles,    \* who is on air, who waits, who was handed back
  spent     \* every generation ever begun

vars == <<roles, spent>>

Init == roles = NoRoles /\ spent = {}

Begin(g) ==
  /\ g \notin spent /\ CanBegin(roles)
  /\ roles' = Begun(roles, g)
  /\ spent' = spent \cup {g}

Complete ==
  /\ roles.pending # NoGen
  /\ roles' = Completed(roles)
  /\ UNCHANGED spent

GiveUp ==
  /\ roles.pending # NoGen
  /\ roles' = GivenUp(roles)
  /\ UNCHANGED spent

Lose ==
  /\ roles.active # NoGen /\ roles.pending = NoGen
  /\ roles' = Lost(roles)
  /\ UNCHANGED spent

Next == (\E g \in Gen : Begin(g)) \/ Complete \/ GiveUp \/ Lose

Spec == Init /\ [][Next]_vars
=============================================================================
