------------------------------- MODULE CutOver -------------------------------
(***************************************************************************)
(* One live video track: encoder generations that come, deliver blocks and *)
(* die (threads of their own), the supervisor that ticks, and the          *)
(* TrackSwitch they all reach under the chain's lock.                      *)
(***************************************************************************)
EXTENDS TrackSwitch, FiniteSets

CONSTANTS
  Lead,        \* SWAP_LEAD_S: how far ahead a cut is planned
  MaxNow,      \* bound: the last instant of the stream's clock
  MaxBlocks    \* bound: blocks delivered in all

ASSUME CutOverAssumption ==
  Lead \in Nat /\ MaxNow \in Nat /\ MaxBlocks \in Nat

VARIABLES
  sw,       \* the TrackSwitch
  now,      \* the stream's clock
  begun,    \* generations started so far (their ids are 1 .. begun)
  newest,   \* newest[g]: timestamp generation g delivered last, or the
            \* instant before it was started
  gone,     \* generations whose process exited on its own
  forced,   \* history: generations the supervisor replaced unasked
  seen      \* history: every block delivered, but for those of a generation
            \* in forced after its replacement

vars == <<sw, now, begun, newest, gone, forced, seen>>

Init ==
  /\ sw = NewSwitch
  /\ now = 0
  /\ begun = 0
  /\ newest = [g \in Gen |-> Never]
  /\ gone = {}
  /\ seen = {}
  /\ forced = {}

\* service._spawn_video and chain.begin_swap, one critical section of the
\* service's lock.  What the encoder delivers in between reaches a switch that
\* does not know it and is dropped, so its first block here may be any frame.
\* The cut is planned ahead, or 0 for a restart.
Begin(g, cut) ==
  /\ g = begun + 1
  /\ sw.pending = NoGen
  /\ begun' = g
  /\ newest' = [newest EXCEPT ![g] = now - 1]
  /\ sw' = BeginSwap(sw, g, cut, now)
  /\ UNCHANGED <<now, gone, forced, seen>>

\* A reader thread hands one block over; a frame is stamped when captured.
Deliver(g, ts, key) ==
  LET b == [gen |-> g, ts |-> ts, key |-> key] IN
  /\ g \in 1 .. begun /\ g \notin gone
  /\ ts > newest[g] /\ ts <= now
  /\ newest' = [newest EXCEPT ![g] = ts]
  /\ sw' = OnBlock(sw, b, now)
  /\ seen' = IF g \in forced THEN seen ELSE seen \cup {b}
  /\ UNCHANGED <<now, begun, gone, forced>>

\* service._gen_exited: the process died on its own.
Exit(g) ==
  /\ g \in 1 .. begun /\ g \notin gone
  /\ gone' = gone \cup {g}
  /\ sw' = GenerationEnded(sw, g)
  /\ UNCHANGED <<now, begun, newest, forced, seen>>

\* chain.tick, from the supervisor.
Tick ==
  /\ sw' = TickSwitch(sw, now)
  /\ sw' # sw
  /\ forced' = IF sw'.active # sw.active THEN forced \cup {sw.active} ELSE forced
  /\ UNCHANGED <<now, begun, newest, gone, seen>>

Pass ==
  /\ now < MaxNow
  /\ now' = now + 1
  /\ UNCHANGED <<sw, begun, newest, gone, forced, seen>>

Next ==
  \/ \E g \in Gen, cut \in {0, now + Lead} :
       now + SwitchTimeout < MaxNow /\ Begin(g, cut)
  \/ \E g \in Gen, ts \in 0 .. MaxNow, key \in BOOLEAN :
       Cardinality(seen) < MaxBlocks /\ Deliver(g, ts, key)
  \/ \E g \in Gen : Exit(g)
  \/ Tick
  \/ Pass

Spec == Init /\ [][Next]_vars

\* The wall clock moves on and the supervisor's thread ticks every 250 ms.
FairSpec == Spec /\ WF_vars(Pass) /\ WF_vars(Tick)
-----------------------------------------------------------------------------
TypeOK ==
  /\ sw \in Switch
  /\ now \in Nat
  /\ begun \in 0 .. MaxGen
  /\ newest \in [Gen -> Nat \cup {Never}]
  /\ gone \subseteq 1 .. begun
  /\ forced \subseteq 1 .. begun
  /\ seen \subseteq Block

(* A viewer's decoder can start at every change of encoder: whatever the    *)
(* switch emits of a generation comes after a keyframe of that generation, *)
(* also when keyframes are late, an encoder dies in the middle of a swap    *)
(* or a swap is given up.                                                   *)
CutAtKeyframe ==
  \A b \in sw.out : \E k \in sw.out : k.gen = b.gen /\ k.key /\ k.ts <= b.ts

(* Time never runs backwards over a cut: all that is emitted of a later     *)
(* generation is stamped no earlier than all that was emitted before it.    *)
InOrder == \A b, c \in sw.out : b.gen < c.gen => b.ts <= c.ts

\* A keyframe of a newer encoder went out less than one frame after b or
\* before it: it shows b's picture or an older one.
Superseded(b) ==
  \E k \in sw.out : k.gen > b.gen /\ k.key /\ b.ts > k.ts - Frame

(* "puts them back and loses nothing but latency": once a generation is on  *)
(* air, every block it delivers goes out, waits in the hold, or is replaced *)
(* by a newer encoder's picture, whatever happens to the swap.              *)
NothingLost ==
  \A b \in seen :
    \/ ~ \E e \in sw.out : e.gen = b.gen /\ e.ts <= b.ts
    \/ b \in sw.out \cup sw.held
    \/ Superseded(b)

(* Every encoder the service started is in use, was handed back to be       *)
(* stopped or has exited; none in use is handed back.                       *)
NoOrphan ==
  /\ \A g \in 1 .. begun :
       g \in {sw.active, sw.pending} \cup sw.retired \cup gone
  /\ sw.retired \cap {sw.active, sw.pending} = {}

\* The switch seen without its blocks and timestamps.
Promise ==
  INSTANCE Handover WITH
    roles <- [active |-> sw.active, pending |-> sw.pending, retired |-> sw.retired],
    spent <- 1 .. begun

(* The switch implements Handover: whatever its encoders deliver, each step *)
(* begins, completes or gives up one swap, loses the generation on air, or  *)
(* changes nothing the service can see.                                     *)
KeepsPromise == Promise!Spec

(* A swap is always decided, whatever the two encoders do.                  *)
SwapDecided == sw.pending # NoGen ~> sw.pending = NoGen
=============================================================================
