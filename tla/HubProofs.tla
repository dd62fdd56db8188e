------------------------------ MODULE HubProofs ------------------------------
(***************************************************************************)
(* Proofs about Hub, for any windows, any queue and any number of presses, *)
(* changes and breaks.  The inductive invariant says of a number and a     *)
(* version that every snapshot from that number on, wherever it is on its  *)
(* way, holds that version; a press that was marked has such a pair.  An   *)
(* ack brings no picture, so it also says that each ack finds the window   *)
(* with the picture it confirms, unless a full queue dropped one.          *)
(***************************************************************************)
EXTENDS Hub, TLAPS

Frame ==
    [kind : {"state"}, val : Value, ver : Nat, seq : Nat]
        \cup [kind : {"ack"}, val : Value, ver : Nat, seq : Nat]
        \cup {Noise}

HubOK ==
    /\ rig \in Picture /\ seq \in Nat /\ ackWanted \in BOOLEAN
    /\ latest \in Snapshot \cup {None}
    /\ build \in [Builder -> Build \cup {None}]

LinkOK ==
    /\ link \in [Window -> {"off", "get", "got", "first", "built", "online"}]
    /\ queue \in [Window -> Seq(Frame)]
    /\ lost \in [Window -> BOOLEAN] /\ missed \in [Window -> BOOLEAN]
    /\ \A w \in Window : Len(queue[w]) <= QueueSize

StoreOK ==
    /\ server \in [Window -> Picture \cup {None}] /\ serverSeq \in [Window -> Nat]
    /\ hold \in [Window -> Hold \cup {None}] /\ lane \in [Window -> Seq(Post)]
    /\ behind \in [Window -> BOOLEAN] /\ promise \in [Window -> Nat]
    /\ events \in Nat /\ breaks \in Nat

TypeOK == HubOK /\ LinkOK /\ StoreOK

\* A window has a picture before it presses, waits for an answer or is online.
Pictured ==
    \A w \in Window :
        link[w] \in {"got", "first", "built", "online"} \/ lane[w] # << >> \/ promise[w] > 0
            => server[w] # None

\* A window's connection waits for the snapshot it is building.
Building ==
    \A w \in Window : build[w] # None =>
        link[w] = (IF build[w].kind = "get" THEN "get" ELSE "first")

\* No snapshot is numbered past the count of snapshots begun.
Numbered ==
    /\ \A b \in Builder : build[b] # None => build[b].seq <= seq
    /\ latest # None => latest.seq <= seq
    /\ \A w \in Window : \A i \in DOMAIN queue[w] :
         queue[w][i].kind # "other" => queue[w][i].seq <= seq
    /\ \A w \in Window : serverSeq[w] <= seq

\* Every snapshot from number n on holds version v or a later one: those being
\* built, the newest one, the frames on their way and what the windows show.
Newer(n, v) ==
    /\ v <= rig.ver
    /\ \A b \in Builder :
         build[b] # None /\ build[b].seen # None /\ n <= build[b].seq => v <= build[b].seen.ver
    /\ latest # None /\ n <= latest.seq => v <= latest.ver
    /\ \A w \in Window : \A i \in DOMAIN queue[w] :
         queue[w][i].kind # "other" /\ n <= queue[w][i].seq => v <= queue[w][i].ver
    /\ \A w \in Window :
         server[w] # None /\ ~behind[w] /\ ~missed[w] /\ n <= serverSeq[w] => v <= server[w].ver

\* Before frame i of q is taken, a window that showed s shows v.
Before(q, s, i, v) ==
    \/ \E j \in 1 .. i - 1 :
         /\ q[j].kind = "state" /\ q[j].val = v
         /\ \A k \in 1 .. i - 1 : k > j => q[k].kind # "state"
    \/ s = v /\ \A k \in 1 .. i - 1 : q[k].kind # "state"

\* Each ack confirms what the window shows when it takes it,
TellShown(q, s) == \A i \in DOMAIN q : q[i].kind = "ack" => Before(q, s, i, q[i].val)

\* and one with no snapshot behind it confirms the newest.
TellNewest(q, v) ==
    \A i \in DOMAIN q :
        q[i].kind = "ack" /\ (\A j \in DOMAIN q : j > i => q[j].kind # "state") => q[i].val = v

Told ==
    \A w \in Joined :
        /\ lost[w] => missed[w]
        /\ ~missed[w] => TellShown(queue[w], server[w].val)
        /\ ~lost[w] => TellNewest(queue[w], latest.val)

\* A press that acted made a version the rig has; once it is marked, every
\* snapshot from its number on holds it.
Posted ==
    \A w \in Window : \A i \in DOMAIN lane[w] :
        /\ lane[w][i].at = "acted" => lane[w][i].ver <= rig.ver
        /\ lane[w][i].at = "marked" => Newer(lane[w][i].seq, lane[w][i].ver)

\* So does every snapshot from the number on at which the hold of an answered
\* press may end, and from the number of the window's own picture once it has.
Promised ==
    \A w \in Window : promise[w] > 0 =>
        /\ hold[w] # None => hold[w].settled /\ Newer(hold[w].seq, promise[w])
        /\ hold[w] = None => Newer(serverSeq[w], promise[w])

IInv ==
    /\ TypeOK /\ Pictured /\ Building /\ Numbered /\ Posted /\ Promised /\ NewestOnItsWay /\ Told
-----------------------------------------------------------------------------
(* The operators of the model.                                             *)

LEMMA MaxOfTwo ==
  ASSUME NEW a \in Nat, NEW b \in Nat
  PROVE  Max({a, b}) \in Nat /\ a <= Max({a, b}) /\ b <= Max({a, b}) /\ Max({a, b}) \in {a, b}
<1>1. \E x \in {a, b} : \A y \in {a, b} : x >= y
  <2>1. CASE a >= b
    BY <2>1
  <2>2. CASE b >= a
    BY <2>2
  <2> QED
    BY <2>1, <2>2
<1> QED
  BY <1>1 DEF Max

\* What an offer leaves: at most the oldest frame goes, at most one comes.
LEMMA OfferFacts ==
  ASSUME NEW q \in Seq(Frame), Len(q) <= QueueSize, NEW f \in Frame, NEW raced \in BOOLEAN
  PROVE  LET r == Offer(q, f, raced) IN
         /\ r \in Seq(Frame) /\ Len(r) <= QueueSize /\ Len(r) >= 1
         /\ ~ Full(q) => \A i \in 1 .. Len(q) : r[i] = q[i]
         /\ Full(q) => \A i \in 1 .. Len(q) - 1 : r[i] = q[i + 1]
         /\ Len(r) = (IF Full(q) THEN Len(q) ELSE Len(q) + 1)
         /\ r[Len(r)] = (IF Full(q) /\ raced THEN Noise ELSE f)
<1> USE HubAssumption
<1>1. CASE ~ Full(q)
  BY <1>1 DEF Offer, Full
<1>2. CASE Full(q)
  <2>1. q # << >> /\ Len(q) >= 1
    BY <1>2 DEF Full
  <2>2. /\ Tail(q) \in Seq(Frame) /\ Len(Tail(q)) = Len(q) - 1
        /\ \A i \in 1 .. Len(q) - 1 : Tail(q)[i] = q[i + 1]
    BY <2>1
  <2>3. (IF raced THEN Noise ELSE f) \in Frame
    BY DEF Frame
  <2>4. Offer(q, f, raced) = Append(Tail(q), IF raced THEN Noise ELSE f)
    BY <1>2 DEF Offer
  <2> DEFINE last == IF raced THEN Noise ELSE f
             r == Append(Tail(q), last)
  <2>5. /\ r \in Seq(Frame) /\ Len(r) = Len(q) /\ r[Len(r)] = last
        /\ \A i \in 1 .. Len(q) - 1 : r[i] = q[i + 1]
    <3> HIDE DEF last
    <3> QED
      BY <2>1, <2>2, <2>3 DEF last
  <2> QED
    BY <1>2, <2>1, <2>4, <2>5
<1> QED
  BY <1>1, <1>2

\* So every frame of it was there, is the one offered or says nothing.
LEMMA OfferFrames ==
  ASSUME NEW q \in Seq(Frame), Len(q) <= QueueSize, NEW f \in Frame, NEW raced \in BOOLEAN
  PROVE  LET r == Offer(q, f, raced) IN
         \A i \in DOMAIN r :
           r[i].kind # "other" => r[i] = f \/ \E j \in DOMAIN q : r[i] = q[j]
<1> DEFINE r == Offer(q, f, raced)
<1>0. /\ r \in Seq(Frame) /\ Len(r) >= 1
      /\ Len(r) = (IF Full(q) THEN Len(q) ELSE Len(q) + 1)
      /\ r[Len(r)] = (IF Full(q) /\ raced THEN Noise ELSE f)
      /\ ~ Full(q) => \A i \in 1 .. Len(q) : r[i] = q[i]
      /\ Full(q) => \A i \in 1 .. Len(q) - 1 : r[i] = q[i + 1]
  BY OfferFacts
<1> HIDE DEF r
<1> SUFFICES ASSUME NEW i \in 1 .. Len(r), r[i].kind # "other"
             PROVE  r[i] = f \/ \E j \in 1 .. Len(q) : r[i] = q[j]
  BY <1>0 DEF r
<1>1. CASE i = Len(r)
  BY <1>0, <1>1 DEF Noise
<1>2. CASE i \in 1 .. Len(r) - 1
  <2>1. CASE ~ Full(q)
    BY <1>0, <1>2, <2>1
  <2>2. CASE Full(q)
    <3>1. r[i] = q[i + 1] /\ i + 1 \in 1 .. Len(q)
      BY <1>0, <1>2, <2>2
    <3> QED
      BY <3>1
  <2> QED
    BY <2>1, <2>2
<1> QED
  BY <1>0, <1>1, <1>2

\* The newest state frame is the one offered, unless it was given up, or the
\* one before, unless it was the oldest frame and made room.
LEMMA OfferCarries ==
  ASSUME NEW q \in Seq(Frame), Len(q) <= QueueSize, NEW f \in Frame, NEW raced \in BOOLEAN, NEW v
  PROVE  LET r == Offer(q, f, raced) IN
         /\ f.kind = "state" /\ ~ (Full(q) /\ raced) => Carries(r, f.val)
         /\ f.kind # "state" /\ ~ HasState(q) => ~ HasState(r)
         /\ f.kind # "state" /\ Carries(q, v) /\ HasState(r) => Carries(r, v)
<1> DEFINE r == Offer(q, f, raced)
<1>a. /\ r \in Seq(Frame) /\ Len(r) >= 1
      /\ Len(r) = (IF Full(q) THEN Len(q) ELSE Len(q) + 1)
      /\ r[Len(r)] = (IF Full(q) /\ raced THEN Noise ELSE f)
      /\ ~ Full(q) => \A i \in 1 .. Len(q) : r[i] = q[i]
      /\ Full(q) => \A i \in 1 .. Len(q) - 1 : r[i] = q[i + 1]
  BY OfferFacts
<1> HIDE DEF r
<1>b. /\ DOMAIN r = 1 .. Len(r) /\ DOMAIN q = 1 .. Len(q)
      /\ Len(r) \in Nat /\ Len(q) \in Nat
  BY <1>a
<1> USE HubAssumption DEF Full
<1>1. ASSUME f.kind = "state", ~ (Full(q) /\ raced)
      PROVE  Carries(r, f.val)
  <2>1. r[Len(r)] = f /\ Len(r) \in DOMAIN r
    BY <1>a, <1>b, <1>1
  <2> QED
    BY <1>a, <1>b, <1>1, <2>1 DEF Carries
<1>2. ASSUME f.kind # "state"
      PROVE  r[Len(r)].kind # "state"
  BY <1>a, <1>b, <1>2 DEF Noise
<1>3. ASSUME f.kind # "state", ~ HasState(q)
      PROVE  ~ HasState(r)
  <2>1. \A i \in 1 .. Len(q) : q[i].kind # "state"
    BY <1>b, <1>3 DEF HasState
  <2>2. \A i \in 1 .. Len(r) - 1 : r[i].kind # "state"
    <3>1. CASE Full(q)
      BY <1>a, <1>b, <2>1, <3>1
    <3>2. CASE ~ Full(q)
      BY <1>a, <1>b, <2>1, <3>2
    <3> QED
      BY <3>1, <3>2
  <2> QED
    BY <1>a, <1>b, <1>2, <1>3, <2>2 DEF HasState
<1>4. ASSUME f.kind # "state", Carries(q, v), HasState(r)
      PROVE  Carries(r, v)
  <2>1. PICK i \in 1 .. Len(q) :
          /\ q[i].kind = "state" /\ q[i].val = v
          /\ \A j \in 1 .. Len(q) : j > i => q[j].kind # "state"
    BY <1>a, <1>b, <1>4 DEF Carries
  <2>2. PICK k \in 1 .. Len(r) - 1 : r[k].kind = "state"
    BY <1>a, <1>b, <1>2, <1>4 DEF HasState
  <2>3. CASE ~ Full(q)
    <3>1. /\ i \in 1 .. Len(r) - 1 /\ Len(r) - 1 = Len(q)
          /\ \A j \in 1 .. Len(r) - 1 : r[j] = q[j]
      BY <1>a, <1>b, <2>3
    <3>2. \A j \in 1 .. Len(r) : j > i => r[j].kind # "state"
      BY <1>a, <1>b, <1>2, <1>4, <2>1, <3>1
    <3> QED
      BY <1>a, <1>b, <2>1, <3>1, <3>2 DEF Carries
  <2>4. CASE Full(q)
    <3>1. Len(r) = Len(q) /\ \A j \in 1 .. Len(r) - 1 : r[j] = q[j + 1]
      BY <1>a, <1>b, <2>4
    <3>2. k + 1 \in 1 .. Len(q) /\ q[k + 1].kind = "state"
      BY <1>a, <1>b, <2>2, <3>1
    <3>3. i - 1 \in 1 .. Len(r) - 1
      BY <1>a, <1>b, <2>1, <3>1, <3>2
    <3>4. \A j \in 1 .. Len(r) : j > i - 1 => r[j].kind # "state"
      BY <1>a, <1>b, <1>2, <1>4, <2>1, <3>1, <3>3
    <3>5. r[i - 1] = q[i]
      BY <1>a, <1>b, <3>1, <3>3
    <3> QED
      BY <1>a, <1>b, <2>1, <3>3, <3>4, <3>5 DEF Carries
  <2> QED
    BY <2>3, <2>4
<1> QED
  BY <1>1, <1>3, <1>4 DEF r

\* Taking the oldest frame.
LEMMA TailCarries ==
  ASSUME NEW q \in Seq(Frame), q # << >>, NEW v
  PROVE  /\ Tail(q) \in Seq(Frame) /\ Len(Tail(q)) < Len(q) /\ Head(q) \in Frame
         /\ \A i \in DOMAIN Tail(q) : \E j \in DOMAIN q : Tail(q)[i] = q[j]
         /\ Head(q) = q[1] /\ 1 \in DOMAIN q
         /\ ~ HasState(q) => Head(q).kind # "state" /\ ~ HasState(Tail(q))
         /\ Carries(q, v) => \/ Carries(Tail(q), v)
                             \/ ~ HasState(Tail(q)) /\ Head(q).kind = "state" /\ Head(q).val = v
<1>1. /\ Len(q) >= 1 /\ Head(q) = q[1] /\ Tail(q) \in Seq(Frame) /\ Len(Tail(q)) = Len(q) - 1
      /\ DOMAIN q = 1 .. Len(q) /\ DOMAIN Tail(q) = 1 .. Len(q) - 1 /\ Len(q) \in Nat
      /\ \A i \in 1 .. Len(q) - 1 : Tail(q)[i] = q[i + 1]
  OBVIOUS
<1>2. ~ HasState(q) => Head(q).kind # "state" /\ ~ HasState(Tail(q))
  BY <1>1 DEF HasState
<1>3. ASSUME Carries(q, v)
      PROVE  \/ Carries(Tail(q), v)
             \/ ~ HasState(Tail(q)) /\ Head(q).kind = "state" /\ Head(q).val = v
  <2>1. PICK i \in 1 .. Len(q) :
          /\ q[i].kind = "state" /\ q[i].val = v
          /\ \A j \in 1 .. Len(q) : j > i => q[j].kind # "state"
    BY <1>1, <1>3 DEF Carries
  <2>2. CASE i = 1
    <3>1. \A j \in 1 .. Len(q) - 1 : Tail(q)[j].kind # "state"
      BY <1>1, <2>1, <2>2
    <3> QED
      BY <1>1, <2>1, <2>2, <3>1 DEF HasState
  <2>3. CASE i > 1
    <3>1. i - 1 \in 1 .. Len(q) - 1 /\ Tail(q)[i - 1] = q[i]
      BY <1>1, <2>3
    <3>2. \A j \in 1 .. Len(q) - 1 : j > i - 1 => Tail(q)[j].kind # "state"
      BY <1>1, <2>1
    <3> QED
      BY <1>1, <2>1, <3>1, <3>2 DEF Carries
  <2> QED
    BY <2>2, <2>3
<1>4. \A i \in DOMAIN Tail(q) : \E j \in DOMAIN q : Tail(q)[i] = q[j]
  BY <1>1
<1>5. Head(q) \in Frame
  BY <1>1
<1> QED
  BY <1>1, <1>2, <1>3, <1>4, <1>5

\* What one offer to every window that is online leaves.
LEMMA OfferAllFacts ==
  ASSUME LinkOK, NEW f \in Frame, NEW raced \in SUBSET Window, OfferAll(f, raced)
  PROVE  /\ queue' \in [Window -> Seq(Frame)] /\ lost' \in [Window -> BOOLEAN]
         /\ missed' \in [Window -> BOOLEAN] /\ (\A u \in Window : missed[u] => missed'[u])
         /\ \A w \in Window : Len(queue'[w]) <= QueueSize
         /\ \A w \in Window : \A i \in DOMAIN queue'[w] :
              queue'[w][i].kind # "other" =>
                queue'[w][i] = f \/ \E j \in DOMAIN queue[w] : queue'[w][i] = queue[w][j]
         /\ \A w \in Joined : ~ lost'[w] =>
              /\ f.kind = "state" => Carries(queue'[w], f.val)
              /\ f.kind # "state" =>
                   /\ ~ lost[w]
                   /\ ~ HasState(queue[w]) => ~ HasState(queue'[w])
                   /\ \A v : Carries(queue[w], v) => Carries(queue'[w], v)
<1>1. /\ queue \in [Window -> Seq(Frame)] /\ lost \in [Window -> BOOLEAN]
      /\ missed \in [Window -> BOOLEAN] /\ \A w \in Window : Len(queue[w]) <= QueueSize
  BY DEF LinkOK
<1>2. /\ queue' = [w \in Window |->
                     IF w \in Joined THEN Offer(queue[w], f, w \in raced) ELSE queue[w]]
      /\ lost' = [w \in Window |->
                    IF w \in Joined THEN LostBy(w, f, w \in raced) ELSE lost[w]]
      /\ missed' = [w \in Window |->
                      missed[w] \/ (w \in Joined /\ MissedBy(w, f, w \in raced))]
  BY DEF OfferAll
<1>3. ASSUME NEW w \in Window
      PROVE  /\ queue'[w] \in Seq(Frame) /\ Len(queue'[w]) <= QueueSize
             /\ \A i \in DOMAIN queue'[w] :
                  queue'[w][i].kind # "other" =>
                    queue'[w][i] = f \/ \E j \in DOMAIN queue[w] : queue'[w][i] = queue[w][j]
  <2>1. CASE w \notin Joined
    BY <1>1, <1>2, <2>1
  <2>2. CASE w \in Joined
    <3>1. PICK x \in BOOLEAN : queue'[w] = Offer(queue[w], f, x)
      <4>1. queue'[w] = Offer(queue[w], f, w \in raced)
        BY <1>2, <2>2
      <4>2. (w \in raced) \in BOOLEAN
        OBVIOUS
      <4> QED
        BY <4>1, <4>2, Zenon
    <3>2. queue[w] \in Seq(Frame) /\ Len(queue[w]) <= QueueSize
      BY <1>1
    <3>3. queue'[w] \in Seq(Frame) /\ Len(queue'[w]) <= QueueSize
      BY <3>1, <3>2, OfferFacts
    <3>4. \A i \in DOMAIN queue'[w] :
            queue'[w][i].kind # "other" =>
              queue'[w][i] = f \/ \E j \in DOMAIN queue[w] : queue'[w][i] = queue[w][j]
      BY <3>1, <3>2, OfferFrames
    <3> QED
      BY <3>3, <3>4
  <2> QED
    BY <2>1, <2>2
<1>4. ASSUME NEW w \in Window
      PROVE  lost'[w] \in BOOLEAN
  BY <1>1, <1>2 DEF LostBy
<1>5. ASSUME NEW w \in Joined, ~ lost'[w]
      PROVE  /\ f.kind = "state" => Carries(queue'[w], f.val)
             /\ f.kind # "state" =>
                  /\ ~ lost[w]
                  /\ ~ HasState(queue[w]) => ~ HasState(queue'[w])
                  /\ \A v : Carries(queue[w], v) => Carries(queue'[w], v)
  <2>1. /\ w \in Window /\ (w \in raced) \in BOOLEAN
        /\ queue'[w] = Offer(queue[w], f, w \in raced) /\ lost'[w] = LostBy(w, f, w \in raced)
    BY <1>2 DEF Joined
  <2>2. queue[w] \in Seq(Frame) /\ Len(queue[w]) <= QueueSize
    BY <1>1, <2>1
  <2>3. ASSUME f.kind = "state"
        PROVE  Carries(queue'[w], f.val)
    <3>1. ~ (Full(queue[w]) /\ w \in raced)
      BY <1>5, <2>1, <2>3 DEF LostBy
    <3> QED
      BY <2>1, <2>2, <2>3, <3>1, OfferCarries
  <2>4. ASSUME f.kind # "state"
        PROVE  ~ lost[w] /\ (HasState(queue[w]) => HasState(queue'[w]))
    BY <1>5, <2>1, <2>4 DEF LostBy
  <2>5. ASSUME f.kind # "state", ~ HasState(queue[w])
        PROVE  ~ HasState(queue'[w])
    BY <2>1, <2>2, <2>5, OfferCarries
  <2>6. ASSUME f.kind # "state", NEW v, Carries(queue[w], v)
        PROVE  Carries(queue'[w], v)
    <3>1. HasState(queue[w])
      BY <2>6 DEF Carries, HasState
    <3> QED
      BY <2>1, <2>2, <2>4, <2>6, <3>1, OfferCarries
  <2> QED
    BY <2>3, <2>4, <2>5, <2>6
<1>6. queue' \in [Window -> Seq(Frame)] /\ lost' \in [Window -> BOOLEAN]
  BY <1>2, <1>3, <1>4
<1>7. missed' \in [Window -> BOOLEAN] /\ (\A u \in Window : missed[u] => missed'[u])
  <2>1. ASSUME NEW w \in Window
        PROVE  /\ (missed[w] \/ (w \in Joined /\ MissedBy(w, f, w \in raced))) \in BOOLEAN
               /\ missed[w] => missed'[w]
    BY <1>2
  <2> QED
    BY <1>2, <2>1
<1> QED
  BY <1>3, <1>5, <1>6, <1>7

\* Where a frame's place in the queue is all that matters.
LEMMA BeforeTail ==
  ASSUME NEW q \in Seq(Frame), q # << >>, NEW s, NEW v, NEW i \in 1 .. Len(q), Before(q, s, i + 1, v)
  PROVE  Before(Tail(q), IF q[1].kind = "state" THEN q[1].val ELSE s, i, v)
<1> DEFINE t == Tail(q)
           s1 == IF q[1].kind = "state" THEN q[1].val ELSE s
<1>1. Len(q) \in Nat /\ \A j \in 1 .. i - 1 : t[j] = q[j + 1]
  OBVIOUS
<1> HIDE DEF t
<1>2. CASE s = v /\ \A k \in 1 .. i : q[k].kind # "state"
  <2>1. \A k \in 1 .. i - 1 : t[k].kind # "state"
    BY <1>1, <1>2
  <2> QED
    BY <1>1, <1>2, <2>1 DEF Before, t
<1>3. CASE \E j \in 1 .. i : /\ q[j].kind = "state" /\ q[j].val = v
                             /\ \A k \in 1 .. i : k > j => q[k].kind # "state"
  <2>1. PICK j \in 1 .. i : /\ q[j].kind = "state" /\ q[j].val = v
                            /\ \A k \in 1 .. i : k > j => q[k].kind # "state"
    BY <1>3
  <2>2. \A k \in 1 .. i - 1 : k > j - 1 => t[k].kind # "state"
    BY <1>1, <2>1
  <2>3. CASE j = 1
    <3>1. s1 = v /\ \A k \in 1 .. i - 1 : t[k].kind # "state"
      BY <2>1, <2>2, <2>3
    <3> QED
      BY <3>1 DEF Before, t
  <2>4. CASE j > 1
    <3>1. j - 1 \in 1 .. i - 1 /\ t[j - 1].kind = "state" /\ t[j - 1].val = v
      BY <1>1, <2>1, <2>4
    <3> QED
      BY <2>2, <3>1 DEF Before, t
  <2> QED
    BY <2>3, <2>4
<1>4. i + 1 - 1 = i
  OBVIOUS
<1> QED
  BY <1>2, <1>3, <1>4 DEF Before

LEMMA TailTells ==
  ASSUME NEW q \in Seq(Frame), q # << >>, NEW s, NEW v
  PROVE  /\ TellShown(q, s) => TellShown(Tail(q), IF q[1].kind = "state" THEN q[1].val ELSE s)
         /\ TellNewest(q, v) => TellNewest(Tail(q), v)
         /\ TellNewest(q, v) /\ ~ HasState(Tail(q)) => TellShown(Tail(q), v)
<1> DEFINE t == Tail(q)
<1>1. /\ Len(q) \in Nat /\ DOMAIN q = 1 .. Len(q) /\ DOMAIN t = 1 .. Len(q) - 1
      /\ \A j \in 1 .. Len(q) - 1 : t[j] = q[j + 1]
  OBVIOUS
<1>2. ASSUME TellShown(q, s), NEW i \in DOMAIN t, t[i].kind = "ack"
      PROVE  Before(t, IF q[1].kind = "state" THEN q[1].val ELSE s, i, t[i].val)
  <2> HIDE DEF t
  <2>1. i + 1 \in 1 .. Len(q) /\ i \in 1 .. Len(q) /\ t[i] = q[i + 1]
    BY <1>1
  <2>2. Before(q, s, i + 1, t[i].val)
    BY <1>1, <1>2, <2>1 DEF TellShown
  <2> QED
    BY <2>1, <2>2, BeforeTail DEF t
<1> HIDE DEF t
<1>3. ASSUME TellNewest(q, v), NEW i \in DOMAIN t, t[i].kind = "ack",
             \A j \in DOMAIN t : j > i => t[j].kind # "state"
      PROVE  t[i].val = v
  <2>1. i + 1 \in DOMAIN q /\ t[i] = q[i + 1]
    BY <1>1
  <2>2. \A j \in DOMAIN q : j > i + 1 => q[j].kind # "state"
    <3> SUFFICES ASSUME NEW j \in DOMAIN q, j > i + 1 PROVE q[j].kind # "state"
      OBVIOUS
    <3>1. j - 1 \in DOMAIN t /\ j - 1 > i /\ t[j - 1] = q[j]
      BY <1>1
    <3> QED
      BY <1>3, <3>1
  <2> QED
    BY <1>3, <2>1, <2>2 DEF TellNewest
<1>4. ASSUME TellNewest(q, v), ~ HasState(t), NEW i \in DOMAIN t, t[i].kind = "ack"
      PROVE  Before(t, v, i, t[i].val)
  <2>1. \A j \in DOMAIN t : t[j].kind # "state"
    BY <1>4 DEF HasState
  <2>2. t[i].val = v
    BY <1>3, <1>4, <2>1
  <2>3. \A j \in 1 .. i - 1 : t[j].kind # "state"
    BY <1>1, <2>1
  <2> QED
    BY <2>2, <2>3 DEF Before
<1>5. TellShown(q, s) => TellShown(t, IF q[1].kind = "state" THEN q[1].val ELSE s)
  BY <1>2 DEF TellShown
<1>6. TellNewest(q, v) => TellNewest(t, v)
  BY <1>3 DEF TellNewest
<1>7. TellNewest(q, v) /\ ~ HasState(t) => TellShown(t, v)
  BY <1>4 DEF TellShown
<1> QED
  BY <1>5, <1>6, <1>7 DEF t

LEMMA AppendTells ==
  ASSUME NEW q \in Seq(Frame), NEW f \in Frame, NEW s, NEW v
  PROVE  /\ TellShown(q, s) /\ (f.kind = "ack" => Before(q, s, Len(q) + 1, f.val))
              => TellShown(Append(q, f), s)
         /\ TellNewest(q, v) /\ (f.kind = "ack" => f.val = v) => TellNewest(Append(q, f), v)
         /\ f.kind = "state" => TellNewest(Append(q, f), v)
<1> DEFINE r == Append(q, f)
<1>1. /\ Len(q) \in Nat /\ DOMAIN q = 1 .. Len(q) /\ DOMAIN r = 1 .. Len(q) + 1
      /\ r[Len(q) + 1] = f /\ \A j \in 1 .. Len(q) : r[j] = q[j]
  OBVIOUS
<1> HIDE DEF r
<1>2. ASSUME NEW i \in 1 .. Len(q) + 1, NEW x, Before(q, s, i, x)
      PROVE  Before(r, s, i, x)
  <2>1. \A j \in 1 .. i - 1 : r[j] = q[j]
    BY <1>1
  <2> QED
    BY <1>2, <2>1 DEF Before
<1>3. ASSUME TellShown(q, s), f.kind = "ack" => Before(q, s, Len(q) + 1, f.val),
             NEW i \in DOMAIN r, r[i].kind = "ack"
      PROVE  Before(r, s, i, r[i].val)
  <2>1. CASE i = Len(q) + 1
    BY <1>1, <1>2, <1>3, <2>1
  <2>2. CASE i \in 1 .. Len(q)
    BY <1>1, <1>2, <1>3, <2>2 DEF TellShown
  <2> QED
    BY <1>1, <2>1, <2>2
<1>4. ASSUME f.kind = "state" \/ (TellNewest(q, v) /\ (f.kind = "ack" => f.val = v)),
             NEW i \in DOMAIN r, r[i].kind = "ack",
             \A j \in DOMAIN r : j > i => r[j].kind # "state"
      PROVE  r[i].val = v
  <2>1. CASE i = Len(q) + 1
    BY <1>1, <1>4, <2>1
  <2>2. CASE i \in 1 .. Len(q)
    <3>1. f.kind # "state"
      BY <1>1, <1>4, <2>2
    <3>2. \A j \in DOMAIN q : j > i => q[j].kind # "state"
      BY <1>1, <1>4
    <3> QED
      BY <1>1, <1>4, <2>2, <3>1, <3>2 DEF TellNewest
  <2> QED
    BY <1>1, <2>1, <2>2
<1>5. TellShown(q, s) /\ (f.kind = "ack" => Before(q, s, Len(q) + 1, f.val)) => TellShown(r, s)
  BY <1>3 DEF TellShown
<1>6. f.kind = "state" \/ (TellNewest(q, v) /\ (f.kind = "ack" => f.val = v)) => TellNewest(r, v)
  BY <1>4 DEF TellNewest
<1> QED
  BY <1>5, <1>6 DEF r

\* An offer that drops no state frame keeps what the acks confirm.
LEMMA OfferTells ==
  ASSUME NEW q \in Seq(Frame), Len(q) <= QueueSize, NEW f \in Frame, NEW raced \in BOOLEAN, NEW s, NEW v
  PROVE  LET r == Offer(q, f, raced) IN
         /\ TellShown(q, s) /\ ~ (Full(q) /\ (Head(q).kind = "state" \/ (raced /\ f.kind = "state")))
              /\ (f.kind = "ack" => Before(q, s, Len(q) + 1, f.val)) => TellShown(r, s)
         /\ TellNewest(q, v) /\ (f.kind = "ack" => f.val = v) => TellNewest(r, v)
         /\ f.kind = "state" /\ ~ (Full(q) /\ raced) => TellNewest(r, v)
         /\ HasState(q) /\ ~ HasState(r) => Full(q) /\ Head(q).kind = "state"
<1> DEFINE r == Offer(q, f, raced)
           g == IF raced THEN Noise ELSE f
<1>1. CASE ~ Full(q)
  <2>1. r = Append(q, f)
    BY <1>1 DEF Offer
  <2>2. HasState(q) => HasState(Append(q, f))
    BY DEF HasState
  <2> QED
    BY <1>1, <2>1, <2>2, AppendTells
<1>2. CASE Full(q)
  <2>1. q # << >> /\ Len(q) \in Nat /\ Len(q) >= 1
    BY <1>2, HubAssumption DEF Full
  <2>2. /\ Tail(q) \in Seq(Frame) /\ Len(Tail(q)) + 1 = Len(q) /\ Head(q) = q[1]
        /\ DOMAIN q = 1 .. Len(q) /\ DOMAIN Tail(q) = 1 .. Len(q) - 1
        /\ \A j \in 1 .. Len(q) - 1 : Tail(q)[j] = q[j + 1]
    BY <2>1
  <2>3. r = Append(Tail(q), g)
    BY <1>2 DEF Offer
  <2>4. /\ g \in Frame /\ (g.kind = "ack" => g = f) /\ (~ raced => g = f)
    BY DEF Frame, Noise
  <2>5. ASSUME TellShown(q, s), q[1].kind # "state",
               f.kind = "ack" => Before(q, s, Len(q) + 1, f.val)
        PROVE  TellShown(r, s)
    <3>1. TellShown(Tail(q), s)
      BY <2>1, <2>5, TailTells
    <3>2. g.kind = "ack" => Before(Tail(q), s, Len(Tail(q)) + 1, g.val)
      BY <2>1, <2>2, <2>4, <2>5, BeforeTail
    <3> HIDE DEF g
    <3> QED
      BY <2>2, <2>3, <2>4, <3>1, <3>2, AppendTells
  <2>6. ASSUME TellNewest(q, v), f.kind = "ack" => f.val = v
        PROVE  TellNewest(r, v)
    <3>1. TellNewest(Tail(q), v)
      BY <2>1, <2>6, TailTells
    <3> HIDE DEF g
    <3>2. g.kind = "ack" => g.val = v
      BY <2>4, <2>6
    <3> DEFINE t == Tail(q)
    <3>3. t \in Seq(Frame) /\ g \in Frame /\ TellNewest(t, v)
      BY <2>2, <2>4, <3>1
    <3> HIDE DEF t
    <3>4. TellNewest(Append(t, g), v)
      BY <3>2, <3>3, AppendTells
    <3> QED
      BY <2>3, <3>4 DEF t
  <2>7. ASSUME f.kind = "state", ~ raced
        PROVE  TellNewest(r, v)
    <3> DEFINE t == Tail(q)
    <3>1. t \in Seq(Frame) /\ r = Append(t, f)
      BY <2>2, <2>3, <2>7
    <3> HIDE DEF t, g, r
    <3>2. TellNewest(Append(t, f), v)
      BY <2>7, <3>1, AppendTells
    <3> QED
      BY <3>1, <3>2
  <2>8. ASSUME HasState(q), ~ HasState(r)
        PROVE  q[1].kind = "state"
    <3>1. PICK j \in 1 .. Len(q) : q[j].kind = "state"
      BY <2>2, <2>8 DEF HasState
    <3> HIDE DEF g
    <3>2. \A k \in 1 .. Len(q) - 1 : k \in DOMAIN r /\ r[k] = Tail(q)[k]
      BY <2>2, <2>3, <2>4
    <3>3. ~ (j > 1)
      <4> SUFFICES ASSUME j > 1 PROVE FALSE
        OBVIOUS
      <4>1. j - 1 \in 1 .. Len(q) - 1 /\ Tail(q)[j - 1] = q[j]
        BY <2>2, <3>1
      <4> QED
        BY <2>8, <3>1, <3>2, <4>1 DEF HasState
    <3> QED
      BY <2>1, <3>1, <3>3
  <2> HIDE DEF r, g
  <2> QED
    BY <1>2, <2>2, <2>5, <2>6, <2>7, <2>8 DEF r
<1> QED
  BY <1>1, <1>2

\* So does one to every window that is online: an ack confirms the snapshot that
\* each has, or is about to be given.
LEMMA OfferAllTold ==
  ASSUME LinkOK, NewestOnItsWay, Told, NEW f \in Frame, NEW raced \in SUBSET Window,
         OfferAll(f, raced), server' = server,
         \A w \in Window : link'[w] = "online" => link[w] = "online",
         f.kind # "state" => latest'.val = latest.val /\ (f.kind = "ack" => f.val = latest.val)
  PROVE  Told'
<1>1. /\ queue \in [Window -> Seq(Frame)] /\ lost \in [Window -> BOOLEAN]
      /\ missed \in [Window -> BOOLEAN] /\ \A w \in Window : Len(queue[w]) <= QueueSize
  BY DEF LinkOK
<1> SUFFICES ASSUME NEW w \in Window, link'[w] = "online"
             PROVE  /\ lost'[w] => missed'[w]
                    /\ ~missed'[w] => TellShown(queue'[w], server'[w].val)
                    /\ ~lost'[w] => TellNewest(queue'[w], latest'.val)
  BY DEF Told, Joined, TellShown, TellNewest, Before
<1> DEFINE q == queue[w]
           x == w \in raced
           s == server[w].val
<1>2. /\ w \in Joined /\ x \in BOOLEAN /\ q \in Seq(Frame) /\ Len(q) <= QueueSize
      /\ queue'[w] = Offer(q, f, x) /\ lost'[w] = LostBy(w, f, x)
      /\ missed'[w] = (missed[w] \/ MissedBy(w, f, x)) /\ server'[w].val = s
  BY <1>1 DEF OfferAll, Joined
<1>3. /\ lost[w] => missed[w]
      /\ ~missed[w] => TellShown(q, s)
      /\ ~lost[w] => TellNewest(q, latest.val) /\ HasNewest(w)
  BY <1>2 DEF Told, NewestOnItsWay
<1> HIDE DEF q, x, s
<1>4. ASSUME ~lost[w], f.kind = "ack"
      PROVE  Before(q, s, Len(q) + 1, f.val)
  <2>1. \/ ~HasState(q) /\ s = latest.val
        \/ Carries(q, latest.val)
    BY <1>3, <1>4 DEF HasNewest, q, s
  <2>2. DOMAIN q = 1 .. Len(q) + 1 - 1
    BY <1>2
  <2> QED
    BY <1>4, <2>1, <2>2 DEF Before, Carries, HasState
<1>5. lost'[w] => missed'[w]
  <2>1. HasState(q) /\ ~ HasState(Offer(q, f, x)) => Full(q) /\ Head(q).kind = "state"
    BY <1>2, OfferTells
  <2> QED
    BY <1>2, <1>3, <2>1 DEF LostBy, MissedBy, q
<1>6. ASSUME ~missed'[w]
      PROVE  TellShown(queue'[w], server'[w].val)
  <2>1. ~missed[w] /\ ~ (Full(q) /\ (Head(q).kind = "state" \/ (x /\ f.kind = "state")))
    BY <1>2, <1>6 DEF MissedBy, q
  <2>2. f.kind = "ack" => Before(q, s, Len(q) + 1, f.val)
    BY <1>3, <1>4, <2>1
  <2> QED
    BY <1>2, <1>3, <2>1, <2>2, OfferTells
<1>7. ASSUME ~lost'[w]
      PROVE  TellNewest(queue'[w], latest'.val)
  <2>1. CASE f.kind = "state"
    <3>1. ~ (Full(q) /\ x)
      BY <1>2, <1>7, <2>1 DEF LostBy, q
    <3>2. PICK v : v = latest'.val
      OBVIOUS
    <3>3. TellNewest(Offer(q, f, x), v)
      BY <1>2, <2>1, <3>1, OfferTells
    <3> QED
      BY <1>2, <3>2, <3>3
  <2>2. CASE f.kind # "state"
    <3>1. ~lost[w]
      BY <1>2, <1>7, <2>2 DEF LostBy
    <3>2. PICK v : v = latest.val
      OBVIOUS
    <3>3. TellNewest(q, v) /\ (f.kind = "ack" => f.val = v)
      BY <1>3, <2>2, <3>1, <3>2
    <3>4. TellNewest(Offer(q, f, x), v)
      BY <1>2, <3>3, OfferTells
    <3> QED
      BY <1>2, <2>2, <3>2, <3>4
  <2> QED
    BY <2>1, <2>2
<1> QED
  BY <1>5, <1>6, <1>7

\* What stays of it when the queues do.
LEMMA ToldStays ==
  ASSUME Told, UNCHANGED <<queue, server, lost, missed>>,
         latest' = latest \/ latest'.val = latest.val,
         \A w \in Window : link'[w] = "online" => link[w] = "online"
  PROVE  Told'
<1>1. Joined' \subseteq Joined /\ latest'.val = latest.val
  BY DEF Joined
<1> QED
  BY <1>1 DEF Told, TellShown, TellNewest, Before
-----------------------------------------------------------------------------
(* The pair of a number and a version.                                     *)

\* A later number and an earlier version ask for less.
LEMMA NewerLater ==
  ASSUME TypeOK, NEW n \in Nat, NEW v \in Nat, NEW m \in Nat, n <= m, Newer(n, v)
  PROVE  Newer(m, v)
<1>1. \A b \in Builder :
        build[b] # None /\ build[b].seen # None /\ m <= build[b].seq => v <= build[b].seen.ver
  <2> SUFFICES ASSUME NEW b \in Builder, build[b] # None, build[b].seen # None, m <= build[b].seq
               PROVE  v <= build[b].seen.ver
    OBVIOUS
  <2>1. build[b].seq \in Nat
    BY DEF TypeOK, HubOK, Build
  <2> QED
    BY <2>1 DEF Newer
<1>2. latest # None /\ m <= latest.seq => v <= latest.ver
  BY DEF Newer, TypeOK, HubOK, Snapshot
<1>3. \A w \in Window : \A i \in DOMAIN queue[w] :
        queue[w][i].kind # "other" /\ m <= queue[w][i].seq => v <= queue[w][i].ver
  <2> SUFFICES ASSUME NEW w \in Window, NEW i \in DOMAIN queue[w],
                      queue[w][i].kind # "other", m <= queue[w][i].seq
               PROVE  v <= queue[w][i].ver
    OBVIOUS
  <2>1. queue[w][i] \in Frame
    BY DEF TypeOK, LinkOK
  <2>2. queue[w][i].seq \in Nat
    BY <2>1 DEF Frame, Noise
  <2> QED
    BY <2>2 DEF Newer
<1>4. \A w \in Window :
        server[w] # None /\ ~behind[w] /\ ~missed[w] /\ m <= serverSeq[w] => v <= server[w].ver
  BY DEF Newer, TypeOK, StoreOK
<1> QED
  BY <1>1, <1>2, <1>3, <1>4 DEF Newer

\* A number no snapshot has yet asks only that the rig has the version.
LEMMA NewerAhead ==
  ASSUME TypeOK, Numbered, NEW v \in Nat, v <= rig.ver
  PROVE  Newer(seq + 1, v)
<1>1. seq \in Nat
  BY DEF TypeOK, HubOK
<1>2. \A b \in Builder : build[b] # None => ~ (seq + 1 <= build[b].seq)
  BY <1>1 DEF TypeOK, HubOK, Build, Numbered
<1>3. latest # None => ~ (seq + 1 <= latest.seq)
  BY <1>1 DEF TypeOK, HubOK, Snapshot, Numbered
<1>4. \A w \in Window : \A i \in DOMAIN queue[w] :
        queue[w][i].kind # "other" => ~ (seq + 1 <= queue[w][i].seq)
  <2> SUFFICES ASSUME NEW w \in Window, NEW i \in DOMAIN queue[w], queue[w][i].kind # "other"
               PROVE  ~ (seq + 1 <= queue[w][i].seq)
    OBVIOUS
  <2>1. queue[w][i] \in Frame
    BY DEF TypeOK, LinkOK
  <2>2. queue[w][i].seq \in Nat
    BY <2>1 DEF Frame, Noise
  <2> QED
    BY <1>1, <2>2 DEF Numbered
<1>5. \A w \in Window : ~ (seq + 1 <= serverSeq[w])
  BY <1>1 DEF TypeOK, StoreOK, Numbered
<1> QED
  BY <1>2, <1>3, <1>4, <1>5 DEF Newer
-----------------------------------------------------------------------------
LEMMA HubInit == Init => IInv
<1> SUFFICES ASSUME Init PROVE IInv
  OBVIOUS
<1> USE HubAssumption DEF Init
<1>1. HubOK
  BY DEF HubOK, Picture
<1>2. LinkOK
  BY DEF LinkOK
<1>3. StoreOK
  BY DEF StoreOK
<1>4. Pictured /\ Building /\ Numbered
  BY DEF Pictured, Building, Numbered, Builder
<1>5. Posted /\ Promised
  BY DEF Posted, Promised
<1>6. NewestOnItsWay
  BY DEF NewestOnItsWay, Joined
<1>7. Told
  BY DEF Told, Joined
<1> QED
  BY <1>1, <1>2, <1>3, <1>4, <1>5, <1>6, <1>7 DEF IInv, TypeOK
-----------------------------------------------------------------------------
(* The steps.  What each makes of a pair is Carry; what it makes of the    *)
(* windows' presses and holds comes after.                                 *)
Carry == \A n, v \in Nat : Newer(n, v) => Newer(n, v)'

Sound == TypeOK' /\ Pictured' /\ Building' /\ Numbered' /\ Carry /\ NewestOnItsWay' /\ Told'

\* What a snapshot that begins does to the builders.
LEMMA BeginFacts ==
  ASSUME HubOK, NEW b \in Builder, NEW kind \in {"push", "get"}, Begin(b, kind)
  PROVE  /\ seq' = seq + 1 /\ ackWanted' = FALSE /\ latest' = latest
         /\ build' \in [Builder -> Build \cup {None}] /\ build'[b].kind = kind
         /\ \A c \in Builder :
              \/ build'[c] = build[c]
              \/ c = b /\ build'[c].seen = None /\ build'[c].seq = seq + 1
<1>1. /\ build' = [build EXCEPT ![b] = [kind |-> kind, seq |-> seq + 1,
                                        wanted |-> ackWanted, seen |-> None]]
      /\ seq' = seq + 1 /\ ackWanted' = FALSE /\ latest' = latest
  BY DEF Begin
<1>2. [kind |-> kind, seq |-> seq + 1, wanted |-> ackWanted, seen |-> None] \in Build
  BY DEF HubOK, Build
<1> QED
  BY <1>1, <1>2 DEF HubOK

\* A snapshot begins, for the loop or for a window whose connection then waits
\* for it.
LEMMA BeginSound ==
  ASSUME IInv, NEW b \in Builder, NEW kind \in {"push", "get"}, Begin(b, kind),
         \/ b = "loop" /\ link' = link
         \/ /\ b \in Window /\ (kind = "push" => link[b] = "got")
            /\ link' = [link EXCEPT ![b] = IF kind = "get" THEN "get" ELSE "first"]
            /\ link[b] # "online",
         UNCHANGED <<rig, queue, storeVars, lane, lost, missed>>, events' \in Nat, breaks' \in Nat
  PROVE  Sound
<1>0. /\ HubOK /\ LinkOK /\ StoreOK /\ Pictured /\ Building /\ Numbered /\ NewestOnItsWay /\ Told
      /\ UNCHANGED <<rig, queue, server, serverSeq, hold, promise, behind, lane, lost, missed>>
  BY DEF IInv, TypeOK, storeVars
<1>1. /\ seq' = seq + 1 /\ ackWanted' = FALSE /\ latest' = latest /\ seq \in Nat
      /\ build' \in [Builder -> Build \cup {None}] /\ build'[b].kind = kind
      /\ \A c \in Builder :
           \/ build'[c] = build[c]
           \/ c = b /\ build'[c].seen = None /\ build'[c].seq = seq + 1
  BY <1>0, BeginFacts DEF HubOK
<1>2. /\ link' \in [Window -> {"off", "get", "got", "first", "built", "online"}]
      /\ \A w \in Window : \/ link'[w] = link[w] /\ w # b
                           \/ w = b /\ link'[w] = (IF kind = "get" THEN "get" ELSE "first")
      /\ b \in Window /\ kind = "push" => link[b] = "got"
      /\ \A w \in Window : link'[w] = "online" => link[w] = "online"
  BY <1>0, HubAssumption DEF LinkOK
<1>3. HubOK' /\ LinkOK' /\ StoreOK'
  <2>1. HubOK'
    <3>1. rig' \in Picture /\ seq' \in Nat /\ latest' \in Snapshot \cup {None}
      BY <1>0, <1>1 DEF HubOK
    <3>2. ackWanted' \in BOOLEAN
      BY <1>1
    <3> QED
      BY <1>1, <3>1, <3>2 DEF HubOK
  <2>2. LinkOK'
    BY <1>0, <1>2 DEF LinkOK
  <2>3. StoreOK'
    BY <1>0 DEF StoreOK
  <2> QED
    BY <2>1, <2>2, <2>3
<1>4. Pictured' /\ Building'
  <2>1. Pictured'
    BY <1>0, <1>2 DEF Pictured
  <2>2. Building'
    BY <1>0, <1>1, <1>2 DEF Building, Builder
  <2> QED
    BY <2>1, <2>2
<1>5. Numbered'
  <2>1. \A c \in Builder : build'[c] # None => build'[c].seq <= seq'
    <3> SUFFICES ASSUME NEW c \in Builder, build'[c] # None PROVE build'[c].seq <= seq'
      OBVIOUS
    <3>1. build'[c].seq \in Nat
      BY <1>1 DEF Build
    <3> QED
      BY <1>0, <1>1, <3>1 DEF Numbered
  <2>2. latest' # None => latest'.seq <= seq'
    BY <1>0, <1>1 DEF Numbered, HubOK, Snapshot
  <2>3. \A w \in Window : \A i \in DOMAIN queue'[w] :
          queue'[w][i].kind # "other" => queue'[w][i].seq <= seq'
    <3> SUFFICES ASSUME NEW w \in Window, NEW i \in DOMAIN queue[w], queue[w][i].kind # "other"
                 PROVE  queue[w][i].seq <= seq + 1
      BY <1>0, <1>1
    <3>1. queue[w][i] \in Frame
      BY <1>0 DEF LinkOK
    <3>2. queue[w][i].seq \in Nat
      BY <3>1 DEF Frame, Noise
    <3> QED
      BY <1>0, <1>1, <3>2 DEF Numbered
  <2>4. \A w \in Window : serverSeq'[w] <= seq'
    BY <1>0, <1>1 DEF Numbered, StoreOK
  <2> QED
    BY <2>1, <2>2, <2>3, <2>4 DEF Numbered
<1>6. Carry
  BY <1>0, <1>1 DEF Carry, Newer
<1>7. NewestOnItsWay'
  BY <1>0, <1>1, <1>2 DEF NewestOnItsWay, HasNewest, Joined
<1>8. Told'
  BY <1>0, <1>1, <1>2, ToldStays
<1> QED
  BY <1>3, <1>4, <1>5, <1>6, <1>7, <1>8 DEF Sound, TypeOK

LEMMA ReadSound ==
  ASSUME IInv, NEW b \in Builder, Read(b)
  PROVE  Sound
<1> USE DEF IInv, TypeOK
<1>1. /\ build[b] # None /\ build[b] \in Build /\ build' = [build EXCEPT ![b].seen = rig]
      /\ UNCHANGED <<rig, seq, ackWanted, latest, link, queue, server, serverSeq, hold, promise,
                     behind, lane, lost, missed, events, breaks>>
  BY DEF Read, HubOK, storeVars, counts
<1>2. [build[b] EXCEPT !.seen = rig] \in Build
  BY <1>1 DEF HubOK, Build
<1>3. /\ build' \in [Builder -> Build \cup {None}]
      /\ \A c \in Builder :
           \/ build'[c] = build[c]
           \/ c = b /\ build'[c].seen = rig /\ build'[c].seq = build[c].seq
  BY <1>1, <1>2 DEF HubOK, Build
<1>4. HubOK' /\ LinkOK' /\ StoreOK'
  BY <1>1, <1>3 DEF HubOK, LinkOK, StoreOK
<1>5a. Building'
  BY <1>1, <1>3 DEF Building, Builder, Build
<1>5. Pictured' /\ NewestOnItsWay'
  BY <1>1 DEF Pictured, NewestOnItsWay, HasNewest, Joined
<1>6. Numbered'
  BY <1>1, <1>3 DEF Numbered
<1>7. Carry
  BY <1>1, <1>3 DEF Carry, Newer
<1>8. Told'
  BY <1>1, ToldStays
<1> QED
  BY <1>4, <1>5, <1>5a, <1>6, <1>7, <1>8 DEF Sound

LEMMA FailSound ==
  ASSUME IInv, NEW b \in Builder, BuildFails(b)
  PROVE  Sound
<1> USE DEF IInv, TypeOK
<1>1. /\ build' = [build EXCEPT ![b] = None] /\ events' = events /\ breaks' = breaks + 1
      /\ link' = IF b \in Window THEN [link EXCEPT ![b] = "off"] ELSE link
      /\ UNCHANGED <<rig, seq, ackWanted, latest, queue, server, serverSeq, hold, promise,
                     behind, lane, lost, missed>>
  BY DEF BuildFails, Break, storeVars
<1>2. /\ build' \in [Builder -> Build \cup {None}]
      /\ \A c \in Builder : build'[c] = build[c] \/ build'[c] = None
      /\ link' \in [Window -> {"off", "get", "got", "first", "built", "online"}]
      /\ \A w \in Window : link'[w] = link[w] \/ link'[w] = "off"
  BY <1>1 DEF HubOK, LinkOK
<1>3. HubOK' /\ LinkOK' /\ StoreOK'
  <2>1. HubOK'
    BY <1>1, <1>2 DEF HubOK
  <2>2. LinkOK'
    BY <1>1, <1>2 DEF LinkOK
  <2>3. StoreOK'
    BY <1>1 DEF StoreOK
  <2> QED
    BY <2>1, <2>2, <2>3
<1>4. Pictured'
  BY <1>1, <1>2 DEF Pictured
<1>5a. Building'
  <2>1. \A w \in Window : build'[w] # None => build'[w] = build[w] /\ w # b /\ link'[w] = link[w]
    BY <1>1, <1>2 DEF Builder, HubOK, LinkOK
  <2> QED
    BY <2>1 DEF Building
<1>5. NewestOnItsWay'
  BY <1>1, <1>2 DEF NewestOnItsWay, HasNewest, Joined
<1>6. Numbered'
  BY <1>1, <1>2 DEF Numbered
<1>7. Carry
  BY <1>1, <1>2 DEF Carry, Newer
<1>8. Told'
  BY <1>1, <1>2, ToldStays
<1> QED
  BY <1>3, <1>4, <1>5, <1>5a, <1>6, <1>7, <1>8 DEF Sound
\* What refresh makes of the newest snapshot,
Refreshed(b) ==
  /\ latest' \in Snapshot /\ build[b] # None /\ build[b].seen # None
  /\ latest'.seq <= seq
  /\ \/ latest'.seq = build[b].seq
     \/ latest # None /\ latest'.seq = latest.seq /\ latest.ver <= latest'.ver
  /\ build[b].seen.ver <= latest'.ver
  /\ events' \in {events, events + 1} /\ breaks' = breaks

\* and which frame it offers: none when the windows have it and nobody waits.
Offered(b) ==
  \/ \E f \in Frame, raced \in SUBSET Window :
       /\ OfferAll(f, raced) /\ f.kind # "other" /\ f.seq <= seq /\ f.ver = latest'.ver
       /\ f.seq = build[b].seq
       /\ f.val = latest'.val
       /\ f.kind = "state" \/ (f.kind = "ack" /\ latest # None /\ latest'.val = latest.val)
  \/ UNCHANGED <<queue, lost, missed>> /\ latest # None /\ latest'.val = latest.val

LEMMA PublishFacts ==
  ASSUME HubOK, LinkOK, Numbered, NEW b \in Builder, Publish(b)
  PROVE  Refreshed(b) /\ Offered(b)
<1> DEFINE s == build[b].seen
           same == latest # None /\ s.val = latest.val
<1>1. /\ build[b] \in Build /\ s \in Picture /\ build[b].seq \in Nat
      /\ s.ver \in Nat /\ s.val \in Value /\ build[b].seq <= seq /\ build[b] # None /\ s # None
      /\ build[b].wanted \in BOOLEAN
  BY DEF Publish, HubOK, Build, Picture, Numbered
<1>2. PICK raced \in SUBSET Joined :
        /\ IF raced = {} THEN UNCHANGED counts ELSE Event
        /\ latest' = IF same THEN [latest EXCEPT !.ver = Max({@, s.ver})]
                     ELSE [val |-> s.val, ver |-> s.ver, seq |-> build[b].seq]
        /\ CASE ~same -> OfferAll(StateFrame(latest'), raced)
             [] same /\ build[b].wanted -> OfferAll(AckFrame(build[b].seq, latest'), raced)
             [] OTHER -> raced = {} /\ UNCHANGED <<queue, lost, missed>>
  BY DEF Publish
<1>3. events' \in {events, events + 1} /\ breaks' = breaks
  BY <1>2 DEF Event, counts
<1>4. raced \in SUBSET Window
  BY <1>2 DEF Joined
<1> HIDE DEF s
<1>5. CASE ~ same
  <2>1. /\ latest' = [val |-> s.val, ver |-> s.ver, seq |-> build[b].seq]
        /\ OfferAll(StateFrame(latest'), raced)
    BY <1>2, <1>5
  <2>2. /\ latest' \in Snapshot /\ latest'.ver = s.ver /\ latest'.val = s.val
        /\ latest'.seq = build[b].seq
    BY <1>1, <2>1 DEF Snapshot
  <2>3. /\ StateFrame(latest') \in Frame /\ StateFrame(latest').kind = "state"
        /\ StateFrame(latest').val = latest'.val /\ StateFrame(latest').ver = latest'.ver
        /\ StateFrame(latest').seq = latest'.seq
    BY <1>1, <2>2 DEF StateFrame, Frame
  <2> QED
    BY <1>1, <1>3, <1>4, <2>1, <2>2, <2>3 DEF s, Refreshed, Offered
<1>6. CASE same
  <2>0. latest \in Snapshot /\ latest # None /\ latest.ver \in Nat
    BY <1>6 DEF HubOK, Snapshot
  <2>1. latest' = [latest EXCEPT !.ver = Max({latest.ver, s.ver})]
    BY <1>2, <1>6
  <2>2. /\ latest' \in Snapshot /\ latest.ver <= latest'.ver /\ s.ver <= latest'.ver
        /\ latest'.val = latest.val /\ latest'.seq = latest.seq /\ latest'.ver \in Nat
        /\ latest'.val \in Value
    BY <1>1, <2>0, <2>1, MaxOfTwo DEF Snapshot
  <2>3. latest'.seq <= seq
    BY <2>0, <2>2 DEF Numbered
  <2>4. CASE build[b].wanted
    <3>1. OfferAll(AckFrame(build[b].seq, latest'), raced)
      BY <1>2, <1>6, <2>4
    <3>2. LET f == AckFrame(build[b].seq, latest') IN
          f \in Frame /\ f.kind = "ack" /\ f.seq = build[b].seq /\ f.ver = latest'.ver
          /\ f.val = latest'.val
      BY <1>1, <2>2 DEF AckFrame, Frame
    <3> QED
      BY <1>1, <1>3, <1>4, <2>0, <2>2, <2>3, <3>1, <3>2 DEF s, Refreshed, Offered
  <2>5. CASE ~ build[b].wanted
    <3>1. UNCHANGED <<queue, lost, missed>>
      BY <1>2, <1>6, <2>5
    <3> QED
      BY <1>1, <1>3, <2>0, <2>2, <2>3, <3>1 DEF s, Refreshed, Offered
  <2> QED
    BY <2>4, <2>5
<1> QED
  BY <1>5, <1>6

\* A publication hands every window that is online the newest snapshot, unless
\* the window has it.
LEMMA PublishSound ==
  ASSUME IInv, NEW b \in Builder, Publish(b)
  PROVE  Sound
<1>0. /\ HubOK /\ LinkOK /\ StoreOK /\ Pictured /\ Building /\ Numbered /\ NewestOnItsWay /\ Told
      /\ UNCHANGED <<rig, seq, ackWanted, server, serverSeq, hold, promise, behind, lane>>
      /\ build' = [build EXCEPT ![b] = None] /\ build[b].kind = "push"
      /\ link' = IF b \in Window THEN [link EXCEPT ![b] = "built"] ELSE link
  BY DEF IInv, TypeOK, storeVars, Publish
<1>1. /\ latest' \in Snapshot /\ build[b] # None /\ build[b].seen # None
      /\ latest'.seq <= seq
      /\ \/ latest'.seq = build[b].seq
         \/ latest # None /\ latest'.seq = latest.seq /\ latest.ver <= latest'.ver
      /\ build[b].seen.ver <= latest'.ver
      /\ events' \in {events, events + 1} /\ breaks' = breaks
  BY <1>0, PublishFacts DEF Refreshed
<1>2. Offered(b)
  BY <1>0, PublishFacts
<1>3. /\ queue' \in [Window -> Seq(Frame)] /\ lost' \in [Window -> BOOLEAN]
      /\ missed' \in [Window -> BOOLEAN] /\ (\A u \in Window : missed[u] => missed'[u])
      /\ \A w \in Window : Len(queue'[w]) <= QueueSize
      /\ \A w \in Window : \A i \in DOMAIN queue'[w] :
           queue'[w][i].kind # "other" =>
             \/ queue'[w][i].seq = build[b].seq /\ queue'[w][i].ver = latest'.ver
             \/ \E j \in DOMAIN queue[w] : queue'[w][i] = queue[w][j]
      /\ \A w \in Joined : ~ lost'[w] =>
           \/ Carries(queue'[w], latest'.val)
           \/ /\ latest'.val = latest.val /\ ~ lost[w]
              /\ ~ HasState(queue[w]) => ~ HasState(queue'[w])
              /\ \A v : Carries(queue[w], v) => Carries(queue'[w], v)
  <2>1. CASE UNCHANGED <<queue, lost, missed>> /\ latest # None /\ latest'.val = latest.val
    BY <1>0, <2>1 DEF LinkOK
  <2>2. CASE \E f \in Frame, raced \in SUBSET Window :
               /\ OfferAll(f, raced) /\ f.kind # "other" /\ f.seq <= seq /\ f.ver = latest'.ver
               /\ f.seq = build[b].seq
               /\ f.val = latest'.val
               /\ f.kind = "state" \/ (f.kind = "ack" /\ latest # None /\ latest'.val = latest.val)
    <3>1. PICK f \in Frame, raced \in SUBSET Window :
            /\ OfferAll(f, raced) /\ f.kind # "other" /\ f.seq <= seq /\ f.ver = latest'.ver
            /\ f.seq = build[b].seq
            /\ f.val = latest'.val
            /\ f.kind = "state" \/ (f.kind = "ack" /\ latest # None /\ latest'.val = latest.val)
      BY <2>2
    <3>2. /\ queue' \in [Window -> Seq(Frame)] /\ lost' \in [Window -> BOOLEAN]
          /\ missed' \in [Window -> BOOLEAN] /\ (\A u \in Window : missed[u] => missed'[u])
          /\ \A w \in Window : Len(queue'[w]) <= QueueSize
          /\ \A w \in Window : \A i \in DOMAIN queue'[w] :
               queue'[w][i].kind # "other" =>
                 queue'[w][i] = f \/ \E j \in DOMAIN queue[w] : queue'[w][i] = queue[w][j]
      BY <1>0, <3>1, OfferAllFacts
    <3>3. \A w \in Joined : ~ lost'[w] =>
            /\ f.kind = "state" => Carries(queue'[w], f.val)
            /\ f.kind # "state" =>
                 /\ ~ lost[w]
                 /\ ~ HasState(queue[w]) => ~ HasState(queue'[w])
                 /\ \A v : Carries(queue[w], v) => Carries(queue'[w], v)
      BY <1>0, <3>1, OfferAllFacts
    <3> QED
      BY <3>1, <3>2, <3>3
  <2> QED
    BY <1>2, <2>1, <2>2 DEF Offered
<1>4. /\ build' \in [Builder -> Build \cup {None}]
      /\ \A c \in Builder : build'[c] = None \/ (c # b /\ build'[c] = build[c])
      /\ link' \in [Window -> {"off", "get", "got", "first", "built", "online"}]
      /\ \A w \in Window : (w # b /\ link'[w] = link[w]) \/ (w = b /\ link'[w] = "built")
  BY <1>0 DEF HubOK, LinkOK
<1>5. HubOK' /\ LinkOK' /\ StoreOK'
  <2>1. HubOK'
    BY <1>0, <1>1, <1>4 DEF HubOK
  <2>2. LinkOK'
    BY <1>3, <1>4 DEF LinkOK
  <2>3. StoreOK'
    BY <1>0, <1>1 DEF StoreOK
  <2> QED
    BY <2>1, <2>2, <2>3
<1>6. Pictured'
  <2>1. b \in Window => link[b] = "first"
    BY <1>0, <1>1 DEF Building
  <2> QED
    BY <1>0, <1>4, <2>1 DEF Pictured
<1>7. Building'
  BY <1>0, <1>4 DEF Building, Builder
<1>8. Numbered'
  <2>1. build[b].seq <= seq
    BY <1>0, <1>1 DEF Numbered
  <2>2. \A w \in Window : \A i \in DOMAIN queue'[w] :
          queue'[w][i].kind # "other" => queue'[w][i].seq <= seq
    BY <1>0, <1>3, <2>1 DEF Numbered
  <2> QED
    BY <1>0, <1>1, <1>4, <2>2 DEF Numbered
<1>9. Carry
  <2> SUFFICES ASSUME NEW n \in Nat, NEW v \in Nat, Newer(n, v)
               PROVE  Newer(n, v)'
    BY DEF Carry
  <2>1. /\ build[b].seen.ver \in Nat /\ latest'.ver \in Nat
        /\ latest # None => latest.ver \in Nat
    BY <1>0, <1>1 DEF HubOK, Build, Picture, Snapshot
  <2>2. n <= build[b].seq => v <= latest'.ver
    BY <1>1, <2>1 DEF Newer
  <2>3. n <= latest'.seq => v <= latest'.ver
    BY <1>1, <2>1, <2>2 DEF Newer
  <2>4. \A w \in Window : \A i \in DOMAIN queue'[w] :
          queue'[w][i].kind # "other" /\ n <= queue'[w][i].seq => v <= queue'[w][i].ver
    BY <1>3, <2>2 DEF Newer
  <2>5. \A c \in Builder :
          build'[c] # None /\ build'[c].seen # None /\ n <= build'[c].seq => v <= build'[c].seen.ver
    BY <1>4 DEF Newer
  <2>6. \A w \in Window :
          server'[w] # None /\ ~behind'[w] /\ ~missed'[w] /\ n <= serverSeq'[w] => v <= server'[w].ver
    BY <1>0, <1>3 DEF Newer
  <2> QED
    BY <1>0, <2>3, <2>4, <2>5, <2>6 DEF Newer
<1>10. NewestOnItsWay'
  <2> SUFFICES ASSUME NEW w \in Window, link'[w] = "online", ~ lost'[w]
               PROVE  HasNewest(w)'
    BY DEF NewestOnItsWay, Joined
  <2>1. w \in Joined
    BY <1>4 DEF Joined
  <2>2. CASE Carries(queue'[w], latest'.val)
    BY <2>2 DEF HasNewest, Carries
  <2>3. CASE /\ latest'.val = latest.val /\ ~ lost[w]
             /\ ~ HasState(queue[w]) => ~ HasState(queue'[w])
             /\ \A v : Carries(queue[w], v) => Carries(queue'[w], v)
    <3>1. HasNewest(w)
      BY <1>0, <2>1, <2>3 DEF NewestOnItsWay
    <3>2. CASE ~ HasState(queue[w]) /\ server[w].val = latest.val
      BY <1>0, <2>3, <3>2 DEF HasNewest, HasState
    <3>3. CASE Carries(queue[w], latest.val)
      <4>1. Carries(queue'[w], latest'.val)
        BY <2>3, <3>3
      <4> QED
        BY <4>1 DEF HasNewest, Carries
    <3> QED
      BY <3>1, <3>2, <3>3 DEF HasNewest
  <2> QED
    BY <1>3, <2>1, <2>2, <2>3
<1>11. Told'
  <2>1. /\ IInv /\ server' = server
        /\ \A w \in Window : link'[w] = "online" => link[w] = "online"
    BY <1>0, <1>4
  <2>2. CASE UNCHANGED <<queue, lost, missed>> /\ latest'.val = latest.val
    BY <1>0, <2>1, <2>2, ToldStays
  <2>3. CASE \E f \in Frame, raced \in SUBSET Window :
               /\ OfferAll(f, raced) /\ f.val = latest'.val
               /\ f.kind = "state" \/ latest'.val = latest.val
    BY <1>0, <2>1, <2>3, OfferAllTold
  <2> QED
    BY <1>2, <2>2, <2>3 DEF Offered
<1> QED
  BY <1>5, <1>6, <1>7, <1>8, <1>9, <1>10, <1>11 DEF Sound, TypeOK

\* Window w took in a snapshot, or heard of one, with number n and version v.
Taken(w, n, v) ==
  /\ server' \in [Window -> Picture \cup {None}] /\ serverSeq' \in [Window -> Nat]
  /\ hold' \in [Window -> Hold \cup {None}] /\ behind' \in [Window -> BOOLEAN]
  /\ promise' = promise
  /\ \A u \in Window : u # w =>
       /\ server'[u] = server[u] /\ serverSeq'[u] = serverSeq[u]
       /\ hold'[u] = hold[u] /\ behind'[u] = behind[u]
  /\ server'[w] # None
  /\ serverSeq[w] <= serverSeq'[w] /\ serverSeq'[w] \in {serverSeq[w], n}
  /\ \A u \in Window : u # w => missed'[u] = missed[u]
  /\ ~ behind'[w] /\ ~ missed'[w] =>
       \/ serverSeq'[w] = n /\ v <= server'[w].ver
       \/ /\ ~ behind[w] /\ ~ missed[w]
          /\ server'[w] = server[w] /\ serverSeq'[w] = serverSeq[w]
  /\ \/ hold'[w] = hold[w]
     \/ /\ hold'[w] = None /\ hold[w] # None
        /\ hold[w].settled /\ hold[w].seq <= serverSeq'[w]

LEMMA KeptFacts ==
  ASSUME NEW h \in Hold \cup {None}, NEW n \in Nat
  PROVE  /\ Kept(h, n) \in Hold \cup {None}
         /\ \/ Kept(h, n) = h
            \/ Kept(h, n) = None /\ h # None /\ h.settled /\ h.seq <= n
<1>1. h # None => h.seq \in Nat
  BY DEF Hold
<1> QED
  BY <1>1 DEF Kept

LEMMA ApplyFacts ==
  ASSUME StoreOK, NEW w \in Window, NEW s, s.val \in Value, s.ver \in Nat, s.seq \in Nat, Apply(w, s),
         \A u \in Window : u # w => missed'[u] = missed[u]
  PROVE  Taken(w, s.seq, s.ver) /\ server'[w].val = s.val
<1>1. /\ server' = [server EXCEPT ![w] = [val |-> s.val, ver |-> s.ver]]
      /\ serverSeq' = [serverSeq EXCEPT ![w] = Max({serverSeq[w], s.seq})]
      /\ hold' = [hold EXCEPT ![w] = Kept(hold[w], serverSeq'[w])]
      /\ behind' = [behind EXCEPT ![w] = s.seq < serverSeq[w]]
      /\ promise' = promise
  BY DEF Apply
<1>2. /\ server \in [Window -> Picture \cup {None}] /\ serverSeq \in [Window -> Nat]
      /\ hold \in [Window -> Hold \cup {None}] /\ behind \in [Window -> BOOLEAN]
  BY DEF StoreOK
<1>3. [val |-> s.val, ver |-> s.ver] \in Picture /\ [val |-> s.val, ver |-> s.ver] # None
  BY HubAssumption DEF Picture
<1>4. /\ server' \in [Window -> Picture \cup {None}]
      /\ server'[w] = [val |-> s.val, ver |-> s.ver] /\ server'[w] # None
      /\ \A u \in Window : u # w => server'[u] = server[u]
  BY <1>1, <1>2, <1>3
<1>5. /\ serverSeq' \in [Window -> Nat] /\ serverSeq[w] <= serverSeq'[w] /\ s.seq <= serverSeq'[w]
      /\ serverSeq'[w] \in {serverSeq[w], s.seq}
      /\ \A u \in Window : u # w => serverSeq'[u] = serverSeq[u]
  BY <1>1, <1>2, MaxOfTwo
<1>6. /\ hold' \in [Window -> Hold \cup {None}]
      /\ \/ hold'[w] = hold[w]
         \/ /\ hold'[w] = None /\ hold[w] # None
            /\ hold[w].settled /\ hold[w].seq <= serverSeq'[w]
      /\ \A u \in Window : u # w => hold'[u] = hold[u]
  <2>1. /\ Kept(hold[w], serverSeq'[w]) \in Hold \cup {None}
        /\ \/ Kept(hold[w], serverSeq'[w]) = hold[w]
           \/ /\ Kept(hold[w], serverSeq'[w]) = None /\ hold[w] # None
              /\ hold[w].settled /\ hold[w].seq <= serverSeq'[w]
    BY <1>2, <1>5, KeptFacts
  <2> QED
    BY <1>1, <1>2, <2>1
<1>7. /\ behind' \in [Window -> BOOLEAN] /\ (~ behind'[w] => serverSeq[w] <= s.seq)
      /\ \A u \in Window : u # w => behind'[u] = behind[u]
  <2>1. (s.seq < serverSeq[w]) \in BOOLEAN /\ serverSeq[w] \in Nat
    BY <1>2
  <2>2. behind'[w] = (s.seq < serverSeq[w])
    BY <1>1, <1>2
  <2>3. ~ behind'[w] => serverSeq[w] <= s.seq
    <3>1. ~ behind'[w] => ~ (s.seq < serverSeq[w])
      BY <2>2, Zenon
    <3> QED
      BY <2>1, <3>1
  <2> QED
    BY <1>1, <1>2, <2>1, <2>3
<1>8. ~ behind'[w] => serverSeq'[w] = s.seq /\ s.ver <= server'[w].ver
  BY <1>2, <1>4, <1>5, <1>7
<1> QED
  BY <1>1, <1>4, <1>5, <1>6, <1>7, <1>8 DEF Taken

LEMMA AcknowledgeFacts ==
  ASSUME StoreOK, NEW w \in Window, server[w] # None,
         NEW a, a.ver \in Nat, a.seq \in Nat, Acknowledge(w, a),
         missed' = missed, ~ missed[w] => a.val = server[w].val
  PROVE  Taken(w, a.seq, a.ver) /\ server'[w].val = server[w].val
<1>1. /\ serverSeq' = [serverSeq EXCEPT ![w] = Max({serverSeq[w], a.seq})]
      /\ hold' = [hold EXCEPT ![w] = Kept(hold[w], serverSeq'[w])]
      /\ server' = IF a.seq > serverSeq[w] /\ a.val = server[w].val
                   THEN [server EXCEPT ![w] = [server[w] EXCEPT !.ver = Max({server[w].ver, a.ver})]]
                   ELSE server
      /\ promise' = promise /\ behind' = behind
  BY DEF Acknowledge
<1>2. /\ server \in [Window -> Picture \cup {None}] /\ serverSeq \in [Window -> Nat]
      /\ hold \in [Window -> Hold \cup {None}] /\ behind \in [Window -> BOOLEAN]
      /\ server[w] \in Picture /\ server[w].ver \in Nat
  BY DEF StoreOK, Picture
<1>3. LET p == [server[w] EXCEPT !.ver = Max({server[w].ver, a.ver})] IN
      p \in Picture /\ p # None /\ a.ver <= p.ver /\ p.val = server[w].val
  <2>1. Max({server[w].ver, a.ver}) \in Nat /\ a.ver <= Max({server[w].ver, a.ver})
    BY <1>2, MaxOfTwo
  <2> QED
    BY <1>2, <2>1, HubAssumption DEF Picture
<1>4. /\ server' \in [Window -> Picture \cup {None}]
      /\ server'[w] # None /\ server'[w].val = server[w].val
      /\ a.seq > serverSeq[w] /\ a.val = server[w].val => a.ver <= server'[w].ver
      /\ ~ (a.seq > serverSeq[w]) => server'[w] = server[w]
      /\ \A u \in Window : u # w => server'[u] = server[u]
  BY <1>1, <1>2, <1>3
<1>5. /\ serverSeq' \in [Window -> Nat] /\ serverSeq[w] <= serverSeq'[w]
      /\ serverSeq'[w] \in {serverSeq[w], a.seq} /\ a.seq <= serverSeq'[w]
      /\ \A u \in Window : u # w => serverSeq'[u] = serverSeq[u]
  BY <1>1, <1>2, MaxOfTwo
<1>6. /\ hold' \in [Window -> Hold \cup {None}]
      /\ \/ hold'[w] = hold[w]
         \/ /\ hold'[w] = None /\ hold[w] # None
            /\ hold[w].settled /\ hold[w].seq <= serverSeq'[w]
      /\ \A u \in Window : u # w => hold'[u] = hold[u]
  <2>1. /\ Kept(hold[w], serverSeq'[w]) \in Hold \cup {None}
        /\ \/ Kept(hold[w], serverSeq'[w]) = hold[w]
           \/ /\ Kept(hold[w], serverSeq'[w]) = None /\ hold[w] # None
              /\ hold[w].settled /\ hold[w].seq <= serverSeq'[w]
    BY <1>2, <1>5, KeptFacts
  <2> QED
    BY <1>1, <1>2, <2>1
<1>7. ~ behind'[w] /\ ~ missed[w] =>
        \/ serverSeq'[w] = a.seq /\ a.ver <= server'[w].ver
        \/ ~ behind[w] /\ server'[w] = server[w] /\ serverSeq'[w] = serverSeq[w]
  BY <1>1, <1>2, <1>4, <1>5
<1> QED
  BY <1>1, <1>2, <1>4, <1>5, <1>6, <1>7 DEF Taken
\* What was taken in holds what every snapshot of its number holds.
LEMMA TakenKeeps ==
  ASSUME StoreOK, NEW w \in Window, NEW m \in Nat, NEW x \in Nat, Taken(w, m, x),
         NEW n \in Nat, NEW v \in Nat, n <= m => v <= x,
         \A u \in Window : server[u] # None /\ ~behind[u] /\ ~missed[u] /\ n <= serverSeq[u] => v <= server[u].ver
  PROVE  \A u \in Window :
           server'[u] # None /\ ~behind'[u] /\ ~missed'[u] /\ n <= serverSeq'[u] => v <= server'[u].ver
<1> SUFFICES ASSUME NEW u \in Window, server'[u] # None, ~ behind'[u], ~ missed'[u], n <= serverSeq'[u]
             PROVE  v <= server'[u].ver
  OBVIOUS
<1>1. CASE u # w
  BY <1>1 DEF Taken
<1>2. CASE u = w
  <2>1. server'[w].ver \in Nat
    BY <1>2 DEF Taken, Picture
  <2>2. CASE serverSeq'[w] = m /\ x <= server'[w].ver
    BY <1>2, <2>1, <2>2
  <2>3. CASE /\ ~ behind[w] /\ ~ missed[w]
             /\ server'[w] = server[w] /\ serverSeq'[w] = serverSeq[w]
    BY <1>2, <2>3
  <2> QED
    BY <1>2, <2>2, <2>3 DEF Taken
<1> QED
  BY <1>1, <1>2

LEMMA GotStateSound ==
  ASSUME IInv, NEW w \in Window, GotState(w)
  PROVE  Sound /\ \E n, v \in Nat : Taken(w, n, v)
<1>0. /\ HubOK /\ LinkOK /\ StoreOK /\ Pictured /\ Building /\ Numbered /\ NewestOnItsWay /\ Told
      /\ UNCHANGED <<rig, seq, ackWanted, latest, queue, lane, lost, events, breaks>>
      /\ link[w] = "get" /\ link' = [link EXCEPT ![w] = "got"]
      /\ build' = [build EXCEPT ![w] = None] /\ missed' = [missed EXCEPT ![w] = FALSE]
  BY DEF IInv, TypeOK, counts, GotState
<1>1. /\ build[w] # None /\ build[w].seen # None
      /\ build[w].seq \in Nat /\ build[w].seq <= seq
      /\ build[w].seen.val \in Value /\ build[w].seen.ver \in Nat
      /\ Apply(w, [val |-> build[w].seen.val, ver |-> build[w].seen.ver, seq |-> build[w].seq])
  BY <1>0 DEF GotState, HubOK, Build, Picture, Builder, Numbered
<1>2. Taken(w, build[w].seq, build[w].seen.ver)
  <2> DEFINE s == [val |-> build[w].seen.val, ver |-> build[w].seen.ver, seq |-> build[w].seq]
  <2>1. s.val \in Value /\ s.ver \in Nat /\ s.seq \in Nat /\ Apply(w, s)
        /\ s.seq = build[w].seq /\ s.ver = build[w].seen.ver
    BY <1>1
  <2>2. \A u \in Window : u # w => missed'[u] = missed[u]
    BY <1>0 DEF LinkOK
  <2> HIDE DEF s
  <2> QED
    BY <1>0, <2>1, <2>2, ApplyFacts
<1>3. /\ build' \in [Builder -> Build \cup {None}]
      /\ \A c \in Builder : (c = w /\ build'[c] = None) \/ build'[c] = build[c]
      /\ link' \in [Window -> {"off", "get", "got", "first", "built", "online"}]
      /\ \A u \in Window : (u # w /\ link'[u] = link[u]) \/ (u = w /\ link'[u] = "got")
  BY <1>0 DEF HubOK, LinkOK, Builder
<1>4. HubOK' /\ LinkOK' /\ StoreOK'
  <2>1. HubOK'
    BY <1>0, <1>3 DEF HubOK
  <2>2. LinkOK'
    BY <1>0, <1>3 DEF LinkOK
  <2>3. StoreOK'
    BY <1>0, <1>2 DEF StoreOK, Taken
  <2> QED
    BY <2>1, <2>2, <2>3
<1>5. Pictured'
  <2>1. /\ server'[w] # None /\ promise' = promise
        /\ \A u \in Window : u # w => server'[u] = server[u]
    BY <1>2 DEF Taken
  <2> QED
    BY <1>0, <1>3, <2>1 DEF Pictured
<1>6. Building'
  <2>1. build'[w] = None
    BY <1>0 DEF HubOK, Builder
  <2> QED
    BY <1>0, <1>3, <2>1 DEF Building, Builder
<1>7. Numbered'
  BY <1>0, <1>1, <1>2, <1>3 DEF Numbered, Taken
<1>8. Carry
  <2> SUFFICES ASSUME NEW n \in Nat, NEW v \in Nat, Newer(n, v)
               PROVE  Newer(n, v)'
    BY DEF Carry
  <2>1. \A u \in Window :
          server'[u] # None /\ ~behind'[u] /\ ~missed'[u] /\ n <= serverSeq'[u] => v <= server'[u].ver
    BY <1>0, <1>1, <1>2, TakenKeeps DEF Newer, Builder
  <2> QED
    BY <1>0, <1>3, <2>1 DEF Newer
<1>9. NewestOnItsWay'
  BY <1>0, <1>2, <1>3 DEF NewestOnItsWay, HasNewest, Joined, Taken
<1>10. Told'
  <2> SUFFICES ASSUME NEW u \in Joined'
               PROVE  /\ lost'[u] => missed'[u]
                      /\ ~missed'[u] => TellShown(queue'[u], server'[u].val)
                      /\ ~lost'[u] => TellNewest(queue'[u], latest'.val)
    BY DEF Told, TellShown, TellNewest, Before
  <2>1. u \in Joined /\ u # w
    BY <1>0, <1>3 DEF Joined
  <2>2. missed'[u] = missed[u] /\ server'[u] = server[u]
    BY <1>0, <1>2, <2>1 DEF LinkOK, Taken, Joined
  <2> QED
    BY <1>0, <2>1, <2>2 DEF Told
<1>11. Sound
  BY <1>4, <1>5, <1>6, <1>7, <1>8, <1>9, <1>10 DEF Sound, TypeOK
<1> QED
  BY <1>1, <1>2, <1>11

\* The newest snapshot is handed to a window that joins.
LEMMA JoinSound ==
  ASSUME IInv, NEW w \in Window, Join(w)
  PROVE  Sound
<1>0. /\ HubOK /\ LinkOK /\ StoreOK /\ Pictured /\ Building /\ Numbered /\ NewestOnItsWay /\ Told
      /\ UNCHANGED <<rig, seq, ackWanted, latest, build, server, serverSeq, hold, promise, behind,
                     lane, missed, events, breaks>>
      /\ link[w] \in {"got", "built"} /\ link' = [link EXCEPT ![w] = "online"]
      /\ latest # None /\ queue' = [queue EXCEPT ![w] = Handed]
      /\ lost' = [lost EXCEPT ![w] = FALSE]
  BY DEF IInv, TypeOK, counts, storeVars, hubVars, Join
<1>1. LET f == StateFrame(latest) IN
      /\ f \in Frame /\ f.kind = "state" /\ f.val = latest.val /\ f.ver = latest.ver
      /\ f.seq = latest.seq /\ latest.seq <= seq /\ Handed = <<f>>
  BY <1>0 DEF StateFrame, Frame, HubOK, Snapshot, Numbered, Handed
<1>2. /\ Handed \in Seq(Frame) /\ Len(Handed) = 1 /\ DOMAIN Handed = {1}
      /\ Handed[1].kind = "state" /\ Handed[1].val = latest.val
      /\ Handed[1].ver = latest.ver /\ Handed[1].seq = latest.seq
  <2> DEFINE f == StateFrame(latest)
  <2>1. /\ f \in Frame /\ f.kind = "state" /\ f.val = latest.val /\ f.ver = latest.ver
        /\ f.seq = latest.seq /\ Handed = <<f>>
    BY <1>1
  <2> HIDE DEF f
  <2> QED
    BY <2>1
<1>3. /\ queue' \in [Window -> Seq(Frame)] /\ lost' \in [Window -> BOOLEAN]
      /\ missed' \in [Window -> BOOLEAN] /\ (\A u \in Window : missed[u] => missed'[u])
      /\ link' \in [Window -> {"off", "get", "got", "first", "built", "online"}]
      /\ \A u \in Window :
           \/ /\ u # w /\ queue'[u] = queue[u] /\ lost'[u] = lost[u] /\ link'[u] = link[u]
           \/ u = w /\ queue'[u] = Handed /\ link'[u] = "online"
  BY <1>0, <1>2 DEF LinkOK
<1>4. HubOK' /\ LinkOK' /\ StoreOK'
  <2>1. HubOK'
    BY <1>0 DEF HubOK
  <2>2. LinkOK'
    <3>1. \A u \in Window : Len(queue'[u]) <= QueueSize
      <4> SUFFICES ASSUME NEW u \in Window PROVE Len(queue'[u]) <= QueueSize
        OBVIOUS
      <4>1. CASE u = w
        <5>1. Len(queue'[u]) = 1
          BY <1>2, <1>3, <4>1
        <5> QED
          BY <5>1, HubAssumption
      <4>2. CASE u # w
        BY <1>0, <1>3, <4>2 DEF LinkOK
      <4> QED
        BY <4>1, <4>2
    <3> QED
      BY <1>3, <3>1 DEF LinkOK
  <2>3. StoreOK'
    BY <1>0 DEF StoreOK
  <2> QED
    BY <2>1, <2>2, <2>3
<1>5. Pictured' /\ Building'
  BY <1>0, <1>3 DEF Pictured, Building
<1>6. Numbered'
  BY <1>0, <1>1, <1>2, <1>3 DEF Numbered
<1>7. Carry
  <2> SUFFICES ASSUME NEW n \in Nat, NEW v \in Nat, Newer(n, v)
               PROVE  Newer(n, v)'
    BY DEF Carry
  <2>1. \A u \in Window : \A i \in DOMAIN queue'[u] :
          queue'[u][i].kind # "other" /\ n <= queue'[u][i].seq => v <= queue'[u][i].ver
    BY <1>0, <1>2, <1>3 DEF Newer
  <2> QED
    BY <1>0, <2>1 DEF Newer
<1>8. NewestOnItsWay'
  <2>1. Carries(Handed, latest.val)
    BY <1>2 DEF Carries
  <2> SUFFICES ASSUME NEW u \in Window, link'[u] = "online", ~ lost'[u]
               PROVE  HasNewest(u)'
    BY DEF NewestOnItsWay, Joined
  <2>2. CASE u = w
    BY <1>0, <1>3, <2>1, <2>2 DEF HasNewest, Carries
  <2>3. CASE u # w
    <3>1. HasNewest(u)
      BY <1>0, <1>3, <2>3 DEF NewestOnItsWay, Joined
    <3> QED
      BY <1>0, <1>3, <2>3, <3>1 DEF HasNewest, Carries, HasState
  <2> QED
    BY <2>2, <2>3
<1>9. Told'
  <2> SUFFICES ASSUME NEW u \in Window, link'[u] = "online"
               PROVE  /\ lost'[u] => missed'[u]
                      /\ ~missed'[u] => TellShown(queue'[u], server'[u].val)
                      /\ ~lost'[u] => TellNewest(queue'[u], latest'.val)
    BY DEF Told, Joined, TellShown, TellNewest, Before
  <2>1. CASE u = w
    <3>1. \A i \in DOMAIN queue'[w] : queue'[w][i].kind # "ack"
      BY <1>2, <1>3
    <3>2. ~ lost'[w]
      BY <1>0 DEF LinkOK
    <3> QED
      BY <2>1, <3>1, <3>2 DEF TellShown, TellNewest
  <2>2. CASE u # w
    <3>1. u \in Joined
      BY <1>3, <2>2 DEF Joined
    <3> QED
      BY <1>0, <1>3, <2>2, <3>1 DEF Told
  <2> QED
    BY <2>1, <2>2
<1> QED
  BY <1>4, <1>5, <1>6, <1>7, <1>8, <1>9 DEF Sound, TypeOK

LEMMA DropSound ==
  ASSUME IInv, NEW w \in Window, Drop(w)
  PROVE  Sound
<1>0. /\ HubOK /\ LinkOK /\ StoreOK /\ Pictured /\ Building /\ Numbered /\ NewestOnItsWay /\ Told
      /\ UNCHANGED <<rig, seq, ackWanted, latest, build, server, serverSeq, hold, promise, behind,
                     lane, missed, events>>
      /\ link[w] = "online" /\ link' = [link EXCEPT ![w] = "off"] /\ breaks' = breaks + 1
      /\ queue' = [queue EXCEPT ![w] = << >>] /\ lost' = [lost EXCEPT ![w] = FALSE]
  BY DEF IInv, TypeOK, storeVars, hubVars, Drop, Break
<1>1. /\ queue' \in [Window -> Seq(Frame)] /\ lost' \in [Window -> BOOLEAN]
      /\ missed' \in [Window -> BOOLEAN] /\ (\A u \in Window : missed[u] => missed'[u])
      /\ link' \in [Window -> {"off", "get", "got", "first", "built", "online"}]
      /\ \A u \in Window :
           \/ u # w /\ queue'[u] = queue[u] /\ lost'[u] = lost[u] /\ link'[u] = link[u]
           \/ u = w /\ queue'[u] = << >> /\ link'[u] = "off"
  <2>1. << >> \in Seq(Frame)
    OBVIOUS
  <2>2. /\ queue' \in [Window -> Seq(Frame)] /\ queue'[w] = << >>
        /\ \A u \in Window : u # w => queue'[u] = queue[u]
    BY <1>0, <2>1 DEF LinkOK
  <2>3. /\ lost' \in [Window -> BOOLEAN]
        /\ \A u \in Window : u # w => lost'[u] = lost[u]
    BY <1>0 DEF LinkOK
  <2>4. /\ link' \in [Window -> {"off", "get", "got", "first", "built", "online"}]
        /\ link'[w] = "off" /\ \A u \in Window : u # w => link'[u] = link[u]
    BY <1>0 DEF LinkOK
  <2>5. missed' \in [Window -> BOOLEAN] /\ (\A u \in Window : missed[u] => missed'[u])
    BY <1>0 DEF LinkOK
  <2> QED
    BY <2>2, <2>3, <2>4, <2>5
<1>2. HubOK' /\ LinkOK' /\ StoreOK'
  <2>1. HubOK'
    BY <1>0 DEF HubOK
  <2>2. LinkOK'
    BY <1>0, <1>1, HubAssumption DEF LinkOK
  <2>3. StoreOK'
    BY <1>0 DEF StoreOK
  <2> QED
    BY <2>1, <2>2, <2>3
<1>3. Pictured' /\ Building'
  BY <1>0, <1>1 DEF Pictured, Building
<1>4. Numbered'
  BY <1>0, <1>1 DEF Numbered
<1>5. Carry
  BY <1>0, <1>1 DEF Carry, Newer
<1>6. NewestOnItsWay'
  <2> SUFFICES ASSUME NEW u \in Window, link'[u] = "online", ~ lost'[u]
               PROVE  HasNewest(u)'
    BY DEF NewestOnItsWay, Joined
  <2>1. u # w /\ HasNewest(u)
    BY <1>0, <1>1 DEF NewestOnItsWay, Joined
  <2> QED
    BY <1>0, <1>1, <2>1 DEF HasNewest, Carries, HasState
<1>7. Told'
  <2> SUFFICES ASSUME NEW u \in Window, link'[u] = "online"
               PROVE  /\ lost'[u] => missed'[u]
                      /\ ~missed'[u] => TellShown(queue'[u], server'[u].val)
                      /\ ~lost'[u] => TellNewest(queue'[u], latest'.val)
    BY DEF Told, Joined, TellShown, TellNewest, Before
  <2>1. u # w /\ u \in Joined
    BY <1>1 DEF Joined
  <2> QED
    BY <1>0, <1>1, <2>1 DEF Told
<1> QED
  BY <1>2, <1>3, <1>4, <1>5, <1>6, <1>7 DEF Sound, TypeOK

\* Taking a frame that says nothing changes nothing shown.
LEMMA DeliverSound ==
  ASSUME IInv, NEW w \in Window, Deliver(w)
  PROVE  Sound /\ (UNCHANGED storeVars \/ \E n, v \in Nat : Taken(w, n, v))
<1> DEFINE q == queue[w]
           f == Head(q)
<1>0. /\ HubOK /\ LinkOK /\ StoreOK /\ Pictured /\ Building /\ Numbered /\ NewestOnItsWay /\ Told
      /\ UNCHANGED <<rig, seq, ackWanted, latest, build, link, lane, lost, events, breaks>>
      /\ link[w] = "online" /\ queue[w] # << >>
      /\ queue' = [queue EXCEPT ![w] = Tail(queue[w])]
      /\ missed' = [missed EXCEPT ![w] =
                      missed[w] /\ (f.kind = "state" => lost[w] \/ HasState(queue'[w]))]
      /\ CASE f.kind = "state" -> Apply(w, f)
           [] f.kind = "ack" -> Acknowledge(w, f)
           [] OTHER -> UNCHANGED storeVars
  BY DEF IInv, TypeOK, counts, hubVars, Deliver
<1>1. q \in Seq(Frame) /\ q # << >> /\ Len(q) <= QueueSize
  BY <1>0 DEF LinkOK
<1>2. /\ Tail(q) \in Seq(Frame) /\ Len(Tail(q)) <= QueueSize /\ f \in Frame
      /\ \A i \in DOMAIN Tail(q) : \E j \in DOMAIN q : Tail(q)[i] = q[j]
      /\ f = q[1] /\ 1 \in DOMAIN q
      /\ ~ HasState(q) => f.kind # "state" /\ ~ HasState(Tail(q))
      /\ \A v : Carries(q, v) => \/ Carries(Tail(q), v)
                                 \/ ~ HasState(Tail(q)) /\ f.kind = "state" /\ f.val = v
  <2> HIDE DEF q
  <2>1. Tail(q) \in Seq(Frame) /\ Len(Tail(q)) < Len(q)
    BY <1>1, TailCarries
  <2>2. Len(Tail(q)) <= QueueSize
    BY <1>1, <2>1, HubAssumption
  <2>3. /\ f \in Frame /\ f = q[1] /\ 1 \in DOMAIN q
        /\ \A i \in DOMAIN Tail(q) : \E j \in DOMAIN q : Tail(q)[i] = q[j]
        /\ ~ HasState(q) => f.kind # "state" /\ ~ HasState(Tail(q))
    BY <1>1, TailCarries
  <2>4. \A v : Carries(q, v) => \/ Carries(Tail(q), v)
                                \/ ~ HasState(Tail(q)) /\ f.kind = "state" /\ f.val = v
    BY <1>1, TailCarries
  <2> QED
    BY <2>1, <2>2, <2>3, <2>4
<1>3. /\ queue' \in [Window -> Seq(Frame)] /\ queue'[w] = Tail(q)
      /\ \A u \in Window : Len(queue'[u]) <= QueueSize
      /\ \A u \in Window : u # w => queue'[u] = queue[u]
      /\ \A u \in Window : \A i \in DOMAIN queue'[u] :
           \E j \in DOMAIN queue[u] : queue'[u][i] = queue[u][j]
  <2>1. /\ queue' \in [Window -> Seq(Frame)] /\ queue'[w] = Tail(q)
        /\ \A u \in Window : u # w => queue'[u] = queue[u]
    BY <1>0, <1>2 DEF LinkOK
  <2> QED
    BY <1>0, <1>2, <2>1 DEF LinkOK
<1> HIDE DEF q, f
<1>4. server[w] # None
  BY <1>0 DEF Pictured
<1>4a. /\ missed' \in [Window -> BOOLEAN]
       /\ \A u \in Window : u # w => missed'[u] = missed[u]
       /\ missed'[w] => missed[w]
       /\ f.kind # "state" => missed' = missed
       /\ missed[w] /\ ~missed'[w] => f.kind = "state" /\ ~lost[w] /\ ~HasState(queue'[w])
  <2>1. /\ (missed[w] /\ (f.kind = "state" => lost[w] \/ HasState(queue'[w]))) \in BOOLEAN
        /\ missed \in [Window -> BOOLEAN]
    BY <1>0 DEF LinkOK
  <2>2. /\ missed' \in [Window -> BOOLEAN]
        /\ \A u \in Window : u # w => missed'[u] = missed[u]
        /\ missed'[w] = (missed[w] /\ (f.kind = "state" => lost[w] \/ HasState(queue'[w])))
    BY <1>0, <2>1
  <2>3. f.kind # "state" => missed' = missed
    BY <1>0, <2>1
  <2> QED
    BY <2>2, <2>3
<1>4b. f.kind = "ack" /\ ~missed[w] => f.val = server[w].val
  <2> SUFFICES ASSUME f.kind = "ack", ~missed[w]
               PROVE  f.val = server[w].val
    OBVIOUS
  <2>1. TellShown(q, server[w].val)
    BY <1>0 DEF Told, Joined, q
  <2>2. Before(q, server[w].val, 1, f.val)
    BY <1>2, <2>1 DEF TellShown
  <2> QED
    BY <2>2 DEF Before
<1>5. /\ f.kind # "other" => f.seq \in Nat /\ f.ver \in Nat /\ f.seq <= seq
      /\ f.kind = "state" => f.val \in Value
      /\ f.kind \in {"state", "ack", "other"}
  <2>1. f.kind # "other" => f.seq \in Nat /\ f.ver \in Nat
    BY <1>2 DEF Frame, Noise
  <2>2. f.kind # "other" => f.seq <= seq
    BY <1>0, <1>2 DEF Numbered, q
  <2>3. (f.kind = "state" => f.val \in Value) /\ f.kind \in {"state", "ack", "other"}
    BY <1>2 DEF Frame, Noise
  <2> QED
    BY <2>1, <2>2, <2>3
<1>6. /\ f.kind = "state" => Taken(w, f.seq, f.ver) /\ server'[w].val = f.val
      /\ f.kind = "ack" => Taken(w, f.seq, f.ver) /\ server'[w].val = server[w].val
      /\ f.kind = "other" => UNCHANGED storeVars
  <2>1. CASE f.kind = "state"
    BY <1>0, <1>4a, <1>5, <2>1, ApplyFacts
  <2>2. CASE f.kind = "ack"
    BY <1>0, <1>4, <1>4a, <1>4b, <1>5, <2>2, AcknowledgeFacts
  <2>3. CASE f.kind = "other"
    BY <1>0, <2>3
  <2> QED
    BY <1>5, <2>1, <2>2, <2>3
<1>7. /\ StoreOK' /\ server'[w] # None
      /\ \A u \in Window : u # w => server'[u] = server[u] /\ serverSeq'[u] = serverSeq[u]
      /\ serverSeq'[w] = serverSeq[w] \/ (serverSeq'[w] \in Nat /\ serverSeq'[w] <= seq)
      /\ f.kind # "state" => server'[w].val = server[w].val
      /\ promise' = promise
  <2>1. CASE f.kind = "other"
    BY <1>0, <1>4, <1>6, <2>1 DEF StoreOK, storeVars
  <2>2. CASE f.kind # "other"
    <3>1. Taken(w, f.seq, f.ver)
      BY <1>5, <1>6, <2>2
    <3>2. StoreOK'
      BY <1>0, <3>1 DEF StoreOK, Taken
    <3>3. serverSeq'[w] = serverSeq[w] \/ (serverSeq'[w] \in Nat /\ serverSeq'[w] <= seq)
      BY <1>5, <2>2, <3>1 DEF Taken
    <3> QED
      BY <1>5, <1>6, <2>2, <3>1, <3>2, <3>3 DEF Taken
  <2> QED
    BY <2>1, <2>2
<1>8. HubOK' /\ LinkOK'
  BY <1>0, <1>3, <1>4a DEF HubOK, LinkOK
<1>9. Pictured' /\ Building'
  BY <1>0, <1>7 DEF Pictured, Building
<1>10. Numbered'
  <2>1. \A u \in Window : \A i \in DOMAIN queue'[u] :
          queue'[u][i].kind # "other" => queue'[u][i].seq <= seq
    BY <1>0, <1>3 DEF Numbered
  <2>2. \A u \in Window : serverSeq'[u] <= seq
    BY <1>0, <1>7 DEF Numbered
  <2> QED
    BY <1>0, <2>1, <2>2 DEF Numbered
<1>11. Carry
  <2> SUFFICES ASSUME NEW n \in Nat, NEW v \in Nat, Newer(n, v)
               PROVE  Newer(n, v)'
    BY DEF Carry
  <2>1. \A u \in Window :
          server'[u] # None /\ ~behind'[u] /\ ~missed'[u] /\ n <= serverSeq'[u] => v <= server'[u].ver
    <3>1. CASE f.kind = "other"
      BY <1>4a, <1>6, <3>1 DEF Newer, storeVars
    <3>2. CASE f.kind # "other"
      <4>1. n <= f.seq => v <= f.ver
        BY <1>2, <3>2 DEF Newer, q
      <4>2. \A u \in Window :
              server[u] # None /\ ~behind[u] /\ ~missed[u] /\ n <= serverSeq[u] => v <= server[u].ver
        BY DEF Newer
      <4> QED
        BY <1>0, <1>5, <1>6, <3>2, <4>1, <4>2, TakenKeeps
    <3> QED
      BY <3>1, <3>2
  <2>2. \A u \in Window : \A i \in DOMAIN queue'[u] :
          queue'[u][i].kind # "other" /\ n <= queue'[u][i].seq => v <= queue'[u][i].ver
    BY <1>3 DEF Newer
  <2> QED
    BY <1>0, <2>1, <2>2 DEF Newer
<1>12. NewestOnItsWay'
  <2> SUFFICES ASSUME NEW u \in Window, link'[u] = "online", ~ lost'[u]
               PROVE  HasNewest(u)'
    BY DEF NewestOnItsWay, Joined
  <2>1. HasNewest(u)
    BY <1>0 DEF NewestOnItsWay, Joined
  <2>2. CASE u # w
    BY <1>0, <1>3, <1>7, <2>1, <2>2 DEF HasNewest, Carries, HasState
  <2>3. CASE u = w /\ Carries(q, latest.val)
    <3>1. CASE Carries(Tail(q), latest.val)
      <4>1. Carries(queue'[w], latest'.val)
        BY <1>0, <1>3, <3>1
      <4> QED
        BY <2>3, <4>1 DEF HasNewest, Carries
    <3>2. CASE ~ HasState(Tail(q)) /\ f.kind = "state" /\ f.val = latest.val
      <4>1. ~ HasState(queue'[w]) /\ server'[w].val = latest'.val
        BY <1>0, <1>3, <1>6, <3>2
      <4> QED
        BY <2>3, <4>1 DEF HasNewest, HasState
    <3> QED
      BY <1>2, <2>3, <3>1, <3>2
  <2>4. CASE u = w /\ ~ HasState(q) /\ server[w].val = latest.val
    <3>1. ~ HasState(Tail(q)) /\ server'[w].val = latest.val
      BY <1>2, <1>7, <2>4
    <3>2. ~ HasState(queue'[w]) /\ server'[w].val = latest'.val
      BY <1>0, <1>3, <3>1
    <3> QED
      BY <2>4, <3>2 DEF HasNewest, HasState
  <2> QED
    BY <2>1, <2>2, <2>3, <2>4 DEF HasNewest, q
<1>13. Told'
  <2> SUFFICES ASSUME NEW u \in Window, link'[u] = "online"
               PROVE  /\ lost'[u] => missed'[u]
                      /\ ~missed'[u] => TellShown(queue'[u], server'[u].val)
                      /\ ~lost'[u] => TellNewest(queue'[u], latest'.val)
    BY DEF Told, Joined, TellShown, TellNewest, Before
  <2>1. /\ lost[u] => missed[u]
        /\ ~missed[u] => TellShown(queue[u], server[u].val)
        /\ ~lost[u] => TellNewest(queue[u], latest.val)
    BY <1>0 DEF Told, Joined
  <2>2. CASE u # w
    BY <1>0, <1>3, <1>4a, <1>7, <2>1, <2>2
  <2>3. CASE u = w
    <3>1. lost[w] => missed'[w]
      BY <1>4a, <2>1, <2>3
    <3>2. server'[w].val = (IF q[1].kind = "state" THEN q[1].val ELSE server[w].val)
      BY <1>2, <1>6, <1>7
    <3>3. ~missed[w] => TellShown(Tail(q), server'[w].val)
      BY <1>1, <2>1, <2>3, <3>2, TailTells DEF q
    <3>4. ~lost[w] => TellNewest(Tail(q), latest.val)
      BY <1>1, <2>1, <2>3, TailTells DEF q
    <3>5. missed[w] /\ ~missed'[w] => TellShown(Tail(q), server'[w].val)
      <4> SUFFICES ASSUME missed[w], ~missed'[w]
                   PROVE  TellShown(Tail(q), server'[w].val)
        OBVIOUS
      <4>1. ~lost[w] /\ ~HasState(Tail(q))
        BY <1>3, <1>4a
      <4>2. TellNewest(q, latest.val)
        BY <2>1, <2>3, <4>1 DEF q
      <4>3. TellShown(Tail(q), latest.val)
        BY <1>1, <4>1, <4>2, TailTells
      <4>4. HasNewest(w)'
        BY <1>0, <1>12, <4>1 DEF NewestOnItsWay, Joined
      <4>5. ~HasState(queue'[w]) /\ ~Carries(queue'[w], latest'.val)
        BY <1>3, <4>1 DEF Carries, HasState
      <4>6. server'[w].val = latest.val
        BY <1>0, <4>4, <4>5 DEF HasNewest, Carries, HasState
      <4> QED
        BY <4>3, <4>6
    <3> QED
      BY <1>0, <1>3, <2>3, <3>1, <3>3, <3>4, <3>5
  <2> QED
    BY <2>2, <2>3
<1>14. Sound
  BY <1>7, <1>8, <1>9, <1>10, <1>11, <1>12, <1>13 DEF Sound, TypeOK
<1>15. UNCHANGED storeVars \/ \E n, v \in Nat : Taken(w, n, v)
  BY <1>5, <1>6
<1> QED
  BY <1>14, <1>15

\* A frame that says nothing, from a meter or a toast.
LEMMA NoiseSound ==
  ASSUME IInv, Toast \/ \E w \in Window : Meter(w)
  PROVE  Sound
<1>0. /\ HubOK /\ LinkOK /\ StoreOK /\ Pictured /\ Building /\ Numbered /\ NewestOnItsWay /\ Told
      /\ UNCHANGED <<rig, seq, ackWanted, latest, build, link, server, serverSeq, hold, promise,
                     behind, lane>>
      /\ events' = events + 1 /\ breaks' = breaks
  BY DEF IInv, TypeOK, storeVars, hubVars, Toast, Meter, Event
<1>1. Noise \in Frame /\ Noise.kind = "other"
  BY DEF Frame, Noise
<1>2. /\ queue' \in [Window -> Seq(Frame)] /\ lost' \in [Window -> BOOLEAN]
      /\ missed' \in [Window -> BOOLEAN] /\ (\A u \in Window : missed[u] => missed'[u])
      /\ \A w \in Window : Len(queue'[w]) <= QueueSize
      /\ \A w \in Window : \A i \in DOMAIN queue'[w] :
           queue'[w][i].kind # "other" => \E j \in DOMAIN queue[w] : queue'[w][i] = queue[w][j]
      /\ \A w \in Joined : ~ lost'[w] =>
           /\ ~ lost[w]
           /\ ~ HasState(queue[w]) => ~ HasState(queue'[w])
           /\ \A v : Carries(queue[w], v) => Carries(queue'[w], v)
  <2>1. CASE Toast
    <3>1. OfferAll(Noise, {}) /\ {} \in SUBSET Window
      BY <2>1 DEF Toast
    <3>2. /\ queue' \in [Window -> Seq(Frame)] /\ lost' \in [Window -> BOOLEAN]
          /\ missed' \in [Window -> BOOLEAN] /\ (\A u \in Window : missed[u] => missed'[u])
          /\ \A w \in Window : Len(queue'[w]) <= QueueSize
          /\ \A w \in Window : \A i \in DOMAIN queue'[w] :
               queue'[w][i].kind # "other" =>
                 queue'[w][i] = Noise \/ \E j \in DOMAIN queue[w] : queue'[w][i] = queue[w][j]
      BY <1>0, <1>1, <3>1, OfferAllFacts
    <3>3. \A w \in Joined : ~ lost'[w] =>
            /\ Noise.kind # "state" =>
                 /\ ~ lost[w]
                 /\ ~ HasState(queue[w]) => ~ HasState(queue'[w])
                 /\ \A v : Carries(queue[w], v) => Carries(queue'[w], v)
      BY <1>0, <1>1, <3>1, OfferAllFacts
    <3> QED
      BY <1>1, <3>2, <3>3
  <2>2. CASE \E w \in Window : Meter(w)
    <3>1. PICK w \in Window : Meter(w)
      BY <2>2
    <3> DEFINE q == queue[w]
               r == Offer(queue[w], Noise, FALSE)
    <3>2. ~ Full(q) /\ UNCHANGED <<lost, missed>> /\ queue' = [queue EXCEPT ![w] = r]
      BY <3>1 DEF Meter, Offer
    <3>3. q \in Seq(Frame) /\ Len(q) <= QueueSize /\ FALSE \in BOOLEAN
      BY <1>0 DEF LinkOK
    <3> HIDE DEF q
    <3>4. /\ r \in Seq(Frame) /\ Len(r) <= QueueSize
          /\ Len(r) = Len(q) + 1 /\ \A i \in 1 .. Len(q) : r[i] = q[i]
      BY <1>1, <3>2, <3>3, OfferFacts DEF q
    <3>5. \A i \in DOMAIN r : r[i].kind # "other" => \E j \in DOMAIN q : r[i] = q[j]
      BY <1>1, <3>3, OfferFrames DEF q
    <3>6. /\ ~ HasState(q) => ~ HasState(r)
          /\ \A v : Carries(q, v) /\ HasState(r) => Carries(r, v)
      BY <1>1, <3>3, OfferCarries DEF q
    <3> HIDE DEF r
    <3>7. HasState(q) => HasState(r)
      <4>1. DOMAIN q = 1 .. Len(q) /\ DOMAIN r = 1 .. Len(r) /\ Len(q) \in Nat
        BY <3>3, <3>4
      <4> QED
        BY <3>4, <4>1 DEF HasState
    <3>8. \A v : Carries(q, v) => Carries(r, v)
      <4>1. \A v : Carries(q, v) => HasState(q)
        BY DEF Carries, HasState
      <4> QED
        BY <3>6, <3>7, <4>1
    <3>9. /\ queue' \in [Window -> Seq(Frame)] /\ queue'[w] = r
          /\ \A u \in Window : u # w => queue'[u] = queue[u]
      BY <1>0, <3>2, <3>4 DEF LinkOK
    <3>10. /\ lost' \in [Window -> BOOLEAN] /\ missed' \in [Window -> BOOLEAN]
           /\ (\A u \in Window : missed[u] => missed'[u])
           /\ \A u \in Window : Len(queue'[u]) <= QueueSize
      BY <1>0, <3>2, <3>4, <3>9 DEF LinkOK
    <3>11. \A u \in Window : \A i \in DOMAIN queue'[u] :
             queue'[u][i].kind # "other" => \E j \in DOMAIN queue[u] : queue'[u][i] = queue[u][j]
      BY <3>5, <3>9 DEF q
    <3>12. \A u \in Joined : ~ lost'[u] =>
             /\ ~ lost[u]
             /\ ~ HasState(queue[u]) => ~ HasState(queue'[u])
             /\ \A v : Carries(queue[u], v) => Carries(queue'[u], v)
      <4> SUFFICES ASSUME NEW u \in Window, ~ lost'[u]
                   PROVE  /\ ~ lost[u]
                          /\ ~ HasState(queue[u]) => ~ HasState(queue'[u])
                          /\ \A v : Carries(queue[u], v) => Carries(queue'[u], v)
        BY DEF Joined
      <4>1. CASE u = w
        BY <3>2, <3>6, <3>8, <3>9, <4>1 DEF q
      <4>2. CASE u # w
        BY <3>2, <3>9, <4>2
      <4> QED
        BY <4>1, <4>2
    <3> QED
      BY <3>9, <3>10, <3>11, <3>12
  <2> QED
    BY <2>1, <2>2
<1>3. HubOK' /\ LinkOK' /\ StoreOK'
  <2>1. HubOK'
    BY <1>0 DEF HubOK
  <2>2. LinkOK'
    BY <1>0, <1>2 DEF LinkOK
  <2>3. StoreOK'
    BY <1>0 DEF StoreOK
  <2> QED
    BY <2>1, <2>2, <2>3
<1>4. Pictured' /\ Building'
  BY <1>0 DEF Pictured, Building
<1>5. Numbered'
  BY <1>0, <1>2 DEF Numbered
<1>6. Carry
  BY <1>0, <1>2 DEF Carry, Newer
<1>7. NewestOnItsWay'
  <2> SUFFICES ASSUME NEW w \in Window, link'[w] = "online", ~ lost'[w]
               PROVE  HasNewest(w)'
    BY DEF NewestOnItsWay, Joined
  <2>1. w \in Joined
    BY <1>0 DEF Joined
  <2>2. HasNewest(w)
    BY <1>0, <1>2, <2>1 DEF NewestOnItsWay
  <2>3. CASE Carries(queue[w], latest.val)
    <3>1. Carries(queue'[w], latest'.val)
      BY <1>0, <1>2, <2>1, <2>3
    <3> QED
      BY <3>1 DEF HasNewest, Carries
  <2>4. CASE ~ HasState(queue[w]) /\ server[w].val = latest.val
    BY <1>0, <1>2, <2>1, <2>4 DEF HasNewest, HasState
  <2> QED
    BY <2>2, <2>3, <2>4 DEF HasNewest
<1>8. Told'
  <2>1. CASE Toast
    <3>1. OfferAll(Noise, {}) /\ {} \in SUBSET Window
      BY <2>1 DEF Toast
    <3> QED
      BY <1>0, <1>1, <3>1, OfferAllTold
  <2>2. CASE \E w \in Window : Meter(w)
    <3>1. PICK w \in Window : Meter(w)
      BY <2>2
    <3>2. /\ UNCHANGED <<lost, missed>> /\ queue'[w] = Append(queue[w], Noise)
          /\ \A u \in Window : u # w => queue'[u] = queue[u]
      BY <1>0, <3>1 DEF Meter, LinkOK
    <3> SUFFICES ASSUME NEW u \in Window, link'[u] = "online"
                 PROVE  /\ lost'[u] => missed'[u]
                        /\ ~missed'[u] => TellShown(queue'[u], server'[u].val)
                        /\ ~lost'[u] => TellNewest(queue'[u], latest'.val)
      BY DEF Told, Joined, TellShown, TellNewest, Before
    <3>3. /\ lost[u] => missed[u]
          /\ ~missed[u] => TellShown(queue[u], server[u].val)
          /\ ~lost[u] => TellNewest(queue[u], latest.val)
      BY <1>0 DEF Told, Joined
    <3>4. /\ TellShown(queue[u], server[u].val)
               => TellShown(Append(queue[u], Noise), server[u].val)
          /\ TellNewest(queue[u], latest.val) => TellNewest(Append(queue[u], Noise), latest.val)
      <4>1. queue[u] \in Seq(Frame)
        BY <1>0 DEF LinkOK
      <4> QED
        BY <1>1, <4>1, AppendTells
    <3>5. server' = server /\ latest' = latest
      BY <1>0
    <3> QED
      BY <3>2, <3>3, <3>4, <3>5
  <2> QED
    BY <2>1, <2>2
<1> QED
  BY <1>3, <1>4, <1>5, <1>6, <1>7, <1>8 DEF Sound, TypeOK

\* A step of the rig, of a press or of its post: the hub and what is on its way
\* stay.
LEMMA PressSound ==
  ASSUME IInv, UNCHANGED <<seq, latest, build, link, queue, server, serverSeq, behind, lost, missed>>,
         ackWanted' \in BOOLEAN, rig' \in Picture, rig.ver <= rig'.ver,
         hold' \in [Window -> Hold \cup {None}], lane' \in [Window -> Seq(Post)],
         promise' \in [Window -> Nat], events' \in Nat, breaks' \in Nat,
         \A w \in Window : lane'[w] # << >> \/ promise'[w] > 0 => server[w] # None
  PROVE  Sound
<1>0. HubOK /\ LinkOK /\ StoreOK /\ Pictured /\ Building /\ Numbered /\ NewestOnItsWay /\ Told
  BY DEF IInv, TypeOK
<1>1. HubOK' /\ LinkOK' /\ StoreOK'
  <2>1. HubOK'
    BY <1>0 DEF HubOK
  <2>2. LinkOK'
    BY <1>0 DEF LinkOK
  <2>3. StoreOK'
    BY <1>0 DEF StoreOK
  <2> QED
    BY <2>1, <2>2, <2>3
<1>2. Pictured' /\ Building' /\ Numbered'
  BY <1>0 DEF Pictured, Building, Numbered
<1>3. Carry
  BY <1>0 DEF Carry, Newer, HubOK, Picture
<1>4. NewestOnItsWay'
  BY <1>0 DEF NewestOnItsWay, HasNewest, Joined
<1>5. Told'
  BY <1>0, ToldStays
<1> QED
  BY <1>1, <1>2, <1>3, <1>4, <1>5 DEF Sound, TypeOK

-----------------------------------------------------------------------------
(* The presses and their holds.                                            *)

\* The posts after a step: each was there, or is backed by what the step made.
LEMMA PostedNext ==
  ASSUME IInv, Carry, rig' \in Picture, rig.ver <= rig'.ver,
         \A w \in Window : \A i \in DOMAIN lane'[w] :
           \/ \E j \in DOMAIN lane[w] : lane'[w][i] = lane[w][j]
           \/ lane'[w][i].at = "sent"
           \/ lane'[w][i].at = "acted" /\ lane'[w][i].ver <= rig'.ver
           \/ /\ lane'[w][i].at = "marked"
              /\ \E n, v \in Nat : lane'[w][i].seq = n /\ lane'[w][i].ver = v /\ Newer(n, v)'
  PROVE  Posted'
<1>0. /\ lane \in [Window -> Seq(Post)] /\ rig.ver \in Nat /\ rig'.ver \in Nat /\ Posted
  BY DEF IInv, TypeOK, HubOK, StoreOK, Picture
<1>1. ASSUME NEW w \in Window, NEW i \in DOMAIN lane'[w]
      PROVE  /\ lane'[w][i].at = "acted" => lane'[w][i].ver <= rig'.ver
             /\ lane'[w][i].at = "marked" =>
                  \E n, v \in Nat : lane'[w][i].seq = n /\ lane'[w][i].ver = v /\ Newer(n, v)'
  <2>1. CASE \E j \in DOMAIN lane[w] : lane'[w][i] = lane[w][j]
    <3>1. PICK j \in DOMAIN lane[w] : lane'[w][i] = lane[w][j]
      BY <2>1
    <3>2. lane[w][j] \in Post
      BY <1>0
    <3>3. PICK n \in Nat, v \in Nat : n = lane[w][j].seq /\ v = lane[w][j].ver
      BY <3>2 DEF Post
    <3>4. lane[w][j].at = "acted" => lane[w][j].ver <= rig.ver
      BY <1>0 DEF Posted
    <3>5. lane[w][j].at = "marked" => Newer(n, v)
      BY <1>0, <3>3 DEF Posted
    <3>6. Newer(n, v) => Newer(n, v)'
      BY DEF Carry
    <3> QED
      BY <1>0, <3>1, <3>3, <3>4, <3>5, <3>6
  <2>2. CASE ~ \E j \in DOMAIN lane[w] : lane'[w][i] = lane[w][j]
    BY <2>2
  <2> QED
    BY <2>1, <2>2
<1>2. ASSUME NEW w \in Window, NEW i \in DOMAIN lane'[w], lane'[w][i].at = "marked"
      PROVE  Newer(lane[w][i].seq, lane[w][i].ver)'
  <2>1. PICK n \in Nat, v \in Nat :
          lane'[w][i].seq = n /\ lane'[w][i].ver = v /\ Newer(n, v)'
    BY <1>1, <1>2
  <2> QED
    BY <2>1 DEF Newer
<1> QED
  BY <1>1, <1>2 DEF Posted

\* The promises after a step: each is void, was there with the number it rests
\* on, or is backed from the number on that it rests on now.
LEMMA PromisedNext ==
  ASSUME IInv, Carry,
         \A w \in Window :
           \/ promise'[w] = 0
           \/ UNCHANGED <<promise[w], hold[w], serverSeq[w]>>
           \/ /\ hold'[w] # None => hold'[w].settled
              /\ \E n, v \in Nat :
                   /\ n = (IF hold'[w] # None THEN hold'[w].seq ELSE serverSeq'[w])
                   /\ v = promise'[w] /\ Newer(n, v)'
  PROVE  Promised'
<1>0. /\ serverSeq \in [Window -> Nat] /\ hold \in [Window -> Hold \cup {None}]
      /\ promise \in [Window -> Nat] /\ Promised
  BY DEF IInv, TypeOK, StoreOK
<1> SUFFICES ASSUME NEW w \in Window, promise'[w] > 0
             PROVE  /\ hold'[w] # None => hold'[w].settled /\ Newer(hold[w].seq, promise[w])'
                    /\ hold'[w] = None => Newer(serverSeq[w], promise[w])'
  BY DEF Promised
<1>1. /\ hold'[w] # None => hold'[w].settled
      /\ \E n, v \in Nat :
           /\ n = (IF hold'[w] # None THEN hold'[w].seq ELSE serverSeq'[w])
           /\ v = promise'[w] /\ Newer(n, v)'
  <2>1. CASE UNCHANGED <<promise[w], hold[w], serverSeq[w]>>
    <3>1. promise[w] > 0 /\ promise'[w] = promise[w] /\ hold'[w] = hold[w] /\ serverSeq'[w] = serverSeq[w]
      BY <2>1
    <3> DEFINE m == IF hold[w] # None THEN hold[w].seq ELSE serverSeq[w]
    <3>2. m \in Nat /\ promise[w] \in Nat
      BY <1>0 DEF Hold
    <3>3. (hold[w] # None => hold[w].settled) /\ Newer(m, promise[w])
      BY <1>0, <3>1 DEF Promised
    <3>4. m = (IF hold'[w] # None THEN hold'[w].seq ELSE serverSeq'[w])
      BY <3>1
    <3> HIDE DEF m
    <3>5. PICK n \in Nat, v \in Nat : n = m /\ v = promise[w]
      BY <3>2
    <3>6. Newer(n, v)
      BY <3>3, <3>5
    <3>7. Newer(n, v)'
      BY <3>6 DEF Carry
    <3> QED
      BY <3>1, <3>3, <3>4, <3>5, <3>7
  <2>2. CASE promise'[w] # 0 /\ ~ UNCHANGED <<promise[w], hold[w], serverSeq[w]>>
    BY <2>2
  <2> QED
    BY <2>1, <2>2
<1>2. PICK n \in Nat, v \in Nat :
        /\ n = (IF hold'[w] # None THEN hold'[w].seq ELSE serverSeq'[w])
        /\ v = promise'[w] /\ Newer(n, v)'
  BY <1>1
<1>3. CASE hold'[w] # None
  BY <1>1, <1>2, <1>3 DEF Newer
<1>4. CASE hold'[w] = None
  BY <1>2, <1>4 DEF Newer
<1> QED
  BY <1>3, <1>4

\* The presses after a step that answers none of them and ends no hold.
LEMMA PressesKeep ==
  ASSUME IInv, Carry, UNCHANGED <<lane, hold, promise, serverSeq>>,
         rig' \in Picture, rig.ver <= rig'.ver
  PROVE  Posted' /\ Promised'
BY PostedNext, PromisedNext

\* The presses after the window took a picture numbered n.
LEMMA PressesTaken ==
  ASSUME IInv, Carry, UNCHANGED <<rig, lane>>, NEW w \in Window, NEW n \in Nat, NEW v \in Nat,
         Taken(w, n, v)
  PROVE  Posted' /\ Promised'
<1>0. /\ HubOK /\ StoreOK /\ Promised /\ TypeOK
  BY DEF IInv, TypeOK
<1>1. Posted'
  <2>1. rig' \in Picture /\ rig.ver <= rig'.ver
    BY <1>0 DEF HubOK, Picture
  <2> QED
    BY <2>1, PostedNext
<1>2. ASSUME promise'[w] # 0
      PROVE  /\ hold'[w] # None => hold'[w].settled
             /\ \E k, x \in Nat :
                  /\ k = (IF hold'[w] # None THEN hold'[w].seq ELSE serverSeq'[w])
                  /\ x = promise'[w] /\ Newer(k, x)'
  <2>1. /\ promise[w] \in Nat /\ promise[w] > 0 /\ promise'[w] = promise[w]
        /\ serverSeq[w] \in Nat /\ serverSeq'[w] \in Nat /\ serverSeq[w] <= serverSeq'[w]
        /\ hold[w] # None => hold[w].seq \in Nat
    BY <1>0, <1>2 DEF StoreOK, Taken, Hold
  <2>2. /\ hold[w] # None => hold[w].settled /\ Newer(hold[w].seq, promise[w])
        /\ hold[w] = None => Newer(serverSeq[w], promise[w])
    BY <1>0, <2>1 DEF Promised
  <2>3. \/ hold'[w] = hold[w]
        \/ hold'[w] = None /\ hold[w] # None /\ hold[w].seq <= serverSeq'[w]
    BY DEF Taken
  <2> DEFINE m == IF hold[w] # None THEN hold[w].seq ELSE serverSeq[w]
             k == IF hold'[w] # None THEN hold'[w].seq ELSE serverSeq'[w]
  <2>4. m \in Nat /\ k \in Nat /\ m <= k /\ Newer(m, promise[w])
    BY <2>1, <2>2, <2>3
  <2>5. hold'[w] # None => hold'[w].settled
    BY <2>2, <2>3
  <2> HIDE DEF m
  <2>6. PICK j \in Nat, x \in Nat : j = k /\ x = promise[w]
    BY <2>1, <2>4
  <2>7. Newer(m, x) /\ m <= j
    BY <2>4, <2>6
  <2>8. Newer(j, x)
    BY <1>0, <2>4, <2>7, NewerLater
  <2>9. Newer(j, x)'
    BY <2>8 DEF Carry
  <2> QED
    BY <2>1, <2>5, <2>6, <2>9
<1>3. \A u \in Window : u # w => UNCHANGED <<promise[u], hold[u], serverSeq[u]>>
  BY DEF Taken
<1>4. Promised'
  BY <1>2, <1>3, PromisedNext
<1> QED
  BY <1>1, <1>4

\* The facts every step below starts from.
LEMMA PressTypes ==
  ASSUME IInv
  PROVE  /\ rig \in Picture /\ rig.ver \in Nat /\ seq \in Nat /\ ackWanted \in BOOLEAN
         /\ server \in [Window -> Picture \cup {None}] /\ serverSeq \in [Window -> Nat]
         /\ hold \in [Window -> Hold \cup {None}] /\ lane \in [Window -> Seq(Post)]
         /\ promise \in [Window -> Nat] /\ events \in Nat /\ breaks \in Nat
         /\ \A w \in Window : lane[w] # << >> \/ promise[w] > 0 => server[w] # None
         /\ \A w \in Window : \A i \in DOMAIN lane[w] :
              /\ lane[w][i] \in Post
              /\ lane[w][i].at = "acted" => lane[w][i].ver <= rig.ver
              /\ lane[w][i].at = "marked" => Newer(lane[w][i].seq, lane[w][i].ver)
BY DEF IInv, TypeOK, HubOK, StoreOK, Picture, Pictured, Posted

LEMMA OtherChangeKeeps ==
  ASSUME IInv, NEW x \in Value, OtherChange(x)
  PROVE  Sound /\ Posted' /\ Promised'
<1>1. /\ UNCHANGED <<seq, latest, build, ackWanted, link, queue, server, serverSeq, hold, promise,
                     behind, lane, lost, missed, breaks>>
      /\ rig' = [val |-> x, ver |-> rig.ver + 1] /\ events' = events + 1
  BY DEF OtherChange, Change, Event, hubVars, storeVars
<1>2. rig' \in Picture /\ rig.ver <= rig'.ver
  BY <1>1, PressTypes DEF Picture
<1>3. Sound
  <2>1. /\ ackWanted' \in BOOLEAN /\ hold' \in [Window -> Hold \cup {None}]
        /\ lane' \in [Window -> Seq(Post)] /\ promise' \in [Window -> Nat]
        /\ events' \in Nat /\ breaks' \in Nat
        /\ \A w \in Window : lane'[w] # << >> \/ promise'[w] > 0 => server[w] # None
    BY <1>1, PressTypes
  <2> QED
    BY <1>1, <1>2, <2>1, PressSound
<1> QED
  BY <1>1, <1>2, <1>3, PressesKeep DEF Sound

\* A press: its post waits in the lane, and the promise of the one before is void.
LEMMA PressKeeps ==
  ASSUME IInv, NEW w \in Window, NEW x \in Value, Press(w, x)
  PROVE  Sound /\ Posted' /\ Promised'
<1> DEFINE h == [val |-> x, token |-> events', settled |-> FALSE, seq |-> 0]
           p == [val |-> x, token |-> events', at |-> "sent", ver |-> 0, seq |-> 0]
<1>1. /\ UNCHANGED <<rig, seq, latest, build, ackWanted, link, queue, server, serverSeq, behind,
                     lost, missed, breaks>>
      /\ server[w] # None /\ events' = events + 1
      /\ hold' = [hold EXCEPT ![w] = h] /\ lane' = [lane EXCEPT ![w] = Append(lane[w], p)]
      /\ promise' = [promise EXCEPT ![w] = 0]
  BY DEF Press, Event, hubVars
<1>2. events' \in Nat /\ h \in Hold /\ p \in Post /\ p.at = "sent"
  BY <1>1, PressTypes DEF Hold, Post
<1> HIDE DEF h, p
<1>3. /\ hold' \in [Window -> Hold \cup {None}] /\ lane' \in [Window -> Seq(Post)]
      /\ promise' \in [Window -> Nat] /\ promise'[w] = 0 /\ lane'[w] = Append(lane[w], p)
      /\ \A u \in Window : u # w =>
           hold'[u] = hold[u] /\ promise'[u] = promise[u] /\ lane'[u] = lane[u]
  BY <1>1, <1>2, PressTypes
<1>4. \A u \in Window : \A i \in DOMAIN lane'[u] :
        \/ \E j \in DOMAIN lane[u] : lane'[u][i] = lane[u][j]
        \/ lane'[u][i].at = "sent"
  <2> SUFFICES ASSUME NEW i \in DOMAIN lane'[w]
               PROVE  \/ \E j \in DOMAIN lane[w] : lane'[w][i] = lane[w][j]
                      \/ lane'[w][i].at = "sent"
    BY <1>3
  <2>1. lane[w] \in Seq(Post)
    BY PressTypes
  <2>2. i \in 1 .. Len(lane[w]) + 1
    BY <1>2, <1>3, <2>1
  <2> QED
    BY <1>2, <1>3, <2>1, <2>2
<1>5. rig' \in Picture /\ rig.ver <= rig'.ver
  BY <1>1, PressTypes
<1>6. Sound
  <2>1. ackWanted' \in BOOLEAN /\ breaks' \in Nat
    BY <1>1, PressTypes
  <2>2. \A u \in Window : lane'[u] # << >> \/ promise'[u] > 0 => server[u] # None
    BY <1>1, <1>3, PressTypes
  <2> QED
    BY <1>1, <1>2, <1>3, <1>5, <2>1, <2>2, PressSound
<1>7. Posted'
  BY <1>4, <1>5, <1>6, PostedNext DEF Sound
<1>8. Promised'
  <2>1. \A u \in Window : promise'[u] = 0 \/ UNCHANGED <<promise[u], hold[u], serverSeq[u]>>
    BY <1>1, <1>3
  <2> QED
    BY <1>6, <2>1, PromisedNext DEF Sound
<1> QED
  BY <1>6, <1>7, <1>8

\* The rig acts on the oldest post: the version it makes is the rig's.
LEMMA ActKeeps ==
  ASSUME IInv, NEW w \in Window, Act(w)
  PROVE  Sound /\ Posted' /\ Promised'
<1> DEFINE p == lane[w][1]
           r == [p EXCEPT !.at = "acted", !.ver = rig.ver + 1]
<1>1. /\ UNCHANGED <<seq, latest, build, ackWanted, link, queue, server, serverSeq, hold, promise,
                     behind, lost, missed, events, breaks>>
      /\ lane[w] # << >>
      /\ rig' = [val |-> Head(lane[w]).val, ver |-> rig.ver + 1]
      /\ lane' = [lane EXCEPT ![w][1].at = "acted", ![w][1].ver = rig.ver + 1]
  BY DEF Act, Change, hubVars, storeVars, counts
<1>2. /\ lane[w] \in Seq(Post) /\ Head(lane[w]) = p /\ 1 \in DOMAIN lane[w] /\ p \in Post
      /\ p.val \in Value
  <2>1. lane[w] \in Seq(Post)
    BY PressTypes
  <2>2. Head(lane[w]) = p /\ 1 \in DOMAIN lane[w] /\ p \in Post
    BY <1>1, <2>1
  <2> QED
    BY <2>1, <2>2 DEF Post
<1>3. rig' \in Picture /\ rig.ver <= rig'.ver /\ rig'.ver = rig.ver + 1
  BY <1>1, <1>2, PressTypes DEF Picture
<1>4. r \in Post /\ r.at = "acted" /\ r.ver = rig'.ver
  <2>1. rig.ver + 1 \in Nat
    BY PressTypes
  <2> HIDE DEF p
  <2> QED
    BY <1>2, <1>3, <2>1 DEF Post
<1>5. lane' = [lane EXCEPT ![w] = [lane[w] EXCEPT ![1] = r]]
  BY <1>1
<1> HIDE DEF p, r
<1>6. /\ lane' \in [Window -> Seq(Post)] /\ lane'[w] = [lane[w] EXCEPT ![1] = r]
      /\ \A u \in Window : u # w => lane'[u] = lane[u]
  <2>1. [lane[w] EXCEPT ![1] = r] \in Seq(Post)
    BY <1>2, <1>4
  <2> QED
    BY <1>5, <2>1, PressTypes
<1>7. \A u \in Window : \A i \in DOMAIN lane'[u] :
        \/ \E j \in DOMAIN lane[u] : lane'[u][i] = lane[u][j]
        \/ lane'[u][i].at = "acted" /\ lane'[u][i].ver <= rig'.ver
  <2> SUFFICES ASSUME NEW i \in DOMAIN lane'[w]
               PROVE  \/ \E j \in DOMAIN lane[w] : lane'[w][i] = lane[w][j]
                      \/ lane'[w][i].at = "acted" /\ lane'[w][i].ver <= rig'.ver
    BY <1>6
  <2>1. i \in DOMAIN lane[w] /\ (i = 1 => lane'[w][i] = r) /\ (i # 1 => lane'[w][i] = lane[w][i])
    BY <1>2, <1>6
  <2>2. rig'.ver <= rig'.ver
    BY <1>3, PressTypes
  <2> QED
    BY <1>4, <2>1, <2>2
<1>8. Sound
  <2>1. /\ ackWanted' \in BOOLEAN /\ hold' \in [Window -> Hold \cup {None}]
        /\ promise' \in [Window -> Nat] /\ events' \in Nat /\ breaks' \in Nat
    BY <1>1, PressTypes
  <2>2. \A u \in Window : lane'[u] # << >> \/ promise'[u] > 0 => server[u] # None
    BY <1>1, <1>6, PressTypes
  <2> QED
    BY <1>1, <1>3, <1>6, <2>1, <2>2, PressSound
<1>9. Posted'
  BY <1>3, <1>7, <1>8, PostedNext DEF Sound
<1>10. Promised'
  BY <1>1, <1>8, PromisedNext DEF Sound
<1> QED
  BY <1>8, <1>9, <1>10

\* The post is marked with a number no snapshot has yet.
LEMMA MarkKeeps ==
  ASSUME IInv, NEW w \in Window, Mark(w)
  PROVE  Sound /\ Posted' /\ Promised'
<1> DEFINE p == lane[w][1]
           r == [p EXCEPT !.at = "marked", !.seq = seq + 1]
<1>1. /\ UNCHANGED <<rig, seq, latest, build, link, queue, server, serverSeq, hold, promise,
                     behind, lost, missed, events, breaks>>
      /\ lane[w] # << >> /\ ackWanted' = TRUE /\ Head(lane[w]).at = "acted"
      /\ lane' = [lane EXCEPT ![w][1].at = "marked", ![w][1].seq = seq + 1]
  BY DEF Mark, storeVars, counts
<1>2. /\ lane[w] \in Seq(Post) /\ 1 \in DOMAIN lane[w] /\ p \in Post
      /\ p.at = "acted" /\ p.ver \in Nat /\ p.ver <= rig.ver
  <2>1. lane[w] \in Seq(Post)
    BY PressTypes
  <2>2. Head(lane[w]) = p /\ 1 \in DOMAIN lane[w] /\ p \in Post
    BY <1>1, <2>1
  <2>3. p.at = "acted" /\ p.ver \in Nat
    BY <1>1, <2>2 DEF Post
  <2> QED
    BY <2>1, <2>2, <2>3, PressTypes
<1>3. rig' \in Picture /\ rig.ver <= rig'.ver
  BY <1>1, PressTypes
<1>4. r \in Post /\ r.at = "marked" /\ r.seq = seq + 1 /\ r.ver = p.ver
  <2>1. seq + 1 \in Nat
    BY PressTypes
  <2> HIDE DEF p
  <2> QED
    BY <1>2, <2>1 DEF Post
<1>5. lane' = [lane EXCEPT ![w] = [lane[w] EXCEPT ![1] = r]]
  BY <1>1
<1> HIDE DEF p, r
<1>6. /\ lane' \in [Window -> Seq(Post)] /\ lane'[w] = [lane[w] EXCEPT ![1] = r]
      /\ \A u \in Window : u # w => lane'[u] = lane[u]
  <2>1. [lane[w] EXCEPT ![1] = r] \in Seq(Post)
    BY <1>2, <1>4
  <2> QED
    BY <1>5, <2>1, PressTypes
<1>7. Sound
  <2>1. /\ ackWanted' \in BOOLEAN /\ hold' \in [Window -> Hold \cup {None}]
        /\ promise' \in [Window -> Nat] /\ events' \in Nat /\ breaks' \in Nat
    BY <1>1, PressTypes
  <2>2. \A u \in Window : lane'[u] # << >> \/ promise'[u] > 0 => server[u] # None
    BY <1>1, <1>6, PressTypes
  <2> QED
    BY <1>1, <1>3, <1>6, <2>1, <2>2, PressSound
<1>8. \E n, v \in Nat : r.seq = n /\ r.ver = v /\ Newer(n, v)'
  <2>1. seq + 1 \in Nat
    BY PressTypes
  <2>2. PICK n \in Nat, v \in Nat : n = seq + 1 /\ v = p.ver
    BY <1>2, <2>1
  <2>3. Newer(n, v)
    <3>1. TypeOK /\ Numbered /\ v <= rig.ver
      BY <1>2, <2>2 DEF IInv
    <3> QED
      BY <2>2, <3>1, NewerAhead
  <2>4. Newer(n, v)'
    BY <1>7, <2>3 DEF Sound, Carry
  <2> QED
    BY <1>4, <2>2, <2>4
<1>9. \A u \in Window : \A i \in DOMAIN lane'[u] :
        \/ \E j \in DOMAIN lane[u] : lane'[u][i] = lane[u][j]
        \/ /\ lane'[u][i].at = "marked"
           /\ \E n, v \in Nat : lane'[u][i].seq = n /\ lane'[u][i].ver = v /\ Newer(n, v)'
  <2> SUFFICES ASSUME NEW i \in DOMAIN lane'[w]
               PROVE  \/ \E j \in DOMAIN lane[w] : lane'[w][i] = lane[w][j]
                      \/ lane'[w][i] = r
    BY <1>4, <1>6, <1>8
  <2> QED
    BY <1>2, <1>6
<1>10. Posted'
  BY <1>3, <1>7, <1>9, PostedNext DEF Sound
<1>11. Promised'
  BY <1>1, <1>7, PromisedNext DEF Sound
<1> QED
  BY <1>7, <1>10, <1>11

\* Taking the oldest post out of a lane leaves posts that were there.
LEMMA LaneTail ==
  ASSUME NEW w \in Window, lane \in [Window -> Seq(Post)], lane[w] # << >>,
         lane' = [lane EXCEPT ![w] = Tail(lane[w])]
  PROVE  /\ lane' \in [Window -> Seq(Post)]
         /\ \A u \in Window : lane'[u] # << >> => lane[u] # << >>
         /\ \A u \in Window : \A i \in DOMAIN lane'[u] :
              \E j \in DOMAIN lane[u] : lane'[u][i] = lane[u][j]
<1>1. /\ lane[w] \in Seq(Post) /\ Tail(lane[w]) \in Seq(Post)
      /\ \A i \in DOMAIN Tail(lane[w]) :
           i + 1 \in DOMAIN lane[w] /\ Tail(lane[w])[i] = lane[w][i + 1]
  <2> DEFINE l == lane[w]
  <2>1. l \in Seq(Post) /\ l # << >>
    OBVIOUS
  <2> HIDE DEF l
  <2>2. /\ Tail(l) \in Seq(Post) /\ Len(Tail(l)) = Len(l) - 1 /\ DOMAIN l = 1 .. Len(l)
        /\ DOMAIN Tail(l) = 1 .. Len(l) - 1 /\ Len(l) \in Nat
        /\ \A i \in 1 .. Len(l) - 1 : Tail(l)[i] = l[i + 1]
    BY <2>1
  <2>3. \A i \in DOMAIN Tail(l) : i + 1 \in DOMAIN l /\ Tail(l)[i] = l[i + 1]
    BY <2>2
  <2> QED
    BY <2>1, <2>2, <2>3 DEF l
<1>2. /\ lane' \in [Window -> Seq(Post)] /\ lane'[w] = Tail(lane[w])
      /\ \A u \in Window : u # w => lane'[u] = lane[u]
  BY <1>1
<1>3. \A u \in Window : \A i \in DOMAIN lane'[u] :
        \E j \in DOMAIN lane[u] : lane'[u][i] = lane[u][j]
  BY <1>1, <1>2
<1> QED
  BY <1>2, <1>3

\* The answer arrives: what the post was marked with becomes the promise, and
\* rests on the hold, or on the window's picture when that is late enough to
\* end it at once.
LEMMA SettleKeeps ==
  ASSUME IInv, NEW w \in Window, Settle(w)
  PROVE  Sound /\ Posted' /\ Promised'
<1> DEFINE p == Head(lane[w])
           h == hold[w]
           mine == h # None /\ h.token = p.token
           a == Answered(h, p)
           k == Kept(a, serverSeq[w])
<1>1. /\ UNCHANGED <<rig, seq, ackWanted, latest, build, link, queue, server, serverSeq,
                     behind, lost, missed, events, breaks>>
      /\ lane[w] # << >> /\ lane' = [lane EXCEPT ![w] = Tail(lane[w])] /\ p.at = "marked"
      /\ hold' = IF mine THEN [hold EXCEPT ![w] = k] ELSE hold
      /\ promise' = IF mine THEN [promise EXCEPT ![w] = p.ver] ELSE promise
  BY DEF Settle, hubVars, counts
<1>2. /\ p \in Post /\ Newer(p.seq, p.ver)
  <2>1. lane[w] \in Seq(Post)
    BY PressTypes
  <2>2. p = lane[w][1] /\ 1 \in DOMAIN lane[w]
    BY <1>1, <2>1
  <2> QED
    BY <1>1, <2>2, PressTypes
<1>3. p.seq \in Nat /\ p.ver \in Nat /\ serverSeq[w] \in Nat /\ h \in Hold \cup {None}
  BY <1>2, PressTypes DEF Post
<1>4. ASSUME mine
      PROVE  /\ a \in Hold /\ a # None /\ a.settled /\ a.seq = p.seq
             /\ k \in Hold \cup {None}
             /\ k = a \/ (k = None /\ a.seq <= serverSeq[w])
  <2>1. h \in Hold
    BY <1>3, <1>4
  <2>2. a \in Hold /\ a.settled /\ a.seq = p.seq
    <3> HIDE DEF h, p
    <3> QED
      BY <1>3, <2>1 DEF Answered, Hold
  <2>3. a # None
    BY <2>2, HubAssumption
  <2> HIDE DEF a
  <2> QED
    BY <1>3, <2>2, <2>3, KeptFacts
<1> HIDE DEF p, h, a, k
<1>5. /\ lane' \in [Window -> Seq(Post)]
      /\ \A u \in Window : lane'[u] # << >> => lane[u] # << >>
      /\ \A u \in Window : \A i \in DOMAIN lane'[u] :
           \E j \in DOMAIN lane[u] : lane'[u][i] = lane[u][j]
  <2>1. lane \in [Window -> Seq(Post)]
    BY PressTypes
  <2> QED
    BY <1>1, <2>1, LaneTail
<1>6. /\ hold' \in [Window -> Hold \cup {None}] /\ promise' \in [Window -> Nat]
      /\ \A u \in Window : u # w => hold'[u] = hold[u] /\ promise'[u] = promise[u]
      /\ mine => hold'[w] = k /\ promise'[w] = p.ver
      /\ ~ mine => hold'[w] = hold[w] /\ promise'[w] = promise[w]
  BY <1>1, <1>3, <1>4, PressTypes
<1> HIDE DEF mine
<1>7. rig' \in Picture /\ rig.ver <= rig'.ver
  BY <1>1, PressTypes
<1>8. Sound
  <2>1. ackWanted' \in BOOLEAN /\ events' \in Nat /\ breaks' \in Nat
    BY <1>1, PressTypes
  <2>2. \A u \in Window : lane'[u] # << >> \/ promise'[u] > 0 => server[u] # None
    BY <1>1, <1>5, <1>6, PressTypes
  <2> QED
    BY <1>1, <1>5, <1>6, <1>7, <2>1, <2>2, PressSound
<1>9. Posted'
  BY <1>5, <1>7, <1>8, PostedNext DEF Sound
<1>10. ASSUME mine
       PROVE  /\ hold'[w] # None => hold'[w].settled
              /\ \E n, v \in Nat :
                   /\ n = (IF hold'[w] # None THEN hold'[w].seq ELSE serverSeq'[w])
                   /\ v = promise'[w] /\ Newer(n, v)'
  <2> DEFINE m == IF hold'[w] # None THEN hold'[w].seq ELSE serverSeq'[w]
  <2>1. m \in Nat /\ p.seq <= m /\ (hold'[w] # None => hold'[w].settled)
    BY <1>1, <1>3, <1>4, <1>6, <1>10
  <2>2. PICK n \in Nat, v \in Nat, s \in Nat : n = m /\ v = p.ver /\ s = p.seq
    BY <1>3, <2>1
  <2>3. TypeOK /\ Newer(s, v) /\ s <= n
    BY <1>2, <2>1, <2>2 DEF IInv
  <2>4. Newer(n, v)
    BY <2>3, NewerLater
  <2>5. Newer(n, v)'
    BY <1>8, <2>4 DEF Sound, Carry
  <2> QED
    BY <1>6, <1>10, <2>1, <2>2, <2>5
<1>11. Promised'
  <2>1. \A u \in Window : UNCHANGED <<promise[u], hold[u], serverSeq[u]>> \/ (u = w /\ mine)
    BY <1>1, <1>6
  <2> QED
    BY <1>8, <1>10, <2>1, PromisedNext DEF Sound
<1> QED
  BY <1>8, <1>9, <1>11

\* A hold that is given up, with its post or at the ceiling, takes its promise
\* with it.
LEMMA ReleaseKeeps ==
  ASSUME IInv, NEW w \in Window, PostFails(w) \/ Ceiling(w)
  PROVE  Sound /\ Posted' /\ Promised'
<1>1. /\ UNCHANGED <<rig, seq, ackWanted, latest, build, link, queue, server, serverSeq,
                     behind, lost, missed, events>>
      /\ breaks' \in {breaks, breaks + 1}
      /\ hold' = [hold EXCEPT ![w] = None] /\ promise' = [promise EXCEPT ![w] = 0]
      /\ \/ lane' = lane
         \/ lane[w] # << >> /\ lane' = [lane EXCEPT ![w] = Tail(lane[w])]
  BY DEF PostFails, Ceiling, Break, hubVars, counts
<1>2. /\ lane' \in [Window -> Seq(Post)]
      /\ \A u \in Window : lane'[u] # << >> => lane[u] # << >>
      /\ \A u \in Window : \A i \in DOMAIN lane'[u] :
           \E j \in DOMAIN lane[u] : lane'[u][i] = lane[u][j]
  <2>1. lane \in [Window -> Seq(Post)]
    BY PressTypes
  <2>2. CASE lane' = lane
    BY <2>1, <2>2
  <2>3. CASE lane[w] # << >> /\ lane' = [lane EXCEPT ![w] = Tail(lane[w])]
    BY <2>1, <2>3, LaneTail
  <2> QED
    BY <1>1, <2>2, <2>3
<1>3. /\ hold' \in [Window -> Hold \cup {None}] /\ promise' \in [Window -> Nat]
      /\ promise'[w] = 0
      /\ \A u \in Window : u # w => hold'[u] = hold[u] /\ promise'[u] = promise[u]
  BY <1>1, PressTypes
<1>4. rig' \in Picture /\ rig.ver <= rig'.ver
  BY <1>1, PressTypes
<1>5. Sound
  <2>1. ackWanted' \in BOOLEAN /\ events' \in Nat /\ breaks' \in Nat
    BY <1>1, PressTypes
  <2>2. \A u \in Window : lane'[u] # << >> \/ promise'[u] > 0 => server[u] # None
    BY <1>1, <1>2, <1>3, PressTypes
  <2> QED
    BY <1>1, <1>2, <1>3, <1>4, <2>1, <2>2, PressSound
<1>6. Posted'
  BY <1>2, <1>4, <1>5, PostedNext DEF Sound
<1>7. Promised'
  <2>1. \A u \in Window : promise'[u] = 0 \/ UNCHANGED <<promise[u], hold[u], serverSeq[u]>>
    BY <1>1, <1>3
  <2> QED
    BY <1>5, <2>1, PromisedNext DEF Sound
<1> QED
  BY <1>5, <1>6, <1>7
-----------------------------------------------------------------------------
LEMMA HubStep == IInv /\ [Next]_vars => IInv'
<1> SUFFICES ASSUME IInv, [Next]_vars PROVE IInv'
  OBVIOUS
<1> SUFFICES Sound /\ Posted' /\ Promised'
  BY DEF IInv, Sound
<1>0. rig \in Picture /\ rig.ver <= rig.ver /\ events \in Nat /\ breaks \in Nat
      /\ link \in [Window -> {"off", "get", "got", "first", "built", "online"}]
  BY PressTypes DEF IInv, TypeOK, LinkOK
<1>1. ASSUME LoopBegin \/ LoopPolls
      PROVE  Sound /\ Posted' /\ Promised'
  <2>1. /\ Begin("loop", "push") /\ link' = link /\ "loop" \in Builder
        /\ UNCHANGED <<rig, queue, storeVars, lane, lost, missed>>
        /\ events' \in {events, events + 1} /\ breaks' = breaks
    BY <1>1 DEF LoopBegin, LoopPolls, Event, counts, Builder
  <2>2. Sound
    BY <1>0, <2>1, BeginSound
  <2> QED
    BY <1>0, <2>1, <2>2, PressesKeep DEF Sound, storeVars
<1>2. ASSUME NEW w \in Window, OpenGet(w) \/ SubscribeFirst(w)
      PROVE  Sound /\ Posted' /\ Promised'
  <2>1. /\ UNCHANGED <<rig, queue, storeVars, lane, lost, missed, events, breaks>> /\ w \in Builder
        /\ \/ /\ Begin(w, "get") /\ link[w] = "off"
              /\ link' = [link EXCEPT ![w] = "get"]
           \/ /\ Begin(w, "push") /\ link[w] = "got"
              /\ link' = [link EXCEPT ![w] = "first"]
    BY <1>2 DEF OpenGet, SubscribeFirst, counts, Builder
  <2>2. Sound
    <3>1. CASE Begin(w, "get") /\ link[w] = "off" /\ link' = [link EXCEPT ![w] = "get"]
      BY <1>0, <2>1, <3>1, BeginSound
    <3>2. CASE Begin(w, "push") /\ link[w] = "got" /\ link' = [link EXCEPT ![w] = "first"]
      BY <1>0, <2>1, <3>2, BeginSound
    <3> QED
      BY <2>1, <3>1, <3>2
  <2> QED
    BY <1>0, <2>1, <2>2, PressesKeep DEF Sound, storeVars
<1>3. ASSUME NEW b \in Builder, Builds(b) \/ BuildFails(b)
      PROVE  Sound /\ Posted' /\ Promised'
  <2>1. Sound
    BY <1>3, ReadSound, PublishSound, FailSound DEF Builds
  <2>2. UNCHANGED <<rig, storeVars, lane>>
    BY <1>3 DEF Builds, Read, Publish, BuildFails
  <2> QED
    BY <1>0, <2>1, <2>2, PressesKeep DEF Sound, storeVars
<1>4. ASSUME NEW w \in Window, Join(w) \/ Drop(w)
      PROVE  Sound /\ Posted' /\ Promised'
  <2>1. Sound
    BY <1>4, JoinSound, DropSound
  <2>2. UNCHANGED <<rig, storeVars, lane>>
    BY <1>4 DEF Join, Drop
  <2> QED
    BY <1>0, <2>1, <2>2, PressesKeep DEF Sound, storeVars
<1>5. ASSUME Toast \/ \E w \in Window : Meter(w)
      PROVE  Sound /\ Posted' /\ Promised'
  <2>1. Sound
    BY <1>5, NoiseSound
  <2>2. UNCHANGED <<rig, storeVars, lane>>
    BY <1>5 DEF Toast, Meter
  <2> QED
    BY <1>0, <2>1, <2>2, PressesKeep DEF Sound, storeVars
<1>6. ASSUME NEW w \in Window, GotState(w) \/ Deliver(w)
      PROVE  Sound /\ Posted' /\ Promised'
  <2>1. Sound /\ (UNCHANGED storeVars \/ \E n, v \in Nat : Taken(w, n, v))
    BY <1>6, GotStateSound, DeliverSound
  <2>2. UNCHANGED <<rig, lane>>
    BY <1>6 DEF GotState, Deliver
  <2>3. CASE UNCHANGED storeVars
    BY <1>0, <2>1, <2>2, <2>3, PressesKeep DEF Sound, storeVars
  <2>4. CASE \E n, v \in Nat : Taken(w, n, v)
    <3>1. PICK n \in Nat, v \in Nat : Taken(w, n, v)
      BY <2>4
    <3>2. Carry
      BY <2>1 DEF Sound
    <3> QED
      BY <2>1, <2>2, <3>1, <3>2, PressesTaken
  <2> QED
    BY <2>1, <2>3, <2>4
<1>7. ASSUME NEW w \in Window, Posts(w) \/ PostFails(w) \/ Ceiling(w)
      PROVE  Sound /\ Posted' /\ Promised'
  BY <1>7, ActKeeps, MarkKeeps, SettleKeeps, ReleaseKeeps DEF Posts
<1>8. ASSUME UNCHANGED vars
      PROVE  Sound /\ Posted' /\ Promised'
  <2>1. UNCHANGED <<rig, seq, latest, build, ackWanted, link, queue, server, serverSeq, hold,
                    promise, behind, lane, lost, missed, events, breaks>>
    BY <1>8 DEF vars, hubVars, storeVars, counts
  <2>2. /\ ackWanted' \in BOOLEAN /\ hold' \in [Window -> Hold \cup {None}]
        /\ lane' \in [Window -> Seq(Post)] /\ promise' \in [Window -> Nat]
        /\ events' \in Nat /\ breaks' \in Nat /\ rig' \in Picture /\ rig.ver <= rig'.ver
        /\ \A w \in Window : lane'[w] # << >> \/ promise'[w] > 0 => server[w] # None
    BY <2>1, PressTypes
  <2>3. Sound
    BY <2>1, <2>2, PressSound
  <2> QED
    BY <2>1, <2>2, <2>3, PressesKeep DEF Sound
<1> QED
  BY <1>1, <1>2, <1>3, <1>4, <1>5, <1>6, <1>7, <1>8, PressKeeps, OtherChangeKeeps
     DEF Next, Connects

LEMMA HubInvariant == Spec => []IInv
<1>1. Init => IInv
  BY HubInit
<1>2. IInv /\ [Next]_vars => IInv'
  BY HubStep
<1> QED
  BY <1>1, <1>2, PTL DEF Spec
-----------------------------------------------------------------------------
\* The hub, every connection, queue and store hold what the code puts there; in
\* particular no queue is ever longer than CLIENT_QUEUE (Client.offer).
THEOREM HubTypeCorrect == Spec => []TypeOK
<1>1. IInv => TypeOK
  BY DEF IInv
<1> QED
  BY <1>1, HubInvariant, PTL

\* A window that is online has the newest broadcast snapshot, or the newest
\* state frame in its queue is that snapshot: however many windows, and however
\* refreshes, acknowledgements, toasts and reconnections interleave, what is
\* offered by refresh and handed over by subscribe leaves no gap.
THEOREM NewestReachesWindows == Spec => []NewestOnItsWay
<1>1. IInv => NewestOnItsWay
  BY DEF IInv
<1> QED
  BY <1>1, HubInvariant, PTL

\* Once a press is answered and its hold is gone, the window shows a picture of
\* the rig after that press: a number given by mark after the action is a number
\* only of snapshots read after it, so a hold that ends at that number (_commit)
\* uncovers a picture that contains the press.  An ack ends it on the picture the
\* window has, which is the one confirmed (Told) unless the window missed one.
THEOREM PressHeldUntilSeen == Spec => []HeldUntilSeen
<1>1. IInv => HeldUntilSeen
  <2> SUFFICES ASSUME IInv, NEW w \in Window, promise[w] > 0, hold[w] = None, ~ behind[w],
                      ~ missed[w]
               PROVE  server[w].ver >= promise[w]
    BY DEF HeldUntilSeen
  <2>1. Newer(serverSeq[w], promise[w])
    BY DEF IInv, Promised
  <2>2. server[w] # None
    BY PressTypes
  <2>3. serverSeq[w] \in Nat /\ promise[w] \in Nat /\ server[w] \in Picture
    BY <2>2, PressTypes
  <2>4. promise[w] <= server[w].ver
    BY <2>1, <2>2, <2>3 DEF Newer
  <2> QED
    BY <2>3, <2>4 DEF Picture
<1> QED
  BY <1>1, HubInvariant, PTL
=============================================================================
