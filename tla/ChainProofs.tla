----------------------------- MODULE ChainProofs -----------------------------
(***************************************************************************)
(* Proofs about Chain, for any number of encoders, sinks and blocks.       *)
(*                                                                         *)
(* The merger's queue and what each sink has continue one another, block   *)
(* by block: the invariant is carried through every push and every         *)
(* delivery of a call, with sinks that were given the first blocks of the  *)
(* queue only.  A second invariant follows the picture formats.            *)
(***************************************************************************)
EXTENDS Chain, TLAPS, SequenceTheorems, WellFoundedInduction
-----------------------------------------------------------------------------
(* Numbers and recursion.                                                  *)

Below == {p \in Nat \X Nat : p[1] < p[2]}

LEMMA Least ==
  ASSUME NEW T \in SUBSET Nat, T # {}
  PROVE  \E m \in T : \A k \in T : m <= k
<1>1. IsWellFoundedOn(Below, Nat)
  BY NatLessThanWellFounded DEF OpToRel, Below
<1>2. PICK m \in T : \A y \in T : ~ (<<y, m>> \in Below)
  BY <1>1, WFMin
<1>3. \A y \in T : ~ (y < m)
  BY <1>2 DEF Below
<1> QED
  BY <1>3

\* What holds of 0 and passes from a number to the next holds up to n.
LEMMA UpTo ==
  ASSUME NEW n \in Nat, NEW T, 0 \in T, \A i \in 1 .. n : i - 1 \in T => i \in T
  PROVE  0 .. n \subseteq T
<1> SUFFICES ASSUME NEW k \in 0 .. n, k \notin T PROVE FALSE
  OBVIOUS
<1> DEFINE U == {i \in 0 .. n : i \notin T}
<1> U \in SUBSET Nat /\ U # {}
  OBVIOUS
<1>1. PICK m \in U : \A i \in U : m <= i
  <2> HIDE DEF U
  <2> QED
    BY Least
<1>2. m \in 1 .. n /\ m - 1 \in 0 .. n /\ m - 1 \notin U
  BY <1>1
<1> QED
  BY <1>1, <1>2

\* The functions defined by a first value and a step.
Runs(n, S, a, F) ==
  {h \in [0 .. n -> S] : h[0] = a /\ \A i \in 1 .. n : h[i] = F[<<h[i - 1], i>>]}

LEMMA StepByStep ==
  ASSUME NEW n \in Nat, NEW S, NEW a \in S, NEW F \in [S \X (1 .. n) -> S]
  PROVE  Runs(n, S, a, F) # {}
<1> DEFINE Ru(m) == {h \in [0 .. m -> S] :
                         h[0] = a /\ \A i \in 1 .. m : h[i] = F[<<h[i - 1], i>>]}
           T == {m \in 0 .. n : Ru(m) # {}}
<1>1. 0 \in T
  <2>1. [i \in 0 .. 0 |-> a] \in Ru(0)
    OBVIOUS
  <2> QED
    BY <2>1
<1>2. ASSUME NEW m \in 1 .. n, m - 1 \in T
      PROVE  m \in T
  <2>1. PICK h \in [0 .. m - 1 -> S] :
          h[0] = a /\ \A i \in 1 .. m - 1 : h[i] = F[<<h[i - 1], i>>]
    BY <1>2
  <2>2. h[m - 1] \in S /\ F[<<h[m - 1], m>>] \in S
    BY <2>1
  <2> DEFINE g == [i \in 0 .. m |-> IF i = m THEN F[<<h[m - 1], m>>] ELSE h[i]]
  <2>3. g \in [0 .. m -> S] /\ g[0] = a
    BY <2>1, <2>2
  <2>4. \A i \in 1 .. m : g[i] = F[<<g[i - 1], i>>]
    BY <2>1
  <2>5. g \in Ru(m)
    <3> HIDE DEF g
    <3> QED
      BY <2>3, <2>4
  <2> HIDE DEF Ru, g
  <2> QED
    BY <2>5
<1>3. n \in T
  <2> HIDE DEF T
  <2> QED
    BY <1>1, <1>2, UpTo
<1> QED
  BY <1>3 DEF Runs
-----------------------------------------------------------------------------
(* The merger's queue.                                                     *)

Sorted(q) == \A i, j \in DOMAIN q : i < j => q[i].block.ts <= q[j].block.ts

LEMMA EntryFacts ==
  ASSUME NEW q \in Seq(Entry)
  PROVE  /\ Len(q) \in Nat /\ DOMAIN q = 1 .. Len(q)
         /\ \A i \in 1 .. Len(q) :
              /\ q[i] \in Entry /\ q[i].at \in Nat /\ q[i].block \in Block
              /\ q[i].block.ts \in Nat /\ q[i].block.no \in Nat /\ q[i].block.track \in Track
<1>1. Len(q) \in Nat /\ DOMAIN q = 1 .. Len(q) /\ \A i \in 1 .. Len(q) : q[i] \in Entry
  BY LenProperties, ElementOfSeq
<1> QED
  BY <1>1 DEF Entry, Block

\* A sorted queue has a place for every block.
LEMMA PlaceFacts ==
  ASSUME NEW q \in Seq(Entry), Sorted(q), NEW b \in Block
  PROVE  /\ Place(q, b) \in 1 .. Len(q) + 1
         /\ \A i \in 1 .. Place(q, b) - 1 : q[i].block.ts <= b.ts
         /\ \A i \in Place(q, b) .. Len(q) : b.ts < q[i].block.ts
<1> DEFINE Here(p) == /\ \A i \in 1 .. p - 1 : q[i].block.ts <= b.ts
                      /\ \A i \in p .. Len(q) : b.ts < q[i].block.ts
           T == {p \in 1 .. Len(q) + 1 : p = Len(q) + 1 \/ b.ts < q[p].block.ts}
<1>1. /\ Len(q) \in Nat /\ b.ts \in Nat
      /\ \A i \in 1 .. Len(q) : q[i].block.ts \in Nat
      /\ \A i, j \in 1 .. Len(q) : i < j => q[i].block.ts <= q[j].block.ts
  BY EntryFacts DEF Sorted, Block
<1>2. PICK p \in T : \A i \in T : p <= i
  <2>1. T \in SUBSET Nat /\ Len(q) + 1 \in T
    BY <1>1
  <2> HIDE DEF T
  <2> QED
    BY <2>1, Least
<1>3. p \in 1 .. Len(q) + 1
  BY <1>2
<1>4. \A i \in 1 .. p - 1 : q[i].block.ts <= b.ts
  <2> SUFFICES ASSUME NEW i \in 1 .. p - 1 PROVE q[i].block.ts <= b.ts
    OBVIOUS
  <2>1. i \notin T /\ i \in 1 .. Len(q)
    BY <1>1, <1>2, <1>3
  <2> QED
    BY <1>1, <2>1
<1>5. \A i \in p .. Len(q) : b.ts < q[i].block.ts
  <2> SUFFICES ASSUME NEW i \in p .. Len(q) PROVE b.ts < q[i].block.ts
    OBVIOUS
  <2>1. b.ts < q[p].block.ts /\ i \in 1 .. Len(q) /\ p \in 1 .. Len(q)
    BY <1>1, <1>2, <1>3
  <2> QED
    BY <1>1, <2>1
<1>6. \E x \in 1 .. Len(q) + 1 : Here(x)
  BY <1>3, <1>4, <1>5
<1>7. Place(q, b) = CHOOSE x \in 1 .. Len(q) + 1 : Here(x)
  BY DEF Place
<1> HIDE DEF Here
<1>8. Place(q, b) \in 1 .. Len(q) + 1 /\ Here(Place(q, b))
  BY <1>6, <1>7
<1> QED
  BY <1>8 DEF Here

LEMMA ConcatFacts ==
  ASSUME NEW S, NEW a \in Seq(S), NEW b \in Seq(S)
  PROVE  /\ a \o b \in Seq(S) /\ Len(a) \in Nat /\ Len(b) \in Nat
         /\ Len(a \o b) = Len(a) + Len(b) /\ DOMAIN (a \o b) = 1 .. Len(a) + Len(b)
         /\ \A i \in 1 .. Len(a) : (a \o b)[i] = a[i]
         /\ \A i \in 1 .. Len(b) : (a \o b)[Len(a) + i] = b[i]
<1> DEFINE c == a \o b
<1>1. Len(a) \in Nat /\ Len(b) \in Nat
  BY LenProperties
<1>2. /\ c \in Seq(S) /\ Len(c) = Len(a) + Len(b)
      /\ \A i \in 1 .. Len(a) + Len(b) :
           c[i] = IF i <= Len(a) THEN a[i] ELSE b[i - Len(a)]
  BY ConcatProperties
<1> HIDE DEF c
<1>3. DOMAIN c = 1 .. Len(a) + Len(b)
  BY <1>2, LenProperties
<1>4. ASSUME NEW i \in 1 .. Len(a) PROVE c[i] = a[i]
  BY <1>1, <1>2
<1>5. ASSUME NEW i \in 1 .. Len(b) PROVE c[Len(a) + i] = b[i]
  <2>1. PICK k : k = Len(a) + i
    OBVIOUS
  <2>2. k \in 1 .. Len(a) + Len(b) /\ ~ (k <= Len(a)) /\ k - Len(a) = i
    BY <1>1, <2>1
  <2> QED
    BY <1>2, <2>1, <2>2
<1> QED
  BY <1>1, <1>2, <1>3, <1>4, <1>5 DEF c

LEMMA InsertFacts ==
  ASSUME NEW q \in Seq(Entry), NEW e \in Entry, NEW p \in 1 .. Len(q) + 1
  PROVE  /\ Seqs!InsertAt(q, p, e) \in Seq(Entry)
         /\ Len(Seqs!InsertAt(q, p, e)) = Len(q) + 1
         /\ \A i \in 1 .. p - 1 : Seqs!InsertAt(q, p, e)[i] = q[i]
         /\ Seqs!InsertAt(q, p, e)[p] = e
         /\ \A i \in p .. Len(q) : Seqs!InsertAt(q, p, e)[i + 1] = q[i]
<1> DEFINE l == SubSeq(q, 1, p - 1)
           r == SubSeq(q, p, Len(q))
           s == l \o <<e>>
<1>1. Len(q) \in Nat /\ \A i \in 1 .. Len(q) : q[i] \in Entry
  BY EntryFacts
<1>2. l \in Seq(Entry) /\ Len(l) = p - 1 /\ \A i \in 1 .. p - 1 : l[i] = q[i]
  BY <1>1, SubSeqProperties
<1>3. /\ r \in Seq(Entry) /\ Len(r) = Len(q) - p + 1
      /\ \A i \in 1 .. Len(q) - p + 1 : r[i] = q[p + i - 1]
  BY <1>1, SubSeqProperties
<1>4. <<e>> \in Seq(Entry) /\ Len(<<e>>) = 1 /\ <<e>>[1] = e
  OBVIOUS
<1>5. Seqs!InsertAt(q, p, e) = s \o r
  BY DEF Seqs!InsertAt
<1> HIDE DEF l, r
<1>6. /\ s \in Seq(Entry) /\ Len(s) = p
      /\ \A i \in 1 .. p - 1 : s[i] = q[i]
      /\ s[p] = e
  <2>1. /\ s \in Seq(Entry) /\ Len(s) = Len(l) + Len(<<e>>)
        /\ \A i \in 1 .. Len(l) : s[i] = l[i]
        /\ s[Len(l) + 1] = <<e>>[1]
    BY <1>2, <1>4, ConcatFacts
  <2> HIDE DEF s
  <2> QED
    BY <1>2, <1>4, <2>1
<1> HIDE DEF s
<1>7. /\ s \o r \in Seq(Entry) /\ Len(s \o r) = Len(s) + Len(r)
      /\ \A i \in 1 .. Len(s) : (s \o r)[i] = s[i]
      /\ \A i \in 1 .. Len(r) : (s \o r)[Len(s) + i] = r[i]
  BY <1>3, <1>6, ConcatFacts
<1>8. ASSUME NEW i \in p .. Len(q) PROVE (s \o r)[i + 1] = q[i]
  <2>1. PICK k : k = i + 1 - p
    OBVIOUS
  <2>2. k \in 1 .. Len(r) /\ Len(s) + k = i + 1 /\ p + k - 1 = i /\ k \in 1 .. Len(q) - p + 1
    BY <1>1, <1>3, <1>6, <2>1
  <2> QED
    BY <1>3, <1>7, <2>2
<1>9. Len(s \o r) = Len(q) + 1 /\ \A i \in 1 .. p - 1 : (s \o r)[i] = q[i]
  BY <1>1, <1>3, <1>6, <1>7
<1>10. (s \o r)[p] = e
  BY <1>6, <1>7
<1> QED
  BY <1>5, <1>7, <1>8, <1>9, <1>10

LEMMA ReadyFacts ==
  ASSUME NEW m \in MergerState, now \in Nat, ChainAssumption
  PROVE  /\ Ready(m) \in 0 .. Len(m.queue)
         /\ \A i \in 1 .. Ready(m) : Due(m, m.queue[i])
         /\ Ready(m) < Len(m.queue) => ~ Due(m, m.queue[Ready(m) + 1])
<1> DEFINE q == m.queue
           Here(n) == /\ \A i \in 1 .. n : Due(m, q[i])
                      /\ n < Len(q) => ~ Due(m, q[n + 1])
           T == {n \in 0 .. Len(q) : n = Len(q) \/ ~ Due(m, q[n + 1])}
<1>1. Len(q) \in Nat
  BY EntryFacts DEF MergerState
<1>2. PICK n \in T : \A i \in T : n <= i
  <2>1. T \in SUBSET Nat /\ Len(q) \in T
    BY <1>1
  <2> HIDE DEF T
  <2> QED
    BY <2>1, Least
<1>3. \A i \in 1 .. n : Due(m, q[i])
  <2> SUFFICES ASSUME NEW i \in 1 .. n PROVE Due(m, q[i])
    OBVIOUS
  <2>1. PICK k : k = i - 1
    OBVIOUS
  <2>2. n \in 0 .. Len(q) /\ k \in 0 .. Len(q) /\ k < n /\ k + 1 = i
    BY <1>1, <2>1
  <2>3. k \notin T /\ k # Len(q)
    <3>1. k \in T => n <= k
      BY <1>2
    <3> QED
      BY <1>1, <2>2, <3>1
  <2> QED
    BY <2>2, <2>3
<1>4. \E x \in 0 .. Len(q) : Here(x)
  BY <1>2, <1>3
<1>5. Ready(m) = CHOOSE x \in 0 .. Len(q) : Here(x)
  BY DEF Ready
<1> HIDE DEF Here
<1>6. Ready(m) \in 0 .. Len(q) /\ Here(Ready(m))
  BY <1>4, <1>5
<1> QED
  BY <1>6 DEF Here
-----------------------------------------------------------------------------
(* The invariant, as predicates of the merger m and a sink x after the     *)
(* blocks sn; of queue q the sink has yet to be given what follows the     *)
(* i-th.                                                                   *)

SentState == [Track -> [n : Nat, gen : Gen \cup {NoGen}, ts : Nat \cup {Never}]]

\* The blocks pushed so far and one more.
After(sn, b) == [sn EXCEPT ![b.track] = [n |-> b.no, gen |-> b.gen, ts |-> b.ts]]

\* A block that may come after them.
Follows(b, sn) ==
  /\ b \in Block /\ b.no = sn[b.track].n + 1 /\ sn[b.track].ts <= b.ts
  /\ IsPicture(b) /\ b.gen # sn["video"].gen => b.key

\* A track's entries are in the order of their numbers and of their arrival.
InTurn(q) ==
  \A i, j \in DOMAIN q : i < j /\ q[i].block.track = q[j].block.track =>
    q[i].block.no < q[j].block.no /\ q[i].at <= q[j].at

\* None is newer than the newest pushed, nor from a time to come.
Behind(q, sn, t) ==
  \A i \in DOMAIN q :
    /\ q[i].block.no <= sn[q[i].block.track].n
    /\ q[i].block.ts <= sn[q[i].block.track].ts
    /\ q[i].block.ts <= t /\ q[i].at <= t

\* None of a live track is ahead of its track's mark.
Marked(m) ==
  \A i \in DOMAIN m.queue : m.queue[i].block.track \in Live =>
    m.queue[i].block.ts <= m.mark[m.queue[i].block.track]

\* Every block after one that waits waits as well.
Whole(q, sn) ==
  \A i \in DOMAIN q : \A n \in q[i].block.no + 1 .. sn[q[i].block.track].n :
    \E j \in i + 1 .. Len(q) : q[j].block.track = q[i].block.track /\ q[j].block.no = n

\* The pictures of another encoder begin with a keyframe,
KeyBetween(q) ==
  \A i, j \in DOMAIN q :
    /\ i < j /\ IsPicture(q[i].block) /\ IsPicture(q[j].block)
    /\ q[i].block.gen # q[j].block.gen
    => \E k \in i + 1 .. j : IsKeyframe(q[k].block) /\ q[k].block.gen = q[j].block.gen

\* and the last picture is of the encoder it was counted for.
LastPicture(q, sn) ==
  \A i \in DOMAIN q :
    IsPicture(q[i].block) /\ q[i].block.no = sn["video"].n => q[i].block.gen = sn["video"].gen

QInv(m, sn, t) ==
  /\ m \in MergerState /\ sn \in SentState
  /\ Sorted(m.queue) /\ InTurn(m.queue) /\ Behind(m.queue, sn, t) /\ Marked(m)
  /\ Whole(m.queue, sn) /\ KeyBetween(m.queue) /\ LastPicture(m.queue, sn)

\* A sink has something from a keyframe on as long as it is open.
Opened(x) ==
  /\ x \in SinkState
  /\ ~ x.started => x.got = <<>>
  /\ x.started => x.got # <<>> /\ IsKeyframe(x.got[1]) /\ x.kind # "none"
  /\ \A j \in DOMAIN x.got : x.got[j].track = "raw" => x.rawDeclared

\* Its blocks are in order, before those that wait,
InRow(x, q, i, sn) ==
  \A j \in DOMAIN x.got :
    /\ x.got[j].no <= sn[x.got[j].track].n
    /\ \A k \in j + 1 .. Len(x.got) :
         x.got[k].track = x.got[j].track => x.got[j].no < x.got[k].no
    /\ \A k \in i + 1 .. Len(q) :
         q[k].block.track = x.got[j].track => x.got[j].no < q[k].block.no

\* with none missing between.
NoGap(x, q, i, sn) ==
  \A j \in DOMAIN x.got : \A n \in x.got[j].no + 1 .. sn[x.got[j].track].n :
    \/ \E k \in j + 1 .. Len(x.got) : x.got[k].track = x.got[j].track /\ x.got[k].no = n
    \/ \E k \in i + 1 .. Len(q) : q[k].block.track = x.got[j].track /\ q[k].block.no = n

\* What it has can be decoded,
Keyed(x, sn) ==
  \A j \in DOMAIN x.got : IsPicture(x.got[j]) =>
    /\ \E k \in 1 .. j : IsKeyframe(x.got[k]) /\ x.got[k].gen = x.got[j].gen
    /\ x.got[j].no = sn["video"].n => x.got[j].gen = sn["video"].gen

\* and so can what waits for it.
KeyedNext(x, q, i) ==
  x.started => \A j \in i + 1 .. Len(q) : IsPicture(q[j].block) =>
    \/ \E k \in DOMAIN x.got : IsKeyframe(x.got[k]) /\ x.got[k].gen = q[j].block.gen
    \/ \E k \in i + 1 .. j : IsKeyframe(q[k].block) /\ q[k].block.gen = q[j].block.gen

XInv(x, q, i, sn) ==
  /\ Opened(x) /\ InRow(x, q, i, sn) /\ NoGap(x, q, i, sn)
  /\ Keyed(x, sn) /\ KeyedNext(x, q, i)

Streams(m, sk, sn, t) ==
  /\ QInv(m, sn, t)
  /\ \A s \in Sink : XInv(sk[s], m.queue, 0, sn)
-----------------------------------------------------------------------------
(* A block goes into the merger.                                           *)

\* r is q with e inserted at p, where it belongs.
Inserted(r, q, p, e) ==
  /\ r \in Seq(Entry) /\ Len(r) = Len(q) + 1 /\ p \in 1 .. Len(q) + 1
  /\ \A i \in 1 .. p - 1 : r[i] = q[i] /\ q[i].block.ts <= e.block.ts
  /\ r[p] = e
  /\ \A i \in p + 1 .. Len(q) + 1 : r[i] = q[i - 1] /\ e.block.ts < q[i - 1].block.ts

\* Where the entry at i of r comes from.
Spread(r, q, p, e) ==
  /\ Len(q) \in Nat /\ DOMAIN q = 1 .. Len(q) /\ DOMAIN r = 1 .. Len(q) + 1
  /\ Len(r) = Len(q) + 1 /\ p \in 1 .. Len(q) + 1 /\ r[p] = e
  /\ \A i \in 1 .. Len(r) :
       \/ i < p /\ i \in 1 .. Len(q) /\ r[i] = q[i]
       \/ i = p /\ r[i] = e
       \/ i > p /\ i - 1 \in 1 .. Len(q) /\ r[i] = q[i - 1]
  /\ \A i \in 1 .. Len(q) :
       \/ i < p /\ i \in 1 .. Len(r) /\ r[i] = q[i]
       \/ i >= p /\ i + 1 \in 1 .. Len(r) /\ r[i + 1] = q[i]

LEMMA WhereFrom ==
  ASSUME NEW q \in Seq(Entry), NEW r, NEW p, NEW e \in Entry, Inserted(r, q, p, e)
  PROVE  Spread(r, q, p, e)
<1>1. Len(q) \in Nat /\ DOMAIN q = 1 .. Len(q) /\ DOMAIN r = 1 .. Len(q) + 1
  BY EntryFacts DEF Inserted
<1>2. ASSUME NEW i \in 1 .. Len(q), i >= p
      PROVE  i + 1 \in 1 .. Len(r) /\ r[i + 1] = q[i]
  <2>1. i + 1 \in p + 1 .. Len(q) + 1 /\ (i + 1) - 1 = i
    BY <1>1, <1>2 DEF Inserted
  <2> QED
    BY <1>1, <2>1 DEF Inserted
<1> QED
  BY <1>1, <1>2 DEF Inserted, Spread

LEMMA PushInserts ==
  ASSUME NEW m \in MergerState, Sorted(m.queue), NEW b \in Block, NEW t \in Nat
  PROVE  /\ Push(m, b, t) \in MergerState
         /\ Inserted(Push(m, b, t).queue, m.queue, Place(m.queue, b), [block |-> b, at |-> t])
         /\ Sorted(Push(m, b, t).queue)
         /\ \A u \in Live : m.mark[u] <= Push(m, b, t).mark[u]
         /\ b.track \in Live => b.ts <= Push(m, b, t).mark[b.track]
<1> DEFINE q == m.queue
           p == Place(q, b)
           e == [block |-> b, at |-> t]
           r == Seqs!InsertAt(q, p, e)
           mk == IF b.track \in Live /\ b.ts > m.mark[b.track]
                 THEN [m.mark EXCEPT ![b.track] = b.ts] ELSE m.mark
<1>1. q \in Seq(Entry) /\ m.mark \in [Live -> Nat \cup {Never}] /\ e \in Entry
  BY DEF MergerState, Entry
<1>2. /\ p \in 1 .. Len(q) + 1
      /\ \A i \in 1 .. p - 1 : q[i].block.ts <= b.ts
      /\ \A i \in p .. Len(q) : b.ts < q[i].block.ts
  BY <1>1, PlaceFacts
<1>3. Push(m, b, t) = [queue |-> r, mark |-> mk]
  BY DEF Push
<1>4. mk \in [Live -> Nat \cup {Never}] /\ (b.track \in Live => b.ts <= mk[b.track])
      /\ \A u \in Live : m.mark[u] <= mk[u]
  BY <1>1 DEF Block, Never
<1> HIDE DEF p, e
<1>5. /\ r \in Seq(Entry) /\ Len(r) = Len(q) + 1
      /\ \A i \in 1 .. p - 1 : r[i] = q[i]
      /\ r[p] = e
      /\ \A i \in p .. Len(q) : r[i + 1] = q[i]
  BY <1>1, <1>2, InsertFacts
<1> HIDE DEF r, mk
<1>6. Inserted(r, q, p, e)
  <2>1. Len(q) \in Nat /\ e.block = b
    BY <1>1, EntryFacts DEF e
  <2>2. ASSUME NEW i \in p + 1 .. Len(q) + 1
        PROVE  r[i] = q[i - 1] /\ b.ts < q[i - 1].block.ts
    <3>1. i - 1 \in p .. Len(q) /\ (i - 1) + 1 = i
      BY <1>2, <2>1
    <3> QED
      BY <1>2, <1>5, <3>1
  <2> QED
    BY <1>2, <1>5, <2>1, <2>2 DEF Inserted
<1>7. Sorted(r)
  <2> SUFFICES ASSUME NEW i \in DOMAIN r, NEW j \in DOMAIN r, i < j
               PROVE  r[i].block.ts <= r[j].block.ts
    BY DEF Sorted
  <2>1. /\ b.ts \in Nat /\ e.block = b
        /\ \A k \in 1 .. Len(q) : q[k].block.ts \in Nat
        /\ \A k, l \in 1 .. Len(q) : k < l => q[k].block.ts <= q[l].block.ts
    BY <1>1, EntryFacts DEF Sorted, Block, e
  <2>2. /\ \A k \in 1 .. p - 1 : q[k].block.ts <= b.ts
        /\ \A k \in p .. Len(q) : b.ts < q[k].block.ts
    BY <1>2
  <2>3. /\ DOMAIN r = 1 .. Len(r) /\ Len(q) \in Nat /\ p \in 1 .. Len(q) + 1
        /\ \A k \in 1 .. Len(r) :
             \/ k < p /\ k \in 1 .. Len(q) /\ r[k] = q[k]
             \/ k = p /\ r[k] = e
             \/ k > p /\ k - 1 \in 1 .. Len(q) /\ r[k] = q[k - 1]
    <3>1. Spread(r, q, p, e)
      BY <1>1, <1>6, WhereFrom
    <3> QED
      BY <3>1 DEF Spread
  <2> HIDE DEF q
  <2>4. CASE j < p
    <3>1. i < p /\ i \in 1 .. Len(q) /\ r[i] = q[i] /\ j \in 1 .. Len(q) /\ r[j] = q[j]
      BY <2>3, <2>4
    <3> QED
      BY <2>1, <3>1
  <2>5. CASE j = p
    <3>1. i \in 1 .. p - 1 /\ r[i] = q[i] /\ r[j] = e
      BY <2>3, <2>5
    <3> QED
      BY <2>1, <2>2, <3>1
  <2>6. CASE j > p
    <3>1. j - 1 \in 1 .. Len(q) /\ r[j] = q[j - 1] /\ b.ts < q[j - 1].block.ts
      BY <2>2, <2>3, <2>6
    <3>2. CASE i < p
      <4>1. i \in 1 .. p - 1 /\ i \in 1 .. Len(q) /\ r[i] = q[i] /\ i < j - 1
        BY <2>3, <2>6, <3>2
      <4> QED
        BY <2>1, <3>1, <4>1
    <3>3. CASE i = p
      <4>1. r[i] = e /\ e.block.ts = b.ts /\ q[j - 1].block.ts \in Nat
        BY <2>1, <2>3, <3>1, <3>3
      <4> QED
        BY <2>1, <3>1, <4>1
    <3>4. CASE i > p
      <4>1. i - 1 \in 1 .. Len(q) /\ r[i] = q[i - 1] /\ i - 1 < j - 1
        BY <2>3, <3>1, <3>4
      <4> QED
        BY <2>1, <3>1, <4>1
    <3> QED
      BY <2>3, <3>2, <3>3, <3>4
  <2> QED
    BY <2>3, <2>4, <2>5, <2>6
<1> QED
  BY <1>1, <1>3, <1>4, <1>5, <1>6, <1>7 DEF p, e, MergerState

\* What is counted after one more block.
LEMMA AfterFacts ==
  ASSUME NEW sn \in SentState, NEW b, Follows(b, sn)
  PROVE  /\ After(sn, b) \in SentState /\ b \in Block /\ b.track \in Track /\ b.ts \in Nat
         /\ b.no \in Nat /\ b.gen \in Gen \cup {NoGen}
         /\ After(sn, b)[b.track] = [n |-> b.no, gen |-> b.gen, ts |-> b.ts]
         /\ \A t \in Track : t # b.track => After(sn, b)[t] = sn[t]
         /\ sn[b.track].n \in Nat /\ b.no = sn[b.track].n + 1
         /\ sn[b.track].ts <= b.ts
         /\ \A t \in Track : /\ sn[t].n <= After(sn, b)[t].n /\ sn[t].ts <= After(sn, b)[t].ts
                             /\ sn[t].n \in Nat /\ sn[t].ts \in Nat \cup {Never}
<1>1. b \in Block /\ b.no = sn[b.track].n + 1 /\ sn[b.track].ts <= b.ts
  BY DEF Follows
<1>2. /\ b.track \in Track /\ b.ts \in Nat /\ b.no \in Nat /\ b.gen \in Gen \cup {NoGen}
  BY <1>1 DEF Block
<1>3. \A t \in Track : sn[t] \in [n : Nat, gen : Gen \cup {NoGen}, ts : Nat \cup {Never}]
  BY DEF SentState
<1>4. \A t \in Track : sn[t].n \in Nat /\ sn[t].ts \in Nat \cup {Never}
  BY <1>3
<1>5. [n |-> b.no, gen |-> b.gen, ts |-> b.ts]
        \in [n : Nat, gen : Gen \cup {NoGen}, ts : Nat \cup {Never}]
  BY <1>2
<1>6. /\ After(sn, b) \in SentState
      /\ After(sn, b)[b.track] = [n |-> b.no, gen |-> b.gen, ts |-> b.ts]
      /\ \A t \in Track : t # b.track => After(sn, b)[t] = sn[t]
  BY <1>2, <1>5 DEF After, SentState
<1>7. ASSUME NEW t \in Track
      PROVE  sn[t].n <= After(sn, b)[t].n /\ sn[t].ts <= After(sn, b)[t].ts
  <2>1. CASE t = b.track
    BY <1>1, <1>2, <1>4, <1>6, <2>1
  <2>2. CASE t # b.track
    BY <1>4, <1>6, <2>2 DEF Never
  <2> QED
    BY <2>1, <2>2
<1> QED
  BY <1>1, <1>2, <1>4, <1>6, <1>7

\* The newest block of a track goes behind all its others.
LEMMA NewestBehind ==
  ASSUME NEW q \in Seq(Entry), NEW sn \in SentState, NEW t, Behind(q, sn, t),
         NEW r, NEW p, NEW e \in Entry, Inserted(r, q, p, e), Follows(e.block, sn)
  PROVE  \A i \in 1 .. Len(q) : q[i].block.track = e.block.track =>
           i < p /\ q[i].block.no < e.block.no
<1> SUFFICES ASSUME NEW i \in 1 .. Len(q), q[i].block.track = e.block.track
             PROVE  i < p /\ q[i].block.no < e.block.no
  OBVIOUS
<1>1. /\ q[i].block.no <= sn[e.block.track].n /\ q[i].block.ts <= sn[e.block.track].ts
  BY EntryFacts DEF Behind
<1>2. /\ q[i].block.no \in Nat /\ q[i].block.ts \in Nat /\ Len(q) \in Nat
      /\ e.block.ts \in Nat /\ e.block.no \in Nat /\ e.block.no = sn[e.block.track].n + 1
      /\ sn[e.block.track].n \in Nat /\ sn[e.block.track].ts \in Nat \cup {Never}
      /\ sn[e.block.track].ts <= e.block.ts
  <2>1. e.block.track \in Track
    BY AfterFacts
  <2>2. /\ e.block.ts \in Nat /\ e.block.no \in Nat /\ e.block.no = sn[e.block.track].n + 1
        /\ sn[e.block.track].n \in Nat /\ sn[e.block.track].ts \in Nat \cup {Never}
        /\ sn[e.block.track].ts <= e.block.ts
    <3>1. e.block \in Block /\ e.block.ts \in Nat /\ e.block.no \in Nat
      BY DEF Follows, Block
    <3>2. \A u \in Track : sn[u] \in [n : Nat, gen : Gen \cup {NoGen}, ts : Nat \cup {Never}]
      BY DEF SentState
    <3>3. sn[e.block.track].n \in Nat /\ sn[e.block.track].ts \in Nat \cup {Never}
      BY <2>1, <3>2
    <3> QED
      BY <3>1, <3>3 DEF Follows
  <2> QED
    BY EntryFacts, <2>2
<1>3. ~ (e.block.ts < q[i].block.ts)
  BY <1>1, <1>2 DEF Never
<1>4. i < p
  <2> SUFFICES ASSUME i >= p PROVE FALSE
    BY <1>2 DEF Inserted
  <2>1. i + 1 \in p + 1 .. Len(q) + 1 /\ (i + 1) - 1 = i
    BY <1>2 DEF Inserted
  <2>2. e.block.ts < q[(i + 1) - 1].block.ts
    BY <2>1 DEF Inserted
  <2> QED
    BY <1>3, <2>1, <2>2
<1> QED
  BY <1>1, <1>2, <1>4

LEMMA InsertInTurn ==
  ASSUME NEW q \in Seq(Entry), NEW sn \in SentState, NEW t \in Nat, Behind(q, sn, t), InTurn(q),
         NEW r, NEW p, NEW e \in Entry, Inserted(r, q, p, e), Follows(e.block, sn),
         e.block.ts <= t, e.at = t
  PROVE  InTurn(r) /\ Behind(r, After(sn, e.block), t)
<1> DEFINE b == e.block
           sm == After(sn, b)
<1>1. /\ DOMAIN r = 1 .. Len(r) /\ DOMAIN q = 1 .. Len(q) /\ Len(q) \in Nat
      /\ p \in 1 .. Len(q) + 1 /\ Len(r) = Len(q) + 1
      /\ \A i \in 1 .. Len(r) :
           \/ i < p /\ i \in 1 .. Len(q) /\ r[i] = q[i]
           \/ i = p /\ r[i] = e
           \/ i > p /\ i - 1 \in 1 .. Len(q) /\ r[i] = q[i - 1]
  BY WhereFrom DEF Spread
<1>2. \A i \in 1 .. Len(q) : q[i].block.track = b.track => i < p /\ q[i].block.no < b.no
  BY NewestBehind
<1>3. \A i \in 1 .. Len(q) :
        /\ q[i].block.no \in Nat /\ q[i].block.ts \in Nat /\ q[i].at \in Nat
        /\ q[i].block.track \in Track
        /\ q[i].block.no <= sn[q[i].block.track].n
        /\ q[i].block.ts <= sn[q[i].block.track].ts
        /\ q[i].block.ts <= t /\ q[i].at <= t
  BY EntryFacts DEF Behind
<1>4. InTurn(r)
  <2> SUFFICES ASSUME NEW i \in 1 .. Len(r), NEW j \in 1 .. Len(r), i < j,
                      r[i].block.track = r[j].block.track
               PROVE  r[i].block.no < r[j].block.no /\ r[i].at <= r[j].at
    BY <1>1 DEF InTurn
  <2>1. \A k, l \in 1 .. Len(q) : k < l /\ q[k].block.track = q[l].block.track =>
          q[k].block.no < q[l].block.no /\ q[k].at <= q[l].at
    BY <1>1 DEF InTurn
  <2>2. CASE j < p
    BY <1>1, <2>1, <2>2
  <2>3. CASE j = p
    BY <1>1, <1>2, <1>3, <2>3
  <2>4. CASE j > p
    <3>1. j - 1 \in 1 .. Len(q) /\ r[j] = q[j - 1]
      BY <1>1, <2>4
    <3>2. CASE i < p
      <4>1. i \in 1 .. Len(q) /\ r[i] = q[i] /\ i < j - 1
        BY <1>1, <2>4, <3>2
      <4> QED
        BY <2>1, <3>1, <4>1
    <3>3. CASE i = p
      BY <1>1, <1>2, <2>4, <3>1, <3>3
    <3>4. CASE i > p
      <4>1. i - 1 \in 1 .. Len(q) /\ r[i] = q[i - 1] /\ i - 1 < j - 1
        BY <1>1, <3>1, <3>4
      <4> QED
        BY <2>1, <3>1, <4>1
    <3> QED
      BY <1>1, <3>2, <3>3, <3>4
  <2> QED
    BY <1>1, <2>2, <2>3, <2>4
<1>5. Behind(r, sm, t)
  <2> SUFFICES ASSUME NEW i \in 1 .. Len(r)
               PROVE  /\ r[i].block.no <= sm[r[i].block.track].n
                      /\ r[i].block.ts <= sm[r[i].block.track].ts
                      /\ r[i].block.ts <= t /\ r[i].at <= t
    BY <1>1 DEF Behind
  <2>1. /\ b.track \in Track /\ b.no \in Nat /\ b.ts \in Nat
        /\ sm[b.track].n = b.no /\ sm[b.track].ts = b.ts
        /\ \A u \in Track : /\ sn[u].n <= sm[u].n /\ sn[u].ts <= sm[u].ts
                            /\ sn[u].n \in Nat /\ sn[u].ts \in Nat \cup {Never}
                            /\ sm[u].n \in Nat /\ sm[u].ts \in Nat \cup {Never}
    <3>1. sm \in SentState /\ sm[b.track] = [n |-> b.no, gen |-> b.gen, ts |-> b.ts]
      BY AfterFacts
    <3>2. \A u \in Track : sm[u].n \in Nat /\ sm[u].ts \in Nat \cup {Never}
      BY <3>1 DEF SentState
    <3> QED
      BY AfterFacts, <3>1, <3>2
  <2>2. CASE r[i] = e
    BY <2>1, <2>2
  <2>3. ASSUME NEW k \in 1 .. Len(q), r[i] = q[k]
        PROVE  /\ r[i].block.no <= sm[r[i].block.track].n
               /\ r[i].block.ts <= sm[r[i].block.track].ts
               /\ r[i].block.ts <= t /\ r[i].at <= t
    <3> HIDE DEF sm, b
    <3>1. PICK u \in Track : u = q[k].block.track
      BY <1>3
    <3>2. /\ q[k].block.no \in Nat /\ q[k].block.ts \in Nat
          /\ q[k].block.no <= sn[u].n /\ q[k].block.ts <= sn[u].ts
          /\ q[k].block.ts <= t /\ q[k].at <= t
      BY <1>3, <3>1
    <3>3. /\ sn[u].n <= sm[u].n /\ sn[u].ts <= sm[u].ts
          /\ sn[u].n \in Nat /\ sn[u].ts \in Nat \cup {Never}
          /\ sm[u].n \in Nat /\ sm[u].ts \in Nat \cup {Never}
      BY <2>1
    <3>4. q[k].block.no <= sm[u].n
      BY <3>2, <3>3
    <3>5. q[k].block.ts <= sm[u].ts
      BY <3>2, <3>3 DEF Never
    <3> QED
      BY <2>3, <3>1, <3>2, <3>4, <3>5
  <2> QED
    BY <1>1, <2>2, <2>3
<1> QED
  BY <1>4, <1>5

\* Where the i-th entry is when one came in at p.
Moved(i, p) == IF i < p THEN i ELSE i + 1

MovedAll(r, q, p) ==
  /\ \A i \in 1 .. Len(q) : Moved(i, p) \in 1 .. Len(r) /\ r[Moved(i, p)] = q[i]
  /\ \A i, j \in 1 .. Len(q) : i < j => Moved(i, p) < Moved(j, p)
  /\ \A i \in 1 .. Len(q) : i < p => Moved(i, p) < p
  /\ \A i \in 1 .. Len(r) : i # p => \E j \in 1 .. Len(q) : i = Moved(j, p)

LEMMA MovedFacts ==
  ASSUME NEW q \in Seq(Entry), NEW r, NEW p, NEW e \in Entry, Inserted(r, q, p, e)
  PROVE  MovedAll(r, q, p)
<1>1. Len(q) \in Nat /\ Len(r) = Len(q) + 1 /\ p \in 1 .. Len(q) + 1
  BY WhereFrom DEF Spread
<1>2. ASSUME NEW i \in 1 .. Len(q)
      PROVE  Moved(i, p) \in 1 .. Len(r) /\ r[Moved(i, p)] = q[i]
  <2>1. \/ i < p /\ i \in 1 .. Len(r) /\ r[i] = q[i]
        \/ i >= p /\ i + 1 \in 1 .. Len(r) /\ r[i + 1] = q[i]
    BY WhereFrom DEF Spread
  <2> QED
    BY <1>1, <2>1 DEF Moved
<1>3. \A i, j \in 1 .. Len(q) : i < j => Moved(i, p) < Moved(j, p)
  BY <1>1 DEF Moved
<1>4. ASSUME NEW i \in 1 .. Len(r), i # p
      PROVE  \E j \in 1 .. Len(q) : i = Moved(j, p)
  <2>1. CASE i < p
    <3>1. i \in 1 .. Len(q) /\ i = Moved(i, p)
      BY <1>1, <2>1 DEF Moved
    <3> QED
      BY <3>1
  <2>2. CASE i > p
    <3>1. i - 1 \in 1 .. Len(q) /\ ~ (i - 1 < p) /\ (i - 1) + 1 = i
      BY <1>1, <2>2
    <3> QED
      BY <3>1 DEF Moved
  <2> QED
    BY <1>1, <1>4, <2>1, <2>2
<1> QED
  BY <1>1, <1>2, <1>3, <1>4 DEF Moved, MovedAll

LEMMA InsertWhole ==
  ASSUME NEW q \in Seq(Entry), NEW sn \in SentState, NEW t \in Nat, Behind(q, sn, t),
         Whole(q, sn),
         NEW r, NEW p, NEW e \in Entry, Inserted(r, q, p, e), Follows(e.block, sn)
  PROVE  Whole(r, After(sn, e.block))
<1> DEFINE b == e.block
           sm == After(sn, b)
<1>1. /\ DOMAIN r = 1 .. Len(r) /\ DOMAIN q = 1 .. Len(q) /\ Len(q) \in Nat
      /\ p \in 1 .. Len(q) + 1 /\ Len(r) = Len(q) + 1 /\ r[p] = e
  BY WhereFrom DEF Spread
<1>2. \A i \in 1 .. Len(q) : q[i].block.track = b.track => i < p
  BY NewestBehind
<1>3. /\ b.track \in Track /\ b.no \in Nat /\ sm[b.track].n = b.no
      /\ \A u \in Track : u # b.track => sm[u] = sn[u]
  <2>1. b.track \in Track /\ b.no \in Nat
    BY DEF Follows, Block
  <2>2. sm[b.track] = [n |-> b.no, gen |-> b.gen, ts |-> b.ts]
    BY <2>1 DEF After, SentState
  <2>3. \A u \in Track : u # b.track => sm[u] = sn[u]
    BY DEF After, SentState
  <2> QED
    BY <2>1, <2>2, <2>3
<1>4. b.no = sn[b.track].n + 1
  BY DEF Follows
<1>5. \A u \in Track : sn[u].n \in Nat
  BY DEF SentState
<1> HIDE DEF b, sm
<1>6. ASSUME NEW i \in 1 .. Len(r), NEW n \in r[i].block.no + 1 .. sm[r[i].block.track].n
      PROVE  \E j \in i + 1 .. Len(r) :
               r[j].block.track = r[i].block.track /\ r[j].block.no = n
  <2>1. CASE i = p
    BY <1>1, <1>3, <1>6, <2>1 DEF b
  <2>2. CASE i # p
    <3>1. PICK k \in 1 .. Len(q) : i = Moved(k, p)
      BY <2>2, MovedFacts DEF MovedAll
    <3>2. /\ r[i] = q[k] /\ (k < p => i < p)
          /\ \A l \in 1 .. Len(q) : /\ Moved(l, p) \in 1 .. Len(r) /\ r[Moved(l, p)] = q[l]
                                    /\ k < l => i < Moved(l, p)
      BY <3>1, MovedFacts DEF MovedAll
    <3>3. q[k].block.no \in Nat /\ q[k].block.track \in Track
      BY EntryFacts
    <3>4. CASE q[k].block.track = b.track /\ n = b.no
      <4>1. p \in i + 1 .. Len(r)
        BY <1>1, <1>2, <3>2, <3>4
      <4> QED
        BY <1>1, <3>2, <3>4, <4>1 DEF b
    <3>5. CASE ~ (q[k].block.track = b.track /\ n = b.no)
      <4>1. n \in q[k].block.no + 1 .. sn[q[k].block.track].n
        <5>1. CASE q[k].block.track = b.track
          <6>1. n \in q[k].block.no + 1 .. b.no /\ n # b.no
            BY <1>3, <1>6, <3>2, <3>5, <5>1
          <6> QED
            BY <1>3, <1>4, <1>5, <3>3, <5>1, <6>1
        <5>2. CASE q[k].block.track # b.track
          BY <1>3, <1>6, <3>2, <3>3, <5>2
        <5> QED
          BY <5>1, <5>2
      <4>2. PICK l \in k + 1 .. Len(q) :
              q[l].block.track = q[k].block.track /\ q[l].block.no = n
        BY <1>1, <4>1 DEF Whole
      <4>3. l \in 1 .. Len(q) /\ k < l
        BY <1>1
      <4>4. Moved(l, p) \in i + 1 .. Len(r) /\ r[Moved(l, p)] = q[l]
        BY <1>1, <3>2, <4>3
      <4> QED
        BY <3>2, <4>2, <4>4
    <3> QED
      BY <3>4, <3>5
  <2> QED
    BY <2>1, <2>2
<1> QED
  BY <1>1, <1>6 DEF Whole, b, sm

\* The last picture that waits is the last one counted.
LEMMA LastWaits ==
  ASSUME NEW q \in Seq(Entry), NEW sn \in SentState, NEW t, Behind(q, sn, t), Whole(q, sn),
         LastPicture(q, sn), NEW i \in 1 .. Len(q), IsPicture(q[i].block)
  PROVE  \E j \in i .. Len(q) : IsPicture(q[j].block) /\ q[j].block.gen = sn["video"].gen
<1>1. /\ DOMAIN q = 1 .. Len(q) /\ Len(q) \in Nat /\ q[i].block.no \in Nat
      /\ q[i].block.track = "video"
  BY EntryFacts DEF IsPicture
<1>2. sn["video"].n \in Nat
  BY DEF SentState, Track, Live
<1>3. q[i].block.no <= sn["video"].n
  BY <1>1 DEF Behind
<1>4. CASE q[i].block.no = sn["video"].n
  BY <1>1, <1>4 DEF LastPicture
<1>5. CASE q[i].block.no # sn["video"].n
  <2>1. sn["video"].n \in q[i].block.no + 1 .. sn[q[i].block.track].n
    BY <1>1, <1>2, <1>3, <1>5
  <2>2. PICK j \in i + 1 .. Len(q) :
          q[j].block.track = "video" /\ q[j].block.no = sn["video"].n
    <3>1. \A n \in q[i].block.no + 1 .. sn[q[i].block.track].n :
            \E j \in i + 1 .. Len(q) : q[j].block.track = q[i].block.track /\ q[j].block.no = n
      BY <1>1 DEF Whole
    <3> QED
      BY <1>1, <2>1, <3>1
  <2>3. j \in 1 .. Len(q) /\ j \in i .. Len(q)
    BY <1>1
  <2> QED
    BY <1>1, <2>2, <2>3 DEF LastPicture, IsPicture
<1> QED
  BY <1>4, <1>5

LEMMA InsertKeyed ==
  ASSUME NEW q \in Seq(Entry), NEW sn \in SentState, NEW t \in Nat, Behind(q, sn, t),
         Whole(q, sn), KeyBetween(q), LastPicture(q, sn),
         NEW r, NEW p, NEW e \in Entry, Inserted(r, q, p, e), Follows(e.block, sn)
  PROVE  KeyBetween(r) /\ LastPicture(r, After(sn, e.block))
<1> DEFINE b == e.block
           sm == After(sn, b)
<1>1. /\ DOMAIN r = 1 .. Len(r) /\ DOMAIN q = 1 .. Len(q) /\ Len(q) \in Nat
      /\ p \in 1 .. Len(q) + 1 /\ Len(r) = Len(q) + 1 /\ r[p] = e
  BY WhereFrom DEF Spread
<1>2. \A i \in 1 .. Len(q) : q[i].block.track = b.track => i < p /\ q[i].block.no < b.no
  BY NewestBehind
<1>3. /\ b.track \in Track /\ b.no \in Nat
      /\ sm[b.track] = [n |-> b.no, gen |-> b.gen, ts |-> b.ts]
      /\ \A u \in Track : u # b.track => sm[u] = sn[u]
  <2>1. b.track \in Track /\ b.no \in Nat
    BY DEF Follows, Block
  <2>2. sm[b.track] = [n |-> b.no, gen |-> b.gen, ts |-> b.ts]
    BY <2>1 DEF After, SentState
  <2>3. \A u \in Track : u # b.track => sm[u] = sn[u]
    BY DEF After, SentState
  <2> QED
    BY <2>1, <2>2, <2>3
<1>4. IsPicture(b) /\ b.gen # sn["video"].gen => b.key
  BY DEF Follows
<1> HIDE DEF b, sm
<1>5. /\ \A i \in 1 .. Len(q) : Moved(i, p) \in 1 .. Len(r) /\ r[Moved(i, p)] = q[i]
      /\ \A i, j \in 1 .. Len(q) : i < j => Moved(i, p) < Moved(j, p)
      /\ \A i \in 1 .. Len(q) : i < p => Moved(i, p) < p
      /\ \A i \in 1 .. Len(r) : i # p => \E j \in 1 .. Len(q) : i = Moved(j, p)
  BY MovedFacts DEF MovedAll
\* A keyframe between two old entries still is.
<1>6. ASSUME NEW i \in 1 .. Len(q), NEW j \in 1 .. Len(q), i < j,
             IsPicture(q[i].block), IsPicture(q[j].block), q[i].block.gen # q[j].block.gen
      PROVE  \E k \in Moved(i, p) + 1 .. Moved(j, p) :
               IsKeyframe(r[k].block) /\ r[k].block.gen = q[j].block.gen
  <2>1. PICK k \in i + 1 .. j : IsKeyframe(q[k].block) /\ q[k].block.gen = q[j].block.gen
    BY <1>1, <1>6 DEF KeyBetween
  <2>2. k \in 1 .. Len(q) /\ i < k /\ (k = j \/ k < j)
    BY <1>1
  <2>3. /\ Moved(k, p) \in 1 .. Len(r) /\ r[Moved(k, p)] = q[k]
        /\ Moved(i, p) < Moved(k, p) /\ (k = j \/ Moved(k, p) < Moved(j, p))
        /\ Moved(i, p) \in 1 .. Len(r) /\ Moved(j, p) \in 1 .. Len(r)
    BY <1>5, <2>2
  <2>4. Moved(k, p) \in Moved(i, p) + 1 .. Moved(j, p)
    BY <1>1, <2>3
  <2> QED
    BY <2>1, <2>3, <2>4
<1>7. ASSUME NEW i \in 1 .. Len(r), NEW j \in 1 .. Len(r), i < j,
             IsPicture(r[i].block), IsPicture(r[j].block), r[i].block.gen # r[j].block.gen
      PROVE  \E k \in i + 1 .. j : IsKeyframe(r[k].block) /\ r[k].block.gen = r[j].block.gen
  <2>1. CASE j = p
    <3>1. PICK k \in 1 .. Len(q) : i = Moved(k, p)
      BY <1>1, <1>5, <1>7, <2>1
    <3>2. r[i] = q[k] /\ IsPicture(b) /\ r[j].block = b
      BY <1>1, <1>5, <1>7, <2>1, <3>1 DEF b
    <3>3. CASE b.key
      BY <1>1, <1>7, <2>1, <3>2, <3>3 DEF IsKeyframe
    <3>4. CASE ~ b.key
      <4>1. b.gen = sn["video"].gen
        BY <1>4, <3>2, <3>4
      <4>2. PICK l \in k .. Len(q) :
              IsPicture(q[l].block) /\ q[l].block.gen = sn["video"].gen
        BY <1>7, <3>2, LastWaits
      <4>3. l \in 1 .. Len(q) /\ k < l
        BY <1>1, <1>7, <3>2, <4>1, <4>2
      <4>4. l < p
        BY <1>2, <3>2, <4>2, <4>3 DEF IsPicture
      <4>5. PICK h \in i + 1 .. Moved(l, p) :
              IsKeyframe(r[h].block) /\ r[h].block.gen = b.gen
        BY <1>6, <1>7, <3>1, <3>2, <4>1, <4>2, <4>3
      <4>6. h \in i + 1 .. j
        BY <1>1, <1>5, <2>1, <4>3, <4>4
      <4> QED
        BY <3>2, <4>5, <4>6
    <3> QED
      BY <3>3, <3>4
  <2>2. CASE j # p
    <3>1. PICK l \in 1 .. Len(q) : j = Moved(l, p)
      BY <1>5, <2>2
    <3>2. r[j] = q[l]
      BY <1>5, <3>1
    <3>3. CASE i = p
      <4>1. b.track = "video" /\ q[l].block.track = "video"
        BY <1>1, <1>7, <3>2, <3>3 DEF IsPicture, b
      <4>2. l < p
        BY <1>2, <4>1
      <4> QED
        BY <1>1, <1>5, <1>7, <3>1, <3>3, <4>2
    <3>4. CASE i # p
      <4>1. PICK k \in 1 .. Len(q) : i = Moved(k, p)
        BY <1>5, <3>4
      <4>2. r[i] = q[k] /\ k # l
        BY <1>5, <1>7, <3>1, <4>1
      <4>3. ~ (l < k)
        BY <1>1, <1>5, <1>7, <3>1, <4>1
      <4>4. k < l
        BY <1>1, <4>2, <4>3
      <4> QED
        BY <1>6, <1>7, <3>1, <3>2, <4>1, <4>2, <4>4
    <3> QED
      BY <3>3, <3>4
  <2> QED
    BY <2>1, <2>2
<1>8. ASSUME NEW i \in 1 .. Len(r), IsPicture(r[i].block), r[i].block.no = sm["video"].n
      PROVE  r[i].block.gen = sm["video"].gen
  <2>1. CASE i = p
    BY <1>1, <1>3, <1>8, <2>1 DEF b, IsPicture
  <2>2. CASE i # p
    <3>1. PICK k \in 1 .. Len(q) : i = Moved(k, p)
      BY <1>5, <2>2
    <3>2. r[i] = q[k] /\ q[k].block.no \in Nat /\ q[k].block.track = "video"
      BY <1>5, <1>8, <3>1, EntryFacts DEF IsPicture
    <3>3. CASE b.track = "video"
      <4>1. q[k].block.no < b.no /\ sm["video"].n = b.no
        BY <1>2, <1>3, <3>2, <3>3
      <4> QED
        BY <1>3, <1>8, <3>2, <4>1
    <3>4. CASE b.track # "video"
      <4>1. sm["video"] = sn["video"]
        BY <1>3, <3>4 DEF Track, Live
      <4> QED
        BY <1>1, <1>8, <3>2, <4>1 DEF LastPicture
    <3> QED
      BY <3>3, <3>4
  <2> QED
    BY <2>1, <2>2
<1>9. KeyBetween(r)
  BY <1>1, <1>7 DEF KeyBetween
<1>10. LastPicture(r, sm)
  BY <1>1, <1>8 DEF LastPicture
<1> QED
  BY <1>9, <1>10 DEF b, sm

LEMMA PushKeepsQueue ==
  ASSUME NEW m, NEW sn, NEW b, NEW t \in Nat, QInv(m, sn, t), Follows(b, sn), b.ts <= t
  PROVE  QInv(Push(m, b, t), After(sn, b), t)
<1> DEFINE q == m.queue
           r == Push(m, b, t).queue
           p == Place(q, b)
           e == [block |-> b, at |-> t]
<1>1. /\ m \in MergerState /\ sn \in SentState /\ q \in Seq(Entry)
      /\ Sorted(q) /\ InTurn(q) /\ Behind(q, sn, t) /\ Marked(m)
      /\ Whole(q, sn) /\ KeyBetween(q) /\ LastPicture(q, sn)
  BY DEF QInv, MergerState
<1>2. b \in Block /\ e \in Entry /\ e.block = b /\ e.at = t
  BY DEF Follows, Entry
<1>3. /\ Push(m, b, t) \in MergerState /\ Inserted(r, q, p, e) /\ Sorted(r)
      /\ \A u \in Live : m.mark[u] <= Push(m, b, t).mark[u]
      /\ b.track \in Live => b.ts <= Push(m, b, t).mark[b.track]
  BY <1>1, <1>2, PushInserts
<1> HIDE DEF e, p, r
<1>4. InTurn(r) /\ Behind(r, After(sn, b), t)
  BY <1>1, <1>2, <1>3, InsertInTurn
<1>5. Whole(r, After(sn, b))
  BY <1>1, <1>2, <1>3, InsertWhole
<1>6. KeyBetween(r) /\ LastPicture(r, After(sn, b))
  BY <1>1, <1>2, <1>3, InsertKeyed
<1>7. After(sn, b) \in SentState
  BY <1>1, AfterFacts
<1>8. Marked(Push(m, b, t))
  <2>1. /\ DOMAIN r = 1 .. Len(r) /\ DOMAIN q = 1 .. Len(q)
        /\ \A i \in 1 .. Len(r) : r[i] = e \/ \E k \in 1 .. Len(q) : r[i] = q[k]
    <3>1. DOMAIN r = 1 .. Len(r) /\ DOMAIN q = 1 .. Len(q) /\ r[p] = e
      BY <1>1, <1>2, <1>3, WhereFrom DEF Spread
    <3>2. /\ \A k \in 1 .. Len(q) : r[Moved(k, p)] = q[k]
          /\ \A i \in 1 .. Len(r) : i # p => \E k \in 1 .. Len(q) : i = Moved(k, p)
      BY <1>1, <1>2, <1>3, MovedFacts DEF MovedAll
    <3> QED
      BY <3>1, <3>2
  <2>2. /\ m.mark \in [Live -> Nat \cup {Never}] /\ Push(m, b, t).mark \in [Live -> Nat \cup {Never}]
    BY <1>1, <1>3 DEF MergerState
  <2> SUFFICES ASSUME NEW i \in 1 .. Len(r), r[i].block.track \in Live
               PROVE  r[i].block.ts <= Push(m, b, t).mark[r[i].block.track]
    BY <2>1 DEF Marked, r
  <2>3. CASE r[i] = e
    BY <1>2, <1>3, <2>3
  <2>4. ASSUME NEW k \in 1 .. Len(q), r[i] = q[k]
        PROVE  r[i].block.ts <= Push(m, b, t).mark[r[i].block.track]
    <3>1. PICK u \in Live : u = r[i].block.track
      OBVIOUS
    <3>2. r[i].block.ts <= m.mark[u] /\ r[i].block.ts \in Nat
      BY <1>1, <2>1, <2>4, <3>1, EntryFacts DEF Marked
    <3>3. m.mark[u] <= Push(m, b, t).mark[u]
      BY <1>3
    <3>4. m.mark[u] \in Nat \cup {Never} /\ Push(m, b, t).mark[u] \in Nat \cup {Never}
      BY <2>2
    <3> QED
      BY <3>1, <3>2, <3>3, <3>4 DEF Never
  <2> QED
    BY <2>1, <2>3, <2>4
<1> QED
  BY <1>1, <1>3, <1>4, <1>5, <1>6, <1>7, <1>8 DEF QInv, r

LEMMA SinkFacts ==
  ASSUME NEW x \in SinkState
  PROVE  /\ Len(x.got) \in Nat /\ DOMAIN x.got = 1 .. Len(x.got)
         /\ x.got \in Seq([track : Track, no : Nat, gen : Gen \cup {NoGen}, key : BOOLEAN])
         /\ \A i \in 1 .. Len(x.got) :
              x.got[i].no \in Nat /\ x.got[i].track \in Track /\ x.got[i].gen \in Gen \cup {NoGen}
<1>1. x.got \in Seq([track : Track, no : Nat, gen : Gen \cup {NoGen}, key : BOOLEAN])
  BY DEF SinkState
<1>2. Len(x.got) \in Nat /\ DOMAIN x.got = 1 .. Len(x.got)
  BY <1>1, LenProperties
<1>3. ASSUME NEW i \in 1 .. Len(x.got)
      PROVE  x.got[i].no \in Nat /\ x.got[i].track \in Track /\ x.got[i].gen \in Gen \cup {NoGen}
  <2>1. x.got[i] \in [track : Track, no : Nat, gen : Gen \cup {NoGen}, key : BOOLEAN]
    BY <1>1, ElementOfSeq
  <2> QED
    BY <2>1
<1> QED
  BY <1>1, <1>2, <1>3

\* An open sink has a keyframe of the newest picture's encoder, or will get one
\* with what waits.
LEMMA NewestKeyed ==
  ASSUME NEW x, NEW q \in Seq(Entry), NEW sn \in SentState,
         XInv(x, q, 0, sn), LastPicture(q, sn), x.started
  PROVE  \/ \E k \in DOMAIN x.got : IsKeyframe(x.got[k]) /\ x.got[k].gen = sn["video"].gen
         \/ \E k \in 1 .. Len(q) : IsKeyframe(q[k].block) /\ q[k].block.gen = sn["video"].gen
<1>1. /\ x \in SinkState /\ x.got # <<>> /\ IsKeyframe(x.got[1])
      /\ InRow(x, q, 0, sn) /\ NoGap(x, q, 0, sn) /\ Keyed(x, sn) /\ KeyedNext(x, q, 0)
  BY DEF XInv, Opened
<1>2. /\ DOMAIN x.got = 1 .. Len(x.got) /\ 1 \in DOMAIN x.got /\ Len(x.got) \in Nat
      /\ x.got[1].no \in Nat /\ x.got[1].track = "video"
      /\ Len(q) \in Nat /\ DOMAIN q = 1 .. Len(q) /\ sn["video"].n \in Nat
  <2>1. Len(x.got) \in Nat /\ DOMAIN x.got = 1 .. Len(x.got) /\ Len(x.got) # 0
    BY <1>1, SinkFacts, EmptySeq
  <2>2. x.got[1].no \in Nat
    BY <1>1, <2>1, SinkFacts
  <2>3. sn["video"].n \in Nat
    BY DEF SentState, Track, Live
  <2> QED
    BY <1>1, <2>1, <2>2, <2>3, EntryFacts DEF IsKeyframe, IsPicture
\* Of any picture it has, or that waits.
<1>3. ASSUME NEW k \in DOMAIN x.got, IsPicture(x.got[k]), x.got[k].no = sn["video"].n
      PROVE  \E l \in DOMAIN x.got : IsKeyframe(x.got[l]) /\ x.got[l].gen = sn["video"].gen
  <2>1. /\ x.got[k].gen = sn["video"].gen
        /\ \E l \in 1 .. k : IsKeyframe(x.got[l]) /\ x.got[l].gen = x.got[k].gen
    BY <1>1, <1>3 DEF Keyed
  <2> QED
    BY <1>2, <2>1
<1>4. ASSUME NEW k \in 1 .. Len(q), IsPicture(q[k].block), q[k].block.no = sn["video"].n
      PROVE  \/ \E l \in DOMAIN x.got : IsKeyframe(x.got[l]) /\ x.got[l].gen = sn["video"].gen
             \/ \E l \in 1 .. Len(q) : IsKeyframe(q[l].block) /\ q[l].block.gen = sn["video"].gen
  <2>1. q[k].block.gen = sn["video"].gen
    BY <1>2, <1>4 DEF LastPicture
  <2>2. \/ \E l \in DOMAIN x.got : IsKeyframe(x.got[l]) /\ x.got[l].gen = q[k].block.gen
        \/ \E l \in 1 .. k : IsKeyframe(q[l].block) /\ q[l].block.gen = q[k].block.gen
    BY <1>1, <1>2, <1>4 DEF KeyedNext
  <2> QED
    BY <1>2, <2>1, <2>2
<1>5. CASE x.got[1].no = sn["video"].n
  BY <1>2, <1>3, <1>5 DEF IsPicture
<1>6. CASE x.got[1].no # sn["video"].n
  <2>1. x.got[1].no <= sn["video"].n
    BY <1>1, <1>2 DEF InRow
  <2>2. sn["video"].n \in x.got[1].no + 1 .. sn[x.got[1].track].n
    BY <1>2, <1>6, <2>1
  <2>3. \/ \E k \in 2 .. Len(x.got) : x.got[k].track = "video" /\ x.got[k].no = sn["video"].n
        \/ \E k \in 1 .. Len(q) : q[k].block.track = "video" /\ q[k].block.no = sn["video"].n
    <3>1. \A n \in x.got[1].no + 1 .. sn[x.got[1].track].n :
            \/ \E k \in 1 + 1 .. Len(x.got) : x.got[k].track = x.got[1].track /\ x.got[k].no = n
            \/ \E k \in 0 + 1 .. Len(q) : q[k].block.track = x.got[1].track /\ q[k].block.no = n
      BY <1>1, <1>2 DEF NoGap
    <3> QED
      BY <1>2, <2>2, <3>1
  <2> QED
    BY <1>2, <1>3, <1>4, <2>3 DEF IsPicture
<1> QED
  BY <1>5, <1>6

LEMMA PushKeepsSink ==
  ASSUME NEW m, NEW sn, NEW b, NEW x, NEW t \in Nat, QInv(m, sn, t), Follows(b, sn), b.ts <= t,
         XInv(x, m.queue, 0, sn)
  PROVE  XInv(x, Push(m, b, t).queue, 0, After(sn, b))
<1> DEFINE q == m.queue
           r == Push(m, b, t).queue
           p == Place(q, b)
           e == [block |-> b, at |-> t]
           sm == After(sn, b)
<1>1. /\ m \in MergerState /\ sn \in SentState /\ q \in Seq(Entry)
      /\ Sorted(q) /\ Behind(q, sn, t) /\ LastPicture(q, sn)
  BY DEF QInv, MergerState
<1>2. b \in Block /\ e \in Entry /\ e.block = b
  BY DEF Follows, Entry
<1>3. Inserted(r, q, p, e)
  BY <1>1, <1>2, PushInserts
<1> HIDE DEF e, p, r
<1>4. /\ p \in 1 .. Len(r) /\ r[p].block = b /\ Len(q) \in Nat /\ Len(r) \in Nat
      /\ \A i \in 1 .. Len(q) : Moved(i, p) \in 1 .. Len(r) /\ r[Moved(i, p)] = q[i]
      /\ \A i, j \in 1 .. Len(q) : i < j => Moved(i, p) < Moved(j, p)
      /\ \A i \in 1 .. Len(q) : i < p => Moved(i, p) < p
      /\ \A i \in 1 .. Len(r) : i # p => \E j \in 1 .. Len(q) : i = Moved(j, p)
  <2>1. p \in 1 .. Len(r) /\ r[p].block = b /\ Len(q) \in Nat /\ Len(r) \in Nat
    BY <1>1, <1>2, <1>3, WhereFrom DEF Spread
  <2>2. MovedAll(r, q, p)
    BY <1>1, <1>2, <1>3, MovedFacts
  <2> QED
    BY <2>1, <2>2 DEF MovedAll
<1>5. \A i \in 1 .. Len(q) : q[i].block.track = b.track => i < p
  BY <1>1, <1>2, <1>3, NewestBehind
<1>6. /\ b.track \in Track /\ b.no \in Nat /\ b.no = sn[b.track].n + 1
      /\ sm[b.track].n = b.no
      /\ \A u \in Track : u # b.track => sm[u] = sn[u]
      /\ \A u \in Track : sn[u].n \in Nat
  <2>1. b.track \in Track /\ b.no \in Nat /\ b.no = sn[b.track].n + 1
    BY DEF Follows, Block
  <2>2. sm[b.track] = [n |-> b.no, gen |-> b.gen, ts |-> b.ts]
    BY <1>1, <2>1 DEF After, SentState
  <2>3. \A u \in Track : u # b.track => sm[u] = sn[u]
    BY <1>1 DEF After, SentState
  <2>4. \A u \in Track : sn[u].n \in Nat
    BY <1>1 DEF SentState
  <2> QED
    BY <2>1, <2>2, <2>3, <2>4
<1>7. /\ Opened(x) /\ InRow(x, q, 0, sn) /\ NoGap(x, q, 0, sn) /\ Keyed(x, sn)
      /\ KeyedNext(x, q, 0)
  BY DEF XInv
<1>8. /\ Len(x.got) \in Nat /\ DOMAIN x.got = 1 .. Len(x.got)
      /\ \A j \in 1 .. Len(x.got) : x.got[j].no \in Nat /\ x.got[j].track \in Track
  BY <1>7, SinkFacts DEF Opened
<1> HIDE DEF sm
<1>9. InRow(x, r, 0, sm)
  <2> SUFFICES ASSUME NEW j \in 1 .. Len(x.got)
               PROVE  /\ x.got[j].no <= sm[x.got[j].track].n
                      /\ \A k \in j + 1 .. Len(x.got) :
                           x.got[k].track = x.got[j].track => x.got[j].no < x.got[k].no
                      /\ \A k \in 1 .. Len(r) :
                           r[k].block.track = x.got[j].track => x.got[j].no < r[k].block.no
    BY <1>8 DEF InRow
  <2>1. /\ x.got[j].no <= sn[x.got[j].track].n
        /\ \A k \in j + 1 .. Len(x.got) :
             x.got[k].track = x.got[j].track => x.got[j].no < x.got[k].no
        /\ \A k \in 1 .. Len(q) :
             q[k].block.track = x.got[j].track => x.got[j].no < q[k].block.no
    BY <1>7, <1>8 DEF InRow
  <2>2. x.got[j].no <= sm[x.got[j].track].n
    <3>1. CASE x.got[j].track = b.track
      BY <1>6, <1>8, <2>1, <3>1
    <3>2. CASE x.got[j].track # b.track
      BY <1>6, <1>8, <2>1, <3>2
    <3> QED
      BY <3>1, <3>2
  <2>3. ASSUME NEW k \in 1 .. Len(r), r[k].block.track = x.got[j].track
        PROVE  x.got[j].no < r[k].block.no
    <3>1. CASE k = p
      <4>1. r[k].block = b /\ x.got[j].track = b.track
        BY <1>4, <2>3, <3>1
      <4>2. x.got[j].no <= sn[b.track].n
        BY <2>1, <4>1
      <4> QED
        BY <1>6, <1>8, <4>1, <4>2
    <3>2. CASE k # p
      <4>1. PICK l \in 1 .. Len(q) : k = Moved(l, p)
        BY <1>4, <3>2
      <4> QED
        BY <1>4, <2>1, <2>3, <4>1
    <3> QED
      BY <3>1, <3>2
  <2> QED
    BY <2>1, <2>2, <2>3
<1>10. NoGap(x, r, 0, sm)
  <2> SUFFICES ASSUME NEW j \in 1 .. Len(x.got),
                      NEW n \in x.got[j].no + 1 .. sm[x.got[j].track].n
               PROVE  \/ \E k \in j + 1 .. Len(x.got) :
                           x.got[k].track = x.got[j].track /\ x.got[k].no = n
                      \/ \E k \in 0 + 1 .. Len(r) :
                           r[k].block.track = x.got[j].track /\ r[k].block.no = n
    BY <1>8 DEF NoGap
  <2>1. CASE x.got[j].track = b.track /\ n = b.no
    BY <1>4, <2>1
  <2>2. CASE ~ (x.got[j].track = b.track /\ n = b.no)
    <3>1. n \in x.got[j].no + 1 .. sn[x.got[j].track].n
      <4>1. CASE x.got[j].track = b.track
        <5>1. n # b.no /\ n \in x.got[j].no + 1 .. b.no
          BY <1>6, <2>2, <4>1
        <5> QED
          BY <1>6, <1>8, <4>1, <5>1
      <4>2. CASE x.got[j].track # b.track
        BY <1>6, <1>8, <4>2
      <4> QED
        BY <4>1, <4>2
    <3>2. \/ \E k \in j + 1 .. Len(x.got) :
               x.got[k].track = x.got[j].track /\ x.got[k].no = n
          \/ \E k \in 1 .. Len(q) :
               q[k].block.track = x.got[j].track /\ q[k].block.no = n
      <4>1. \A l \in x.got[j].no + 1 .. sn[x.got[j].track].n :
              \/ \E k \in j + 1 .. Len(x.got) :
                   x.got[k].track = x.got[j].track /\ x.got[k].no = l
              \/ \E k \in 0 + 1 .. Len(q) :
                   q[k].block.track = x.got[j].track /\ q[k].block.no = l
        BY <1>7, <1>8 DEF NoGap
      <4> QED
        BY <3>1, <4>1
    <3>3. ASSUME NEW k \in 1 .. Len(q)
          PROVE  Moved(k, p) \in 0 + 1 .. Len(r) /\ r[Moved(k, p)] = q[k]
      BY <1>4
    <3> QED
      BY <3>2, <3>3
  <2> QED
    BY <2>1, <2>2
<1>11. Keyed(x, sm)
  <2> SUFFICES ASSUME NEW j \in 1 .. Len(x.got), IsPicture(x.got[j]),
                      x.got[j].no = sm["video"].n
               PROVE  x.got[j].gen = sm["video"].gen
    BY <1>7, <1>8 DEF Keyed
  <2>1. x.got[j].track = "video" /\ x.got[j].no <= sn["video"].n /\ "video" \in Track
    BY <1>7, <1>8 DEF InRow, IsPicture, Track, Live
  <2>2. b.track # "video"
    <3> SUFFICES ASSUME b.track = "video" PROVE FALSE
      OBVIOUS
    <3>1. x.got[j].no = sn["video"].n + 1 /\ sn["video"].n \in Nat
      BY <1>6
    <3> QED
      BY <2>1, <3>1
  <2>3. sm["video"] = sn["video"]
    BY <1>6, <2>1, <2>2
  <2> QED
    BY <1>7, <1>8, <2>3 DEF Keyed
<1>12. KeyedNext(x, r, 0)
  <2> SUFFICES ASSUME x.started, NEW j \in 1 .. Len(r), IsPicture(r[j].block)
               PROVE  \/ \E k \in DOMAIN x.got :
                           IsKeyframe(x.got[k]) /\ x.got[k].gen = r[j].block.gen
                      \/ \E k \in 1 .. j :
                           IsKeyframe(r[k].block) /\ r[k].block.gen = r[j].block.gen
    BY DEF KeyedNext
  <2>1. ASSUME NEW k \in 1 .. Len(q), Moved(k, p) <= j, IsKeyframe(q[k].block),
               q[k].block.gen = r[j].block.gen
        PROVE  \E l \in 1 .. j : IsKeyframe(r[l].block) /\ r[l].block.gen = r[j].block.gen
    <3>1. Moved(k, p) \in 1 .. Len(r) /\ r[Moved(k, p)] = q[k]
      BY <1>4
    <3>2. Moved(k, p) \in 1 .. j
      BY <1>4, <2>1, <3>1
    <3> QED
      BY <2>1, <3>1, <3>2
  <2>2. CASE j = p /\ b.key
    BY <1>4, <2>2 DEF IsKeyframe
  <2>3. CASE j = p /\ ~ b.key
    <3>1. b.gen = sn["video"].gen /\ r[j].block = b /\ b.track = "video"
      BY <1>4, <2>3 DEF Follows, IsPicture
    <3>2. \/ \E k \in DOMAIN x.got : IsKeyframe(x.got[k]) /\ x.got[k].gen = sn["video"].gen
          \/ \E k \in 1 .. Len(q) : IsKeyframe(q[k].block) /\ q[k].block.gen = sn["video"].gen
      BY <1>1, NewestKeyed
    <3>3. ASSUME NEW k \in 1 .. Len(q), IsKeyframe(q[k].block)
          PROVE  Moved(k, p) <= j
      <4>1. k < p
        BY <1>5, <3>1, <3>3 DEF IsKeyframe, IsPicture
      <4> QED
        BY <1>4, <2>3, <4>1
    <3> QED
      BY <2>1, <3>1, <3>2, <3>3
  <2>4. CASE j # p
    <3>1. PICK l \in 1 .. Len(q) : j = Moved(l, p)
      BY <1>4, <2>4
    <3>2. r[j] = q[l]
      BY <1>4, <3>1
    <3>3. \/ \E k \in DOMAIN x.got : IsKeyframe(x.got[k]) /\ x.got[k].gen = q[l].block.gen
          \/ \E k \in 1 .. l : IsKeyframe(q[k].block) /\ q[k].block.gen = q[l].block.gen
      <4>1. l \in 0 + 1 .. Len(q) /\ IsPicture(q[l].block) /\ x.started
        BY <1>4, <3>2
      <4>2. \/ \E k \in DOMAIN x.got : IsKeyframe(x.got[k]) /\ x.got[k].gen = q[l].block.gen
            \/ \E k \in 0 + 1 .. l : IsKeyframe(q[k].block) /\ q[k].block.gen = q[l].block.gen
        BY <1>7, <4>1 DEF KeyedNext
      <4> QED
        BY <4>2
    <3>4. ASSUME NEW k \in 1 .. l
          PROVE  k \in 1 .. Len(q) /\ Moved(k, p) <= j
      <4>1. k \in 1 .. Len(q) /\ (k = l \/ k < l)
        BY <1>4
      <4>2. Moved(k, p) \in 1 .. Len(r) /\ (k = l \/ Moved(k, p) < Moved(l, p))
        BY <1>4, <4>1
      <4> QED
        BY <1>4, <3>1, <4>1, <4>2
    <3> QED
      BY <2>1, <3>2, <3>3, <3>4
  <2> QED
    BY <2>2, <2>3, <2>4
<1> QED
  BY <1>7, <1>9, <1>10, <1>11, <1>12 DEF XInv, r, sm
-----------------------------------------------------------------------------
(* A block reaches a sink.                                                 *)

WrittenBlock == [track : Track, no : Nat, gen : Gen \cup {NoGen}, key : BOOLEAN]

HeadState == [video : Gen \cup {NoGen}, raw : BOOLEAN]

\* A sink that is closed has nothing that could be out of order.
LEMMA ClosedKeeps ==
  ASSUME NEW x \in SinkState, ~ x.started, x.got = <<>>, NEW q, NEW i, NEW sn
  PROVE  XInv(x, q, i, sn)
  BY DEF XInv, Opened, InRow, NoGap, Keyed, KeyedNext

LEMMA EndedIsClosed ==
  ASSUME NEW x \in SinkState
  PROVE  Ended(x) \in SinkState /\ ~ Ended(x).started /\ Ended(x).got = <<>>
<1>1. x.kind \in Kind \cup {"none"} /\ <<>> \in Seq(WrittenBlock)
  BY DEF SinkState
<1>2. /\ NotAttached \in SinkState
      /\ ~ NotAttached.started /\ NotAttached.got = <<>>
  BY <1>1 DEF NotAttached, SinkState, WrittenBlock
<1> HIDE DEF NotAttached
<1> QED
  BY <1>1, <1>2 DEF Ended, SinkState

\* A sink took block b.
Took(y, x, b) ==
  /\ y \in SinkState /\ y.started /\ y.kind # "none"
  /\ y.got = Append(x.got, Written(b))
  /\ b.track = "raw" => y.rawDeclared
  /\ x.started => y.rawDeclared = x.rawDeclared
  /\ ~ x.started => IsKeyframe(b)

LEMMA DeliverCases ==
  ASSUME NEW x, Opened(x), NEW b \in Block, NEW takes \in BOOLEAN, NEW head \in HeadState
  PROVE  LET y == Deliver(x, b, takes, head)
         IN  \/ y = x /\ ~ x.started
             \/ y = x /\ x.started /\ b.track = "raw" /\ ~ x.rawDeclared
             \/ y = Ended(x)
             \/ Took(y, x, b)
<1> DEFINE opens == ~ x.started /\ Starts(b)
           open  == IF opens
                    THEN [x EXCEPT !.started = TRUE, !.told = head.video,
                                   !.rawDeclared = WantsRaw(x) /\ head.raw]
                    ELSE x
           given == x.kind # "none" /\ open.started /\ (b.track = "raw" => open.rawDeclared)
           took  == [open EXCEPT !.got = Append(@, Written(b))]
           y == Deliver(x, b, takes, head)
<1>1. /\ x \in SinkState /\ x.started \in BOOLEAN /\ x.got \in Seq(WrittenBlock)
      /\ x.kind \in Kind \cup {"none"} /\ (x.started => x.kind # "none")
  BY DEF Opened, SinkState, WrittenBlock
<1>2. y = CASE given /\ takes -> took
            [] given /\ ~ takes /\ x.started -> Ended(x)
            [] OTHER -> x
  BY DEF Deliver, Refused
<1>3. /\ open \in SinkState /\ open.kind = x.kind /\ open.got = x.got
      /\ x.started => open = x
  BY <1>1 DEF SinkState, WantsRaw, HeadState
<1>4. CASE given /\ takes
  <2>1. y = took
    BY <1>2, <1>4
  <2>2. Written(b) \in WrittenBlock
    BY DEF Written, WrittenBlock, Block
  <2>3. Append(open.got, Written(b)) \in Seq(WrittenBlock)
    BY <1>1, <1>3, <2>2, AppendProperties
  <2>4. /\ took \in SinkState /\ took.got = Append(x.got, Written(b))
        /\ took.started = open.started /\ took.kind = open.kind
        /\ took.rawDeclared = open.rawDeclared
    <3> HIDE DEF open
    <3> QED
      BY <1>3, <2>3 DEF SinkState, WrittenBlock
  <2>5. Took(took, x, b)
    <3>1. ~ x.started => opens
      BY <1>1, <1>4
    <3> HIDE DEF took
    <3> QED
      BY <1>3, <1>4, <2>4, <3>1 DEF Took, Starts
  <2> HIDE DEF took, y
  <2> QED
    BY <2>1, <2>5 DEF y
<1>5. CASE given /\ ~ takes
  <2>1. x.started => y = Ended(x)
    BY <1>2, <1>5
  <2>2. ~ x.started => y = x
    BY <1>2, <1>5
  <2> HIDE DEF y
  <2> QED
    BY <2>1, <2>2 DEF y
<1>6. CASE ~ given
  <2>1. y = x
    BY <1>2, <1>6
  <2>2. x.started => b.track = "raw" /\ ~ x.rawDeclared
    BY <1>1, <1>3, <1>6
  <2> HIDE DEF y
  <2> QED
    BY <2>1, <2>2 DEF y
<1> QED
  BY <1>4, <1>5, <1>6

\* Where the sink keeps what it does not take.
LEMMA SkipKeeps ==
  ASSUME NEW x, NEW q \in Seq(Entry), NEW sn, NEW i \in 1 .. Len(q), XInv(x, q, i - 1, sn),
         q[i].block.track = "raw", ~ x.rawDeclared
  PROVE  XInv(x, q, i, sn)
<1>1. /\ Opened(x) /\ InRow(x, q, i - 1, sn) /\ NoGap(x, q, i - 1, sn) /\ Keyed(x, sn)
      /\ KeyedNext(x, q, i - 1)
  BY DEF XInv
<1>2. /\ Len(x.got) \in Nat /\ DOMAIN x.got = 1 .. Len(x.got) /\ Len(q) \in Nat
      /\ \A j \in 1 .. Len(x.got) : x.got[j].track # "raw"
  <2>1. Len(x.got) \in Nat /\ DOMAIN x.got = 1 .. Len(x.got)
    BY <1>1, SinkFacts DEF Opened
  <2> QED
    BY <1>1, <2>1, EntryFacts DEF Opened
<1>3. \A k : k \in (i - 1) + 1 .. Len(q) <=> (k = i \/ k \in i + 1 .. Len(q))
  BY <1>2
<1>4. InRow(x, q, i, sn)
  BY <1>1, <1>2, <1>3 DEF InRow
<1>5. NoGap(x, q, i, sn)
  <2> SUFFICES ASSUME NEW j \in DOMAIN x.got,
                      NEW n \in x.got[j].no + 1 .. sn[x.got[j].track].n
               PROVE  \/ \E k \in j + 1 .. Len(x.got) :
                           x.got[k].track = x.got[j].track /\ x.got[k].no = n
                      \/ \E k \in i + 1 .. Len(q) :
                           q[k].block.track = x.got[j].track /\ q[k].block.no = n
    BY DEF NoGap
  <2>1. \/ \E k \in j + 1 .. Len(x.got) :
             x.got[k].track = x.got[j].track /\ x.got[k].no = n
        \/ \E k \in (i - 1) + 1 .. Len(q) :
             q[k].block.track = x.got[j].track /\ q[k].block.no = n
    BY <1>1, <1>2 DEF NoGap
  <2> QED
    BY <1>2, <1>3, <2>1
<1>6. KeyedNext(x, q, i)
  <2> SUFFICES ASSUME x.started, NEW j \in i + 1 .. Len(q), IsPicture(q[j].block)
               PROVE  \/ \E k \in DOMAIN x.got :
                           IsKeyframe(x.got[k]) /\ x.got[k].gen = q[j].block.gen
                      \/ \E k \in i + 1 .. j :
                           IsKeyframe(q[k].block) /\ q[k].block.gen = q[j].block.gen
    BY DEF KeyedNext
  <2>1. \/ \E k \in DOMAIN x.got : IsKeyframe(x.got[k]) /\ x.got[k].gen = q[j].block.gen
        \/ \E k \in (i - 1) + 1 .. j :
             IsKeyframe(q[k].block) /\ q[k].block.gen = q[j].block.gen
    BY <1>1, <1>3 DEF KeyedNext
  <2>2. ~ IsKeyframe(q[i].block)
    BY DEF IsKeyframe, IsPicture
  <2>3. \A k : k \in (i - 1) + 1 .. j => (k = i \/ k \in i + 1 .. j)
    BY <1>2
  <2> QED
    BY <2>1, <2>2, <2>3
<1> QED
  BY <1>1, <1>4, <1>5, <1>6 DEF XInv

\* Where it takes the block.
LEMMA TakeKeeps ==
  ASSUME NEW x, NEW y, NEW m, NEW sn, NEW t, QInv(m, sn, t), NEW i \in 1 .. Len(m.queue),
         XInv(x, m.queue, i - 1, sn), Took(y, x, m.queue[i].block)
  PROVE  XInv(y, m.queue, i, sn)
<1> DEFINE q == m.queue
           b == q[i].block
           L == Len(x.got)
<1>1. /\ q \in Seq(Entry) /\ sn \in SentState /\ InTurn(q) /\ Behind(q, sn, t)
      /\ Whole(q, sn) /\ KeyBetween(q) /\ LastPicture(q, sn)
  BY DEF QInv, MergerState
<1>2. /\ Opened(x) /\ InRow(x, q, i - 1, sn) /\ NoGap(x, q, i - 1, sn) /\ Keyed(x, sn)
      /\ KeyedNext(x, q, i - 1)
  BY DEF XInv
<1>3. /\ y \in SinkState /\ y.started /\ y.kind # "none" /\ y.got = Append(x.got, Written(b))
      /\ b.track = "raw" => y.rawDeclared
      /\ x.started => y.rawDeclared = x.rawDeclared
      /\ ~ x.started => IsKeyframe(b)
  BY DEF Took
<1>4. /\ Len(q) \in Nat /\ DOMAIN q = 1 .. Len(q) /\ i \in DOMAIN q
      /\ b.no \in Nat /\ b.track \in Track
  BY <1>1, EntryFacts
<1>5. /\ L \in Nat /\ DOMAIN x.got = 1 .. L /\ x.got \in Seq(WrittenBlock)
      /\ \A j \in 1 .. L : x.got[j].no \in Nat /\ x.got[j].track \in Track
  BY <1>2, SinkFacts DEF Opened, WrittenBlock
<1>6. /\ Len(y.got) = L + 1 /\ DOMAIN y.got = 1 .. L + 1
      /\ \A j \in 1 .. L : y.got[j] = x.got[j]
      /\ y.got[L + 1] = Written(b)
  <2>1. Written(b) \in WrittenBlock
    BY <1>1, <1>4, EntryFacts DEF Written, WrittenBlock, Block
  <2>2. Len(Append(x.got, Written(b))) = L + 1
    BY <1>5, <2>1, AppendProperties
  <2>3. \A j \in 1 .. L : Append(x.got, Written(b))[j] = x.got[j]
    BY <1>5, <2>1, AppendProperties
  <2>4. Append(x.got, Written(b))[L + 1] = Written(b)
    BY <1>5, <2>1, AppendProperties
  <2>5. DOMAIN y.got = 1 .. Len(y.got)
    BY <1>3, SinkFacts
  <2> QED
    BY <1>3, <2>2, <2>3, <2>4, <2>5
<1>7. /\ Written(b).no = b.no /\ Written(b).track = b.track /\ Written(b).gen = b.gen
      /\ IsPicture(Written(b)) <=> IsPicture(b)
      /\ IsKeyframe(Written(b)) <=> IsKeyframe(b)
  BY DEF Written, IsPicture, IsKeyframe
<1>8. /\ ~ x.started => L = 0
      /\ \A j \in 1 .. L : IsKeyframe(x.got[j]) <=> IsKeyframe(y.got[j])
  BY <1>2, <1>6 DEF Opened
<1> HIDE DEF b, L, q
<1>9. Opened(y)
  <2>1. IsKeyframe(y.got[1])
    <3>1. CASE x.started
      <4>1. L # 0 /\ IsKeyframe(x.got[1])
        BY <1>2, <1>5, <3>1, EmptySeq DEF Opened, L
      <4> QED
        BY <1>5, <1>8, <4>1
    <3>2. CASE ~ x.started
      BY <1>3, <1>6, <1>7, <1>8, <3>2
    <3> QED
      BY <3>1, <3>2
  <2>2. y.got # <<>>
    BY <1>5, <1>6
  <2>3. ASSUME NEW j \in 1 .. L + 1, y.got[j].track = "raw"
        PROVE  y.rawDeclared
    <3>1. CASE j = L + 1
      BY <1>3, <1>6, <1>7, <2>3, <3>1
    <3>2. CASE j # L + 1
      <4>1. j \in 1 .. L
        BY <1>5, <3>2
      <4>2. x.got[j].track = "raw" /\ j \in DOMAIN x.got
        BY <1>5, <1>6, <2>3, <4>1
      <4>3. x.rawDeclared
        BY <1>2, <4>2 DEF Opened
      <4>4. x.started
        BY <1>5, <1>8, <4>1
      <4> QED
        BY <1>3, <4>3, <4>4
    <3> QED
      BY <3>1, <3>2
  <2> QED
    BY <1>3, <1>6, <2>1, <2>2, <2>3 DEF Opened
<1>10. \A k : k \in (i - 1) + 1 .. Len(q) <=> (k = i \/ k \in i + 1 .. Len(q))
  BY <1>4
<1>11. InRow(y, q, i, sn)
  <2> SUFFICES ASSUME NEW j \in 1 .. L + 1
               PROVE  /\ y.got[j].no <= sn[y.got[j].track].n
                      /\ \A k \in j + 1 .. L + 1 :
                           y.got[k].track = y.got[j].track => y.got[j].no < y.got[k].no
                      /\ \A k \in i + 1 .. Len(q) :
                           q[k].block.track = y.got[j].track => y.got[j].no < q[k].block.no
    BY <1>6 DEF InRow
  <2>1. CASE j = L + 1
    <3>1. y.got[j].no = b.no /\ y.got[j].track = b.track
      BY <1>6, <1>7, <2>1
    <3>2. b.no <= sn[b.track].n
      BY <1>1, <1>4 DEF Behind, b
    <3>3. \A k \in i + 1 .. Len(q) : q[k].block.track = b.track => b.no < q[k].block.no
      BY <1>1, <1>4 DEF InTurn, b
    <3>4. j + 1 .. L + 1 = {}
      BY <1>5, <2>1
    <3> QED
      BY <3>1, <3>2, <3>3, <3>4
  <2>2. CASE j # L + 1
    <3>1. j \in 1 .. L /\ y.got[j] = x.got[j]
      <4>1. j \in 1 .. L
        BY <1>5, <2>2
      <4> QED
        BY <1>6, <4>1
    <3>2. /\ x.got[j].no <= sn[x.got[j].track].n
          /\ \A k \in j + 1 .. L :
               x.got[k].track = x.got[j].track => x.got[j].no < x.got[k].no
          /\ \A k \in (i - 1) + 1 .. Len(q) :
               q[k].block.track = x.got[j].track => x.got[j].no < q[k].block.no
      BY <1>2, <1>5, <3>1 DEF InRow, L
    <3>3. ASSUME NEW k \in j + 1 .. L + 1, y.got[k].track = y.got[j].track
          PROVE  y.got[j].no < y.got[k].no
      <4>1. CASE k = L + 1
        <5>1. y.got[k].no = b.no /\ y.got[k].track = b.track
          BY <1>6, <1>7, <4>1
        <5> QED
          BY <1>10, <3>1, <3>2, <3>3, <5>1 DEF b
      <4>2. CASE k # L + 1
        <5>1. k \in j + 1 .. L /\ k \in 1 .. L
          BY <1>5, <4>2, <3>1
        <5> QED
          BY <1>6, <3>1, <3>2, <3>3, <5>1
      <4> QED
        BY <4>1, <4>2
    <3> QED
      BY <1>10, <3>1, <3>2, <3>3
  <2> QED
    BY <2>1, <2>2
<1>12. NoGap(y, q, i, sn)
  <2> SUFFICES ASSUME NEW j \in DOMAIN y.got, NEW n \in y.got[j].no + 1 .. sn[y.got[j].track].n
               PROVE  \/ \E k \in j + 1 .. Len(y.got) :
                           y.got[k].track = y.got[j].track /\ y.got[k].no = n
                      \/ \E k \in i + 1 .. Len(q) :
                           q[k].block.track = y.got[j].track /\ q[k].block.no = n
    BY DEF NoGap
  <2> SUFFICES \/ \E k \in j + 1 .. L + 1 :
                    y.got[k].track = y.got[j].track /\ y.got[k].no = n
               \/ \E k \in i + 1 .. Len(q) :
                    q[k].block.track = y.got[j].track /\ q[k].block.no = n
    BY <1>6
  <2> j \in 1 .. L + 1
    BY <1>6
  <2>1. CASE j = L + 1
    <3>1. y.got[j].no = b.no /\ y.got[j].track = b.track
      BY <1>6, <1>7, <2>1
    <3>2. \A l \in b.no + 1 .. sn[b.track].n :
            \E k \in i + 1 .. Len(q) : q[k].block.track = b.track /\ q[k].block.no = l
      BY <1>1, <1>4 DEF Whole, b
    <3> QED
      BY <3>1, <3>2
  <2>2. CASE j # L + 1
    <3>1. j \in 1 .. L /\ y.got[j] = x.got[j]
      <4>1. j \in 1 .. L
        BY <1>5, <2>2
      <4> QED
        BY <1>6, <4>1
    <3>2. \A l \in x.got[j].no + 1 .. sn[x.got[j].track].n :
            \/ \E k \in j + 1 .. L : x.got[k].track = x.got[j].track /\ x.got[k].no = l
            \/ \E k \in (i - 1) + 1 .. Len(q) :
                 q[k].block.track = x.got[j].track /\ q[k].block.no = l
      BY <1>2, <1>5, <3>1 DEF NoGap, L
    <3>3. CASE \E k \in j + 1 .. L : x.got[k].track = x.got[j].track /\ x.got[k].no = n
      <4>1. PICK k \in j + 1 .. L : x.got[k].track = x.got[j].track /\ x.got[k].no = n
        BY <3>3
      <4>2. k \in j + 1 .. L + 1 /\ y.got[k] = x.got[k]
        BY <1>5, <1>6, <3>1
      <4> QED
        BY <3>1, <4>1, <4>2
    <3>4. CASE q[i].block.track = x.got[j].track /\ q[i].block.no = n
      <4>1. L + 1 \in j + 1 .. L + 1
        BY <1>5, <3>1
      <4> QED
        BY <1>6, <1>7, <3>1, <3>4, <4>1 DEF b
    <3> QED
      BY <1>10, <3>1, <3>2, <3>3, <3>4
  <2> QED
    BY <2>1, <2>2
<1>13. Keyed(y, sn)
  <2> SUFFICES ASSUME NEW j \in 1 .. L + 1, IsPicture(y.got[j])
               PROVE  /\ \E k \in 1 .. j : IsKeyframe(y.got[k]) /\ y.got[k].gen = y.got[j].gen
                      /\ y.got[j].no = sn["video"].n => y.got[j].gen = sn["video"].gen
    BY <1>6 DEF Keyed
  <2>1. CASE j = L + 1
    <3>1. y.got[j].no = b.no /\ y.got[j].gen = b.gen /\ IsPicture(b)
      BY <1>6, <1>7, <2>1
    <3>2. b.no = sn["video"].n => b.gen = sn["video"].gen
      BY <1>1, <1>4, <3>1 DEF LastPicture, b
    <3>3. CASE IsKeyframe(b)
      BY <1>5, <1>6, <1>7, <2>1, <3>1, <3>2, <3>3
    <3>4. CASE ~ IsKeyframe(b)
      <4>1. \/ \E k \in 1 .. L : IsKeyframe(x.got[k]) /\ x.got[k].gen = b.gen
            \/ \E k \in (i - 1) + 1 .. i : IsKeyframe(q[k].block) /\ q[k].block.gen = b.gen
        <5>1. x.started /\ i \in (i - 1) + 1 .. Len(q)
          BY <1>3, <1>10, <3>4
        <5> QED
          BY <1>2, <1>5, <3>1, <5>1 DEF KeyedNext, b
      <4>2. PICK k \in 1 .. L : IsKeyframe(x.got[k]) /\ x.got[k].gen = b.gen
        <5>1. \A k \in (i - 1) + 1 .. i : k = i
          BY <1>4
        <5> QED
          BY <3>4, <4>1, <5>1 DEF b
      <4>3. k \in 1 .. j /\ IsKeyframe(y.got[k]) /\ y.got[k].gen = b.gen
        BY <1>5, <1>6, <1>8, <2>1, <4>2
      <4> QED
        BY <3>1, <3>2, <4>3
    <3> QED
      BY <3>3, <3>4
  <2>2. CASE j # L + 1
    <3>1. j \in 1 .. L /\ y.got[j] = x.got[j]
      <4>1. j \in 1 .. L
        BY <1>5, <2>2
      <4> QED
        BY <1>6, <4>1
    <3>2. /\ \E k \in 1 .. j : IsKeyframe(x.got[k]) /\ x.got[k].gen = x.got[j].gen
          /\ x.got[j].no = sn["video"].n => x.got[j].gen = sn["video"].gen
      BY <1>2, <1>5, <3>1 DEF Keyed
    <3>3. \A k \in 1 .. j : k \in 1 .. L
      BY <1>5, <3>1
    <3> QED
      BY <1>6, <3>1, <3>2, <3>3
  <2> QED
    BY <2>1, <2>2
<1>14. KeyedNext(y, q, i)
  <2> SUFFICES ASSUME NEW j \in i + 1 .. Len(q), IsPicture(q[j].block)
               PROVE  \/ \E k \in 1 .. L + 1 :
                           IsKeyframe(y.got[k]) /\ y.got[k].gen = q[j].block.gen
                      \/ \E k \in i + 1 .. j :
                           IsKeyframe(q[k].block) /\ q[k].block.gen = q[j].block.gen
    BY <1>6 DEF KeyedNext
  <2>1. CASE IsKeyframe(b) /\ b.gen = q[j].block.gen
    BY <1>5, <1>6, <1>7, <2>1
  <2>2. CASE ~ (IsKeyframe(b) /\ b.gen = q[j].block.gen)
    <3>1. CASE x.started
      <4>1. \/ \E k \in 1 .. L : IsKeyframe(x.got[k]) /\ x.got[k].gen = q[j].block.gen
            \/ \E k \in (i - 1) + 1 .. j :
                 IsKeyframe(q[k].block) /\ q[k].block.gen = q[j].block.gen
        BY <1>2, <1>5, <1>10, <3>1 DEF KeyedNext
      <4>2. \A k \in (i - 1) + 1 .. j : k = i \/ k \in i + 1 .. j
        BY <1>4
      <4>3. \A k \in 1 .. L : k \in 1 .. L + 1
        BY <1>5
      <4> QED
        BY <1>6, <1>8, <2>2, <4>1, <4>2, <4>3 DEF b
    <3>2. CASE ~ x.started
      <4>1. IsKeyframe(b) /\ b.gen # q[j].block.gen
        BY <1>3, <2>2, <3>2
      <4>2. j \in DOMAIN q /\ i < j
        BY <1>4
      <4>3. \E k \in i + 1 .. j : IsKeyframe(q[k].block) /\ q[k].block.gen = q[j].block.gen
        BY <1>1, <1>4, <4>1, <4>2 DEF KeyBetween, IsKeyframe, b
      <4> QED
        BY <4>3
    <3> QED
      BY <3>1, <3>2
  <2> QED
    BY <2>1, <2>2
<1> QED
  BY <1>9, <1>11, <1>12, <1>13, <1>14 DEF XInv, q

LEMMA DeliverKeeps ==
  ASSUME NEW x, NEW m, NEW sn, NEW t, QInv(m, sn, t), NEW i \in 1 .. Len(m.queue),
         XInv(x, m.queue, i - 1, sn), NEW takes \in BOOLEAN, NEW head \in HeadState
  PROVE  XInv(Deliver(x, m.queue[i].block, takes, head), m.queue, i, sn)
<1> DEFINE q == m.queue
           b == q[i].block
           y == Deliver(x, b, takes, head)
<1>1. q \in Seq(Entry) /\ b \in Block /\ Opened(x)
  BY EntryFacts DEF QInv, MergerState, XInv
<1>2. \/ y = x /\ ~ x.started
      \/ y = x /\ x.started /\ b.track = "raw" /\ ~ x.rawDeclared
      \/ y = Ended(x)
      \/ Took(y, x, b)
  BY <1>1, DeliverCases
<1> SUFFICES XInv(y, q, i, sn)
  OBVIOUS
<1> HIDE DEF y
<1>3. CASE y = x /\ ~ x.started
  BY <1>1, <1>3, ClosedKeeps DEF Opened
<1>4. CASE y = x /\ x.started /\ b.track = "raw" /\ ~ x.rawDeclared
  BY <1>1, <1>4, SkipKeeps
<1>5. CASE y = Ended(x)
  BY <1>1, <1>5, EndedIsClosed, ClosedKeeps DEF Opened
<1>6. CASE Took(y, x, b)
  BY <1>6, TakeKeeps
<1> QED
  BY <1>2, <1>3, <1>4, <1>5, <1>6
-----------------------------------------------------------------------------
(* What was given leaves the merger.                                       *)

\* r is q without its first n entries.
Rest(r, q, n) ==
  /\ r \in Seq(Entry) /\ DOMAIN r = 1 .. Len(r) /\ DOMAIN q = 1 .. Len(q)
  /\ Len(q) \in Nat /\ Len(r) \in Nat /\ n \in Nat /\ Len(q) = n + Len(r)
  /\ \A i \in 1 .. Len(r) : i + n \in 1 .. Len(q) /\ r[i] = q[i + n]

LEMMA RestFacts ==
  ASSUME NEW q \in Seq(Entry), NEW n \in 0 .. Len(q)
  PROVE  Rest(SubSeq(q, n + 1, Len(q)), q, n)
<1> DEFINE r == SubSeq(q, n + 1, Len(q))
<1>1. Len(q) \in Nat /\ \A i \in 1 .. Len(q) : q[i] \in Entry
  BY EntryFacts
<1>2. /\ r \in Seq(Entry) /\ Len(r) = Len(q) - n
      /\ \A i \in 1 .. Len(q) - n : r[i] = q[(n + 1) + i - 1]
  BY <1>1, SubSeqProperties
<1>3. DOMAIN r = 1 .. Len(r) /\ DOMAIN q = 1 .. Len(q)
  BY <1>2, EntryFacts
<1> HIDE DEF r
<1>4. \A i \in 1 .. Len(r) : i + n \in 1 .. Len(q) /\ (n + 1) + i - 1 = i + n
  BY <1>1, <1>2
<1>5. \A i \in 1 .. Len(r) : i + n \in 1 .. Len(q) /\ r[i] = q[i + n]
  BY <1>1, <1>2, <1>4
<1>6. Len(r) \in Nat /\ Len(q) = n + Len(r) /\ n \in Nat
  BY <1>1, <1>2
<1>7. Rest(r, q, n)
  BY <1>1, <1>2, <1>3, <1>5, <1>6 DEF Rest
<1> QED
  BY <1>7 DEF r

LEMMA RestKeepsQueue ==
  ASSUME NEW m, NEW sn, NEW t, QInv(m, sn, t), NEW r, NEW n, Rest(r, m.queue, n)
  PROVE  QInv([m EXCEPT !.queue = r], sn, t)
<1> DEFINE q == m.queue
           mm == [m EXCEPT !.queue = r]
<1>1. /\ m \in MergerState /\ sn \in SentState
      /\ Sorted(q) /\ InTurn(q) /\ Behind(q, sn, t) /\ Marked(m)
      /\ Whole(q, sn) /\ KeyBetween(q) /\ LastPicture(q, sn)
  BY DEF QInv
<1>2. /\ r \in Seq(Entry) /\ DOMAIN r = 1 .. Len(r) /\ DOMAIN q = 1 .. Len(q)
      /\ Len(q) \in Nat /\ Len(r) \in Nat /\ n \in Nat /\ Len(q) = n + Len(r)
      /\ \A i \in 1 .. Len(r) : i + n \in 1 .. Len(q) /\ r[i] = q[i + n]
  BY DEF Rest
<1>3. mm \in MergerState /\ mm.queue = r /\ mm.mark = m.mark
  BY <1>1, <1>2 DEF MergerState
<1> HIDE DEF q, mm
<1>4. Sorted(r)
  <2> SUFFICES ASSUME NEW i \in DOMAIN r, NEW j \in DOMAIN r, i < j
               PROVE  r[i].block.ts <= r[j].block.ts
    BY DEF Sorted
  <2>1. i + n \in DOMAIN q /\ j + n \in DOMAIN q /\ i + n < j + n
        /\ r[i] = q[i + n] /\ r[j] = q[j + n]
    BY <1>2
  <2> QED
    BY <1>1, <2>1 DEF Sorted
<1>5. InTurn(r)
  <2> SUFFICES ASSUME NEW i \in 1 .. Len(r), NEW j \in 1 .. Len(r), i < j,
                      r[i].block.track = r[j].block.track
               PROVE  r[i].block.no < r[j].block.no /\ r[i].at <= r[j].at
    BY <1>2 DEF InTurn
  <2>1. i + n \in DOMAIN q /\ j + n \in DOMAIN q /\ i + n < j + n
        /\ r[i] = q[i + n] /\ r[j] = q[j + n]
    BY <1>2
  <2> QED
    BY <1>1, <2>1 DEF InTurn
<1>6. Behind(r, sn, t)
  BY <1>1, <1>2 DEF Behind
<1>7. Marked(mm)
  <2> SUFFICES ASSUME NEW i \in 1 .. Len(r), r[i].block.track \in Live
               PROVE  r[i].block.ts <= m.mark[r[i].block.track]
    BY <1>2, <1>3 DEF Marked
  <2> QED
    BY <1>1, <1>2 DEF Marked, q
<1>8. Whole(r, sn)
  <2> SUFFICES ASSUME NEW i \in 1 .. Len(r),
                      NEW no \in r[i].block.no + 1 .. sn[r[i].block.track].n
               PROVE  \E j \in i + 1 .. Len(r) :
                        r[j].block.track = r[i].block.track /\ r[j].block.no = no
    BY <1>2 DEF Whole
  <2>1. i + n \in 1 .. Len(q) /\ r[i] = q[i + n]
    BY <1>2
  <2>2. PICK k \in (i + n) + 1 .. Len(q) :
          q[k].block.track = r[i].block.track /\ q[k].block.no = no
    <3>1. i + n \in DOMAIN q /\ no \in q[i + n].block.no + 1 .. sn[q[i + n].block.track].n
      BY <1>2, <2>1
    <3> QED
      BY <1>1, <2>1, <3>1 DEF Whole
  <2>3. k - n \in i + 1 .. Len(r) /\ k - n \in 1 .. Len(r) /\ (k - n) + n = k
    BY <1>2
  <2> QED
    BY <1>2, <2>2, <2>3
<1>9. KeyBetween(r)
  <2> SUFFICES ASSUME NEW i \in 1 .. Len(r), NEW j \in 1 .. Len(r), i < j,
                      IsPicture(r[i].block), IsPicture(r[j].block),
                      r[i].block.gen # r[j].block.gen
               PROVE  \E k \in i + 1 .. j :
                        IsKeyframe(r[k].block) /\ r[k].block.gen = r[j].block.gen
    BY <1>2 DEF KeyBetween
  <2>1. i + n \in DOMAIN q /\ j + n \in DOMAIN q /\ i + n < j + n
        /\ r[i] = q[i + n] /\ r[j] = q[j + n]
    BY <1>2
  <2>2. PICK k \in (i + n) + 1 .. j + n :
          IsKeyframe(q[k].block) /\ q[k].block.gen = q[j + n].block.gen
    BY <1>1, <2>1 DEF KeyBetween
  <2>3. k - n \in i + 1 .. j /\ k - n \in 1 .. Len(r) /\ (k - n) + n = k
    BY <1>2
  <2>4. r[k - n] = q[k]
    BY <1>2, <2>3
  <2> QED
    BY <2>1, <2>2, <2>3, <2>4
<1>10. LastPicture(r, sn)
  <2> SUFFICES ASSUME NEW i \in DOMAIN r, IsPicture(r[i].block), r[i].block.no = sn["video"].n
               PROVE  r[i].block.gen = sn["video"].gen
    BY DEF LastPicture
  <2>1. i + n \in DOMAIN q /\ r[i] = q[i + n]
    BY <1>2
  <2> QED
    BY <1>1, <2>1 DEF LastPicture
<1> QED
  BY <1>1, <1>3, <1>4, <1>5, <1>6, <1>7, <1>8, <1>9, <1>10 DEF QInv, mm

LEMMA RestKeepsSink ==
  ASSUME NEW x, NEW q, NEW sn, NEW r, NEW n, Rest(r, q, n), XInv(x, q, n, sn)
  PROVE  XInv(x, r, 0, sn)
<1>1. /\ Opened(x) /\ InRow(x, q, n, sn) /\ NoGap(x, q, n, sn) /\ Keyed(x, sn)
      /\ KeyedNext(x, q, n)
  BY DEF XInv
<1>2. /\ Len(q) \in Nat /\ Len(r) \in Nat /\ n \in Nat /\ Len(q) = n + Len(r)
      /\ \A i \in 1 .. Len(r) : i + n \in 1 .. Len(q) /\ r[i] = q[i + n]
  BY DEF Rest
<1>3. \A i \in 1 .. Len(r) : i + n \in n + 1 .. Len(q)
  BY <1>2
<1>4. \A k \in n + 1 .. Len(q) : k - n \in 1 .. Len(r) /\ r[k - n] = q[k]
  <2> SUFFICES ASSUME NEW k \in n + 1 .. Len(q)
               PROVE  k - n \in 1 .. Len(r) /\ r[k - n] = q[k]
    OBVIOUS
  <2>1. k - n \in 1 .. Len(r) /\ (k - n) + n = k
    BY <1>2
  <2> QED
    BY <1>2, <2>1
<1>5. InRow(x, r, 0, sn)
  <2> SUFFICES ASSUME NEW j \in DOMAIN x.got, NEW k \in 1 .. Len(r),
                      r[k].block.track = x.got[j].track
               PROVE  x.got[j].no < r[k].block.no
    BY <1>1 DEF InRow
  <2> QED
    BY <1>1, <1>2, <1>3 DEF InRow
<1>6. NoGap(x, r, 0, sn)
  <2> SUFFICES ASSUME NEW j \in DOMAIN x.got,
                      NEW no \in x.got[j].no + 1 .. sn[x.got[j].track].n
               PROVE  \/ \E k \in j + 1 .. Len(x.got) :
                           x.got[k].track = x.got[j].track /\ x.got[k].no = no
                      \/ \E k \in 1 .. Len(r) :
                           r[k].block.track = x.got[j].track /\ r[k].block.no = no
    BY DEF NoGap
  <2>1. \/ \E k \in j + 1 .. Len(x.got) :
             x.got[k].track = x.got[j].track /\ x.got[k].no = no
        \/ \E k \in n + 1 .. Len(q) :
             q[k].block.track = x.got[j].track /\ q[k].block.no = no
    BY <1>1 DEF NoGap
  <2> QED
    BY <1>4, <2>1
<1>7. KeyedNext(x, r, 0)
  <2> SUFFICES ASSUME x.started, NEW j \in 1 .. Len(r), IsPicture(r[j].block)
               PROVE  \/ \E k \in DOMAIN x.got :
                           IsKeyframe(x.got[k]) /\ x.got[k].gen = r[j].block.gen
                      \/ \E k \in 1 .. j :
                           IsKeyframe(r[k].block) /\ r[k].block.gen = r[j].block.gen
    BY DEF KeyedNext
  <2>1. j + n \in n + 1 .. Len(q) /\ r[j] = q[j + n]
    BY <1>2, <1>3
  <2>2. \/ \E k \in DOMAIN x.got : IsKeyframe(x.got[k]) /\ x.got[k].gen = r[j].block.gen
        \/ \E k \in n + 1 .. j + n :
             IsKeyframe(q[k].block) /\ q[k].block.gen = r[j].block.gen
    BY <1>1, <2>1 DEF KeyedNext
  <2>3. \A k \in n + 1 .. j + n : k \in n + 1 .. Len(q) /\ k - n \in 1 .. j
    BY <1>2, <2>1
  <2>4. \A k \in n + 1 .. j + n : k - n \in 1 .. j /\ r[k - n] = q[k]
    BY <1>4, <2>3
  <2> QED
    BY <2>2, <2>4
<1> QED
  BY <1>1, <1>5, <1>6, <1>7 DEF XInv
-----------------------------------------------------------------------------
(* A poll, and the blocks of one call.                                     *)

LEMMA DeliverType ==
  ASSUME NEW x \in SinkState, NEW b \in Block, NEW takes \in BOOLEAN,
         NEW head \in HeadState
  PROVE  Deliver(x, b, takes, head) \in SinkState
<1> DEFINE opens == ~ x.started /\ Starts(b)
           open  == IF opens
                    THEN [x EXCEPT !.started = TRUE, !.told = head.video,
                                   !.rawDeclared = WantsRaw(x) /\ head.raw]
                    ELSE x
           given == x.kind # "none" /\ open.started /\ (b.track = "raw" => open.rawDeclared)
           took  == [open EXCEPT !.got = Append(@, Written(b))]
<1>1. open \in SinkState /\ open.got \in Seq(WrittenBlock)
  BY DEF SinkState, WantsRaw, WrittenBlock, HeadState
<1>2. Written(b) \in WrittenBlock
  BY DEF Written, WrittenBlock, Block
<1> HIDE DEF open
<1>3. Append(open.got, Written(b)) \in Seq(WrittenBlock)
  BY <1>1, <1>2, AppendProperties
<1>4. took \in SinkState
  BY <1>1, <1>3 DEF SinkState, WrittenBlock
<1>5. Ended(x) \in SinkState
  BY EndedIsClosed
<1>6. Deliver(x, b, takes, head) = CASE given /\ takes -> took
                                    [] given /\ ~ takes /\ x.started -> Ended(x)
                                    [] OTHER -> x
  BY DEF Deliver, Refused, open
<1> HIDE DEF took
<1>7. CASE given /\ takes
  BY <1>4, <1>6, <1>7
<1>8. CASE given /\ ~ takes /\ x.started
  BY <1>5, <1>6, <1>8
<1>9. CASE ~ (given /\ takes) /\ ~ (given /\ ~ takes /\ x.started)
  BY <1>6, <1>9
<1> QED
  BY <1>7, <1>8, <1>9

\* A polled batch, block by block.
Deliveries(q, n, head, sk, takes) ==
  {h \in [0 .. n -> [Sink -> SinkState]] :
     /\ h[0] = sk
     /\ \A i \in 1 .. n, s \in Sink :
          h[i][s] = Deliver(h[i - 1][s], q[i].block, takes[s][i], head)
     /\ AfterPump(q, n, head, sk, takes) = h[n]}

LEMMA AfterPumpSteps ==
  ASSUME NEW q \in Seq(Entry), NEW n \in 0 .. Len(q), NEW head \in HeadState,
         NEW sk \in [Sink -> SinkState], NEW takes \in [Sink -> [1 .. n -> BOOLEAN]]
  PROVE  Deliveries(q, n, head, sk, takes) # {}
<1> DEFINE S == [Sink -> SinkState]
           Step(a, i) == [s \in Sink |-> Deliver(a[s], q[i].block, takes[s][i], head)]
           F == [c \in S \X (1 .. n) |-> Step(c[1], c[2])]
           Is(g) == g = [i \in 0 .. n |-> IF i = 0 THEN sk ELSE Step(g[i - 1], i)]
           after == CHOOSE g : Is(g)
<1>1. n \in Nat /\ \A i \in 1 .. n : q[i].block \in Block
  BY EntryFacts
<1>2. \A a \in S, i \in 1 .. n : Step(a, i) \in S
  <2> SUFFICES ASSUME NEW a \in S, NEW i \in 1 .. n, NEW s \in Sink
               PROVE  Deliver(a[s], q[i].block, takes[s][i], head) \in SinkState
    OBVIOUS
  <2>1. a[s] \in SinkState /\ q[i].block \in Block /\ takes[s][i] \in BOOLEAN
    BY <1>1
  <2> QED
    BY <2>1, DeliverType, Zenon
<1> HIDE DEF Step
<1>3. F \in [S \X (1 .. n) -> S]
  BY <1>2
<1>4. PICK h \in [0 .. n -> S] : h[0] = sk /\ \A i \in 1 .. n : h[i] = F[<<h[i - 1], i>>]
  <2>1. sk \in S
    OBVIOUS
  <2> HIDE DEF F, S
  <2>2. Runs(n, S, sk, F) # {}
    BY <1>1, <1>3, <2>1, StepByStep
  <2> QED
    BY <2>2 DEF Runs
<1>5. Is(h)
  <2>1. \A i \in 1 .. n : h[i - 1] \in S /\ F[<<h[i - 1], i>>] = Step(h[i - 1], i)
    <3> SUFFICES ASSUME NEW i \in 1 .. n
                 PROVE  h[i - 1] \in S /\ F[<<h[i - 1], i>>] = Step(h[i - 1], i)
      OBVIOUS
    <3>1. i - 1 \in 0 .. n
      BY <1>1
    <3>2. <<h[i - 1], i>> \in S \X (1 .. n)
      BY <1>4, <3>1
    <3> QED
      BY <3>2
  <2>2. \A i \in 1 .. n : h[i] = Step(h[i - 1], i)
    BY <1>4, <2>1
  <2> HIDE DEF F
  <2>3. \A i \in 0 .. n : h[i] = IF i = 0 THEN sk ELSE Step(h[i - 1], i)
    BY <1>1, <1>4, <2>2
  <2> QED
    BY <1>4, <2>3
<1>6. Is(after)
  <2> HIDE DEF Is
  <2> QED
    BY <1>5
<1>7. AfterPump(q, n, head, sk, takes) = after[n]
  BY DEF AfterPump, Step
<1> HIDE DEF after
<1>8. after[0] = sk /\ \A i \in 1 .. n : after[i] = Step(after[i - 1], i)
  BY <1>1, <1>6
<1>9. \A i \in 0 .. n : after[i] \in S
  <2> DEFINE T == {i \in 0 .. n : after[i] \in S}
  <2>1. 0 \in T
    BY <1>1, <1>8
  <2>2. ASSUME NEW i \in 1 .. n, i - 1 \in T
        PROVE  i \in T
    <3>1. after[i - 1] \in S /\ after[i] = Step(after[i - 1], i)
      BY <1>8, <2>2
    <3>2. Step(after[i - 1], i) \in S
      BY <1>2, <3>1
    <3> QED
      BY <1>1, <3>1, <3>2
  <2>3. 0 .. n \subseteq T
    <3> HIDE DEF T
    <3> QED
      BY <1>1, <2>1, <2>2, UpTo
  <2> QED
    BY <2>3
<1>10. after \in [0 .. n -> S]
  <2>1. after = [i \in 0 .. n |-> IF i = 0 THEN sk ELSE Step(after[i - 1], i)]
    BY <1>6
  <2> QED
    BY <1>9, <2>1
<1>11. \A i \in 1 .. n, s \in Sink :
         after[i][s] = Deliver(after[i - 1][s], q[i].block, takes[s][i], head)
  BY <1>8 DEF Step
<1> QED
  BY <1>7, <1>8, <1>10, <1>11 DEF Deliveries

LEMMA PumpKeeps ==
  ASSUME NEW m, NEW sn, NEW t, QInv(m, sn, t), NEW n \in 0 .. Len(m.queue),
         NEW head \in HeadState, NEW sk \in [Sink -> SinkState],
         \A s \in Sink : XInv(sk[s], m.queue, 0, sn), NEW takes \in [Sink -> [1 .. n -> BOOLEAN]]
  PROVE  /\ AfterPump(m.queue, n, head, sk, takes) \in [Sink -> SinkState]
         /\ \A s \in Sink : XInv(AfterPump(m.queue, n, head, sk, takes)[s], m.queue, n, sn)
<1> DEFINE q == m.queue
<1>1. q \in Seq(Entry) /\ n \in Nat /\ Len(q) \in Nat
  BY EntryFacts DEF QInv, MergerState
<1>2. PICK h \in Deliveries(q, n, head, sk, takes) : TRUE
  <2>1. Deliveries(q, n, head, sk, takes) # {}
    BY <1>1, AfterPumpSteps
  <2> QED
    BY <2>1
<1>3. /\ h \in [0 .. n -> [Sink -> SinkState]] /\ h[0] = sk
      /\ \A i \in 1 .. n, s \in Sink :
           h[i][s] = Deliver(h[i - 1][s], q[i].block, takes[s][i], head)
      /\ AfterPump(q, n, head, sk, takes) = h[n]
  BY <1>2 DEF Deliveries
<1> DEFINE T == {i \in 0 .. n : \A s \in Sink : XInv(h[i][s], q, i, sn)}
<1>4. 0 \in T
  BY <1>1, <1>3
<1>5. ASSUME NEW i \in 1 .. n, i - 1 \in T
      PROVE  i \in T
  <2> SUFFICES ASSUME NEW s \in Sink PROVE XInv(h[i][s], q, i, sn)
    OBVIOUS
  <2>1. XInv(h[i - 1][s], q, i - 1, sn) /\ i \in 1 .. Len(q)
    BY <1>1, <1>5
  <2>2. h[i][s] = Deliver(h[i - 1][s], q[i].block, takes[s][i], head)
    BY <1>3
  <2>3. takes[s][i] \in BOOLEAN
    OBVIOUS
  <2>4. XInv(Deliver(h[i - 1][s], q[i].block, takes[s][i], head), q, i, sn)
    BY <2>1, <2>3, DeliverKeeps, Zenon
  <2> QED
    BY <2>2, <2>4, Zenon
<1>6. n \in T
  <2> HIDE DEF T
  <2>1. 0 .. n \subseteq T
    BY <1>1, <1>4, <1>5, UpTo
  <2> QED
    BY <1>1, <2>1
<1>7. h[n] \in [Sink -> SinkState]
  BY <1>1, <1>3
<1> QED
  BY <1>3, <1>6, <1>7

LEMMA PushKeeps ==
  ASSUME NEW m, NEW sk, NEW sn, NEW b, NEW t \in Nat, Streams(m, sk, sn, t),
         Follows(b, sn), b.ts <= t
  PROVE  Streams(Push(m, b, t), sk, After(sn, b), t)
<1>1. QInv(m, sn, t) /\ \A s \in Sink : XInv(sk[s], m.queue, 0, sn)
  BY DEF Streams
<1>2. QInv(Push(m, b, t), After(sn, b), t)
  BY <1>1, PushKeepsQueue
<1>3. \A s \in Sink : XInv(sk[s], Push(m, b, t).queue, 0, After(sn, b))
  BY <1>1, PushKeepsSink
<1> QED
  BY <1>2, <1>3 DEF Streams

\* What is counted after the first i of blocks bs, which follow what came before.
Upto(sn, bs, i) == IF i = 0 THEN sn ELSE After(sn, bs[i])

Run(bs, sn, t) ==
  /\ bs \in Seq(Block)
  /\ \A i \in 1 .. Len(bs) :
       IsPicture(bs[i]) /\ bs[i].ts <= t /\ Follows(bs[i], Upto(sn, bs, i - 1))

Tidy == {m \in MergerState : Sorted(m.queue)}

Pushes(m, bs, t) ==
  {h \in [0 .. Len(bs) -> Tidy] :
     /\ h[0] = m
     /\ \A i \in 1 .. Len(bs) : h[i] = Push(h[i - 1], bs[i], t)
     /\ PushAll(m, bs, t) = h[Len(bs)]}

LEMMA PushAllSteps ==
  ASSUME NEW m \in Tidy, NEW bs \in Seq(Block), NEW t \in Nat
  PROVE  Pushes(m, bs, t) # {}
<1> DEFINE n == Len(bs)
           Step(a, i) == Push(a, bs[i], t)
           F == [c \in Tidy \X (1 .. n) |-> Step(c[1], c[2])]
           Is(g) == g = [i \in 0 .. n |-> IF i = 0 THEN m ELSE Step(g[i - 1], i)]
           pushed == CHOOSE g : Is(g)
<1>1. n \in Nat /\ \A i \in 1 .. n : bs[i] \in Block
  BY LenProperties, ElementOfSeq
<1>2. \A a \in Tidy, i \in 1 .. n : Step(a, i) \in Tidy
  <2> SUFFICES ASSUME NEW a \in Tidy, NEW i \in 1 .. n
               PROVE  Push(a, bs[i], t) \in Tidy
    OBVIOUS
  <2>1. a \in MergerState /\ Sorted(a.queue) /\ bs[i] \in Block
    BY <1>1 DEF Tidy
  <2> QED
    BY <2>1, PushInserts DEF Tidy
<1> HIDE DEF Step
<1>3. F \in [Tidy \X (1 .. n) -> Tidy]
  BY <1>2
<1>4. PICK h \in [0 .. n -> Tidy] : h[0] = m /\ \A i \in 1 .. n : h[i] = F[<<h[i - 1], i>>]
  <2> HIDE DEF F, n
  <2>1. Runs(n, Tidy, m, F) # {}
    BY <1>1, <1>3, StepByStep
  <2> QED
    BY <2>1 DEF Runs
<1>5. Is(h)
  <2>1. ASSUME NEW i \in 1 .. n
        PROVE  h[i] = Step(h[i - 1], i)
    <3>1. i - 1 \in 0 .. n
      BY <1>1
    <3>2. <<h[i - 1], i>> \in Tidy \X (1 .. n)
      BY <1>4, <3>1
    <3> QED
      BY <1>4, <3>2
  <2> HIDE DEF F
  <2>2. \A i \in 0 .. n : h[i] = IF i = 0 THEN m ELSE Step(h[i - 1], i)
    BY <1>1, <1>4, <2>1
  <2> QED
    BY <1>4, <2>2
<1>6. Is(pushed)
  <2> HIDE DEF Is
  <2> QED
    BY <1>5
<1>7. PushAll(m, bs, t) = pushed[n]
  BY DEF PushAll, Step
<1> HIDE DEF pushed
<1>8. pushed[0] = m /\ \A i \in 1 .. n : pushed[i] = Step(pushed[i - 1], i)
  BY <1>1, <1>6
<1>9. \A i \in 0 .. n : pushed[i] \in Tidy
  <2> DEFINE T == {i \in 0 .. n : pushed[i] \in Tidy}
  <2>1. 0 \in T
    BY <1>1, <1>8
  <2>2. ASSUME NEW i \in 1 .. n, i - 1 \in T
        PROVE  i \in T
    <3>1. pushed[i - 1] \in Tidy /\ pushed[i] = Step(pushed[i - 1], i)
      BY <1>8, <2>2
    <3>2. Step(pushed[i - 1], i) \in Tidy
      BY <1>2, <3>1
    <3> QED
      BY <1>1, <3>1, <3>2
  <2>3. 0 .. n \subseteq T
    <3> HIDE DEF T, n
    <3> QED
      BY <1>1, <2>1, <2>2, UpTo
  <2> QED
    BY <2>3
<1>10. pushed \in [0 .. n -> Tidy]
  <2>1. pushed = [i \in 0 .. n |-> IF i = 0 THEN m ELSE Step(pushed[i - 1], i)]
    BY <1>6
  <2> QED
    BY <1>9, <2>1
<1> QED
  BY <1>7, <1>8, <1>10 DEF Pushes, Step

LEMMA PushAllKeeps ==
  ASSUME NEW m, NEW sk, NEW sn, NEW bs, NEW t \in Nat, Streams(m, sk, sn, t), Run(bs, sn, t)
  PROVE  Streams(PushAll(m, bs, t), sk, Upto(sn, bs, Len(bs)), t)
<1> DEFINE n == Len(bs)
<1>1. /\ bs \in Seq(Block) /\ n \in Nat /\ m \in Tidy /\ sn \in SentState
      /\ \A i \in 1 .. n : /\ bs[i] \in Block /\ bs[i].track = "video" /\ bs[i].ts <= t
                           /\ Follows(bs[i], Upto(sn, bs, i - 1))
  BY LenProperties, ElementOfSeq DEF Run, Streams, QInv, Tidy, IsPicture
<1>2. PICK h \in Pushes(m, bs, t) : TRUE
  BY <1>1, PushAllSteps
<1>3. /\ h \in [0 .. n -> Tidy] /\ h[0] = m
      /\ \A i \in 1 .. n : h[i] = Push(h[i - 1], bs[i], t)
      /\ PushAll(m, bs, t) = h[n]
  BY <1>2 DEF Pushes
<1> DEFINE T == {i \in 0 .. n : Streams(h[i], sk, Upto(sn, bs, i), t)}
<1>4. 0 \in T
  BY <1>1, <1>3 DEF Upto
<1>5. ASSUME NEW i \in 1 .. n, i - 1 \in T
      PROVE  i \in T
  <2>1. Streams(h[i - 1], sk, Upto(sn, bs, i - 1), t)
    BY <1>5
  <2>2. Streams(Push(h[i - 1], bs[i], t), sk, After(Upto(sn, bs, i - 1), bs[i]), t)
    BY <1>1, <2>1, PushKeeps
  <2>3. After(Upto(sn, bs, i - 1), bs[i]) = After(sn, bs[i])
    <3>1. CASE i = 1
      BY <3>1 DEF Upto
    <3>2. CASE i # 1
      <4>1. i - 1 \in 1 .. n /\ i - 1 # 0
        BY <1>1, <3>2
      <4>2. Upto(sn, bs, i - 1) = After(sn, bs[i - 1])
        BY <4>1 DEF Upto
      <4>3. bs[i].track = "video" /\ bs[i - 1].track = "video"
        BY <1>1, <4>1
      <4> QED
        BY <4>2, <4>3 DEF After
    <3> QED
      BY <3>1, <3>2
  <2>4. Upto(sn, bs, i) = After(sn, bs[i])
    BY <1>1 DEF Upto
  <2> QED
    BY <1>1, <1>3, <2>2, <2>3, <2>4
<1>6. n \in T
  <2> HIDE DEF T, n
  <2>1. 0 .. n \subseteq T
    BY <1>1, <1>4, <1>5, UpTo
  <2> QED
    BY <1>1, <2>1
<1> QED
  BY <1>3, <1>6

\* One poll: what is due leaves the merger for the sinks.
LEMMA PumpStreams ==
  ASSUME NEW m, NEW vid \in Gen \cup {NoGen}, NEW sk \in [Sink -> SinkState], NEW sn,
         ChainAssumption, now \in Nat, Streams(m, sk, sn, now),
         vid = NoGen => \A s \in Sink : ~ sk[s].started,
         Pump(m, vid, sk)
  PROVE  /\ sinks' \in [Sink -> SinkState] /\ video' = vid
         /\ Streams(merger', sinks', sn, now)
         /\ vid = NoGen => \A s \in Sink : ~ sinks'[s].started
<1> DEFINE q == m.queue
           n == Ready(m)
           r == SubSeq(q, n + 1, Len(q))
           head == HeadFor(vid)
<1>1. QInv(m, sn, now) /\ \A s \in Sink : XInv(sk[s], q, 0, sn)
  BY DEF Streams
<1>2. m \in MergerState /\ q \in Seq(Entry)
  BY <1>1 DEF QInv, MergerState
<1>3. n \in 0 .. Len(q)
  BY <1>2, ReadyFacts
<1>4. head \in HeadState
  BY DEF HeadFor, HeadState
<1>5. /\ merger' = [m EXCEPT !.queue = r] /\ video' = vid
      /\ IF vid = NoGen THEN sinks' = sk
         ELSE \E takes \in [Sink -> [1 .. n -> BOOLEAN]] :
                sinks' = AfterPump(q, n, head, sk, takes)
  BY DEF Pump
<1> HIDE DEF n, head
<1>6. Rest(r, q, n)
  BY <1>2, <1>3, RestFacts
<1> HIDE DEF r
<1>7. QInv(merger', sn, now)
  BY <1>1, <1>5, <1>6, RestKeepsQueue
<1>8. merger'.queue = r
  BY <1>2, <1>5 DEF MergerState
<1>9. CASE vid = NoGen
  <2>1. sinks' = sk
    BY <1>5, <1>9
  <2>2. \A s \in Sink : XInv(sk[s], r, 0, sn)
    <3> SUFFICES ASSUME NEW s \in Sink PROVE XInv(sk[s], r, 0, sn)
      OBVIOUS
    <3>1. Opened(sk[s]) /\ ~ sk[s].started
      BY <1>1, <1>9 DEF XInv
    <3> QED
      BY <3>1, ClosedKeeps DEF Opened
  <2> QED
    BY <1>5, <1>7, <1>8, <1>9, <2>1, <2>2 DEF Streams
<1>10. CASE vid # NoGen
  <2>1. PICK takes \in [Sink -> [1 .. n -> BOOLEAN]] :
          sinks' = AfterPump(q, n, head, sk, takes)
    BY <1>5, <1>10
  <2>2. sinks' \in [Sink -> SinkState] /\ \A s \in Sink : XInv(sinks'[s], q, n, sn)
    BY <1>1, <1>3, <1>4, <2>1, PumpKeeps
  <2>3. \A s \in Sink : XInv(sinks'[s], r, 0, sn)
    BY <1>6, <2>2, RestKeepsSink
  <2> QED
    BY <1>5, <1>7, <1>8, <1>10, <2>2, <2>3 DEF Streams
<1> QED
  BY <1>9, <1>10
-----------------------------------------------------------------------------
(* What the switch emits follows what it has sent.                         *)

\* An ordinary sequence of stamps not after t.
Rising(T, t) ==
  /\ T \in Seq(0 .. t)
  /\ \A i, j \in DOMAIN T : i < j => T[i] < T[j]

LEMMA RisingFacts ==
  ASSUME NEW t \in Nat, NEW T, Rising(T, t)
  PROVE  /\ Len(T) \in Nat /\ DOMAIN T = 1 .. Len(T)
         /\ \A i \in 1 .. Len(T) : T[i] \in 0 .. t
<1>1. T \in Seq(0 .. t)
  BY DEF Rising
<1> QED
  BY <1>1, LenProperties, ElementOfSeq

LEMMA NthKey ==
  ASSUME NEW n, NEW t, NEW g, NEW ts, NEW K, ts \in K
  PROVE  Nth(n, t, g, ts, ts \in K).key
  BY DEF Nth

\* Pictures of generation g with stamps T, numbered from n on.
ArePictures(bs, n, g, T) ==
  /\ Len(bs) = Len(T)
  /\ \A i \in 1 .. Len(T) :
       bs[i].track = "video" /\ bs[i].no = n + i /\ bs[i].gen = g /\ bs[i].ts = T[i]

LEMMA PicturesRun ==
  ASSUME NEW sn \in SentState, NEW g \in Gen, NEW t \in Nat, NEW T, Rising(T, t), NEW K,
         T # <<>> => sn["video"].ts <= T[1] /\ (sn["video"].gen # g => T[1] \in K)
  PROVE  /\ Run(Pictures(sn["video"].n, g, T, K), sn, t)
         /\ ArePictures(Pictures(sn["video"].n, g, T, K), sn["video"].n, g, T)
<1> DEFINE n == sn["video"].n
           bs == Pictures(n, g, T, K)
<1>1. /\ Len(T) \in Nat /\ DOMAIN T = 1 .. Len(T)
      /\ \A i \in 1 .. Len(T) : T[i] \in 0 .. t
  BY RisingFacts
<1>2. n \in Nat /\ sn["video"].ts \in Nat \cup {Never} /\ "video" \in Track
  BY DEF SentState, Track, Live
<1>3. \A i \in 1 .. Len(T) : Nth(n + i, "video", g, T[i], T[i] \in K) \in Block
  BY <1>1, <1>2 DEF Nth, Block
<1>4. /\ bs \in Seq(Block) /\ Len(bs) = Len(T)
      /\ \A i \in 1 .. Len(T) : bs[i] = Nth(n + i, "video", g, T[i], T[i] \in K)
  BY <1>1, <1>3 DEF Pictures
<1> HIDE DEF bs, n
<1>5. ASSUME NEW i \in 1 .. Len(T)
      PROVE  /\ bs[i].track = "video" /\ bs[i].no = n + i /\ bs[i].gen = g
             /\ bs[i].ts = T[i] /\ (T[i] \in K => bs[i].key) /\ bs[i] \in Block
  <2>1. bs[i] = Nth(n + i, "video", g, T[i], T[i] \in K) /\ bs[i] \in Block
    BY <1>3, <1>4
  <2>2. bs[i].track = "video" /\ bs[i].no = n + i /\ bs[i].gen = g /\ bs[i].ts = T[i]
    BY <2>1 DEF Nth
  <2>3. T[i] \in K => bs[i].key
    <3>1. T[i] \in K => Nth(n + i, "video", g, T[i], T[i] \in K).key
      BY NthKey, Zenon
    <3> QED
      BY <2>1, <3>1, Zenon
  <2> QED
    BY <2>1, <2>2, <2>3
<1>6. ASSUME NEW i \in 1 .. Len(T)
      PROVE  IsPicture(bs[i]) /\ bs[i].ts <= t /\ Follows(bs[i], Upto(sn, bs, i - 1))
  <2>1. IsPicture(bs[i]) /\ bs[i].ts <= t
    BY <1>1, <1>5 DEF IsPicture
  <2>2. CASE i = 1
    <3>1. Upto(sn, bs, i - 1) = sn
      BY <2>2 DEF Upto
    <3>2. T # <<>>
      BY <1>1
    <3>3. sn["video"].ts <= T[1] /\ (sn["video"].gen # g => T[1] \in K)
      BY <3>2
    <3> QED
      BY <1>5, <2>1, <2>2, <3>1, <3>3 DEF Follows, n
  <2>3. CASE i # 1
    <3>1. i - 1 \in 1 .. Len(T) /\ i - 1 # 0 /\ i - 1 < i /\ (i - 1) + 1 = i
      BY <1>1, <2>3
    <3>2. Upto(sn, bs, i - 1) = After(sn, bs[i - 1])
      BY <3>1 DEF Upto
    <3>3. After(sn, bs[i - 1])["video"] = [n |-> n + (i - 1), gen |-> g, ts |-> T[i - 1]]
      BY <1>2, <1>5, <3>1 DEF After, SentState
    <3>4. T[i - 1] < T[i]
      BY <1>1, <3>1 DEF Rising
    <3>5. T[i - 1] <= T[i]
      <4>1. T[i - 1] \in Nat /\ T[i] \in Nat
        BY <1>1, <3>1
      <4> QED
        BY <3>4, <4>1
    <3>6. n + i = (n + (i - 1)) + 1
      BY <1>1, <1>2
    <3> QED
      BY <1>5, <2>1, <3>2, <3>3, <3>5, <3>6 DEF Follows
  <2> QED
    BY <2>1, <2>2, <2>3
<1>7. Run(bs, sn, t)
  BY <1>4, <1>6 DEF Run
<1> QED
  BY <1>4, <1>5, <1>7 DEF bs, n, ArePictures

\* Of one run after another.
LEMMA RunOn ==
  ASSUME NEW sn \in SentState, NEW t \in Nat, NEW b1, NEW b2, Run(b1, sn, t),
         Run(b2, Upto(sn, b1, Len(b1)), t)
  PROVE  Run(b1 \o b2, sn, t)
<1> DEFINE s2 == Upto(sn, b1, Len(b1))
           bs == b1 \o b2
<1>1. b1 \in Seq(Block) /\ b2 \in Seq(Block) /\ Len(b1) \in Nat /\ Len(b2) \in Nat
  BY LenProperties DEF Run
<1>2. /\ bs \in Seq(Block) /\ Len(bs) = Len(b1) + Len(b2)
      /\ \A i \in 1 .. Len(b1) : bs[i] = b1[i]
      /\ \A i \in 1 .. Len(b2) : bs[Len(b1) + i] = b2[i]
  BY <1>1, ConcatFacts
<1> HIDE DEF bs, s2
<1>3. \A i \in 1 .. Len(b1) :
        IsPicture(b1[i]) /\ b1[i].ts <= t /\ Follows(b1[i], Upto(sn, b1, i - 1))
  BY DEF Run
<1>4. \A i \in 1 .. Len(b2) :
        IsPicture(b2[i]) /\ b2[i].ts <= t /\ Follows(b2[i], Upto(s2, b2, i - 1))
  BY DEF Run, s2
<1>5. ASSUME NEW i \in 1 .. Len(b1)
      PROVE  Upto(sn, bs, i - 1) = Upto(sn, b1, i - 1)
  <2>1. i = 1 \/ (i - 1 \in 1 .. Len(b1))
    BY <1>1
  <2> QED
    BY <1>2, <2>1 DEF Upto
<1>6. ASSUME NEW i \in 1 .. Len(b2)
      PROVE  Upto(sn, bs, (Len(b1) + i) - 1) = Upto(s2, b2, i - 1)
  <2>1. CASE i = 1
    <3>1. (Len(b1) + i) - 1 = Len(b1) /\ i - 1 = 0
      BY <1>1, <2>1
    <3>2. Len(b1) = 0 \/ Len(b1) \in 1 .. Len(b1)
      BY <1>1
    <3>3. Upto(sn, bs, Len(b1)) = Upto(sn, b1, Len(b1))
      BY <1>2, <3>2 DEF Upto
    <3> QED
      BY <3>1, <3>3 DEF Upto, s2
  <2>2. CASE i # 1
    <3>1. /\ i - 1 \in 1 .. Len(b2) /\ (Len(b1) + i) - 1 = Len(b1) + (i - 1)
          /\ Len(b1) + (i - 1) # 0 /\ i - 1 # 0
      BY <1>1, <2>2
    <3>2. Upto(sn, bs, (Len(b1) + i) - 1) = After(sn, b2[i - 1])
      BY <1>2, <3>1 DEF Upto
    <3>3. b2[i - 1].track = "video"
      BY <1>4, <3>1 DEF IsPicture
    <3>4. After(s2, b2[i - 1]) = After(sn, b2[i - 1])
      <4>1. CASE Len(b1) = 0
        BY <4>1 DEF s2, Upto
      <4>2. CASE Len(b1) # 0
        <5>1. Len(b1) \in 1 .. Len(b1)
          BY <1>1, <4>2
        <5>2. b1[Len(b1)].track = "video"
          BY <1>3, <5>1 DEF IsPicture
        <5>3. s2 = After(sn, b1[Len(b1)])
          BY <4>2 DEF s2, Upto
        <5> QED
          BY <3>3, <5>2, <5>3 DEF After
      <4> QED
        BY <4>1, <4>2
    <3> QED
      BY <3>1, <3>2, <3>4 DEF Upto
  <2> QED
    BY <2>1, <2>2
<1>7. ASSUME NEW i \in 1 .. Len(bs)
      PROVE  IsPicture(bs[i]) /\ bs[i].ts <= t /\ Follows(bs[i], Upto(sn, bs, i - 1))
  <2>1. CASE i \in 1 .. Len(b1)
    BY <1>2, <1>3, <1>5, <2>1
  <2>2. CASE i \notin 1 .. Len(b1)
    <3>1. PICK k \in 1 .. Len(b2) : i = Len(b1) + k
      <4>1. i - Len(b1) \in 1 .. Len(b2) /\ i = Len(b1) + (i - Len(b1))
        BY <1>1, <1>2, <2>2
      <4> QED
        BY <4>1
    <3>2. bs[i] = b2[k] /\ Upto(sn, bs, i - 1) = Upto(s2, b2, k - 1)
      BY <1>2, <1>6, <3>1
    <3> QED
      BY <1>4, <3>2
  <2> QED
    BY <2>1, <2>2
<1> QED
  BY <1>2, <1>7 DEF Run, bs
-----------------------------------------------------------------------------
(* The invariant and the steps.                                            *)

\* No sink is open before the first encoder's entry is known: what is polled
\* until then is nothing any of them misses.
ChainInv ==
  /\ TypeOK
  /\ Streams(merger, sinks, sent, now)
  /\ video = NoGen => \A s \in Sink : ~ sinks[s].started

USE DEF Never, Forever

LEMMA NotAttachedFacts ==
  /\ NotAttached \in SinkState /\ ~ NotAttached.started /\ NotAttached.got = <<>>
  /\ \A kind \in Kind : /\ Attached(kind) \in SinkState /\ ~ Attached(kind).started
                        /\ Attached(kind).got = <<>>
<1>1. <<>> \in Seq(WrittenBlock)
  OBVIOUS
<1>2. NotAttached \in SinkState /\ ~ NotAttached.started /\ NotAttached.got = <<>>
  BY <1>1 DEF NotAttached, SinkState, WrittenBlock
<1> HIDE DEF NotAttached
<1> QED
  BY <1>2 DEF Attached, SinkState

LEMMA InitInv ==
  ASSUME ChainAssumption, Init
  PROVE  ChainInv
<1>1. /\ roles = Switch!NoRoles /\ begun = 0 /\ now = 0 /\ format \in [Gen -> Format]
      /\ headers = {} /\ video = NoGen /\ direct = {}
      /\ tracks \in SUBSET {"audio", "raw"}
      /\ merger = [queue |-> <<>>, mark |-> [t \in Live |-> Never]]
      /\ sinks = [s \in Sink |-> NotAttached]
      /\ sent = [t \in Track |-> [n |-> 0, gen |-> NoGen, ts |-> Never]]
  BY DEF Init
<1>2. Switch!NoRoles \in Switch!Roles
  BY DEF Switch!NoRoles, Switch!Roles, Switch!Gen, Switch!NoGen
<1>3. merger \in MergerState /\ merger.queue = <<>>
  BY <1>1 DEF MergerState
<1>4. sent \in SentState
  BY <1>1 DEF SentState
<1>5. sinks \in [Sink -> SinkState] /\ \A s \in Sink : sinks[s] = NotAttached
  BY <1>1, NotAttachedFacts
<1>6. TypeOK
  BY <1>1, <1>2, <1>3, <1>4, <1>5 DEF TypeOK, SentState, ChainAssumption
<1>7. QInv(merger, sent, now)
  <2> SUFFICES /\ Sorted(merger.queue) /\ InTurn(merger.queue)
               /\ Behind(merger.queue, sent, now) /\ Marked(merger)
               /\ Whole(merger.queue, sent) /\ KeyBetween(merger.queue)
               /\ LastPicture(merger.queue, sent)
    BY <1>3, <1>4 DEF QInv
  <2>1. DOMAIN merger.queue = {}
    BY <1>3
  <2> QED
    BY <2>1 DEF Sorted, InTurn, Behind, Marked, Whole, KeyBetween, LastPicture
<1>8. \A s \in Sink : XInv(sinks[s], merger.queue, 0, sent)
  <2> SUFFICES ASSUME NEW s \in Sink PROVE XInv(sinks[s], merger.queue, 0, sent)
    OBVIOUS
  <2> QED
    BY <1>5, NotAttachedFacts, ClosedKeeps
<1> QED
  BY <1>5, <1>6, <1>7, <1>8, NotAttachedFacts DEF ChainInv, Streams

\* One call of the switch.
LEMMA AfterSwitchKeeps ==
  ASSUME ChainAssumption, ChainInv, NEW r \in Switch!Roles, NEW bs, Run(bs, sent, now),
         AfterSwitch(r, bs)
  PROVE  ChainInv'
<1> DEFINE vid == IF Adopts(r) THEN r.active ELSE video
           sk  == [n \in Sink |-> IF Adopts(r) THEN Adopt(sinks[n], video, r.active) ELSE sinks[n]]
           m   == PushAll(merger, bs, now)
           sn  == Upto(sent, bs, Len(bs))
<1>1. /\ roles' = r /\ sent' = Counted(bs) /\ Pump(m, vid, sk)
      /\ UNCHANGED <<begun, direct, now, format, headers, tracks>>
  BY DEF AfterSwitch
<1>2. /\ TypeOK /\ Streams(merger, sinks, sent, now) /\ now \in Nat
      /\ video = NoGen => \A s \in Sink : ~ sinks[s].started
  BY DEF ChainInv, TypeOK
<1>3. /\ vid \in headers \cup {NoGen} /\ vid \in Gen \cup {NoGen}
      /\ vid = NoGen => video = NoGen
      /\ headers \subseteq Gen /\ NoGen \notin Gen
  <2>1. headers \subseteq Gen /\ video \in headers \cup {NoGen}
    BY <1>2 DEF TypeOK, Gen, Switch!Gen, ChainAssumption
  <2>2. Adopts(r) => r.active \in headers
    BY DEF Adopts
  <2>3. NoGen \notin Gen
    BY DEF Gen, NoGen, Switch!Gen, Switch!NoGen
  <2> QED
    BY <2>1, <2>2, <2>3
<1>4. ASSUME NEW n \in Sink
      PROVE  /\ sk[n] \in SinkState /\ XInv(sk[n], merger.queue, 0, sent)
             /\ vid = NoGen => ~ sk[n].started
  <2>1. /\ sinks[n] \in SinkState /\ XInv(sinks[n], merger.queue, 0, sent)
        /\ Opened(sinks[n])
    BY <1>2 DEF TypeOK, Streams, XInv
  <2>2. CASE ~ Adopts(r)
    BY <1>2, <1>3, <2>1, <2>2
  <2>3. CASE Adopts(r)
    <3> DEFINE x == sinks[n]
               g == r.active
               told == [x EXCEPT !.told = g]
    <3>1. sk[n] = Adopt(x, video, g)
      BY <2>3
    <3>2. g \in Gen /\ vid # NoGen
      <4>1. g \in headers
        BY <2>3 DEF Adopts
      <4> QED
        BY <1>3, <2>3, <4>1
    <3>3. Adopt(x, video, g) \in {x, told, Ended(x)}
      BY DEF Adopt
    <3>4. told \in SinkState /\ XInv(told, merger.queue, 0, sent)
      <4>1. /\ told \in SinkState /\ told.kind = x.kind /\ told.started = x.started
            /\ told.rawDeclared = x.rawDeclared /\ told.got = x.got
        BY <2>1, <3>2 DEF SinkState
      <4> HIDE DEF told, x
      <4> QED
        BY <2>1, <4>1 DEF XInv, Opened, InRow, NoGap, Keyed, KeyedNext, x
    <3>5. Ended(x) \in SinkState /\ XInv(Ended(x), merger.queue, 0, sent)
      BY <2>1, EndedIsClosed, ClosedKeeps
    <3> QED
      BY <2>1, <3>1, <3>2, <3>3, <3>4, <3>5
  <2> QED
    BY <2>2, <2>3
<1>5. sk \in [Sink -> SinkState]
  BY <1>4
<1>6. Streams(merger, sk, sent, now)
  BY <1>2, <1>4 DEF Streams
<1> HIDE DEF sk, vid
<1>7. Streams(m, sk, sn, now)
  BY <1>2, <1>6, PushAllKeeps
<1> HIDE DEF m
<1>8. /\ sinks' \in [Sink -> SinkState] /\ video' = vid
      /\ Streams(merger', sinks', sn, now)
      /\ vid = NoGen => \A s \in Sink : ~ sinks'[s].started
  BY <1>1, <1>2, <1>3, <1>4, <1>5, <1>7, PumpStreams
<1>9. sent' = sn
  <2>1. CASE bs = <<>>
    BY <1>1, <2>1 DEF Counted, Upto
  <2>2. CASE bs # <<>>
    <3>1. Len(bs) # 0
      BY <2>2, EmptySeq DEF Run
    <3> QED
      BY <1>1, <2>2, <3>1 DEF Counted, Upto, After
  <2> QED
    BY <2>1, <2>2
<1> HIDE DEF sn
<1>10. merger' \in MergerState /\ sent' \in SentState
  BY <1>8, <1>9 DEF Streams, QInv
<1>11. TypeOK'
  BY <1>1, <1>2, <1>3, <1>8, <1>10 DEF TypeOK, SentState
<1> QED
  BY <1>1, <1>8, <1>9, <1>11 DEF ChainInv

LEMMA GenFacts ==
  ASSUME ChainAssumption, TypeOK
  PROVE  /\ headers \subseteq Gen /\ 1 .. begun \subseteq Gen /\ NoGen \notin Gen
         /\ roles.active \in Gen \cup {NoGen} /\ roles.pending \in Gen \cup {NoGen}
         /\ roles.retired \in SUBSET Gen
         /\ sent \in SentState /\ now \in Nat /\ begun \in Nat
  BY DEF ChainAssumption, TypeOK, SentState, Gen, NoGen, Switch!Roles, Switch!Gen, Switch!NoGen

\* Stamps of the model are stamps not after now.
LEMMA StampsRise ==
  ASSUME ChainAssumption, now \in Nat, NEW T \in Stamps
  PROVE  Rising(T, now)
<1>1. T \in Seqs!BoundedSeq(Recent, MaxBlocks) /\ \A i, j \in DOMAIN T : i < j => T[i] < T[j]
  BY DEF Stamps
<1>2. T \in Seq(Recent)
  BY <1>1 DEF Seqs!BoundedSeq, Seqs!SeqOf, ChainAssumption
<1>3. T \in Seq(0 .. now)
  BY <1>2 DEF Recent
<1> QED
  BY <1>1, <1>3 DEF Rising

\* What may follow what was sent does.
LEMMA MayFollowRuns ==
  ASSUME ChainAssumption, TypeOK, NEW T, Rising(T, now), NEW g, NEW K,
         T = <<>> \/ MayFollow(g, T, K)
  PROVE  Run(Pictures(sent["video"].n, g, T, K), sent, now)
<1>1. /\ headers \subseteq Gen /\ sent \in SentState /\ now \in Nat
  BY GenFacts
<1>2. CASE T = <<>>
  <2>1. Pictures(sent["video"].n, g, T, K) = <<>>
    BY <1>2 DEF Pictures
  <2>2. <<>> \in Seq(Block) /\ Len(<<>>) = 0
    OBVIOUS
  <2> QED
    BY <2>1, <2>2 DEF Run
<1>3. CASE T # <<>>
  <2>1. /\ g \in Gen
        /\ sent["video"].gen # g => T[1] \in K
        /\ \A i \in DOMAIN T : IF sent["video"].gen = g THEN T[i] > sent["video"].ts
                               ELSE T[i] >= sent["video"].ts
    BY <1>1, <1>3 DEF MayFollow
  <2>2. 1 \in DOMAIN T /\ T[1] \in Nat
    BY <1>1, <1>3, RisingFacts, EmptySeq DEF Rising
  <2>3. sent["video"].ts \in Nat \cup {Never}
    BY <1>1 DEF SentState, Track, Live
  <2>4. sent["video"].ts <= T[1]
    BY <2>1, <2>2, <2>3
  <2> QED
    BY <1>1, <2>1, <2>4, PicturesRun
<1> QED
  BY <1>2, <1>3

LEMMA VideoBlockKeeps ==
  ASSUME ChainAssumption, ChainInv, NEW ts \in Recent, NEW K, VideoBlock(ts, K)
  PROVE  ChainInv'
<1>1. TypeOK /\ now \in Nat /\ roles \in Switch!Roles
  BY GenFacts DEF ChainInv, TypeOK
<1>2. Rising(<<ts>>, now)
  BY <1>1 DEF Rising, Recent
<1>3. Run(Pictures(sent["video"].n, roles.active, <<ts>>, K), sent, now)
  BY <1>1, <1>2, MayFollowRuns DEF VideoBlock
<1> QED
  BY <1>1, <1>3, AfterSwitchKeeps DEF VideoBlock

LEMMA EmptyRun ==
  ASSUME NEW sn, NEW t
  PROVE  Run(<<>>, sn, t)
  BY DEF Run

\* What a cut emits: the rest of the old generation, then the new one.
LEMMA CutRuns ==
  ASSUME ChainAssumption, ChainInv, NEW old \in Stamps, NEW new \in Stamps, NEW K,
         Cut(old, K, new)
  PROVE  LET n  == sent["video"].n
             b1 == Pictures(n, roles.active, old, K)
             b2 == Pictures(n + Len(old), roles.pending, new, K)
         IN  b1 \in Seq(Block) /\ b2 \in Seq(Block) /\ Run(b1 \o b2, sent, now)
<1> DEFINE n  == sent["video"].n
           a  == roles.active
           p  == roles.pending
           b1 == Pictures(n, a, old, K)
           b2 == Pictures(n + Len(old), p, new, K)
           s2 == Upto(sent, b1, Len(b1))
<1>1. /\ TypeOK /\ now \in Nat /\ sent \in SentState /\ headers \subseteq Gen /\ NoGen \notin Gen
      /\ roles \in Switch!Roles
  BY GenFacts DEF ChainInv, TypeOK
<1>2. /\ new # <<>> /\ p \in headers /\ (old = <<>> \/ MayFollow(a, old, K))
      /\ new[1] \in K /\ \A i \in DOMAIN old : old[i] < new[1]
      /\ sent["video"].ts <= new[1]
      /\ AfterSwitch(Switch!Completed(roles), b1 \o b2)
  BY DEF Cut
<1>3. /\ Rising(old, now) /\ Rising(new, now) /\ Len(old) \in Nat
      /\ DOMAIN old = 1 .. Len(old) /\ \A i \in 1 .. Len(old) : old[i] \in Nat
      /\ new[1] \in Nat
  <2>1. Rising(old, now) /\ Rising(new, now)
    BY <1>1, StampsRise
  <2>2. Len(new) # 0
    BY <1>2, <2>1, EmptySeq DEF Rising
  <2> QED
    BY <1>1, <2>1, <2>2, RisingFacts
<1>4. Run(b1, sent, now)
  BY <1>1, <1>2, <1>3, MayFollowRuns
<1>5. /\ s2 \in SentState /\ s2["video"].n = n + Len(old) /\ s2["video"].ts <= new[1]
  <2>1. CASE old = <<>>
    <3>1. Len(old) = 0 /\ b1 = <<>> /\ Len(b1) = 0
      BY <2>1 DEF Pictures
    <3>2. s2 = sent /\ n \in Nat
      BY <1>1, <3>1 DEF Upto, SentState, Track, Live
    <3> QED
      BY <1>1, <1>2, <3>1, <3>2
  <2>2. CASE old # <<>>
    <3>1. a \in Gen
      BY <1>1, <1>2, <2>2 DEF MayFollow
    <3>2. Len(old) # 0 /\ Len(old) \in 1 .. Len(old) /\ 1 \in DOMAIN old /\ old[1] \in Nat
      BY <1>3, <2>2, EmptySeq DEF Rising
    <3>3. sent["video"].ts <= old[1] /\ (sent["video"].gen # a => old[1] \in K)
      <4>1. /\ sent["video"].gen # a => old[1] \in K
            /\ IF sent["video"].gen = a THEN old[1] > sent["video"].ts
               ELSE old[1] >= sent["video"].ts
        BY <1>2, <2>2, <3>2 DEF MayFollow
      <4>2. sent["video"].ts \in Nat \cup {Never}
        BY <1>1 DEF SentState, Track, Live
      <4> QED
        BY <3>2, <4>1, <4>2
    <3>4. ArePictures(b1, n, a, old)
      BY <1>1, <1>3, <3>1, <3>3, PicturesRun
    <3>5. PICK b \in Block : b = b1[Len(old)]
      <4>1. b1 \in Seq(Block) /\ Len(b1) = Len(old)
        BY <1>4, <3>4 DEF Run, ArePictures
      <4> QED
        BY <3>2, <4>1, ElementOfSeq
    <3>6. b.track = "video" /\ b.no = n + Len(old) /\ b.ts = old[Len(old)] /\ b.gen = a
      BY <3>2, <3>4, <3>5 DEF ArePictures
    <3>7. s2 = After(sent, b)
      BY <3>2, <3>4, <3>5 DEF Upto, ArePictures
    <3>8. /\ s2 \in SentState
          /\ s2["video"] = [n |-> n + Len(old), gen |-> a, ts |-> old[Len(old)]]
      <4>1. n + Len(old) \in Nat /\ old[Len(old)] \in Nat /\ "video" \in Track
        BY <1>1, <1>3, <3>2 DEF SentState, Track, Live
      <4> HIDE DEF s2, n
      <4> QED
        BY <1>1, <3>1, <3>6, <3>7, <4>1 DEF After, SentState
    <3>9. old[Len(old)] <= new[1]
      BY <1>2, <1>3, <3>2
    <3> HIDE DEF s2
    <3> QED
      BY <3>8, <3>9
  <2> QED
    BY <2>1, <2>2
<1>6. Run(b2, s2, now)
  <2> HIDE DEF s2, b2, n, p
  <2>1. /\ Run(Pictures(s2["video"].n, p, new, K), s2, now)
    BY <1>1, <1>2, <1>3, <1>5, PicturesRun
  <2> QED
    BY <1>5, <2>1 DEF b2
<1> HIDE DEF b1, b2, s2
<1>7. Run(b1 \o b2, sent, now)
  BY <1>1, <1>4, <1>6, RunOn DEF s2
<1> QED
  BY <1>4, <1>6, <1>7 DEF Run, b1, b2

LEMMA CutKeeps ==
  ASSUME ChainAssumption, ChainInv, NEW old \in Stamps, NEW new \in Stamps, NEW K,
         Cut(old, K, new)
  PROVE  ChainInv'
<1>1. roles \in Switch!Roles
  BY DEF ChainInv, TypeOK
<1>2. Switch!Completed(roles) \in Switch!Roles
  BY <1>1 DEF Switch!Completed, Switch!Roles, Switch!NoGen
<1> QED
  BY <1>2, CutRuns, AfterSwitchKeeps DEF Cut

LEMMA GiveUpKeeps ==
  ASSUME ChainAssumption, ChainInv, NEW held \in Stamps, NEW K, GiveUp(held, K)
  PROVE  ChainInv'
<1>1. TypeOK /\ now \in Nat /\ roles \in Switch!Roles
  BY GenFacts DEF ChainInv, TypeOK
<1>2. Run(Pictures(sent["video"].n, roles.active, held, K), sent, now)
  BY <1>1, StampsRise, MayFollowRuns DEF GiveUp
<1>3. Switch!GivenUp(roles) \in Switch!Roles
  <2>1. roles.pending \in Gen
    BY <1>1, GenFacts DEF GiveUp
  <2> QED
    BY <1>1, <2>1 DEF Switch!GivenUp, Switch!Roles, Gen
<1> QED
  BY <1>2, <1>3, AfterSwitchKeeps DEF GiveUp

LEMMA LoseKeeps ==
  ASSUME ChainAssumption, ChainInv, Lose
  PROVE  ChainInv'
<1>1. Switch!Lost(roles) \in Switch!Roles
  BY DEF ChainInv, TypeOK, Switch!Lost, Switch!Roles
<1> QED
  BY <1>1, EmptyRun, AfterSwitchKeeps DEF Lose

LEMMA IdleKeeps ==
  ASSUME ChainAssumption, ChainInv, Idle
  PROVE  ChainInv'
  BY EmptyRun, AfterSwitchKeeps DEF Idle, ChainInv, TypeOK

\* A block of another track than video.
LEMMA SoundKeeps ==
  ASSUME ChainAssumption, ChainInv, NEW t \in {"audio", "raw"}, NEW ts \in Recent, NEW b,
         b = Nth(sent[t].n + 1, t, NoGen, ts, FALSE), ts > sent[t].ts,
         sent' = Counted(<<b>>), Pump(Push(merger, b, now), video, sinks),
         UNCHANGED <<roles, begun, now, format, headers, tracks, direct>>
  PROVE  ChainInv'
<1> DEFINE m  == Push(merger, b, now)
           sn == After(sent, b)
<1>1. /\ TypeOK /\ Streams(merger, sinks, sent, now)
      /\ video = NoGen => \A s \in Sink : ~ sinks[s].started
  BY DEF ChainInv
<1>2. /\ sent \in SentState /\ now \in Nat /\ headers \subseteq Gen /\ t \in Track
  BY <1>1, GenFacts DEF Track, Live
<1>3. /\ sent[t].n \in Nat /\ sent[t].ts \in Nat \cup {Never} /\ ts \in 0 .. now
  BY <1>2 DEF SentState, Recent
<1>4. /\ b \in Block /\ b.track = t /\ b.no = sent[t].n + 1 /\ b.ts = ts /\ ~ IsPicture(b)
  BY <1>2, <1>3 DEF Nth, Block, IsPicture
<1>5. Follows(b, sent) /\ b.ts <= now
  <2>1. sent[t].ts < ts /\ sent[t].ts <= ts /\ ts <= now
    BY <1>2, <1>3
  <2>2. sent[b.track].n = sent[t].n /\ sent[b.track].ts <= b.ts /\ b.ts <= now
    BY <1>4, <2>1
  <2>3. b \in Block /\ b.no = sent[b.track].n + 1 /\ ~ IsPicture(b)
    BY <1>4, <2>2
  <2> QED
    BY <2>2, <2>3 DEF Follows
<1>6. Streams(m, sinks, sn, now)
  BY <1>1, <1>2, <1>5, PushKeeps
<1>7. sent' = sn
  <2>1. <<b>> # <<>> /\ Len(<<b>>) = 1 /\ <<b>>[1] = b
    OBVIOUS
  <2> QED
    BY <2>1 DEF Counted, After
<1> HIDE DEF m, sn
<1>8. /\ sinks' \in [Sink -> SinkState] /\ video' = video
      /\ Streams(merger', sinks', sn, now)
      /\ video = NoGen => \A s \in Sink : ~ sinks'[s].started
  <2>1. sinks \in [Sink -> SinkState] /\ video \in Gen \cup {NoGen}
    BY <1>1, <1>2 DEF TypeOK
  <2> QED
    BY <1>1, <1>2, <1>6, <2>1, PumpStreams DEF m
<1>9. merger' \in MergerState /\ sent' \in SentState
  BY <1>7, <1>8 DEF Streams, QInv
<1>10. TypeOK'
  BY <1>1, <1>8, <1>9 DEF TypeOK, SentState
<1> QED
  BY <1>7, <1>8, <1>10 DEF ChainInv

\* Steps that leave the merger and what was counted alone.
LEMMA OthersKeep ==
  ASSUME ChainAssumption, ChainInv, TypeOK', UNCHANGED <<merger, sent, now>>,
         video' = NoGen => video = NoGen,
         \A s \in Sink : \/ sinks'[s] = sinks[s]
                         \/ ~ sinks'[s].started /\ sinks'[s].got = <<>>
  PROVE  ChainInv'
<1>1. QInv(merger, sent, now) /\ \A s \in Sink : XInv(sinks[s], merger.queue, 0, sent)
  BY DEF ChainInv, Streams
<1>2. \A s \in Sink : XInv(sinks'[s], merger.queue, 0, sent)
  <2> SUFFICES ASSUME NEW s \in Sink PROVE XInv(sinks'[s], merger.queue, 0, sent)
    OBVIOUS
  <2>1. sinks'[s] \in SinkState
    BY DEF TypeOK
  <2> QED
    BY <1>1, <2>1, ClosedKeeps
<1>3. Streams(merger', sinks', sent', now')
  BY <1>1, <1>2 DEF Streams
<1> QED
  BY <1>3 DEF ChainInv

LEMMA BeginKeeps ==
  ASSUME ChainAssumption, ChainInv, NEW g \in Gen, Begin(g)
  PROVE  ChainInv'
<1>1. TypeOK /\ g = begun + 1
  BY DEF ChainInv, Begin
<1>2. Switch!Begun(roles, g) \in Switch!Roles
  BY <1>1 DEF TypeOK, Switch!Begun, Switch!Roles, Gen
<1>3. TypeOK'
  BY <1>1, <1>2 DEF Begin, TypeOK, ChainAssumption, Gen, Switch!Gen
<1> QED
  BY <1>1, <1>3, OthersKeep DEF Begin

LEMMA HeaderKeeps ==
  ASSUME ChainAssumption, ChainInv, NEW g \in Gen, Header(g)
  PROVE  ChainInv'
<1>1. TypeOK
  BY DEF ChainInv
<1>2. TypeOK' /\ NoGen \notin Gen
  BY <1>1, GenFacts DEF Header, TypeOK
<1> QED
  BY <1>2, OthersKeep DEF Header

LEMMA TrackKeeps ==
  ASSUME ChainAssumption, ChainInv, NoRaw \/ \E t \in {"audio", "raw"} : TrackKnown(t)
  PROVE  ChainInv'
<1>1. TypeOK
  BY DEF ChainInv
<1>2. TypeOK' /\ UNCHANGED <<merger, sent, now, video, sinks>>
  BY <1>1 DEF NoRaw, TrackKnown, TypeOK
<1> QED
  BY <1>2, OthersKeep

LEMMA AttachKeeps ==
  ASSUME ChainAssumption, ChainInv, NEW s \in Sink, NEW kind \in Kind, Attach(s, kind)
  PROVE  ChainInv'
<1>1. TypeOK
  BY DEF ChainInv
<1>2. /\ Attached(kind) \in SinkState /\ ~ Attached(kind).started
      /\ Attached(kind).got = <<>>
  BY NotAttachedFacts
<1>3. TypeOK'
  BY <1>1, <1>2 DEF Attach, TypeOK
<1> QED
  BY <1>1, <1>2, <1>3, OthersKeep DEF Attach, TypeOK

LEMMA DetachKeeps ==
  ASSUME ChainAssumption, ChainInv, NEW S \in SUBSET Sink, Detach(S)
  PROVE  ChainInv'
<1>1. TypeOK
  BY DEF ChainInv
<1>2. NotAttached \in SinkState /\ ~ NotAttached.started /\ NotAttached.got = <<>>
  BY NotAttachedFacts
<1>3. TypeOK'
  BY <1>1, <1>2 DEF Detach, TypeOK
<1> QED
  BY <1>1, <1>2, <1>3, OthersKeep DEF Detach, TypeOK

LEMMA NoAudioKeeps ==
  ASSUME ChainAssumption, ChainInv, NoAudio
  PROVE  ChainInv'
<1> DEFINE m == [merger EXCEPT !.mark["audio"] = Forever]
<1>1. TypeOK /\ QInv(merger, sent, now) /\ now \in 0 .. MaxNow /\ MaxNow \in Nat
  BY DEF ChainInv, Streams, TypeOK, ChainAssumption
<1>2. /\ merger' = m
      /\ UNCHANGED <<roles, begun, now, format, headers, video, tracks, sinks, sent, direct>>
  BY DEF NoAudio
<1>3. /\ m \in MergerState /\ m.queue = merger.queue
      /\ m.mark = [merger.mark EXCEPT !["audio"] = Forever]
  <2>1. /\ merger = [queue |-> merger.queue, mark |-> merger.mark]
        /\ merger.queue \in Seq(Entry) /\ merger.mark \in [Live -> Nat \cup {Never}]
    BY <1>1 DEF TypeOK, MergerState
  <2>2. m = [queue |-> merger.queue, mark |-> [merger.mark EXCEPT !["audio"] = Forever]]
    BY <2>1
  <2>3. [merger.mark EXCEPT !["audio"] = Forever] \in [Live -> Nat \cup {Never}]
    BY <1>1, <2>1 DEF Live
  <2> HIDE DEF m
  <2> QED
    BY <2>1, <2>2, <2>3 DEF MergerState
<1> HIDE DEF m
<1>4. Marked(m)
  <2> SUFFICES ASSUME NEW i \in DOMAIN merger.queue, merger.queue[i].block.track \in Live
               PROVE  merger.queue[i].block.ts <= m.mark[merger.queue[i].block.track]
    BY <1>3 DEF Marked
  <2>1. /\ merger.queue[i].block.ts <= merger.mark[merger.queue[i].block.track]
        /\ merger.queue[i].block.ts <= now
    BY <1>1 DEF QInv, Marked, Behind
  <2>2. merger.queue \in Seq(Entry) /\ merger.mark \in [Live -> Nat \cup {Never}]
    BY <1>1 DEF QInv, MergerState
  <2>3. merger.queue[i].block.ts \in Nat
    BY <2>2, EntryFacts
  <2>4. CASE merger.queue[i].block.track = "audio"
    <3>1. m.mark["audio"] = MaxNow + 1
      BY <1>3, <2>2, <2>4
    <3> QED
      BY <1>1, <2>1, <2>3, <2>4, <3>1
  <2>5. CASE merger.queue[i].block.track # "audio"
    BY <1>3, <2>1, <2>2, <2>5
  <2> QED
    BY <2>4, <2>5
<1>5. QInv(m, sent, now)
  BY <1>1, <1>3, <1>4 DEF QInv
<1>6. Streams(merger', sinks', sent', now')
  BY <1>2, <1>3, <1>5 DEF ChainInv, Streams
<1>7. TypeOK'
  BY <1>1, <1>2, <1>3 DEF TypeOK
<1> QED
  BY <1>2, <1>6, <1>7 DEF ChainInv

LEMMA PassKeeps ==
  ASSUME ChainAssumption, ChainInv, Pass
  PROVE  ChainInv'
<1>1. /\ TypeOK /\ QInv(merger, sent, now) /\ now \in Nat /\ now' = now + 1
      /\ UNCHANGED <<roles, begun, format, headers, video, tracks, merger, sinks, sent, direct>>
  BY GenFacts DEF ChainInv, Streams, Pass
<1>2. Behind(merger.queue, sent, now + 1)
  <2>1. merger.queue \in Seq(Entry) /\ Behind(merger.queue, sent, now)
    BY <1>1 DEF QInv, MergerState
  <2>2. \A i \in DOMAIN merger.queue :
          merger.queue[i].block.ts \in Nat /\ merger.queue[i].at \in Nat
    BY <2>1, EntryFacts
  <2> QED
    BY <1>1, <2>1, <2>2 DEF Behind
<1>3. QInv(merger, sent, now + 1)
  BY <1>1, <1>2 DEF QInv
<1>4. Streams(merger', sinks', sent', now')
  BY <1>1, <1>3 DEF ChainInv, Streams
<1>5. TypeOK'
  BY <1>1 DEF TypeOK, Pass
<1> QED
  BY <1>1, <1>4, <1>5 DEF ChainInv

LEMMA NextInv ==
  ASSUME ChainAssumption, ChainInv, [Next]_vars
  PROVE  ChainInv'
<1>1. ASSUME NEW g \in Gen, Begin(g) \/ Header(g)
      PROVE  ChainInv'
  BY <1>1, BeginKeeps, HeaderKeeps
<1>2. ASSUME NEW ts \in Recent, NEW K \in SUBSET {ts}, VideoBlock(ts, K)
      PROVE  ChainInv'
  BY <1>2, VideoBlockKeeps
<1>3. ASSUME NEW old \in Stamps, NEW new \in Stamps, NEW K \in SUBSET Recent,
             Cut(old, K, new)
      PROVE  ChainInv'
  BY <1>3, CutKeeps
<1>4. ASSUME NEW held \in Stamps, NEW K \in SUBSET Recent, GiveUp(held, K)
      PROVE  ChainInv'
  BY <1>4, GiveUpKeeps
<1>5. ASSUME NEW ts \in Recent, AudioBlock(ts) \/ RawBlock(ts)
      PROVE  ChainInv'
  <2>1. CASE AudioBlock(ts)
    BY <2>1, SoundKeeps DEF AudioBlock
  <2>2. CASE RawBlock(ts)
    BY <2>2, SoundKeeps DEF RawBlock
  <2> QED
    BY <1>5, <2>1, <2>2
<1>6. ASSUME Lose \/ Idle PROVE ChainInv'
  BY <1>6, LoseKeeps, IdleKeeps
<1>7. ASSUME NoRaw \/ \E t \in {"audio", "raw"} : TrackKnown(t) PROVE ChainInv'
  BY <1>7, TrackKeeps
<1>8. ASSUME NEW s \in Sink, NEW kind \in Kind, Attach(s, kind) PROVE ChainInv'
  BY <1>8, AttachKeeps
<1>9. ASSUME NEW S \in SUBSET Sink, Detach(S) PROVE ChainInv'
  BY <1>9, DetachKeeps
<1>10. ASSUME NoAudio \/ Pass PROVE ChainInv'
  BY <1>10, NoAudioKeeps, PassKeeps
<1>11. CASE UNCHANGED vars
  <2>1. UNCHANGED <<merger, sent, now, video, sinks>> /\ TypeOK'
    BY <1>11 DEF vars, ChainInv, TypeOK
  <2> QED
    BY <2>1, OthersKeep
<1> QED
  BY <1>1, <1>2, <1>3, <1>4, <1>5, <1>6, <1>7, <1>8, <1>9, <1>10, <1>11 DEF Next
-----------------------------------------------------------------------------
(* What the invariant says of a sink and of the merger.                    *)

\* r is what the sink has, g, and what waits in queue q after it.
Joined(r, g, q) ==
  /\ DOMAIN r = 1 .. Len(g) + Len(q)
  /\ \A i \in 1 .. Len(g) : r[i] = g[i]
  /\ \A i \in 1 .. Len(q) :
       r[Len(g) + i].track = q[i].block.track /\ r[Len(g) + i].no = q[i].block.no

LEMMA WrittenJoins ==
  ASSUME NEW g \in Seq(WrittenBlock), NEW w \in Seq(WrittenBlock), NEW q, Len(q) = Len(w),
         \A i \in 1 .. Len(q) : w[i].track = q[i].block.track /\ w[i].no = q[i].block.no
  PROVE  Joined(g \o w, g, q)
<1>1. /\ DOMAIN (g \o w) = 1 .. Len(g) + Len(w)
      /\ \A i \in 1 .. Len(g) : (g \o w)[i] = g[i]
      /\ \A i \in 1 .. Len(w) : (g \o w)[Len(g) + i] = w[i]
  BY ConcatFacts
<1> QED
  BY <1>1 DEF Joined

LEMMA StreamJoins ==
  ASSUME NEW s \in Sink, XInv(sinks[s], merger.queue, 0, sent), merger \in MergerState
  PROVE  Joined(Stream(s), sinks[s].got, merger.queue)
<1> DEFINE g == sinks[s].got
           q == merger.queue
           w == [i \in DOMAIN q |-> Written(q[i].block)]
<1>1. g \in Seq(WrittenBlock) /\ Len(g) \in Nat
  BY DEF XInv, Opened, SinkState, WrittenBlock
<1>2. q \in Seq(Entry) /\ Len(q) \in Nat /\ DOMAIN q = 1 .. Len(q)
  BY EntryFacts DEF MergerState
<1>3. \A i \in 1 .. Len(q) : Written(q[i].block) \in WrittenBlock
  BY <1>2, EntryFacts DEF Written, WrittenBlock, Block
<1>4. w \in Seq(WrittenBlock) /\ Len(w) = Len(q)
  <2>1. w \in [1 .. Len(q) -> WrittenBlock]
    BY <1>2, <1>3
  <2> HIDE DEF w
  <2> QED
    BY <1>2, <2>1
<1>5. \A i \in 1 .. Len(q) : w[i].track = q[i].block.track /\ w[i].no = q[i].block.no
  BY <1>2 DEF Written
<1>6. Stream(s) = g \o w
  BY DEF Stream
<1> HIDE DEF g, q, w
<1> QED
  BY <1>1, <1>4, <1>5, <1>6, WrittenJoins DEF g, q

LEMMA InvUnbroken ==
  ASSUME NEW s \in Sink, Streams(merger, sinks, sent, now),
         NEW i \in DOMAIN Stream(s)
  PROVE  LET b == Stream(s)[i]
             rest == {j \in DOMAIN Stream(s) : j > i /\ Stream(s)[j].track = b.track}
         IN  /\ \A j \in rest : Stream(s)[j].no > b.no
             /\ {Stream(s)[j].no : j \in rest} = b.no + 1 .. sent[b.track].n
<1> DEFINE r == Stream(s)
           g == sinks[s].got
           q == merger.queue
           n == Len(g)
           rest == {j \in DOMAIN r : j > i /\ r[j].track = r[i].track}
<1>1. Joined(r, g, q) /\ XInv(sinks[s], q, 0, sent) /\ QInv(merger, sent, now)
  BY StreamJoins DEF Streams, QInv
<1>2. /\ g \in Seq(WrittenBlock) /\ n \in Nat /\ DOMAIN g = 1 .. n
      /\ \A j \in 1 .. n : g[j] \in WrittenBlock
  <2>1. g \in Seq(WrittenBlock)
    BY <1>1 DEF XInv, Opened, SinkState, WrittenBlock
  <2> QED
    BY <2>1, LenProperties, ElementOfSeq
<1>3. /\ q \in Seq(Entry) /\ Len(q) \in Nat /\ DOMAIN q = 1 .. Len(q)
      /\ \A j \in 1 .. Len(q) : q[j].block.no \in Nat /\ q[j].block.track \in Track
  BY <1>1, EntryFacts DEF QInv, MergerState
<1>4. /\ DOMAIN r = 1 .. n + Len(q)
      /\ \A j \in 1 .. n : r[j] = g[j]
      /\ \A j \in 1 .. Len(q) :
           r[n + j].track = q[j].block.track /\ r[n + j].no = q[j].block.no
  BY <1>1 DEF Joined
<1> HIDE DEF r, g, q, n
<1>5. \A j \in DOMAIN r : \/ j \in 1 .. n
                          \/ j - n \in 1 .. Len(q) /\ j = n + (j - n)
  BY <1>2, <1>3, <1>4
<1>6. \A j \in DOMAIN r : r[j].no \in Nat /\ r[j].track \in Track
  <2> SUFFICES ASSUME NEW j \in DOMAIN r PROVE r[j].no \in Nat /\ r[j].track \in Track
    OBVIOUS
  <2>1. CASE j \in 1 .. n
    BY <1>2, <1>4, <2>1 DEF WrittenBlock
  <2>2. CASE j - n \in 1 .. Len(q) /\ j = n + (j - n)
    BY <1>3, <1>4, <2>2
  <2> QED
    BY <1>5, <2>1, <2>2
<1>7. \A t \in Track : sent[t].n \in Nat
  BY <1>1 DEF QInv, SentState
<1>8. ASSUME NEW j \in rest
      PROVE  r[j].no > r[i].no /\ r[j].no <= sent[r[i].track].n
  <2>1. i \in DOMAIN r /\ j \in DOMAIN r /\ j > i /\ r[j].track = r[i].track
    BY DEF r
  <2>2. CASE j \in 1 .. n
    <3>1. i \in 1 .. n /\ j \in i + 1 .. n
      BY <1>2, <1>4, <2>1, <2>2
    <3>2. i \in DOMAIN g /\ j \in DOMAIN g /\ j \in i + 1 .. Len(g)
          /\ g[j].track = g[i].track
      BY <1>2, <1>4, <2>1, <2>2, <3>1 DEF n
    <3>3. InRow(sinks[s], q, 0, sent)
      BY <1>1 DEF XInv
    <3>4. g[i].no < g[j].no /\ g[j].no <= sent[g[j].track].n
      BY <3>2, <3>3 DEF InRow, g
    <3> QED
      BY <1>4, <1>6, <1>7, <2>1, <2>2, <3>1, <3>4
  <2>3. CASE j - n \in 1 .. Len(q) /\ j = n + (j - n)
    <3> DEFINE k == j - n
    <3>1. /\ k \in 1 .. Len(q) /\ r[j].no = q[k].block.no
          /\ r[j].track = q[k].block.track
      BY <1>4, <2>3
    <3> HIDE DEF k
    <3>2. r[j].no <= sent[r[i].track].n
      BY <1>1, <1>3, <2>1, <3>1 DEF QInv, Behind, q
    <3>3. CASE i \in 1 .. n
      <4>1. k \in 0 + 1 .. Len(q) /\ q[k].block.track = g[i].track
        <5>1. r[i] = g[i]
          BY <1>4, <3>3
        <5>2. q[k].block.track = g[i].track
          BY <2>1, <3>1, <5>1
        <5>3. k \in 0 + 1 .. Len(q)
          BY <1>3, <3>1
        <5> QED
          BY <5>2, <5>3
      <4>2. g[i].no < q[k].block.no
        BY <1>1, <1>2, <3>3, <4>1 DEF XInv, InRow, g
      <4> QED
        BY <1>4, <1>6, <2>1, <3>1, <3>2, <3>3, <4>2
    <3>4. CASE i - n \in 1 .. Len(q) /\ i = n + (i - n)
      <4> DEFINE l == i - n
      <4>1. /\ l \in 1 .. Len(q) /\ r[i].no = q[l].block.no
            /\ r[i].track = q[l].block.track
        BY <1>4, <3>4
      <4>2. l < k
        BY <1>2, <1>4, <2>1 DEF k
      <4> HIDE DEF l
      <4>3. q[l].block.no < q[k].block.no
        BY <1>1, <1>3, <2>1, <3>1, <4>1, <4>2 DEF QInv, InTurn, q
      <4> QED
        BY <1>6, <2>1, <3>1, <3>2, <4>1, <4>3
    <3> QED
      BY <1>5, <2>1, <3>3, <3>4
  <2> QED
    BY <1>5, <2>1, <2>2, <2>3
<1>9. ASSUME NEW x \in r[i].no + 1 .. sent[r[i].track].n
      PROVE  \E j \in rest : r[j].no = x
  <2>1. i \in DOMAIN r
    BY DEF r
  <2>2. CASE i \in 1 .. n
    <3>1. r[i] = g[i]
      BY <1>4, <2>2
    <3>2. CASE \E k \in i + 1 .. Len(g) : g[k].track = g[i].track /\ g[k].no = x
      <4>1. PICK k \in i + 1 .. Len(g) : g[k].track = g[i].track /\ g[k].no = x
        BY <3>2
      <4>2. k \in 1 .. n /\ k \in DOMAIN r /\ k > i
        BY <1>2, <1>3, <1>4, <2>2 DEF n
      <4> QED
        BY <1>4, <3>1, <4>1, <4>2
    <3>3. CASE \E k \in 0 + 1 .. Len(q) : q[k].block.track = g[i].track /\ q[k].block.no = x
      <4>1. PICK k \in 1 .. Len(q) : q[k].block.track = g[i].track /\ q[k].block.no = x
        BY <3>3
      <4>2. n + k \in DOMAIN r /\ n + k > i
        BY <1>2, <1>3, <1>4, <2>2
      <4>3. r[n + k].track = r[i].track /\ r[n + k].no = x
        BY <1>4, <3>1, <4>1
      <4> QED
        BY <4>2, <4>3
    <3>4. i \in DOMAIN g /\ x \in g[i].no + 1 .. sent[g[i].track].n
      BY <1>2, <2>2, <3>1
    <3> QED
      BY <1>1, <3>2, <3>3, <3>4 DEF XInv, NoGap, g
  <2>3. CASE i - n \in 1 .. Len(q) /\ i = n + (i - n)
    <3> DEFINE l == i - n
    <3>1. /\ l \in 1 .. Len(q) /\ i = n + l /\ r[i].no = q[l].block.no
          /\ r[i].track = q[l].block.track
      BY <1>4, <2>3
    <3> HIDE DEF l
    <3>2. PICK k \in l + 1 .. Len(q) :
            q[k].block.track = q[l].block.track /\ q[k].block.no = x
      BY <1>1, <1>3, <3>1 DEF QInv, Whole, q
    <3>3. k \in 1 .. Len(q) /\ n + k \in DOMAIN r /\ n + k > i
      BY <1>2, <1>3, <1>4, <3>1
    <3>4. r[n + k].track = r[i].track /\ r[n + k].no = x
      BY <1>4, <3>1, <3>2, <3>3
    <3> QED
      BY <3>3, <3>4
  <2> QED
    BY <1>5, <2>1, <2>2, <2>3
<1>10. r[i].no \in Nat /\ sent[r[i].track].n \in Nat
  BY <1>6, <1>7 DEF r
<1>11. {r[j].no : j \in rest} = r[i].no + 1 .. sent[r[i].track].n
  <2>1. \A j \in rest : r[j].no \in r[i].no + 1 .. sent[r[i].track].n
    BY <1>6, <1>8, <1>10
  <2> HIDE DEF rest
  <2> QED
    BY <1>9, <2>1
<1> QED
  BY <1>8, <1>11 DEF r

LEMMA InvDecodable ==
  ASSUME NEW s \in Sink, XInv(sinks[s], merger.queue, 0, sent)
  PROVE  LET got == sinks[s].got IN
         /\ got # <<>> => IsKeyframe(got[1])
         /\ \A i \in DOMAIN got : IsPicture(got[i]) =>
              \E j \in 1 .. i : IsKeyframe(got[j]) /\ got[j].gen = got[i].gen
BY DEF XInv, Opened, Keyed

LEMMA InvWaits ==
  ASSUME ChainAssumption, QInv(merger, sent, now), now \in Nat,
         NEW i \in DOMAIN merger.queue,
         merger.queue[i].block.track \in Live, now - merger.queue[i].at >= MergeWait,
         ~ (i <= Ready(merger))
  PROVE  \E j \in 1 .. i - 1 :
           merger.queue[j].block.track = "raw" /\ merger.queue[j].at > merger.queue[i].at
<1> DEFINE q == merger.queue
           k == Ready(merger) + 1
<1>1. /\ Sorted(q) /\ InTurn(q) /\ Marked(merger) /\ merger \in MergerState
      /\ q \in Seq(Entry)
  BY DEF QInv, MergerState
<1>2. /\ Len(q) \in Nat /\ i \in 1 .. Len(q) /\ DOMAIN q = 1 .. Len(q)
      /\ \A j \in 1 .. Len(q) :
           q[j].at \in Nat /\ q[j].block.ts \in Nat /\ q[j].block.track \in Track
  BY <1>1, EntryFacts
<1>3. Ready(merger) \in 0 .. Len(q)
      /\ (Ready(merger) < Len(q) => ~ Due(merger, q[Ready(merger) + 1]))
  BY <1>1, ReadyFacts
<1>4. k \in 1 .. i /\ k \in 1 .. Len(q) /\ ~ Due(merger, q[k])
  BY <1>2, <1>3
<1> HIDE DEF k, q
<1>5. ~ (q[k].block.ts <= Floor(merger)) /\ ~ (now - q[k].at >= MergeWait)
  BY <1>4 DEF Due
<1>6. q[k].at > q[i].at /\ k < i
  <2>1. MergeWait \in Nat /\ now - q[i].at >= MergeWait
    BY DEF ChainAssumption, q
  <2>2. q[k].at > q[i].at
    BY <1>2, <1>4, <1>5, <2>1
  <2>3. k # i
    BY <1>2, <1>4, <2>2
  <2> QED
    BY <1>2, <1>4, <2>2, <2>3
<1>7. q[k].block.track # q[i].block.track
  <2> SUFFICES ASSUME q[k].block.track = q[i].block.track PROVE FALSE
    OBVIOUS
  <2>1. q[k].at <= q[i].at
    BY <1>1, <1>2, <1>4, <1>6 DEF InTurn
  <2> QED
    BY <1>2, <1>4, <1>6, <2>1
<1>8. q[k].block.track \notin Live
  <2> SUFFICES ASSUME q[k].block.track \in Live PROVE FALSE
    OBVIOUS
  <2>1. /\ q[i].block.ts <= merger.mark[q[i].block.track]
        /\ q[k].block.ts <= merger.mark[q[k].block.track]
    BY <1>1, <1>2, <1>4 DEF Marked, q
  <2>2. q[k].block.ts <= q[i].block.ts
    BY <1>1, <1>2, <1>4, <1>6 DEF Sorted
  <2>3. merger.mark[q[i].block.track] \in Nat \cup {Never}
    BY <1>1 DEF MergerState, q
  <2>4. q[k].block.ts <= merger.mark[q[i].block.track]
    BY <1>2, <1>4, <2>1, <2>2, <2>3
  <2>5. q[k].block.ts <= merger.mark["video"] /\ q[k].block.ts <= merger.mark["audio"]
    BY <1>7, <2>1, <2>4 DEF Live, q
  <2> QED
    BY <1>5, <2>5 DEF Floor
<1>9. q[k].block.track = "raw" /\ k \in 1 .. i - 1
  BY <1>2, <1>4, <1>6, <1>8 DEF Track
<1> QED
  BY <1>6, <1>9 DEF q

\* The chain's type is an invariant, for any number of encoders and sinks.
THEOREM ChainTypeCorrect == Spec => []TypeOK
<1>1. Init => ChainInv
  BY ChainAssumption, InitInv
<1>2. ChainInv /\ [Next]_vars => ChainInv'
  BY ChainAssumption, NextInv
<1>3. ChainInv => TypeOK
  BY DEF ChainInv
<1> QED
  BY <1>1, <1>2, <1>3, PTL DEF Spec

LEMMA ChainInvariant == Spec => []ChainInv
<1>1. Init => ChainInv
  BY ChainAssumption, InitInv
<1>2. ChainInv /\ [Next]_vars => ChainInv'
  BY ChainAssumption, NextInv
<1> QED
  BY <1>1, <1>2, PTL DEF Spec

\* Every sink gets a stream a decoder can start on, whenever it came and whatever
\* it refused, over any number of changes of the encoder.
THEOREM SinksDecode == Spec => []SinkDecodable
<1>1. ChainInv => SinkDecodable
  <2> SUFFICES ASSUME ChainInv, NEW s \in Sink
               PROVE  LET got == sinks[s].got IN
                      /\ got # <<>> => IsKeyframe(got[1])
                      /\ \A i \in DOMAIN got : IsPicture(got[i]) =>
                           \E j \in 1 .. i : IsKeyframe(got[j]) /\ got[j].gen = got[i].gen
    BY DEF SinkDecodable
  <2> QED
    BY InvDecodable DEF ChainInv, Streams
<1> QED
  BY <1>1, ChainInvariant, PTL

\* What a sink was given of a track and what waits for it is an unbroken stretch.
THEOREM SinksUnbroken == Spec => []Unbroken
<1>1. ChainInv => Unbroken
  <2> SUFFICES ASSUME ChainInv, NEW s \in Sink, NEW i \in DOMAIN Stream(s)
               PROVE  LET b == Stream(s)[i]
                          rest == {j \in DOMAIN Stream(s) :
                                     j > i /\ Stream(s)[j].track = b.track}
                      IN  /\ \A j \in rest : Stream(s)[j].no > b.no
                          /\ {Stream(s)[j].no : j \in rest} = b.no + 1 .. sent[b.track].n
    BY DEF Unbroken
  <2> QED
    BY InvUnbroken DEF ChainInv
<1> QED
  BY <1>1, ChainInvariant, PTL

\* A poll takes every live block that has waited MERGE_WAIT_MS, unless a newer block
\* of the raw microphone is ahead of it.
THEOREM MergerWaits == Spec => []WaitsAtMost
<1>1. ChainInv => WaitsAtMost
  <2> SUFFICES ASSUME ChainInv, NEW i \in DOMAIN merger.queue,
                      merger.queue[i].block.track \in Live,
                      now - merger.queue[i].at >= MergeWait
               PROVE  \/ i <= Ready(merger)
                      \/ \E j \in 1 .. i - 1 :
                           merger.queue[j].block.track = "raw"
                           /\ merger.queue[j].at > merger.queue[i].at
    BY DEF WaitsAtMost
  <2>1. QInv(merger, sent, now) /\ now \in Nat
    BY ChainAssumption DEF ChainInv, Streams, TypeOK, ChainAssumption
  <2> QED
    BY <2>1, ChainAssumption, InvWaits
<1> QED
  BY <1>1, ChainInvariant, PTL
-----------------------------------------------------------------------------
(* Changes of the picture: what sink x was told, when self.video is vid,   *)
(* generations W wait in the merger, D went on air without a cut and none  *)
(* above top was emitted; f is the generations' track entries.             *)

Waiting(q) == {q[i].block.gen : i \in DOMAIN q}
Has(x) == {x.got[i].gen : i \in DOMAIN x.got}

Alike(f, x, g) ==
  IF x.kind = "whip" THEN f[g] = f[x.told] ELSE f[g].size = f[x.told].size

\* Whatever comes to an open sink it can take.
Fits(f, x, vid, W, D, top) ==
  IF x.started
  THEN /\ vid # NoGen /\ Alike(f, x, vid)
       /\ \A g \in Has(x) : g <= top
       /\ \A g \in W \cup Has(x) : g > x.told /\ g \notin D => Alike(f, x, g)
  ELSE Has(x) = {}

\* What waits is not ahead of self.video.
Announced(W, vid, D, top) ==
  /\ W \subseteq Gen \cup {NoGen} /\ vid \in Gen \cup {NoGen} /\ top \in Nat
  /\ \A g \in W : g <= top /\ (g \in D \/ g <= vid)

LEMMA GenNat ==
  ChainAssumption => Gen \cup {NoGen} \subseteq Nat /\ NoGen = 0
  BY DEF Gen, NoGen, Switch!Gen, Switch!NoGen, ChainAssumption

\* What a sink became of with block b, in full.
Told(y, x, b, vid) ==
  /\ y.started /\ y.kind = x.kind /\ y.got = Append(x.got, Written(b))
  /\ y.told = IF x.started THEN x.told ELSE vid

LEMMA DeliverTells ==
  ASSUME NEW x \in SinkState, NEW b \in Block, NEW takes \in BOOLEAN, NEW head \in HeadState
  PROVE  LET y == Deliver(x, b, takes, head)
         IN  y = x \/ y = Ended(x) \/ Told(y, x, b, head.video)
<1> DEFINE opens == ~ x.started /\ Starts(b)
           open  == IF opens
                    THEN [x EXCEPT !.started = TRUE, !.told = head.video,
                                   !.rawDeclared = WantsRaw(x) /\ head.raw]
                    ELSE x
           given == x.kind # "none" /\ open.started /\ (b.track = "raw" => open.rawDeclared)
           took  == [open EXCEPT !.got = Append(@, Written(b))]
           y == Deliver(x, b, takes, head)
<1>1. y = CASE given /\ takes -> took
            [] given /\ ~ takes /\ x.started -> Ended(x)
            [] OTHER -> x
  BY DEF Deliver, Refused
<1>2. /\ open \in SinkState /\ open.kind = x.kind /\ open.got = x.got
      /\ x.started => open = x
      /\ ~ x.started /\ open.started => open.told = head.video
  BY DEF SinkState, WantsRaw, HeadState
<1>3. CASE given /\ takes
  <2>1. y = took /\ open.started
    BY <1>1, <1>3
  <2>2. /\ took.got = Append(x.got, Written(b)) /\ took.started = open.started
        /\ took.kind = open.kind /\ took.told = open.told
    <3> HIDE DEF open
    <3> QED
      BY <1>2 DEF SinkState
  <2>3. Told(took, x, b, head.video)
    <3> HIDE DEF took, open
    <3> QED
      BY <1>2, <2>1, <2>2 DEF Told
  <2> HIDE DEF took, y
  <2> QED
    BY <2>1, <2>3 DEF y
<1>4. CASE given /\ ~ takes
  <2>1. y = x \/ y = Ended(x)
    BY <1>1, <1>4
  <2> HIDE DEF y
  <2> QED
    BY <2>1 DEF y
<1>5. CASE ~ given
  <2>1. y = x
    BY <1>1, <1>5
  <2> HIDE DEF y
  <2> QED
    BY <2>1 DEF y
<1> QED
  BY <1>3, <1>4, <1>5

LEMMA HasMore ==
  ASSUME NEW x \in SinkState, NEW b \in Block, NEW y, y.got = Append(x.got, Written(b))
  PROVE  Has(y) = Has(x) \cup {b.gen}
<1>1. Written(b) \in WrittenBlock /\ Written(b).gen = b.gen
  BY DEF Written, WrittenBlock, Block
<1>2. x.got \in Seq(WrittenBlock) /\ Len(x.got) \in Nat /\ DOMAIN x.got = 1 .. Len(x.got)
  BY SinkFacts DEF WrittenBlock
<1>3. /\ DOMAIN y.got = 1 .. Len(x.got) + 1
      /\ \A i \in 1 .. Len(x.got) : y.got[i] = x.got[i]
      /\ y.got[Len(x.got) + 1] = Written(b)
  BY <1>1, <1>2, AppendProperties
<1>4. 1 .. Len(x.got) + 1 = (1 .. Len(x.got)) \cup {Len(x.got) + 1}
  BY <1>2
<1> QED
  BY <1>1, <1>2, <1>3, <1>4 DEF Has

LEMMA HasGen ==
  ASSUME NEW x \in SinkState
  PROVE  Has(x) \subseteq Gen \cup {NoGen}
  BY SinkFacts DEF Has

LEMMA EndedFits ==
  ASSUME NEW x \in SinkState, NEW f, NEW vid, NEW W, NEW D, NEW top
  PROVE  Fits(f, Ended(x), vid, W, D, top)
<1>1. ~ Ended(x).started /\ Ended(x).got = <<>>
  BY EndedIsClosed
<1>2. Has(Ended(x)) = {}
  BY <1>1 DEF Has
<1> QED
  BY <1>1, <1>2 DEF Fits

LEMMA DeliverFits ==
  ASSUME ChainAssumption, NEW f, NEW x \in SinkState, NEW b \in Block, NEW takes \in BOOLEAN,
         NEW head \in HeadState, head.video # NoGen, NEW W, b.gen \in W, NEW D, NEW top,
         Announced(W, head.video, D, top), Fits(f, x, head.video, W, D, top)
  PROVE  Fits(f, Deliver(x, b, takes, head), head.video, W, D, top)
<1> DEFINE y == Deliver(x, b, takes, head)
           vid == head.video
<1>1. y = x \/ y = Ended(x) \/ Told(y, x, b, vid)
  BY DeliverTells
<1>2. /\ W \subseteq Nat /\ vid \in Nat /\ top \in Nat /\ Has(x) \subseteq Nat
      /\ \A g \in W : g <= top /\ (g \in D \/ g <= vid)
  BY GenNat, HasGen DEF Announced
<1> SUFFICES Fits(f, y, vid, W, D, top)
  OBVIOUS
<1> HIDE DEF y, vid
<1>3. CASE Told(y, x, b, vid)
  <2>1. Has(y) = Has(x) \cup {b.gen}
    BY <1>3, HasMore DEF Told
  <2>2. CASE x.started
    <3>1. y.told = x.told /\ y.kind = x.kind /\ y.started
      BY <1>3, <2>2 DEF Told
    <3>2. \A g : Alike(f, y, g) <=> Alike(f, x, g)
      BY <3>1 DEF Alike
    <3> QED
      BY <1>2, <2>1, <2>2, <3>1, <3>2 DEF Fits, vid
  <2>3. CASE ~ x.started
    <3>1. y.told = vid /\ y.started /\ Has(x) = {}
      BY <1>3, <2>3 DEF Told, Fits
    <3>2. Alike(f, y, vid)
      BY <3>1 DEF Alike
    <3>3. Has(y) = {b.gen} /\ b.gen \in Nat /\ b.gen <= top
      BY <1>2, <2>1, <3>1
    <3>4. \A g \in W \cup Has(y) : g > y.told /\ g \notin D => FALSE
      BY <1>2, <3>1, <3>3
    <3> QED
      BY <3>1, <3>2, <3>3, <3>4 DEF Fits, vid
  <2> QED
    BY <2>2, <2>3
<1> QED
  BY <1>1, <1>3, EndedFits DEF vid

\* Fewer may wait, more be excused, and the newest be newer.
LEMMA FitsLess ==
  ASSUME ChainAssumption, NEW f, NEW x \in SinkState, NEW vid, NEW W, NEW D, NEW top \in Nat,
         Fits(f, x, vid, W, D, top),
         NEW V, V \subseteq W, NEW E, D \subseteq E, NEW high \in Nat, top <= high
  PROVE  Fits(f, x, vid, V, E, high)
<1>1. Has(x) \subseteq Nat
  BY HasGen, GenNat
<1> QED
  BY <1>1 DEF Fits

\* self.video, an encoder that was excused and sound may wait.
LEMMA FitsMore ==
  ASSUME ChainAssumption, NEW f, NEW x \in SinkState, NEW vid, NEW W, NEW D, NEW top,
         Fits(f, x, vid, W, D, top), NEW g, g = vid \/ g \in D \/ g = NoGen
  PROVE  Fits(f, x, vid, W \cup {g}, D, top)
<1>1. x.told \in Nat /\ NoGen = 0
  BY GenNat DEF SinkState
<1> QED
  BY <1>1 DEF Fits

LEMMA AdoptFits ==
  ASSUME ChainAssumption, NEW x \in SinkState, NEW old, NEW W, NEW D, NEW top \in Nat,
         NEW g \in Gen, Fits(format, x, old, W, D, top), top <= g,
         \A h \in W : h \in Nat /\ h <= g
  PROVE  Adopt(x, old, g) \in SinkState /\ Fits(format, Adopt(x, old, g), g, W, D, g)
<1> DEFINE told == [x EXCEPT !.told = g]
           y == Adopt(x, old, g)
<1>1. Has(x) \subseteq Nat /\ g \in Nat /\ g # NoGen
  BY HasGen, GenNat, GenFacts DEF Gen, Switch!Gen, NoGen, Switch!NoGen
<1>2. /\ told \in SinkState /\ told.told = g /\ told.started = x.started
      /\ told.kind = x.kind /\ Has(told) = Has(x)
  BY DEF SinkState, Has
<1> HIDE DEF told
<1>3. CASE ~ x.started
  <2>1. y = x \/ y = Ended(x)
    BY <1>3 DEF Adopt
  <2>2. Fits(format, x, g, W, D, g)
    BY <1>3 DEF Fits
  <2> QED
    BY <2>1, <2>2, EndedFits, EndedIsClosed
<1>4. CASE x.started
  <2>1. /\ old # NoGen /\ Alike(format, x, old)
        /\ \A h \in Has(x) : h <= g
        /\ \A h \in W \cup Has(x) : h > x.told /\ h \notin D => Alike(format, x, h)
    BY <1>1, <1>4 DEF Fits
  <2>2. CASE format[g] = format[old]
    <3>1. y = x
      BY <2>2 DEF Adopt
    <3>2. Alike(format, x, g)
      BY <2>1, <2>2 DEF Alike
    <3> QED
      BY <1>1, <1>4, <2>1, <3>1, <3>2 DEF Fits
  <2>3. CASE format[g] # format[old] /\ Inband(x)
    <3>1. y = told
      BY <1>4, <2>1, <2>3 DEF Adopt, told
    <3>2. Alike(format, told, g)
      BY <1>2 DEF Alike
    <3>3. \A h \in W \cup Has(x) : ~ (h > g)
      BY <1>1, <2>1
    <3>4. Fits(format, told, g, W, D, g)
      BY <1>1, <1>2, <1>4, <2>1, <3>2, <3>3 DEF Fits
    <3> QED
      BY <1>2, <3>1, <3>4
  <2>4. CASE format[g] # format[old] /\ ~ Inband(x) /\ format[g].size # format[old].size
    <3>1. y = Ended(x)
      BY <2>1, <2>4 DEF Adopt
    <3> QED
      BY <3>1, EndedFits, EndedIsClosed
  <2>5. CASE format[g] # format[old] /\ ~ Inband(x) /\ format[g].size = format[old].size
    <3>1. y = x
      BY <2>1, <2>5 DEF Adopt
    <3>2. Alike(format, x, g)
      BY <2>1, <2>5 DEF Alike, Inband
    <3> QED
      BY <1>1, <1>4, <2>1, <3>1, <3>2 DEF Fits
  <2> QED
    BY <2>2, <2>3, <2>4, <2>5
<1> QED
  BY <1>3, <1>4

\* The same through a pump.
LEMMA AfterPumpFits ==
  ASSUME ChainAssumption, NEW f, NEW q \in Seq(Entry), NEW n \in 0 .. Len(q),
         NEW head \in HeadState, head.video # NoGen, NEW sk \in [Sink -> SinkState],
         NEW takes \in [Sink -> [1 .. n -> BOOLEAN]], NEW D, NEW top,
         Announced(Waiting(q), head.video, D, top),
         \A s \in Sink : Fits(f, sk[s], head.video, Waiting(q), D, top)
  PROVE  /\ AfterPump(q, n, head, sk, takes) \in [Sink -> SinkState]
         /\ \A s \in Sink :
              Fits(f, AfterPump(q, n, head, sk, takes)[s], head.video, Waiting(q), D, top)
<1> DEFINE W == Waiting(q)
           vid == head.video
<1>1. n \in Nat /\ Len(q) \in Nat /\ DOMAIN q = 1 .. Len(q)
  BY EntryFacts
<1>2. PICK h \in Deliveries(q, n, head, sk, takes) : TRUE
  <2>1. Deliveries(q, n, head, sk, takes) # {}
    BY AfterPumpSteps
  <2> QED
    BY <2>1
<1>3. /\ h \in [0 .. n -> [Sink -> SinkState]] /\ h[0] = sk
      /\ \A i \in 1 .. n, s \in Sink :
           h[i][s] = Deliver(h[i - 1][s], q[i].block, takes[s][i], head)
      /\ AfterPump(q, n, head, sk, takes) = h[n]
  BY <1>2 DEF Deliveries
<1> DEFINE T == {i \in 0 .. n : \A s \in Sink : Fits(f, h[i][s], vid, W, D, top)}
<1>4. 0 \in T
  BY <1>1, <1>3
<1>5. ASSUME NEW i \in 1 .. n, i - 1 \in T
      PROVE  i \in T
  <2> SUFFICES ASSUME NEW s \in Sink PROVE Fits(f, h[i][s], vid, W, D, top)
    OBVIOUS
  <2>1. /\ Fits(f, h[i - 1][s], vid, W, D, top)
        /\ i \in 1 .. Len(q) /\ i - 1 \in 0 .. n
    BY <1>1, <1>5
  <2>2. h[i][s] = Deliver(h[i - 1][s], q[i].block, takes[s][i], head)
    BY <1>3
  <2>3. takes[s][i] \in BOOLEAN /\ h[i - 1][s] \in SinkState
    BY <1>3, <2>1
  <2>4. q[i].block \in Block /\ q[i].block.gen \in W
    BY <1>1, <2>1, EntryFacts DEF Waiting
  <2>5. Announced(W, vid, D, top)
    OBVIOUS
  <2> HIDE DEF W
  <2>6. Fits(f, Deliver(h[i - 1][s], q[i].block, takes[s][i], head), vid, W, D, top)
    BY <2>1, <2>3, <2>4, <2>5, DeliverFits, Zenon
  <2> QED
    BY <2>2, <2>6, Zenon
<1>6. n \in T
  <2> HIDE DEF T
  <2>1. 0 .. n \subseteq T
    BY <1>1, <1>4, <1>5, UpTo
  <2> QED
    BY <1>1, <2>1
<1>7. h[n] \in [Sink -> SinkState]
  BY <1>1, <1>3
<1> QED
  BY <1>3, <1>6, <1>7

LEMMA RestWaiting ==
  ASSUME NEW r, NEW q, NEW n, Rest(r, q, n)
  PROVE  Waiting(r) \subseteq Waiting(q)
  BY DEF Rest, Waiting

LEMMA PumpFits ==
  ASSUME ChainAssumption, now \in Nat, NEW f, NEW m \in MergerState,
         NEW vid \in Gen \cup {NoGen}, NEW sk \in [Sink -> SinkState], NEW D, NEW top,
         Announced(Waiting(m.queue), vid, D, top),
         \A s \in Sink : Fits(f, sk[s], vid, Waiting(m.queue), D, top),
         Pump(m, vid, sk)
  PROVE  /\ video' = vid
         /\ Announced(Waiting(merger'.queue), vid, D, top)
         /\ \A s \in Sink : Fits(f, sinks'[s], vid, Waiting(merger'.queue), D, top)
<1> DEFINE q == m.queue
           n == Ready(m)
           r == SubSeq(q, n + 1, Len(q))
           head == HeadFor(vid)
<1>1. q \in Seq(Entry) /\ n \in 0 .. Len(q)
  BY ReadyFacts DEF MergerState
<1>2. head \in HeadState /\ head.video = vid
  BY DEF HeadFor, HeadState
<1>3. /\ merger' = [m EXCEPT !.queue = r] /\ video' = vid
      /\ IF vid = NoGen THEN sinks' = sk
         ELSE \E takes \in [Sink -> [1 .. n -> BOOLEAN]] :
                sinks' = AfterPump(q, n, head, sk, takes)
  BY DEF Pump
<1> HIDE DEF n, head
<1>4. Rest(r, q, n)
  BY <1>1, RestFacts
<1>5. merger'.queue = r
  BY <1>3 DEF MergerState
<1> HIDE DEF r
<1>6. Waiting(merger'.queue) \subseteq Waiting(q)
  BY <1>4, <1>5, RestWaiting
<1>7. Announced(Waiting(merger'.queue), vid, D, top) /\ top \in Nat
  BY <1>6 DEF Announced
<1>8. /\ sinks' \in [Sink -> SinkState]
      /\ \A s \in Sink : Fits(f, sinks'[s], vid, Waiting(q), D, top)
  <2>1. CASE vid = NoGen
    BY <1>3, <2>1
  <2>2. CASE vid # NoGen
    <3>1. PICK takes \in [Sink -> [1 .. n -> BOOLEAN]] :
            sinks' = AfterPump(q, n, head, sk, takes)
      BY <1>3, <2>2
    <3> QED
      BY <1>1, <1>2, <2>2, <3>1, AfterPumpFits
  <2> QED
    BY <2>1, <2>2
<1>9. ASSUME NEW s \in Sink
      PROVE  Fits(f, sinks'[s], vid, Waiting(merger'.queue), D, top)
  <2>1. sinks'[s] \in SinkState /\ Fits(f, sinks'[s], vid, Waiting(q), D, top)
    BY <1>8
  <2>2. top <= top /\ D \subseteq D
    BY <1>7
  <2> QED
    BY <1>6, <1>7, <2>1, <2>2, FitsLess
<1> QED
  BY <1>3, <1>7, <1>9

\* What waits after blocks were pushed.
LEMMA PushWaiting ==
  ASSUME NEW m \in Tidy, NEW b \in Block, NEW t \in Nat
  PROVE  /\ Push(m, b, t) \in Tidy
         /\ Waiting(Push(m, b, t).queue) \subseteq Waiting(m.queue) \cup {b.gen}
<1> DEFINE q == m.queue
           r == Push(m, b, t).queue
           e == [block |-> b, at |-> t]
           p == Place(q, b)
<1>1. m \in MergerState /\ Sorted(q) /\ q \in Seq(Entry) /\ e \in Entry
  BY DEF Tidy, MergerState, Entry
<1>2. Push(m, b, t) \in MergerState /\ Inserted(r, q, p, e) /\ Sorted(r)
  BY <1>1, PushInserts
<1> HIDE DEF r, p
<1>3. Spread(r, q, p, e)
  BY <1>1, <1>2, WhereFrom
<1>4. Waiting(r) \subseteq Waiting(q) \cup {b.gen}
  <2> SUFFICES ASSUME NEW i \in DOMAIN r
               PROVE  r[i].block.gen \in Waiting(q) \cup {b.gen}
    BY DEF Waiting
  <2>1. \/ i \in DOMAIN q /\ r[i] = q[i]
        \/ r[i] = e
        \/ i - 1 \in DOMAIN q /\ r[i] = q[i - 1]
    BY <1>3 DEF Spread
  <2>2. \A j \in DOMAIN q : q[j].block.gen \in Waiting(q)
    BY DEF Waiting
  <2> HIDE DEF q
  <2> QED
    BY <2>1, <2>2
<1> QED
  BY <1>2, <1>4 DEF Tidy, r

LEMMA PushAllWaiting ==
  ASSUME NEW m \in Tidy, NEW bs \in Seq(Block), NEW t \in Nat, NEW G,
         \A i \in 1 .. Len(bs) : bs[i].gen \in G
  PROVE  /\ PushAll(m, bs, t) \in Tidy
         /\ Waiting(PushAll(m, bs, t).queue) \subseteq Waiting(m.queue) \cup G
<1> DEFINE n == Len(bs)
<1>1. n \in Nat /\ \A i \in 1 .. n : bs[i] \in Block
  BY LenProperties, ElementOfSeq
<1>2. PICK h \in Pushes(m, bs, t) : TRUE
  BY PushAllSteps
<1>3. /\ h \in [0 .. n -> Tidy] /\ h[0] = m
      /\ \A i \in 1 .. n : h[i] = Push(h[i - 1], bs[i], t)
      /\ PushAll(m, bs, t) = h[n]
  BY <1>2 DEF Pushes
<1> DEFINE T == {i \in 0 .. n : Waiting(h[i].queue) \subseteq Waiting(m.queue) \cup G}
<1>4. 0 \in T
  BY <1>1, <1>3
<1>5. ASSUME NEW i \in 1 .. n, i - 1 \in T
      PROVE  i \in T
  <2>1. i - 1 \in 0 .. n /\ h[i - 1] \in Tidy /\ bs[i] \in Block
    BY <1>1, <1>3
  <2>2. Waiting(h[i].queue) \subseteq Waiting(h[i - 1].queue) \cup {bs[i].gen}
    BY <1>3, <2>1, PushWaiting
  <2> QED
    BY <1>1, <1>5, <2>2
<1>6. n \in T
  <2> HIDE DEF T, n
  <2>1. 0 .. n \subseteq T
    BY <1>1, <1>4, <1>5, UpTo
  <2> QED
    BY <1>1, <2>1
<1>7. h[n] \in Tidy
  BY <1>1, <1>3
<1> QED
  BY <1>3, <1>6, <1>7
-----------------------------------------------------------------------------
(* The roles and the whole invariant.                                      *)

Top(r, n) == IF r.active # NoGen THEN r.active ELSE n

\* Of the n generations begun the newest is the one that waits, and none that is
\* in use was handed back.
Ranked(r, n) ==
  /\ r.active <= n /\ r.retired \subseteq 1 .. n
  /\ r.active # NoGen => r.active \notin r.retired
  /\ r.pending # NoGen =>
       r.pending = n /\ r.pending \notin r.retired /\ r.active \notin {NoGen, r.pending}

\* The generation on air is in self.video unless it went on air without a cut.
Shown(g, vid, D) == g # NoGen => g = vid \/ g \in D

FitInv ==
  /\ Ranked(roles, begun) /\ Shown(roles.active, video, direct)
  /\ Announced(Waiting(merger.queue), video, direct, Top(roles, begun))
  /\ \A s \in Sink :
       Fits(format, sinks[s], video, Waiting(merger.queue), direct, Top(roles, begun))

LEMMA FitFacts ==
  ASSUME ChainAssumption, ChainInv, FitInv
  PROVE  /\ TypeOK /\ now \in Nat /\ begun \in Nat /\ NoGen = 0 /\ NoGen \notin Gen
         /\ roles.active \in Gen \cup {NoGen} /\ roles.pending \in Gen \cup {NoGen}
         /\ roles.active \in Nat /\ roles.pending \in Nat /\ video \in Gen \cup {NoGen}
         /\ video \in Nat
         /\ Top(roles, begun) \in Nat /\ roles.active <= Top(roles, begun)
         /\ merger \in Tidy /\ \A s \in Sink : sinks[s] \in SinkState
<1>1. TypeOK /\ begun \in Nat /\ now \in Nat /\ headers \subseteq Gen /\ NoGen \notin Gen
  BY GenFacts DEF ChainInv
<1>2. roles.active \in Gen \cup {NoGen} /\ roles.pending \in Gen \cup {NoGen}
  BY <1>1, GenFacts
<1>3. video \in Gen \cup {NoGen} /\ \A s \in Sink : sinks[s] \in SinkState
  BY <1>1 DEF TypeOK
<1>4. merger \in Tidy
  BY DEF ChainInv, Streams, QInv, Tidy
<1>5. roles.active \in Nat /\ roles.pending \in Nat /\ video \in Nat /\ NoGen = 0
  BY <1>2, <1>3, GenNat
<1> QED
  BY <1>1, <1>2, <1>3, <1>4, <1>5 DEF FitInv, Ranked, Top

LEMMA AfterSwitchFits ==
  ASSUME ChainAssumption, ChainInv, FitInv, NEW r \in Switch!Roles, NEW bs, Run(bs, sent, now),
         AfterSwitch(r, bs),
         Ranked(r, begun), Top(roles, begun) <= Top(r, begun),
         r.active = NoGen \/ r.active = roles.active \/ Adopts(r),
         \A i \in 1 .. Len(bs) : bs[i].gen \in {roles.active, r.active}
  PROVE  FitInv'
<1> DEFINE vid  == IF Adopts(r) THEN r.active ELSE video
           sk   == [n \in Sink |-> IF Adopts(r) THEN Adopt(sinks[n], video, r.active) ELSE sinks[n]]
           m    == PushAll(merger, bs, now)
           W    == Waiting(merger.queue)
           V    == (W \cup {roles.active}) \cup {r.active}
           top  == Top(roles, begun)
           high == Top(r, begun)
<1>1. /\ roles' = r /\ Pump(m, vid, sk)
      /\ UNCHANGED <<begun, direct, now, format, headers, tracks>>
  BY DEF AfterSwitch
<1>2. /\ now \in Nat /\ begun \in Nat /\ NoGen = 0 /\ NoGen \notin Gen
      /\ roles.active \in Gen \cup {NoGen} /\ video \in Gen \cup {NoGen}
      /\ roles.active \in Nat /\ video \in Nat /\ top \in Nat /\ roles.active <= top
      /\ merger \in Tidy /\ \A s \in Sink : sinks[s] \in SinkState
  BY FitFacts
<1>3. /\ r.active \in Gen \cup {NoGen} /\ r.active \in Nat /\ r.active <= high /\ high \in Nat
      /\ r.active # NoGen => high = r.active
  <2>1. r.active \in Gen \cup {NoGen}
    BY DEF Switch!Roles, Gen, NoGen
  <2>2. r.active \in Nat
    BY <2>1, GenNat
  <2>3. r.active <= begun
    BY DEF Ranked
  <2> QED
    BY <1>2, <2>1, <2>2, <2>3 DEF Top
<1>4. /\ Shown(roles.active, video, direct) /\ Announced(W, video, direct, top)
      /\ \A s \in Sink : Fits(format, sinks[s], video, W, direct, top)
      /\ top <= high
  BY DEF FitInv
<1>5. /\ W \subseteq Gen \cup {NoGen} /\ W \subseteq Nat
      /\ \A g \in W : g <= top /\ (g \in direct \/ g <= video)
  BY <1>4, GenNat DEF Announced
<1>6. Adopts(r) => r.active \in Gen /\ r.active # NoGen /\ vid = high
  <2>1. Adopts(r) => r.active \in headers
    BY DEF Adopts
  <2>2. headers \subseteq Gen
    BY FitFacts, GenFacts
  <2> QED
    BY <1>2, <1>3, <2>1, <2>2
<1>7. vid \in Gen \cup {NoGen} /\ vid \in Nat
  BY <1>2, <1>3
<1>8. Shown(r.active, vid, direct)
  BY <1>4, <1>6 DEF Shown
<1>9. Announced(V, vid, direct, high)
  <2>1. ASSUME NEW g \in W PROVE g <= high /\ (g \in direct \/ g <= vid)
    BY <1>2, <1>3, <1>4, <1>5, <1>6
  <2>2. roles.active <= high /\ (roles.active \in direct \/ roles.active <= vid)
    BY <1>2, <1>3, <1>4, <1>6, <1>7 DEF Shown
  <2>3. r.active <= high /\ (r.active \in direct \/ r.active <= vid)
    BY <1>2, <1>3, <1>7, <1>8 DEF Shown
  <2> HIDE DEF W, vid, high
  <2> QED
    BY <1>2, <1>3, <1>5, <1>7, <2>1, <2>2, <2>3 DEF Announced
<1>10. ASSUME NEW s \in Sink
       PROVE  sk[s] \in SinkState /\ Fits(format, sk[s], vid, V, direct, high)
  <2> DEFINE U == W \cup {roles.active}
  <2>1. sinks[s] \in SinkState /\ Fits(format, sinks[s], video, W, direct, top)
    BY <1>2, <1>4
  <2>2. Fits(format, sinks[s], video, U, direct, top)
    BY <1>4, <2>1, FitsMore DEF Shown
  <2>3. \A h \in U : h \in Nat /\ h <= high
    BY <1>2, <1>3, <1>4, <1>5
  <2> HIDE DEF U, W, top, high
  <2>4. Fits(format, sinks[s], video, U, direct, high)
    BY <1>2, <1>3, <1>4, <2>1, <2>2, FitsLess
  <2>5. sk[s] \in SinkState /\ Fits(format, sk[s], vid, U, direct, high)
    <3>1. CASE Adopts(r)
      <4>1. /\ r.active \in Gen /\ high = r.active /\ vid = r.active
            /\ sk[s] = Adopt(sinks[s], video, r.active)
        BY <1>3, <1>6, <3>1
      <4>2. high <= r.active
        BY <1>3, <4>1
      <4> HIDE DEF sk, vid
      <4> QED
        BY <1>3, <2>1, <2>3, <2>4, <4>1, <4>2, AdoptFits
    <3>2. CASE ~ Adopts(r)
      BY <2>1, <2>4, <3>2
    <3> QED
      BY <3>1, <3>2
  <2> HIDE DEF sk, vid
  <2> QED
    BY <1>8, <2>5, FitsMore DEF U, Shown
<1> HIDE DEF sk, vid
<1>11. m \in Tidy /\ Waiting(m.queue) \subseteq V
  <2>1. bs \in Seq(Block) /\ \A i \in 1 .. Len(bs) : bs[i].gen \in {roles.active, r.active}
    BY DEF Run
  <2>2. m \in Tidy /\ Waiting(m.queue) \subseteq W \cup {roles.active, r.active}
    BY <1>2, <2>1, PushAllWaiting
  <2> QED
    BY <2>2
<1> HIDE DEF m, V, W, top, high
<1>12. Announced(Waiting(m.queue), vid, direct, high)
  BY <1>9, <1>11 DEF Announced
<1>13. ASSUME NEW s \in Sink
       PROVE  Fits(format, sk[s], vid, Waiting(m.queue), direct, high)
  <2>1. high <= high /\ direct \subseteq direct
    BY <1>3
  <2> QED
    BY <1>3, <1>10, <1>11, <2>1, FitsLess
<1>14. sk \in [Sink -> SinkState]
  BY <1>10 DEF sk
<1>15. /\ video' = vid
       /\ Announced(Waiting(merger'.queue), vid, direct, high)
       /\ \A s \in Sink : Fits(format, sinks'[s], vid, Waiting(merger'.queue), direct, high)
  BY <1>1, <1>2, <1>7, <1>11, <1>12, <1>13, <1>14, PumpFits DEF Tidy
<1>16. /\ Ranked(roles', begun') /\ Shown(roles'.active, video', direct')
       /\ Top(roles', begun') = high
  BY <1>1, <1>8, <1>15 DEF high
<1> QED
  BY <1>1, <1>15, <1>16 DEF FitInv

LEMMA InitFits ==
  ASSUME ChainAssumption, Init
  PROVE  FitInv
<1>1. /\ roles = Switch!NoRoles /\ begun = 0 /\ direct = {} /\ video = NoGen
      /\ merger.queue = <<>> /\ sinks = [s \in Sink |-> NotAttached]
  BY DEF Init
<1>2. roles.active = NoGen /\ roles.pending = NoGen /\ roles.retired = {} /\ NoGen = 0
  BY <1>1, GenNat DEF Switch!NoRoles, Switch!NoGen, NoGen
<1>3. Waiting(merger.queue) = {}
  BY <1>1 DEF Waiting
<1>4. Ranked(roles, begun) /\ Shown(roles.active, video, direct) /\ Top(roles, begun) = 0
  BY <1>1, <1>2 DEF Ranked, Shown, Top
<1>5. Announced(Waiting(merger.queue), video, direct, Top(roles, begun))
  BY <1>1, <1>3, <1>4 DEF Announced
<1>6. \A s \in Sink : ~ sinks[s].started /\ Has(sinks[s]) = {}
  BY <1>1, NotAttachedFacts DEF Has
<1> QED
  BY <1>4, <1>5, <1>6 DEF FitInv, Fits

LEMMA PicturesGen ==
  ASSUME now \in Nat, NEW n, NEW g, NEW T, Rising(T, now), NEW K
  PROVE  /\ Len(Pictures(n, g, T, K)) = Len(T)
         /\ \A i \in 1 .. Len(T) : Pictures(n, g, T, K)[i].gen = g
<1>1. Len(T) \in Nat /\ DOMAIN T = 1 .. Len(T)
  BY RisingFacts
<1>2. \A i \in 1 .. Len(T) : Pictures(n, g, T, K)[i] = Nth(n + i, "video", g, T[i], T[i] \in K)
  BY <1>1 DEF Pictures
<1>3. \A i \in 1 .. Len(T) : Nth(n + i, "video", g, T[i], T[i] \in K).gen = g
  BY DEF Nth
<1>4. DOMAIN Pictures(n, g, T, K) = 1 .. Len(T)
  BY <1>1 DEF Pictures
<1>5. Len(Pictures(n, g, T, K)) = Len(T)
  BY <1>1 DEF Pictures
<1> QED
  BY <1>2, <1>3, <1>5

LEMMA VideoBlockFits ==
  ASSUME ChainAssumption, ChainInv, FitInv, NEW ts \in Recent, NEW K, VideoBlock(ts, K)
  PROVE  FitInv'
<1> DEFINE bs == Pictures(sent["video"].n, roles.active, <<ts>>, K)
<1>1. TypeOK /\ now \in Nat /\ roles \in Switch!Roles /\ Top(roles, begun) \in Nat
  BY FitFacts DEF TypeOK
<1>2. Rising(<<ts>>, now)
  BY <1>1 DEF Rising, Recent
<1>3. Run(bs, sent, now)
  BY <1>1, <1>2, MayFollowRuns DEF VideoBlock
<1>4. \A i \in 1 .. Len(bs) : bs[i].gen \in {roles.active, roles.active}
  BY <1>1, <1>2, PicturesGen
<1>5. AfterSwitch(roles, bs) /\ Ranked(roles, begun)
  BY DEF VideoBlock, FitInv
<1>6. Top(roles, begun) <= Top(roles, begun)
  BY <1>1
<1> HIDE DEF bs
<1> QED
  BY <1>1, <1>3, <1>4, <1>5, <1>6, AfterSwitchFits

LEMMA CutFits ==
  ASSUME ChainAssumption, ChainInv, FitInv, NEW old \in Stamps, NEW new \in Stamps, NEW K,
         Cut(old, K, new)
  PROVE  FitInv'
<1> DEFINE n  == sent["video"].n
           a  == roles.active
           p  == roles.pending
           r  == Switch!Completed(roles)
           b1 == Pictures(n, a, old, K)
           b2 == Pictures(n + Len(old), p, new, K)
<1>1. /\ TypeOK /\ now \in Nat /\ begun \in Nat /\ roles \in Switch!Roles
      /\ NoGen \notin Gen /\ NoGen = 0 /\ headers \subseteq Gen
      /\ a \in Nat /\ Ranked(roles, begun)
  BY FitFacts, GenFacts DEF TypeOK, FitInv
<1>2. p \in headers /\ p \in Gen /\ p # NoGen /\ AfterSwitch(r, b1 \o b2)
  BY <1>1 DEF Cut
<1>3. p = begun /\ p \notin roles.retired /\ a # NoGen /\ a # p
      /\ a \notin roles.retired /\ a <= begun /\ roles.retired \subseteq 1 .. begun
  BY <1>1, <1>2 DEF Ranked
<1>4. /\ r \in Switch!Roles /\ r.active = p /\ r.pending = NoGen
      /\ r.retired = roles.retired \cup {a}
  BY <1>1, <1>3 DEF Switch!Completed, Switch!Roles, Switch!NoGen, NoGen
<1>5. Run(b1 \o b2, sent, now)
  BY CutRuns
<1>6. \A i \in 1 .. Len(b1 \o b2) : (b1 \o b2)[i].gen \in {a, p}
  <2>1. Rising(old, now) /\ Rising(new, now)
    BY <1>1, StampsRise
  <2>2. /\ \A i \in 1 .. Len(b1) : b1[i].gen = a
        /\ \A i \in 1 .. Len(b2) : b2[i].gen = p
        /\ b1 \in Seq(Block) /\ b2 \in Seq(Block)
    BY <1>1, <2>1, PicturesGen, CutRuns DEF Run
  <2> HIDE DEF b1, b2, a, p
  <2>3. /\ Len(b1) \in Nat /\ Len(b2) \in Nat /\ Len(b1 \o b2) = Len(b1) + Len(b2)
        /\ \A i \in 1 .. Len(b1) : (b1 \o b2)[i] = b1[i]
        /\ \A i \in 1 .. Len(b2) : (b1 \o b2)[Len(b1) + i] = b2[i]
    BY <2>2, ConcatFacts
  <2>4. ASSUME NEW i \in 1 .. Len(b1) + Len(b2) PROVE (b1 \o b2)[i].gen \in {a, p}
    <3>1. CASE i \in 1 .. Len(b1)
      BY <2>2, <2>3, <3>1
    <3>2. CASE i \notin 1 .. Len(b1)
      <4>1. PICK k : k = i - Len(b1)
        OBVIOUS
      <4>2. k \in 1 .. Len(b2) /\ Len(b1) + k = i
        BY <2>3, <3>2, <4>1
      <4> QED
        BY <2>2, <2>3, <4>2
    <3> QED
      BY <3>1, <3>2
  <2> QED
    BY <2>3, <2>4
<1>7. Ranked(r, begun)
  <2>1. p \in 1 .. begun /\ a \in 1 .. begun
    BY <1>1, <1>2, <1>3
  <2> HIDE DEF r
  <2> QED
    BY <1>1, <1>3, <1>4, <2>1 DEF Ranked
<1>8. Top(roles, begun) <= Top(r, begun)
  BY <1>1, <1>2, <1>3, <1>4 DEF Top
<1>9. Adopts(r)
  BY <1>2, <1>3, <1>4 DEF Adopts
<1> HIDE DEF r, b1, b2
<1> QED
  BY <1>2, <1>4, <1>5, <1>6, <1>7, <1>8, <1>9, AfterSwitchFits

LEMMA GiveUpFits ==
  ASSUME ChainAssumption, ChainInv, FitInv, NEW held \in Stamps, NEW K, GiveUp(held, K)
  PROVE  FitInv'
<1> DEFINE bs == Pictures(sent["video"].n, roles.active, held, K)
           r  == Switch!GivenUp(roles)
<1>1. /\ TypeOK /\ now \in Nat /\ begun \in Nat /\ roles \in Switch!Roles
      /\ Top(roles, begun) \in Nat /\ Ranked(roles, begun)
      /\ roles.pending \in Gen /\ roles.pending # NoGen /\ roles.pending \in Nat
      /\ NoGen = 0
  BY FitFacts DEF TypeOK, FitInv, GiveUp
<1>2. Rising(held, now)
  BY <1>1, StampsRise
<1>3. Run(bs, sent, now)
  BY <1>1, <1>2, MayFollowRuns DEF GiveUp
<1>4. \A i \in 1 .. Len(bs) : bs[i].gen = roles.active
  BY <1>1, <1>2, PicturesGen
<1>5. AfterSwitch(r, bs)
  BY DEF GiveUp
<1>6. /\ r \in Switch!Roles /\ r.active = roles.active /\ r.pending = NoGen
      /\ r.retired = roles.retired \cup {roles.pending}
  BY <1>1 DEF Switch!GivenUp, Switch!Roles, Gen, Switch!NoGen, NoGen
<1>7. Ranked(r, begun) /\ Top(r, begun) = Top(roles, begun)
  <2>1. /\ roles.pending \in 1 .. begun /\ roles.active # roles.pending
        /\ roles.active # NoGen
    BY <1>1 DEF Ranked
  <2> HIDE DEF r
  <2> QED
    BY <1>1, <1>6, <2>1 DEF Ranked, Top
<1>8. Top(roles, begun) <= Top(r, begun)
  BY <1>1, <1>7
<1> HIDE DEF bs, r
<1> QED
  BY <1>3, <1>4, <1>5, <1>6, <1>7, <1>8, AfterSwitchFits

LEMMA LoseFits ==
  ASSUME ChainAssumption, ChainInv, FitInv, Lose
  PROVE  FitInv'
<1> DEFINE r == Switch!Lost(roles)
<1>1. /\ roles \in Switch!Roles /\ begun \in Nat /\ roles.active \in Nat
      /\ Ranked(roles, begun) /\ roles.pending = NoGen /\ roles.active # NoGen
  BY FitFacts DEF TypeOK, FitInv, Lose
<1>2. /\ r \in Switch!Roles /\ r.active = NoGen /\ r.pending = NoGen
      /\ r.retired = roles.retired /\ AfterSwitch(r, <<>>) /\ NoGen = 0
  BY <1>1, GenNat DEF Switch!Lost, Switch!Roles, Switch!NoGen, NoGen, Lose
<1> HIDE DEF r
<1>3. Ranked(r, begun) /\ Top(roles, begun) <= Top(r, begun)
  BY <1>1, <1>2 DEF Ranked, Top
<1>4. Len(<<>>) = 0
  OBVIOUS
<1> QED
  BY <1>2, <1>3, <1>4, EmptyRun, AfterSwitchFits

LEMMA IdleFits ==
  ASSUME ChainAssumption, ChainInv, FitInv, Idle
  PROVE  FitInv'
<1>1. /\ roles \in Switch!Roles /\ Ranked(roles, begun) /\ AfterSwitch(roles, <<>>)
      /\ Top(roles, begun) \in Nat
  BY FitFacts DEF TypeOK, FitInv, Idle
<1>2. Top(roles, begun) <= Top(roles, begun)
  BY <1>1
<1>3. Len(<<>>) = 0
  OBVIOUS
<1> QED
  BY <1>1, <1>2, <1>3, EmptyRun, AfterSwitchFits

LEMMA SoundFits ==
  ASSUME ChainAssumption, ChainInv, FitInv, NEW b \in Block, b.gen = NoGen,
         Pump(Push(merger, b, now), video, sinks),
         UNCHANGED <<roles, begun, now, format, headers, tracks, direct>>
  PROVE  FitInv'
<1> DEFINE m == Push(merger, b, now)
           W == Waiting(merger.queue)
           top == Top(roles, begun)
<1>1. /\ now \in Nat /\ merger \in Tidy /\ \A s \in Sink : sinks[s] \in SinkState
      /\ video \in Gen \cup {NoGen} /\ video \in Nat /\ top \in Nat /\ NoGen = 0 /\ TypeOK
  BY FitFacts
<1>2. /\ Ranked(roles, begun) /\ Shown(roles.active, video, direct)
      /\ Announced(W, video, direct, top)
      /\ \A s \in Sink : Fits(format, sinks[s], video, W, direct, top)
  BY DEF FitInv
<1>3. m \in Tidy /\ Waiting(m.queue) \subseteq W \cup {NoGen}
  BY <1>1, PushWaiting
<1> HIDE DEF m, W, top
<1>4. Announced(Waiting(m.queue), video, direct, top)
  <2>1. NoGen <= top /\ NoGen <= video
    BY <1>1
  <2>2. /\ W \subseteq Gen \cup {NoGen} /\ video \in Gen \cup {NoGen} /\ top \in Nat
        /\ \A g \in W : g <= top /\ (g \in direct \/ g <= video)
    BY <1>2 DEF Announced
  <2> QED
    BY <1>3, <2>1, <2>2 DEF Announced
<1>5. ASSUME NEW s \in Sink
      PROVE  Fits(format, sinks[s], video, Waiting(m.queue), direct, top)
  <2>1. Fits(format, sinks[s], video, W \cup {NoGen}, direct, top)
    BY <1>1, <1>2, FitsMore
  <2>2. top <= top /\ direct \subseteq direct
    BY <1>1
  <2> QED
    BY <1>1, <1>3, <2>1, <2>2, FitsLess
<1>6. sinks \in [Sink -> SinkState]
  BY <1>1 DEF TypeOK
<1>7. /\ video' = video
      /\ Announced(Waiting(merger'.queue), video, direct, top)
      /\ \A s \in Sink : Fits(format, sinks'[s], video, Waiting(merger'.queue), direct, top)
  BY <1>1, <1>3, <1>4, <1>5, <1>6, PumpFits DEF Tidy, m
<1>8. /\ Ranked(roles', begun') /\ Shown(roles'.active, video', direct')
      /\ Top(roles', begun') = top
  BY <1>2, <1>7 DEF top
<1> QED
  BY <1>7, <1>8 DEF FitInv

LEMMA SoundActionFits ==
  ASSUME ChainAssumption, ChainInv, FitInv, NEW ts \in Recent,
         AudioBlock(ts) \/ RawBlock(ts)
  PROVE  FitInv'
<1>1. /\ TypeOK /\ now \in Nat /\ sent \in SentState /\ "audio" \in Track /\ "raw" \in Track
  BY GenFacts DEF ChainInv, Track, Live
<1>2. sent["audio"].n + 1 \in Nat /\ sent["raw"].n + 1 \in Nat /\ ts \in Nat
  BY <1>1 DEF SentState, Recent
<1>3. ASSUME NEW t \in {"audio", "raw"}
      PROVE  /\ Nth(sent[t].n + 1, t, NoGen, ts, FALSE) \in Block
             /\ Nth(sent[t].n + 1, t, NoGen, ts, FALSE).gen = NoGen
  BY <1>1, <1>2 DEF Nth, Block
<1>4. CASE AudioBlock(ts)
  BY <1>3, <1>4, SoundFits DEF AudioBlock
<1>5. CASE RawBlock(ts)
  BY <1>3, <1>5, SoundFits DEF RawBlock
<1> QED
  BY <1>4, <1>5

LEMMA BeginFits ==
  ASSUME ChainAssumption, ChainInv, FitInv, NEW g \in Gen, Begin(g)
  PROVE  FitInv'
<1> DEFINE W == Waiting(merger.queue)
           top == Top(roles, begun)
           r == Switch!Begun(roles, g)
<1>1. /\ TypeOK /\ begun \in Nat /\ NoGen = 0 /\ NoGen \notin Gen /\ roles \in Switch!Roles
      /\ roles.active \in Nat /\ roles.pending \in Nat /\ top \in Nat
      /\ \A s \in Sink : sinks[s] \in SinkState
  BY FitFacts DEF TypeOK
<1>2. /\ Ranked(roles, begun) /\ Shown(roles.active, video, direct)
      /\ Announced(W, video, direct, top)
      /\ \A s \in Sink : Fits(format, sinks[s], video, W, direct, top)
  BY DEF FitInv
<1>3. /\ g = begun + 1 /\ (roles.active = NoGen \/ roles.pending = NoGen)
      /\ begun' = g /\ roles' = r
      /\ direct' = IF roles.active = NoGen THEN direct \cup {g} ELSE direct
      /\ UNCHANGED <<format, video, merger, sinks>>
  BY DEF Begin, Switch!CanBegin, Switch!NoGen, NoGen
<1>4. /\ roles.active <= begun /\ roles.retired \subseteq 1 .. begun
      /\ roles.active # NoGen => roles.active \notin roles.retired
      /\ roles.pending # NoGen => roles.active # NoGen
      /\ g \notin roles.retired /\ g # roles.active /\ g # NoGen
      /\ roles.retired \subseteq 1 .. g
  BY <1>1, <1>2, <1>3 DEF Ranked
<1>5. roles.pending = NoGen
  BY <1>3, <1>4
<1>6. /\ r.retired = roles.retired
      /\ roles.active = NoGen => r.active = g /\ r.pending = NoGen
      /\ roles.active # NoGen => r.active = roles.active /\ r.pending = g
  BY <1>1, <1>5 DEF Switch!Begun, Switch!Roles, Switch!NoGen, NoGen
<1> HIDE DEF r
<1>7. Ranked(r, g) /\ Top(r, g) \in Nat /\ top <= Top(r, g)
  BY <1>1, <1>3, <1>4, <1>6 DEF Ranked, Top
<1>8. Shown(r.active, video, direct') /\ direct \subseteq direct'
  BY <1>2, <1>3, <1>6 DEF Shown
<1> HIDE DEF W, top
<1>9. Announced(W, video, direct', Top(r, g))
  <2>1. /\ W \subseteq Gen \cup {NoGen} /\ video \in Gen \cup {NoGen}
        /\ \A h \in W : h <= top /\ (h \in direct \/ h <= video)
    BY <1>2 DEF Announced
  <2>2. W \subseteq Nat
    BY <2>1, GenNat
  <2>3. \A h \in W : h <= Top(r, g)
    BY <1>1, <1>7, <2>1, <2>2
  <2> QED
    BY <1>7, <1>8, <2>1, <2>3 DEF Announced
<1>10. \A s \in Sink : Fits(format, sinks[s], video, W, direct', Top(r, g))
  BY <1>1, <1>2, <1>7, <1>8, FitsLess
<1> QED
  BY <1>3, <1>7, <1>8, <1>9, <1>10 DEF FitInv, W

LEMMA HeaderFits ==
  ASSUME ChainAssumption, ChainInv, FitInv, NEW g \in Gen, Header(g)
  PROVE  FitInv'
<1> DEFINE W == Waiting(merger.queue)
           top == Top(roles, begun)
<1>1. NoGen = 0 /\ NoGen \notin Gen /\ g \in Nat
  BY FitFacts, GenNat
<1>2. /\ Ranked(roles, begun) /\ Shown(roles.active, video, direct)
      /\ Announced(W, video, direct, top)
      /\ \A s \in Sink : Fits(format, sinks[s], video, W, direct, top)
  BY DEF FitInv
<1>3. /\ video' = IF video = NoGen THEN g ELSE video
      /\ UNCHANGED <<roles, begun, format, merger, sinks, direct>>
  BY DEF Header
<1> HIDE DEF W, top
<1>4. CASE video # NoGen
  BY <1>2, <1>3, <1>4 DEF FitInv, W, top
<1>5. CASE video = NoGen
  <2>1. video' = g
    BY <1>3, <1>5
  <2>2. Shown(roles.active, g, direct)
    BY <1>2, <1>5 DEF Shown
  <2>3. Announced(W, g, direct, top)
    <3>1. /\ W \subseteq Gen \cup {NoGen} /\ top \in Nat
          /\ \A h \in W : h <= top /\ (h \in direct \/ h <= video)
      BY <1>2 DEF Announced
    <3>2. W \subseteq Nat
      BY <3>1, GenNat
    <3>3. \A h \in W : h <= video => h <= g
      BY <1>1, <1>5, <3>2
    <3> QED
      BY <3>1, <3>3 DEF Announced
  <2>4. \A s \in Sink : Fits(format, sinks[s], g, W, direct, top)
    BY <1>2, <1>5 DEF Fits
  <2> QED
    BY <1>2, <1>3, <2>1, <2>2, <2>3, <2>4 DEF FitInv, W, top
<1> QED
  BY <1>4, <1>5

\* Nothing new waits, and a sink is as it was or has nothing.
LEMMA QuietFits ==
  ASSUME FitInv, UNCHANGED <<roles, begun, format, video, direct>>,
         merger'.queue = merger.queue,
         \A s \in Sink : sinks'[s] = sinks[s] \/ (~ sinks'[s].started /\ sinks'[s].got = <<>>)
  PROVE  FitInv'
<1> DEFINE W == Waiting(merger.queue)
           top == Top(roles, begun)
<1>1. Waiting(merger'.queue) = W /\ Top(roles', begun') = top
  OBVIOUS
<1>2. /\ Ranked(roles, begun) /\ Shown(roles.active, video, direct)
      /\ Announced(W, video, direct, top)
      /\ \A s \in Sink : Fits(format, sinks[s], video, W, direct, top)
  BY DEF FitInv
<1> HIDE DEF W, top
<1>3. ASSUME NEW s \in Sink PROVE Fits(format, sinks'[s], video, W, direct, top)
  <2>1. CASE sinks'[s] = sinks[s]
    BY <1>2, <2>1
  <2>2. CASE ~ sinks'[s].started /\ sinks'[s].got = <<>>
    <3>1. Has(sinks'[s]) = {}
      BY <2>2 DEF Has
    <3> QED
      BY <2>2, <3>1 DEF Fits
  <2> QED
    BY <2>1, <2>2
<1> QED
  BY <1>1, <1>2, <1>3 DEF FitInv

LEMMA OthersFit ==
  ASSUME ChainAssumption, ChainInv, FitInv,
         \/ NoRaw \/ NoAudio \/ Pass \/ UNCHANGED vars
         \/ \E t \in {"audio", "raw"} : TrackKnown(t)
         \/ \E s \in Sink, kind \in Kind : Attach(s, kind)
         \/ \E S \in SUBSET Sink : Detach(S)
  PROVE  FitInv'
<1>1. merger \in MergerState /\ sinks \in [Sink -> SinkState]
  BY DEF ChainInv, TypeOK
<1>2. CASE NoRaw \/ Pass \/ UNCHANGED vars \/ \E t \in {"audio", "raw"} : TrackKnown(t)
  BY <1>2, QuietFits DEF NoRaw, Pass, vars, TrackKnown
<1>3. CASE NoAudio
  <2>1. merger'.queue = merger.queue
    BY <1>1, <1>3 DEF NoAudio, MergerState
  <2> QED
    BY <1>3, <2>1, QuietFits DEF NoAudio
<1>4. ASSUME NEW s \in Sink, NEW kind \in Kind, Attach(s, kind) PROVE FitInv'
  <2>1. ~ Attached(kind).started /\ Attached(kind).got = <<>>
    BY NotAttachedFacts
  <2> QED
    BY <1>1, <1>4, <2>1, QuietFits DEF Attach
<1>5. ASSUME NEW S \in SUBSET Sink, Detach(S) PROVE FitInv'
  BY <1>1, <1>5, NotAttachedFacts, QuietFits DEF Detach
<1> QED
  BY <1>2, <1>3, <1>4, <1>5

LEMMA NextFits ==
  ASSUME ChainAssumption, ChainInv, FitInv, [Next]_vars
  PROVE  FitInv'
<1>1. ASSUME NEW g \in Gen, Begin(g) \/ Header(g)
      PROVE  FitInv'
  BY <1>1, BeginFits, HeaderFits
<1>2. ASSUME NEW ts \in Recent, NEW K \in SUBSET {ts}, VideoBlock(ts, K)
      PROVE  FitInv'
  BY <1>2, VideoBlockFits
<1>3. ASSUME NEW old \in Stamps, NEW new \in Stamps, NEW K \in SUBSET Recent, Cut(old, K, new)
      PROVE  FitInv'
  BY <1>3, CutFits
<1>4. ASSUME NEW held \in Stamps, NEW K \in SUBSET Recent, GiveUp(held, K)
      PROVE  FitInv'
  BY <1>4, GiveUpFits
<1>5. ASSUME NEW ts \in Recent, AudioBlock(ts) \/ RawBlock(ts)
      PROVE  FitInv'
  BY <1>5, SoundActionFits
<1>6. ASSUME Lose \/ Idle PROVE FitInv'
  BY <1>6, LoseFits, IdleFits
<1>7. ASSUME \/ NoRaw \/ NoAudio \/ Pass \/ UNCHANGED vars
             \/ \E t \in {"audio", "raw"} : TrackKnown(t)
             \/ \E s \in Sink, kind \in Kind : Attach(s, kind)
             \/ \E S \in SUBSET Sink : Detach(S)
      PROVE  FitInv'
  BY <1>7, OthersFit
<1> QED
  BY <1>1, <1>2, <1>3, <1>4, <1>5, <1>6, <1>7 DEF Next
-----------------------------------------------------------------------------
\* After a cut no sink is given a picture that does not match the header or the
\* parameter sets it knows, over any number of cuts and of formats.
THEOREM CutsAreTold == Spec => []CutReachesSinks
<1>1. Init => FitInv
  BY ChainAssumption, InitFits
<1>2. ChainInv /\ FitInv /\ [Next]_vars => FitInv'
  BY ChainAssumption, NextFits
<1>3. ChainInv /\ FitInv => CutReachesSinks
  <2> SUFFICES ASSUME ChainInv, FitInv, NEW s \in Sink, NEW i \in DOMAIN sinks[s].got,
                      sinks[s].got[i].gen # NoGen, sinks[s].got[i].gen > sinks[s].told,
                      sinks[s].got[i].gen \notin direct
               PROVE  Matches(sinks[s], sinks[s].got[i].gen)
    BY DEF CutReachesSinks
  <2>1. sinks[s].got[i].gen \in Has(sinks[s])
    BY DEF Has
  <2>2. Alike(format, sinks[s], sinks[s].got[i].gen)
    BY <2>1 DEF FitInv, Fits
  <2> QED
    BY <2>2 DEF Matches, Inband, Alike
<1> QED
  BY <1>1, <1>2, <1>3, ChainInvariant, PTL DEF Spec
=============================================================================
