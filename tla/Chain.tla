-------------------------------- MODULE Chain --------------------------------
(***************************************************************************)
(* class Chain of stream/relay.py with its Merger: one codec's path from   *)
(* the encoders to the sinks.  Every method holds the chain's lock, so     *)
(* each is one action, from what the reader threads and the supervisor     *)
(* call down to what every sink is given.                                  *)
(*                                                                         *)
(* The TrackSwitch is seen through its interface: Handover says who is on  *)
(* air, and what it emits obeys CutAtKeyframe and InOrder of CutOver.      *)
(* What the bytes hold is left out: a header is the generation whose track *)
(* entry it carries, a cluster the blocks in it.                           *)
(***************************************************************************)
EXTENDS Integers, Sequences
Seqs == INSTANCE SequencesExt

CONSTANTS
  MaxGen,      \* generations the service may start
  Sink,        \* names of destinations
  Kind,        \* what they may be: "record", "whip", or "pipe" for those that
               \* go through an ffmpeg
  Size,        \* picture sizes (width, height and codec of a track entry)
  Params,      \* the rest of a track entry: the encoder's parameter sets
  MergeWait,   \* MERGE_WAIT_MS
  Late,        \* bound: how old a block may be when it is delivered
  MaxNow,      \* bound: the last instant of the stream's clock
  MaxBlocks    \* bound: blocks delivered in all

Live == {"video", "audio"}       \* the tracks the merger waits for
Track == Live \cup {"raw"}
Format == [size : Size, params : Params]

ASSUME ChainAssumption ==
  /\ MaxGen \in Nat /\ MergeWait \in Nat
  /\ Late \in Nat /\ MaxNow \in Nat /\ MaxBlocks \in Nat

VARIABLES
  roles,     \* self.switch: see Handover
  begun,     \* generations started so far (their ids are 1 .. begun)
  now,       \* the stream's clock
  format,    \* format[g]: the track entry generation g writes
  headers,   \* the generations in self.headers: their entry has been read
  video,     \* self.video: the generation whose entry new headers carry
  tracks,    \* "audio": the capture delivers sound; "raw": self.raw is known
  merger,    \* its queue (_heap, in the order of its entries) and, per live
             \* track, its mark (_watermark)
  sinks,     \* self._sinks
  sent,      \* sent[t]: how many blocks of track t were pushed, and the stamp
             \* and the generation of the last
  direct     \* history: generations that went on air without a cut

vars == <<roles, begun, now, format, headers, video, tracks, merger, sinks, sent, direct>>

Switch == INSTANCE Handover WITH spent <- 1 .. begun
Gen == Switch!Gen
NoGen == Switch!NoGen
Never == -1
Forever == MaxNow + 1     \* 2**62

\* The no-th block of a track; sound has no generation and no keyframes here.
Block == [track : Track, no : Nat, gen : Gen \cup {NoGen}, ts : Nat, key : BOOLEAN]
Nth(n, t, g, ts, key) == [track |-> t, no |-> n, gen |-> g, ts |-> ts, key |-> key]

\* In the merger, with the instant it came in.
Entry == [block : Block, at : Nat]

IsPicture(b) == b.track = "video"
IsKeyframe(b) == IsPicture(b) /\ b.key

\* A block as a sink's record keeps it.
Written(b) == [track |-> b.track, no |-> b.no, gen |-> b.gen, key |-> b.key]

\* `told` is the generation whose entry the sink knows: that of its header,
\* or the one on_track named since.  `got` is what it took since it was opened.
NotAttached ==
  [kind |-> "none", started |-> FALSE, rawDeclared |-> FALSE, told |-> NoGen, got |-> <<>>]
Attached(kind) == [NotAttached EXCEPT !.kind = kind]
Ended(s) == [NotAttached EXCEPT !.kind = s.kind]
Inband(s) == s.kind = "whip"         \* ~ restart_on_geometry
WantsRaw(s) == s.kind = "record"

\* What a sink's record may be, and the merger's.
SinkState ==
  [kind : Kind \cup {"none"}, started : BOOLEAN, rawDeclared : BOOLEAN,
   told : Gen \cup {NoGen},
   got : Seq([track : Track, no : Nat, gen : Gen \cup {NoGen}, key : BOOLEAN])]
MergerState == [queue : Seq(Entry), mark : [Live -> Nat \cup {Never}]]

Init ==
  /\ roles = Switch!NoRoles /\ begun = 0
  /\ now = 0
  /\ format \in [Gen -> Format]
  /\ headers = {} /\ video = NoGen /\ direct = {}
  /\ tracks \in SUBSET {"audio", "raw"}
  /\ merger = [queue |-> <<>>, mark |-> [t \in Live |-> Never]]
  /\ sinks = [s \in Sink |-> NotAttached]
  /\ sent = [t \in Track |-> [n |-> 0, gen |-> NoGen, ts |-> Never]]
-----------------------------------------------------------------------------
(* The merger, as operators from its state to the next one.                *)

\* Where the heap has a block: by stamp, then by arrival.
Place(q, b) ==
  CHOOSE p \in 1 .. Len(q) + 1 :
    /\ \A i \in 1 .. p - 1 : q[i].block.ts <= b.ts
    /\ \A i \in p .. Len(q) : b.ts < q[i].block.ts

\* push, at an instant of the clock.
Push(m, b, at) ==
  [queue |-> Seqs!InsertAt(m.queue, Place(m.queue, b), [block |-> b, at |-> at]),
   mark  |-> IF b.track \in Live /\ b.ts > m.mark[b.track]
             THEN [m.mark EXCEPT ![b.track] = b.ts] ELSE m.mark]

PushAll(m, bs, at) ==
  LET pushed[i \in 0 .. Len(bs)] == IF i = 0 THEN m ELSE Push(pushed[i - 1], bs[i], at)
  IN  pushed[Len(bs)]

Floor(m) == IF m.mark["video"] < m.mark["audio"] THEN m.mark["video"] ELSE m.mark["audio"]

\* Mutant: a block waits for the other stream however long it takes.
DueByMark(m, e) == e.block.ts <= Floor(m)

Due(m, e) == e.block.ts <= Floor(m) \/ now - e.at >= MergeWait

\* poll: how many entries leave from the front.
Ready(m) ==
  CHOOSE n \in 0 .. Len(m.queue) :
    /\ \A i \in 1 .. n : Due(m, m.queue[i])
    /\ n < Len(m.queue) => ~ Due(m, m.queue[n + 1])
-----------------------------------------------------------------------------
(* The sinks.                                                              *)

\* Mutant: a sink is opened at any picture.
StartsAnywhere(b) == IsPicture(b)

\* Where a sink may be opened: _pump cuts the blocks it polled in front of every
\* keyframe, so the first picture of a batch is a keyframe if its first block is.
Starts(b) == IsKeyframe(b)

\* write returned False: the sink is opened again at the next keyframe.
RefusedKeeps(s) == s     \* Mutant
Refused(s) == Ended(s)

\* _deliver, to one sink, block by block: one that is not started is opened first.
\* `takes` is the sink's answer, FALSE when open raises OSError or write returns
\* False, for any block of a batch: the others are not kept then, and none is
\* given before the next keyframe.  `head` is what a header written now says.
Deliver(s, b, takes, head) ==
  LET opens == ~ s.started /\ Starts(b)
      open  == IF opens
               THEN [s EXCEPT !.started = TRUE, !.told = head.video,
                              !.rawDeclared = WantsRaw(s) /\ head.raw]
               ELSE s
      given == s.kind # "none" /\ open.started /\ (b.track = "raw" => open.rawDeclared)
  IN  CASE given /\ takes -> [open EXCEPT !.got = Append(@, Written(b))]
        [] given /\ ~ takes /\ s.started -> Refused(s)
        [] OTHER -> s

\* Mutant: a sink is only told, none is closed.
AdoptTells(s, old, g) ==
  IF old # NoGen /\ format[g] # format[old] /\ Inband(s) /\ s.started
  THEN [s EXCEPT !.told = g] ELSE s

\* adopt_geometry, for one sink: one that takes a new picture in-band (WHIP)
\* is told of the new entry, any other is closed when the size changed.
Adopt(s, old, g) ==
  CASE old = NoGen \/ format[g] = format[old] -> s
    [] old # NoGen /\ format[g] # format[old] /\ Inband(s) ->
         IF s.started THEN [s EXCEPT !.told = g] ELSE s
    [] old # NoGen /\ format[g] # format[old] /\ ~ Inband(s) ->
         IF format[g].size # format[old].size THEN Ended(s) ELSE s

\* The sinks sk after a pump that gives them the first n of queue q; `takes` has
\* each sink's answers.
AfterPump(q, n, head, sk, takes) ==
  LET after[i \in 0 .. n] ==
        IF i = 0 THEN sk
        ELSE [s \in Sink |-> Deliver(after[i - 1][s], q[i].block, takes[s][i], head)]
  IN  after[n]

\* The header a sink is opened with: the track entry of vid, and the raw
\* microphone's when it is known.
HeadFor(vid) == [video |-> vid, raw |-> "raw" \in tracks]

\* _pump of merger m, after which self.video is vid and the sinks are sk.
Pump(m, vid, sk) ==
  LET n == Ready(m)
  IN  /\ merger' = [m EXCEPT !.queue = SubSeq(m.queue, n + 1, Len(m.queue))]
      /\ video' = vid
      /\ IF vid = NoGen THEN sinks' = sk
         ELSE \E takes \in [Sink -> [1 .. n -> BOOLEAN]] :
                sinks' = AfterPump(m.queue, n, HeadFor(vid), sk, takes)
-----------------------------------------------------------------------------
(* The switch.                                                             *)

Counted(bs) ==
  IF bs = <<>> THEN sent
  ELSE LET b == bs[Len(bs)]
       IN  [sent EXCEPT ![b.track] = [n |-> b.no, gen |-> b.gen, ts |-> b.ts]]

\* _on_retire of whom r hands back: adopt_geometry of the generation on air,
\* when there is one and its entry is known.
AdoptsUnchecked(r) ==     \* Mutant
  r.retired \ (roles.retired \cup {r.active}) # {} /\ r.active # NoGen
Adopts(r) ==
  r.retired \ (roles.retired \cup {r.active}) # {} /\ r.active \in headers

\* One call of the switch: what it emitted goes to the merger (_on_video),
\* whom it handed back to _on_retire, and the merger is polled.
AfterSwitch(r, bs) ==
  /\ roles' = r
  /\ sent' = Counted(bs)
  /\ Pump(PushAll(merger, bs, now),
          IF Adopts(r) THEN r.active ELSE video,
          [n \in Sink |-> IF Adopts(r) THEN Adopt(sinks[n], video, r.active) ELSE sinks[n]])
  /\ UNCHANGED <<begun, direct, now, format, headers, tracks>>

\* The next pictures after the n-th: of generation g, stamped T, those stamped
\* K keyframes.
Pictures(n, g, T, K) ==
  [i \in DOMAIN T |-> Nth(n + i, "video", g, T[i], T[i] \in K)]

\* The stamps of blocks that may be delivered now, and of several in a row.
Recent == {ts \in 0 .. now : now - ts <= Late}
Stamps ==
  {T \in Seqs!BoundedSeq(Recent, MaxBlocks) : \A i, j \in DOMAIN T : i < j => T[i] < T[j]}

\* What the switch may emit of g after what it has sent: CutAtKeyframe, InOrder.
MayFollow(g, T, K) ==
  LET prev == sent["video"] IN
  /\ g \in headers
  /\ T # <<>> /\ prev.gen # g => T[1] \in K
  /\ \A i \in DOMAIN T : IF prev.gen = g THEN T[i] > prev.ts ELSE T[i] >= prev.ts

\* begin_swap; when no generation is on air it is an activation without a cut.
Begin(g) ==
  /\ g = begun + 1 /\ Switch!CanBegin(roles)
  /\ begun' = g
  /\ roles' = Switch!Begun(roles, g)
  /\ direct' = IF roles.active = NoGen THEN direct \cup {g} ELSE direct
  /\ UNCHANGED <<now, format, headers, video, tracks, merger, sinks, sent>>

\* generation_header, when the encoder's stream begins.
Header(g) ==
  /\ g \in (1 .. begun) \ headers
  /\ headers' = headers \cup {g}
  /\ video' = IF video = NoGen THEN g ELSE video
  /\ UNCHANGED <<roles, begun, now, format, tracks, merger, sinks, sent, direct>>

\* video_block of the generation on air, forwarded at once.
VideoBlock(ts, K) ==
  /\ MayFollow(roles.active, <<ts>>, K)
  /\ AfterSwitch(roles, Pictures(sent["video"].n, roles.active, <<ts>>, K))

\* A call that completes the cut (video_block, tick or generation_ended): the
\* rest of the old generation, then the new one from its keyframe on; those
\* stamped K are keyframes.
Cut(old, K, new) ==
  LET n == sent["video"].n IN
  /\ new # <<>> /\ roles.pending \in headers
  /\ old = <<>> \/ MayFollow(roles.active, old, K)
  /\ new[1] \in K /\ \A i \in DOMAIN old : old[i] < new[1]
  /\ sent["video"].ts <= new[1]
  /\ AfterSwitch(Switch!Completed(roles),
       Pictures(n, roles.active, old, K)
         \o Pictures(n + Len(old), roles.pending, new, K))

\* A call that gives the swap up: what was held goes out.
GiveUp(held, K) ==
  /\ roles.pending # NoGen
  /\ held = <<>> \/ MayFollow(roles.active, held, K)
  /\ AfterSwitch(Switch!GivenUp(roles), Pictures(sent["video"].n, roles.active, held, K))

\* generation_ended of the generation on air, which exited or was ended by the
\* service to free an exclusive device.
Lose ==
  /\ roles.active # NoGen /\ roles.pending = NoGen
  /\ AfterSwitch(Switch!Lost(roles), <<>>)

\* A call in which the switch emits nothing: tick, or a block it keeps or drops.
Idle == AfterSwitch(roles, <<>>)
-----------------------------------------------------------------------------
(* Sound, sinks and time.                                                  *)

\* audio_block.
AudioBlock(ts) ==
  LET b == Nth(sent["audio"].n + 1, "audio", NoGen, ts, FALSE) IN
  /\ "audio" \in tracks
  /\ ts > sent["audio"].ts
  /\ sent' = Counted(<<b>>)
  /\ Pump(Push(merger, b, now), video, sinks)
  /\ UNCHANGED <<roles, begun, now, format, headers, tracks, direct>>

\* raw_block: dropped when no recording asked for it.
RawBlock(ts) ==
  LET b == Nth(sent["raw"].n + 1, "raw", NoGen, ts, FALSE) IN
  /\ "raw" \in tracks
  /\ \E s \in Sink : WantsRaw(sinks[s])
  /\ ts > sent["raw"].ts
  /\ sent' = Counted(<<b>>)
  /\ Pump(Push(merger, b, now), video, sinks)
  /\ UNCHANGED <<roles, begun, now, format, headers, tracks, direct>>

\* set_audio(track), set_raw(track): the capture's header arrived.
TrackKnown(t) ==
  /\ tracks' = tracks \cup {t}
  /\ t \notin tracks
  /\ UNCHANGED <<roles, begun, now, format, headers, video,
                 merger, sinks, sent, direct>>

\* set_audio(None): the wait for the capture's header ended, nothing waits for
\* sound any more.  The header may still come, or have come just now.
NoAudio ==
  /\ merger' = [merger EXCEPT !.mark["audio"] = Forever]
  /\ UNCHANGED <<roles, begun, now, format, headers, video, tracks, sinks, sent, direct>>

\* set_raw(None): the last recording ended.
NoRaw ==
  /\ \A s \in Sink : ~ WantsRaw(sinks[s])
  /\ tracks' = tracks \ {"raw"}
  /\ UNCHANGED <<roles, begun, now, format, headers, video,
                 merger, sinks, sent, direct>>

Attach(s, kind) ==
  /\ sinks[s].kind = "none"
  /\ sinks' = [sinks EXCEPT ![s] = Attached(kind)]
  /\ UNCHANGED <<roles, begun, now, format, headers, video, tracks,
                 merger, sent, direct>>

\* detach of one sink; close detaches them all.
Detach(S) ==
  /\ \A s \in S : sinks[s].kind # "none"
  /\ sinks' = [s \in Sink |-> IF s \in S THEN NotAttached ELSE sinks[s]]
  /\ UNCHANGED <<roles, begun, now, format, headers, video, tracks,
                 merger, sent, direct>>

Pass ==
  /\ now < MaxNow
  /\ now' = now + 1
  /\ UNCHANGED <<roles, begun, format, headers, video, tracks,
                 merger, sinks, sent, direct>>

\* Bounds what is delivered.
Room(n) == sent["video"].n + sent["audio"].n + sent["raw"].n + n <= MaxBlocks

Next ==
  \/ \E g \in Gen : Begin(g) \/ Header(g)
  \/ \E ts \in Recent : \E K \in SUBSET {ts} : Room(1) /\ VideoBlock(ts, K)
  \/ \E old, new \in Stamps : \E K \in SUBSET Recent :
       Room(Len(old) + Len(new)) /\ Cut(old, K, new)
  \/ \E held \in Stamps : \E K \in SUBSET Recent : Room(Len(held)) /\ GiveUp(held, K)
  \/ Lose \/ Idle
  \/ \E ts \in Recent : Room(1) /\ (AudioBlock(ts) \/ RawBlock(ts))
  \/ \E t \in {"audio", "raw"} : TrackKnown(t)
  \/ NoAudio \/ NoRaw
  \/ \E s \in Sink, kind \in Kind : Attach(s, kind)
  \/ \E S \in SUBSET Sink : Detach(S)
  \/ Pass

Spec == Init /\ [][Next]_vars
-----------------------------------------------------------------------------
TypeOK ==
  /\ roles \in Switch!Roles /\ begun \in 0 .. MaxGen
  /\ now \in 0 .. MaxNow
  /\ format \in [Gen -> Format]
  /\ headers \subseteq 1 .. begun /\ direct \subseteq 1 .. begun
  /\ video \in headers \cup {NoGen}
  /\ tracks \subseteq {"audio", "raw"}
  /\ merger \in MergerState /\ sinks \in [Sink -> SinkState]
  /\ sent \in [Track -> [n : Nat, gen : Gen \cup {NoGen}, ts : Nat \cup {Never}]]

(* Every sink gets a stream a decoder can start on: whatever it was given   *)
(* of an encoder since it was opened comes after a keyframe of that         *)
(* encoder, also when it came late, refused a cluster or was restarted, and *)
(* the header is followed by a keyframe at once.                            *)
SinkDecodable ==
  \A s \in Sink :
    LET got == sinks[s].got IN
    /\ got # <<>> => IsKeyframe(got[1])
    /\ \A i \in DOMAIN got : IsPicture(got[i]) =>
         \E j \in 1 .. i : IsKeyframe(got[j]) /\ got[j].gen = got[i].gen

\* What a sink was given, followed by what waits in the merger.
Stream(s) == sinks[s].got \o [i \in DOMAIN merger.queue |-> Written(merger.queue[i].block)]

(* What a sink was given of a track, followed by what waits in the merger,  *)
(* is an unbroken stretch of that track up to its newest block: nothing is  *)
(* lost, repeated or reordered, whatever the other tracks do.               *)
Unbroken ==
  \A s \in Sink : sinks[s].started =>
    \A i \in DOMAIN Stream(s) :
      LET b == Stream(s)[i]
          rest == {j \in DOMAIN Stream(s) : j > i /\ Stream(s)[j].track = b.track}
      IN  b.track # "raw" \/ sinks[s].rawDeclared =>
            /\ \A j \in rest : Stream(s)[j].no > b.no
            /\ {Stream(s)[j].no : j \in rest} = b.no + 1 .. sent[b.track].n

(* "A block waits at most `max_wait` for the other stream": a poll takes    *)
(* every live block that has waited that long.  A block of the raw          *)
(* microphone ahead of it that came in later may keep it.                   *)
WaitsAtMost ==
  LET q == merger.queue IN
  \A i \in DOMAIN q :
    q[i].block.track \in Live /\ now - q[i].at >= MergeWait =>
      \/ i <= Ready(merger)
      \/ \E j \in 1 .. i - 1 : q[j].block.track = "raw" /\ q[j].at > q[i].at

\* What a sink cannot take without a new header, or without being told.
Matches(s, g) ==
  IF Inband(s) THEN format[g] = format[s.told] ELSE format[g].size = format[s.told].size

(* adopt_geometry reaches every sink before the first picture of a newer    *)
(* encoder does: after a cut no sink is given a picture that does not match *)
(* the header or the parameter sets it knows, but for the last pictures of  *)
(* the older encoder that were still in the merger.                         *)
CutReachesSinks ==
  \A s \in Sink : \A i \in DOMAIN sinks[s].got :
    LET g == sinks[s].got[i].gen IN
    g # NoGen /\ g > sinks[s].told /\ g \notin direct => Matches(sinks[s], g)

(* "every sink reconnects once" (the decision record, of a change of the    *)
(* picture's size): the same of every newer encoder, cut to or not.         *)
SinkReconnects ==
  \A s \in Sink : \A i \in DOMAIN sinks[s].got :
    LET g == sinks[s].got[i].gen IN
    g # NoGen /\ g > sinks[s].told => Matches(sinks[s], g)
=============================================================================
