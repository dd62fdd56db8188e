-------------------------------- MODULE Hub --------------------------------
(***************************************************************************)
(* The Console's live state: the hub that snapshots the rig and pushes it  *)
(* to every window (console/hub.py), the two requests of a window that     *)
(* touch it (GET /api/state and POST /api/action, console/server.py), and  *)
(* the window's own store, which shows what the person just did until a    *)
(* snapshot that contains it arrives (data/console/core/store.js).         *)
(*                                                                         *)
(* The rig is one setting: a value, and a version that counts its changes. *)
(* The version is not in the code: it is what the properties compare.  A   *)
(* snapshot is built in three steps (begun, read, handed over), so changes *)
(* and actions land between them.  Builders are the hub's loop and the     *)
(* windows: a window builds one for its GET, and one more when it          *)
(* subscribes before the hub has any.  `mark` and `kick` are one step: the *)
(* loop polls at any time here, so the kick itself leaves no trace.        *)
(***************************************************************************)
EXTENDS Naturals, Sequences, FiniteSetsExt

CONSTANTS
    Window,      \* Console windows
    Value,       \* values of the setting
    QueueSize,   \* CLIENT_QUEUE, 64
    MaxEvents,   \* bound: presses, other changes, meters, toasts, idle polls
    MaxBreaks,   \* bound: broken connections, failed snapshots and posts
    None

VARIABLES
    rig,         \* [val, ver]
    seq,         \* _seq: snapshots begun
    ackWanted,   \* _ack_wanted
    latest,      \* _latest and _latest_body: [val, ver, seq], None before the first
    build,       \* builder -> the snapshot it is building, or None
    link,        \* window -> where its connection stands (connection.js open)
    queue,       \* window -> frames its Client holds
    server,      \* window -> store.server; ver: the newest version it is known to equal
    serverSeq,   \* window -> store.serverSeq
    hold,        \* window -> the hold on the setting's path, or None
    lane,        \* window -> posts of the action not answered yet, oldest first
    lost,        \* history: window -> its newest state frame was dropped
    missed,      \* history: window -> a state frame was dropped since it had the newest
    behind,      \* history: window -> it shows a snapshot older than one it has seen
    promise,     \* history: window -> version its last settled press made, 0 for none
    events, breaks  \* how many came so far, for the bounds

hubVars == <<seq, ackWanted, latest, build>>
storeVars == <<server, serverSeq, hold, promise, behind>>
counts == <<events, breaks>>
vars == <<rig, hubVars, link, queue, storeVars, lane, lost, missed, counts>>

Builder == Window \cup {"loop"}
Picture == [val : Value, ver : Nat]
Snapshot == [val : Value, ver : Nat, seq : Nat]
Build == [kind : {"push", "get"}, seq : Nat, wanted : BOOLEAN, seen : Picture \cup {None}]
Hold == [val : Value, token : Nat, settled : BOOLEAN, seq : Nat]
Post == [val : Value, token : Nat, at : {"sent", "acted", "marked"}, ver : Nat, seq : Nat]

\* None is none of the records it stands in for.
ASSUME HubAssumption ==
    /\ QueueSize \in Nat \ {0} /\ MaxEvents \in Nat /\ MaxBreaks \in Nat
    /\ Value # {} /\ "loop" \notin Window
    /\ None \notin Picture \cup Snapshot \cup Build \cup Hold

Init ==
    /\ rig = [val |-> CHOOSE v \in Value : TRUE, ver |-> 1]
    /\ seq = 0
    /\ ackWanted = FALSE
    /\ latest = None
    /\ build = [b \in Builder |-> None]
    /\ link = [w \in Window |-> "off"]
    /\ queue = [w \in Window |-> << >>]
    /\ server = [w \in Window |-> None]
    /\ serverSeq = [w \in Window |-> 0]
    /\ hold = [w \in Window |-> None]
    /\ lane = [w \in Window |-> << >>]
    /\ lost = [w \in Window |-> FALSE]
    /\ missed = [w \in Window |-> FALSE]
    /\ behind = [w \in Window |-> FALSE]
    /\ promise = [w \in Window |-> 0]
    /\ events = 0
    /\ breaks = 0

\* Something from outside the hub and the store happens, or something breaks.
Event == events < MaxEvents /\ events' = events + 1 /\ UNCHANGED breaks
Break == breaks < MaxBreaks /\ breaks' = breaks + 1 /\ UNCHANGED events

---------------------------------------------------------------------------
(* Client.offer: the queue after a frame was offered to it. *)

StateFrame(s) == [kind |-> "state", val |-> s.val, ver |-> s.ver, seq |-> s.seq]
\* On the wire an ack is its number; val and ver are the picture it confirms.
AckFrame(n, s) == [kind |-> "ack", val |-> s.val, ver |-> s.ver, seq |-> n]
Noise == [kind |-> "other"]

Full(q) == Len(q) >= QueueSize

\* `raced`: a toast's offer, made outside the hub's lock, took the place this
\* offer had just freed; the frame is given up.
Offer(q, frame, raced) ==
    IF ~Full(q) THEN Append(q, frame)
    ELSE Append(Tail(q), IF raced THEN Noise ELSE frame)

HasState(q) == \E i \in DOMAIN q : q[i].kind = "state"

\* What the offer did to the newest state frame of this client.
LostBy(w, frame, raced) ==
    IF frame.kind = "state" THEN Full(queue[w]) /\ raced
    ELSE lost[w] \/ (HasState(queue[w]) /\ ~HasState(Offer(queue[w], frame, raced)))

\* It made room with a state frame, or gave up the one offered.
MissedBy(w, frame, raced) ==
    Full(queue[w]) /\ (Head(queue[w]).kind = "state" \/ (raced /\ frame.kind = "state"))

Joined == {w \in Window : link[w] = "online"}

OfferAll(frame, raced) ==
    /\ queue' = [w \in Window |->
                    IF w \in Joined THEN Offer(queue[w], frame, w \in raced) ELSE queue[w]]
    /\ lost' = [w \in Window |->
                    IF w \in Joined THEN LostBy(w, frame, w \in raced) ELSE lost[w]]
    /\ missed' = [w \in Window |->
                    missed[w] \/ (w \in Joined /\ MissedBy(w, frame, w \in raced))]

---------------------------------------------------------------------------
(* The window's store. *)

\* Mutant: any answered hold ends, whatever the snapshot's number.
KeptUntilAnswer(h, sseq) == IF h # None /\ h.settled THEN None ELSE h

\* _commit: the hold that is left, given the server's number and the hold.
Kept(h, sseq) == IF h # None /\ h.settled /\ sseq >= h.seq THEN None ELSE h

\* applyServer
Apply(w, s) ==
    /\ server' = [server EXCEPT ![w] = [val |-> s.val, ver |-> s.ver]]
    /\ serverSeq' = [serverSeq EXCEPT ![w] = Max({@, s.seq})]
    /\ hold' = [hold EXCEPT ![w] = Kept(@, serverSeq'[w])]
    /\ behind' = [behind EXCEPT ![w] = s.seq < serverSeq[w]]
    /\ UNCHANGED promise

\* acknowledge: the number alone.  The window keeps the picture it has, which is
\* as new as the ack only when it is the one confirmed.
Acknowledge(w, a) ==
    /\ serverSeq' = [serverSeq EXCEPT ![w] = Max({@, a.seq})]
    /\ hold' = [hold EXCEPT ![w] = Kept(@, serverSeq'[w])]
    /\ server' = IF a.seq > serverSeq[w] /\ a.val = server[w].val
                 THEN [server EXCEPT ![w].ver = Max({@, a.ver})]
                 ELSE server
    /\ UNCHANGED <<promise, behind>>

Shown(w) == IF hold[w] # None THEN hold[w].val ELSE server[w].val

---------------------------------------------------------------------------
(* Snapshots. *)

\* _begin, and rig.snapshot about to be called.
Begin(b, kind) ==
    /\ build[b] = None
    /\ seq' = seq + 1
    /\ ackWanted' = FALSE
    /\ build' = [build EXCEPT ![b] =
                    [kind |-> kind, seq |-> seq + 1, wanted |-> ackWanted, seen |-> None]]
    /\ UNCHANGED latest

\* The loop's turn: something changed or an action asked; or just a poll.
LoopBegin ==
    /\ \/ latest = None
       \/ latest # None /\ latest.ver # rig.ver
       \/ ackWanted
    /\ Begin("loop", "push")
    /\ UNCHANGED <<rig, link, queue, storeVars, lane, lost, missed, counts>>

LoopPolls ==
    /\ Begin("loop", "push")
    /\ Event
    /\ UNCHANGED <<rig, link, queue, storeVars, lane, lost, missed>>

Read(b) ==
    /\ build[b] # None
    /\ build[b].seen = None
    /\ build' = [build EXCEPT ![b].seen = rig]
    /\ UNCHANGED <<rig, seq, ackWanted, latest, link, queue, storeVars, lane, lost, missed, counts>>

\* rig.snapshot raised: the loop logs it and goes on, a request fails.
BuildFails(b) ==
    /\ build[b] # None
    /\ build[b].seen = None
    /\ Break
    /\ build' = [build EXCEPT ![b] = None]
    /\ link' = IF b \in Window THEN [link EXCEPT ![b] = "off"] ELSE link
    /\ UNCHANGED <<rig, seq, ackWanted, latest, queue, storeVars, lane, lost, missed>>

\* The second half of refresh, under the lock.
Publish(b) ==
    /\ build[b] # None
    /\ build[b].kind = "push"
    /\ build[b].seen # None
    /\ LET s == build[b].seen
           same == latest # None /\ s.val = latest.val
       IN \E raced \in SUBSET Joined :
            /\ IF raced = {} THEN UNCHANGED counts ELSE Event
            /\ latest' = IF same THEN [latest EXCEPT !.ver = Max({@, s.ver})]
                         ELSE [val |-> s.val, ver |-> s.ver, seq |-> build[b].seq]
            /\ CASE ~same -> OfferAll(StateFrame(latest'), raced)
                 [] same /\ build[b].wanted -> OfferAll(AckFrame(build[b].seq, latest'), raced)
                 [] OTHER -> raced = {} /\ UNCHANGED <<queue, lost, missed>>
    /\ build' = [build EXCEPT ![b] = None]
    /\ link' = IF b \in Window THEN [link EXCEPT ![b] = "built"] ELSE link
    /\ UNCHANGED <<rig, seq, ackWanted, storeVars, lane>>

---------------------------------------------------------------------------
(* A window's connection. *)

\* open: GET /api/state, a snapshot of its own (fresh_json).
OpenGet(w) ==
    /\ link[w] = "off"
    /\ Begin(w, "get")
    /\ link' = [link EXCEPT ![w] = "get"]
    /\ UNCHANGED <<rig, queue, storeVars, lane, lost, missed, counts>>

GotState(w) ==
    /\ link[w] = "get"
    /\ build[w] # None
    /\ build[w].seen # None
    /\ Apply(w, [val |-> build[w].seen.val, ver |-> build[w].seen.ver, seq |-> build[w].seq])
    /\ build' = [build EXCEPT ![w] = None]
    /\ link' = [link EXCEPT ![w] = "got"]
    /\ missed' = [missed EXCEPT ![w] = FALSE]
    /\ UNCHANGED <<rig, seq, ackWanted, latest, queue, lane, lost, counts>>

\* subscribe before the hub has a snapshot (state_json): build it.
SubscribeFirst(w) ==
    /\ link[w] = "got"
    /\ latest = None
    /\ Begin(w, "push")
    /\ link' = [link EXCEPT ![w] = "first"]
    /\ UNCHANGED <<rig, queue, storeVars, lane, lost, missed, counts>>

\* Mutant: the snapshot was offered before the window joined the broadcast.
HandedBefore == << >>

Handed == <<StateFrame(latest)>>

\* subscribe, under the lock: the newest snapshot and the broadcast in one step.
Join(w) ==
    /\ link[w] \in {"got", "built"}
    /\ latest # None
    /\ link' = [link EXCEPT ![w] = "online"]
    /\ queue' = [queue EXCEPT ![w] = Handed]
    /\ lost' = [lost EXCEPT ![w] = FALSE]
    /\ UNCHANGED <<rig, hubVars, storeVars, lane, missed, counts>>

\* The connection breaks, or the page's watchdog gives it up.
Drop(w) ==
    /\ link[w] = "online"
    /\ Break
    /\ link' = [link EXCEPT ![w] = "off"]
    /\ queue' = [queue EXCEPT ![w] = << >>]
    /\ lost' = [lost EXCEPT ![w] = FALSE]
    /\ UNCHANGED <<rig, hubVars, storeVars, lane, missed>>

\* The handler thread writes the oldest frame and the page takes it.
Deliver(w) ==
    /\ link[w] = "online"
    /\ queue[w] # << >>
    /\ LET f == Head(queue[w])
       IN CASE f.kind = "state" -> Apply(w, f)
            [] f.kind = "ack" -> Acknowledge(w, f)
            [] OTHER -> UNCHANGED storeVars
    /\ queue' = [queue EXCEPT ![w] = Tail(@)]
    /\ missed' = [missed EXCEPT ![w] =
                    @ /\ (Head(queue[w]).kind = "state" => lost[w] \/ HasState(queue'[w]))]
    /\ UNCHANGED <<rig, hubVars, link, lane, lost, counts>>

\* _push_meters: droppable, given up when the queue is full.
Meter(w) ==
    /\ link[w] = "online"
    /\ ~Full(queue[w])
    /\ queue' = [queue EXCEPT ![w] = Append(@, Noise)]
    /\ Event
    /\ UNCHANGED <<rig, hubVars, link, storeVars, lane, lost, missed>>

\* toast: offered like a state frame, so the oldest frame makes room.
Toast ==
    /\ Joined # {}
    /\ OfferAll(Noise, {})
    /\ Event
    /\ UNCHANGED <<rig, hubVars, link, storeVars, lane>>

---------------------------------------------------------------------------
(* Presses and the posts they make. *)

Change(v) == rig' = [val |-> v, ver |-> rig.ver + 1]

\* A timer, the deck, a hotkey: the rig changes with no window asking.
OtherChange(v) ==
    /\ v # rig.val
    /\ Change(v)
    /\ Event
    /\ UNCHANGED <<hubVars, link, queue, storeVars, lane, lost, missed>>

\* act: shown at once and held; the post waits for its lane.
Press(w, v) ==
    /\ server[w] # None
    /\ Event
    /\ hold' = [hold EXCEPT ![w] = [val |-> v, token |-> events', settled |-> FALSE, seq |-> 0]]
    /\ lane' = [lane EXCEPT ![w] = Append(@, [val |-> v, token |-> events', at |-> "sent",
                                              ver |-> 0, seq |-> 0])]
    /\ promise' = [promise EXCEPT ![w] = 0]
    /\ UNCHANGED <<rig, hubVars, link, queue, server, serverSeq, behind, lost, missed>>

\* rig.act on the request's thread; only the lane's oldest post is out.
Act(w) ==
    /\ lane[w] # << >>
    /\ LET p == Head(lane[w])
       IN /\ p.at = "sent"
          /\ Change(p.val)
          /\ lane' = [lane EXCEPT ![w][1].at = "acted", ![w][1].ver = rig.ver + 1]
    /\ UNCHANGED <<hubVars, link, queue, storeVars, lost, missed, counts>>

\* mark and kick.
Mark(w) ==
    /\ lane[w] # << >>
    /\ Head(lane[w]).at = "acted"
    /\ ackWanted' = TRUE
    /\ lane' = [lane EXCEPT ![w][1].at = "marked", ![w][1].seq = seq + 1]
    /\ UNCHANGED <<rig, seq, latest, build, link, queue, storeVars, lost, missed, counts>>

\* Mutant: the answered hold keeps its endless timer.
AnsweredOnly(h, p) == [h EXCEPT !.seq = p.seq]

Answered(h, p) == [h EXCEPT !.settled = TRUE, !.seq = p.seq]

\* The answer arrives: settle, then _commit.  A path written again since keeps
\* its newer hold.
Settle(w) ==
    /\ lane[w] # << >>
    /\ LET p == Head(lane[w])
           h == hold[w]
           mine == h # None /\ h.token = p.token
       IN /\ p.at = "marked"
          /\ hold' = IF mine
                     THEN [hold EXCEPT ![w] =
                             Kept(Answered(h, p), serverSeq[w])]
                     ELSE hold
          /\ promise' = IF mine THEN [promise EXCEPT ![w] = p.ver] ELSE promise
    /\ lane' = [lane EXCEPT ![w] = Tail(@)]
    /\ UNCHANGED <<rig, hubVars, link, queue, server, serverSeq, behind, lost, missed, counts>>

\* The action was refused, or its answer never came: release, whoever holds.
PostFails(w) ==
    /\ lane[w] # << >>
    /\ Break
    /\ hold' = [hold EXCEPT ![w] = None]
    /\ promise' = [promise EXCEPT ![w] = 0]
    /\ lane' = [lane EXCEPT ![w] = Tail(@)]
    /\ UNCHANGED <<rig, hubVars, link, queue, server, serverSeq, behind, lost, missed>>

\* SETTLE_CEILING_MS ran out on a settled hold.
Ceiling(w) ==
    /\ hold[w] # None
    /\ hold[w].settled
    /\ hold' = [hold EXCEPT ![w] = None]
    /\ promise' = [promise EXCEPT ![w] = 0]
    /\ UNCHANGED <<rig, hubVars, link, queue, server, serverSeq, behind, lane, lost, missed, counts>>

\* What each thread does next when it is free to go on: the one that builds a
\* snapshot, the page's connection, and the post that is out.
Builds(b) == Read(b) \/ Publish(b)
Connects(w) == OpenGet(w) \/ GotState(w) \/ SubscribeFirst(w) \/ Join(w)
Posts(w) == Act(w) \/ Mark(w) \/ Settle(w)

Next ==
    \/ LoopBegin \/ LoopPolls
    \/ \E b \in Builder : Builds(b) \/ BuildFails(b)
    \/ \E w \in Window :
        \/ Connects(w) \/ Drop(w)
        \/ Deliver(w) \/ Meter(w)
        \/ Posts(w) \/ PostFails(w) \/ Ceiling(w)
    \/ Toast
    \/ \E w \in Window, v \in Value : Press(w, v)
    \/ \E v \in Value : OtherChange(v)

Spec == Init /\ [][Next]_vars

\* The hub's thread runs, the rig answers, a request once made is carried on,
\* frames reach a window that is online, timers fire.
Fairness ==
    /\ WF_vars(LoopBegin)
    /\ \A b \in Builder : WF_vars(Builds(b))
    /\ \A w \in Window :
        WF_vars(Connects(w)) /\ WF_vars(Deliver(w)) /\ WF_vars(Posts(w)) /\ WF_vars(Ceiling(w))

FairSpec == Spec /\ Fairness

---------------------------------------------------------------------------
(* What the hub and the store promise. *)

\* The newest state frame of q has value v.
Carries(q, v) ==
    \E i \in DOMAIN q :
        /\ q[i].kind = "state" /\ q[i].val = v
        /\ \A j \in DOMAIN q : j > i => q[j].kind # "state"

\* The newest state frame waiting for the window is the newest snapshot; when
\* none waits, the newest snapshot is what the window has.
HasNewest(w) ==
    \/ ~HasState(queue[w]) /\ server[w].val = latest.val
    \/ Carries(queue[w], latest.val)

\* A window that is online has the newest broadcast snapshot or will be given it
\* (subscribe joins the broadcast and hands over the snapshot in one step with
\* refresh), except one whose newest state frame was dropped from a full queue.
NewestOnItsWay == \A w \in Joined : ~lost[w] => HasNewest(w)

\* Once a window's press is answered and its hold is gone, the window never
\* shows the rig as it was before that press: a hold ends only with a snapshot
\* begun after the action (`mark`).  Not promised: after the ceiling, after a
\* failed post, on a window that was handed an older snapshot than one it had
\* (subscribe after GET), or on one that missed a snapshot: a full queue dropped
\* it, the ack of the press came through, and the hold ends on the old picture.
HeldUntilSeen ==
    \A w \in Window :
        (promise[w] > 0 /\ hold[w] = None /\ ~behind[w] /\ ~missed[w])
            => server[w].ver >= promise[w]

\* Whatever the order of pushes, answers and reconnects, a window that stays
\* online ends up showing the rig, unless its newest frame was dropped.
Converges ==
    \A w \in Window :
        <>[](link[w] = "online")
            => <>[](link[w] = "online" => lost[w] \/ Shown(w) = rig.val)

\* hub.py:36, "state frames are complete snapshots, so losing an old one costs
\* nothing": said of every full queue.
NewestKept == \A w \in Joined : HasNewest(w)

\* What is said of the holds there too: an ack never ends one on the old picture.
HeldThroughLoss ==
    \A w \in Window :
        (promise[w] > 0 /\ hold[w] = None /\ ~behind[w]) => server[w].ver >= promise[w]
=============================================================================
