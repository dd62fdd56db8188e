# streamstack in TLA+

This directory is the formal model of *streamstack*, the streaming, recording and
conferencing program this repository ships with its `developer_workstation` role
(`src/roles/developer_workstation/files/streamstack`). Paths below are relative to its
Python package `src/streamstack`; `docs/` is its documentation. Everything else in the
repository (Ansible roles, helper scripts, vendored chat plugins) installs the program or
is not its own logic, and is not modelled.

The models are written from the code, not from the documentation. Where documentation and
code disagree section 6 says so, and for the gravest a run shows it.

## 1. Inventory

### The parts modelled here

| component | code | state it keeps | operations | what makes it hard |
|---|---|---|---|---|
| TrackSwitch | `stream/relay.py` | generation on air, generation waiting, planned cut, held and staged blocks, last stamp sent | `activate`, `begin_swap`, `abort_swap`, `on_block`, `tick`, `generation_ended` | two encoders deliver on two reader threads; keyframes come late; either encoder may die at any moment of a cut |
| Chain, Merger | `stream/relay.py` | the switch, the merger's heap and watermarks, the headers read, the header in force, audio and raw tracks, the sinks | `video_block`, `audio_block`, `raw_block`, `generation_header`, `set_audio`, `set_raw`, `attach`, `detach`, `tick` | tracks arrive late and in any order; sinks come, refuse and are reopened while a cut is under way |
| StreamService, video | `stream/service.py`, `stream/proc.py` | per codec a Run: settings in force, encoder, generations, pending swap, failures, bad encoders | `start`, `stop`, `set`, the supervision pass, `_gen_exited`, stream-retire threads | the switch decides outside the service's lock; deaths are noticed in two steps; retries, backoff, exclusive devices |
| AdaptController | `stream/adapt.py` | rung, counters, instants, hold factor | `evaluate`, `commit`, `reset` | long histories: hysteresis, refused shifts, a recovery that fails |
| PipeSink | `stream/sinks.py`, `stream/proc.py` | child, bounded queue, resync flag, backoff | `open`, `write`, `close`, `shutdown`, `_exited`, `_line` | four threads; the threads of an old ffmpeg outlive it |
| FileSink and recovery | `stream/sinks.py`, `stream/recover.py`, `stream/service.py` | files, segments, marker, recovery thread | `start_record`, `stop_record`, `_move`, `open`, `write`, `close`, `recover_orphans` | kill and power cut at any point, also during a repair |
| LatestWriter | `saving.py`, `slots.py` | newest unsaved document, its number, save lock | `publish`, `pending`, `flush`, `Store._edit` | actions overlap; a save fails; the process is killed |
| file store | `store.py` | the file, its `.bak`, what of the two is on the disk | `atomic_write_bytes`, `_keep_backup`, `_load`, `_recover`, `quarantine` | loads take no lock; a kill or power cut comes between link, rename and fsync; the file is damaged from outside |
| Hub and page store | `console/hub.py`, `console/server.py`, `data/console/core/connection.js`, `store.js` | number of the snapshot, the newest one, a queue per window; in the page the rig's picture and a hold per pressed control | `refresh`, `mark`, `fresh_json`, `subscribe`, `toast`, `offer`; `applyServer`, `acknowledge`, `act`, `_commit` | snapshots are built outside the lock while presses, answers and pushes cross each other; queues fill up |
| VideoEngine, slate | `engine/process.py`, `engine/slate.py`, `console/delivery.py` | the engine's thread, its child, its spec, the halt flag; the slate's child; whether the last child failed | `start`, `stop`, `set_spec`, `_run`, the guard, `on_exit`, `_watch_stall`; `show`, `clear`, `poll` | two processes may write one node; requests reach the thread between any two of its steps |
| NativeVideo, IdleGovernor | `console/native.py`, `engine/idle.py` | the switch, the camera chosen, its stand-in, the governor's state and debounce, the last scan | `_tick`, `_idle_tick`, `_enter_idle`, `_virtualcam`, `_source_action`, `scan` | monitor, reader watch and requests act on the engine, each under other locks |

How they interact. Encoder processes write Matroska to the service's reader threads, which
call `Chain.video_block` under the chain's lock; `TrackSwitch` decides what leaves and hands
a replaced encoder back through `on_retire`, which only appends to a queue. The supervisor's
thread runs `tick` every 250 ms under the service's lock: it stops what was handed back, asks
each switch what became of the pending swap, revives dead encoders and lets the
`AdaptController` shift the picture. Requests of the Console take the same lock. What the
switch emits goes through the merger to `Chain._deliver`, which drives every sink.
`FileSink` puts it on disk, `PipeSink` into an ffmpeg of its own. Settings of all services
go through `LatestWriter` and the file store.

The encoders read the program camera, a loopback node that `VideoEngine`'s ffmpeg child
writes, or the slate while there is no child. `NativeVideo` starts, stops and re-points the
engine: on requests of the page, in the monitor's pass every second, and when the idle governor
wants it to rest or to wake, which the reader watch asks four times a second. What any of these
services reports is in the snapshot the hub builds and pushes to every window.

What makes each correct:

- switch: what leaves is decodable, in order and complete over every cut; every swap is
  decided; no encoder is forgotten;
- chain: every sink is given a stream it can decode, unbroken, with pictures that match the
  header it was opened with; no block waits longer than promised;
- service: no process leaks; the run describes the encoder on air; a failed change is tried
  again once; the stream comes back after a death; an exclusive device has one reader;
- controller: no recovery without an unbroken calm spell, a longer one after a failed
  recovery; the floor and the chosen picture are both reachable;
- pipe sink: bounded memory, no picture without its predecessor, one ffmpeg per destination,
  it keeps coming back;
- recording: an accepted frame stays; a crashed recording is found and repaired;
- settings: readers see accepted edits; the file never goes back; an acknowledged edit is in
  the file; a save is one step to whoever reads; every save ends;
- console: a window that is online has the newest snapshot or is about to get it, never falls
  back behind its own answered press, and ends up showing the rig;
- program camera: one process writes the node; while the engine rests the placeholder stays; a
  wanted node never stays unfed; an app that opens a resting camera gets the picture.

### Parts that are not modelled (yet)

The swap of the audio encoder, instant replay, SRT input, planning of chains, WHIP (only its
place as a sink of `Chain`), the request handlers of the Console beyond those above, auto mode
and the light and microphone watchers, call awareness and safe join, what the engine computes
(looks, blur, crop, framing), audio chain, director, hardware profiles, deck and tray, presets
and reports. `PROJECT.json` lists each with its reason; section 7 says which are planned. Byte
formats (EBML, RTP, SDP), command lines of ffmpeg and one-shot probing are left out on purpose:
they keep no state that interleaves.

## 2. Modules

| module | models | builds on |
|---|---|---|
| `TrackSwitch` | the methods of the class as operators from state to next state | |
| `CutOver` | the switch with its encoders (they deliver, die, are started) and the clock | `TrackSwitch`, refines `Handover` |
| `Handover` | abstract: what a switch promises its user, without blocks and stamps | |
| `Chain` | one codec's path from the encoders to the sinks: class Chain with its Merger | `Handover` |
| `Supervisor` | one codec run of StreamService, written against `Handover` | `Handover` |
| `AdaptController` | the bandwidth controller as `_adapt_tick` drives it | |
| `PipeSink` | one ffmpeg destination and the relay that drives it | |
| `Recording` | a Matroska recording from start to repair | |
| `LatestWriter` | overlapping edits of one settings file; the abstract view of a save | |
| `Settings` | the same edits down to the directory: backups, damage, kills, power cuts | `LatestWriter`, and implements its steps |
| `Hub` | the Console's snapshots, the connections of windows and what they show | |
| `Engine` | the thread that supervises the camera's ffmpeg child, and the slate | |
| `ProgramCamera` | switch, camera choice, monitor, idle governor and reader watch around it | `Engine` |
| `CutOverProofs`, `ChainProofs`, `SettingsProofs`, `CameraProofs`, `PipeSinkProofs`, `RecordingProofs`, `HubProofs` | theorems | the module they name, TLAPS |
| `SupervisorProofs` | theorems of both halves of the supervision pass | `Supervisor`, `AdaptController`, TLAPS |
| `MC*` | instances for TLC | |

Composition is by interface: `Supervisor` and `Chain` use only the operators of `Handover`, and
`CutOver` is shown to implement `Handover` (by TLC in run `cut_over`, for all constants by
theorem `SwitchImplementsHandover`), so what they rely on is what the switch does.
`Chain` further assumes of what the switch emits `CutAtKeyframe` and `InOrder`, both theorems about `CutOver` (`MayFollow` and
the guards of `Cut` state them).

### State and actions against the code

*TrackSwitch, CutOver.* `sw` is the object: `active`, `pending`, `cut`, `lastTs`, `started`,
`held`, `staged`, `syncedAt`, `head` are its attributes; `out` is what `_emit` got and
`retired` whom `_retire` got. A generation's stamps increase, so `_held` and `_staged` are
sets read in the order of their stamps. `Begin` is `_spawn_video` with `begin_swap`;
`Deliver` is `video_block`; `Exit` is `_gen_exited`; `Tick` is `Chain.tick`. A frame is
captured at the instant it is stamped with and delivered any time later; an encoder may skip
frames and put keyframes wherever it likes. Milliseconds are abstracted to a unit in which a
frame is `Frame` long, and half-frame comparisons are doubled on both sides.

*Chain.* Every method holds the chain's lock, so each is one action down to what the sinks are
given. `merger.queue` is the merger's heap in the order of its entries (stamp, then arrival),
`merger.mark` its watermarks. `VideoBlock`, `Cut`, `GiveUp`, `Lose` and `Idle` are the calls of the switch,
told apart by what it emits and hands back; `Pump` is what follows each (`_pump`, `_deliver`).
A header is the generation whose track entry it carries; a sink knows the entry of
generation `told` and has taken `got` since it was opened. Whether `open` and `write` succeed is
the sink's choice (`takes`). `Deliver` gives a sink block by block what `_pump` gives it batch by
batch: every keyframe begins a batch, so a sink opens at the same place, and a batch refused at any
of its blocks leaves the sink closed until the next keyframe. A sink that goes through an ffmpeg ("pipe") is a recording without
the raw microphone to `Chain`, so TLC uses the kinds "record" and "whip".

*Supervisor.* `run` is the Run object (`noticed` stands for `dead_at # 0`), `proc` the
processes: `running`, flagged `dead`, `exiting` (between `gen.dead = True` and the lock in
`_gen_exited`), `stopping` (a stream-retire thread is at work). A critical section of the
service's lock is one action, except the supervision pass: there the switch may decide in
the middle, so it is three (`PassRetire`, `PassRuns`, `PassAdapt`) with the lock held in
between (`phase`). `SwitchCompletes` and `SwitchGivesUp` are decisions of the switch. Restart
backoff is a Boolean (`due`), the 20 s that make a failure a fast one another.

*AdaptController.* Instants are ages that saturate at `Cap`, above every threshold. `link`,
`poor` and `busy` are the environment: the verdict of `Judge` from the sinks' counters, the
uplink rating, a swap in flight that makes a shift answer 409. `Look` is a whole round:
`evaluate`, the attempt to apply, and `commit`.

*PipeSink.* `queue[k]` is the queue of child `k` (each child gets a new one), `fed[k]` what the
writer thread handed it last, `waiters` the children whose waiter thread has not yet called
`_exited`. `Child.stop` waits for those threads for one second and they may be waiting for
the sink's lock, which its caller holds, so they may come later. An item carries `gap`: a
cluster before it was dropped.

*Recording.* `disk[n][s]` is segment `s` of the recording that started in second `n`, with the
frames it holds, those fsynced, and whether it was closed in order or repaired (`settled`).
`marker[n]` is the boot that wrote the marker; `Mark` is `_mark_recording`, whose write may fail, in which
case the recording goes on without one (`unmarked`). `late` says that the last fsync is a second
old. The disk may refuse a file, its header, its first frame or a later one, the fsync of a close, and
the removal of a marker. `Kill` leaves the page cache, `PowerCut` may lose what was not synced and any marker
(it is never synced). `Boot` gives the markers it finds to the recovery thread (`orphaned`), or, without
ffmpeg, leaves them to the next start. `RepairStart`, `RepairFile`, `RepairEnd` are that thread, which
runs beside new recordings; `RepairRaises` is an OSError, which skips the files left. A repair
replaces a file by any of its `Copies`: one with `MIN_KEPT_RATIO` of the bytes, so up to `MaxTrim` frames may be
missing, which `trimmed` remembers.

*LatestWriter, Settings.* A document is the set of edits in it; `_version` numbers the edits.
`Publish` is the section of the store's lock in `_edit`; `FlushNothing`, `FlushTake`,
`FlushWrite`, `FlushDone` and `FlushRaise` are the steps of `flush` between which other threads
run. `Settings` keeps the variables of `LatestWriter` and adds the two names: `file` and `bak`
hold a document, damage or nothing. Damage is `Garbage`, which is no JSON, or `Misshapen`, JSON that `validate`
refuses: a load raises for either (`Damaged`), while `_keep_backup` only parses (`Parses`) and links a
misshapen file over the backup. `linked` says that both are one inode, so that damage to
one is damage to both; `synced` is what a power cut leaves. `KeepBackup`, `Replace`, `SyncDir` and
`Leave` are the parts of one save; `LoadBad`, `Quarantine`, `ReadBackup` and `Restore` the parts
of a load that finds the file damaged, with the store's lock (an edit) or without (a reader).
`disk` is what a load gives for these files, so that `SavesAtomically` can compare the steps
with those of `LatestWriter`.

*Hub.* The rig is one setting; `ver` counts its changes and exists only for the properties.
`build[b]` is a snapshot under construction, by the hub's loop or a request's thread: `Begin`
numbers it (under the lock), `Read` asks the rig, `Publish` hands it over (under the lock).
`link[w]` follows `connection.js`: the page fetches `/api/state`, then opens the event stream;
`Join` is the locked half of `subscribe`. `queue[w]` is `Client.frames`. A press is `Press` in the
page, `Act` and `Mark` on the request's thread, `Settle` in the page again; posts of one control go
one at a time (`lane`). `hold[w]` is the entry of the page's store that keeps the pressed value
on screen, `Kept` the rule that ends it, `Ceiling` its timer. An acknowledgement brings the page a number
only, so `Acknowledge` moves `serverSeq` and leaves the picture. The version of a picture and the `val` and `ver` of
an ack frame are for the properties: an ack says that nothing has changed, and a window that already shows what it
confirms is as new as that. `missed` says that a full queue dropped a state frame since the window had
the newest.

*Engine, ProgramCamera.* `engine.thread` says where `_run` is: at the loop's head, asking the
guard, allowed by it, about to fork, with a child, or not running; `engine.halt`, `planned`,
`stalled`, `spec` are the attributes. Between two of these steps other threads may call `start`,
`stop` and `set_spec`, which see a process only while the thread has one (`Known`). A "starting" or
"waiting" engine and one in "error" differ only in words. `stop` waits for the thread; `JoinOver`
is when its join returns, in vain or not. The slate is what it should show and whether its
ffmpeg lives. `Tick` is `_idle_tick` with the governor's `step`; the governor's idle lock is held until `Park`
(`tick`). `Switch`, `Note`, `SwitchOn` or `SwitchOff`, `AnswerOff` are one `_virtualcam`; `Pick`,
`GivePicked` one `_source_action`; `Pass` and `Ensure` or `StopDelivery` one `_tick` of the monitor.
Readers, demands and cameras change at any time. `late` is a history variable: some `stop` has
returned before its thread had ended, which the properties except, and section 6 describes.

## 3. Runs

| run | bounds | states | shows |
|---|---|---|---|
| `cut_over` | 3 generations, clock to 5, 3 blocks, frame 2 | 0.8 M | `CutAtKeyframe`, `InOrder`, `NothingLost`, `NoOrphan`; every swap is decided (`SwapDecided`); the switch implements `Handover` (`KeepsPromise`) |
| `chain` | 2 generations, 1 sink, clock to 2, 3 blocks in all, waits of 1 | 1.0 M | `SinkDecodable`, `Unbroken`, `WaitsAtMost`, `CutReachesSinks` |
| `supervisor` | 2 encoders, 2 settings, 6 generations, 2 changes, 2 troubles, both kinds of device | 44 k | `NoLeak`, `RunIsOnAir`, `SharedRetriedOnce`, `OneReader`, `ComesBack`, `SwapSettled` |
| `adapt` | 4 rungs, thresholds ordered as the defaults, ages to 8 | 190 k | `UpAfterCalm`, `FailedRecoveryWaits`, `Recovers`, `GivesWay` |
| `pipe_sink` | 2 child slots, queue of 2, 2 delays | 388 k | `Decodable`, `Reconnects` |
| `recording` | 2 codecs, 2 frames, 2 segments, 3 seconds (so up to 2 restarts), a copy lacks 1 frame at most | 2.3 M | `KeptByItsSink`, `CrashIsFound`, `OrphansHandled` |
| `settings` | 2 actors, 2 readers, 4 edits, once damaged | 0.7 M | `ShowsNewest`, `NeverOlder`, `AckIsSaved`, `SavesAtomically` (a save is a step of `LatestWriter`), `FlushReturns` |
| `hub` | 1 window, 2 values, a queue of 1, 2 events, 1 break | 1.3 M | `NewestOnItsWay`, `HeldUntilSeen`, `Converges` |
| `camera` | 2 cameras, 1 client, 2 requests that change something, 1 fault | 0.6 M | `OneWriter`, `RestIsCovered`, `NeverUnfed`, `ReaderIsServed` |
| `effective_is_sent`, `recording_moved`, `camera_off` | as above | | one statement each that the code does not keep (section 6) |

Why the bounds are enough. A cut involves the encoder on air, the one that waits, and the one
before (whose late exit must do nothing): three generations. Three blocks are the smallest
number with which a keyframe is on air, a block is held and the cut completes or is given up;
every safety property of the switch is also proved without bounds. In
the chain, three blocks are a picture of each encoder and one of sound, or two of one stream
around one of another; with a wait of one and a clock to two each stream can be late for the
other, late beyond the wait, and waiting while the cut is made. Sinks do not see one
another, so one is enough. In
the supervisor, two changes and two troubles let a change fail and be retried while another
waits, or an encoder die in the middle of either; the safety invariants were also run with three
of each and nine generations (2.8 million states up to the symmetry of the encoders). With thresholds of a few units the controller runs through every
branch: heavy and light steps, the doubled hold and its cap, the reset after a long calm. Two
child slots are enough because a slot is free again once its waiter has come through, and
the sink opens one child at a time. Three seconds allow a recording, a crash, a restart with
a repair, another crash and a second restart; a copy that lacks one frame of two is one that loses some and
keeps some (97 percent of the bytes is a bound on bytes: a theorem covers any `MaxTrim`). In the settings, two actors and
two readers let an edit and two loads meet one damaged file. Four edits let a recovery read the
backup, a save replace the file, another renew the backup, and the recovery write the older one
back: with three it cannot be seen that this loses an edit. The same invariants were run with the
file damaged twice (2.4 million states), and are proved without bounds.
Windows do not see one another but through the rig, so one is enough; other windows, the deck and
timers are `OtherChange`. A queue of one (64 in the code) is full with the first frame; the
invariants were also run with a queue of two and three events (17 million states).
In the camera, two requests are off and on again or a choice of camera beside one of
them; one fault is a writer that dies or a camera that goes; the invariants were also run with two
faults and with requests that change nothing (3.5 million states), and they are theorems. Two clients that use the switch at once are a case
of their own (section 6), so the liveness properties are checked with one.
Behaviours end where
the bounds end, so deadlock is not checked in the bounded models; `AdaptController`,
`PipeSink` and `ProgramCamera` go on for ever within theirs, and there it is.

Every property is checked for its power: for each, `PROJECT.json` names a changed definition
(a dropped guard, a forgotten reset, an off-by-one) under which TLC reports it violated. The
changed definitions stand in the modules, marked `Mutant`.

## 4. Fairness

- `CutOver`: weak fairness of `Pass` and `Tick`. The clock is the wall clock; `_supervise` ticks
  every 250 ms and survives exceptions. Nothing is assumed of the encoders: they may stay
  silent for ever.
- `Supervisor`: weak fairness of the three parts of a pass (strong for the part that finds the
  backoff over: the time to wait is finite, but passes before it ends change nothing), strong
  fairness of each exit handler (it waits for a lock that passes take and release again and
  again), weak fairness of each stream-retire thread, and of `SwitchCompletes`: a pending
  swap is decided. The last is `SwapDecided` of `CutOver`; troubles are bounded, so after the
  last of them the decision is a completion.
- `AdaptController`: time passes and the supervisor looks. The link's behaviour is the
  antecedent of each liveness property; `GivesWay` also assumes that nothing resets the
  controller any more.
- `PipeSink`: time, the waiter and writer threads; strong fairness of opening, because a sink is
  opened at a keyframe with the backoff over and keyframes keep coming.
- `Recording`: the recovery thread goes on. Nothing is assumed of the disk: a repair may fail
  every time.
- `Settings`: a thread in `flush` or in a save goes on; a thread that waits for the save lock
  gets it (strong fairness, since others keep taking it). Nothing is assumed of the disk.
- `Hub`: the hub's thread runs and the rig answers; a request once made is carried on; frames
  reach a window that is online; timers fire. That a window stays online is the antecedent of
  `Converges`.
- `ProgramCamera`: the engine's thread goes on, the monitor and the reader watch run, requests are
  carried on, a stop is waited for, and time passes: a debounce that nothing interrupts ends
  (strong fairness of `Elapse`, since scans may interrupt it), and the guard's pause ends (strong
  fairness of `GuardAllows`). Cameras, readers and demands do as they like.

## 5. What is proved

TLAPS checks these theorems for every value of the constants that meets the named
assumptions of the modules.

*CutOverProofs* (from `SwitchAssumption`, `CutOverAssumption`: the limits are natural numbers,
a frame has a length): `TypeCorrect`, `KeyframeCut`, `OutputInOrder`, `NoEncoderForgotten`,
`SwitchImplementsHandover`. None of the properties is inductive. `SInv` adds what they depend
on: which generation owns the blocks of each list (`Owned`), how their stamps compare with
the last one sent and with the clock (`Stamped`), that staged blocks begin with a keyframe
later than all that was sent (`Synced`), that what is on air began with a keyframe (`OnAir`),
and that an encoder not yet on air is younger than all that was sent (`Fresh`). The argument
follows the code: `Forward` keeps the core for any set of blocks of the generation on air
(`ForwardCore`); `AbortSwap` and `Finish` are such a `Forward` with a change of roles
(`AbortInv`, `FinishInv`); every handler is one of them or nothing. The change of roles, `Roles`,
is at the same time what the refinement of `Handover` needs.

The last theorem of the module is `NothingIsLost` (from the same assumptions, on top of `IInv`). A block the
switch drops must come before its generation's first keyframe, or be replaced by the keyframe of a newer encoder, one of a later generation. `Covered` says so of every
block seen. It stays true because the hold leaves no gap: once a block is held every later one of its
encoder is, and none is older than what was sent (`HeldLate`); every block of a pending encoder since its
keyframe is staged (`Waits`); and what is sent follows the head (`Headed`). The block hardest to account for
comes late, from an encoder that has left the air: unless it died or was replaced by a timeout, it had come
within a frame of the keyframe of a newer encoder that replaced it (`Relieved`), so what it still delivers is not
older than that keyframe by a frame. `CaughtUp` in the code is there for this.

*ChainProofs* (from `ChainAssumption`: the bounds are natural numbers): `ChainTypeCorrect`,
`SinksDecode`, `SinksUnbroken`, `MergerWaits`, `CutsAreTold`, for any number of encoders, sinks and blocks.
The first four rest on `ChainInv`, which speaks of the merger and of each sink. The heap is sorted by
stamp, yet a track's blocks leave it by number and arrival (`InTurn`), none is missing behind one that waits
(`Whole`), and pictures of another encoder have that encoder's keyframe between (`KeyBetween`). What a sink has
and what waits for it continue one another (`InRow`, `NoGap`), and what waits can be decoded with what it has
(`KeyedNext`). The last clause of `ChainInv` is for what `_deliver` drops while no track entry is known: no sink is
open then, so none misses it. The last theorem adds `FitInv`: of the generations begun the newest is the one that
waits (`Ranked`); the one on air is that of `self.video` or went on air without a cut (`Shown`); nothing
in the merger is ahead of `self.video` (`Announced`); and an open sink can take whatever it has, the entry in
force, and what waits for it (`Fits`). So `adopt_geometry` is in time because `_on_retire` calls it before
the blocks of the new encoder are polled. A call pushes several blocks and a poll takes several out
(`PushAll`, `AfterPump`, recursive functions). The library's induction theorems take an operator as parameter, so the
module has its own with a set (`Least`, `UpTo`); `StepByStep` shows that a function defined by a
first value and a step exists, and the invariants are carried from one step to the next, with sinks that have
been given the first blocks of the queue only (`XInv`, whose `i` says how many).

*SupervisorProofs*, of `AdaptController` (from `AdaptAssumption`): `AdaptTypeCorrect`, `CalmBeforeUp`,
`BackOffAfterFlap`. That module extends both halves of the supervision pass, which is why the
controller's specification is called `AdaptSpec`. The
invariant `LadderInv` ties the code's calm spell to what happened on the link: it is never older
than the last round that was not ok, nor than the last step up; and as long as a failed
recovery is remembered the hold factor is at least two (or at its cap).

*SettingsProofs* (from `WriterAssumption`), of the writer alone: `WriterTypeCorrect`,
`ReadersSeeNewest`, `FileNeverOlder`, `AcknowledgedIsSaved`. The invariant `WInv` says that a document
being saved lies between the file and the newest one (`Between`), and that documents only grow
(`Nested`); `AckInv` adds that an action which is saving published its edit no later than the number it took.

The same module proves of the writer over the directory, for any number of damages, recoveries and
power cuts: `StoreTypeCorrect`, `StoreReadersSeeNewest`, `StoreAcknowledgedIsSaved`,
`StoreNeverOlder`, `DirectoryIsAtomic`. There documents do not only grow, since a recovery may write back an
older backup, so `SInv` speaks of numbers instead: no name and no recovery under way holds an edit
newer than the last one written (`Docs`, `Written`), while the document being saved holds every edit
up to its number that is not known to be lost (`Saving`). `Saved(X)` says of a set of edits that they are
in what a load gives now and in what it would give after a power cut that leaves a file. Every step
on a file carries every such set along (`FilesKeep`, `ReplaceSteps`, `RestartSteps`), so it is enough
that the directory's fsync makes the document being saved one (`SyncDirSteps`), before `Leave`
acknowledges it. An action that finds nothing left to do may say "saved" because its edit is in nobody's file
only while it is still in memory (`Due`). Damage takes the backup along as long as the two names are one
inode; that it takes nothing more needs `Renewed`: while the file is the one last synced, a backup
that is newer is that same file. A save that links a misshapen file over the backup loses what the backup
held, and nothing else: it is the one step of a save whose loss is counted. Without damage nothing is ever bad or recovered (`Undamaged`), from
which each step on the names is one of `LatestWriter`. The attempt to prove `StoreNeverOlder` found
a loss that the model did not count (the recovery above).

*CameraProofs* (from `EngineAssumption`, `ProgramAssumption`: the cameras have names of their own
and the bounds are numbers): `CameraTypeCorrect`, `OneWriterAlways`, `RestCovered`. `OneWriter`
depends on where the engine's thread is: from the guard's consent to the end of the child the
slate shows nothing (`Writers`), because consent clears it, only the thread itself and a rest put
it back, and a rest waits for the thread. `RestIsCovered` depends on four parties keeping out of
the governor's way: a request of the switch has just reset its debounce and no time passes before
it acts (`Awake`), nor before a pass that found the camera unwanted has cleared the slate
(`Leaving`); and only a wanted engine rests, with its thread over (`AtRest`). The proof has one step
per action and under it one per part of the invariant.

*PipeSinkProofs* (from `PipeSinkAssumption`): `SinkTypeCorrect`, `OnlyWholePictures`. A picture handed
to ffmpeg was in a queue before, so `Decodable` is strengthened to all that waits in the queues
(`Wholes`); and a picture may be put in a queue because the sink, once it dropped one, waits for a
keyframe (`Marked`), which holds for the child it has, whatever the waiter threads of its former
children still do to it.

*SupervisorProofs*, of `Supervisor` (from `SupervisorAssumption`): `NoProcessLeaks`, `ExclusiveHasOneReader`,
`RunTellsWhatIsSent`, `SharedTriedTwice`. The handlers are compositions of operators on `State`, so the invariant is a predicate of a state,
`Good`, with a lemma for each operator (`SpawnKeeps`, `RetireKeeps`, `SwapVideoKeeps`, `ReviveKeeps`
...) and one for a handler that commits a good state (`CommitGood`). Every running process is listed
in the run or being stopped, and a flagged one that still runs is being stopped (`Held`); the number of
the next generation is new (`Known`); on an exclusive device two readers are the same (`Alone`), because
whoever spawns has retired the others (`StopOldFrees`) or found none alive. The first two theorems
use nothing of what the switch decides. The other two do, but only that nobody comes on air who did
not wait for it (`From`, `EndedFrom`): between swaps whoever is alive in either role was made with the
run's settings, and during one so was whoever is on air before it (`Matches`). A restart needs that
nobody alive is left, which follows from the leak invariant (`AliveListed`). Where the attempt is
carried along it bounds the tries (`Counted`).

*RecordingProofs* (from `RecordingAssumption`): `RecordingTypeCorrect`, `KeptByOneSink`,
`NoCrashForgotten`. A frame stays because nothing opens a file that holds one: the segment a sink will
open is empty (`Fresh`, `Sinks`), unless a second sink was made for the name; the recovery thread works
on names older than the clock and than the recording that runs (`Apart`, `Named`), since a boot takes
more than a second; and a repair removes an empty file only, or replaces it by a copy that has some of its frames
(`RepairedFile`). What such a copy lacks is counted (`Kept`), and only recordings that a start found unfinished
have one (`Given`). A crash is found
because a running recording has a marker or could not get one (`Marked`) and the thread takes one away only when
every file it has been through is settled (`Dealt`), also when an OSError ends its work on a recording.

*HubProofs* (from `HubAssumption`: the bounds are numbers, there is a value): `HubTypeCorrect`,
`NewestReachesWindows`, `PressHeldUntilSeen`. For the first of the two properties `Offer` is taken apart: the newest
state frame of a queue survives any other frame, unless it was the oldest one of a full queue
(`OfferCarries`), and taking a frame leaves it in the queue or on the window's page (`TailCarries`). For the
second, `Newer(n, v)` says of a number and a version that every snapshot numbered from n on holds version v or a
later one: those being built, the newest one, the frames queued and what the windows show that have missed none. An
acknowledgement raises the number of a window's picture without bringing one, so `Told` says that each ack in a
queue finds the window with the picture it confirms (`TellShown`), and that the last one confirms the newest
(`TellNewest`), unless a full queue dropped a snapshot. Every step
carries every such pair along (`Carry`), so it is enough to make them: `Mark` gives a post a number nobody has
yet (`NewerAhead`), and the rig has the post's version by then (`Posted`). The answer passes the pair on to the
hold, and the hold's end to the number of the window's picture (`Promised`, `NewerLater`). Two facts
about the connection close the invariant: who presses or is online has a picture (`Pictured`), and a
window waits for the snapshot it builds (`Building`).

Only model-checked: liveness (the properties section 3 lists beyond those named above), since proofs under fairness
and `ENABLED` are out of this prover's reach. No module has a `RECURSIVE` operator; the recursive functions are reasoned
about as described for `ChainProofs`.

## 6. Where the code and its documentation differ

Three have a run in which TLC prints the steps.

- *A moved recording is truncated* (`recording_moved`). After a codec change `_move` makes a new
  `FileSink` for the same path; its first keyframe opens the file with `"wb"`.
- *Effective settings* (`effective_is_sent`). `set` assigns `_effective` before `_apply_change`
  refuses with 409, so `state` reports settings nobody sends.
- *Off, and yet on air* (`camera_off`). `_run` asks the guard, for up to four seconds, and does not
  look at `_halt` again before it starts the child. A `stop` in between finds no process, its join
  gives up after seven seconds, and the page is told "Program camera off" while the new child
  writes the node. Switched on again, `start` finds the thread alive and does nothing; when that
  child ends, the thread ends with it and nobody starts another.

These are stated in the modules and refuted by TLC when they are added to a run as an invariant
(`OnlyChild`, `SinkReconnects`, `NewestKept`, `HeldThroughLoss`, `SpecTaken`) or property
(`QuarantinesDamaged`, `BackupStaysGood`):

- *The late exit of a replaced ffmpeg* (`OnlyChild` in `PipeSink`). `_exited` (sinks.py:214) looks at
  the child the sink has now, not at the one that exited; the new one is forgotten while it runs.
- *A new size without a cut* (`SinkReconnects` in `Chain`). When no generation is on air (the
  encoder died or was stopped to free its device) `begin_swap` (relay.py:99) puts the next one on
  air at once and hands nobody back, so `adopt_geometry` is not called: sinks are given pictures of
  another size under the old header, where the decision record has every sink reconnect.
- *A lost change of camera* (`SpecTaken` in `ProgramCamera`). `set_spec` after `_run_child` has read
  the spec (process.py:459) and before the process is known terminates nothing; the child reads the
  old camera, and setting the same spec again does nothing.
- *The newest state is dropped* (`NewestKept` in `Hub`). A toast on a full queue takes the place of the
  oldest frame, which may be the only state frame; hub.py:36 calls that loss free.
- *An ack ends a hold on the old picture* (`HeldThroughLoss` in `Hub`). When the snapshot that holds a press
  was dropped like that, a later snapshot that found no change is pushed as its number alone; the page ends the
  hold by that number (store.js:245-249) and shows the picture it had before the press.
- *A good file is quarantined* (`QuarantinesDamaged` in `Settings`). `quarantine` moves whatever has
  the name by then, also a document saved after the damage was found.
- *A bad file becomes the backup* (`BackupStaysGood` in `Settings`). `_keep_backup` keeps a file that
  `_parses` (store.py:267-272), a load wants one that also validates (store.py:329-335): a hand edit that leaves JSON
  of the wrong shape is linked over the last good backup by the next save. It takes an edit published before the
  damage, since one that loads the bad file recovers it first.

Seen on the way, represented in the models:

- `_replan` swaps without asking whether a swap is in flight, and `_apply_change` asks the run but
  not the switch, which a revived encoder may keep busy; `begin_swap` then raises and
  `run.pending` is overwritten (`overlap` in `Supervisor`). `NoLeak`, `SwapSettled` and `ComesBack`
  hold nevertheless; `RunIsOnAir` excepts it.
- On an exclusive device `Pending` is made without the attempt, so a change that fails is tried
  without end; the decision record promises one retry. `SharedRetriedOnce` excepts such devices.
- A block of the raw microphone that comes in late and is older than a live block stays in front
  of it in the heap, which the comment on the merger's wait does not allow for; `WaitsAtMost`
  excepts it.
- A keyframe of the old encoder that is still in the merger when the header changes may open a
  sink with the new header; `CutReachesSinks` looks at newer pictures only.
- Sound that begins after `set_audio(None)` reaches sinks whose header declares none.
- On an exclusive device the retry starts while a stream-retire thread is still stopping the
  encoder given up; `OneReader` excepts encoders that are being stopped, so this overlap is not caught.
- A late progress line of a replaced ffmpeg resets the backoff of its successor (`Line`); no property sees it.
- A picture shown twice at a cut, by the old encoder and by the new within half a frame, would be seen by no
  property: `InOrder` sees only that time does not run backwards.
- A repaired copy replaces the fsynced original without an fsync of its own, and may lack up to 3 percent of
  its bytes (recover.py:193), as `docs/stream.md` says. `KeptByItsSink` excepts what it lacked (`trimmed`).
- When the marker cannot be written (`_mark_recording`, service.py:1349) the person is told and the recording goes on; a
  crash of it is not found. `CrashIsFound` excepts it, and a marker that a power cut took (`unmarked`).
- Without ffmpeg, markers are left to the next start; an OSError in a repair leaves the remaining files of that
  recording to it. `OrphansHandled` speaks of what the recovery thread was given.
- Recordings are named to the second: stopped and started again within one, the second
  truncates the first. `KeptByItsSink` excepts names a second sink was made for (`reopened`).
- A failed save drops the edits of other actions that were in the same document, and their
  `flush` returns without an error; `AckIsSaved` excepts them (`dropped`).
- A kill between quarantine and restore, or a restore that fails, leaves no file, and a missing file is
  not recovered from its good `.bak`: the next load gives the defaults. An edit that loads while
  another thread restores starts from the defaults too. Both are in `dropped`.
- A recovery that read the backup while another thread went on saving writes it back over whatever
  has the name by then, or in its place if that was quarantined; the edits the older backup
  lacks go with it. These are in `dropped` too.
- `fresh_json` takes `_ack_wanted` with it (hub.py:182), so a GET between an action and the next
  snapshot swallows the acknowledgement `mark` announced; the hold then lasts until its ceiling.
- A window fetches the state and then subscribes: it may be handed an older snapshot than the one it
  has (`behind`). A post that fails releases the control whoever holds it, so also a newer press.
- `_enter_idle`, `_virtualcam` and the answers after them take `stop` at its word. After a stop whose
  join gave up, slate and child may both write the node; `OneWriter` and `RestIsCovered` say
  nothing from then on (`late`).
- A monitor's pass that read `wanted` as off and is slower than the idle debounce is not modelled: `Elapse` waits for
  it, as it waits for a request that has just reset the debounce. A slate that cannot start is one that dies.
- Two pages that use the switch at once may leave `_wanted` true with the engine stopped: the flag is
  set under the lock, `start` and `stop` are called after it. Nobody starts the engine then.

## 7. Plan

In the order of importance; done so far: the switch, the chain, the supervisor, the controller, the
pipe sink, recordings, settings files and their store, the hub, the program camera, and the proofs
above.

1. `Replay`: the group buffer with its two bounds, and saving while the relay writes.
2. `SrtIngest`: child, waiter and re-listen, as `PipeSink`.
3. The audio generation's swap, several runs at once with moving destinations, and shutdown
   without the service's lock, in `Supervisor`.
4. `plan_chains` as an operator against a reference definition; `classify_change`.
5. Call awareness (`callstate.py`) and safe join, and the light automation's journal.
6. Proofs: the action properties and invariants of the modules above, as they come.
