------------------------------ MODULE Recording ------------------------------
(***************************************************************************)
(* A Matroska recording from start to repair: start_record, stop_record    *)
(* and _move of stream/service.py, FileSink of stream/sinks.py, the marker *)
(* beside the file and the recovery thread of stream/recover.py, with the  *)
(* process killed and the power cut at any point.                          *)
(*                                                                         *)
(* A file holds frames, some of them on stable storage.  A killed process  *)
(* loses none of them; a power cut may lose those that were not synced.    *)
(***************************************************************************)
EXTENDS Integers, FiniteSets

CONSTANTS
  MaxFrame,   \* bound: frames recorded in all
  MaxSeg,     \* bound: segments of one recording
  MaxStamp,   \* bound: seconds of the clock that names recordings
  MaxTrim,    \* frames a copy with MIN_KEPT_RATIO of a file's bytes may lack
  Codec       \* codecs the host can encode

ASSUME RecordingAssumption ==
  /\ MaxFrame \in Nat /\ MaxSeg \in Nat \ {0} /\ MaxStamp \in Nat \ {0} /\ MaxTrim \in Nat
  /\ Codec # {}

Frame == 1 .. MaxFrame
Seg == 1 .. MaxSeg
Name == 1 .. MaxStamp     \* a recording is named after the second it starts in
NoName == 0

VARIABLES
  disk,      \* disk[n][s]: segment s of recording n
  marker,    \* marker[n]: the boot whose process wrote n's marker, 0 for none
  boot,      \* boots so far; the process runs iff up
  up,
  stamp,     \* the clock
  active,    \* the recording that runs, its FileSink and its Attached.started
  late,      \* a second has passed since the sink's last fsync
  rec,       \* the recovery thread
  frame,     \* frames so far
  unmarked,  \* history: recordings whose marker could not be written, or a power cut took
  accepted,  \* history: accepted[n]: what recording n accepted and no power cut took
  trimmed,   \* history: trimmed[n]: what the copies that replaced n's files lacked
  orphaned,  \* history: recordings the recovery thread was given
  reopened   \* history: recordings a second FileSink was made for

past == <<unmarked, accepted, trimmed, orphaned, reopened>>
vars == <<disk, marker, boot, up, stamp, active, late, rec, frame, past>>

\* settled: closed by an orderly stop, or dealt with by a repair.
NoFile == [exists |-> FALSE, frames |-> {}, synced |-> {}, settled |-> FALSE]
EmptyFile == [NoFile EXCEPT !.exists = TRUE]
Holding(f) == [EmptyFile EXCEPT !.frames = {f}]

\* segment: FileSink._segment + 1, the one the next open makes.
NoSink == [name |-> NoName, codec |-> "none", segment |-> 1, open |-> 0]
NoRepair == [name |-> NoName, segs |-> {}, failed |-> FALSE, todo |-> {}]

Init ==
  /\ disk = [n \in Name |-> [s \in Seg |-> NoFile]]
  /\ marker = [n \in Name |-> 0]
  /\ boot = 1 /\ up = TRUE /\ stamp = 1
  /\ active = NoSink /\ late = FALSE /\ rec = NoRepair
  /\ frame = 0 /\ unmarked = {} /\ accepted = [n \in Name |-> {}] /\ reopened = {}
  /\ trimmed = [n \in Name |-> {}] /\ orphaned = {}

Stored(n) == UNION {disk[n][s].frames : s \in Seg}
Recording == active.name # NoName
-----------------------------------------------------------------------------
\* FileSink._close_locked: the open segment is synced.
Closed(d) ==
  IF active.open = 0 THEN d
  ELSE [d EXCEPT ![active.name][active.open].synced = d[active.name][active.open].frames]

\* _mark_recording: the marker is written over the one that is there, or that
\* fails, the person is told and the recording goes on.
Mark(n) ==
  /\ marker' \in {marker, [marker EXCEPT ![n] = boot]}
  /\ unmarked' = IF marker'[n] = 0 THEN unmarked \cup {n} ELSE unmarked \ {n}

\* start_record: the marker first; the file is made at the first keyframe.
StartRecord(c) ==
  /\ up /\ ~ Recording
  /\ active' = [NoSink EXCEPT !.name = stamp, !.codec = c]
  /\ Mark(stamp)
  /\ reopened' = IF disk[stamp][1].exists THEN reopened \cup {stamp} ELSE reopened
  /\ UNCHANGED <<disk, boot, up, stamp, late, rec, frame, accepted, trimmed, orphaned>>

\* Mutant: a new segment opens the file the last one was written to.
OpenSameFile(a) == [a EXCEPT !.open = a.segment]

\* Mutant: the counter is advanced before the file is named.
OpenNext(a) == [a EXCEPT !.open = a.segment + 1, !.segment = a.segment + 1]

\* FileSink.open made a file of the next segment.
Open(a) == [a EXCEPT !.open = a.segment, !.segment = a.segment + 1]

\* A keyframe reaches a sink that is not started: open truncates its target.
\* The frame is written after the header; or the disk refuses the file or its
\* header, and the next keyframe tries again; or it refuses the frame, and the
\* file of this segment stays with its header alone.
Begin ==
  LET a == Open(active)
      f == frame + 1
  IN
  /\ up /\ Recording /\ active.open = 0 /\ active.segment <= MaxSeg /\ frame < MaxFrame
  /\ frame' = f
  /\ late' = FALSE
  /\ \/ /\ active' = a
        /\ disk' = [disk EXCEPT ![a.name][a.open] = Holding(f)]
        /\ accepted' = [accepted EXCEPT ![a.name] = @ \cup {f}]
     \/ /\ disk' \in {disk, [disk EXCEPT ![a.name][a.open] = EmptyFile]}
        /\ UNCHANGED <<active, accepted>>
     \/ /\ active' = [a EXCEPT !.open = 0]
        /\ disk' = [disk EXCEPT ![a.name][a.open] = EmptyFile]
        /\ UNCHANGED accepted
  /\ UNCHANGED <<marker, boot, up, stamp, rec, unmarked, trimmed, orphaned, reopened>>

\* FileSink.write: synced when the last fsync is a second old.
WriteFrame ==
  LET f == frame + 1
      d == [disk EXCEPT ![active.name][active.open].frames = @ \cup {f}]
  IN
  /\ up /\ active.open # 0 /\ frame < MaxFrame
  /\ frame' = f
  /\ disk' = IF late THEN Closed(d) ELSE d
  /\ late' = FALSE
  /\ accepted' = [accepted EXCEPT ![active.name] = @ \cup {f}]
  /\ UNCHANGED <<marker, boot, up, stamp, active, rec, unmarked, trimmed, orphaned, reopened>>

\* The disk refuses a frame, or the picture format changes: the file is closed
\* and the next keyframe opens another segment.
CloseSegment ==
  /\ up /\ active.open # 0
  /\ disk' \in {Closed(disk), disk}    \* the fsync may fail too: suppressed
  /\ active' = [active EXCEPT !.open = 0]
  /\ UNCHANGED <<marker, boot, up, stamp, late, rec, frame, past>>

\* _move: the recording goes to the chain of another codec, in a new FileSink
\* with the same path, or nowhere when no encoder of that codec can run.
Move(c) ==
  /\ up /\ Recording /\ c # active.codec
  /\ disk' = Closed(disk)
  /\ \/ /\ active' = [NoSink EXCEPT !.name = active.name, !.codec = c]
        /\ Mark(active.name)
        /\ reopened' = reopened \cup {active.name}
     \/ active' = NoSink /\ UNCHANGED <<marker, unmarked, reopened>>
  /\ UNCHANGED <<boot, up, stamp, late, rec, frame, accepted, trimmed, orphaned>>

Settled(d, n) == [d EXCEPT ![n] = [s \in Seg |-> [d[n][s] EXCEPT !.settled = d[n][s].exists]]]

\* stop_record, the disk guard and an orderly shutdown: the sink is closed, the
\* marker removed, or it stays because that failed.
StopRecord ==
  /\ up /\ Recording
  /\ disk' = Settled(Closed(disk), active.name)
  /\ marker' \in {marker, [marker EXCEPT ![active.name] = 0]}
  /\ active' = NoSink
  /\ UNCHANGED <<boot, up, stamp, late, rec, frame, past>>

\* Time passes: the next recording gets another name.
Second ==
  /\ up /\ (stamp < MaxStamp \/ ~ late)
  /\ stamp' = IF stamp < MaxStamp THEN stamp + 1 ELSE stamp
  /\ late' = (active.open # 0)
  /\ UNCHANGED <<disk, marker, boot, up, active, rec, frame, past>>
-----------------------------------------------------------------------------
(* Crashes.                                                                *)

Down ==
  /\ up' = FALSE /\ active' = NoSink /\ rec' = NoRepair /\ late' = FALSE
  /\ UNCHANGED <<boot, stamp, frame, trimmed, orphaned, reopened>>

Kill == up /\ Down /\ UNCHANGED <<disk, marker, unmarked, accepted>>

\* A file keeps what was synced, and the rest or not; so does a marker, which
\* is never synced.
PowerCut ==
  /\ up /\ Down
  /\ \E gone \in {{}, {n \in Name : marker[n] # 0}} :
       /\ marker' = [n \in Name |-> IF n \in gone THEN 0 ELSE marker[n]]
       /\ unmarked' = unmarked \cup gone
  /\ \E lose \in BOOLEAN :
       disk' = [n \in Name |-> [s \in Seg |->
                 IF lose THEN [disk[n][s] EXCEPT !.frames = disk[n][s].synced] ELSE disk[n][s]]]
  /\ accepted' = [n \in Name |-> accepted[n] \cap UNION {disk'[n][s].frames : s \in Seg}]

\* A restart takes more than the second recordings are named after.  The
\* markers are looked for once; without ffmpeg they are left to the next start.
Boot ==
  LET orphans == {n \in Name : marker[n] # 0} IN
  /\ ~ up /\ stamp < MaxStamp
  /\ up' = TRUE /\ boot' = boot + 1 /\ stamp' = stamp + 1
  /\ \/ /\ rec' = [NoRepair EXCEPT !.todo = orphans]
        /\ orphaned' = orphaned \cup orphans
     \/ UNCHANGED <<rec, orphaned>>
  /\ UNCHANGED <<disk, marker, active, late, frame, unmarked, accepted, trimmed, reopened>>
-----------------------------------------------------------------------------
(* The recovery thread: recover_orphans, recover.                          *)

\* _segments of the next orphan; without any its marker goes.
RepairStart(n) ==
  LET files == {s \in Seg : disk[n][s].exists} IN
  /\ up /\ rec.name = NoName /\ n \in rec.todo
  /\ IF files = {}
     THEN /\ marker' \in {marker, [marker EXCEPT ![n] = 0]}
          /\ rec' = [rec EXCEPT !.todo = @ \ {n}]
     ELSE /\ rec' = [rec EXCEPT !.name = n, !.segs = files, !.failed = FALSE, !.todo = @ \ {n}]
          /\ UNCHANGED marker
  /\ UNCHANGED <<disk, boot, up, stamp, active, late, frame, past>>

\* Copies of a file with these frames that have MIN_KEPT_RATIO of its bytes: all
\* but a few of the frames, and some of them.
Copies(frames) ==
  {g \in SUBSET frames : Cardinality(frames \ g) <= MaxTrim /\ (frames # {} => g # {})}

\* What becomes of one file: kept as it is when it cannot be read or ffmpeg
\* fails; kept, with the copy beside it, when the copy looks smaller; replaced
\* by a copy that looks whole, which was not fsynced; removed when it is empty.
Repaired(f) ==
  LET done == [f EXCEPT !.settled = TRUE] IN
  {[file |-> f, failed |-> TRUE],
   [file |-> done, failed |-> FALSE]}
  \cup {[file |-> [done EXCEPT !.frames = g, !.synced = {}], failed |-> FALSE] :
          g \in Copies(f.frames)}
  \cup {[file |-> NoFile, failed |-> FALSE] : x \in {g \in {f} : g.frames = {}}}

RepairFile(s) ==
  /\ up /\ rec.name # NoName /\ s \in rec.segs
  /\ \E out \in Repaired(disk[rec.name][s]) :
       /\ disk' = [disk EXCEPT ![rec.name][s] = out.file]
       /\ rec' = [rec EXCEPT !.segs = @ \ {s}, !.failed = @ \/ out.failed]
       /\ trimmed' = [trimmed EXCEPT ![rec.name] =
                        @ \cup (disk[rec.name][s].frames \ out.file.frames)]
  /\ UNCHANGED <<marker, boot, up, stamp, active, late, frame>>
  /\ UNCHANGED <<unmarked, accepted, orphaned, reopened>>

\* Mutant: the marker goes although a repair failed.
KeepsMarkerNever(r) == FALSE

\* A recording with a failed repair keeps its marker: tried again at next start.
KeepsMarker(r) == r.failed

\* Mutant: a failed repair is tried again in the same boot.
NextOrphanRetries(r) ==
  [r EXCEPT !.name = NoName, !.segs = {}, !.failed = FALSE,
            !.todo = IF r.failed THEN @ \cup {r.name} ELSE @]

\* recover_orphans goes on, whatever came of this one.
NextOrphan(r) == [r EXCEPT !.name = NoName, !.segs = {}, !.failed = FALSE]

RepairEnd ==
  /\ up /\ rec.name # NoName /\ rec.segs = {}
  /\ marker' = IF KeepsMarker(rec) THEN marker ELSE [marker EXCEPT ![rec.name] = 0]
  /\ rec' = NextOrphan(rec)
  /\ UNCHANGED <<disk, boot, up, stamp, active, late, frame, past>>

\* An OSError in recover: its remaining files are left, and its marker stays.
RepairRaises ==
  /\ up /\ rec.name # NoName
  /\ rec' = NextOrphan(rec)
  /\ UNCHANGED <<disk, marker, boot, up, stamp, active, late, frame, past>>

Next ==
  \/ \E c \in Codec : StartRecord(c) \/ Move(c)
  \/ Begin \/ WriteFrame \/ CloseSegment \/ StopRecord \/ Second
  \/ Kill \/ PowerCut \/ Boot
  \/ \E n \in Name : RepairStart(n)
  \/ \E s \in Seg : RepairFile(s)
  \/ RepairEnd \/ RepairRaises

Spec == Init /\ [][Next]_vars

\* The recovery thread keeps going once the service is up for good.
FairSpec ==
  /\ Spec
  /\ \A n \in Name : WF_vars(RepairStart(n))
  /\ \A s \in Seg : WF_vars(RepairFile(s))
  /\ WF_vars(RepairEnd)
-----------------------------------------------------------------------------
File == [exists : BOOLEAN, frames : SUBSET Frame, synced : SUBSET Frame, settled : BOOLEAN]
Sink == [name : Name \cup {NoName}, codec : Codec \cup {"none"}, segment : 1 .. MaxSeg + 1,
         open : Seg \cup {0}]
Repair == [name : Name \cup {NoName}, segs : SUBSET Seg, failed : BOOLEAN, todo : SUBSET Name]

TypeOK ==
  /\ disk \in [Name -> [Seg -> File]]
  /\ \A n \in Name, s \in Seg :
       /\ disk[n][s].synced \subseteq disk[n][s].frames
       /\ (disk[n][s].frames # {} => disk[n][s].exists)
  /\ marker \in [Name -> 0 .. boot] /\ boot \in Nat /\ up \in BOOLEAN /\ stamp \in Name
  /\ active \in Sink /\ rec \in Repair
  /\ unmarked \subseteq Name
  /\ late \in BOOLEAN /\ frame \in 0 .. MaxFrame
  /\ accepted \in [Name -> SUBSET Frame] /\ trimmed \in [Name -> SUBSET Frame]
  /\ orphaned \subseteq Name /\ reopened \subseteq Name

(* "A recording is meant to survive a bad day": every frame a recording      *)
(* accepted is in one of its files, while it runs, over changes of picture  *)
(* and disk errors, after it was saved, after a kill and all through the    *)
(* repair, except for what a copy with MIN_KEPT_RATIO of the bytes lacked.  *)
RecordedIsKept == \A n \in Name : accepted[n] \subseteq Stored(n) \cup trimmed[n]

(* The same for every recording that one FileSink wrote from start to end.  *)
(* It has all of its frames as long as no start found its marker left       *)
(* behind; and "Nothing here ever deletes a recording that holds frames":   *)
(* whatever kills, failing repairs and repairs of what was repaired before  *)
(* come after, some of what it accepted is there.                           *)
KeptByItsSink ==
  \A n \in Name \ reopened :
    /\ accepted[n] \subseteq Stored(n) \cup trimmed[n]
    /\ n \notin orphaned => accepted[n] \subseteq Stored(n)
    /\ accepted[n] # {} => Stored(n) # {}

(* "a crash is found and repaired at the next start": whatever the order of *)
(* kills, moves, failed repairs and restarts, a recording without a marker  *)
(* has no file that holds frames and was neither closed by an orderly stop  *)
(* nor dealt with by a repair.  Excepted is a recording whose marker could  *)
(* not be written at its start nor by a later move, of which the person was *)
(* told, and one whose marker a power cut took.                             *)
CrashIsFound ==
  \A n \in Name \ unmarked : marker[n] = 0 =>
    \A s \in Seg : disk[n][s].frames # {} => disk[n][s].settled

(* "At the next start the Console looks for markers whose writer is gone":  *)
(* once the service stays up, every marker its start gave to the recovery   *)
(* thread (none when there is no ffmpeg) is taken up, and each of its files *)
(* tried unless an OSError cuts its repair short, whatever recordings start *)
(* meanwhile.                                                               *)
OrphansHandled == <>[]up => <>[](rec = NoRepair)
=============================================================================
