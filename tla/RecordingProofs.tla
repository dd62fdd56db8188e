--------------------------- MODULE RecordingProofs ---------------------------
(***************************************************************************)
(* Theorems about Recording: its types, that a recording one FileSink      *)
(* wrote keeps every frame it accepted but what a repaired copy lacked,    *)
(* and that no crash that left a marker is forgotten.                      *)
(***************************************************************************)
EXTENDS Recording, TLAPS

\* The files are typed; what is synced was written, what was written is there.
Files(d) ==
  /\ d \in [Name -> [Seg -> File]]
  /\ \A n \in Name, s \in Seg :
       /\ d[n][s].synced \subseteq d[n][s].frames
       /\ (d[n][s].frames # {} => d[n][s].exists)

\* They hold the same, synced or not.
Alike(d, e) ==
  \A n \in Name, s \in Seg :
    d[n][s].frames = e[n][s].frames /\ d[n][s].exists = e[n][s].exists
      /\ d[n][s].settled = e[n][s].settled

\* e is d with recording n settled.
SettledAs(d, e, n) ==
  \A m \in Name, s \in Seg :
    /\ e[m][s].frames = d[m][s].frames
    /\ e[m][s].exists = d[m][s].exists
    /\ m = n => e[m][s].settled = d[m][s].exists
    /\ m # n => e[m][s].settled = d[m][s].settled

\* The sink: it writes a segment it has counted, and made, and none while nothing
\* records.
Sinks ==
  /\ ~ Recording => active = NoSink
  /\ active.open < active.segment
  /\ active.open # 0 => disk[active.name][active.open].exists
  /\ ~ up => active = NoSink

\* Recordings are named after seconds that have come, and the one of this second
\* has a first segment if it has any.
Named ==
  /\ active.name <= stamp
  /\ \A n \in Name : marker[n] # 0 => n <= stamp
  /\ \A n \in Name : n > stamp => \A s \in Seg : disk[n][s].frames = {} /\ ~ disk[n][s].exists
  /\ ~ disk[stamp][1].exists => \A s \in Seg : disk[stamp][s].frames = {}
  /\ active.segment > 1 => disk[active.name][1].exists

\* The recovery thread works on recordings of earlier seconds than this one's,
\* and than the one that runs.
Apart ==
  /\ rec.name < stamp /\ \A n \in rec.todo : n < stamp
  /\ Recording => rec.name < active.name /\ \A n \in rec.todo : n < active.name

\* The segment a sink will open next, and those after it, hold nothing.
Fresh ==
  Recording /\ active.name \notin reopened =>
    \A s \in Seg : s >= active.segment => disk[active.name][s].frames = {}

\* A recording that runs has a marker, or could not get one.
Marked == boot > 0 /\ (Recording => marker[active.name] # 0 \/ active.name \in unmarked)

\* The recovery thread works on the recordings it was given, and only theirs were
\* replaced by copies.
Given ==
  /\ rec.todo \subseteq orphaned /\ (rec.name # NoName => rec.name \in orphaned)
  /\ \A n \in Name : trimmed[n] # {} => n \in orphaned

\* What one sink's recording accepted is there, or was lost to a copy; and
\* something of it is there.
Kept ==
  \A n \in Name \ reopened :
    /\ accepted[n] \subseteq Stored(n) \cup trimmed[n]
    /\ accepted[n] # {} => Stored(n) # {}

\* What the recovery thread has been through is dealt with, unless it failed.
Dealt ==
  rec.name # NoName /\ ~ rec.failed =>
    \A s \in Seg \ rec.segs : disk[rec.name][s].frames # {} => disk[rec.name][s].settled

RInv ==
  /\ TypeOK /\ Sinks /\ Named /\ Apart /\ Fresh /\ Marked /\ Dealt /\ Given
  /\ Kept /\ CrashIsFound
-----------------------------------------------------------------------------
LEMMA Numbers ==
  /\ 1 \in Seg /\ 1 \in Name /\ 0 \notin Name /\ 0 \notin Seg
  /\ MaxSeg \in Nat /\ MaxStamp \in Nat
  /\ Name \subseteq Nat /\ Seg \subseteq Nat
BY RecordingAssumption DEF Seg, Name

LEMMA TypedFiles == TypeOK => Files(disk)
BY DEF TypeOK, Files

LEMMA Empties ==
  /\ NoFile \in File /\ EmptyFile \in File
  /\ NoFile.frames = {} /\ NoFile.synced = {} /\ ~ NoFile.exists
  /\ EmptyFile.frames = {} /\ EmptyFile.synced = {} /\ EmptyFile.exists
BY DEF NoFile, EmptyFile, File

\* Files that are alike, one by one.
LEMMA AlikeFile ==
  ASSUME NEW d, NEW e, Alike(d, e), NEW n \in Name, NEW s \in Seg
  PROVE  /\ e[n][s].frames = d[n][s].frames
         /\ e[n][s].exists = d[n][s].exists
         /\ e[n][s].settled = d[n][s].settled
BY DEF Alike

\* Closing the open segment changes what is synced only.
LEMMA ClosedAlike ==
  ASSUME NEW d, Files(d), active.name \in Name \/ active.open = 0, active.open \in Seg \cup {0}
  PROVE  Files(Closed(d)) /\ Alike(d, Closed(d))
<1>1. CASE active.open = 0 BY <1>1 DEF Closed, Alike
<1>2. CASE active.open # 0
  <2> DEFINE a == active.name
  <2> DEFINE o == active.open
  <2> DEFINE c == [d[a][o] EXCEPT !.synced = d[a][o].frames]
  <2>1. a \in Name /\ o \in Seg BY <1>2
  <2>2. c \in File /\ c.frames = d[a][o].frames /\ c.exists = d[a][o].exists
        /\ c.settled = d[a][o].settled /\ c.synced = c.frames
    BY <2>1 DEF Files, File
  <2>3. Closed(d) = [d EXCEPT ![a][o] = c] BY <1>2, <2>1 DEF Closed, Files
  <2> DEFINE e == Closed(d)
  <2> HIDE DEF a, o, c, e
  <2>4. d \in [Name -> [Seg -> File]] BY DEF Files
  <2>5. e \in [Name -> [Seg -> File]] BY <2>1, <2>2, <2>3, <2>4 DEF e
  <2>6. \A n \in Name, s \in Seg :
          e[n][s] = IF n = a /\ s = o THEN c ELSE d[n][s]
    BY <2>1, <2>3, <2>4 DEF e
  <2>7. \A n \in Name, s \in Seg :
          /\ e[n][s].frames = d[n][s].frames /\ e[n][s].exists = d[n][s].exists
          /\ e[n][s].settled = d[n][s].settled
          /\ e[n][s].synced = d[n][s].synced \/ e[n][s].synced = e[n][s].frames
    BY <2>2, <2>6
  <2>8. Files(e) BY <2>5, <2>7 DEF Files
  <2>9. Alike(d, e) BY <2>7 DEF Alike
  <2> QED BY <2>8, <2>9 DEF e
<1> QED BY <1>1, <1>2

LEMMA SettledFile ==
  ASSUME NEW f \in File
  PROVE  LET h == [f EXCEPT !.settled = f.exists] IN
         /\ h \in File /\ h.frames = f.frames /\ h.synced = f.synced
         /\ h.exists = f.exists /\ h.settled = f.exists
BY DEF File

\* Settling a recording keeps what its files hold.
LEMMA SettledKeeps ==
  ASSUME NEW d, Files(d), NEW n \in Name
  PROVE  Files(Settled(d, n)) /\ SettledAs(d, Settled(d, n), n)
<1> DEFINE e == Settled(d, n)
<1> DEFINE g(s) == [d[n][s] EXCEPT !.settled = d[n][s].exists]
<1>1. e = [d EXCEPT ![n] = [s \in Seg |-> g(s)]] BY DEF Settled
<1>2. ASSUME NEW s \in Seg
      PROVE  /\ g(s) \in File /\ g(s).frames = d[n][s].frames /\ g(s).synced = d[n][s].synced
             /\ g(s).exists = d[n][s].exists /\ g(s).settled = d[n][s].exists
  <2>1. d[n][s] \in File BY DEF Files
  <2> QED BY <2>1, SettledFile
<1>3. /\ e \in [Name -> [Seg -> File]]
      /\ \A s \in Seg : /\ e[n][s].frames = d[n][s].frames /\ e[n][s].synced = d[n][s].synced
                        /\ e[n][s].exists = d[n][s].exists /\ e[n][s].settled = d[n][s].exists
      /\ \A m \in Name \ {n} : e[m] = d[m]
  <2> HIDE DEF g
  <2> QED BY <1>1, <1>2 DEF Files
<1>4. Files(e) /\ SettledAs(d, e, n)
  <2> HIDE DEF e
  <2>1. ASSUME NEW m \in Name, NEW s \in Seg
        PROVE  /\ e[m][s].frames = d[m][s].frames /\ e[m][s].synced = d[m][s].synced
               /\ e[m][s].exists = d[m][s].exists
               /\ m = n => e[m][s].settled = d[m][s].exists
               /\ m # n => e[m][s].settled = d[m][s].settled
    BY <1>3
  <2> QED BY <1>3, <2>1 DEF Files, SettledAs
<1> QED BY <1>4

\* A recording that runs has a name, a marker if it could get one, and nothing
\* to do with the recovery thread.
LEMMA Running ==
  ASSUME RInv, Recording
  PROVE  /\ active.name \in Name /\ rec.name # active.name
         /\ marker[active.name] # 0 \/ active.name \in unmarked
<1>1. active.name \in Name BY DEF RInv, TypeOK, Sink, Recording
<1>2. active.name \in Nat BY <1>1, Numbers
<1>3. rec.name < active.name BY DEF RInv, Apart
<1>4. rec.name # active.name BY <1>2, <1>3
<1>5. marker[active.name] # 0 \/ active.name \in unmarked BY DEF RInv, Marked
<1> QED BY <1>1, <1>4, <1>5

\* A step that takes nothing from the files but what a copy lacks, and leaves
\* something where there was something.
LEMMA KeptStep ==
  ASSUME RInv, reopened \subseteq reopened',
         \A m \in Name \ reopened' :
           /\ accepted'[m] \subseteq accepted[m] \cup Stored(m)'
           /\ Stored(m) \cup trimmed[m] \subseteq Stored(m)' \cup trimmed'[m]
           /\ Stored(m) # {} => Stored(m)' # {}
  PROVE  Kept'
<1> SUFFICES ASSUME NEW m \in Name \ reopened'
             PROVE  /\ accepted'[m] \subseteq Stored(m)' \cup trimmed'[m]
                    /\ accepted'[m] # {} => Stored(m)' # {}
  BY DEF Kept
<1>1. /\ accepted[m] \subseteq Stored(m) \cup trimmed[m]
      /\ accepted[m] # {} => Stored(m) # {}
  BY DEF RInv, Kept
<1> QED BY <1>1

\* One that changes no frame of a file.
LEMMA SameFrames ==
  ASSUME RInv, UNCHANGED <<accepted, trimmed>>, reopened \subseteq reopened',
         \A m \in Name, s \in Seg : disk'[m][s].frames = disk[m][s].frames
  PROVE  Kept'
<1>1. \A m \in Name : Stored(m)' = Stored(m)
  <2> SUFFICES ASSUME NEW m \in Name PROVE Stored(m)' = Stored(m) OBVIOUS
  <2>1. Stored(m)' \subseteq Stored(m) BY DEF Stored
  <2>2. Stored(m) \subseteq Stored(m)' BY DEF Stored
  <2> QED BY <2>1, <2>2
<1> QED BY <1>1, KeptStep

\* The marker of a recording is written, or left as it is.
LEMMA MarkStep ==
  ASSUME RInv, NEW n \in Name, n <= stamp, Mark(n)
  PROVE  /\ marker' \in [Name -> 0 .. boot] /\ unmarked' \subseteq Name
         /\ \A m \in Name : marker'[m] # 0 => m <= stamp
         /\ \A m \in Name : marker'[m] = 0 /\ m \notin unmarked' =>
              m # n /\ marker[m] = 0 /\ m \notin unmarked
         /\ marker'[n] # 0 \/ n \in unmarked'
<1> USE Numbers
<1>1. /\ marker \in [Name -> 0 .. boot] /\ boot \in 0 .. boot /\ unmarked \subseteq Name
  BY DEF RInv, TypeOK, Marked
<1>2. /\ marker' \in [Name -> 0 .. boot]
      /\ \A m \in Name \ {n} : marker'[m] = marker[m]
  BY <1>1 DEF Mark
<1>3. unmarked' = IF marker'[n] = 0 THEN unmarked \cup {n} ELSE unmarked \ {n}
  BY DEF Mark
<1>4. \A m \in Name : marker'[m] # 0 => m <= stamp BY <1>2 DEF RInv, Named
<1> QED BY <1>1, <1>2, <1>3, <1>4
-----------------------------------------------------------------------------
LEMMA InitRInv == Init => RInv
<1> SUFFICES ASSUME Init PROVE RInv OBVIOUS
<1> USE Numbers, Empties
<1>1. /\ active = NoSink /\ rec = NoRepair /\ boot = 1 /\ stamp = 1 /\ up
      /\ \A n \in Name, s \in Seg : disk[n][s] = NoFile
      /\ \A n \in Name : marker[n] = 0 /\ accepted[n] = {} /\ trimmed[n] = {}
  BY DEF Init
<1>2. TypeOK
  <2>1. disk \in [Name -> [Seg -> File]] BY DEF Init
  <2>2. active \in Sink BY RecordingAssumption DEF Init, NoSink, Sink
  <2>3. rec \in Repair BY DEF Init, NoRepair, Repair
  <2>4. marker \in [Name -> 0 .. boot] BY DEF Init
  <2>5. frame \in 0 .. MaxFrame BY RecordingAssumption DEF Init
  <2> QED BY <1>1, <2>1, <2>2, <2>3, <2>4, <2>5 DEF Init, TypeOK
<1>3. Sinks /\ Marked BY <1>1 DEF Sinks, Marked, Recording, NoSink, NoName
<1>4. Named BY <1>1 DEF Named, NoSink, NoName
<1>5. Apart /\ Dealt BY <1>1 DEF Apart, Dealt, Recording, NoSink, NoRepair, NoName
<1>6. Fresh BY <1>1 DEF Fresh, Recording, NoSink, NoName
<1>7. Kept /\ CrashIsFound BY <1>1 DEF Kept, CrashIsFound
<1>8. Given BY <1>1 DEF Given, NoRepair
<1> QED BY <1>2, <1>3, <1>4, <1>5, <1>6, <1>7, <1>8 DEF RInv

LEMMA StartRecordKeeps == ASSUME RInv, NEW c \in Codec, StartRecord(c) PROVE RInv'
<1> USE Numbers
<1>0. /\ ~ Recording /\ up /\ stamp \in Name /\ Mark(stamp) /\ stamp <= stamp
      /\ active'.name = stamp /\ active'.open = 0 /\ active'.segment = 1 /\ active'.codec = c
      /\ reopened' = IF disk[stamp][1].exists THEN reopened \cup {stamp} ELSE reopened
      /\ UNCHANGED <<disk, boot, up, stamp, late, rec, frame, accepted, trimmed, orphaned>>
  BY DEF RInv, TypeOK, StartRecord, NoSink
<1>m. /\ marker' \in [Name -> 0 .. boot] /\ unmarked' \subseteq Name
      /\ \A m \in Name : marker'[m] # 0 => m <= stamp
      /\ \A m \in Name : marker'[m] = 0 /\ m \notin unmarked' =>
           m # stamp /\ marker[m] = 0 /\ m \notin unmarked
      /\ marker'[stamp] # 0 \/ stamp \in unmarked'
  BY <1>0, MarkStep
<1>1. TypeOK'
  <2>1. active' \in Sink
    <3>1. active' = [name |-> stamp, codec |-> c, segment |-> 1, open |-> 0]
      BY DEF StartRecord, NoSink
    <3>2. 1 \in 1 .. MaxSeg + 1 BY RecordingAssumption
    <3> QED BY <1>0, <3>1, <3>2 DEF Sink
  <2> QED BY <1>0, <1>m, <2>1 DEF RInv, TypeOK
<1>2. Sinks' BY <1>0 DEF Sinks, Recording, NoName
<1>3. Named' BY <1>0, <1>m DEF RInv, TypeOK, Named
<1>4. Apart' BY <1>0 DEF RInv, Apart
<1>5. Fresh' BY <1>0 DEF RInv, Named, Fresh
<1>6. Marked' BY <1>0, <1>m DEF RInv, Marked
<1>7. Dealt' /\ Given' BY <1>0 DEF RInv, Dealt, Given
<1>8. Kept'
  <2>1. reopened \subseteq reopened' BY <1>0
  <2> QED BY <1>0, <2>1, SameFrames
<1>9. CrashIsFound' BY <1>0, <1>m DEF RInv, CrashIsFound
<1> QED BY <1>1, <1>2, <1>3, <1>4, <1>5, <1>6, <1>7, <1>8, <1>9 DEF RInv

\* What a sink that is about to open a segment may rely on.
LEMMA BeginFinds ==
  ASSUME RInv, Begin
  PROVE  /\ active.name \in Name /\ active.segment \in Seg /\ active.open = 0
         /\ Recording /\ up /\ frame + 1 \in Frame /\ frame' = frame + 1 /\ late' = FALSE
         /\ marker[active.name] # 0 \/ active.name \in unmarked
         /\ active.segment + 1 \in 1 .. MaxSeg + 1
         /\ UNCHANGED <<marker, boot, up, stamp, rec, unmarked, trimmed, orphaned, reopened>>
<1>1. active \in Sink /\ frame \in 0 .. MaxFrame BY DEF RInv, TypeOK
<1>2. /\ Recording /\ up /\ active.open = 0 /\ active.segment <= MaxSeg /\ frame < MaxFrame
      /\ frame' = frame + 1 /\ late' = FALSE
      /\ UNCHANGED <<marker, boot, up, stamp, rec, unmarked, trimmed, orphaned, reopened>>
  BY DEF Begin
<1>3. active.name \in Name /\ active.segment \in Seg
  BY <1>1, <1>2, RecordingAssumption DEF Recording, Sink, Seg
<1>4. frame + 1 \in Frame BY <1>1, <1>2, RecordingAssumption DEF Frame
<1>5. marker[active.name] # 0 \/ active.name \in unmarked BY <1>2 DEF RInv, Marked
<1>6. active.segment + 1 \in 1 .. MaxSeg + 1
  BY <1>1, <1>2, RecordingAssumption DEF Sink
<1> QED BY <1>2, <1>3, <1>4, <1>5, <1>6

\* A keyframe reaches the disk: the next segment is opened with it.
LEMMA BeginWritesKeeps ==
  ASSUME RInv, Begin,
         active' = Open(active),
         NEW full \in File, full.frames = {frame + 1}, full.synced = {}, full.exists,
         disk' = [disk EXCEPT ![active.name][active.segment] = full],
         accepted' = [accepted EXCEPT ![active.name] = @ \cup {frame + 1}]
  PROVE  RInv'
<1> USE Numbers
<1> DEFINE n == active.name
<1> DEFINE o == active.segment
<1> DEFINE f == frame + 1
<1>0. /\ n \in Name /\ o \in Seg /\ f \in Frame /\ frame' = f /\ active.open = 0
      /\ Recording /\ up /\ (marker[n] # 0 \/ n \in unmarked) /\ o + 1 \in 1 .. MaxSeg + 1 /\ late' = FALSE
      /\ UNCHANGED <<marker, boot, up, stamp, rec, unmarked, trimmed, orphaned, reopened>>
  BY BeginFinds
<1>1. full \in File /\ full.frames = {f} /\ full.synced = {} /\ full.exists
  OBVIOUS
<1>2. Files(disk) BY TypedFiles DEF RInv
<1>3. /\ Files(disk') /\ disk'[n][o] = full
      /\ \A m \in Name, t \in Seg : (m # n \/ t # o) => disk'[m][t] = disk[m][t]
  BY <1>0, <1>1, <1>2 DEF Files
<1>4. /\ active' \in Sink /\ active'.name = n /\ active'.open = o /\ active'.segment = o + 1
  <2>1. active' = [active EXCEPT !.open = o, !.segment = o + 1] BY DEF Open
  <2>2. active \in Sink BY DEF RInv, TypeOK
  <2> QED BY <1>0, <2>1, <2>2 DEF Sink
<1>5. /\ accepted' \in [Name -> SUBSET Frame] /\ accepted'[n] = accepted[n] \cup {f}
      /\ \A m \in Name \ {n} : accepted'[m] = accepted[m]
  BY <1>0 DEF RInv, TypeOK
<1> HIDE DEF f
<1>6. TypeOK'
  <2>1. frame' \in 0 .. MaxFrame BY <1>0, RecordingAssumption DEF Frame
  <2> QED BY <1>0, <1>3, <1>4, <1>5, <2>1 DEF RInv, TypeOK, Files
<1>7. Sinks' BY <1>0, <1>1, <1>3, <1>4 DEF RInv, Sinks, Recording
<1>8. Named'
  <2>0. o = 1 \/ o > 1 BY <1>0, RecordingAssumption DEF Seg
  <2>1. disk'[n][1].exists
    <3>1. CASE o = 1 BY <3>1, <1>0, <1>1, <1>3
    <3>2. CASE o > 1
      <4>1. disk[n][1].exists BY <3>2 DEF RInv, Named
      <4> QED BY <3>2, <4>1, <1>0, <1>3
    <3> QED BY <2>0, <3>1, <3>2
  <2>2. \A m \in Name : m > stamp => m # n BY <1>0 DEF RInv, TypeOK, Named
  <2>3. active'.name <= stamp' BY <1>0, <1>4 DEF RInv, Named
  <2>4. ~ disk'[stamp][1].exists => \A s \in Seg : disk'[stamp][s].frames = {}
    BY <2>1, <1>3 DEF RInv, TypeOK, Named
  <2> QED BY <1>0, <1>3, <1>4, <2>1, <2>2, <2>3, <2>4 DEF RInv, TypeOK, Named
<1>9. Apart' BY <1>0, <1>4 DEF RInv, Apart, Recording
<1>10. Fresh' BY <1>0, <1>3, <1>4 DEF RInv, Fresh, Recording
<1>11. Marked' BY <1>0, <1>4 DEF RInv, Marked, Recording
<1>12. Dealt'
  <2>1. rec \in Repair BY DEF RInv, TypeOK
  <2>2. rec.name < n BY <1>0 DEF RInv, Apart
  <2>3. rec.name # n BY <2>2, <1>0
  <2> QED BY <2>1, <2>3, <1>0, <1>3 DEF RInv, Repair, Dealt
<1>g. Given' BY <1>0 DEF RInv, Given
<1>13. Kept'
  <2> SUFFICES ASSUME NEW m \in Name \ reopened
               PROVE  /\ accepted'[m] \subseteq accepted[m] \cup Stored(m)'
                      /\ Stored(m) \subseteq Stored(m)'
    BY <1>0, KeptStep
  <2>1. Stored(m) \subseteq Stored(m)'
    <3> SUFFICES ASSUME NEW s \in Seg, NEW x \in disk[m][s].frames
                 PROVE  \E t \in Seg : x \in disk'[m][t].frames
      BY DEF Stored
    <3>1. ~ (m = n /\ s = o) BY <1>0 DEF RInv, Fresh
    <3> QED BY <3>1, <1>3
  <2>2. accepted'[m] \subseteq accepted[m] \cup Stored(m)'
    <3>1. m = n => f \in Stored(m)' BY <1>0, <1>1, <1>3 DEF Stored
    <3> QED BY <3>1, <1>5
  <2> QED BY <2>1, <2>2
<1>14. CrashIsFound'
  BY <1>0, <1>3 DEF RInv, CrashIsFound
<1> QED BY <1>6, <1>7, <1>8, <1>9, <1>10, <1>11, <1>12, <1>g, <1>13, <1>14 DEF RInv

\* The disk refuses: at most an empty file was made, in the next segment or as
\* one that will be made again.
LEMMA BeginFailsKeeps ==
  ASSUME RInv, Begin, UNCHANGED accepted,
         active' = active \/ active' = [active EXCEPT !.segment = active.segment + 1],
         disk' = [disk EXCEPT ![active.name][active.segment] = EmptyFile]
  PROVE  RInv'
<1> USE Numbers
<1> DEFINE n == active.name
<1> DEFINE o == active.segment
<1>0. /\ n \in Name /\ o \in Seg /\ frame + 1 \in Frame /\ frame' = frame + 1 /\ active.open = 0
      /\ Recording /\ up /\ (marker[n] # 0 \/ n \in unmarked) /\ late' = FALSE
      /\ o + 1 \in 1 .. MaxSeg + 1
      /\ UNCHANGED <<marker, boot, up, stamp, rec, unmarked, trimmed, orphaned, reopened>>
  BY BeginFinds
<1>1. /\ Files(disk') /\ disk'[n][o].frames = {} /\ disk'[n][o].exists
      /\ \A m \in Name, t \in Seg : (m # n \/ t # o) => disk'[m][t] = disk[m][t]
  <2>1. Files(disk) BY TypedFiles DEF RInv
  <2> QED BY <1>0, <2>1, Empties DEF Files
<1>a. /\ active' \in Sink /\ active'.name = n /\ active'.open = 0
      /\ active'.segment \in {o, o + 1} /\ o \in Int
  <2>1. active \in Sink BY DEF RInv, TypeOK
  <2> QED BY <1>0, <2>1 DEF Sink
<1>2. TypeOK'
  <2>1. frame' \in 0 .. MaxFrame BY <1>0, RecordingAssumption DEF Frame
  <2> QED BY <1>0, <1>1, <1>a, <2>1 DEF RInv, TypeOK, Files
<1>3. Sinks'
  <2>1. o \in Int /\ o > 0 BY <1>0, RecordingAssumption DEF Seg
  <2> QED BY <1>0, <1>a, <2>1 DEF Sinks, Recording
<1>4. Named'
  <2>1. \A m \in Name : m > stamp => m # n BY <1>0 DEF RInv, TypeOK, Named
  <2>2. ~ disk'[stamp][1].exists => \A s \in Seg : disk'[stamp][s].frames = {}
    BY <1>0, <1>1 DEF RInv, TypeOK, Named
  <2>3. disk'[n][1].exists
    <3>1. CASE o = 1 BY <3>1, <1>0, <1>1
    <3>2. CASE o > 1
      <4>1. disk[n][1].exists BY <3>2 DEF RInv, Named
      <4> QED BY <3>2, <4>1, <1>0, <1>1
    <3> QED BY <3>1, <3>2, <1>0, RecordingAssumption DEF Seg
  <2>4. active'.name <= stamp BY <1>a DEF RInv, Named
  <2> QED BY <1>0, <1>1, <1>a, <2>1, <2>2, <2>3, <2>4 DEF RInv, TypeOK, Named
<1>5. Apart' BY <1>0, <1>a DEF RInv, Apart, Recording
<1>6. Fresh'
  <2> SUFFICES ASSUME n \notin reopened, NEW s \in Seg, s >= active'.segment
               PROVE  disk'[n][s].frames = {}
    BY <1>0, <1>a DEF Fresh, Recording
  <2>1. s >= o BY <1>a, <1>0, RecordingAssumption DEF Seg
  <2>2. disk[n][s].frames = {} BY <2>1, <1>0 DEF RInv, Fresh
  <2> QED BY <2>2, <1>0, <1>1
<1>7. Marked' BY <1>0, <1>a DEF RInv, Marked, Recording
<1>8. Dealt' BY <1>0, <1>1 DEF RInv, TypeOK, Repair, Apart, Dealt
<1>g. Given' BY <1>0 DEF RInv, Given
<1>9. Kept'
  <2> SUFFICES ASSUME NEW m \in Name \ reopened PROVE Stored(m) \subseteq Stored(m)'
    BY <1>0, KeptStep
  <2> SUFFICES ASSUME NEW s \in Seg, NEW x \in disk[m][s].frames
               PROVE  \E t \in Seg : x \in disk'[m][t].frames
    BY DEF Stored
  <2>1. ~ (m = n /\ s = o) BY <1>0 DEF RInv, Fresh
  <2> QED BY <2>1, <1>1
<1>10. CrashIsFound' BY <1>0, <1>1 DEF RInv, CrashIsFound
<1> QED BY <1>2, <1>3, <1>4, <1>5, <1>6, <1>7, <1>8, <1>g, <1>9, <1>10 DEF RInv

\* A step that changes what is synced, and which segment is open or how the sink
\* goes on: CloseSegment and Move.
LEMMA SinkStepKeeps ==
  ASSUME RInv, Files(disk'), Alike(disk, disk'),
         UNCHANGED <<boot, up, stamp, late, rec, frame, accepted, trimmed, orphaned>>,
         marker' \in [Name -> 0 .. boot], unmarked' \subseteq Name,
         \A m \in Name : marker'[m] # 0 => m <= stamp,
         \A m \in Name : marker'[m] = 0 /\ m \notin unmarked' => marker[m] = 0 /\ m \notin unmarked,
         up, active' \in Sink, reopened \subseteq reopened', reopened' \subseteq Name,
         \/ active' = NoSink
         \/ /\ Recording /\ active'.name = active.name /\ active'.open = 0
            /\ \/ active'.segment = active.segment
               \/ active'.segment = 1 /\ active.name \in reopened'
  PROVE  RInv'
<1> USE Numbers
<1>0. active \in Sink BY DEF RInv, TypeOK
<1>1. TypeOK' BY DEF RInv, TypeOK, Files
<1>2. Sinks'
  <2>1. CASE active' = NoSink BY <2>1 DEF Sinks, Recording, NoSink, NoName
  <2>2. CASE active' # NoSink
    <3>1. active'.segment > 0 BY <1>0, RecordingAssumption DEF Sink
    <3>2. active'.name # NoName BY <2>2 DEF Recording
    <3> QED BY <2>2, <3>1, <3>2 DEF Sinks, Recording
  <2> QED BY <2>1, <2>2
<1>3. Named'
  <2>1. active'.name <= stamp /\ (active'.segment > 1 => disk'[active'.name][1].exists)
    <3>1. CASE active' = NoSink BY <3>1 DEF RInv, TypeOK, NoSink, NoName
    <3>2. CASE active' # NoSink
      <4>1. active.name \in Name BY <3>2, <1>0 DEF Recording, Sink
      <4> QED BY <3>2, <4>1 DEF RInv, Named, Alike
    <3> QED BY <3>1, <3>2
  <2> QED BY <2>1 DEF RInv, TypeOK, Named, Alike
<1>4. Apart' BY DEF RInv, Apart, Recording, NoSink
<1>5. Fresh'
  <2> SUFFICES ASSUME active'.name # NoName, active'.name \notin reopened',
                      NEW s \in Seg, s >= active'.segment
               PROVE  disk'[active'.name][s].frames = {}
    BY DEF Fresh, Recording
  <2>1. active' # NoSink BY DEF NoSink
  <2>2. /\ Recording /\ active'.name = active.name /\ active.name \notin reopened
        /\ active'.segment = active.segment /\ active.name \in Name
    BY <2>1, <1>0 DEF Recording, Sink
  <2>3. disk[active.name][s].frames = {} BY <2>2 DEF RInv, Fresh
  <2>4. disk'[active.name][s].frames = disk[active.name][s].frames BY <2>2 DEF Alike
  <2> QED BY <2>2, <2>3, <2>4
<1>6. Marked'
  <2>1. CASE active' = NoSink BY <2>1 DEF RInv, Marked, Recording, NoSink
  <2>2. CASE active' # NoSink
    <3>1. active.name \in Name /\ active'.name = active.name
      BY <2>2, <1>0 DEF Recording, Sink
    <3>2. marker[active.name] # 0 \/ active.name \in unmarked
      BY <2>2 DEF RInv, Marked, Recording
    <3> QED BY <3>1, <3>2 DEF RInv, Marked, Recording
  <2> QED BY <2>1, <2>2
<1>g. Given' BY DEF RInv, Given
<1>7. Dealt'
  <2> SUFFICES ASSUME rec.name # NoName, ~ rec.failed, NEW s \in Seg \ rec.segs,
                      disk'[rec.name][s].frames # {}
               PROVE  disk'[rec.name][s].settled
    BY DEF Dealt
  <2>1. rec.name \in Name BY DEF RInv, TypeOK, Repair
  <2>2. disk[rec.name][s].frames # {} BY <2>1 DEF Alike
  <2>3. disk[rec.name][s].settled BY <2>2 DEF RInv, Dealt
  <2> QED BY <2>1, <2>3 DEF Alike
<1>8. Kept'
  <2>1. \A m \in Name, s \in Seg : disk'[m][s].frames = disk[m][s].frames BY DEF Alike
  <2> QED BY <2>1, SameFrames
<1>9. CrashIsFound' BY DEF RInv, CrashIsFound, Alike
<1> QED BY <1>1, <1>2, <1>3, <1>4, <1>5, <1>6, <1>7, <1>g, <1>8, <1>9 DEF RInv

LEMMA ClosedDisk ==
  ASSUME RInv
  PROVE  Files(Closed(disk)) /\ Alike(disk, Closed(disk)) /\ Alike(disk, disk)
<1>1. active \in Sink BY DEF RInv, TypeOK
<1>2. active.name \in Name \/ active.open = 0
  BY <1>1 DEF RInv, Sinks, Recording, Sink, NoSink
<1>3. active.open \in Seg \cup {0} BY <1>1 DEF Sink
<1>4. Files(disk) BY TypedFiles DEF RInv
<1> QED BY <1>2, <1>3, <1>4, ClosedAlike DEF Alike

LEMMA CloseSegmentKeeps == ASSUME RInv, CloseSegment PROVE RInv'
<1>1. /\ up /\ active.open # 0 /\ active' = [active EXCEPT !.open = 0]
      /\ disk' \in {Closed(disk), disk}
      /\ UNCHANGED <<marker, boot, up, stamp, late, rec, frame>>
      /\ UNCHANGED <<unmarked, accepted, trimmed, orphaned, reopened>>
  BY DEF CloseSegment, past
<1>2. active \in Sink BY DEF RInv, TypeOK
<1>3. active' \in Sink /\ active'.name = active.name /\ active'.open = 0
      /\ active'.segment = active.segment
  BY <1>1, <1>2 DEF Sink
<1>4. Recording BY <1>1 DEF RInv, Sinks, NoSink
<1>5. Files(disk') /\ Alike(disk, disk') BY <1>1, ClosedDisk, TypedFiles DEF RInv
<1>6. reopened \subseteq Name /\ unmarked \subseteq Name /\ marker \in [Name -> 0 .. boot]
  BY DEF RInv, TypeOK
<1>7. \A m \in Name : marker[m] # 0 => m <= stamp BY DEF RInv, Named
<1> QED BY <1>1, <1>3, <1>4, <1>5, <1>6, <1>7, SinkStepKeeps

LEMMA MoveKeeps == ASSUME RInv, NEW c \in Codec, Move(c) PROVE RInv'
<1> USE Numbers
<1>1. /\ up /\ Recording /\ disk' = Closed(disk)
      /\ UNCHANGED <<boot, up, stamp, late, rec, frame, accepted, trimmed, orphaned>>
  BY DEF Move
<1>2. Files(disk') /\ Alike(disk, disk') BY <1>1, ClosedDisk
<1>3. active \in Sink /\ active.name \in Name /\ reopened \subseteq Name
  BY <1>1 DEF RInv, TypeOK, Sink, Recording
<1>4. NoSink \in Sink
  <2>1. 1 \in 1 .. MaxSeg + 1 BY RecordingAssumption
  <2> QED BY <2>1 DEF NoSink, Sink
<1>5. CASE active' = NoSink /\ UNCHANGED <<marker, unmarked, reopened>>
  <2>1. unmarked \subseteq Name /\ marker \in [Name -> 0 .. boot] BY DEF RInv, TypeOK
  <2>2. \A m \in Name : marker[m] # 0 => m <= stamp BY DEF RInv, Named
  <2> QED BY <1>1, <1>2, <1>3, <1>4, <1>5, <2>1, <2>2, SinkStepKeeps
<1>6. CASE /\ active' = [NoSink EXCEPT !.name = active.name, !.codec = c]
           /\ Mark(active.name)
           /\ reopened' = reopened \cup {active.name}
  <2>1. /\ marker' \in [Name -> 0 .. boot] /\ unmarked' \subseteq Name
        /\ \A m \in Name : marker'[m] # 0 => m <= stamp
        /\ \A m \in Name : marker'[m] = 0 /\ m \notin unmarked' => marker[m] = 0 /\ m \notin unmarked
    <3>1. active.name <= stamp BY DEF RInv, Named
    <3> QED BY <1>3, <1>6, <3>1, MarkStep
  <2>2. active' = [name |-> active.name, codec |-> c, segment |-> 1, open |-> 0]
    BY <1>6 DEF NoSink
  <2>3. 1 \in 1 .. MaxSeg + 1 BY RecordingAssumption
  <2>4. active' \in Sink BY <1>3, <2>2, <2>3 DEF Sink
  <2>5. /\ Recording /\ active'.name = active.name /\ active'.open = 0
        /\ active'.segment = 1 /\ active.name \in reopened'
    <3>1. active.name \in reopened' BY <1>6
    <3> QED BY <1>1, <2>2, <3>1
  <2>6. reopened \subseteq reopened' /\ reopened' \subseteq Name BY <1>3, <1>6
  <2> QED BY <1>1, <1>2, <2>1, <2>4, <2>5, <2>6, SinkStepKeeps
<1> QED BY <1>5, <1>6 DEF Move

\* A frame is written to the open segment.
LEMMA WriteFrameKeeps == ASSUME RInv, WriteFrame PROVE RInv'
<1> USE Numbers
<1> DEFINE n == active.name
<1> DEFINE o == active.open
<1> DEFINE f == frame + 1
<1>0. /\ up /\ o # 0 /\ frame < MaxFrame /\ frame' = f /\ late' = FALSE
      /\ UNCHANGED <<marker, boot, up, stamp, active, rec, unmarked, trimmed, orphaned, reopened>>
      /\ accepted' = [accepted EXCEPT ![n] = @ \cup {f}]
      /\ LET d == [disk EXCEPT ![n][o].frames = @ \cup {f}]
         IN disk' = IF late THEN Closed(d) ELSE d
  BY DEF WriteFrame
<1>1. active \in Sink /\ frame \in 0 .. MaxFrame BY DEF RInv, TypeOK
<1>2. Recording BY <1>0 DEF RInv, Sinks, NoSink
<1>3. n \in Name /\ o \in Seg BY <1>0, <1>1, <1>2 DEF Recording, Sink
<1>4. f \in Frame /\ f \in 0 .. MaxFrame BY <1>0, <1>1, RecordingAssumption DEF Frame
<1>5. Files(disk) BY TypedFiles DEF RInv
<1>6. PICK g \in File : /\ g.frames = disk[n][o].frames \cup {f} /\ g.exists
                        /\ g.synced \subseteq g.frames
                        /\ [disk EXCEPT ![n][o].frames = @ \cup {f}] = [disk EXCEPT ![n][o] = g]
  <2> DEFINE h == [disk[n][o] EXCEPT !.frames = disk[n][o].frames \cup {f}]
  <2>0. disk[n][o] \in File /\ disk[n][o].synced \subseteq disk[n][o].frames
    BY <1>3, <1>5 DEF Files
  <2>1. disk[n][o].exists BY <1>0 DEF RInv, Sinks
  <2>2. h \in File /\ h.frames = disk[n][o].frames \cup {f} /\ h.exists
        /\ h.synced \subseteq h.frames /\ h.settled = disk[n][o].settled
    BY <1>4, <2>0, <2>1 DEF File
  <2>3. [disk EXCEPT ![n][o].frames = @ \cup {f}] = [disk EXCEPT ![n][o] = h]
    BY <1>3, <1>5 DEF Files
  <2> HIDE DEF h
  <2> QED BY <2>2, <2>3
<1> DEFINE d == [disk EXCEPT ![n][o] = g]
<1>7. /\ Files(d) /\ d[n][o] = g
      /\ \A m \in Name, s \in Seg : (m # n \/ s # o) => d[m][s] = disk[m][s]
  BY <1>3, <1>5, <1>6 DEF Files
<1>8. disk' = IF late THEN Closed(d) ELSE d BY <1>0, <1>6
<1> HIDE DEF d
<1>9. Files(disk') /\ Alike(d, disk')
  <2>1. CASE late BY <2>1, <1>3, <1>7, <1>8, ClosedAlike
  <2>2. CASE ~ late BY <2>2, <1>7, <1>8 DEF Alike
  <2> QED BY <2>1, <2>2
<1>10. /\ disk'[n][o].frames = disk[n][o].frames \cup {f} /\ disk'[n][o].exists
       /\ \A m \in Name, s \in Seg : (m # n \/ s # o) => disk'[m][s].frames = disk[m][s].frames
       /\ \A m \in Name, s \in Seg : (m # n \/ s # o) => disk'[m][s].settled = disk[m][s].settled
       /\ \A m \in Name, s \in Seg : (m # n \/ s # o) => disk'[m][s].exists = disk[m][s].exists
  BY <1>3, <1>6, <1>7, <1>9 DEF Alike
<1>11. /\ accepted' \in [Name -> SUBSET Frame] /\ accepted'[n] = accepted[n] \cup {f}
       /\ \A m \in Name \ {n} : accepted'[m] = accepted[m]
  BY <1>0, <1>3, <1>4 DEF RInv, TypeOK
<1> HIDE DEF f
<1>12. TypeOK' BY <1>0, <1>4, <1>9, <1>11 DEF RInv, TypeOK, Files
<1>13. Sinks' BY <1>0, <1>10 DEF RInv, Sinks, Recording
<1>14. disk[n][1].exists
  <2>1. active.segment > 1
    BY <1>0, <1>1, <1>3, RecordingAssumption DEF RInv, Sinks, Sink, Seg
  <2> QED BY <2>1 DEF RInv, Named
<1>15. Named'
  <2>1. disk'[n][1].exists BY <1>3, <1>10, <1>14
  <2>2. \A m \in Name : m > stamp => m # n BY <1>3 DEF RInv, TypeOK, Named
  <2>3. ~ disk'[stamp][1].exists => \A s \in Seg : disk'[stamp][s].frames = {}
    BY <2>1, <1>10 DEF RInv, TypeOK, Named
  <2>4. ASSUME NEW m \in Name, m > stamp, NEW s \in Seg
        PROVE  disk'[m][s].frames = {} /\ ~ disk'[m][s].exists
    <3>1. disk[m][s].frames = {} /\ ~ disk[m][s].exists BY <2>4 DEF RInv, Named
    <3> QED BY <3>1, <2>2, <2>4, <1>10
  <2> QED BY <1>0, <2>1, <2>3, <2>4 DEF RInv, Named
<1>16. Apart' BY <1>0 DEF RInv, Apart, Recording
<1>17. Fresh'
  <2> SUFFICES ASSUME n \notin reopened, NEW s \in Seg, s >= active.segment
               PROVE  disk'[n][s].frames = {}
    BY <1>0, <1>2 DEF Fresh, Recording
  <2>1. disk[n][s].frames = {} BY <1>2 DEF RInv, Fresh
  <2>2. s # o
    <3>1. o < active.segment /\ active.segment \in Int /\ o \in Int
      BY <1>1, <1>3 DEF RInv, Sinks, Sink, Seg
    <3> QED BY <3>1
  <2> QED BY <2>1, <2>2, <1>3, <1>10
<1>18. Marked' BY <1>0 DEF RInv, Marked, Recording
<1>19. Dealt'
  <2> SUFFICES ASSUME rec.name # NoName, ~ rec.failed, NEW s \in Seg \ rec.segs,
                      disk'[rec.name][s].frames # {}
               PROVE  disk'[rec.name][s].settled
    BY <1>0 DEF Dealt
  <2>1. rec.name \in Name \ {n} BY <1>2, Running DEF RInv, TypeOK, Repair
  <2>2. disk[rec.name][s].frames # {} BY <2>1, <1>10
  <2>3. disk[rec.name][s].settled BY <2>2 DEF RInv, Dealt
  <2> QED BY <2>1, <2>3, <1>10
<1>g. Given' BY <1>0 DEF RInv, Given
<1>20. Kept'
  <2> SUFFICES ASSUME NEW m \in Name \ reopened
               PROVE  /\ accepted'[m] \subseteq accepted[m] \cup Stored(m)'
                      /\ Stored(m) \subseteq Stored(m)'
    BY <1>0, KeptStep
  <2>1. Stored(m) \subseteq Stored(m)'
    <3> SUFFICES ASSUME NEW s \in Seg, NEW x \in disk[m][s].frames
                 PROVE  \E t \in Seg : x \in disk'[m][t].frames
      BY DEF Stored
    <3> QED BY <1>10
  <2>2. accepted'[m] \subseteq accepted[m] \cup Stored(m)'
    <3>1. m = n => f \in Stored(m)' BY <1>3, <1>10 DEF Stored
    <3> QED BY <3>1, <1>11
  <2> QED BY <2>1, <2>2
<1>21. CrashIsFound'
  <2> SUFFICES ASSUME NEW m \in Name \ unmarked, marker[m] = 0, NEW s \in Seg,
                      disk'[m][s].frames # {}
               PROVE  disk'[m][s].settled
    BY <1>0 DEF CrashIsFound
  <2>1. m # n BY <1>2, Running
  <2>2. disk[m][s].frames # {} BY <2>1, <1>10
  <2>3. disk[m][s].settled BY <2>2 DEF RInv, CrashIsFound
  <2> QED BY <2>1, <2>3, <1>10
<1> QED BY <1>12, <1>13, <1>15, <1>16, <1>17, <1>18, <1>19, <1>g, <1>20, <1>21 DEF RInv

\* The recording is over: its file is closed and settled, its marker goes.
LEMMA StopRecordKeeps == ASSUME RInv, StopRecord PROVE RInv'
<1> USE Numbers
<1> DEFINE n == active.name
<1> DEFINE c == Closed(disk)
<1>0. /\ up /\ Recording /\ active' = NoSink /\ disk' = Settled(c, n)
      /\ marker' \in {marker, [marker EXCEPT ![n] = 0]}
      /\ UNCHANGED <<boot, up, stamp, late, rec, frame>>
      /\ UNCHANGED <<unmarked, accepted, trimmed, orphaned, reopened>>
  BY DEF StopRecord, past
<1>1. n \in Name BY <1>0 DEF RInv, TypeOK, Sink, Recording
<1>2. Files(c) /\ Alike(disk, c) BY ClosedDisk
<1> HIDE DEF c
<1>3. Files(disk') /\ SettledAs(disk, disk', n)
  <2> DEFINE e == Settled(c, n)
  <2>1. disk' = e BY <1>0
  <2>2. Files(e) /\ SettledAs(c, e, n) BY <1>1, <1>2, SettledKeeps
  <2> HIDE DEF e
  <2>3. SettledAs(disk, e, n)
    <3> SUFFICES ASSUME NEW m \in Name, NEW s \in Seg
                 PROVE  /\ e[m][s].frames = disk[m][s].frames
                        /\ e[m][s].exists = disk[m][s].exists
                        /\ m = n => e[m][s].settled = disk[m][s].exists
                        /\ m # n => e[m][s].settled = disk[m][s].settled
      BY DEF SettledAs
    <3>1. /\ disk[m][s].frames = c[m][s].frames /\ disk[m][s].exists = c[m][s].exists
          /\ disk[m][s].settled = c[m][s].settled
      BY <1>2 DEF Alike
    <3>2. /\ e[m][s].frames = c[m][s].frames
          /\ e[m][s].exists = c[m][s].exists
          /\ m = n => e[m][s].settled = c[m][s].exists
          /\ m # n => e[m][s].settled = c[m][s].settled
      BY <2>2 DEF SettledAs
    <3> QED BY <3>1, <3>2, Zenon
  <2> QED BY <2>1, <2>2, <2>3
<1>kept. \A m \in Name, s \in Seg : /\ disk'[m][s].frames = disk[m][s].frames
                                     /\ disk'[m][s].exists = disk[m][s].exists
  BY <1>3 DEF SettledAs
<1>others. \A m \in Name \ {n}, s \in Seg : disk'[m][s].settled = disk[m][s].settled
  BY <1>3 DEF SettledAs
<1>4. NoSink \in Sink
  <2>1. 1 \in 1 .. MaxSeg + 1 BY RecordingAssumption
  <2> QED BY <2>1 DEF NoSink, Sink
<1>5. /\ marker' \in [Name -> 0 .. boot]
      /\ \A m \in Name \ {n} : marker'[m] = marker[m]
      /\ \A m \in Name : marker'[m] # 0 => marker[m] # 0
  BY <1>0, <1>1 DEF RInv, TypeOK, Marked
<1>6. TypeOK' BY <1>0, <1>3, <1>4, <1>5 DEF RInv, TypeOK, Files
<1>7. ~ Recording' /\ active'.name = 0 /\ active'.segment = 1 /\ active'.open = 0
  BY <1>0 DEF Recording, NoSink, NoName
<1>8. Sinks' /\ Apart' /\ Fresh' BY <1>0, <1>7 DEF RInv, Sinks, Apart, Fresh
<1>9. Named'
  <2>0. stamp \in Name BY DEF RInv, TypeOK
  <2>1. ~ disk'[stamp][1].exists => \A s \in Seg : disk'[stamp][s].frames = {}
    <3>1. ~ disk[stamp][1].exists => \A s \in Seg : disk[stamp][s].frames = {}
      BY DEF RInv, Named
    <3> QED BY <2>0, <3>1, <1>kept
  <2>2. \A m \in Name : m > stamp => \A s \in Seg : disk'[m][s].frames = {} /\ ~ disk'[m][s].exists
    BY <1>kept DEF RInv, TypeOK, Named
  <2>3. \A m \in Name : marker'[m] # 0 => m <= stamp BY <1>5 DEF RInv, Named
  <2> QED BY <1>0, <1>7, <2>1, <2>2, <2>3 DEF RInv, TypeOK, Named
<1>10. Marked' BY <1>0, <1>7 DEF RInv, Marked
<1>11. Dealt'
  <2> SUFFICES ASSUME rec.name # NoName, ~ rec.failed, NEW s \in Seg \ rec.segs,
                      disk'[rec.name][s].frames # {}
               PROVE  disk'[rec.name][s].settled
    BY <1>0 DEF Dealt
  <2>1. rec.name \in Name \ {n} BY <1>0, Running DEF RInv, TypeOK, Repair
  <2>2. disk[rec.name][s].frames # {} BY <2>1, <1>kept
  <2>3. disk[rec.name][s].settled BY <2>2 DEF RInv, Dealt
  <2> QED BY <2>1, <2>3, <1>others
<1>g. Given' BY <1>0 DEF RInv, Given
<1>12. Kept' BY <1>0, <1>kept, SameFrames
<1>13. CrashIsFound'
  <2> SUFFICES ASSUME NEW m \in Name \ unmarked, marker'[m] = 0, NEW s \in Seg,
                      disk'[m][s].frames # {}
               PROVE  disk'[m][s].settled
    BY <1>0 DEF CrashIsFound
  <2>1. CASE m = n
    <3>1. disk'[m][s].exists BY <1>3 DEF Files
    <3>2. disk'[m][s].exists = disk[m][s].exists BY <1>kept
    <3>3. disk'[m][s].settled = disk[m][s].exists BY <2>1, <1>3 DEF SettledAs
    <3> QED BY <3>1, <3>2, <3>3, Zenon
  <2>2. CASE m # n
    <3>1. marker[m] = 0 BY <2>2, <1>5
    <3>2. disk[m][s].frames # {} BY <1>kept
    <3>3. disk[m][s].settled BY <3>1, <3>2 DEF RInv, CrashIsFound
    <3> QED BY <2>2, <3>3, <1>others
  <2> QED BY <2>1, <2>2
<1> QED BY <1>6, <1>8, <1>9, <1>10, <1>11, <1>g, <1>12, <1>13 DEF RInv

\* Time passes.
LEMMA SecondKeeps == ASSUME RInv, Second PROVE RInv'
<1> USE Numbers
<1>0. /\ up /\ late' = (active.open # 0)
      /\ stamp' = IF stamp < MaxStamp THEN stamp + 1 ELSE stamp
      /\ UNCHANGED <<disk, marker, boot, up, active, rec, frame>>
      /\ UNCHANGED <<unmarked, accepted, trimmed, orphaned, reopened>>
  BY DEF Second, past
<1>1. stamp \in Name /\ stamp' \in Name /\ stamp <= stamp'
  BY <1>0, RecordingAssumption DEF RInv, TypeOK, Name
<1>2. TypeOK' BY <1>0, <1>1 DEF RInv, TypeOK
<1>3. Sinks' BY <1>0 DEF RInv, Sinks, Recording
<1>4. Named'
  <2>1. active.name <= stamp'
    <3>1. active.name \in Int BY DEF RInv, TypeOK, Sink, Name, NoName
    <3> QED BY <1>1, <3>1 DEF RInv, Named
  <2>2. \A n \in Name : marker[n] # 0 => n <= stamp' BY <1>1 DEF RInv, Named
  <2>3. \A n \in Name : n > stamp' => n > stamp BY <1>1
  <2>4. ~ disk[stamp'][1].exists => \A s \in Seg : disk[stamp'][s].frames = {}
    <3>1. CASE stamp' = stamp BY <3>1 DEF RInv, Named
    <3>2. CASE stamp' > stamp BY <1>1, <3>2 DEF RInv, Named
    <3> QED BY <1>1, <3>1, <3>2
  <2> QED BY <1>0, <2>1, <2>2, <2>3, <2>4 DEF RInv, Named
<1>5. Apart'
  <2>1. rec.name \in Int BY DEF RInv, TypeOK, Repair, Name, NoName
  <2>2. rec.name < stamp' BY <1>1, <2>1 DEF RInv, Apart
  <2>3. ASSUME NEW n \in rec.todo PROVE n < stamp'
    <3>1. n \in Name BY DEF RInv, TypeOK, Repair
    <3>2. n < stamp BY DEF RInv, Apart
    <3> QED BY <3>1, <3>2, <1>1 DEF Name
  <2> QED BY <1>0, <2>2, <2>3 DEF RInv, Apart, Recording
<1>6. Fresh' BY <1>0 DEF RInv, Fresh, Recording
<1>7. Marked' BY <1>0 DEF RInv, Marked, Recording
<1>8. Dealt' BY <1>0 DEF RInv, Dealt
<1>9. Kept' /\ CrashIsFound' /\ Given' BY <1>0 DEF RInv, Kept, CrashIsFound, Stored, Given
<1> QED BY <1>2, <1>3, <1>4, <1>5, <1>6, <1>7, <1>8, <1>9 DEF RInv
-----------------------------------------------------------------------------
\* The process is gone: nothing records, nothing repairs.
LEMMA DownKeeps ==
  ASSUME RInv, Down
  PROVE  /\ active' \in Sink /\ rec' \in Repair /\ up' = FALSE /\ late' = FALSE /\ stamp' = stamp
         /\ Sinks' /\ Apart' /\ Fresh' /\ Marked' /\ Dealt' /\ Given'
         /\ active'.name = 0 /\ active'.segment = 1 /\ ~ Recording'
<1> USE Numbers
<1>1. /\ up' = FALSE /\ active' = NoSink /\ rec' = NoRepair /\ late' = FALSE
      /\ boot' = boot /\ stamp' = stamp /\ trimmed' = trimmed /\ orphaned' = orphaned
  BY DEF Down
<1>2. /\ active'.name = 0 /\ active'.segment = 1 /\ active'.open = 0 /\ ~ Recording'
      /\ rec'.name = 0 /\ rec'.todo = {} /\ NoName = 0
  BY <1>1 DEF NoSink, NoRepair, Recording, NoName
<1>3. active' \in Sink
  <2>1. 1 \in 1 .. MaxSeg + 1 BY RecordingAssumption
  <2> QED BY <1>1, <2>1 DEF NoSink, Sink
<1>4. rec' \in Repair BY <1>1 DEF NoRepair, Repair
<1>5. Sinks' BY <1>1, <1>2 DEF Sinks
<1>6. Apart' BY <1>1, <1>2 DEF RInv, TypeOK, Apart
<1>7. Fresh' /\ Marked' /\ Dealt' /\ Given' BY <1>1, <1>2 DEF RInv, Fresh, Marked, Dealt, Given
<1> QED BY <1>1, <1>2, <1>3, <1>4, <1>5, <1>6, <1>7

LEMMA KillKeeps == ASSUME RInv, Kill PROVE RInv'
<1>1. Down /\ UNCHANGED <<disk, marker, unmarked, accepted>>
      /\ UNCHANGED <<boot, stamp, frame, trimmed, orphaned, reopened>>
  BY DEF Kill, Down
<1>2. TypeOK' BY <1>1, DownKeeps DEF RInv, TypeOK
<1>3. Named'
  <2>1. active'.name <= stamp' /\ active'.segment = 1 /\ stamp' = stamp
    <3>1. stamp \in Nat BY DEF RInv, TypeOK, Name
    <3> QED BY <1>1, <3>1, DownKeeps
  <2> QED BY <1>1, <2>1 DEF RInv, Named
<1>4. Kept' /\ CrashIsFound' BY <1>1 DEF RInv, Kept, CrashIsFound, Stored
<1> QED BY <1>1, <1>2, <1>3, <1>4, DownKeeps DEF RInv

LEMMA CutFile ==
  ASSUME NEW f \in File, f.synced \subseteq f.frames
  PROVE  LET h == [f EXCEPT !.frames = f.synced] IN
         /\ h \in File /\ h.frames = f.synced /\ h.synced = f.synced
         /\ h.exists = f.exists /\ h.settled = f.settled
BY DEF File

LEMMA FileAt ==
  ASSUME NEW d, Files(d), NEW n \in Name, NEW s \in Seg
  PROVE  d[n][s] \in File /\ d[n][s].synced \subseteq d[n][s].frames
<1>1. d[n] \in [Seg -> File] BY DEF Files
<1> QED BY <1>1 DEF Files

LEMMA PowerCutKeeps == ASSUME RInv, PowerCut PROVE RInv'
<1> USE Numbers
<1>1. Down /\ UNCHANGED <<boot, stamp, frame, trimmed, orphaned, reopened>> BY DEF PowerCut, Down
<1>2. PICK gone \in {{}, {n \in Name : marker[n] # 0}} :
        /\ marker' = [n \in Name |-> IF n \in gone THEN 0 ELSE marker[n]]
        /\ unmarked' = unmarked \cup gone
  BY DEF PowerCut
<1>3. /\ marker' \in [Name -> 0 .. boot] /\ unmarked' \subseteq Name
      /\ \A n \in Name : marker'[n] = IF n \in gone THEN 0 ELSE marker[n]
  <2>1. marker \in [Name -> 0 .. boot] /\ 0 \in 0 .. boot /\ unmarked \subseteq Name
    BY DEF RInv, TypeOK, Marked
  <2>2. gone \subseteq Name OBVIOUS
  <2>3. \A n \in Name : marker'[n] = IF n \in gone THEN 0 ELSE marker[n] BY <1>2
  <2>4. \A n \in Name : marker'[n] \in 0 .. boot BY <2>1, <2>3
  <2> QED BY <1>2, <2>1, <2>2, <2>3, <2>4
<1>4. PICK lose \in BOOLEAN :
        disk' = [n \in Name |-> [s \in Seg |->
                  IF lose THEN [disk[n][s] EXCEPT !.frames = disk[n][s].synced] ELSE disk[n][s]]]
  BY DEF PowerCut
<1>5. Files(disk) BY TypedFiles DEF RInv
<1>6. /\ Files(disk')
      /\ \A n \in Name, s \in Seg :
           /\ disk'[n][s].frames \subseteq disk[n][s].frames
           /\ disk'[n][s].exists = disk[n][s].exists
           /\ disk'[n][s].settled = disk[n][s].settled
  <2> DEFINE g(n, s) == [disk[n][s] EXCEPT !.frames = disk[n][s].synced]
  <2>1. ASSUME NEW n \in Name, NEW s \in Seg
        PROVE  /\ g(n, s) \in File /\ g(n, s).frames = disk[n][s].synced
               /\ g(n, s).synced = disk[n][s].synced /\ g(n, s).exists = disk[n][s].exists
               /\ g(n, s).settled = disk[n][s].settled
    <3>1. disk[n][s] \in File /\ disk[n][s].synced \subseteq disk[n][s].frames
      BY <1>5, FileAt
    <3> QED BY <3>1, CutFile
  <2>2. disk' = [n \in Name |-> [s \in Seg |-> IF lose THEN g(n, s) ELSE disk[n][s]]]
    BY <1>4
  <2> HIDE DEF g
  <2>3. disk' \in [Name -> [Seg -> File]] BY <1>5, <2>1, <2>2 DEF Files
  <2>4. \A n \in Name, s \in Seg : disk'[n][s] = IF lose THEN g(n, s) ELSE disk[n][s]
    BY <2>2
  <2>5. ASSUME NEW n \in Name, NEW s \in Seg
        PROVE  /\ disk'[n][s].frames \subseteq disk[n][s].frames
               /\ disk'[n][s].exists = disk[n][s].exists
               /\ disk'[n][s].settled = disk[n][s].settled
               /\ disk'[n][s].synced \subseteq disk'[n][s].frames
               /\ (disk'[n][s].frames # {} => disk'[n][s].exists)
    <3>1. disk[n][s].synced \subseteq disk[n][s].frames
          /\ (disk[n][s].frames # {} => disk[n][s].exists)
      BY <1>5 DEF Files
    <3>2. CASE lose BY <3>1, <3>2, <2>1, <2>4
    <3>3. CASE ~ lose BY <3>1, <3>3, <2>4
    <3> QED BY <3>2, <3>3
  <2> QED BY <2>3, <2>5 DEF Files
<1>7. /\ accepted' \in [Name -> SUBSET Frame]
      /\ \A n \in Name : accepted'[n] = accepted[n] \cap UNION {disk'[n][s].frames : s \in Seg}
  BY DEF PowerCut, RInv, TypeOK
<1>8. TypeOK' BY <1>1, <1>3, <1>6, <1>7, DownKeeps DEF RInv, TypeOK, Files
<1>9. Named'
  <2>1. \A n \in Name : marker'[n] # 0 => n <= stamp BY <1>3 DEF RInv, Named
  <2>2. ASSUME NEW n \in Name, n > stamp, NEW s \in Seg
        PROVE  disk'[n][s].frames = {} /\ ~ disk'[n][s].exists
    <3>1. disk[n][s].frames = {} /\ ~ disk[n][s].exists BY <2>2 DEF RInv, Named
    <3> QED BY <3>1, <1>6
  <2>3. stamp \in Name BY DEF RInv, TypeOK
  <2>4. ASSUME ~ disk'[stamp][1].exists, NEW s \in Seg
        PROVE  disk'[stamp][s].frames = {}
    <3>1. disk[stamp][s].frames = {} BY <2>3, <2>4, <1>6 DEF RInv, Named
    <3> QED BY <3>1, <2>3, <1>6
  <2>5. active'.name <= stamp' /\ active'.segment = 1 /\ stamp' = stamp
    BY <2>3, <1>1, DownKeeps
  <2>6. /\ \A n \in Name : marker'[n] # 0 => n <= stamp'
        /\ \A n \in Name : n > stamp' => \A s \in Seg : disk'[n][s].frames = {} /\ ~ disk'[n][s].exists
        /\ ~ disk'[stamp'][1].exists => \A s \in Seg : disk'[stamp'][s].frames = {}
    BY <2>1, <2>2, <2>4, <2>5
  <2>7. ~ active'.segment > 1 BY <2>5
  <2> QED BY <2>5, <2>6, <2>7 DEF Named
<1>10. Kept'
  <2>1. \A m \in Name : accepted'[m] \subseteq Stored(m)' BY <1>7 DEF Stored
  <2> QED BY <2>1 DEF Kept
<1>11. CrashIsFound'
  <2> SUFFICES ASSUME NEW m \in Name \ unmarked', marker'[m] = 0, NEW s \in Seg,
                      disk'[m][s].frames # {}
               PROVE  disk'[m][s].settled
    BY DEF CrashIsFound
  <2>1. m \notin unmarked /\ marker[m] = 0 BY <1>2, <1>3
  <2>2. disk[m][s].frames # {} BY <1>6
  <2>3. disk[m][s].settled BY <2>1, <2>2 DEF RInv, CrashIsFound
  <2> QED BY <2>3, <1>6
<1> QED BY <1>1, <1>8, <1>9, <1>10, <1>11, DownKeeps DEF RInv

LEMMA BootKeeps == ASSUME RInv, Boot PROVE RInv'
<1> USE Numbers
<1> DEFINE orphans == {n \in Name : marker[n] # 0}
<1>0. /\ ~ up /\ stamp < MaxStamp /\ up' = TRUE /\ boot' = boot + 1 /\ stamp' = stamp + 1
      /\ \/ rec' = [NoRepair EXCEPT !.todo = orphans] /\ orphaned' = orphaned \cup orphans
         \/ rec' = rec /\ orphaned' = orphaned
      /\ UNCHANGED <<disk, marker, active, late, frame, unmarked, accepted, trimmed, reopened>>
  BY DEF Boot
<1>1. stamp \in Name /\ stamp' \in Name BY <1>0, RecordingAssumption DEF RInv, TypeOK, Name
<1>2. active = NoSink BY <1>0 DEF RInv, Sinks
<1>3. active.name = 0 /\ ~ Recording /\ active.open = 0 /\ active.segment = 1
  BY <1>2 DEF NoSink, Recording, NoName
<1>4. /\ rec' \in Repair /\ rec'.name < stamp' /\ \A n \in rec'.todo : n < stamp'
      /\ Dealt' /\ Given' /\ orphaned' \subseteq Name
  <2>1. CASE rec' = [NoRepair EXCEPT !.todo = orphans] /\ orphaned' = orphaned \cup orphans
    <3>1. rec'.name = 0 /\ rec'.todo = orphans /\ rec' \in Repair
      BY <2>1 DEF NoRepair, Repair, NoName
    <3>2. \A n \in orphans : n < stamp' BY <1>0, <1>1 DEF RInv, Named
    <3>3. Dealt' /\ Given' BY <1>0, <2>1, <3>1 DEF RInv, Dealt, Given, NoName
    <3> QED BY <1>1, <2>1, <3>1, <3>2, <3>3 DEF RInv, TypeOK
  <2>2. CASE rec' = rec /\ orphaned' = orphaned
    <3>1. rec \in Repair /\ rec.name \in Int /\ orphaned \subseteq Name
      <4>1. rec \in Repair /\ orphaned \subseteq Name BY DEF RInv, TypeOK
      <4>2. rec.name \in Name \/ rec.name = 0 BY <4>1 DEF Repair, NoName
      <4> QED BY <4>1, <4>2 DEF Name
    <3>2. rec.name < stamp' /\ \A n \in rec.todo : n < stamp'
      BY <1>0, <1>1, <3>1 DEF RInv, Apart, Repair
    <3>3. Dealt' /\ Given' BY <1>0, <2>2 DEF RInv, Dealt, Given
    <3> QED BY <2>2, <3>1, <3>2, <3>3
  <2> QED BY <1>0, <2>1, <2>2
<1>5. TypeOK'
  <2>1. marker' \in [Name -> 0 .. boot'] /\ boot' \in Nat BY <1>0 DEF RInv, TypeOK
  <2> QED BY <1>0, <1>1, <1>4, <2>1 DEF RInv, TypeOK
<1>6. Sinks' BY <1>0, <1>2, <1>3 DEF Sinks, Recording
<1>7. Named'
  <2>1. \A n \in Name : n <= stamp => n <= stamp' BY <1>0, <1>1
  <2>2. \A n \in Name : n > stamp' => n > stamp BY <1>0, <1>1
  <2>3. stamp' > stamp /\ 0 <= stamp' BY <1>0, <1>1
  <2>4. \A s \in Seg : disk[stamp'][s].frames = {} BY <1>1, <2>3 DEF RInv, Named
  <2>5. \A n \in Name : marker[n] # 0 => n <= stamp' BY <2>1 DEF RInv, Named
  <2>6. \A n \in Name : n > stamp' => \A s \in Seg : disk[n][s].frames = {} /\ ~ disk[n][s].exists
    BY <2>2 DEF RInv, Named
  <2>7. active'.name <= stamp' /\ ~ active'.segment > 1 BY <1>0, <1>3, <2>3
  <2>8. disk' = disk /\ marker' = marker BY <1>0
  <2> QED BY <2>4, <2>5, <2>6, <2>7, <2>8 DEF Named
<1>8. Apart' BY <1>0, <1>3, <1>4 DEF Apart, Recording
<1>9. Fresh' BY <1>0, <1>3 DEF Fresh, Recording
<1>10. Marked' BY <1>0, <1>3 DEF RInv, TypeOK, Marked, Recording
<1>11. Kept' /\ CrashIsFound' BY <1>0 DEF RInv, Kept, CrashIsFound, Stored
<1> QED BY <1>4, <1>5, <1>6, <1>7, <1>8, <1>9, <1>10, <1>11 DEF RInv
-----------------------------------------------------------------------------
\* A step of the recovery thread that touches no file.
LEMMA ThreadStepKeeps ==
  ASSUME RInv, up,
         UNCHANGED <<disk, boot, up, stamp, active, late, frame>>, UNCHANGED past,
         rec' \in Repair, rec'.name < stamp, rec'.todo \subseteq rec.todo,
         rec'.name # NoName => rec'.name \in orphaned,
         Recording => rec'.name < active.name,
         marker' \in [Name -> 0 .. boot],
         \A n \in Name : marker'[n] # marker[n] =>
           /\ marker'[n] = 0
           /\ Recording => n # active.name
           /\ \A s \in Seg : disk[n][s].frames # {} => disk[n][s].settled,
         Dealt'
  PROVE  RInv'
<1> USE Numbers
<1>0. UNCHANGED <<unmarked, accepted, trimmed, orphaned, reopened>> BY DEF past
<1>1. /\ marker' \in [Name -> 0 .. boot]
      /\ \A n \in Name : marker'[n] = marker[n] \/ marker'[n] = 0
      /\ Recording => marker'[active.name] = marker[active.name]
  BY Running
<1>2. TypeOK' BY <1>0, <1>1 DEF RInv, TypeOK
<1>3. Sinks' BY DEF RInv, Sinks, Recording
<1>4. Named' BY <1>1 DEF RInv, Named
<1>5. Apart' BY DEF RInv, Apart, Recording
<1>6. Fresh' BY <1>0 DEF RInv, Fresh, Recording
<1>7. Marked' BY <1>0, <1>1 DEF RInv, Marked, Recording
<1>8. Kept' BY <1>0 DEF RInv, Kept, Stored
<1>g. Given' BY <1>0 DEF RInv, Given
<1>9. CrashIsFound'
  <2> SUFFICES ASSUME NEW m \in Name \ unmarked, marker'[m] = 0, NEW s \in Seg,
                      disk[m][s].frames # {}
               PROVE  disk[m][s].settled
    BY <1>0 DEF CrashIsFound
  <2>1. CASE marker[m] = 0 BY <2>1 DEF RInv, CrashIsFound
  <2>2. CASE marker[m] # 0 BY <2>2
  <2> QED BY <2>1, <2>2
<1> QED BY <1>2, <1>3, <1>4, <1>5, <1>6, <1>7, <1>8, <1>g, <1>9 DEF RInv

LEMMA RepairStartKeeps == ASSUME RInv, NEW n \in Name, RepairStart(n) PROVE RInv'
<1> USE Numbers
<1> DEFINE files == {s \in Seg : disk[n][s].exists}
<1>0. /\ up /\ rec.name = NoName /\ n \in rec.todo
      /\ UNCHANGED <<disk, boot, up, stamp, active, late, frame>> /\ UNCHANGED past
  BY DEF RepairStart, past
<1>1. rec \in Repair /\ stamp \in Nat BY DEF RInv, TypeOK, Name
<1>2. n < stamp /\ (Recording => n < active.name) /\ n \in orphaned
  BY <1>0 DEF RInv, Apart, Given
<1>3. \A s \in Seg : s \notin files => disk[n][s].frames = {} BY DEF RInv, TypeOK
<1>4. CASE /\ files = {} /\ marker' \in {marker, [marker EXCEPT ![n] = 0]}
           /\ rec' = [rec EXCEPT !.todo = @ \ {n}]
  <2>1. rec' \in Repair /\ rec'.name = rec.name /\ rec'.todo \subseteq rec.todo
    BY <1>1, <1>4 DEF Repair
  <2>2. rec'.name < stamp /\ (Recording => rec'.name < active.name)
    BY <2>1 DEF RInv, Apart
  <2>3. Recording => n # active.name
    <3>1. Recording => active.name \in Nat BY Running
    <3> QED BY <1>2, <3>1
  <2>4. \A s \in Seg : disk[n][s].frames # {} => disk[n][s].settled BY <1>3, <1>4
  <2>5. Dealt' BY <1>0, <2>1 DEF Dealt
  <2>6. /\ marker' \in [Name -> 0 .. boot]
        /\ \A m \in Name : marker'[m] # marker[m] => m = n /\ marker'[m] = 0
    <3>1. marker \in [Name -> 0 .. boot] /\ 0 \in 0 .. boot BY DEF RInv, TypeOK, Marked
    <3>2. CASE marker' = marker BY <3>1, <3>2
    <3>3. CASE marker' = [marker EXCEPT ![n] = 0] BY <3>1, <3>3
    <3> QED BY <1>4, <3>2, <3>3
  <2> QED BY <1>0, <2>1, <2>2, <2>3, <2>4, <2>5, <2>6, ThreadStepKeeps
<1>5. CASE /\ marker' = marker
           /\ rec' = [rec EXCEPT !.name = n, !.segs = files, !.failed = FALSE, !.todo = @ \ {n}]
  <2>1. /\ rec' \in Repair /\ rec'.name = n /\ rec'.segs = files /\ rec'.todo \subseteq rec.todo
    BY <1>1, <1>5 DEF Repair
  <2>2. Dealt' BY <1>0, <1>3, <2>1 DEF Dealt
  <2>3. marker' \in [Name -> 0 .. boot] BY <1>5 DEF RInv, TypeOK
  <2> QED BY <1>0, <1>2, <1>5, <2>1, <2>2, <2>3, ThreadStepKeeps
<1> QED BY <1>4, <1>5 DEF RepairStart

LEMMA RepairEndKeeps == ASSUME RInv, RepairEnd PROVE RInv'
<1> USE Numbers
<1>0. /\ up /\ rec.name # NoName /\ rec.segs = {}
      /\ marker' = IF rec.failed THEN marker ELSE [marker EXCEPT ![rec.name] = 0]
      /\ rec' = [rec EXCEPT !.name = NoName, !.segs = {}, !.failed = FALSE]
      /\ UNCHANGED <<disk, boot, up, stamp, active, late, frame>> /\ UNCHANGED past
  BY DEF RepairEnd, KeepsMarker, NextOrphan, past
<1>1. rec \in Repair /\ stamp \in Name BY DEF RInv, TypeOK
<1>2. rec' \in Repair /\ rec'.name = NoName /\ rec'.todo = rec.todo
  BY <1>0, <1>1 DEF Repair
<1>3. rec'.name < stamp BY <1>1, <1>2 DEF NoName, Name
<1>4. Recording => rec'.name < active.name
  <2>1. Recording => active.name \in Name BY Running
  <2> QED BY <2>1, <1>2 DEF NoName, Name
<1>5. Dealt' BY <1>2 DEF Dealt
<1>6. CASE rec.failed
  <2>1. marker' = marker /\ marker' \in [Name -> 0 .. boot] BY <1>0, <1>6 DEF RInv, TypeOK
  <2> QED BY <1>0, <1>2, <1>3, <1>4, <1>5, <2>1, ThreadStepKeeps
<1>7. CASE ~ rec.failed
  <2>1. rec.name \in Name BY <1>0, <1>1 DEF Repair
  <2>2. Recording => rec.name # active.name BY Running
  <2>3. \A s \in Seg : disk[rec.name][s].frames # {} => disk[rec.name][s].settled
    BY <1>0, <1>7 DEF RInv, Dealt
  <2>4. marker' = [marker EXCEPT ![rec.name] = 0] BY <1>0, <1>7
  <2>5. /\ marker' \in [Name -> 0 .. boot]
        /\ \A m \in Name : marker'[m] # marker[m] => m = rec.name /\ marker'[m] = 0
    BY <2>1, <2>4 DEF RInv, TypeOK, Marked
  <2> QED BY <1>0, <1>2, <1>3, <1>4, <1>5, <2>1, <2>2, <2>3, <2>5, ThreadStepKeeps
<1> QED BY <1>6, <1>7

LEMMA RepairRaisesKeeps == ASSUME RInv, RepairRaises PROVE RInv'
<1> USE Numbers
<1>0. /\ up /\ rec' = [rec EXCEPT !.name = NoName, !.segs = {}, !.failed = FALSE]
      /\ UNCHANGED <<disk, marker, boot, up, stamp, active, late, frame>> /\ UNCHANGED past
  BY DEF RepairRaises, NextOrphan, past
<1>1. rec \in Repair /\ stamp \in Name /\ marker \in [Name -> 0 .. boot] BY DEF RInv, TypeOK
<1>2. rec' \in Repair /\ rec'.name = NoName /\ rec'.todo = rec.todo
  BY <1>0, <1>1 DEF Repair
<1>3. rec'.name < stamp BY <1>1, <1>2 DEF NoName, Name
<1>4. Recording => rec'.name < active.name
  <2>1. Recording => active.name \in Name BY Running
  <2> QED BY <2>1, <1>2 DEF NoName, Name
<1>5. Dealt' BY <1>2 DEF Dealt
<1> QED BY <1>0, <1>1, <1>2, <1>3, <1>4, <1>5, ThreadStepKeeps

\* A repair leaves frames where there were frames, and brings none of its own.
LEMMA RepairedFile ==
  ASSUME NEW f \in File, f.synced \subseteq f.frames, f.frames # {} => f.exists,
         NEW out \in Repaired(f)
  PROVE  /\ out.file \in File /\ out.file.frames \subseteq f.frames
         /\ f.frames # {} => out.file.frames # {}
         /\ out.file.synced \subseteq out.file.frames
         /\ out.file.frames # {} => out.file.exists
         /\ f.settled /\ out.file.frames # {} => out.file.settled
         /\ out.failed \in BOOLEAN
         /\ ~ out.failed => (out.file.frames # {} => out.file.settled)
<1> DEFINE done == [f EXCEPT !.settled = TRUE]
<1>1. /\ done \in File /\ done.frames = f.frames /\ done.synced = f.synced
      /\ done.exists = f.exists /\ done.settled
  BY DEF File
<1>2. \/ out = [file |-> f, failed |-> TRUE]
      \/ out = [file |-> done, failed |-> FALSE]
      \/ \E g \in Copies(f.frames) :
           out = [file |-> [done EXCEPT !.frames = g, !.synced = {}], failed |-> FALSE]
      \/ out = [file |-> NoFile, failed |-> FALSE] /\ f.frames = {}
  BY DEF Repaired
<1> HIDE DEF done
<1>3. CASE out = [file |-> f, failed |-> TRUE] BY <1>3
<1>4. CASE out = [file |-> done, failed |-> FALSE] BY <1>1, <1>4
<1>5. ASSUME NEW g \in Copies(f.frames),
             out = [file |-> [done EXCEPT !.frames = g, !.synced = {}], failed |-> FALSE]
      PROVE  /\ out.file \in File /\ out.file.frames = g /\ out.file.synced = {}
             /\ out.file.exists = f.exists /\ out.file.settled /\ out.failed = FALSE
             /\ g \subseteq f.frames /\ (f.frames # {} => g # {})
  <2>1. g \subseteq f.frames /\ (f.frames # {} => g # {}) BY DEF Copies
  <2>2. g \in SUBSET Frame BY <2>1 DEF File
  <2> QED BY <1>1, <1>5, <2>1, <2>2 DEF File
<1>6. CASE out = [file |-> NoFile, failed |-> FALSE] /\ f.frames = {} BY <1>6, Empties
<1> QED BY <1>2, <1>3, <1>4, <1>5, <1>6

LEMMA RepairFileKeeps == ASSUME RInv, NEW s \in Seg, RepairFile(s) PROVE RInv'
<1> USE Numbers
<1> DEFINE n == rec.name
<1>0. /\ up /\ n # NoName /\ s \in rec.segs
      /\ UNCHANGED <<marker, boot, up, stamp, active, late, frame>>
      /\ UNCHANGED <<unmarked, accepted, orphaned, reopened>>
  BY DEF RepairFile
<1>1. PICK out \in Repaired(disk[n][s]) :
        /\ disk' = [disk EXCEPT ![n][s] = out.file]
        /\ rec' = [rec EXCEPT !.segs = @ \ {s}, !.failed = @ \/ out.failed]
        /\ trimmed' = [trimmed EXCEPT ![n] = @ \cup (disk[n][s].frames \ out.file.frames)]
  BY DEF RepairFile
<1>2. rec \in Repair /\ n \in Name BY <1>0 DEF RInv, TypeOK, Repair
<1>3. Files(disk) BY TypedFiles DEF RInv
<1>4. /\ disk[n][s] \in File /\ disk[n][s].synced \subseteq disk[n][s].frames
      /\ (disk[n][s].frames # {} => disk[n][s].exists)
  BY <1>2, <1>3 DEF Files
<1>5. /\ out.file \in File /\ out.file.frames \subseteq disk[n][s].frames
      /\ (disk[n][s].frames # {} => out.file.frames # {})
      /\ out.file.synced \subseteq out.file.frames
      /\ (out.file.frames # {} => out.file.exists)
      /\ (disk[n][s].settled /\ out.file.frames # {} => out.file.settled)
      /\ out.failed \in BOOLEAN
      /\ (~ out.failed => (out.file.frames # {} => out.file.settled))
  BY <1>4, RepairedFile
<1>6. /\ Files(disk') /\ disk'[n][s] = out.file
      /\ \A m \in Name, q \in Seg : (m # n \/ q # s) => disk'[m][q] = disk[m][q]
  BY <1>1, <1>2, <1>3, <1>5 DEF Files
<1>7. \A m \in Name, q \in Seg :
        /\ disk'[m][q].frames \subseteq disk[m][q].frames
        /\ (disk[m][q].frames # {} => disk'[m][q].frames # {})
        /\ disk[m][q].settled /\ disk'[m][q].frames # {} => disk'[m][q].settled
  BY <1>5, <1>6
<1>8. /\ rec' \in Repair /\ rec'.name = n /\ rec'.segs = rec.segs \ {s}
      /\ rec'.todo = rec.todo /\ rec'.failed = (rec.failed \/ out.failed)
  BY <1>1, <1>2, <1>5 DEF Repair
<1>t. /\ trimmed' \in [Name -> SUBSET Frame]
      /\ trimmed'[n] = trimmed[n] \cup (disk[n][s].frames \ out.file.frames)
      /\ \A m \in Name \ {n} : trimmed'[m] = trimmed[m]
  <2>1. trimmed \in [Name -> SUBSET Frame] /\ disk[n][s].frames \in SUBSET Frame
    BY <1>4 DEF RInv, TypeOK, File
  <2> QED BY <1>1, <1>2, <2>1
<1>9. \A m \in Name : m # n => \A q \in Seg : disk'[m][q].exists = disk[m][q].exists
  BY <1>6
<1>10. n < stamp /\ (Recording => n # active.name)
  BY Running DEF RInv, Apart
<1>11. TypeOK' BY <1>0, <1>6, <1>8, <1>t DEF RInv, TypeOK, Files
<1>12. Sinks'
  <2>1. active.open # 0 => Recording BY DEF RInv, Sinks, NoSink
  <2>2. active.open # 0 => disk'[active.name][active.open].exists
    <3> SUFFICES ASSUME active.open # 0 PROVE disk'[active.name][active.open].exists OBVIOUS
    <3>1. active.name \in Name /\ active.open \in Seg
      BY <2>1, Running DEF RInv, TypeOK, Sink
    <3> QED BY <2>1, <3>1, <1>9, <1>10 DEF RInv, Sinks
  <2> QED BY <1>0, <2>2 DEF RInv, Sinks, Recording
<1>13. Named'
  <2>0. stamp \in Name /\ stamp # n BY <1>2, <1>10 DEF RInv, TypeOK
  <2>1. ASSUME NEW m \in Name, m > stamp, NEW q \in Seg
        PROVE  disk'[m][q].frames = {} /\ ~ disk'[m][q].exists
    <3>1. m # n BY <2>1, <1>2, <1>10, <2>0
    <3>2. disk[m][q].frames = {} /\ ~ disk[m][q].exists BY <2>1 DEF RInv, Named
    <3> QED BY <3>1, <3>2, <1>7, <1>9
  <2>2. ASSUME ~ disk'[stamp][1].exists, NEW q \in Seg
        PROVE  disk'[stamp][q].frames = {}
    <3>1. ~ disk[stamp][1].exists BY <2>0, <2>2, <1>9
    <3> QED BY <3>1, <2>0, <1>7 DEF RInv, Named
  <2>3. ASSUME active.segment > 1 PROVE disk'[active.name][1].exists
    <3>1. Recording BY <2>3 DEF RInv, Sinks, NoSink
    <3>2. active.name \in Name BY <3>1, Running
    <3> QED BY <2>3, <3>1, <3>2, <1>9, <1>10 DEF RInv, Named
  <2>4. active.name <= stamp /\ \A m \in Name : marker[m] # 0 => m <= stamp
    BY DEF RInv, Named
  <2> QED BY <1>0, <2>1, <2>2, <2>3, <2>4 DEF Named
<1>14. Apart' BY <1>0, <1>8 DEF RInv, Apart, Recording
<1>15. Fresh'
  <2> SUFFICES ASSUME Recording, active.name \notin reopened, NEW q \in Seg, q >= active.segment
               PROVE  disk'[active.name][q].frames = {}
    BY <1>0 DEF Fresh, Recording
  <2>1. active.name \in Name BY Running
  <2> QED BY <2>1, <1>7 DEF RInv, Fresh
<1>16. Marked' BY <1>0 DEF RInv, Marked, Recording
<1>17. Dealt'
  <2> SUFFICES ASSUME ~ rec.failed, ~ out.failed, NEW q \in Seg \ (rec.segs \ {s}),
                      disk'[n][q].frames # {}
               PROVE  disk'[n][q].settled
    BY <1>8 DEF Dealt
  <2>1. CASE q = s BY <2>1, <1>5, <1>6
  <2>2. CASE q # s
    <3>1. disk[n][q].frames # {} BY <1>2, <1>7
    <3>2. disk[n][q].settled BY <2>2, <3>1, <1>0 DEF RInv, Dealt
    <3> QED BY <3>2, <1>2, <1>7
  <2> QED BY <2>1, <2>2
<1>g. Given'
  <2>1. n \in orphaned /\ rec.todo \subseteq orphaned BY <1>0 DEF RInv, Given
  <2> QED BY <1>0, <1>8, <1>t, <2>1 DEF RInv, Given
<1>18. Kept'
  <2> SUFFICES ASSUME NEW m \in Name \ reopened
               PROVE  /\ Stored(m) \cup trimmed[m] \subseteq Stored(m)' \cup trimmed'[m]
                      /\ Stored(m) # {} => Stored(m)' # {}
    BY <1>0, KeptStep
  <2>1. trimmed[m] \subseteq trimmed'[m] BY <1>t
  <2>2. ASSUME NEW q \in Seg, NEW x \in disk[m][q].frames
        PROVE  x \in Stored(m)' \cup trimmed'[m]
    <3>1. CASE m = n /\ q = s
      <4>1. x \in disk'[m][q].frames \/ x \in trimmed'[m] BY <3>1, <2>2, <1>6, <1>t
      <4> QED BY <4>1 DEF Stored
    <3>2. CASE ~ (m = n /\ q = s)
      <4>1. x \in disk'[m][q].frames BY <3>2, <2>2, <1>6
      <4> QED BY <4>1 DEF Stored
    <3> QED BY <3>1, <3>2
  <2>3. Stored(m) \subseteq Stored(m)' \cup trimmed'[m] BY <2>2 DEF Stored
  <2>4. Stored(m) # {} => Stored(m)' # {}
    <3> SUFFICES ASSUME NEW q \in Seg, NEW x \in disk[m][q].frames PROVE Stored(m)' # {}
      BY DEF Stored
    <3>1. PICK y : y \in disk'[m][q].frames BY <1>7
    <3>2. y \in Stored(m)' BY <3>1 DEF Stored
    <3> QED BY <3>2
  <2> QED BY <2>1, <2>3, <2>4
<1>19. CrashIsFound'
  <2> SUFFICES ASSUME NEW m \in Name \ unmarked, marker[m] = 0, NEW q \in Seg,
                      disk'[m][q].frames # {}
               PROVE  disk'[m][q].settled
    BY <1>0 DEF CrashIsFound
  <2>1. disk[m][q].settled BY <1>7 DEF RInv, CrashIsFound
  <2> QED BY <2>1, <1>7
<1> QED BY <1>11, <1>12, <1>13, <1>14, <1>15, <1>16, <1>17, <1>g, <1>18, <1>19 DEF RInv
-----------------------------------------------------------------------------
LEMMA BeginKeeps == ASSUME RInv, Begin PROVE RInv'
<1> DEFINE f == frame + 1
<1> DEFINE n == active.name
<1> DEFINE o == active.segment
<1>1. /\ Open(active).name = n /\ Open(active).open = o
      /\ active \in Sink /\ f \in Frame
  BY BeginFinds DEF RInv, TypeOK, Sink, Open
<1>2. \/ /\ active' = Open(active) /\ disk' = [disk EXCEPT ![n][o] = Holding(f)]
         /\ accepted' = [accepted EXCEPT ![n] = @ \cup {f}]
      \/ /\ disk' \in {disk, [disk EXCEPT ![n][o] = EmptyFile]}
         /\ UNCHANGED <<active, accepted>>
      \/ /\ active' = [Open(active) EXCEPT !.open = 0]
         /\ disk' = [disk EXCEPT ![n][o] = EmptyFile] /\ UNCHANGED accepted
  <2>1. \/ /\ active' = Open(active)
           /\ disk' = [disk EXCEPT ![Open(active).name][Open(active).open] = Holding(f)]
           /\ accepted' = [accepted EXCEPT ![Open(active).name] = @ \cup {f}]
        \/ /\ disk' \in {disk, [disk EXCEPT ![Open(active).name][Open(active).open] = EmptyFile]}
           /\ UNCHANGED <<active, accepted>>
        \/ /\ active' = [Open(active) EXCEPT !.open = 0]
           /\ disk' = [disk EXCEPT ![Open(active).name][Open(active).open] = EmptyFile]
           /\ UNCHANGED accepted
    BY DEF Begin
  <2> QED BY <1>1, <2>1
<1>3. CASE /\ active' = Open(active) /\ disk' = [disk EXCEPT ![n][o] = Holding(f)]
           /\ accepted' = [accepted EXCEPT ![n] = @ \cup {f}]
  <2>1. PICK full \in File : full = Holding(f) /\ full.frames = {f} /\ full.synced = {} /\ full.exists
    <3> DEFINE h == Holding(f)
    <3>1. h = Holding(f) /\ h \in File /\ h.frames = {f} /\ h.synced = {} /\ h.exists
      BY <1>1 DEF Holding, EmptyFile, NoFile, File
    <3> HIDE DEF h
    <3> QED BY <3>1
  <2> QED BY <1>3, <2>1, BeginWritesKeeps
<1>4. CASE disk' = [disk EXCEPT ![n][o] = EmptyFile] /\ UNCHANGED <<active, accepted>>
  BY <1>4, BeginFailsKeeps
<1>6. CASE /\ active' = [Open(active) EXCEPT !.open = 0]
           /\ disk' = [disk EXCEPT ![n][o] = EmptyFile] /\ UNCHANGED accepted
  <2>1. active.open = 0 BY BeginFinds
  <2>2. [Open(active) EXCEPT !.open = 0] = [active EXCEPT !.segment = o + 1]
    BY <1>1, <2>1 DEF Open, Sink
  <2> QED BY <1>6, <2>2, BeginFailsKeeps
<1>5. CASE disk' = disk /\ UNCHANGED <<active, accepted>>
  <2>1. /\ frame' \in 0 .. MaxFrame /\ late' = FALSE
        /\ UNCHANGED <<marker, boot, up, stamp, rec, unmarked, trimmed, orphaned, reopened>>
    BY <1>1, BeginFinds, RecordingAssumption DEF Frame
  <2>2. TypeOK' BY <1>5, <2>1 DEF RInv, TypeOK
  <2>3. Sinks' /\ Named' /\ Apart' /\ Fresh' /\ Marked' /\ Dealt' /\ Given'
    BY <1>5, <2>1 DEF RInv, Sinks, Named, Apart, Fresh, Marked, Dealt, Given, Recording
  <2>4. Kept' /\ CrashIsFound'
    BY <1>5, <2>1 DEF RInv, Kept, CrashIsFound, Stored
  <2> QED BY <2>2, <2>3, <2>4 DEF RInv
<1> QED BY <1>2, <1>3, <1>4, <1>5, <1>6

LEMMA StepRInv == RInv /\ [Next]_vars => RInv'
<1> SUFFICES ASSUME RInv, [Next]_vars PROVE RInv' OBVIOUS
<1>1. ASSUME NEW c \in Codec, StartRecord(c) PROVE RInv' BY <1>1, StartRecordKeeps
<1>2. ASSUME NEW c \in Codec, Move(c) PROVE RInv' BY <1>2, MoveKeeps
<1>3. CASE Begin BY <1>3, BeginKeeps
<1>4. CASE WriteFrame BY <1>4, WriteFrameKeeps
<1>5. CASE CloseSegment BY <1>5, CloseSegmentKeeps
<1>6. CASE StopRecord BY <1>6, StopRecordKeeps
<1>7. CASE Second BY <1>7, SecondKeeps
<1>8. CASE Kill BY <1>8, KillKeeps
<1>9. CASE PowerCut BY <1>9, PowerCutKeeps
<1>10. CASE Boot BY <1>10, BootKeeps
<1>11. ASSUME NEW n \in Name, RepairStart(n) PROVE RInv' BY <1>11, RepairStartKeeps
<1>12. ASSUME NEW s \in Seg, RepairFile(s) PROVE RInv' BY <1>12, RepairFileKeeps
<1>13. CASE RepairEnd BY <1>13, RepairEndKeeps
<1>14. CASE RepairRaises BY <1>14, RepairRaisesKeeps
<1>15. CASE UNCHANGED vars
  BY <1>15 DEF vars, past, RInv, TypeOK, Sinks, Named, Apart, Fresh, Marked, Dealt, Given,
               Recording, Kept, CrashIsFound, Stored
<1> QED BY <1>1, <1>2, <1>3, <1>4, <1>5, <1>6, <1>7, <1>8, <1>9, <1>10, <1>11, <1>12, <1>13,
           <1>14, <1>15 DEF Next

LEMMA RInvAlways == Spec => []RInv
BY InitRInv, StepRInv, PTL DEF Spec

\* Every variable keeps its type: a file holds what was synced, a segment the
\* sink writes is one of the recording's, a frame on disk has a file.
THEOREM RecordingTypeCorrect == Spec => []TypeOK
<1>1. RInv => TypeOK BY DEF RInv
<1> QED BY <1>1, RInvAlways, PTL

\* What a recording that one FileSink wrote accepted is in its files, but for
\* what a copy that replaced one of them lacked, and some of it always is; all
\* of it unless a start found the recording's marker left behind: through
\* segment changes, disk errors, stops, kills, restarts and repairs, however
\* many frames, segments and recordings there are.
THEOREM KeptByOneSink == Spec => []KeptByItsSink
<1>1. RInv => KeptByItsSink
  <2> SUFFICES ASSUME RInv, NEW n \in Name \ reopened
               PROVE  /\ accepted[n] \subseteq Stored(n) \cup trimmed[n]
                      /\ n \notin orphaned => accepted[n] \subseteq Stored(n)
                      /\ accepted[n] # {} => Stored(n) # {}
    BY DEF KeptByItsSink
  <2>1. /\ accepted[n] \subseteq Stored(n) \cup trimmed[n]
        /\ accepted[n] # {} => Stored(n) # {}
    BY DEF RInv, Kept
  <2>2. n \notin orphaned => trimmed[n] = {} BY DEF RInv, Given
  <2> QED BY <2>1, <2>2
<1> QED BY <1>1, RInvAlways, PTL

\* A file with frames that no orderly stop closed and no repair dealt with has
\* the marker that the next start looks for, unless it could not be written or
\* a power cut took it.
THEOREM NoCrashForgotten == Spec => []CrashIsFound
<1>1. RInv => CrashIsFound BY DEF RInv
<1> QED BY <1>1, RInvAlways, PTL
=============================================================================
