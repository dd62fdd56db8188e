------------------------------ MODULE Settings ------------------------------
(***************************************************************************)
(* LatestWriter over the file it writes to (store.py): what one save does  *)
(* to the directory (atomic_write_bytes, _keep_backup), what one load does *)
(* with a damaged file (_read, _recover, quarantine), power cuts, and      *)
(* damage done to the file from outside.                                   *)
(*                                                                         *)
(* Edits run under the store's lock (slots.py Store._edit), saves under    *)
(* the writer's, and other threads load the same file under neither.  The  *)
(* variable `disk` of LatestWriter is what a load gives, or will give when *)
(* the recovery under way is over.                                         *)
(***************************************************************************)
EXTENDS LatestWriter

CONSTANTS
  Reader,    \* threads that load without the store's lock
  MaxDamage  \* bound: times the file is damaged from outside

VARIABLES
  file, bak, \* what <name> and <name>.bak hold
  linked,    \* they are one inode
  synced,    \* the two names as the last directory fsync left them
  step,      \* how far the save under way is
  rec, got,  \* per thread that loads: its recovery, and what it read of the backup
  struck     \* times the file was damaged

fileVars == <<file, bak, linked, synced>>
recVars == <<rec, got>>
writerVars == <<version, value, saver, save, pc, mine, acked>>
storeVars == <<fileVars, step, recVars, struck>>
allVars == <<vars, storeVars>>

Gone == [is |-> "none", doc |-> {}]
Garbage == [is |-> "garbage", doc |-> {}]      \* not JSON
Misshapen == [is |-> "misshapen", doc |-> {}]  \* JSON that `validate` refuses
Good(d) == [is |-> "doc", doc |-> d]

Loader == Reader \cup Actor

\* What _load raises for: a file it cannot decode, or whose shape is wrong.
Damaged(f) == f.is \in {"garbage", "misshapen"}

Restoring(r) == \E l \in Loader : r[l] \in {"moved", "restoring"}

\* What a load gives for these files, once the recoveries `r` are over.
Readable(f, b, r) ==
  IF f.is = "none" /\ ~ Restoring(r) THEN {}
  ELSE IF f.is = "doc" THEN f.doc ELSE b.doc

\* disk follows the files.  Edits may be lost only where `mayLose` says why.
Follow(mayLose) ==
  /\ disk' = Readable(file', bak', rec')
  /\ dropped' = IF mayLose THEN dropped \cup (disk \ disk') ELSE dropped

StoreInit ==
  /\ Init
  /\ file = Gone /\ bak = Gone /\ linked = FALSE
  /\ synced = [file |-> Gone, bak |-> Gone]
  /\ step = "new" /\ struck = 0
  /\ rec = [l \in Loader |-> "idle"] /\ got = [l \in Loader |-> {}]
-----------------------------------------------------------------------------
(* An edit: load under the store's lock, change, publish. *)

Unlocked == \A a \in Actor : rec[a] = "idle"

EditOn(a, doc) ==
  LET e == version + 1 IN
  /\ pc[a] \in Resting /\ version < MaxEdit
  /\ version' = e
  /\ value' = doc \cup {e}
  /\ mine' = [mine EXCEPT ![a] = doc \cup {e}]
  /\ pc' = [pc EXCEPT ![a] = "published"]
  /\ dropped' = dropped \cup (Loaded \ doc)
  /\ UNCHANGED <<disk, saver, save, acked>>

\* The document in memory, else the file; a missing one gives the default, also
\* while another thread is about to restore it.
Edit1(a) ==
  /\ Unlocked
  /\ value # Nothing \/ ~ Damaged(file)
  /\ EditOn(a, IF value # Nothing THEN value ELSE file.doc)
  /\ UNCHANGED storeVars

\* The file was damaged: go on with what the recovery returned.
EditRecovered(a) ==
  /\ rec[a] = "loaded"
  /\ EditOn(a, got[a])
  /\ rec' = [rec EXCEPT ![a] = "idle"] /\ got' = [got EXCEPT ![a] = {}]
  /\ UNCHANGED <<fileVars, step, struck>>
-----------------------------------------------------------------------------
(* flush and the write it makes. *)

Enter(a) == (FlushNothing(a) \/ FlushTake(a)) /\ UNCHANGED storeVars

\* Mutant: a damaged file becomes the backup too.
ParsesAlways(f) == f.is # "none"

\* Before the backup is replaced the file is only parsed (_parses), while a load
\* also validates it.
Parses(f) == f.is \in {"doc", "misshapen"}

\* Mutant: the backup is made by a rename.
LinkedFromMoved == Gone

\* What the name holds once its file is linked as the backup (os.link).
LinkedFrom == file

\* The temporary file is written and fsynced; then _keep_backup.
KeepBackup(a) ==
  /\ pc[a] = "saving" /\ step = "new"
  /\ step' = "kept"
  /\ IF Parses(file) THEN bak' = file /\ linked' = TRUE /\ file' = LinkedFrom
     ELSE UNCHANGED <<bak, linked, file>>
  /\ UNCHANGED <<writerVars, synced, recVars, struck>>
  /\ Follow(file.is = "misshapen")  \* a good backup is gone for a damaged one

\* os.replace
Replace(a) ==
  /\ pc[a] = "saving" /\ step = "kept"
  /\ step' = "renamed"
  /\ file' = Good(save.doc) /\ linked' = FALSE
  /\ save' = [save EXCEPT !.wrote = TRUE]
  /\ UNCHANGED <<version, value, saver, pc, mine, acked, bak, synced, recVars, struck>>
  /\ Follow(FALSE)

\* Mutant: the directory is not fsynced.
SyncedNever == synced

Synced == [file |-> file, bak |-> bak]

SyncDir(a) ==
  /\ pc[a] = "saving" /\ step = "renamed"
  /\ step' = "synced"
  /\ synced' = Synced
  /\ UNCHANGED <<vars, file, bak, linked, recVars, struck>>

Leave(a) ==
  /\ \/ step = "synced" /\ FlushDone(a)
     \/ FlushRaise(a)
  /\ step' = "new"
  /\ UNCHANGED <<fileVars, recVars, struck>>
-----------------------------------------------------------------------------
(* A load that finds the file damaged. *)

\* pending() has nothing and _load raised; an edit then holds the store's lock.
LoadBad(l) ==
  /\ rec[l] = "idle" /\ value = Nothing /\ Damaged(file)
  /\ l \in Actor => Unlocked /\ pc[l] \in Resting /\ version < MaxEdit
  /\ rec' = [rec EXCEPT ![l] = "bad"]
  /\ UNCHANGED <<vars, fileVars, step, got, struck>>

\* quarantine moves aside whatever has the name now: a file another thread has
\* saved or restored meanwhile goes with its edits.
Quarantine(l) ==
  /\ rec[l] = "bad"
  /\ rec' = [rec EXCEPT ![l] = "moved"]
  /\ file' = Gone /\ linked' = FALSE
  /\ UNCHANGED <<writerVars, bak, synced, step, got, struck>>
  /\ Follow(file.is = "doc")

Loads(l, doc) ==
  /\ rec' = [rec EXCEPT ![l] = IF l \in Actor THEN "loaded" ELSE "idle"]
  /\ got' = [got EXCEPT ![l] = IF l \in Actor THEN doc ELSE {}]

\* The backup is read; with none that is good, the default it is.
ReadBackup(l) ==
  /\ rec[l] = "moved"
  /\ IF bak.is = "doc"
     THEN /\ rec' = [rec EXCEPT ![l] = "restoring"]
          /\ got' = [got EXCEPT ![l] = bak.doc]
     ELSE Loads(l, {})
  /\ UNCHANGED <<writerVars, fileVars, step, struck>>
  /\ Follow(FALSE)

\* ... and written back, fsyncs included, over whatever has the name now; or
\* the write fails and is let be, and the file stays missing.
Restore(l) ==
  /\ rec[l] = "restoring"
  /\ Loads(l, got[l])
  /\ \/ /\ file' = Good(got[l]) /\ linked' = FALSE
        /\ synced' = [file |-> file', bak |-> bak]
     \/ UNCHANGED <<file, linked, synced>>
  /\ UNCHANGED <<writerVars, bak, step, struck>>
  /\ Follow(file.is # "none" \/ file' = file \/ got[l] # bak.doc)
-----------------------------------------------------------------------------
(* What comes from outside. *)

\* The content is damaged in place: a bad disk, or a hand edit that may leave
\* JSON of the wrong shape.
Damage ==
  /\ struck < MaxDamage /\ struck' = struck + 1
  /\ file.is = "doc"
  /\ file' \in {Garbage, Misshapen}
  /\ bak' = IF linked THEN file' ELSE bak
  /\ synced' = [file |-> IF synced.file = file THEN file' ELSE synced.file,
                bak |-> IF linked /\ synced.bak = bak THEN file' ELSE synced.bak]
  /\ UNCHANGED <<writerVars, linked, step, recVars>>
  /\ Follow(TRUE)

\* The process dies and starts again, on the files `f` and `b`.  Edits not yet
\* acknowledged may be lost; and all of them when it dies between quarantine and
\* restore, for a missing file is not recovered.
Restart(f, b) ==
  /\ file' = f /\ bak' = b
  /\ linked' = (linked /\ f = file /\ b = bak)
  /\ rec' = [l \in Loader |-> "idle"] /\ got' = [l \in Loader |-> {}]
  /\ step' = "new"
  /\ value' = Nothing /\ saver' = None /\ save' = NoSave
  /\ pc' = [a \in Actor |-> "idle"] /\ mine' = [a \in Actor |-> {}]
  /\ disk' = Readable(f, b, rec')
  /\ dropped' = dropped \cup (1 .. version \ (IF f.is = "none" THEN disk' ELSE disk' \cup acked))
  /\ UNCHANGED <<version, acked, struck>>

KillStore == Restart(file, bak) /\ UNCHANGED synced

\* The renames since the last directory fsync reach the disk in order: all, the
\* backup's alone, or none.
PowerCut ==
  \E names \in {<<file, bak>>, <<synced.file, bak>>, <<synced.file, synced.bak>>} :
    /\ Restart(names[1], names[2])
    /\ synced' = [file |-> names[1], bak |-> names[2]]

StoreNext ==
  \/ \E a \in Actor : \/ Edit1(a) \/ EditRecovered(a)
                      \/ Enter(a) \/ KeepBackup(a) \/ Replace(a) \/ SyncDir(a) \/ Leave(a)
  \/ \E l \in Loader : LoadBad(l) \/ Quarantine(l) \/ ReadBackup(l) \/ Restore(l)
  \/ Damage \/ KillStore \/ PowerCut

StoreSpec == StoreInit /\ [][StoreNext]_allVars

\* As in LatestWriter; a thread in a save or in a recovery goes on.
FairStoreSpec ==
  /\ StoreSpec
  /\ \A a \in Actor : /\ SF_allVars(Enter(a)) /\ WF_allVars(KeepBackup(a))
                      /\ WF_allVars(Replace(a)) /\ WF_allVars(SyncDir(a))
                      /\ WF_allVars(Leave(a))
-----------------------------------------------------------------------------
(* The promise of store.py to whoever saves: as long as nothing damaged the *)
(* file, a save is one step to a reader, whatever fails and wherever the    *)
(* process is killed.  Every step here is a step of LatestWriter, where     *)
(* `_write` is one step, or a power cut.                                    *)
SavesAtomically ==
  [][struck' = 0 => Next \/ PowerCut \/ UNCHANGED vars]_allVars

(* store.py, _keep_backup: a save never puts a damaged file in the place of *)
(* a good backup.                                                           *)
BackupStaysGood ==
  [][\A a \in Actor : KeepBackup(a) /\ bak.is = "doc" => bak'.is = "doc"]_allVars

(* store.py:18, "a file that cannot be decoded or fails its `validate`      *)
(* function is renamed": what a recovery moves aside is the damaged file.   *)
QuarantinesDamaged ==
  [][\A l \in Loader : rec[l] = "bad" /\ rec'[l] = "moved" => file.is # "doc"]_allVars
=============================================================================
