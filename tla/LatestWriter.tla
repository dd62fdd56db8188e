---------------------------- MODULE LatestWriter ----------------------------
(***************************************************************************)
(* Settings files of the Console: class LatestWriter of saving.py under an *)
(* edit of a store as in slots.py (_edit): load the document, change it,   *)
(* publish it under the store's lock, and flush outside it.  Several       *)
(* actions edit at once; a save may fail; the process may be killed.       *)
(*                                                                         *)
(* A document is the set of the edits it holds; an edit is the number      *)
(* publish gives it (_version).                                            *)
(***************************************************************************)
EXTENDS Integers

CONSTANTS
  Actor,     \* actions of the Console that may overlap
  None,      \* no actor
  MaxEdit    \* bound: edits in all

ASSUME WriterAssumption == None \notin Actor /\ MaxEdit \in Nat

VARIABLES
  version,   \* _version
  value,     \* _value: the newest document not known to be on the disk
  disk,      \* the document in the file
  saver,     \* who holds _save_lock
  save,      \* flush's value and version, and what became of the write
  pc, mine,  \* per actor: where it is, and the edit it made
  acked,     \* history: edits whose flush returned without an error
  dropped    \* history: edits a failed save or a kill took

vars == <<version, value, disk, saver, save, pc, mine, acked, dropped>>

Edit == 1 .. MaxEdit
Nothing == {}                       \* NOTHING: a published document holds an edit
NoSave == [doc |-> Nothing, version |-> 0, wrote |-> FALSE]
Resting == {"idle", "saved", "raised"}

Init ==
  /\ version = 0 /\ value = Nothing /\ disk = {} /\ saver = None /\ save = NoSave
  /\ pc = [a \in Actor |-> "idle"] /\ mine = [a \in Actor |-> {}]
  /\ acked = {} /\ dropped = {}

\* load: the document being saved, else the file.
Loaded == IF value # Nothing THEN value ELSE disk

\* _edit up to the end of the store's lock: load, change, publish.
Publish(a) ==
  LET e == version + 1 IN
  /\ pc[a] \in Resting /\ version < MaxEdit
  /\ version' = e
  /\ value' = Loaded \cup {e}
  /\ mine' = [mine EXCEPT ![a] = Loaded \cup {e}]
  /\ pc' = [pc EXCEPT ![a] = "published"]
  /\ UNCHANGED <<disk, saver, save, acked, dropped>>

\* The edit an actor is saving: the newest of the document it published.
Own(a) == {e \in mine[a] : \A f \in mine[a] : f <= e}

\* The document flush writes: the newest published.
Taken(a) == value

\* flush, entered: nothing left to do.
FlushNothing(a) ==
  /\ pc[a] = "published" /\ saver = None /\ value = Nothing
  /\ pc' = [pc EXCEPT ![a] = "saved"]
  /\ acked' = acked \cup Own(a)
  /\ UNCHANGED <<version, value, disk, saver, save, mine, dropped>>

\* flush, entered: the newest value and its number are taken.
FlushTake(a) ==
  /\ pc[a] = "published" /\ saver = None /\ value # Nothing
  /\ saver' = a
  /\ save' = [doc |-> Taken(a), version |-> version, wrote |-> FALSE]
  /\ pc' = [pc EXCEPT ![a] = "saving"]
  /\ UNCHANGED <<version, value, disk, mine, acked, dropped>>

\* _write succeeds (atomic_write_bytes: the whole old file or the whole new).
FlushWrite(a) ==
  /\ pc[a] = "saving" /\ ~ save.wrote
  /\ disk' = save.doc
  /\ save' = [save EXCEPT !.wrote = TRUE]
  /\ UNCHANGED <<version, value, saver, pc, mine, acked, dropped>>

\* Mutant: the value is forgotten though a newer one arrived meanwhile.
RestForgetful == Nothing

\* What stays to be saved: nothing, unless something newer was published.
Rest == IF version = save.version THEN Nothing ELSE value

FlushDone(a) ==
  /\ pc[a] = "saving" /\ save.wrote
  /\ value' = Rest
  /\ saver' = None /\ save' = NoSave
  /\ pc' = [pc EXCEPT ![a] = "saved"]
  /\ acked' = acked \cup Own(a)
  /\ UNCHANGED <<version, disk, mine, dropped>>

\* Mutant: a failed save keeps the lock.
FlushRaiseLocked(a) ==
  /\ pc[a] = "saving" /\ ~ save.wrote
  /\ value' = Rest
  /\ pc' = [pc EXCEPT ![a] = "raised"]
  /\ dropped' = IF version = save.version THEN dropped \cup (save.doc \ disk) ELSE dropped
  /\ UNCHANGED <<version, disk, saver, save, mine, acked>>

\* _write raises: the value is dropped all the same, unless a newer one came.
FlushRaise(a) ==
  /\ pc[a] = "saving" /\ ~ save.wrote
  /\ value' = Rest
  /\ saver' = None /\ save' = NoSave
  /\ pc' = [pc EXCEPT ![a] = "raised"]
  /\ dropped' = IF version = save.version THEN dropped \cup (save.doc \ disk) ELSE dropped
  /\ UNCHANGED <<version, disk, mine, acked>>

\* The process is killed and starts again.
Kill ==
  /\ value' = Nothing /\ saver' = None /\ save' = NoSave
  /\ pc' = [a \in Actor |-> "idle"] /\ mine' = [a \in Actor |-> {}]
  /\ dropped' = dropped \cup (1 .. version \ disk)
  /\ UNCHANGED <<version, disk, acked>>

Next ==
  \/ \E a \in Actor : \/ Publish(a) \/ FlushNothing(a) \/ FlushTake(a) \/ FlushWrite(a)
                      \/ FlushDone(a) \/ FlushRaise(a)
  \/ Kill

Spec == Init /\ [][Next]_vars

\* A thread in flush goes on, and one that waits for the lock gets it.
FairSpec ==
  /\ Spec
  /\ \A a \in Actor : /\ SF_vars(FlushNothing(a) \/ FlushTake(a))
                      /\ WF_vars(FlushWrite(a) \/ FlushRaise(a)) /\ WF_vars(FlushDone(a))
-----------------------------------------------------------------------------
TypeOK ==
  /\ version \in 0 .. MaxEdit /\ value \subseteq Edit /\ disk \subseteq Edit
  /\ saver \in Actor \cup {None}
  /\ save \in [doc : SUBSET Edit, version : 0 .. MaxEdit, wrote : BOOLEAN]
  /\ pc \in [Actor -> Resting \cup {"published", "saving"}] /\ mine \in [Actor -> SUBSET Edit]
  /\ acked \subseteq Edit /\ dropped \subseteq Edit
  /\ \A a \in Actor : pc[a] = "saving" <=> saver = a

(* "a write can never put an older value over a newer one": whatever        *)
(* overlaps, fails or is killed, an edit that reached the file stays in it, *)
(* or is known to be lost.                                                  *)
NeverOlder == [][disk \ dropped' \subseteq disk']_vars

(* "a reader sees the change the moment it is accepted", and goes on seeing *)
(* it: only a failed save or a kill takes an edit back.                     *)
ShowsNewest == 1 .. version \ dropped \subseteq Loaded

(* "Two actions that overlap are saved by whichever gets the writer first,  *)
(* the other finds nothing left to do": an edit whose flush returned is in  *)
(* the file for good, unless it was in a document whose save failed or was killed.              *)
AckIsSaved == acked \ dropped \subseteq disk

(* Every flush comes to an end, also after failed saves.                    *)
FlushReturns == \A a \in Actor : pc[a] = "published" ~> pc[a] \in Resting
=============================================================================
