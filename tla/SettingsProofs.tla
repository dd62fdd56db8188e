---------------------------- MODULE SettingsProofs ----------------------------
(***************************************************************************)
(* Proofs about LatestWriter and about Settings, for any number of actors, *)
(* readers and edits, failing saves, kills, power cuts and damage          *)
(* included.                                                               *)
(***************************************************************************)
EXTENDS Settings, TLAPS
-----------------------------------------------------------------------------
(* LatestWriter: the writer alone, where a save is one step.               *)

\* While a save is under way, the document it writes lies between the file and
\* the newest one, and is the newest unless a newer number was given out.
Between ==
  saver # None =>
    /\ value # Nothing
    /\ disk \subseteq save.doc /\ save.doc \subseteq value
    /\ save.version <= version
    /\ version = save.version => value = save.doc
    /\ save.wrote => disk = save.doc

\* Documents hold edits that were made, and a newer one all of an older.
Nested ==
  /\ value \subseteq 1 .. version /\ disk \subseteq 1 .. version
  /\ value # Nothing => disk \subseteq value

WInv == TypeOK /\ Between /\ Nested /\ ShowsNewest

LEMMA WriterInit == Init => WInv
BY WriterAssumption DEF Init, WInv, TypeOK, Between, Nested, ShowsNewest, Loaded, Nothing, NoSave,
   Resting, Edit

LEMMA PublishStep == WInv /\ (\E a \in Actor : Publish(a)) => WInv'
<1> SUFFICES ASSUME WInv, NEW a \in Actor, Publish(a) PROVE WInv'
  OBVIOUS
<1> USE DEF WInv
<1>1. version' = version + 1 /\ version' \in 1 .. MaxEdit /\ version \in Nat
  BY WriterAssumption DEF Publish, TypeOK
<1>2. Loaded \subseteq 1 .. version /\ disk \subseteq Loaded
  BY DEF Loaded, Nested
<1>3. value' = Loaded \cup {version'} /\ value' # Nothing /\ value \subseteq value'
  BY <1>1 DEF Publish, Loaded, Nothing
<1>4. TypeOK'
  <2>1. value' \subseteq Edit
    <3>1. 1 .. version \subseteq Edit
      BY <1>1, WriterAssumption DEF Edit
    <3> QED
      BY <1>1, <1>2, <1>3, <3>1 DEF Edit
  <2>2. mine' \in [Actor -> SUBSET Edit]
    BY <2>1, <1>3 DEF Publish, TypeOK
  <2>3. pc' \in [Actor -> Resting \cup {"published", "saving"}]
    BY DEF Publish, TypeOK
  <2>4. \A b \in Actor : pc'[b] = "saving" <=> saver' = b
    BY DEF Publish, TypeOK, Resting
  <2> QED
    BY <1>1, <2>1, <2>2, <2>3, <2>4 DEF Publish, TypeOK
<1>5. Between'
  <2> SUFFICES ASSUME saver # None PROVE Between'
    BY DEF Between, Publish
  <2>1. /\ disk \subseteq save.doc /\ save.doc \subseteq value /\ save.version <= version
        /\ save.wrote => disk = save.doc
    BY DEF Between
  <2>2. save.version <= version' /\ save.version # version'
    BY <2>1, <1>1 DEF TypeOK
  <2> QED
    BY <2>1, <2>2, <1>3 DEF Publish, Between
<1>6. Nested'
  BY <1>1, <1>2, <1>3 DEF Publish, Nested
<1>7. ShowsNewest'
  <2>1. Loaded' = Loaded \cup {version'}
    BY <1>3 DEF Loaded
  <2> QED
    BY <2>1, <1>1 DEF ShowsNewest, Publish
<1> QED
  BY <1>4, <1>5, <1>6, <1>7

LEMMA FlushNothingStep == WInv /\ (\E a \in Actor : FlushNothing(a)) => WInv'
<1> SUFFICES ASSUME WInv, NEW a \in Actor, FlushNothing(a) PROVE WInv'
  OBVIOUS
<1> USE DEF WInv
<1>1. TypeOK'
  BY DEF FlushNothing, TypeOK, Own, Resting
<1> QED
  BY <1>1 DEF FlushNothing, Between, Nested, ShowsNewest, Loaded

LEMMA FlushTakeStep == WInv /\ (\E a \in Actor : FlushTake(a)) => WInv'
<1> SUFFICES ASSUME WInv, NEW a \in Actor, FlushTake(a) PROVE WInv'
  OBVIOUS
<1> USE DEF WInv
<1>1. TypeOK'
  BY WriterAssumption DEF FlushTake, TypeOK, Taken, Resting
<1>2. Between'
  BY DEF FlushTake, Between, Nested, Taken, TypeOK
<1> QED
  BY <1>1, <1>2 DEF FlushTake, Nested, ShowsNewest, Loaded

LEMMA FlushWriteStep == WInv /\ (\E a \in Actor : FlushWrite(a)) => WInv'
<1> SUFFICES ASSUME WInv, NEW a \in Actor, FlushWrite(a) PROVE WInv'
  OBVIOUS
<1> USE DEF WInv
<1>1. saver # None
  BY WriterAssumption DEF FlushWrite, TypeOK
<1>2. TypeOK'
  BY DEF FlushWrite, TypeOK
<1>3. Between'
  BY <1>1 DEF FlushWrite, Between, TypeOK
<1>4. Nested' /\ ShowsNewest'
  BY <1>1 DEF FlushWrite, Between, Nested, ShowsNewest, Loaded
<1> QED
  BY <1>2, <1>3, <1>4

LEMMA FlushDoneStep == WInv /\ (\E a \in Actor : FlushDone(a)) => WInv'
<1> SUFFICES ASSUME WInv, NEW a \in Actor, FlushDone(a) PROVE WInv'
  OBVIOUS
<1> USE DEF WInv
<1>1. saver # None
  BY WriterAssumption DEF FlushDone, TypeOK
<1>2. TypeOK'
  BY WriterAssumption DEF FlushDone, TypeOK, Own, Rest, Nothing, NoSave, Resting
<1>3. Between'
  BY DEF FlushDone, Between
<1>4. Nested' /\ ShowsNewest'
  BY <1>1 DEF FlushDone, Between, Nested, ShowsNewest, Loaded, Rest, Nothing
<1> QED
  BY <1>2, <1>3, <1>4

LEMMA FlushRaiseStep == WInv /\ (\E a \in Actor : FlushRaise(a)) => WInv'
<1> SUFFICES ASSUME WInv, NEW a \in Actor, FlushRaise(a) PROVE WInv'
  OBVIOUS
<1> USE DEF WInv
<1>1. saver # None
  BY WriterAssumption DEF FlushRaise, TypeOK
<1>2. TypeOK'
  BY WriterAssumption DEF FlushRaise, TypeOK, Rest, Nothing, NoSave, Resting
<1>3. Between'
  BY DEF FlushRaise, Between
<1>4. Nested' /\ ShowsNewest'
  BY <1>1 DEF FlushRaise, Between, Nested, ShowsNewest, Loaded, Rest, Nothing
<1> QED
  BY <1>2, <1>3, <1>4

LEMMA KillStep == WInv /\ Kill => WInv'
<1> SUFFICES ASSUME WInv, Kill PROVE WInv'
  OBVIOUS
<1> USE DEF WInv
<1>1. TypeOK'
  BY WriterAssumption DEF Kill, TypeOK, Nothing, NoSave, Resting, Edit
<1> QED
  BY <1>1 DEF Kill, Between, Nested, ShowsNewest, Loaded, Nothing

LEMMA WriterNext == WInv /\ [Next]_vars => WInv'
<1>1. WInv /\ UNCHANGED vars => WInv'
  BY DEF WInv, TypeOK, Between, Nested, ShowsNewest, Loaded, vars
<1> QED
  BY <1>1, PublishStep, FlushNothingStep, FlushTakeStep, FlushWriteStep, FlushDoneStep,
     FlushRaiseStep, KillStep DEF Next

(* One save at a time, of documents that hold real edits.                   *)
THEOREM WriterTypeCorrect == Spec => []TypeOK
<1>1. WInv => TypeOK
  BY DEF WInv
<1> QED
  BY WriterInit, WriterNext, <1>1, PTL DEF Spec

(* An accepted edit is what every reader sees until a failed save or a kill *)
(* takes it back, for any number of overlapping actions.                    *)
THEOREM ReadersSeeNewest == Spec => []ShowsNewest
<1>1. WInv => ShowsNewest
  BY DEF WInv
<1> QED
  BY WriterInit, WriterNext, <1>1, PTL DEF Spec

(* No write puts an older document over a newer one.                        *)
THEOREM FileNeverOlder == Spec => NeverOlder
<1>1. WInv /\ [Next]_vars => [disk \subseteq disk']_vars
  <2> SUFFICES ASSUME WInv, Next PROVE disk \subseteq disk'
    OBVIOUS
  <2>1. ASSUME NEW a \in Actor, FlushWrite(a) PROVE disk \subseteq disk'
    BY <2>1, WriterAssumption DEF WInv, TypeOK, Between, FlushWrite
  <2> QED
    BY <2>1 DEF Next, Publish, FlushNothing, FlushTake, FlushDone, FlushRaise, Kill
<1>2. [disk \subseteq disk']_vars => [disk \ dropped' \subseteq disk']_vars
  OBVIOUS
<1> QED
  BY WriterInit, WriterNext, <1>1, <1>2, PTL DEF Spec, NeverOlder
-----------------------------------------------------------------------------
\* What an action published has its number at most; the document being saved
\* holds every edit up to the number it was taken with, but for the dropped.
AckInv ==
  /\ \A a \in Actor : mine[a] \subseteq 1 .. version
  /\ \A a \in Actor : pc[a] = "saving" => mine[a] \subseteq 1 .. save.version
  /\ saver # None => 1 .. save.version \ dropped \subseteq save.doc
  /\ AckIsSaved

LEMMA AckInit == Init => AckInv
BY WriterAssumption DEF Init, AckInv, AckIsSaved

LEMMA AckStep == WInv /\ AckInv /\ [Next]_vars => AckInv'
<1> SUFFICES ASSUME WInv, AckInv, [Next]_vars PROVE AckInv'
  OBVIOUS
<1> USE DEF AckInv, AckIsSaved
<1>1. /\ version \in Nat /\ None \notin Actor
      /\ \A a \in Actor : pc[a] = "saving" <=> saver = a
      /\ pc \in [Actor -> Resting \cup {"published", "saving"}]
      /\ mine \in [Actor -> SUBSET Edit]
      /\ 1 .. version \ dropped \subseteq Loaded
  BY WriterAssumption DEF WInv, TypeOK, ShowsNewest
<1>2. ASSUME NEW a \in Actor, Publish(a) PROVE AckInv'
  <2>1. Loaded \subseteq 1 .. version
    BY DEF WInv, Nested, Loaded
  <2>2. Loaded \cup {version + 1} \subseteq 1 .. version' /\ 1 .. version \subseteq 1 .. version'
    BY <1>1, <1>2, <2>1 DEF Publish
  <2>3. pc'[a] = "published" /\ \A b \in Actor \ {a} : pc'[b] = pc[b] /\ mine'[b] = mine[b]
    BY <1>1, <1>2 DEF Publish
  <2> QED
    BY <1>1, <1>2, <2>2, <2>3 DEF Publish
<1>3. ASSUME NEW a \in Actor, FlushNothing(a) PROVE AckInv'
  <2>1. Own(a) \subseteq disk \cup dropped
    BY <1>1, <1>3 DEF FlushNothing, Own, Loaded
  <2> QED
    BY <1>1, <1>3, <2>1 DEF FlushNothing
<1>4. ASSUME NEW a \in Actor, FlushTake(a) PROVE AckInv'
  <2>1. 1 .. version \ dropped \subseteq value
    BY <1>1, <1>4 DEF FlushTake, Loaded
  <2>2. pc'[a] = "saving" /\ \A b \in Actor \ {a} : pc'[b] # "saving"
    BY <1>1, <1>4 DEF FlushTake
  <2> QED
    BY <1>1, <1>4, <2>1, <2>2 DEF FlushTake, Taken
<1>5. ASSUME NEW a \in Actor, FlushWrite(a) PROVE AckInv'
  BY <1>1, <1>5 DEF FlushWrite, WInv, Between
<1>6. ASSUME NEW a \in Actor, FlushDone(a) PROVE AckInv'
  <2>1. disk = save.doc /\ saver # None
    BY <1>1, <1>6 DEF FlushDone, WInv, Between
  <2>2. Own(a) \subseteq disk \cup dropped
    BY <1>6, <2>1 DEF FlushDone, Own
  <2>3. \A b \in Actor : pc'[b] # "saving"
    BY <1>1, <1>6 DEF FlushDone
  <2> QED
    BY <1>6, <2>2, <2>3 DEF FlushDone
<1>7. ASSUME NEW a \in Actor, FlushRaise(a) PROVE AckInv'
  <2>1. \A b \in Actor : pc'[b] # "saving"
    BY <1>1, <1>7 DEF FlushRaise
  <2> QED
    BY <1>7, <2>1 DEF FlushRaise
<1>8. CASE Kill
  BY <1>8 DEF Kill
<1>9. CASE UNCHANGED vars
  BY <1>9 DEF vars
<1> QED
  BY <1>2, <1>3, <1>4, <1>5, <1>6, <1>7, <1>8, <1>9 DEF Next

(* An edit whose flush returned without an error is in the file for good,   *)
(* unless it was in a document whose save failed or was killed.             *)
THEOREM AcknowledgedIsSaved == Spec => []AckIsSaved
<1>1. AckInv => AckIsSaved
  BY DEF AckInv
<1> QED
  BY WriterInit, WriterNext, AckInit, AckStep, <1>1, PTL DEF Spec
-----------------------------------------------------------------------------
(* Settings: the same down to the directory.                               *)

\* What a name of the directory holds: nothing, a damaged file or a document.
Content ==
  [is : {"none", "garbage", "misshapen"}, doc : {{}}] \cup [is : {"doc"}, doc : SUBSET Edit]

StoreTypeOK ==
  /\ TypeOK
  /\ file \in Content /\ bak \in Content /\ linked \in BOOLEAN
  /\ synced \in [file : Content, bak : Content]
  /\ step \in {"new", "kept", "renamed", "synced"}
  /\ rec \in [Loader -> {"idle", "bad", "moved", "restoring", "loaded"}]
  /\ got \in [Loader -> SUBSET Edit] /\ struck \in Nat

Tracks == disk = Readable(file, bak, rec)

\* How far the save is says whether the new document has its name.
Stepping ==
  /\ saver = None => step = "new"
  /\ save.wrote <=> step \in {"renamed", "synced"}

\* The document being saved has the number it was taken with, every edit up to
\* it but the dropped ones, and is the newest unless a newer number was given.
Saving ==
  saver # None =>
    /\ value # Nothing /\ save.version <= version
    /\ save.version \in save.doc /\ save.doc \subseteq 1 .. save.version
    /\ version = save.version => value = save.doc
    /\ 1 .. save.version \ dropped \subseteq save.doc

Published ==
  /\ value \subseteq 1 .. version /\ (value # Nothing => version \in value)
  /\ \A a \in Actor : mine[a] \subseteq 1 .. version
  /\ \A a \in Actor : pc[a] = "saving" => mine[a] \subseteq 1 .. save.version

\* Every edit that is in some file, or was read back from one ...
Docs ==
  {e \in Edit : \/ e \in file.doc \/ e \in bak.doc
                \/ e \in synced.file.doc \/ e \in synced.bak.doc
                \/ \E l \in Loader : e \in got[l]}

\* ... and the highest number one may have.
Written ==
  IF saver # None THEN (IF save.wrote THEN save.version ELSE save.version - 1)
  ELSE (IF value # Nothing THEN version - 1 ELSE version)

\* While the name is as it was last synced, a backup newer than the synced one
\* is the same file.
Renewed == synced.file = file /\ file.is = "doc" /\ bak # synced.bak => linked

\* The edits of X that are not dropped are on the disk, and so they are after a
\* power cut that leaves a file.
Saved(X) ==
  /\ X \ dropped \subseteq disk
  /\ synced.file.is = "doc" => X \ dropped \subseteq synced.file.doc
  /\ Damaged(synced.file) => /\ X \ dropped \subseteq bak.doc
                             /\ X \ dropped \subseteq synced.bak.doc

\* What was acknowledged is saved, and what is about to be.
Safe ==
  /\ Saved(acked)
  /\ step = "synced" => Saved(save.doc)
  /\ step = "renamed" => save.doc \ dropped \subseteq disk

\* An edit whose flush has not begun is saved by another's, or somebody has yet
\* to write it.
Due ==
  \A a \in Actor : pc[a] = "published" =>
    \/ Saved(Own(a))
    \/ /\ value # Nothing
       /\ \/ Own(a) \cap Docs = {}
          \/ saver # None /\ save.wrote /\ Own(a) \subseteq 1 .. save.version

Undamaged ==
  struck = 0 =>
    /\ ~ Damaged(file) /\ ~ Damaged(bak) /\ ~ Damaged(synced.file) /\ ~ Damaged(synced.bak)
    /\ \A l \in Loader : rec[l] = "idle"

SInv ==
  /\ StoreTypeOK /\ Tracks /\ Stepping /\ Saving /\ Published /\ Docs \subseteq 1 .. Written
  /\ Renewed /\ ShowsNewest /\ Safe /\ Due /\ Undamaged
-----------------------------------------------------------------------------
LEMMA StoreInitial == StoreInit => SInv
<1> SUFFICES ASSUME StoreInit PROVE SInv
  OBVIOUS
<1> USE WriterAssumption DEF StoreInit, Init
<1>1. StoreTypeOK
  <2>1. Gone \in Content
    BY DEF Gone, Content
  <2>2. TypeOK
    BY DEF TypeOK, Nothing, NoSave, Resting, Edit
  <2> QED
    BY <2>1, <2>2 DEF StoreTypeOK
<1>2. Tracks /\ Stepping /\ Saving /\ Published
  BY DEF Tracks, Readable, Restoring, Gone, Stepping, Saving, Published, Nothing, NoSave
<1>3. Docs \subseteq 1 .. Written
  BY DEF Docs, Gone
<1>4. Renewed /\ ShowsNewest /\ Safe /\ Due /\ Undamaged
  BY DEF Renewed, ShowsNewest, Safe, Saved, Due, Undamaged, Damaged, Gone
<1> QED
  BY <1>1, <1>2, <1>3, <1>4 DEF SInv

\* What the steps below start from.
LEMMA StoreFacts ==
  ASSUME SInv
  PROVE  /\ MaxEdit \in Nat /\ version \in Nat /\ version <= MaxEdit
         /\ save.version \in Nat /\ save.doc \subseteq Edit /\ save.wrote \in BOOLEAN
         /\ save \in [doc : SUBSET Edit, version : 0 .. MaxEdit, wrote : BOOLEAN]
         /\ file \in Content /\ bak \in Content
         /\ synced.file \in Content /\ synced.bak \in Content
         /\ \A c \in Content : c.doc \subseteq Edit /\ (c.is # "doc" => c.doc = {})
         /\ Written <= version /\ Written \in Int
         /\ Docs \subseteq 1 .. version /\ disk \subseteq Docs
         /\ file.doc \subseteq Docs /\ bak.doc \subseteq Docs
         /\ synced.file.doc \subseteq Docs /\ synced.bak.doc \subseteq Docs
         /\ \A l \in Loader : got[l] \subseteq Docs
         /\ \A a \in Actor : a # None /\ (pc[a] = "saving" <=> saver = a)
         /\ 1 .. version \subseteq Edit
<1> USE DEF SInv
<1>1. /\ MaxEdit \in Nat /\ version \in Nat /\ version <= MaxEdit
      /\ save \in [doc : SUBSET Edit, version : 0 .. MaxEdit, wrote : BOOLEAN]
      /\ \A a \in Actor : a # None /\ (pc[a] = "saving" <=> saver = a)
  BY WriterAssumption DEF StoreTypeOK, TypeOK
<1>2. /\ file \in Content /\ bak \in Content
      /\ synced.file \in Content /\ synced.bak \in Content
  BY DEF StoreTypeOK
<1>3. \A c \in Content : c.doc \subseteq Edit /\ (c.is # "doc" => c.doc = {})
  BY DEF Content
<1>4. save.version \in Nat /\ save.doc \subseteq Edit /\ save.wrote \in BOOLEAN
  BY <1>1
<1>5. Written <= version /\ Written \in Int
  BY <1>1, <1>4 DEF Written, Saving
<1>6. /\ file.doc \subseteq Docs /\ bak.doc \subseteq Docs
      /\ synced.file.doc \subseteq Docs /\ synced.bak.doc \subseteq Docs
  BY <1>2, <1>3 DEF Docs
<1>7. \A l \in Loader : got[l] \subseteq Docs
  BY DEF Docs, StoreTypeOK
<1>8. disk \subseteq Docs
  BY <1>6 DEF Tracks, Readable
<1>9. Docs \subseteq 1 .. version /\ 1 .. version \subseteq Edit
  BY <1>1, <1>5 DEF Edit
<1> QED
  BY <1>1, <1>2, <1>3, <1>4, <1>5, <1>6, <1>7, <1>8, <1>9

\* An actor has one edit of its own.
LEMMA OwnOne ==
  ASSUME SInv, NEW a \in Actor
  PROVE  /\ Own(a) \subseteq mine[a] /\ Own(a) \subseteq 1 .. version
         /\ \A e, f \in Own(a) : e = f
<1>1. mine[a] \subseteq 1 .. version
  BY DEF SInv, Published
<1>2. \A e, f \in Own(a) : e = f
  BY <1>1 DEF Own
<1> QED
  BY <1>1, <1>2 DEF Own
-----------------------------------------------------------------------------
(* Edits and flushes: the files stay as they are.                          *)

LEMMA EditSteps ==
  ASSUME SInv, NEW a \in Actor, Edit1(a) \/ EditRecovered(a)
  PROVE  SInv'
<1> DEFINE e == version + 1
<1>1. PICK doc : /\ EditOn(a, doc) /\ UNCHANGED <<file, bak, linked, synced, step, struck>>
                 /\ doc \subseteq 1 .. version
  <2>1. value \subseteq 1 .. version
    BY DEF SInv, Published
  <2>2. CASE Edit1(a)
    BY <2>1, <2>2, StoreFacts DEF Edit1, storeVars, fileVars
  <2>3. CASE EditRecovered(a)
    BY <2>3, StoreFacts DEF EditRecovered, fileVars, Loader
  <2> QED
    BY <2>2, <2>3
<1>2. /\ rec' \in [Loader -> {"idle", "bad", "moved", "restoring", "loaded"}]
      /\ got' \in [Loader -> SUBSET Edit]
      /\ \A l \in Loader : got'[l] \subseteq got[l]
      /\ \A l \in Loader : rec'[l] = rec[l] \/ (rec[l] = "loaded" /\ rec'[l] = "idle")
  BY DEF SInv, StoreTypeOK, Edit1, EditRecovered, storeVars, recVars, Loader
<1>3. /\ version' = e /\ value' = doc \cup {e} /\ mine' = [mine EXCEPT ![a] = doc \cup {e}]
      /\ pc' = [pc EXCEPT ![a] = "published"] /\ dropped' = dropped \cup (Loaded \ doc)
      /\ UNCHANGED <<disk, saver, save, acked>> /\ pc[a] \in Resting /\ version < MaxEdit
  BY <1>1 DEF EditOn
<1>4. /\ e \in Nat /\ e <= MaxEdit /\ e \in Edit /\ e \in 1 .. e
      /\ 1 .. version \subseteq 1 .. e /\ value' # Nothing /\ 1 .. e = (1 .. version) \cup {e}
  BY <1>3, StoreFacts DEF Edit, Nothing
<1>5. value' \subseteq Edit /\ value' \subseteq 1 .. e /\ Loaded \subseteq 1 .. version
  BY <1>1, <1>3, <1>4, StoreFacts DEF Loaded, SInv, Published
<1> HIDE DEF e
<1>6. StoreTypeOK'
  <2>1. /\ mine' \in [Actor -> SUBSET Edit]
        /\ pc' \in [Actor -> Resting \cup {"published", "saving"}]
        /\ \A b \in Actor : pc'[b] = "saving" <=> saver' = b
    BY <1>3, <1>5 DEF SInv, StoreTypeOK, TypeOK, Resting
  <2>2. dropped' \subseteq Edit
    BY <1>3, <1>5, StoreFacts DEF SInv, StoreTypeOK, TypeOK
  <2>3. TypeOK'
    BY <1>3, <1>4, <1>5, <2>1, <2>2 DEF SInv, StoreTypeOK, TypeOK
  <2> QED
    BY <1>1, <1>2, <2>3 DEF SInv, StoreTypeOK
<1>7. Tracks'
  <2>1. Restoring(rec') = Restoring(rec)
    BY <1>2 DEF Restoring
  <2> QED
    BY <1>1, <1>3, <2>1 DEF SInv, Tracks, Readable
<1>8. Stepping' /\ Renewed'
  BY <1>1, <1>3 DEF SInv, Stepping, Renewed
<1>9. Saving'
  <2> SUFFICES ASSUME saver # None PROVE Saving'
    BY <1>3 DEF Saving
  <2>1. save.version <= version' /\ version' # save.version
    BY <1>3, StoreFacts DEF SInv, Saving, e
  <2> QED
    BY <1>3, <1>4, <2>1 DEF SInv, Saving
<1>10. Published'
  <2>1. \A b \in Actor : mine'[b] \subseteq 1 .. e
    <3>1. \A b \in Actor : mine[b] \subseteq 1 .. e
      BY <1>4 DEF SInv, Published
    <3>2. \A b \in Actor : mine'[b] = mine[b] \/ mine'[b] = value'
      BY <1>3 DEF SInv, StoreTypeOK, TypeOK
    <3> QED
      BY <1>5, <3>1, <3>2
  <2>2. \A b \in Actor : pc'[b] = "saving" => mine'[b] = mine[b] /\ pc[b] = "saving"
    BY <1>3 DEF SInv, StoreTypeOK, TypeOK
  <2> QED
    BY <1>3, <1>5, <2>1, <2>2 DEF SInv, Published
<1>11. Docs' \subseteq Docs /\ Docs \subseteq 1 .. Written'
  <2>1. Docs' \subseteq Docs
    BY <1>1, <1>2 DEF Docs
  <2>2. Written <= Written' /\ Written' \in Int
    BY <1>3, <1>4, StoreFacts DEF Written, e
  <2> QED
    BY <2>1, <2>2, StoreFacts DEF SInv
<1>12. ShowsNewest'
  <2>1. 1 .. version \ dropped \subseteq Loaded
    BY DEF SInv, ShowsNewest
  <2> QED
    BY <1>3, <1>4, <2>1 DEF ShowsNewest, Loaded
<1>13. Safe'
  BY <1>1, <1>3 DEF SInv, Safe, Saved
<1>14. Due'
  <2> SUFFICES ASSUME NEW b \in Actor, pc'[b] = "published"
               PROVE  Saved(Own(b))' \/ (value' # Nothing /\
                        (Own(b)' \cap Docs' = {} \/
                          (saver' # None /\ save'.wrote /\ Own(b)' \subseteq 1 .. save'.version)))
    BY DEF Due
  <2>1. CASE b = a
    <3>1. Own(a)' \subseteq {e}
      <4>1. mine'[a] = doc \cup {e}
        BY <1>3 DEF SInv, StoreTypeOK, TypeOK
      <4>2. \A x \in doc : ~ e <= x
        BY <1>1, StoreFacts DEF e
      <4> QED
        BY <4>1, <4>2 DEF Own
    <3>2. e \notin Docs'
      BY <1>11, StoreFacts DEF e
    <3> QED
      BY <1>4, <2>1, <3>1, <3>2
  <2>2. CASE b # a
    <3>1. pc[b] = "published" /\ Own(b)' = Own(b)
      BY <1>3, <2>2 DEF SInv, StoreTypeOK, TypeOK, Own
    <3>2. CASE Saved(Own(b))
      BY <1>1, <1>3, <3>1, <3>2 DEF Saved
    <3>3. CASE ~ Saved(Own(b))
      <4>1. Own(b) \cap Docs = {} \/ (saver # None /\ save.wrote /\ Own(b) \subseteq 1 .. save.version)
        BY <3>1, <3>3 DEF SInv, Due
      <4> QED
        BY <1>3, <1>4, <1>11, <3>1, <4>1
    <3> QED
      BY <3>2, <3>3
  <2> QED
    BY <2>1, <2>2
<1>15. Undamaged'
  BY <1>1, <1>2 DEF SInv, Undamaged
<1> QED
  BY <1>6, <1>7, <1>8, <1>9, <1>10, <1>11, <1>12, <1>13, <1>14, <1>15 DEF SInv

\* A step of a flush that changes no file keeps what is not about the flush.
LEMMA FlushKeeps ==
  ASSUME SInv, UNCHANGED <<fileVars, recVars, struck, disk, version>>,
         dropped \subseteq dropped', step' = "new"
  PROVE  /\ Tracks' /\ Undamaged' /\ Renewed' /\ Docs' = Docs
         /\ \A X : Saved(X) => Saved(X)'
<1>1. UNCHANGED <<file, bak, linked, synced, rec, got>>
  BY DEF fileVars, recVars
<1>2. Tracks' /\ Undamaged' /\ Renewed'
  BY <1>1 DEF SInv, Tracks, Readable, Restoring, Undamaged, Renewed
<1>3. Docs' = Docs
  BY <1>1 DEF Docs
<1>4. \A X : Saved(X) => Saved(X)'
  BY <1>1 DEF Saved
<1> QED
  BY <1>2, <1>3, <1>4

LEMMA EnterSteps ==
  ASSUME SInv, NEW a \in Actor, Enter(a)
  PROVE  SInv'
<1>1. /\ UNCHANGED <<fileVars, recVars, step, struck, disk, version, value, mine, dropped>>
      /\ pc[a] = "published" /\ saver = None /\ step = "new" /\ step' = "new"
      /\ \A b \in Actor : pc[b] # "saving"
  BY StoreFacts DEF Enter, FlushNothing, FlushTake, storeVars, SInv, Stepping
<1>2. /\ Tracks' /\ Undamaged' /\ Renewed' /\ Docs' = Docs
      /\ \A X : Saved(X) => Saved(X)'
  BY <1>1, FlushKeeps
<1>3. /\ pc \in [Actor -> Resting \cup {"published", "saving"}]
      /\ \A b \in Actor : Own(b)' = Own(b)
  BY <1>1 DEF SInv, StoreTypeOK, TypeOK, Own
<1>4. CASE FlushNothing(a)
  <2>1. /\ pc' = [pc EXCEPT ![a] = "saved"] /\ acked' = acked \cup Own(a) /\ value = Nothing
        /\ UNCHANGED <<saver, save>>
    BY <1>4 DEF FlushNothing
  <2>2. StoreTypeOK'
    <3>1. acked' \subseteq Edit
      BY <2>1, StoreFacts, OwnOne DEF SInv, StoreTypeOK, TypeOK
    <3>2. /\ pc' \in [Actor -> Resting \cup {"published", "saving"}]
          /\ \A b \in Actor : pc'[b] = "saving" <=> saver' = b
      BY <1>1, <1>3, <2>1, StoreFacts DEF Resting
    <3>3. TypeOK'
      BY <1>1, <2>1, <3>1, <3>2 DEF SInv, StoreTypeOK, TypeOK
    <3> QED
      BY <1>1, <3>3 DEF SInv, StoreTypeOK, fileVars, recVars
  <2>3. Stepping' /\ Saving' /\ Docs' \subseteq 1 .. Written' /\ ShowsNewest'
    BY <1>1, <1>2, <2>1 DEF SInv, Stepping, Saving, Written, ShowsNewest, Loaded
  <2>4. Published'
    <3>1. \A b \in Actor : pc'[b] # "saving"
      BY <1>1, <1>3, <2>1
    <3> QED
      BY <1>1, <3>1 DEF SInv, Published
  <2>5. Safe'
    <3>1. Saved(Own(a)) /\ Saved(acked)
      BY <1>1, <2>1 DEF SInv, Due, Safe
    <3>2. Saved(acked \cup Own(a))
      BY <3>1 DEF Saved
    <3>3. Saved(acked)'
      BY <1>1, <2>1, <3>2 DEF Saved, fileVars
    <3> QED
      BY <1>1, <3>3 DEF Safe
  <2>6. Due'
    <3>1. \A b \in Actor : pc'[b] = "published" => pc[b] = "published"
      BY <1>3, <2>1
    <3>2. \A b \in Actor : Saved(Own(b)) => Saved(Own(b))'
      BY <1>1, <1>3 DEF Saved, fileVars
    <3> QED
      BY <1>1, <1>2, <1>3, <2>1, <3>1, <3>2 DEF SInv, Due
  <2> QED
    BY <1>2, <2>2, <2>3, <2>4, <2>5, <2>6 DEF SInv
<1>5. CASE FlushTake(a)
  <2>1. /\ pc' = [pc EXCEPT ![a] = "saving"] /\ saver' = a /\ value # Nothing
        /\ save' = [doc |-> value, version |-> version, wrote |-> FALSE]
        /\ UNCHANGED acked
    BY <1>5 DEF FlushTake, Taken
  <2>2. /\ value \subseteq Edit /\ value \subseteq 1 .. version /\ version \in value
        /\ 1 .. version \ dropped \subseteq value
    BY <2>1, StoreFacts DEF SInv, Published, ShowsNewest, Loaded
  <2>3. StoreTypeOK'
    <3>1. save' \in [doc : SUBSET Edit, version : 0 .. MaxEdit, wrote : BOOLEAN]
      BY <2>1, <2>2, StoreFacts
    <3>2. /\ pc' \in [Actor -> Resting \cup {"published", "saving"}]
          /\ \A b \in Actor : pc'[b] = "saving" <=> saver' = b
      BY <1>1, <1>3, <2>1 DEF Resting
    <3>3. TypeOK'
      BY <1>1, <2>1, <3>1, <3>2 DEF SInv, StoreTypeOK, TypeOK
    <3> QED
      BY <1>1, <3>3 DEF SInv, StoreTypeOK, fileVars, recVars
  <2>4. Stepping' /\ ShowsNewest'
    BY <1>1, <2>1, StoreFacts DEF SInv, Stepping, ShowsNewest, Loaded
  <2>5. Saving'
    BY <1>1, <2>1, <2>2, StoreFacts DEF Saving
  <2>6. Docs' \subseteq 1 .. Written'
    <3>1. Written' = version - 1 /\ Written = version - 1
      BY <1>1, <2>1, StoreFacts DEF Written
    <3> QED
      BY <1>2, <3>1 DEF SInv
  <2>7. Published'
    BY <1>1, <1>3, <2>1 DEF SInv, Published
  <2>8. Safe'
    BY <1>1, <2>1 DEF SInv, Safe, Saved, fileVars
  <2>9. Due'
    <3>1. \A b \in Actor : pc'[b] = "published" => pc[b] = "published"
      BY <1>3, <2>1
    <3>2. \A b \in Actor : Saved(Own(b)) => Saved(Own(b))'
      BY <1>1, <1>3 DEF Saved, fileVars
    <3> QED
      BY <1>1, <1>2, <1>3, <2>1, <3>1, <3>2 DEF SInv, Due
  <2> QED
    BY <1>2, <2>3, <2>4, <2>5, <2>6, <2>7, <2>8, <2>9 DEF SInv
<1> QED
  BY <1>4, <1>5 DEF Enter

\* A save ends, in whatever way.
LEMMA LeaveFacts ==
  ASSUME SInv, NEW a \in Actor, Leave(a)
  PROVE  /\ UNCHANGED <<fileVars, recVars, struck, disk, version, mine>> /\ step' = "new"
         /\ pc[a] = "saving" /\ saver = a /\ saver # None /\ value # Nothing
         /\ saver' = None /\ save' = NoSave /\ value' = Rest
         /\ \A b \in Actor : pc'[b] # "saving" /\ (pc'[b] = "published" => pc[b] = "published")
         /\ pc' \in [Actor -> Resting \cup {"published", "saving"}]
         /\ dropped \subseteq dropped' /\ dropped' \subseteq Edit /\ acked' \subseteq Edit
         /\ \/ step = "synced" /\ FlushDone(a)
            \/ FlushRaise(a)
<1>1. /\ pc[a] = "saving" /\ saver = a /\ saver # None /\ value # Nothing
      /\ \A b \in Actor : pc[b] = "saving" => b = a
      /\ pc \in [Actor -> Resting \cup {"published", "saving"}]
      /\ dropped \subseteq Edit /\ acked \subseteq Edit
  BY StoreFacts DEF Leave, FlushDone, FlushRaise, SInv, Saving, StoreTypeOK, TypeOK
<1>2. PICK x \in {"saved", "raised"} : pc' = [pc EXCEPT ![a] = x]
  BY DEF Leave, FlushDone, FlushRaise
<1>3. /\ \A b \in Actor : pc'[b] # "saving" /\ (pc'[b] = "published" => pc[b] = "published")
      /\ pc' \in [Actor -> Resting \cup {"published", "saving"}]
  BY <1>1, <1>2 DEF Resting
<1>4. /\ UNCHANGED <<fileVars, recVars, struck, disk, version, mine>> /\ step' = "new"
      /\ saver' = None /\ save' = NoSave /\ value' = Rest
      /\ \/ step = "synced" /\ FlushDone(a)
         \/ FlushRaise(a)
  BY DEF Leave, FlushDone, FlushRaise
<1>5. dropped \subseteq dropped' /\ dropped' \subseteq Edit /\ acked' \subseteq Edit
  <2>1. CASE FlushDone(a)
    BY <1>1, <2>1, OwnOne, StoreFacts DEF FlushDone
  <2>2. CASE FlushRaise(a)
    BY <1>1, <2>2, StoreFacts DEF FlushRaise
  <2> QED
    BY <1>4, <2>1, <2>2
<1> QED
  BY <1>1, <1>3, <1>4, <1>5

LEMMA LeaveSteps ==
  ASSUME SInv, NEW a \in Actor, Leave(a)
  PROVE  SInv'
<1>1. /\ UNCHANGED <<fileVars, recVars, struck, disk, version, mine>> /\ step' = "new"
      /\ pc[a] = "saving" /\ saver = a /\ saver # None /\ value # Nothing
      /\ saver' = None /\ save' = NoSave /\ value' = Rest
      /\ \A b \in Actor : pc'[b] # "saving" /\ (pc'[b] = "published" => pc[b] = "published")
      /\ pc' \in [Actor -> Resting \cup {"published", "saving"}]
      /\ dropped \subseteq dropped' /\ dropped' \subseteq Edit /\ acked' \subseteq Edit
      /\ \/ step = "synced" /\ FlushDone(a)
         \/ FlushRaise(a)
  BY LeaveFacts
<1>2. /\ Tracks' /\ Undamaged' /\ Renewed' /\ Docs' = Docs
      /\ \A X : Saved(X) => Saved(X)'
  BY <1>1, FlushKeeps
<1>3. /\ save.version \in Nat /\ version \in Nat /\ save.version <= version
      /\ value \subseteq Edit /\ value \subseteq 1 .. version /\ version \in value
      /\ version = save.version => value = save.doc
      /\ save.doc \subseteq 1 .. save.version /\ 1 .. save.version \ dropped \subseteq save.doc
      /\ 1 .. version \ dropped \subseteq value
  BY <1>1, StoreFacts DEF SInv, Saving, Published, ShowsNewest, Loaded
<1>4. /\ version = save.version => value' = Nothing
      /\ version # save.version => value' = value
  BY <1>1 DEF Rest
<1>5. \A b \in Actor : Own(b)' = Own(b) /\ Own(b) \subseteq 1 .. version
  BY <1>1, OwnOne DEF Own
<1>6. StoreTypeOK'
  <2>1. /\ save' \in [doc : SUBSET Edit, version : 0 .. MaxEdit, wrote : BOOLEAN]
        /\ value' \subseteq Edit
    <3>1. NoSave \in [doc : SUBSET Edit, version : 0 .. MaxEdit, wrote : BOOLEAN]
      BY WriterAssumption DEF NoSave, Nothing
    <3>2. value' \subseteq Edit
      BY <1>3, <1>4 DEF Nothing
    <3> QED
      BY <1>1, <3>1, <3>2
  <2>2. \A b \in Actor : pc'[b] = "saving" <=> saver' = b
    BY <1>1, StoreFacts
  <2>3. TypeOK'
    BY <1>1, <2>1, <2>2 DEF SInv, StoreTypeOK, TypeOK
  <2> QED
    BY <1>1, <2>3 DEF SInv, StoreTypeOK, fileVars, recVars
<1>7. Stepping' /\ Saving'
  BY <1>1 DEF Stepping, Saving, NoSave
<1>8. Published'
  BY <1>1, <1>3, <1>4 DEF SInv, Published, Nothing
<1>9. Docs' \subseteq 1 .. Written'
  <2>1. Written <= Written' /\ Written' \in Int
    BY <1>1, <1>3, <1>4, StoreFacts DEF Written
  <2> QED
    BY <1>2, <2>1, StoreFacts DEF SInv
\* Edits up to the save's number are saved by it,
<1>10. ASSUME NEW X, X \subseteq 1 .. save.version, step = "synced"
       PROVE  Saved(X)'
  <2>1. Saved(save.doc)
    BY <1>10 DEF SInv, Safe
  <2>2. Saved(X)
    BY <1>3, <1>10, <2>1 DEF Saved
  <2> QED
    BY <1>2, <2>2
\* or dropped with it, unless a newer document waits.
<1>11. ASSUME NEW X, X \subseteq 1 .. version, FlushRaise(a), version = save.version, X \cap Docs = {}
       PROVE  Saved(X)'
  <2>1. dropped' = dropped \cup (save.doc \ disk) /\ disk \subseteq Docs
    BY <1>11, StoreFacts DEF FlushRaise
  <2>2. X \subseteq dropped'
    BY <1>3, <1>11, <2>1
  <2> QED
    BY <2>2 DEF Saved
<1>12. FlushRaise(a) => ~ save.wrote
  BY DEF FlushRaise
<1>13. ShowsNewest'
  <2>1. CASE version # save.version
    BY <1>1, <1>3, <1>4, <2>1 DEF ShowsNewest, Loaded
  <2>2. CASE version = save.version /\ step = "synced"
    <3>1. 1 .. version \ dropped' \subseteq disk'
      BY <1>10, <2>2 DEF Saved
    <3> QED
      BY <1>1, <1>4, <2>2, <3>1 DEF ShowsNewest, Loaded
  <2>3. CASE version = save.version /\ FlushRaise(a)
    <3>1. dropped' = dropped \cup (save.doc \ disk)
      BY <2>3 DEF FlushRaise
    <3>2. 1 .. version \ dropped' \subseteq disk
      BY <1>3, <2>3, <3>1
    <3> QED
      BY <1>1, <1>4, <2>3, <3>2 DEF ShowsNewest, Loaded
  <2> QED
    BY <1>1, <2>1, <2>2, <2>3
<1>14. Safe'
  <2>1. CASE step = "synced" /\ FlushDone(a)
    <3>1. Own(a) \subseteq 1 .. save.version
      BY <1>1, OwnOne DEF SInv, Published
    <3>2. Saved(Own(a)) /\ Saved(acked)
      <4>1. Saved(save.doc)
        BY <2>1 DEF SInv, Safe
      <4>2. Saved(Own(a))
        BY <1>3, <3>1, <4>1 DEF Saved
      <4> QED
        BY <4>2 DEF SInv, Safe
    <3>3. acked' = acked \cup Own(a) /\ dropped' = dropped
      BY <2>1 DEF FlushDone
    <3>4. Saved(acked)'
      BY <1>1, <3>2, <3>3 DEF Saved, fileVars
    <3> QED
      BY <1>1, <3>4 DEF Safe
  <2>2. CASE FlushRaise(a)
    <3>1. acked' = acked
      BY <2>2 DEF FlushRaise
    <3>2. Saved(acked)'
      BY <1>1, <3>1 DEF SInv, Safe, Saved, fileVars
    <3> QED
      BY <1>1, <3>2 DEF Safe
  <2> QED
    BY <1>1, <2>1, <2>2
<1>15. Due'
  <2> SUFFICES ASSUME NEW b \in Actor, pc'[b] = "published"
               PROVE  Saved(Own(b))' \/ (value' # Nothing /\ Own(b)' \cap Docs' = {})
    BY DEF Due
  <2>1. /\ pc[b] = "published"
        /\ \/ Saved(Own(b))
           \/ Own(b) \cap Docs = {}
           \/ save.wrote /\ Own(b) \subseteq 1 .. save.version
    BY <1>1 DEF SInv, Due
  <2>2. PICK X : X = Own(b)
    OBVIOUS
  <2>3. X = Own(b)' /\ X \subseteq 1 .. version
    BY <1>5, <2>2
  <2>4. Saved(X)' \/ (value' # Nothing /\ X \cap Docs' = {})
    <3>1. CASE Saved(X)
      BY <1>2, <3>1
    <3>2. CASE X \cap Docs = {} /\ version # save.version
      BY <1>1, <1>2, <1>4, <3>2
    <3>3. CASE X \cap Docs = {} /\ version = save.version
      BY <1>1, <1>10, <1>11, <2>3, <3>3
    <3>4. CASE save.wrote /\ X \subseteq 1 .. save.version
      BY <1>1, <1>10, <1>12, <3>4
    <3> QED
      BY <2>1, <2>2, <3>1, <3>2, <3>3, <3>4
  <2> QED
    BY <1>2, <2>3, <2>4 DEF Saved
<1> QED
  BY <1>2, <1>6, <1>7, <1>8, <1>9, <1>13, <1>14, <1>15 DEF SInv

\* A load that finds the file damaged takes note of it.
LEMMA LoadBadSteps ==
  ASSUME SInv, NEW l \in Loader, LoadBad(l)
  PROVE  SInv'
<1>1. /\ UNCHANGED <<vars, file, bak, linked, synced, step, got, struck>>
      /\ rec[l] = "idle" /\ Damaged(file) /\ rec' = [rec EXCEPT ![l] = "bad"]
      /\ UNCHANGED <<version, value, disk, saver, save, pc, mine, acked, dropped>>
  BY DEF LoadBad, fileVars, vars
<1>2. /\ rec' \in [Loader -> {"idle", "bad", "moved", "restoring", "loaded"}]
      /\ rec'[l] = "bad" /\ \A k \in Loader : k # l => rec'[k] = rec[k]
  BY <1>1 DEF SInv, StoreTypeOK
<1>3. StoreTypeOK'
  BY <1>1, <1>2 DEF SInv, StoreTypeOK, TypeOK
<1>4. Tracks'
  BY <1>1, <1>2 DEF SInv, Tracks, Readable, Restoring
<1>5. Stepping' /\ Saving' /\ Published' /\ Renewed' /\ ShowsNewest'
  BY <1>1 DEF SInv, Stepping, Saving, Published, Renewed, ShowsNewest, Loaded
<1>6. Docs' = Docs /\ Written' = Written
  BY <1>1 DEF Docs, Written
<1>7. Safe'
  BY <1>1 DEF SInv, Safe, Saved
<1>8. Due'
  BY <1>1, <1>6 DEF SInv, Due, Saved, Own
<1>9. Undamaged'
  BY <1>1 DEF SInv, Undamaged
<1> QED
  BY <1>3, <1>4, <1>5, <1>6, <1>7, <1>8, <1>9 DEF SInv
-----------------------------------------------------------------------------
(* The files.                                                              *)

\* A step of a save, of a recovery or of damage that adds no edit to the files.
LEMMA FilesKeep ==
  ASSUME SInv, UNCHANGED <<version, value, saver, save, pc, mine, acked>>,
         StoreTypeOK', Tracks', Stepping', Renewed', Undamaged',
         dropped \subseteq dropped', disk \ dropped' \subseteq disk', Docs' \subseteq Docs,
         \A X : Saved(X) => Saved(X)',
         \/ step' = step
         \/ step' = "kept"
         \/ step' = "synced" /\ Saved(save.doc)'
  PROVE  SInv'
<1>1. Saving' /\ Published'
  BY DEF SInv, Saving, Published
<1>2. Docs' \subseteq 1 .. Written'
  BY DEF SInv, Written
<1>3. ShowsNewest'
  BY DEF SInv, ShowsNewest, Loaded
<1>4. Safe'
  <2>1. Saved(acked)'
    <3>1. PICK X : X = acked
      OBVIOUS
    <3>2. Saved(X)'
      BY <3>1 DEF SInv, Safe
    <3> QED
      BY <3>1, <3>2 DEF Saved
  <2>2. step' = "synced" => Saved(save.doc)'
    <3>1. PICK X : X = save.doc
      OBVIOUS
    <3>2. step = "synced" => Saved(X)'
      BY <3>1 DEF SInv, Safe
    <3>3. step = "synced" => Saved(save.doc)'
      BY <3>1, <3>2 DEF Saved
    <3> QED
      BY <3>3
  <2>3. step' = "renamed" => save'.doc \ dropped' \subseteq disk'
    BY DEF SInv, Safe
  <2> QED
    BY <2>1, <2>2, <2>3 DEF Safe
<1>5. Due'
  <2> SUFFICES ASSUME NEW b \in Actor, pc[b] = "published"
               PROVE  \/ Saved(Own(b))'
                      \/ /\ value # Nothing
                         /\ \/ Own(b) \cap Docs' = {}
                            \/ saver # None /\ save.wrote /\ Own(b) \subseteq 1 .. save.version
    BY DEF Due, Own
  <2>1. CASE Saved(Own(b))
    <3>1. PICK X : X = Own(b)
      OBVIOUS
    <3>2. Saved(X)'
      BY <2>1, <3>1
    <3>3. X = Own(b)'
      BY <3>1 DEF Own
    <3> QED
      BY <3>2, <3>3 DEF Saved
  <2>2. CASE ~ Saved(Own(b))
    BY <2>2 DEF SInv, Due
  <2> QED
    BY <2>1, <2>2
<1> QED
  BY <1>1, <1>2, <1>3, <1>4, <1>5 DEF SInv

\* The types after it.
LEMMA FilesTyped ==
  ASSUME SInv, UNCHANGED <<version, value, saver, pc, mine, acked>>,
         save' = save \/ save' = [save EXCEPT !.wrote = TRUE],
         file' \in Content, bak' \in Content, linked' \in BOOLEAN,
         synced' \in [file : Content, bak : Content],
         step' \in {"new", "kept", "renamed", "synced"},
         rec' \in [Loader -> {"idle", "bad", "moved", "restoring", "loaded"}],
         got' \in [Loader -> SUBSET Edit], struck' \in Nat, Tracks',
         \E lost \in SUBSET disk : dropped' = dropped \cup lost
  PROVE  StoreTypeOK' /\ dropped \subseteq dropped'
<1>1. disk \subseteq Edit /\ disk' \subseteq Edit
  BY StoreFacts DEF Tracks, Readable
<1>2. dropped' \subseteq Edit /\ dropped \subseteq dropped'
  BY <1>1 DEF SInv, StoreTypeOK, TypeOK
<1>3. save' \in [doc : SUBSET Edit, version : 0 .. MaxEdit, wrote : BOOLEAN]
  BY StoreFacts
<1>4. TypeOK'
  BY <1>1, <1>2, <1>3 DEF SInv, StoreTypeOK, TypeOK
<1> QED
  BY <1>2, <1>4 DEF StoreTypeOK

\* The backup is made: it is the file, which a load gives before and after; unless
\* that is JSON of the wrong shape, and a load then gives nothing.
LEMMA KeepBackupSteps ==
  ASSUME SInv, NEW a \in Actor, KeepBackup(a)
  PROVE  SInv' /\ disk \ dropped' \subseteq disk'
<1>1. /\ UNCHANGED <<version, value, saver, save, pc, mine, acked, synced, rec, got, struck>>
      /\ saver # None /\ step = "new" /\ step' = "kept" /\ file' = file
      /\ disk' = Readable(file', bak', rec')
      /\ \/ /\ bak' = file /\ linked' = TRUE
            /\ \/ file.is = "doc" /\ dropped' = dropped
               \/ file.is = "misshapen" /\ dropped' = dropped \cup (disk \ disk')
         \/ /\ bak' = bak /\ linked' = linked /\ dropped' = dropped
            /\ file.is # "misshapen"
  BY StoreFacts DEF KeepBackup, Parses, LinkedFrom, Follow, writerVars, recVars
<1>2. /\ Tracks'
      /\ \/ disk' = disk /\ dropped' = dropped
         \/ disk' = {} /\ dropped' = dropped \cup disk
  <2>1. CASE file.is = "misshapen"
    <3>1. bak'.doc = {} /\ disk' = {} /\ dropped' = dropped \cup disk
      BY <1>1, <2>1, StoreFacts DEF SInv, StoreTypeOK, Content, Readable
    <3> QED
      BY <1>1, <3>1 DEF Tracks
  <2>2. CASE file.is # "misshapen"
    BY <1>1, <2>2 DEF SInv, Tracks, Readable
  <2> QED
    BY <2>1, <2>2
<1>3. StoreTypeOK' /\ dropped \subseteq dropped'
  <2>1. /\ bak' \in Content /\ linked' \in BOOLEAN
        /\ synced' \in [file : Content, bak : Content] /\ file' \in Content
        /\ rec' \in [Loader -> {"idle", "bad", "moved", "restoring", "loaded"}]
        /\ got' \in [Loader -> SUBSET Edit] /\ struck' \in Nat
    BY <1>1 DEF SInv, StoreTypeOK
  <2>2. \E lost \in SUBSET disk : dropped' = dropped \cup lost
    <3>1. dropped' = dropped \cup disk \/ dropped' = dropped \cup {}
      BY <1>2
    <3>2. disk \in SUBSET disk /\ {} \in SUBSET disk
      OBVIOUS
    <3> QED
      BY <3>1, <3>2
  <2> QED
    BY <1>1, <1>2, <2>1, <2>2, FilesTyped
<1>4. Stepping' /\ Renewed' /\ Undamaged'
  BY <1>1 DEF SInv, Stepping, Renewed, Undamaged, Damaged
<1>5. Docs' \subseteq Docs
  BY <1>1 DEF Docs
<1>6. ASSUME NEW X, Saved(X)
      PROVE  Saved(X)'
  <2>1. X \ dropped \subseteq disk
    BY <1>6 DEF Saved
  <2>2. CASE disk' = {} /\ dropped' = dropped \cup disk
    BY <2>1, <2>2 DEF Saved
  <2>3. CASE disk' = disk /\ dropped' = dropped
    <3>1. file.is = "doc" => disk = file.doc
      BY DEF SInv, Tracks, Readable
    <3>2. file.is = "misshapen" => disk' \subseteq bak'.doc
      BY <1>1 DEF Readable
    <3>3. bak' = bak \/ X \ dropped \subseteq bak'.doc
      BY <1>1, <2>1, <2>3, <3>1, <3>2
    <3>4. /\ synced' = synced /\ X \ dropped' \subseteq disk'
      BY <1>1, <2>1, <2>3
    <3> QED
      BY <1>6, <2>3, <3>3, <3>4 DEF Saved
  <2> QED
    BY <1>2, <2>2, <2>3
<1>7. disk \ dropped' \subseteq disk'
  BY <1>2
<1> QED
  BY <1>1, <1>2, <1>3, <1>4, <1>5, <1>6, <1>7, FilesKeep

\* The directory is synced: what the names hold now survives a power cut.
LEMMA SyncDirSteps ==
  ASSUME SInv, NEW a \in Actor, SyncDir(a)
  PROVE  SInv'
<1>1. /\ UNCHANGED <<version, value, disk, saver, save, pc, mine, acked, dropped>>
      /\ UNCHANGED <<file, bak, linked, rec, got, struck>>
      /\ saver # None /\ step = "renamed" /\ step' = "synced"
      /\ synced'.file = file /\ synced'.bak = bak /\ synced' = [file |-> file, bak |-> bak]
  BY StoreFacts DEF SyncDir, Synced, vars, recVars
<1>2. Tracks' /\ Stepping' /\ Renewed' /\ Undamaged'
  BY <1>1 DEF SInv, Tracks, Readable, Restoring, Stepping, Renewed, Undamaged
<1>3. StoreTypeOK'
  BY <1>1, StoreFacts DEF SInv, StoreTypeOK, TypeOK
<1>4. Docs' \subseteq Docs
  BY <1>1 DEF Docs
<1>5. \A X : X \ dropped \subseteq disk => Saved(X)'
  <2>1. /\ file.is = "doc" => disk = file.doc
        /\ Damaged(file) => disk = bak.doc
    BY DEF SInv, Tracks, Readable, Damaged
  <2> QED
    BY <1>1, <2>1 DEF Saved
<1>6. Saved(save.doc)'
  BY <1>1, <1>5 DEF SInv, Safe, Saved
<1>7. \A X : Saved(X) => Saved(X)'
  BY <1>5 DEF Saved
<1> QED
  BY <1>1, <1>2, <1>3, <1>4, <1>6, <1>7, FilesKeep

\* What a load that goes on leaves of the recoveries.
LEMMA LoadTypes ==
  ASSUME SInv, NEW l \in Loader, NEW x \in {"idle", "bad", "moved", "restoring", "loaded"},
         NEW d \in SUBSET Edit
  PROVE  /\ [rec EXCEPT ![l] = x] \in [Loader -> {"idle", "bad", "moved", "restoring", "loaded"}]
         /\ [got EXCEPT ![l] = d] \in [Loader -> SUBSET Edit]
BY DEF SInv, StoreTypeOK

LEMMA QuarantineSteps ==
  ASSUME SInv, NEW l \in Loader, Quarantine(l)
  PROVE  SInv' /\ disk \ dropped' \subseteq disk'
<1>1. /\ UNCHANGED <<version, value, saver, save, pc, mine, acked, bak, synced, step, got, struck>>
      /\ rec[l] = "bad" /\ rec' = [rec EXCEPT ![l] = "moved"] /\ file' = Gone /\ linked' = FALSE
      /\ disk' = Readable(file', bak', rec')
      /\ dropped' = IF file.is = "doc" THEN dropped \cup (disk \ disk') ELSE dropped
  BY DEF Quarantine, Follow, writerVars
<1>2. /\ rec' \in [Loader -> {"idle", "bad", "moved", "restoring", "loaded"}] /\ rec'[l] = "moved"
      /\ file'.is = "none" /\ file'.doc = {} /\ Gone \in Content
  BY <1>1, LoadTypes DEF SInv, StoreTypeOK, Gone, Content
<1>3. disk' = bak.doc /\ disk \ dropped' \subseteq disk'
  <2>1. Restoring(rec')
    BY <1>2 DEF Restoring
  <2>2. disk' = bak.doc
    BY <1>1, <1>2, <2>1 DEF Readable
  <2>3. file.is # "doc" => disk \subseteq bak.doc
    BY DEF SInv, Tracks, Readable
  <2> QED
    BY <1>1, <2>2, <2>3
<1>4. Tracks'
  BY <1>1 DEF Tracks
<1>5. StoreTypeOK' /\ dropped \subseteq dropped'
  <2>1. /\ bak' \in Content /\ linked' \in BOOLEAN /\ struck' \in Nat
        /\ synced' \in [file : Content, bak : Content] /\ file' \in Content
        /\ step' \in {"new", "kept", "renamed", "synced"} /\ got' \in [Loader -> SUBSET Edit]
    BY <1>1, <1>2 DEF SInv, StoreTypeOK
  <2>2. \E lost \in SUBSET disk : dropped' = dropped \cup lost
    <3>1. dropped' = dropped \cup (disk \ disk') \/ dropped' = dropped \cup {}
      BY <1>1
    <3>2. disk \ disk' \in SUBSET disk /\ {} \in SUBSET disk
      OBVIOUS
    <3> QED
      BY <3>1, <3>2
  <2> QED
    BY <1>1, <1>2, <1>4, <2>1, <2>2, FilesTyped
<1>6. Stepping' /\ Renewed' /\ Undamaged'
  BY <1>1, <1>2 DEF SInv, Stepping, Renewed, Undamaged
<1>7. Docs' \subseteq Docs
  BY <1>1, <1>2 DEF Docs
<1>8. \A X : Saved(X) => Saved(X)'
  BY <1>1, <1>3, <1>5 DEF Saved
<1> QED
  BY <1>1, <1>3, <1>4, <1>5, <1>6, <1>7, <1>8, FilesKeep

\* The backup is read: while a recovery is under way, it is what a load gives.
LEMMA ReadBackupSteps ==
  ASSUME SInv, NEW l \in Loader, ReadBackup(l)
  PROVE  SInv' /\ disk \ dropped' \subseteq disk'
<1>1. /\ UNCHANGED <<version, value, saver, save, pc, mine, acked>>
      /\ UNCHANGED <<file, bak, linked, synced, step, struck>>
      /\ rec[l] = "moved" /\ disk' = Readable(file', bak', rec') /\ dropped' = dropped
  BY DEF ReadBackup, Follow, writerVars, fileVars
<1>2. PICK x \in {"idle", "restoring", "loaded"}, d \in {{}, bak.doc} :
        /\ rec' = [rec EXCEPT ![l] = x] /\ got' = [got EXCEPT ![l] = d]
        /\ bak.is = "doc" <=> x = "restoring"
  BY DEF ReadBackup, Loads
<1>3. /\ rec' \in [Loader -> {"idle", "bad", "moved", "restoring", "loaded"}] /\ rec'[l] = x
      /\ got' \in [Loader -> SUBSET Edit] /\ \A k \in Loader : got'[k] = got[k] \/ got'[k] = d
      /\ d \subseteq bak.doc
  <2>1. d \in SUBSET Edit /\ d \subseteq bak.doc
    BY <1>2, StoreFacts
  <2> QED
    BY <1>2, <2>1, LoadTypes DEF SInv, StoreTypeOK
<1>4. disk' = disk
  <2>1. disk = Readable(file, bak, rec) /\ Restoring(rec)
    BY <1>1 DEF SInv, Tracks, Restoring
  <2>2. CASE bak.is = "doc"
    <3>1. Restoring(rec')
      BY <1>2, <1>3, <2>2 DEF Restoring
    <3> QED
      BY <1>1, <2>1, <3>1 DEF Readable
  <2>3. CASE bak.is # "doc"
    <3>1. bak.doc = {}
      BY <2>3, StoreFacts
    <3> QED
      BY <1>1, <2>1, <3>1 DEF Readable
  <2> QED
    BY <2>2, <2>3
<1>5. Tracks'
  BY <1>1 DEF Tracks
<1>6. StoreTypeOK'
  <2>1. /\ bak' \in Content /\ linked' \in BOOLEAN /\ struck' \in Nat
        /\ synced' \in [file : Content, bak : Content] /\ file' \in Content
        /\ step' \in {"new", "kept", "renamed", "synced"}
    BY <1>1 DEF SInv, StoreTypeOK
  <2>2. dropped' = dropped \cup {} /\ {} \in SUBSET disk
    BY <1>1
  <2> QED
    BY <1>1, <1>3, <1>5, <2>1, <2>2, FilesTyped
<1>7. Stepping' /\ Renewed' /\ Undamaged'
  BY <1>1 DEF SInv, Stepping, Renewed, Undamaged
<1>8. Docs' \subseteq Docs
  BY <1>1, <1>3 DEF Docs
<1>9. \A X : Saved(X) => Saved(X)'
  BY <1>1, <1>4 DEF Saved
<1> QED
  BY <1>1, <1>4, <1>5, <1>6, <1>7, <1>8, <1>9, FilesKeep

\* What was read is written back, or stays away.
LEMMA RestoreSteps ==
  ASSUME SInv, NEW l \in Loader, Restore(l)
  PROVE  SInv' /\ disk \ dropped' \subseteq disk'
<1>1. /\ UNCHANGED <<version, value, saver, save, pc, mine, acked, bak, step, struck>>
      /\ rec[l] = "restoring" /\ disk' = Readable(file', bak', rec')
      /\ \/ /\ file' = Good(got[l]) /\ linked' = FALSE /\ synced' = [file |-> file', bak |-> bak]
         \/ UNCHANGED <<file, linked, synced>>
      /\ IF file.is # "none" \/ file' = file \/ got[l] # bak.doc
         THEN dropped' = dropped \cup (disk \ disk') ELSE dropped' = dropped
  BY DEF Restore, Follow, writerVars
<1>2. PICK x \in {"idle", "loaded"}, d \in {{}, got[l]} :
        rec' = [rec EXCEPT ![l] = x] /\ got' = [got EXCEPT ![l] = d]
  BY DEF Restore, Loads
<1>3. got[l] \subseteq Edit /\ got[l] \subseteq Docs /\ d \subseteq got[l]
  BY <1>2, StoreFacts
<1>4. /\ rec' \in [Loader -> {"idle", "bad", "moved", "restoring", "loaded"}]
      /\ got' \in [Loader -> SUBSET Edit] /\ \A k \in Loader : got'[k] \subseteq got[k]
  BY <1>2, <1>3, LoadTypes DEF SInv, StoreTypeOK
<1>5. Good(got[l]) \in Content /\ Good(got[l]).is = "doc" /\ Good(got[l]).doc = got[l]
  BY <1>3 DEF Good, Content
<1>6. file' # file => disk' = got[l]
  BY <1>1, <1>5 DEF Readable
<1>7. disk \ dropped' \subseteq disk'
  <2>1. CASE file.is # "none" \/ file' = file \/ got[l] # bak.doc
    BY <1>1, <2>1
  <2>2. CASE file.is = "none" /\ file' # file /\ got[l] = bak.doc
    BY <1>6, <2>2, StoreFacts DEF SInv, Tracks, Readable
  <2> QED
    BY <2>1, <2>2
<1>8. Tracks'
  BY <1>1 DEF Tracks
<1>9. StoreTypeOK' /\ dropped \subseteq dropped'
  <2>1. /\ bak' \in Content /\ linked' \in BOOLEAN /\ struck' \in Nat /\ file' \in Content
        /\ step' \in {"new", "kept", "renamed", "synced"}
    BY <1>1, <1>5 DEF SInv, StoreTypeOK
  <2>2. synced' \in [file : Content, bak : Content]
    BY <1>1, <2>1 DEF SInv, StoreTypeOK
  <2>3. \E lost \in SUBSET disk : dropped' = dropped \cup lost
    <3>1. dropped' = dropped \cup (disk \ disk') \/ dropped' = dropped \cup {}
      BY <1>1
    <3>2. disk \ disk' \in SUBSET disk /\ {} \in SUBSET disk
      OBVIOUS
    <3> QED
      BY <3>1, <3>2
  <2> QED
    BY <1>1, <1>4, <1>8, <2>1, <2>2, <2>3, FilesTyped
<1>10. Stepping' /\ Renewed' /\ Undamaged'
  BY <1>1 DEF SInv, Stepping, Renewed, Undamaged
<1>11. Docs' \subseteq Docs
  <2>1. /\ file'.doc \subseteq Docs /\ bak'.doc \subseteq Docs
        /\ synced'.file.doc \subseteq Docs /\ synced'.bak.doc \subseteq Docs
    BY <1>1, <1>3, <1>5, StoreFacts
  <2>2. \A k \in Loader : got'[k] \subseteq Docs
    BY <1>4, StoreFacts
  <2> QED
    BY <2>1, <2>2 DEF Docs
<1>12. \A X : Saved(X) => Saved(X)'
  <2>1. CASE UNCHANGED <<file, linked, synced>>
    BY <1>1, <1>7, <1>9, <2>1 DEF Saved
  <2>2. CASE file' = Good(got[l]) /\ synced' = [file |-> file', bak |-> bak]
    <3>1. synced'.file.is = "doc" /\ synced'.file.doc = disk' /\ ~ Damaged(synced'.file)
      BY <1>1, <1>5, <2>2 DEF Readable, Damaged
    <3> QED
      BY <1>7, <1>9, <3>1 DEF Saved
  <2> QED
    BY <1>1, <2>1, <2>2
<1> QED
  BY <1>1, <1>7, <1>8, <1>9, <1>10, <1>11, <1>12, FilesKeep

\* The file is damaged, with its backup as long as they are one file: either the
\* backup is left, and is the one last synced, or nothing is.
LEMMA DamageSteps ==
  ASSUME SInv, Damage
  PROVE  SInv' /\ disk \ dropped' \subseteq disk'
<1>1. /\ UNCHANGED <<version, value, saver, save, pc, mine, acked, linked, step, rec, got>>
      /\ file.is = "doc" /\ file' \in {Garbage, Misshapen} /\ bak' = IF linked THEN file' ELSE bak
      /\ synced' = [file |-> IF synced.file = file THEN file' ELSE synced.file,
                    bak |-> IF linked /\ synced.bak = bak THEN file' ELSE synced.bak]
      /\ struck' = struck + 1
      /\ disk' = Readable(file', bak', rec') /\ dropped' = dropped \cup (disk \ disk')
  BY DEF Damage, Follow, writerVars, recVars
<1>2. file' \in Content /\ Damaged(file') /\ file'.is # "doc" /\ file'.is # "none" /\ file'.doc = {}
  BY <1>1 DEF Garbage, Misshapen, Content, Damaged
<1>3. /\ disk' = bak'.doc /\ disk \ dropped' \subseteq disk' /\ dropped \subseteq dropped'
      /\ synced'.file = (IF synced.file = file THEN file' ELSE synced.file)
      /\ synced'.bak = (IF linked /\ synced.bak = bak THEN file' ELSE synced.bak)
  BY <1>1, <1>2 DEF Readable
<1>4. Tracks'
  BY <1>1 DEF Tracks
<1>5. StoreTypeOK'
  <2>1. /\ bak' \in Content /\ linked' \in BOOLEAN /\ file' \in Content
        /\ step' \in {"new", "kept", "renamed", "synced"}
        /\ rec' \in [Loader -> {"idle", "bad", "moved", "restoring", "loaded"}]
        /\ got' \in [Loader -> SUBSET Edit] /\ struck' \in Nat
    BY <1>1, <1>2 DEF SInv, StoreTypeOK
  <2>2. synced' \in [file : Content, bak : Content]
    BY <1>1, <1>2, StoreFacts
  <2>3. \E lost \in SUBSET disk : dropped' = dropped \cup lost
    <3>1. disk \ disk' \in SUBSET disk
      OBVIOUS
    <3> QED
      BY <1>1, <3>1
  <2> QED
    BY <1>1, <1>4, <2>1, <2>2, <2>3, FilesTyped
<1>6. Stepping' /\ Renewed' /\ Undamaged'
  <2>1. struck' # 0
    BY <1>1 DEF SInv, StoreTypeOK
  <2> QED
    BY <1>1, <1>2, <2>1 DEF SInv, Stepping, Renewed, Undamaged
<1>7. Docs' \subseteq Docs
  <2>1. /\ file'.doc \subseteq Docs /\ bak'.doc \subseteq Docs
        /\ synced'.file.doc \subseteq Docs /\ synced'.bak.doc \subseteq Docs
    BY <1>1, <1>2, <1>3, StoreFacts
  <2>2. \A k \in Loader : got'[k] \subseteq Docs
    BY <1>1, StoreFacts
  <2> QED
    BY <2>1, <2>2 DEF Docs
<1>8. ASSUME NEW X, Saved(X)
      PROVE  Saved(X)'
  <2>1. X \ dropped' \subseteq disk' /\ X \ dropped \subseteq disk
    BY <1>3, <1>8 DEF Saved
  <2>2. CASE linked
    <3>1. X \ dropped' = {}
      BY <1>1, <1>2, <1>3, <2>1, <2>2
    <3> QED
      BY <3>1 DEF Saved
  <2>3. CASE ~ linked
    <3>1. bak' = bak /\ synced'.bak = synced.bak
      BY <1>1, <1>3, <2>3
    <3>2. CASE synced.file = file
      <4>1. synced'.file = file' /\ synced.bak = bak
        BY <1>1, <1>3, <2>3, <3>2 DEF SInv, Renewed
      <4> QED
        BY <1>2, <1>3, <2>1, <3>1, <4>1 DEF Saved
    <3>3. CASE synced.file # file
      <4>1. synced'.file = synced.file
        BY <1>3, <3>3
      <4> QED
        BY <1>3, <1>8, <2>1, <3>1, <4>1 DEF Saved
    <3> QED
      BY <3>2, <3>3
  <2> QED
    BY <2>2, <2>3
<1> QED
  BY <1>1, <1>3, <1>4, <1>5, <1>6, <1>7, <1>8, FilesKeep

\* The new document gets its name: it holds all that the files held, but for the
\* dropped, and its own number is in none of them.
LEMMA ReplaceFacts ==
  ASSUME SInv, NEW a \in Actor, Replace(a)
  PROVE  /\ UNCHANGED <<version, value, saver, pc, mine, acked, bak, synced, rec, got, struck>>
         /\ saver # None /\ value # Nothing /\ step' = "renamed"
         /\ save' = [save EXCEPT !.wrote = TRUE] /\ ~ save.wrote
         /\ save'.doc = save.doc /\ save'.version = save.version /\ save'.wrote
         /\ file' = Good(save.doc) /\ file' \in Content /\ file'.doc = save.doc
         /\ linked' = FALSE /\ disk' = save.doc /\ dropped' = dropped /\ Tracks'
         /\ save.version \in save.doc /\ save.version \notin Docs
         /\ Docs \subseteq 1 .. save.version /\ save.doc \subseteq 1 .. save.version
         /\ \A X : X \subseteq 1 .. save.version => X \ dropped \subseteq save.doc
<1>1. /\ UNCHANGED <<version, value, saver, pc, mine, acked, bak, synced, rec, got, struck>>
      /\ saver # None /\ step = "kept" /\ step' = "renamed" /\ file' = Good(save.doc)
      /\ save' = [save EXCEPT !.wrote = TRUE] /\ linked' = FALSE
      /\ disk' = Readable(file', bak', rec') /\ dropped' = dropped
  BY StoreFacts DEF Replace, Follow, recVars
<1>2. /\ Good(save.doc) \in Content /\ Good(save.doc).is = "doc" /\ Good(save.doc).doc = save.doc
  BY StoreFacts DEF Good, Content
<1>3. save'.doc = save.doc /\ save'.version = save.version /\ save'.wrote
  BY <1>1, StoreFacts
<1>4. ~ save.wrote
  BY <1>1 DEF SInv, Stepping
<1>5. disk' = save.doc /\ Tracks'
  BY <1>1, <1>2 DEF Readable, Tracks
<1>6. /\ value # Nothing /\ save.version \in save.doc /\ save.doc \subseteq 1 .. save.version
      /\ 1 .. save.version \ dropped \subseteq save.doc
  BY <1>1 DEF SInv, Saving
<1>7. Written = save.version - 1
  BY <1>1, <1>4 DEF Written
<1>8. Docs \subseteq 1 .. save.version /\ save.version \notin Docs
  BY <1>7, StoreFacts DEF SInv
<1> QED
  BY <1>1, <1>2, <1>3, <1>4, <1>5, <1>6, <1>8

LEMMA ReplaceSteps ==
  ASSUME SInv, NEW a \in Actor, Replace(a)
  PROVE  SInv' /\ disk \ dropped' \subseteq disk'
<1>1. /\ UNCHANGED <<version, value, saver, pc, mine, acked, bak, synced, rec, got, struck>>
      /\ saver # None /\ value # Nothing /\ step' = "renamed"
      /\ save' = [save EXCEPT !.wrote = TRUE] /\ ~ save.wrote
      /\ save'.doc = save.doc /\ save'.version = save.version /\ save'.wrote
      /\ file' = Good(save.doc) /\ file' \in Content /\ file'.doc = save.doc
      /\ linked' = FALSE /\ disk' = save.doc /\ dropped' = dropped /\ Tracks'
      /\ save.version \in save.doc /\ save.version \notin Docs
      /\ Docs \subseteq 1 .. save.version /\ save.doc \subseteq 1 .. save.version
      /\ \A X : X \subseteq 1 .. save.version => X \ dropped \subseteq save.doc
  BY ReplaceFacts
<1>2. StoreTypeOK'
  <2>1. /\ bak' \in Content /\ linked' \in BOOLEAN /\ struck' \in Nat
        /\ synced' \in [file : Content, bak : Content]
        /\ step' \in {"new", "kept", "renamed", "synced"}
        /\ rec' \in [Loader -> {"idle", "bad", "moved", "restoring", "loaded"}]
        /\ got' \in [Loader -> SUBSET Edit]
    BY <1>1 DEF SInv, StoreTypeOK
  <2>2. dropped' = dropped \cup {} /\ {} \in SUBSET disk
    BY <1>1
  <2> QED
    BY <1>1, <2>1, <2>2, FilesTyped
<1>3. Stepping' /\ Saving' /\ Published'
  <2>1. Stepping'
    BY <1>1 DEF Stepping
  <2>2. Saving'
    BY <1>1 DEF SInv, Saving
  <2>3. Published'
    BY <1>1 DEF SInv, Published
  <2> QED
    BY <2>1, <2>2, <2>3
<1>4. Docs' \subseteq Docs \cup save.doc
  BY <1>1 DEF Docs
<1>5. Docs' \subseteq 1 .. save.version /\ Docs' \subseteq 1 .. Written'
  BY <1>1, <1>4 DEF Written
<1>6. Renewed'
  <2>1. synced.file.doc # file'.doc
    BY <1>1, StoreFacts
  <2> QED
    BY <1>1, <2>1 DEF Renewed
<1>7. ShowsNewest'
  BY <1>1 DEF SInv, ShowsNewest, Loaded
<1>8. ASSUME NEW X, Saved(X)
      PROVE  Saved(X)'
  <2>1. X \ dropped \subseteq disk
    BY <1>8 DEF Saved
  <2>2. X \ dropped \subseteq save.doc
    <3>1. X \ dropped \subseteq 1 .. save.version
      BY <1>1, <2>1, StoreFacts
    <3>2. (X \ dropped) \ dropped \subseteq save.doc
      BY <1>1, <3>1
    <3> QED
      BY <3>2
  <2> QED
    BY <1>1, <1>8, <2>2 DEF Saved
<1>9. Safe'
  <2>1. PICK X : X = acked
    OBVIOUS
  <2>2. Saved(X)'
    BY <1>8, <2>1 DEF SInv, Safe
  <2>3. Saved(acked)'
    BY <1>1, <2>1, <2>2 DEF Saved
  <2> QED
    BY <1>1, <2>3 DEF Safe
<1>10. Due'
  <2> SUFFICES ASSUME NEW b \in Actor, pc[b] = "published"
               PROVE  \/ Saved(Own(b))'
                      \/ Own(b) \cap Docs' = {}
                      \/ Own(b) \subseteq 1 .. save.version
    BY <1>1 DEF Due, Own
  <2>1. PICK X : X = Own(b)
    OBVIOUS
  <2>2. X = Own(b)' /\ (Saved(X)' => Saved(Own(b))')
    BY <1>1, <2>1 DEF Own, Saved
  <2>3. CASE Saved(X)
    BY <1>8, <2>2, <2>3
  <2>4. CASE ~ X \subseteq 1 .. save.version
    <3>1. PICK e \in X : e \notin 1 .. save.version
      BY <2>4
    <3>2. \A f \in X : f = e
      BY <2>1, OwnOne
    <3> QED
      BY <1>5, <2>1, <3>1, <3>2
  <2>5. Saved(X) \/ X \cap Docs = {}
    BY <1>1, <2>1 DEF SInv, Due
  <2>6. CASE X \cap Docs = {} /\ X \subseteq 1 .. save.version
    BY <2>1, <2>6
  <2> QED
    BY <2>3, <2>4, <2>5, <2>6
<1>11. Undamaged'
  <2>1. file'.is = "doc"
    BY <1>1 DEF Good
  <2> QED
    BY <1>1, <2>1 DEF SInv, Undamaged, Damaged
<1>12. disk \ dropped' \subseteq disk'
  <2>1. disk \ dropped \subseteq save.doc
    BY <1>1, StoreFacts
  <2> QED
    BY <1>1, <2>1
<1> QED
  BY <1>1, <1>12, <1>2, <1>3, <1>5, <1>6, <1>7, <1>9, <1>10, <1>11 DEF SInv
-----------------------------------------------------------------------------
(* Restarts.                                                               *)

\* What a power cut leaves, one name at a time.
Cut(f, b) ==
  \/ f = file /\ b = bak
  \/ f = synced.file /\ b = bak
  \/ f = synced.file /\ b = synced.bak

\* What was acknowledged outlives a restart that finds a file.
LEMMA RestartFacts ==
  ASSUME SInv, KillStore \/ PowerCut
  PROVE  \E f, b \in Content :
           /\ UNCHANGED <<version, acked, struck>> /\ file' = f /\ bak' = b /\ Cut(f, b)
           /\ rec' = [l \in Loader |-> "idle"] /\ got' = [l \in Loader |-> {}] /\ step' = "new"
           /\ value' = Nothing /\ saver' = None /\ save' = NoSave
           /\ pc' = [a \in Actor |-> "idle"] /\ mine' = [a \in Actor |-> {}]
           /\ disk' = Readable(f, b, rec') /\ linked' = (linked /\ f = file /\ b = bak)
           /\ dropped' = dropped \cup (1 .. version \ (IF f.is = "none" THEN disk' ELSE disk' \cup acked))
           /\ \/ synced' = synced /\ f = file /\ b = bak
              \/ synced' = [file |-> f, bak |-> b]
           /\ disk' = IF f.is = "none" THEN {} ELSE IF f.is = "doc" THEN f.doc ELSE b.doc
           /\ f.is # "none" => acked \ dropped \subseteq disk'
<1> DEFINE After(f, b) == IF f.is = "none" THEN {} ELSE IF f.is = "doc" THEN f.doc ELSE b.doc
<1>1. PICK f, b \in Content :
        /\ Restart(f, b) /\ Cut(f, b)
        /\ \/ synced' = synced /\ f = file /\ b = bak
           \/ synced' = [file |-> f, bak |-> b]
  <2>1. CASE KillStore
    BY <2>1, StoreFacts DEF KillStore, Cut
  <2>2. CASE PowerCut
    <3>1. PICK names \in {<<file, bak>>, <<synced.file, bak>>, <<synced.file, synced.bak>>} :
            Restart(names[1], names[2]) /\ synced' = [file |-> names[1], bak |-> names[2]]
      BY <2>2 DEF PowerCut
    <3>2. names[1] \in Content /\ names[2] \in Content /\ Cut(names[1], names[2])
      BY <3>1, StoreFacts DEF Cut
    <3> QED
      BY <3>1, <3>2
  <2> QED
    BY <2>1, <2>2
<1>2. /\ rec' = [l \in Loader |-> "idle"] /\ disk' = Readable(f, b, rec')
  BY <1>1 DEF Restart
<1>3. disk' = After(f, b)
  BY <1>2 DEF Readable, Restoring
<1>4. f.is # "none" => acked \ dropped \subseteq After(f, b)
  <2>1. Saved(acked) /\ disk = Readable(file, bak, rec)
    BY DEF SInv, Safe, Tracks
  <2>2. f.is \notin {"none", "doc"} => Damaged(f)
    BY <1>1 DEF Content, Damaged
  <2>3. CASE f = file /\ b = bak
    BY <2>1, <2>3 DEF Saved, Readable
  <2>4. CASE f = synced.file /\ b \in {bak, synced.bak}
    BY <2>1, <2>2, <2>4 DEF Saved
  <2> QED
    BY <1>1, <2>3, <2>4 DEF Cut
<1> QED
  BY <1>1, <1>3, <1>4 DEF Restart

LEMMA RestartSteps ==
  ASSUME SInv, KillStore \/ PowerCut
  PROVE  SInv' /\ disk \ dropped' \subseteq disk'
<1>1. PICK f, b \in Content :
        /\ UNCHANGED <<version, acked, struck>> /\ file' = f /\ bak' = b /\ Cut(f, b)
        /\ rec' = [l \in Loader |-> "idle"] /\ got' = [l \in Loader |-> {}] /\ step' = "new"
        /\ value' = Nothing /\ saver' = None /\ save' = NoSave
        /\ pc' = [a \in Actor |-> "idle"] /\ mine' = [a \in Actor |-> {}]
        /\ disk' = Readable(f, b, rec') /\ linked' = (linked /\ f = file /\ b = bak)
        /\ dropped' = dropped \cup (1 .. version \ (IF f.is = "none" THEN disk' ELSE disk' \cup acked))
        /\ \/ synced' = synced /\ f = file /\ b = bak
           \/ synced' = [file |-> f, bak |-> b]
        /\ disk' = IF f.is = "none" THEN {} ELSE IF f.is = "doc" THEN f.doc ELSE b.doc
        /\ f.is # "none" => acked \ dropped \subseteq disk'
  BY RestartFacts
<1>2. /\ dropped \subseteq dropped' /\ dropped' \subseteq dropped \cup 1 .. version
      /\ 1 .. version \ dropped' \subseteq disk'
  <2>1. CASE f.is = "none"
    BY <1>1, <2>1
  <2>2. CASE f.is # "none"
    BY <1>1, <2>2
  <2> QED
    BY <2>1, <2>2
<1>3. disk \ dropped' \subseteq disk'
  BY <1>2, StoreFacts
<1>4. synced' \in [file : Content, bak : Content]
  BY <1>1 DEF SInv, StoreTypeOK
<1>5. f.doc \subseteq Docs /\ b.doc \subseteq Docs
  BY <1>1, StoreFacts DEF Cut
<1>6. StoreTypeOK'
  <2>1. disk' \subseteq Edit /\ dropped' \subseteq Edit
    <3>1. disk' \subseteq Edit
      BY <1>1, <1>5, StoreFacts
    <3>2. dropped \subseteq Edit
      BY DEF SInv, StoreTypeOK, TypeOK
    <3> QED
      BY <1>2, <3>1, <3>2, StoreFacts
  <2>2. NoSave \in [doc : SUBSET Edit, version : 0 .. MaxEdit, wrote : BOOLEAN]
    BY WriterAssumption DEF NoSave, Nothing
  <2>3. /\ pc' \in [Actor -> Resting \cup {"published", "saving"}]
        /\ mine' \in [Actor -> SUBSET Edit] /\ value' \subseteq Edit
        /\ \A a \in Actor : pc'[a] = "saving" <=> saver' = a
    BY <1>1, WriterAssumption DEF Resting, Nothing
  <2>4. TypeOK'
    BY <1>1, <2>1, <2>2, <2>3 DEF SInv, StoreTypeOK, TypeOK
  <2>5. rec' \in [Loader -> {"idle", "bad", "moved", "restoring", "loaded"}]
    BY <1>1
  <2>6. got' \in [Loader -> SUBSET Edit]
    BY <1>1
  <2>7. linked' \in BOOLEAN /\ struck' \in Nat
    BY <1>1 DEF SInv, StoreTypeOK
  <2> QED
    BY <1>1, <1>4, <2>4, <2>5, <2>6, <2>7 DEF StoreTypeOK
<1>7. Tracks' /\ Stepping' /\ Saving' /\ Published'
  BY <1>1 DEF Tracks, Stepping, Saving, Published, NoSave, Nothing
<1>8. Docs' \subseteq 1 .. Written'
  <2>1. Docs' \subseteq Docs
    <3>1. synced'.file.doc \subseteq Docs /\ synced'.bak.doc \subseteq Docs
      BY <1>1, <1>5, StoreFacts
    <3>2. \A l \in Loader : got'[l] = {}
      BY <1>1
    <3> QED
      BY <1>1, <1>5, <3>1, <3>2 DEF Docs
  <2>2. Written' = version
    BY <1>1 DEF Written
  <2> QED
    BY <2>1, <2>2, StoreFacts
<1>9. Renewed'
  <2>1. CASE synced' = synced /\ f = file /\ b = bak
    <3>1. linked => linked'
      BY <1>1, <2>1
    <3> QED
      BY <1>1, <2>1, <3>1 DEF SInv, Renewed
  <2>2. CASE synced' = [file |-> f, bak |-> b]
    BY <1>1, <2>2 DEF Renewed
  <2> QED
    BY <1>1, <2>1, <2>2
<1>10. ShowsNewest'
  BY <1>1, <1>2 DEF ShowsNewest, Loaded
<1>11. Safe'
  <2>1. Saved(acked)
    BY DEF SInv, Safe
  <2>2. acked \ dropped' \subseteq disk'
    <3>1. acked \ dropped' \subseteq disk \ dropped'
      BY <1>2, <2>1 DEF Saved
    <3> QED
      BY <1>3, <3>1
  <2>3. CASE synced' = synced /\ f = file /\ b = bak
    BY <1>1, <1>2, <2>1, <2>2, <2>3 DEF Safe, Saved
  <2>4. CASE synced' = [file |-> f, bak |-> b]
    <3>1. Damaged(f) => /\ f.is # "none" /\ f.is # "doc" /\ disk' = b.doc
      BY <1>1 DEF Damaged
    <3>2. Saved(acked)'
      BY <1>1, <2>2, <2>4, <3>1 DEF Saved
    <3> QED
      BY <1>1, <3>2 DEF Safe
  <2> QED
    BY <1>1, <2>3, <2>4
<1>12. Due'
  BY <1>1 DEF Due
<1>13. Undamaged'
  <2>1. struck = 0 => ~ Damaged(f) /\ ~ Damaged(b)
    BY <1>1 DEF SInv, Undamaged, Cut
  <2> QED
    BY <1>1, <2>1 DEF SInv, Undamaged
<1> QED
  BY <1>3, <1>6, <1>7, <1>8, <1>9, <1>10, <1>11, <1>12, <1>13 DEF SInv

LEMMA StoreStutter == SInv /\ UNCHANGED allVars => SInv'
<1> SUFFICES ASSUME SInv, UNCHANGED allVars PROVE SInv'
  OBVIOUS
<1>1. /\ UNCHANGED <<version, value, saver, save, pc, mine, acked, disk, dropped>>
      /\ UNCHANGED <<file, bak, linked, synced, step, rec, got, struck>>
  BY DEF allVars, vars, storeVars, fileVars, recVars
<1>2. StoreTypeOK' /\ Tracks' /\ Stepping' /\ Renewed' /\ Undamaged'
  BY <1>1 DEF SInv, StoreTypeOK, TypeOK, Tracks, Readable, Restoring, Stepping, Renewed, Undamaged
<1>3. Docs' \subseteq Docs
  BY <1>1 DEF Docs
<1>4. \A X : Saved(X) => Saved(X)'
  BY <1>1 DEF Saved
<1> QED
  BY <1>1, <1>2, <1>3, <1>4, FilesKeep

LEMMA StoreStep == SInv /\ [StoreNext]_allVars => SInv'
<1> SUFFICES ASSUME SInv, [StoreNext]_allVars PROVE SInv'
  OBVIOUS
<1>1. ASSUME NEW a \in Actor,
             Edit1(a) \/ EditRecovered(a) \/ Enter(a) \/ KeepBackup(a) \/ Replace(a)
               \/ SyncDir(a) \/ Leave(a)
      PROVE  SInv'
  BY <1>1, EditSteps, EnterSteps, KeepBackupSteps, ReplaceSteps, SyncDirSteps, LeaveSteps
<1>2. ASSUME NEW l \in Loader, LoadBad(l) \/ Quarantine(l) \/ ReadBackup(l) \/ Restore(l)
      PROVE  SInv'
  BY <1>2, LoadBadSteps, QuarantineSteps, ReadBackupSteps, RestoreSteps
<1>3. CASE Damage \/ KillStore \/ PowerCut
  BY <1>3, DamageSteps, RestartSteps
<1>4. CASE UNCHANGED allVars
  BY <1>4, StoreStutter
<1> QED
  BY <1>1, <1>2, <1>3, <1>4 DEF StoreNext

LEMMA StoreInvariant == StoreSpec => []SInv
BY StoreInitial, StoreStep, PTL DEF StoreSpec

(* One save at a time, whatever becomes of the files under it; the names of *)
(* the directory hold documents of edits that were made.                    *)
THEOREM StoreTypeCorrect == StoreSpec => []StoreTypeOK
<1>1. SInv => StoreTypeOK
  BY DEF SInv
<1> QED
  BY StoreInvariant, <1>1, PTL

(* The same down to the directory: an accepted edit is what every reader    *)
(* sees, through a save's renames, recoveries from the backup by several    *)
(* threads at once and damage, until one of the losses the model counts.    *)
THEOREM StoreReadersSeeNewest == StoreSpec => []ShowsNewest
<1>1. SInv => ShowsNewest
  BY DEF SInv
<1> QED
  BY StoreInvariant, <1>1, PTL

(* An edit whose flush returned is what a load gives for good, power cuts   *)
(* and damage included, but for the losses the model counts.                *)
THEOREM StoreAcknowledgedIsSaved == StoreSpec => []AckIsSaved
<1>1. SInv => AckIsSaved
  BY DEF SInv, Safe, Saved, AckIsSaved
<1> QED
  BY StoreInvariant, <1>1, PTL

\* No step puts an older document over a newer one but by a loss that is counted.
LEMMA NeverOlderStep ==
  ASSUME SInv, StoreNext
  PROVE  disk \ dropped' \subseteq disk'
<1>1. ASSUME NEW a \in Actor,
             Edit1(a) \/ EditRecovered(a) \/ Enter(a) \/ SyncDir(a) \/ Leave(a)
      PROVE  disk' = disk
  BY <1>1 DEF Edit1, EditRecovered, EditOn, Enter, FlushNothing, FlushTake, SyncDir, vars,
     Leave, FlushDone, FlushRaise
<1>2. ASSUME NEW a \in Actor, KeepBackup(a) \/ Replace(a)
      PROVE  disk \ dropped' \subseteq disk'
  BY <1>2, KeepBackupSteps, ReplaceSteps
<1>3. ASSUME NEW l \in Loader, LoadBad(l)
      PROVE  disk' = disk
  BY <1>3 DEF LoadBad, vars
<1>4. ASSUME NEW l \in Loader, Quarantine(l) \/ ReadBackup(l) \/ Restore(l)
      PROVE  disk \ dropped' \subseteq disk'
  BY <1>4, QuarantineSteps, ReadBackupSteps, RestoreSteps
<1>5. CASE Damage \/ KillStore \/ PowerCut
  BY <1>5, DamageSteps, RestartSteps
<1> QED
  BY <1>1, <1>2, <1>3, <1>4, <1>5 DEF StoreNext

(* No save, recovery, power cut or restart puts an older document over a    *)
(* newer one, but by the losses the model counts.                           *)
THEOREM StoreNeverOlder == StoreSpec => NeverOlder
<1>1. SInv /\ [StoreNext]_allVars => [disk \ dropped' \subseteq disk']_vars
  <2>1. SInv /\ StoreNext => disk \ dropped' \subseteq disk'
    BY NeverOlderStep
  <2> QED
    BY <2>1 DEF allVars
<1> QED
  BY StoreInvariant, <1>1, PTL DEF StoreSpec, NeverOlder

\* A kill leaves what a load gives as it was.
LEMMA KillAtomic ==
  ASSUME SInv, KillStore, \A l \in Loader : rec[l] = "idle"
  PROVE  Kill
<1>1. /\ disk' = Readable(file, bak, rec') /\ rec' = [l \in Loader |-> "idle"]
      /\ dropped' = dropped \cup (1 .. version \ (IF file.is = "none" THEN disk' ELSE disk' \cup acked))
  BY DEF KillStore, Restart
<1>2. disk' = disk
  <2>1. ~ Restoring(rec) /\ ~ Restoring(rec')
    BY <1>1 DEF Restoring
  <2> QED
    BY <1>1, <2>1 DEF SInv, Tracks, Readable
<1>3. acked \ dropped \subseteq disk
  BY DEF SInv, Safe, Saved
<1>4. dropped' = dropped \cup (1 .. version \ disk)
  <2>1. CASE file.is = "none"
    BY <1>1, <1>2, <2>1
  <2>2. CASE file.is # "none"
    BY <1>1, <1>2, <1>3, <2>2
  <2> QED
    BY <2>1, <2>2
<1> QED
  BY <1>2, <1>4 DEF KillStore, Restart, Kill

LEMMA AtomicStep ==
  ASSUME SInv, StoreNext, struck' = 0
  PROVE  Next \/ PowerCut \/ UNCHANGED vars
<1>1. ~ Damage
  <2>1. struck + 1 # 0
    BY DEF SInv, StoreTypeOK
  <2> QED
    BY <2>1 DEF Damage
<1>2. CASE KillStore \/ PowerCut
  <2>1. struck = 0
    BY <1>2 DEF KillStore, PowerCut, Restart
  <2>2. \A l \in Loader : rec[l] = "idle"
    BY <2>1 DEF SInv, Undamaged
  <2> QED
    BY <1>2, <2>2, KillAtomic DEF Next
<1>3. ASSUME struck = 0
      PROVE  /\ file.is \in {"none", "doc"} /\ disk = file.doc
             /\ \A l \in Loader : rec[l] = "idle"
  <2>1. ~ Damaged(file) /\ \A l \in Loader : rec[l] = "idle"
    BY <1>3 DEF SInv, Undamaged
  <2>2. ~ Restoring(rec)
    BY <2>1 DEF Restoring
  <2>3. file.is \in {"none", "doc"} /\ (file.is = "none" => file.doc = {})
    BY <2>1, StoreFacts DEF Content, Damaged
  <2> QED
    BY <2>1, <2>2, <2>3 DEF SInv, Tracks, Readable
<1>4. ASSUME NEW a \in Actor,
             Edit1(a) \/ EditRecovered(a) \/ Enter(a) \/ KeepBackup(a) \/ Replace(a)
               \/ SyncDir(a) \/ Leave(a)
      PROVE  Next \/ UNCHANGED vars
  <2>1. struck = 0
    BY <1>4, ReplaceFacts DEF Edit1, EditRecovered, Enter, KeepBackup, SyncDir, Leave, storeVars
  <2>2. CASE Edit1(a)
    <3>1. EditOn(a, Loaded)
      BY <1>3, <2>1, <2>2 DEF Edit1, Loaded
    <3>2. Publish(a)
      BY <3>1 DEF EditOn, Publish
    <3> QED
      BY <3>2 DEF Next
  <2>3. ~ EditRecovered(a)
    BY <1>3, <2>1 DEF EditRecovered, Loader
  <2>4. CASE Enter(a)
    BY <2>4 DEF Enter, Next
  <2>5. CASE KeepBackup(a)
    <3>1. disk' = disk
      <4>1. /\ file' = file /\ rec' = rec
            /\ disk' = Readable(file', bak', rec')
        BY <2>5 DEF KeepBackup, LinkedFrom, recVars, Follow
      <4>2. ~ Restoring(rec') /\ file.is \in {"none", "doc"} /\ (file.is = "none" => file.doc = {})
        BY <1>3, <2>1, <4>1, StoreFacts DEF Restoring, Content
      <4> QED
        BY <1>3, <2>1, <4>1, <4>2 DEF Readable
    <3> QED
      BY <2>5, <3>1 DEF KeepBackup, Follow, writerVars, vars
  <2>6. CASE Replace(a)
    <3>1. FlushWrite(a)
      BY <2>6, ReplaceFacts DEF Replace, FlushWrite
    <3> QED
      BY <3>1 DEF Next
  <2>7. CASE SyncDir(a)
    BY <2>7 DEF SyncDir
  <2>8. CASE Leave(a)
    BY <2>8 DEF Leave, Next
  <2> QED
    BY <1>4, <2>2, <2>3, <2>4, <2>5, <2>6, <2>7, <2>8
<1>5. ASSUME NEW l \in Loader, LoadBad(l) \/ Quarantine(l) \/ ReadBackup(l) \/ Restore(l)
      PROVE  FALSE
  <2>1. struck = 0
    BY <1>5 DEF LoadBad, Quarantine, ReadBackup, Restore
  <2> QED
    BY <1>3, <1>5, <2>1 DEF LoadBad, Damaged, Quarantine, ReadBackup, Restore
<1> QED
  BY <1>1, <1>2, <1>4, <1>5 DEF StoreNext

(* The directory implements the writer: as long as nothing damaged the      *)
(* file, each of a save's steps on the names, and each failure or kill      *)
(* between two of them, is a step of LatestWriter, where the write is one   *)
(* step, or leaves all it sees as it was; only a power cut is not its.      *)
THEOREM DirectoryIsAtomic == StoreSpec => SavesAtomically
<1>1. SInv /\ [StoreNext]_allVars
        => [struck' = 0 => Next \/ PowerCut \/ UNCHANGED vars]_allVars
  BY AtomicStep
<1> QED
  BY StoreInvariant, <1>1, PTL DEF StoreSpec, SavesAtomically
=============================================================================
