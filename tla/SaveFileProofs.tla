--------------------------- MODULE SaveFileProofs ---------------------------
(***************************************************************************)
(* Proofs about SaveFile: whatever the file system refuses, and wherever   *)
(* the program ends, a save keeps a copy.                                  *)
(***************************************************************************)
EXTENDS SaveFile, TLAPS

Save == [of : Document, before : Content \cup {None}, text : Content,
         refused : BOOLEAN, own : BOOLEAN]

\* While a save goes on, last is about it.
Going ==
  /\ saving = None <=> step = "idle"
  /\ saving # None => last \in Save /\ saving = last.of /\ target \in Name
  /\ saving # None /\ last.own => target = saving /\ window[saving] # None

\* The steps of a save under its own name: the file is there until it is
\* renamed, and its backup is from then on.
Stages ==
  /\ step \in {"remove", "rename"} =>
       last.own /\ last.before # None /\ disk[last.of] = last.before
  /\ step \in {"open", "write"} /\ last.own /\ ~last.refused /\ last.before # None =>
       disk[Backup[last.of]] = last.before
  /\ step = "open" /\ last.own /\ last.before = None => disk[last.of] = None
  /\ step = "write" => disk[target] = [version |-> last.text.version, whole |-> FALSE]

Inv == TypeOK /\ Going /\ Stages /\ CopyKept

-----------------------------------------------------------------------------

\* At first each file that is there is whole, and no save is under way.
LEMMA InitInv == Init => Inv
<1> SUFFICES ASSUME Init PROVE Inv
  OBVIOUS
<1>1. [version |-> 0, whole |-> TRUE] \in Content
  BY SaveAssumption DEF Content
<1>2. TypeOK
  <2>1. disk \in [Name -> Content \cup {None}]
    BY <1>1 DEF Init
  <2>2. version \in 0 .. MaxVersion
    BY SaveAssumption DEF Init
  <2> QED
    BY <2>1, <2>2 DEF Init, TypeOK
<1>3. Going /\ Stages /\ CopyKept
  BY DEF Init, Going, Stages, CopyKept
<1> QED
  BY <1>2, <1>3 DEF Inv

\* A save begins with the text of the window.
LEMMA BeginInv ==
  ASSUME Inv, NEW d \in Document, NEW n \in Name, NEW text \in Content, NEW own \in BOOLEAN,
         own => n = d /\ window'[d] # None, Begin(d, n, text, own), step = "idle",
         window' \in [Document -> [text : Content, edited : BOOLEAN] \cup {None}],
         version' \in 0 .. MaxVersion
  PROVE  Inv'
<1>1. d # None
  BY SaveAssumption
<1>2. TypeOK'
  BY SaveAssumption DEF Inv, TypeOK, Begin, NextStep
<1>3. Going'
  BY <1>1, <1>2 DEF Going, Begin, NextStep, Save, TypeOK, Inv
<1>4. Stages'
  BY DEF Stages, Begin, NextStep, Inv, TypeOK
<1>5. CopyKept'
  BY DEF CopyKept, Begin, Inv, TypeOK
<1> QED
  BY <1>2, <1>3, <1>4, <1>5 DEF Inv

\* Between saves nothing changes a file.
LEMMA IdleInv ==
  ASSUME Inv, saving = None, UNCHANGED <<disk, saving, target, step, last>>,
         window' \in [Document -> [text : Content, edited : BOOLEAN] \cup {None}],
         version' \in 0 .. MaxVersion
  PROVE  Inv'
  BY DEF Inv, TypeOK, Going, Stages, CopyKept

-----------------------------------------------------------------------------
(* The steps of a save.                                                    *)

\* The backup of the last save goes, or stays, while the file is there.
LEMMA RemoveInv == ASSUME Inv, Remove PROVE Inv'
<1>1. Backup[saving] \in Name /\ Backup[saving] # saving /\ saving \in Document
  BY SaveAssumption DEF Inv, TypeOK, Going, Remove
<1>2. TypeOK'
  <2>1. disk' \in [Name -> Content \cup {None}]
    BY <1>1 DEF Inv, TypeOK, Remove
  <2>2. last' \in Save
    BY DEF Inv, TypeOK, Going, Remove, Save
  <2> QED
    BY <2>1, <2>2 DEF Inv, TypeOK, Remove, Save
<1>3. Going'
  BY <1>1 DEF Inv, Going, Remove, Save
<1>4. Stages'
  BY <1>1 DEF Inv, Stages, Going, Remove, Save, TypeOK
<1>5. CopyKept'
  BY <1>1, <1>4 DEF Inv, Stages, Going, CopyKept, Remove, Save, TypeOK
<1> QED
  BY <1>2, <1>3, <1>4, <1>5 DEF Inv

\* The file becomes the backup, or stays.
LEMMA RenameInv == ASSUME Inv, Rename PROVE Inv'
<1>1. Backup[saving] \in Name /\ Backup[saving] # saving /\ saving \in Document /\ saving \in Name
  BY SaveAssumption DEF Inv, TypeOK, Going, Rename
<1>2. TypeOK'
  <2>1. disk' \in [Name -> Content \cup {None}]
    BY <1>1 DEF Inv, TypeOK, Rename, Renamed
  <2>2. last' \in Save
    BY DEF Inv, TypeOK, Going, Rename, Save
  <2> QED
    BY <2>1, <2>2 DEF Inv, TypeOK, Rename, Save
<1>3. Going'
  BY <1>1 DEF Inv, Going, Rename, Save
<1>4. Stages'
  BY <1>1 DEF Inv, Stages, Going, Rename, Renamed, Save, TypeOK
<1>5. CopyKept'
  BY <1>1, <1>4 DEF Inv, Stages, Going, CopyKept, Rename, Save, TypeOK
<1> QED
  BY <1>2, <1>3, <1>4, <1>5 DEF Inv

\* The end of the program, and of a save that writes nothing more, leaves what
\* there was.
LEMMA EndedInv ==
  ASSUME Inv, Ended, UNCHANGED last,
         \/ UNCHANGED disk
         \/ step \in {"open", "write"} /\ disk' = [disk EXCEPT ![target] = last.text],
         window' \in [Document -> [text : Content, edited : BOOLEAN] \cup {None}],
         version' \in 0 .. MaxVersion
  PROVE  Inv'
<1>1. TypeOK'
  BY DEF Inv, TypeOK, Ended, Going, Save
<1>2. Going' /\ Stages'
  BY DEF Going, Stages, Ended
<1>3. CopyKept'
  <2>1. CASE UNCHANGED disk
    BY <2>1 DEF Inv, CopyKept
  <2>2. CASE step \in {"open", "write"} /\ disk' = [disk EXCEPT ![target] = last.text]
    BY <2>2, SaveAssumption DEF Inv, CopyKept, Going, TypeOK, Save
  <2> QED
    BY <2>1, <2>2
<1> QED
  BY <1>1, <1>2, <1>3 DEF Inv

\* A window that has been saved is a window.
LEMMA SavedTypes ==
  ASSUME Inv, saving # None, Saved
  PROVE  window' \in [Document -> [text : Content, edited : BOOLEAN] \cup {None}]
<1>1. saving \in Document
  BY DEF Inv, TypeOK
<1>2. CASE last.own
  <2>1. window[saving] \in [text : Content, edited : BOOLEAN]
    BY <1>1, <1>2 DEF Inv, TypeOK, Going
  <2>2. [window[saving] EXCEPT !.edited = FALSE] \in [text : Content, edited : BOOLEAN]
    BY <2>1
  <2> QED
    BY <1>1, <1>2, <2>2 DEF Saved, Inv, TypeOK
<1>3. CASE ~last.own
  BY <1>3 DEF Saved, Inv, TypeOK
<1> QED
  BY <1>2, <1>3

\* The program ends, in a save or not: there is nothing but the files.
LEMMA EndsInv == ASSUME Inv, Ends PROVE Inv'
<1>1. /\ window' \in [Document -> [text : Content, edited : BOOLEAN] \cup {None}]
      /\ version' \in 0 .. MaxVersion
  BY DEF Ends, Inv, TypeOK
<1> QED
  BY <1>1, EndedInv DEF Ends

\* The file is opened for writing, which empties it.
LEMMA OpenHtmlInv == ASSUME Inv, OpenHtml PROVE Inv'
<1>1. CASE Ends
  BY <1>1, EndsInv
<1>2. CASE ~Ends
  <2>1. /\ disk' = [disk EXCEPT ![target] = [version |-> last.text.version, whole |-> FALSE]]
        /\ step = "open" /\ step' = "write"
        /\ UNCHANGED <<window, saving, target, version, last>>
    BY <1>2 DEF OpenHtml
  <2>2. saving # None /\ last \in Save /\ saving = last.of /\ last.of \in Document
    BY <2>1 DEF Inv, Going, Save
  <2>3. [version |-> last.text.version, whole |-> FALSE] \in Content
    BY <2>2 DEF Save, Content
  <2>4. TypeOK'
    BY <2>1, <2>3 DEF Inv, TypeOK
  <2>5. Going'
    BY <2>1, <2>2 DEF Inv, Going
  <2>6. last.own => target = last.of /\ Backup[last.of] # target /\ Backup[last.of] \in Name
    BY <2>2, SaveAssumption DEF Inv, Going
  <2>7. target \in Name
    BY <2>2 DEF Inv, Going
  <2>8. Stages'
    BY <2>1, <2>2, <2>6, <2>7 DEF Inv, Stages, Going, TypeOK
  <2>9. CopyKept'
    BY <2>1, <2>2, <2>6, <2>7 DEF Inv, CopyKept, Stages, Going, TypeOK
  <2> QED
    BY <2>4, <2>5, <2>8, <2>9 DEF Inv
<1> QED
  BY <1>1, <1>2

\* The file is written, and is whole, or is not.
LEMMA WriteInv == ASSUME Inv, Write PROVE Inv'
<1>1. saving # None /\ step \in {"open", "write"}
  BY DEF Write, Inv, Going
<1>2. /\ window' \in [Document -> [text : Content, edited : BOOLEAN] \cup {None}]
      /\ version' \in 0 .. MaxVersion
  BY <1>1, SavedTypes DEF Write, Inv, TypeOK
<1> QED
  BY <1>1, <1>2, EndedInv DEF Write

\* A file that is written in one go is whole, or as it was.
LEMMA WriteAtOnceInv == ASSUME Inv, WriteAtOnce PROVE Inv'
<1>1. saving # None /\ step \in {"open", "write"}
  BY DEF WriteAtOnce, Inv, Going
<1>2. /\ window' \in [Document -> [text : Content, edited : BOOLEAN] \cup {None}]
      /\ version' \in 0 .. MaxVersion
  BY <1>1, SavedTypes DEF WriteAtOnce, Inv, TypeOK
<1> QED
  BY <1>1, <1>2, EndedInv DEF WriteAtOnce

-----------------------------------------------------------------------------
(* The handlers that begin a save, and those between saves.                *)

\* Opening, editing and closing change no file.
LEMMA ReaderInv ==
  ASSUME Inv, NEW d \in Document, OpenFile(d) \/ Edit(d) \/ Close(d)
  PROVE  Inv'
<1> DEFINE Windows == [Document -> [text : Content, edited : BOOLEAN] \cup {None}]
<1>1. CASE OpenFile(d)
  <2>1. disk[d] \in Content
    BY <1>1, SaveAssumption DEF OpenFile, Inv, TypeOK
  <2>2. window' \in Windows /\ version' \in 0 .. MaxVersion
    BY <1>1, <2>1 DEF OpenFile, Inv, TypeOK
  <2> QED
    BY <1>1, <2>2, IdleInv DEF OpenFile
<1>2. CASE Edit(d)
  <2>1. window[d] \in [text : Content, edited : BOOLEAN] /\ version + 1 \in 0 .. MaxVersion
    BY <1>2, SaveAssumption DEF Edit, Inv, TypeOK
  <2>2. [window[d].text EXCEPT !.version = version + 1] \in Content
    BY <2>1 DEF Content
  <2>3. window' \in Windows /\ version' \in 0 .. MaxVersion
    BY <1>2, <2>1, <2>2 DEF Edit, Inv, TypeOK
  <2> QED
    BY <1>2, <2>3, IdleInv DEF Edit
<1>3. CASE Close(d)
  <2>1. window' \in Windows /\ version' \in 0 .. MaxVersion
    BY <1>3 DEF Close, Inv, TypeOK
  <2> QED
    BY <1>3, <2>1, IdleInv DEF Close
<1> QED
  BY <1>1, <1>2, <1>3

\* The commands that save begin a save.
LEMMA SaverInv ==
  ASSUME Inv, NEW d \in Document,
         saveNode(d) \/ makeNewNode(d) \/ \E n \in Name : saveIn(d, n)
  PROVE  Inv'
<1> DEFINE Windows == [Document -> [text : Content, edited : BOOLEAN] \cup {None}]
<1>0. d \in Name
  BY SaveAssumption
<1>1. CASE saveNode(d)
  <2>1. /\ window[d].text \in Content /\ step = "idle" /\ window'[d] # None
        /\ window' \in Windows /\ version' \in 0 .. MaxVersion
    BY <1>1 DEF saveNode, Begin, Inv, TypeOK, Going
  <2> QED
    BY <1>0, <1>1, <2>1, BeginInv DEF saveNode
<1>2. CASE \E n \in Name : saveIn(d, n)
  <2>1. PICK n \in Name : saveIn(d, n)
    BY <1>2
  <2>2. /\ window[d].text \in Content /\ step = "idle"
        /\ window' \in Windows /\ version' \in 0 .. MaxVersion
    BY <2>1 DEF saveIn, Begin, Inv, TypeOK, Going
  <2> QED
    BY <2>1, <2>2, BeginInv DEF saveIn
<1>3. CASE makeNewNode(d)
  <2> DEFINE text == [version |-> version + 1, whole |-> TRUE]
  <2>1. version + 1 \in 0 .. MaxVersion /\ text \in Content
    BY <1>3, SaveAssumption DEF makeNewNode, Inv, TypeOK, Content
  <2>2. Begin(d, d, text, FALSE) /\ step = "idle"
    BY <1>3 DEF makeNewNode, Begin, Inv, Going
  <2>3. window' \in Windows /\ version' \in 0 .. MaxVersion
    BY <1>3, <2>1 DEF makeNewNode, Inv, TypeOK
  <2> HIDE DEF text
  <2> QED
    BY <1>0, <2>1, <2>2, <2>3, BeginInv
<1> QED
  BY <1>1, <1>2, <1>3

\* Every step keeps the invariant.
LEMMA NextInv == ASSUME Inv, [Next]_vars PROVE Inv'
<1>1. CASE \E d \in Document : OpenFile(d) \/ Edit(d) \/ Close(d)
  BY <1>1, ReaderInv
<1>2. CASE \E d \in Document : saveNode(d) \/ makeNewNode(d)
  BY <1>2, SaverInv
<1>3. CASE \E d \in Document, n \in Name : saveIn(d, n)
  BY <1>3, SaverInv
<1>4. CASE Remove \/ Rename \/ OpenHtml \/ Write \/ WriteAtOnce \/ Ends
  BY <1>4, RemoveInv, RenameInv, OpenHtmlInv, WriteInv, WriteAtOnceInv, EndsInv
<1>5. CASE UNCHANGED vars
  BY <1>5 DEF vars, Inv, TypeOK, Going, Stages, CopyKept
<1> QED
  BY <1>1, <1>2, <1>3, <1>4, <1>5 DEF Next

-----------------------------------------------------------------------------
(* The theorems.                                                           *)

\* The inductive invariant.
THEOREM Invariance == Spec => []Inv
<1>1. Init => Inv
  BY InitInv
<1>2. Inv /\ [Next]_vars => Inv'
  BY NextInv
<1> QED
  BY <1>1, <1>2, PTL DEF Spec

\* The variables keep their types.
THEOREM Types == Spec => []TypeOK
<1>1. Inv => TypeOK
  BY DEF Inv
<1> QED
  BY <1>1, Invariance, PTL

\* A save keeps what was in the file, or leaves the new text in full, wherever
\* saveNode: is refused a step or cut off.
THEOREM SaveKeepsACopy == Spec => []CopyKept
<1>1. Inv => CopyKept
  BY DEF Inv
<1> QED
  BY <1>1, Invariance, PTL

\* The steps of a save, and none other, may take a complete copy away.
LEMMA StepKeepsComplete ==
  ASSUME Inv, Next, NEW d \in Document, Careful(d), Complete(d)
  PROVE  Complete(d)'
<1>0. /\ d # None /\ saving # None /\ last.of = d /\ target = d /\ d \in Name
      /\ Backup[d] \in Name /\ Backup[d] # d
  BY SaveAssumption DEF Inv, Going, Careful
<1>1. Remove \/ Rename \/ OpenHtml \/ Write \/ WriteAtOnce \/ Ends
  BY <1>0 DEF Next, OpenFile, Edit, Close, saveNode, makeNewNode, saveIn, Begin
<1>2. CASE Remove
  BY <1>0, <1>2 DEF Remove, Inv, Stages, Careful, Complete, TypeOK
<1>3. CASE Rename
  BY <1>0, <1>3 DEF Rename, Renamed, Inv, Stages, Careful, Complete, TypeOK
<1>4. CASE Ends
  BY <1>4 DEF Ends, Complete
<1>5. CASE UNCHANGED disk
  BY <1>5 DEF Complete
<1>6. CASE step = "open" /\ \E c \in {last.text, [version |-> last.text.version, whole |-> FALSE]} :
                              disk' = [disk EXCEPT ![target] = c]
  BY <1>0, <1>6 DEF Inv, Stages, Careful, Complete, TypeOK
<1>7. CASE step = "write" /\ disk' = [disk EXCEPT ![target] = last.text]
  BY <1>0, <1>7 DEF Inv, Stages, Careful, Complete, TypeOK
<1> QED
  BY <1>1, <1>2, <1>3, <1>4, <1>5, <1>6, <1>7 DEF OpenHtml, Write, WriteAtOnce

\* No step of saveNode: takes the last complete copy of a document away, unless it
\* saves over what was cut short by the save before.
THEOREM CompleteCopyRemains == Spec => CompleteRemains
<1>1. Inv /\ [Next]_vars =>
        [\A d \in Document : Careful(d) /\ Complete(d) => Complete(d)']_vars
  BY StepKeepsComplete
<1> QED
  BY <1>1, Invariance, PTL DEF Spec, CompleteRemains
=============================================================================
