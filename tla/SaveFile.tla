------------------------------ MODULE SaveFile ------------------------------
(***************************************************************************)
(* saveNode: and save:inFile:format: of FileAccess.m: an edited document   *)
(* is saved under its own name.  The file is first renamed to the same     *)
(* name with a comma before it, then a new one is opened, written and      *)
(* closed.  The file system may refuse any of these steps and the program  *)
(* may end before any of them; no result is looked at, and there is no     *)
(* other recovery than that of the reader who opens what is left.          *)
(*                                                                         *)
(* A file, like the text of a window, holds a version of its document, in  *)
(* full or cut short.                                                      *)
(***************************************************************************)
EXTENDS Integers

CONSTANTS
  Name,        \* names of files, those of backups among them
  Backup,      \* [Document -> Name], the name with a comma
  Document,    \* those that are opened and saved
  None,
  MaxVersion   \* bound: versions made by editing

ASSUME SaveAssumption ==
  /\ Document \subseteq Name
  /\ Backup \in [Document -> Name] /\ \A d \in Document : Backup[d] # d
  /\ None \notin Name /\ MaxVersion \in Nat

VARIABLES
  disk,     \* the content of each file, or None
  window,   \* the window of each document, or None
  saving,   \* the document being saved, or None
  target,   \* the file that is written
  step,     \* what the save does next
  version,  \* the last version made
  last      \* history: the last save

vars == <<disk, window, saving, target, step, version, last>>

Content == [version : 0 .. MaxVersion, whole : BOOLEAN]

Init ==
  /\ disk \in [Name -> {None, [version |-> 0, whole |-> TRUE]}]
  /\ window = [d \in Document |-> None]
  /\ saving = None /\ target = None /\ step = "idle"
  /\ version = 0
  /\ last = None

TypeOK ==
  /\ disk \in [Name -> Content \cup {None}]
  /\ window \in [Document -> [text : Content, edited : BOOLEAN] \cup {None}]
  /\ saving \in Document \cup {None} /\ target \in Name \cup {None}
  /\ step \in {"idle", "remove", "rename", "open", "write"}
  /\ version \in 0 .. MaxVersion
  /\ last \in [of : Document, before : Content \cup {None}, text : Content,
               refused : BOOLEAN,      \* the backup, or what it needs
               own : BOOLEAN] \cup {None}  \* under its own name

\* Mutant: it is opened whether or not it is there.
OpenAnyway(d) ==
  /\ saving = None /\ window[d] = None
  /\ window' = [window EXCEPT ![d] = [text |-> disk[d], edited |-> FALSE]]
  /\ UNCHANGED <<disk, saving, target, step, version, last>>

OpenFile(d) ==
  /\ saving = None /\ window[d] = None /\ disk[d] # None
  /\ window' = [window EXCEPT ![d] = [text |-> disk[d], edited |-> FALSE]]
  /\ UNCHANGED <<disk, saving, target, step, version, last>>

Edit(d) ==
  /\ saving = None /\ window[d] # None /\ version < MaxVersion
  /\ version' = version + 1
  /\ window' = [window EXCEPT ![d] = [text   |-> [@.text EXCEPT !.version = version + 1],
                                      edited |-> TRUE]]
  /\ UNCHANGED <<disk, saving, target, step, last>>

Close(d) ==
  /\ saving = None /\ window[d] # None
  /\ window' = [window EXCEPT ![d] = None]
  /\ UNCHANGED <<disk, saving, target, step, version, last>>

\* Mutant: no backup is taken.
NoBackup(readable) == "open"
\* Mutant: the old backup goes even if there is nothing to take its place.
AlwaysBackup(readable) == "remove"

\* The backup is made if fopen can open the file for reading: a file that is
\* there and may not be read gets none, and is written over all the same.
NextStep(readable) == IF readable THEN "remove" ELSE "open"

Begin(d, n, text, own) ==
  /\ saving = None
  /\ saving' = d /\ target' = n
  /\ \E readable \in BOOLEAN :
       /\ readable => disk[d] # None
       /\ step' = IF own THEN NextStep(readable) ELSE "open"
       /\ last' = [of |-> d, before |-> disk[n], text |-> text, own |-> own,
                   refused |-> own /\ disk[d] # None /\ ~readable]
  /\ UNCHANGED disk

saveNode(d) ==
  /\ window[d] # None /\ Begin(d, d, window[d].text, TRUE)
  /\ UNCHANGED <<window, version>>

\* Save As: into another file, without a backup.
saveIn(d, n) ==
  /\ window[d] # None /\ n # d /\ Begin(d, n, window[d].text, FALSE)
  /\ UNCHANGED <<window, version>>

\* A new document is a blank one that is given a name and saved there at once.
makeNewNode(d) ==
  /\ window[d] = None /\ version < MaxVersion
  /\ LET text == [version |-> version + 1, whole |-> TRUE] IN
     /\ Begin(d, d, text, FALSE)
     /\ window' = [window EXCEPT ![d] = [text |-> text, edited |-> FALSE]]
  /\ version' = version + 1

\* remove(backup_filename) fails if there is none, or is refused.
Remove ==
  /\ step = "remove"
  /\ \/ disk' = [disk EXCEPT ![Backup[saving]] = None] /\ UNCHANGED last
     \/ last' = [last EXCEPT !.refused = TRUE] /\ UNCHANGED disk
  /\ step' = "rename"
  /\ UNCHANGED <<window, saving, target, version>>

\* What a rename leaves, whatever had the name before.
Renamed(d) == [disk EXCEPT ![Backup[d]] = disk[d], ![d] = None]
Rename ==
  /\ step = "rename"
  /\ \/ disk' = Renamed(saving) /\ UNCHANGED last
     \/ last' = [last EXCEPT !.refused = TRUE] /\ UNCHANGED disk
  /\ step' = "open"
  /\ UNCHANGED <<window, saving, target, version>>

Ended == saving' = None /\ target' = None /\ step' = "idle"

\* The window is taken to be saved, whatever happened; not by a Save As.
Saved == window' = IF last.own THEN [window EXCEPT ![saving].edited = FALSE] ELSE window

\* The program ends: there is nothing but the files.
Ends ==
  /\ window' = [d \in Document |-> None]
  /\ Ended
  /\ UNCHANGED <<disk, version, last>>

\* HTML, which writeSGML writes.  Opening for writing empties the file.  If it
\* is refused writeSGML does nothing, but the null stream is closed all the same,
\* which ends the program.
OpenHtml ==
  /\ step = "open"
  /\ \/ /\ disk' = [disk EXCEPT ![target] = [version |-> last.text.version, whole |-> FALSE]]
        /\ step' = "write"
        /\ UNCHANGED <<window, saving, target, version, last>>
     \/ Ends

\* Whether all that was written got there is known when the stream is closed, to
\* which nobody listens.  writeSGML raises an exception for an empty text: the
\* file stays as it is, and the window is still edited.
Write ==
  /\ step = "write"
  /\ \/ disk' = [disk EXCEPT ![target] = last.text] /\ Saved
     \/ UNCHANGED disk /\ Saved
     \/ UNCHANGED <<disk, window>>
  /\ Ended
  /\ UNCHANGED <<version, last>>

\* Other formats, and any document that is shown as its source, are written to a
\* file that takes the place of the old one when it is complete; a new document
\* is HTML.
WriteAtOnce ==
  /\ step = "open" /\ (last.own \/ target # saving)
  /\ \/ disk' = [disk EXCEPT ![target] = last.text]
     \/ UNCHANGED disk
  /\ Saved /\ Ended
  /\ UNCHANGED <<version, last>>

Next ==
  \/ \E d \in Document : OpenFile(d) \/ Edit(d) \/ Close(d) \/ saveNode(d) \/ makeNewNode(d)
  \/ \E d \in Document, n \in Name : saveIn(d, n)
  \/ Remove \/ Rename \/ OpenHtml \/ Write \/ WriteAtOnce
  \/ Ends

Spec == Init /\ [][Next]_vars

-----------------------------------------------------------------------------
(* Properties.                                                             *)

\* From the beginning of a save, unless its backup is refused (a file that may not
\* be read has none), and until the next one, what was in the file is still there,
\* under its name or that of the backup, or else the new text is there in full:
\* whatever fails and whenever the program ends.
CopyKept ==
  last # None /\ last.own /\ ~last.refused /\ last.before # None =>
    \/ disk[last.of] = last.text
    \/ last.before \in {disk[last.of], disk[Backup[last.of]]}

\* No save takes the last complete copy of a document away, the backup being one,
\* unless what it saves over was cut short by the save before it: a failed save
\* that is tried again removes the good backup for the bad file.
Complete(d) == \E n \in {d, Backup[d]} : disk[n] # None /\ disk[n].whole
Careful(d) == /\ saving = d /\ last.own /\ ~last.refused
              /\ last.before = None \/ last.before.whole
CompleteRemains ==
  [][\A d \in Document : Careful(d) /\ Complete(d) => Complete(d)']_vars
=============================================================================
