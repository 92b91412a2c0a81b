------------------------------ MODULE RoundTrip ------------------------------
(***************************************************************************)
(* A text is composed, saved by writeSGML, and opened again by readSGML.   *)
(***************************************************************************)
EXTENDS SgmlWriter

CONSTANTS
  RunText,   \* bound: the characters of a run
  MaxRuns    \* bound: runs of a text

VARIABLES
  file,    \* what has been written and not yet read, or None
  saved    \* history: the text that was saved

rvars == <<vars, file, saved>>

\* Some document has been read before, so a style is left in the parser.
RoundTripInit ==
  /\ \E e \in {Normal} \cup Heading :
       parser = [ text |-> NewText, current_style |-> e, next_style |-> e,
                  styleStack |-> <<>>, output_in_word |-> FALSE, crashed |-> FALSE ]
  /\ state = "idle" /\ pre = FALSE /\ anchor = None /\ styled = FALSE /\ meant = <<>>
  /\ file = None /\ saved = None

\* What is typed, styled and linked appears in the text as one more run.
Compose ==
  /\ saved = None /\ Len(Runs(Storage)) < MaxRuns
  /\ \E font \in {FontOf[e] : e \in Element}, a \in Anchors \cup {None}, chars \in RunText :
       LET at == [font |-> font, anchor |-> a, black |-> TRUE] IN
       /\ \A i \in DOMAIN Storage : i = Len(Storage) => Storage[i].at # at
       /\ parser' = [parser EXCEPT !.text.storage =
                       @ \o [i \in DOMAIN chars |-> [ch |-> chars[i], at |-> at]]]
  /\ UNCHANGED <<state, pre, anchor, styled, meant, file, saved>>

\* The text in the window, as it was composed or as it was read.
Save ==
  /\ state = "idle" /\ file = None /\ Storage # <<>>
  /\ file' = writeSGML(Storage) /\ saved' = Storage
  /\ UNCHANGED vars

Reopen == state = "idle" /\ file # None /\ BeginDocument /\ UNCHANGED <<file, saved>>

\* A byte of a character that is not ASCII reads as a character of a word.
Printed(c) == IF c \in {"E2", "80", "A2"} THEN Word ELSE c

ReadItem(t) ==
  CASE t[1] = "open" -> ReadStart(t[2]) \/ ReadStartAtOnce(t[2]) \/ ReadStartExample(t[2])
    [] t[1] = "close" -> ReadEnd(t[2])
    [] t[1] = "A" -> ReadAnchor(t[2])
    [] t[1] = "/A" -> ReadEndAnchor
    [] t[1] \in {"P", "LI", "DT"} -> ReadParagraph
    [] t[1] = "DD" -> ReadDefinition
    [] t[1] = "entity" -> ReadWord(t[2], FALSE) \/ ReadMore(t[2], TRUE)
    [] t = Plain(Space) -> ReadSpace
    [] t = Plain(Tab) -> ReadTab
    [] t = Plain(NewLine) -> ReadNewLine
    [] t = Plain(Less) -> ReadJunk
    [] OTHER -> ReadWord(Printed(t[2]), FALSE) \/ ReadMore(Printed(t[2]), FALSE)

\* In an example a tag is characters like others, but for the end tag.
ReadLiteral(t) ==
  CASE t[1] = "close" -> ReadEndExample
    [] t[1] = "char" -> ReadExample(Printed(t[2]))
    [] OTHER -> ReadExample(Word)

ReadFile ==
  /\ state # "idle" /\ file # <<>>
  /\ \/ InText /\ ReadItem(file[1])
     \/ state = "example" /\ ReadLiteral(file[1])
  /\ file' = Tail(file)
  /\ UNCHANGED saved

EndOfFile == file = <<>> /\ EndOfStream /\ file' = None /\ UNCHANGED saved

RoundTripNext ==
  \/ Compose \/ Save \/ Reopen \/ ReadFile \/ EndOfFile

RoundTripSpec == RoundTripInit /\ [][RoundTripNext]_rvars
-----------------------------------------------------------------------------

Done == saved # None /\ file = None /\ state = "idle"

\* The words of a text, with their style and anchor.
WordsOf(storage) ==
  [i \in 1 .. Cardinality({j \in DOMAIN storage : storage[j].ch \in Printing}) |->
     LET j == CHOOSE k \in DOMAIN storage :
                storage[k].ch \in Printing /\ Cardinality({n \in 1 .. k : storage[n].ch \in Printing}) = i
     IN  storage[j]]

Bulleted(storage) == \E i \in DOMAIN storage : storage[i].ch = Bullet
LinkedLiterals(storage) ==
  /\ \E i \in DOMAIN storage : findSGML(storage[i].at.font) \in Literal
  /\ \E i \in DOMAIN storage : storage[i].at.anchor # None

\* All but the last run, if there are several.
Kept(storage) ==
  LET ends == {i \in 1 .. Len(storage) - 1 : storage[i].at # storage[i + 1].at}
  IN  IF ends = {} THEN storage ELSE SubSeq(storage, 1, Max(ends))

\* Opened again, a saved text has the words it had, each in its anchor and,
\* behind the first style, in its style: up to the last run, in texts without
\* bullets, and with no anchors where there is a literal style.
SavedIsRead ==
  Done /\ ~Bulleted(saved) /\ ~LinkedLiterals(saved) =>
    LET before == WordsOf(Kept(saved))
        after  == WordsOf(Storage)
    IN  /\ Len(before) = Len(after)
        /\ \A i \in DOMAIN before :
             /\ after[i].ch = before[i].ch
             /\ after[i].at.anchor = before[i].at.anchor
             /\ meant[i].styled => after[i].at.font = before[i].at.font

\* Words that white space parts in the text that is saved are apart in the text
\* that is read, so that they are still the same words; but for those next to a
\* literal style.
Apart(storage, i) ==
  LET places == {j \in DOMAIN storage : storage[j].ch \in Printing}
      At(n) == CHOOSE j \in places : Cardinality({k \in places : k <= j}) = n
  IN  At(i + 1) > At(i) + 1
SavedApart ==
  Done /\ ~Bulleted(saved) /\ ~LinkedLiterals(saved) =>
    \A i \in 1 .. Len(WordsOf(Kept(saved))) - 1 :
      \/ {meant[i].element, meant[i + 1].element} \cap Literal # {}
      \/ Apart(saved, i) => Apart(Storage, i)

\* The comment on the loop over the runs of a text says that it writes "Runs 2
\* to N": what is saved and opened again should have every word.
AllRunsAreWritten ==
  Done /\ ~Bulleted(saved) => Len(WordsOf(Storage)) >= Len(WordsOf(saved))
=============================================================================
