---------------------------- MODULE TextStorage ----------------------------
(***************************************************************************)
(* The output routines of HyperText.m as operators on the text being       *)
(* written.  An empty text holds no attributes, so a style is kept on a    *)
(* dummy character at the end, which the next character replaces.          *)
(*                                                                         *)
(* A text t has its characters, the flag endsWithDummyCharacter, which is  *)
(* static and outlives the text, and says whether an exception has left    *)
(* the routines: then nothing more is written.                             *)
(***************************************************************************)
EXTENDS TextAttributes, Sequences, Integers

Dummy == "@"

\* A text may hold an "@" of its own: the dummy here is the one of set_style.
ASSUME DummyAssumption == Dummy \notin Char

Cell == [ch : Char \cup {Dummy}, at : Attr]

Text == [storage : Seq(Cell), endsWithDummyCharacter : BOOLEAN, raised : BOOLEAN]

NewText == [storage |-> <<>>, endsWithDummyCharacter |-> FALSE, raised |-> FALSE]

Front(s) == SubSeq(s, 1, Len(s) - 1)

\* The attributes of the last run; the run of an empty text is nil.
LastAttributes(t) ==
  IF t.storage = <<>> THEN Bare ELSE t.storage[Len(t.storage)].at

\* The text without its dummy.
Written(t) == IF t.endsWithDummyCharacter THEN Front(t.storage) ELSE t.storage

\* The text is emptied; the flag stays as the last reader left it.
AppendBegin(t) == [t EXCEPT !.storage = <<>>, !.raised = FALSE]

\* deleteCharactersInRange: of the character before an empty text raises.
NoDummyToRemove(t) == t.endsWithDummyCharacter /\ t.storage = <<>>

\* Mutant: the end is taken after the character is appended, so the character
\* goes and the dummy stays.
OutputCharLate(t, c) ==
  [t EXCEPT !.storage = IF t.endsWithDummyCharacter THEN @
                        ELSE Append(@, [ch |-> c, at |-> LastAttributes(t)]),
            !.endsWithDummyCharacter = FALSE]

\* Mutant: a plain string is appended.
OutputCharPlain(t, c) ==
  [t EXCEPT !.storage = Append(Written(t), [ch |-> c, at |-> None]),
            !.endsWithDummyCharacter = FALSE]

\* A character takes the attributes of the one before it, dummy or not, and
\* the dummy goes after it is written.
OutputChar(t, c) ==
  LET cell == [ch |-> c, at |-> LastAttributes(t)]
  IN  IF t.raised THEN t
      ELSE IF NoDummyToRemove(t)
             THEN [t EXCEPT !.storage = <<cell>>, !.raised = TRUE]
             ELSE [t EXCEPT !.storage = Append(Written(t), cell),
                            !.endsWithDummyCharacter = FALSE]

\* Does the style change a run with these attributes?  Nothing here compares
\* the absence of an anchor.
WillChange(style, at) ==
  \/ at.font # style.font
  \/ ~at.black
  \/ style.anchor # None /\ at.anchor # style.anchor

\* Mutant: a style set on a style does not remove the dummy of the first.
SetStyleOnStyle(t, style) ==
  IF WillChange(style, LastAttributes(t))
    THEN [t EXCEPT !.storage = Append(@, [ch |-> Dummy,
                                          at |-> Apply(style, LastAttributes(t))]),
                   !.endsWithDummyCharacter = TRUE]
    ELSE t

SetStyle(t, style) ==
  LET at    == LastAttributes(t)
      dummy == [ch |-> Dummy, at |-> Apply(style, at)]
  IN  IF t.raised \/ ~WillChange(style, at) THEN t
      ELSE IF NoDummyToRemove(t) THEN [t EXCEPT !.raised = TRUE]
      ELSE [t EXCEPT !.storage = Append(Written(t), dummy),
                     !.endsWithDummyCharacter = TRUE]

FinishOutput(t) ==
  IF t.raised THEN t
  ELSE IF NoDummyToRemove(t) THEN [t EXCEPT !.raised = TRUE]
  ELSE [t EXCEPT !.storage = Written(t), !.endsWithDummyCharacter = FALSE]

=============================================================================
