------------------------- MODULE TextStorageProofs -------------------------
(***************************************************************************)
(* What each output routine of HyperText.m does to a text.                 *)
(***************************************************************************)
EXTENDS TextStorage, TLAPS

-----------------------------------------------------------------------------
(* The last element of a sequence.                                         *)

\* What is appended to a sequence is its last element, and without it the
\* sequence is back as it was.
LEMMA FrontOfAppend ==
  ASSUME NEW S, NEW s \in Seq(S), NEW e \in S
  PROVE  /\ Append(s, e) \in Seq(S)
         /\ Append(s, e) # <<>>
         /\ Len(Append(s, e)) = Len(s) + 1
         /\ Append(s, e)[Len(Append(s, e))] = e
         /\ Front(Append(s, e)) = s
<1>1. /\ Append(s, e) \in Seq(S)
      /\ Len(Append(s, e)) = Len(s) + 1
      /\ Append(s, e)[Len(s) + 1] = e
      /\ Len(s) \in Nat
  OBVIOUS
<1>2. Append(s, e) # <<>>
  BY <1>1
<1>3. SubSeq(Append(s, e), 1, Len(s)) = s
  OBVIOUS
<1>4. QED
  BY <1>1, <1>2, <1>3 DEF Front

\* A sequence that is not empty has a last element and one before it all.
LEMMA FrontOfSeq ==
  ASSUME NEW S, NEW s \in Seq(S), s # <<>>
  PROVE  Front(s) \in Seq(S) /\ s[Len(s)] \in S
<1>1. Len(s) \in Nat \ {0}
  OBVIOUS
<1>2. Front(s) = [i \in 1 .. (Len(s) - 1) |-> s[i]]
  BY <1>1 DEF Front
<1>3. \A i \in 1 .. (Len(s) - 1) : s[i] \in S
  BY <1>1
<1>4. [i \in 1 .. (Len(s) - 1) |-> s[i]] \in Seq(S)
  BY <1>1, <1>3
<1>5. QED
  BY <1>1, <1>2, <1>4

\* It is the one with the other after it.
LEMMA Rebuilt ==
  ASSUME NEW S, NEW s \in Seq(S), s # <<>>
  PROVE  s = Append(Front(s), s[Len(s)])
<1> DEFINE f == Front(s)
<1>1. Len(s) \in Nat \ {0} /\ s[Len(s)] \in S
  OBVIOUS
<1>2. f = [i \in 1 .. (Len(s) - 1) |-> s[i]]
  BY <1>1 DEF Front
<1>3. f \in Seq(S) /\ Len(f) = Len(s) - 1 /\ \A i \in 1 .. (Len(s) - 1) : f[i] = s[i]
  BY <1>1, <1>2
<1> HIDE DEF f
<1> DEFINE r == Append(f, s[Len(s)])
<1>4. /\ r \in Seq(S) /\ Len(r) = Len(f) + 1 /\ r[Len(f) + 1] = s[Len(s)]
      /\ \A i \in 1 .. Len(f) : r[i] = f[i]
  BY <1>1, <1>3
<1> HIDE DEF r
<1>5. \A i \in 1 .. Len(s) : r[i] = s[i]
  BY <1>1, <1>3, <1>4
<1>6. r = s
  BY <1>1, <1>3, <1>4, <1>5
<1>7. QED
  BY <1>6 DEF r, f

-----------------------------------------------------------------------------
(* What the routines do to a text that is sound: nothing was raised, and a *)
(* text that has a dummy to remove is not empty.                           *)

Sound(t) ==
  /\ t \in Text
  /\ ~t.raised
  /\ t.endsWithDummyCharacter => t.storage # <<>>

\* The last run of a sound text has attributes, and a text without its dummy
\* is a text.
LEMMA LastOfText ==
  ASSUME NEW t \in Text
  PROVE  /\ LastAttributes(t) \in Attr
         /\ (t.endsWithDummyCharacter => t.storage # <<>>) => Written(t) \in Seq(Cell)
<1>1. t.storage \in Seq(Cell)
  BY DEF Text
<1>2. Bare \in Attr
  BY DEF Bare, Attr
<1>3. t.storage # <<>> => t.storage[Len(t.storage)] \in Cell
  BY <1>1, FrontOfSeq
<1>4. t.storage # <<>> => t.storage[Len(t.storage)].at \in Attr
  BY <1>3 DEF Cell
<1>5. LastAttributes(t) \in Attr
  BY <1>2, <1>4 DEF LastAttributes
<1>6. ASSUME t.endsWithDummyCharacter => t.storage # <<>>
      PROVE  Written(t) \in Seq(Cell)
  BY <1>1, <1>6, FrontOfSeq DEF Written
<1>7. QED
  BY <1>5, <1>6

\* A style gives attributes.
LEMMA ApplyType ==
  ASSUME NEW style \in HTStyle, NEW at \in Attr
  PROVE  Apply(style, at) \in Attr
BY DEF HTStyle, SheetStyle, AnchorStyle, EndAnchorStyle, Apply, Attr

\* In a text that has a font, a style that changes something is seen to.
LEMMA ChangesSeen ==
  ASSUME NEW style \in HTStyle, NEW at \in Attr,
         at.font # None, at.black, ~WillChange(style, at)
  PROVE  Apply(style, at) = at
<1>1. style.font = at.font /\ (style.anchor = None \/ style.anchor = at.anchor)
  BY DEF WillChange
<1>2. ~style.clearAnchor
  BY <1>1 DEF HTStyle, SheetStyle, AnchorStyle, EndAnchorStyle
<1>3. at = [font |-> at.font, anchor |-> at.anchor, black |-> at.black]
  BY DEF Attr
<1>4. at.black = TRUE
  BY DEF Attr
<1>5. QED
  BY <1>1, <1>2, <1>3, <1>4 DEF Apply

\* A character written comes after what was written, with the attributes that
\* were the last.
LEMMA OutputCharWrites ==
  ASSUME NEW t, Sound(t), NEW c \in Char
  PROVE  LET u == OutputChar(t, c)
         IN  /\ Sound(u)
             /\ u.storage # <<>>
             /\ Written(u) = Append(Written(t), [ch |-> c, at |-> LastAttributes(t)])
             /\ LastAttributes(u) = LastAttributes(t)
             /\ ~u.endsWithDummyCharacter
<1> DEFINE cell == [ch |-> c, at |-> LastAttributes(t)]
           u    == OutputChar(t, c)
           s    == Written(t)
<1>1. t \in Text /\ ~t.raised /\ ~NoDummyToRemove(t)
  BY DEF Sound, NoDummyToRemove
<1>2. u = [t EXCEPT !.storage = Append(s, cell), !.endsWithDummyCharacter = FALSE]
  BY <1>1 DEF OutputChar
<1>3. s \in Seq(Cell) /\ LastAttributes(t) \in Attr
  BY <1>1, LastOfText DEF Sound
<1>4. cell \in Cell
  BY <1>3 DEF Cell
<1> HIDE DEF s, u
<1>5. /\ Append(s, cell) \in Seq(Cell)
      /\ Append(s, cell) # <<>>
      /\ Append(s, cell)[Len(Append(s, cell))] = cell
  BY <1>3, <1>4, FrontOfAppend
<1>6. u = [storage |-> Append(s, cell), endsWithDummyCharacter |-> FALSE, raised |-> FALSE]
  BY <1>1, <1>2 DEF Text
<1>7. u \in Text
  BY <1>5, <1>6 DEF Text
<1>8. /\ Sound(u) /\ u.storage # <<>> /\ Written(u) = Append(s, cell)
      /\ ~u.endsWithDummyCharacter
  BY <1>5, <1>6, <1>7 DEF Sound, Written
<1>9. LastAttributes(u) = LastAttributes(t)
  BY <1>5, <1>6 DEF LastAttributes
<1>10. QED
  BY <1>8, <1>9 DEF u, s

\* A style set on a text that has a font, or on none, changes the attributes of
\* what comes and nothing that was written.
LEMMA SetStyleHolds ==
  ASSUME NEW t, Sound(t), NEW style \in HTStyle,
         \/ LastAttributes(t).font # None /\ LastAttributes(t).black
         \/ ~LastAttributes(t).black
  PROVE  LET u == SetStyle(t, style)
         IN  /\ Sound(u)
             /\ Written(u) = Written(t)
             /\ LastAttributes(u) = Apply(style, LastAttributes(t))
             /\ u.storage = <<>> => t.storage = <<>>
             /\ u = t \/ u.storage[Len(u.storage)].ch = Dummy
<1> DEFINE at    == LastAttributes(t)
           dummy == [ch |-> Dummy, at |-> Apply(style, at)]
           u     == SetStyle(t, style)
           s     == Written(t)
<1>1. t \in Text /\ ~t.raised /\ ~NoDummyToRemove(t)
  BY DEF Sound, NoDummyToRemove
<1>2. s \in Seq(Cell) /\ at \in Attr
  BY <1>1, LastOfText DEF Sound
<1>3. CASE ~WillChange(style, at)
  <2>1. u = t
    BY <1>1, <1>3 DEF SetStyle
  <2>2. at.black
    BY <1>3 DEF WillChange
  <2>3. at.font # None
    BY <2>2
  <2>4. Apply(style, at) = at
    BY <1>2, <1>3, <2>2, <2>3, ChangesSeen
  <2>5. QED
    BY <2>1, <2>4
<1>4. CASE WillChange(style, at)
  <2>1. u = [t EXCEPT !.storage = Append(s, dummy), !.endsWithDummyCharacter = TRUE]
    BY <1>1, <1>4 DEF SetStyle
  <2>2. dummy \in Cell
    BY <1>2, ApplyType DEF Cell
  <2> HIDE DEF s, u, dummy
  <2>3. /\ Append(s, dummy) \in Seq(Cell)
        /\ Append(s, dummy) # <<>>
        /\ Append(s, dummy)[Len(Append(s, dummy))] = dummy
        /\ Front(Append(s, dummy)) = s
    BY <1>2, <2>2, FrontOfAppend
  <2>4. u = [storage |-> Append(s, dummy), endsWithDummyCharacter |-> TRUE, raised |-> FALSE]
    BY <1>1, <2>1 DEF Text
  <2>5. u \in Text
    BY <2>3, <2>4 DEF Text
  <2>6. Sound(u) /\ u.storage # <<>> /\ Written(u) = s
    BY <2>3, <2>4, <2>5 DEF Sound, Written
  <2>7. LastAttributes(u) = dummy.at /\ u.storage[Len(u.storage)] = dummy
    BY <2>3, <2>4 DEF LastAttributes
  <2>8. QED
    BY <2>6, <2>7 DEF u, s, dummy
<1>5. QED
  BY <1>3, <1>4

\* The dummy goes and the rest stays.
LEMMA FinishOutputKeeps ==
  ASSUME NEW t, Sound(t)
  PROVE  LET u == FinishOutput(t)
         IN  Sound(u) /\ ~u.endsWithDummyCharacter /\ Written(u) = Written(t)
<1> DEFINE u == FinishOutput(t)
           s == Written(t)
<1>1. t \in Text /\ ~t.raised /\ ~NoDummyToRemove(t)
  BY DEF Sound, NoDummyToRemove
<1>2. u = [t EXCEPT !.storage = s, !.endsWithDummyCharacter = FALSE]
  BY <1>1 DEF FinishOutput
<1>3. s \in Seq(Cell)
  BY <1>1, LastOfText DEF Sound
<1> HIDE DEF u, s
<1>4. u = [storage |-> s, endsWithDummyCharacter |-> FALSE, raised |-> FALSE]
  BY <1>1, <1>2 DEF Text
<1>5. u \in Text
  BY <1>3, <1>4 DEF Text
<1>6. Sound(u) /\ ~u.endsWithDummyCharacter /\ Written(u) = s
  BY <1>4, <1>5 DEF Sound, Written
<1>7. QED
  BY <1>6 DEF u, s

\* What is in a font and in colour has a run.
LEMMA FontKept ==
  ASSUME NEW style \in HTStyle, NEW at \in Attr,
         at.font # None \/ style.font # None
  PROVE  Apply(style, at).font # None /\ Apply(style, at).black
BY DEF Apply

=============================================================================
