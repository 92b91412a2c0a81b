-------------------------- MODULE TextOutputProofs --------------------------
(***************************************************************************)
(* Readers that begin in a style and end with FINISH_OUTPUT implement      *)
(* StyledText, whatever the characters, fonts, anchors and lengths.        *)
(***************************************************************************)
EXTENDS TextOutput, TextStorageProofs

-----------------------------------------------------------------------------
(* The invariant of orderly readers.                                       *)

\* While a text is written it has a font to compare styles with, and when it is
\* not the flag is down.
Orderly ==
  /\ Sound(text)
  /\ open \in BOOLEAN
  /\ text.endsWithDummyCharacter => open
  /\ open => LastAttributes(text).font # None /\ LastAttributes(text).black

\* No text is open at first, and no flag is left.
LEMMA OrderlyInit == Init => Orderly
<1> SUFFICES ASSUME Init
             PROVE  Orderly
  OBVIOUS
<1>1. text = NewText /\ open = FALSE
  BY DEF Init
<1>2. NewText \in Text /\ ~NewText.raised /\ ~NewText.endsWithDummyCharacter
  BY DEF NewText, Text
<1>3. Sound(text) /\ ~text.endsWithDummyCharacter
  BY <1>1, <1>2 DEF Sound
<1>4. QED
  BY <1>1, <1>3 DEF Orderly

\* What each action of an orderly reader makes of an orderly text.
LEMMA BeginOrderly ==
  ASSUME Orderly, NEW f \in Font, Begin(SheetStyle(f))
  PROVE  /\ Orderly'
         /\ open'
         /\ Written(text') = <<>>
         /\ LastAttributes(text') = Apply(SheetStyle(f), Bare)
<1> DEFINE t == AppendBegin(text)
           style == SheetStyle(f)
<1>1. text \in Text /\ ~open /\ ~text.endsWithDummyCharacter
  BY DEF Orderly, Sound, Begin
<1>2. /\ t \in Text
      /\ t.storage = <<>>
      /\ ~t.endsWithDummyCharacter
      /\ ~t.raised
  <2>1. <<>> \in Seq(Cell)
    OBVIOUS
  <2>2. t = [text EXCEPT !.storage = <<>>, !.raised = FALSE]
    BY DEF AppendBegin
  <2> HIDE DEF t
  <2>3. QED
    BY <1>1, <2>1, <2>2 DEF Text
<1>3. t \in Text
  BY <1>2
<1>4. Sound(t) /\ LastAttributes(t) = Bare /\ Written(t) = <<>>
  BY <1>2, <1>3 DEF Sound, LastAttributes, Written
<1>5. style \in HTStyle /\ ~Bare.black
  BY DEF HTStyle, Bare
<1>6. text' = SetStyle(t, style) /\ open' = ~text'.raised
  BY DEF Begin
<1> HIDE DEF t, style
<1>7. /\ Sound(text')
      /\ Written(text') = <<>>
      /\ LastAttributes(text') = Apply(style, Bare)
  BY <1>4, <1>5, <1>6, SetStyleHolds
<1>8. open'
  BY <1>6, <1>7 DEF Sound
<1>9. style.font # None /\ Bare \in Attr
  BY TextAssumption DEF style, SheetStyle, Bare, Attr
<1>10. LastAttributes(text').font # None /\ LastAttributes(text').black
  BY <1>5, <1>7, <1>9, FontKept
<1>11. QED
  BY <1>6, <1>7, <1>8, <1>10 DEF Orderly, style

\* A character is written in the attributes that were the last.
LEMMA PutOrderly ==
  ASSUME Orderly, NEW c \in Char, Put(c)
  PROVE  /\ Orderly'
         /\ open /\ open'
         /\ Written(text') = Append(Written(text), [ch |-> c, at |-> LastAttributes(text)])
         /\ LastAttributes(text') = LastAttributes(text)
<1>1. Sound(text) /\ open /\ text' = OutputChar(text, c) /\ open' = ~text'.raised
  BY DEF Orderly, Put, Write
<1>2. /\ Sound(text')
      /\ Written(text') = Append(Written(text), [ch |-> c, at |-> LastAttributes(text)])
      /\ LastAttributes(text') = LastAttributes(text)
  BY <1>1, OutputCharWrites
<1>3. open' = TRUE
  BY <1>1, <1>2 DEF Sound
<1>4. QED
  BY <1>1, <1>2, <1>3 DEF Orderly

\* A style changes what comes and nothing that was written.
LEMMA SetOrderly ==
  ASSUME Orderly, NEW style \in HTStyle, Set(style)
  PROVE  /\ Orderly'
         /\ open /\ open'
         /\ Written(text') = Written(text)
         /\ LastAttributes(text') = Apply(style, LastAttributes(text))
<1>1. Sound(text) /\ open /\ text' = SetStyle(text, style) /\ open' = ~text'.raised
  BY DEF Orderly, Set, Write
<1>2. LastAttributes(text).font # None /\ LastAttributes(text).black
  BY <1>1 DEF Orderly
<1>3. /\ Sound(text')
      /\ Written(text') = Written(text)
      /\ LastAttributes(text') = Apply(style, LastAttributes(text))
  BY <1>1, <1>2, SetStyleHolds
<1>4. open' = TRUE
  BY <1>1, <1>3 DEF Sound
<1>5. LastAttributes(text) \in Attr
  BY <1>1, LastOfText DEF Sound
<1>6. LastAttributes(text').font # None /\ LastAttributes(text').black
  BY <1>2, <1>3, <1>5, FontKept
<1>7. QED
  BY <1>1, <1>3, <1>4, <1>6 DEF Orderly

\* A reader that ends leaves no flag.
LEMMA EndOrderly ==
  ASSUME Orderly, End
  PROVE  Orderly' /\ open /\ open' = FALSE /\ Written(text') = Written(text)
<1>1. Sound(text) /\ open /\ text' = FinishOutput(text) /\ open' = FALSE
  BY DEF Orderly, End
<1>2. Sound(text') /\ ~text'.endsWithDummyCharacter /\ Written(text') = Written(text)
  BY <1>1, FinishOutputKeeps
<1>3. QED
  BY <1>1, <1>2 DEF Orderly

\* Every step of the orderly readers keeps this.
LEMMA OrderlyStep == Orderly /\ [OrderlyNext]_vars => Orderly'
<1> SUFFICES ASSUME Orderly, [OrderlyNext]_vars
             PROVE  Orderly'
  OBVIOUS
<1>1. CASE \E f \in Font : Begin(SheetStyle(f))
  BY <1>1, BeginOrderly
<1>2. CASE \E c \in Char : Put(c)
  BY <1>2, PutOrderly
<1>3. CASE \E style \in HTStyle : Set(style)
  BY <1>3, SetOrderly
<1>4. CASE End
  BY <1>4, EndOrderly
<1>5. CASE UNCHANGED vars
  BY <1>5 DEF vars, Orderly, Sound, LastAttributes
<1>6. QED
  BY <1>1, <1>2, <1>3, <1>4, <1>5 DEF OrderlyNext

\* A reader that begins in a style and ends with FINISH_OUTPUT is never left by
\* an exception, and leaves no dummy flagged behind it.
THEOREM OrderlyReaders == OrderlySpec => []Orderly
<1>1. Init => Orderly
  BY OrderlyInit
<1>2. Orderly /\ [OrderlyNext]_vars => Orderly'
  BY OrderlyStep
<1>3. QED
  BY <1>1, <1>2, PTL DEF OrderlySpec

-----------------------------------------------------------------------------
(* The refinement: every step of the readers is a step of StyledText.      *)

\* The styles of the promise are those of the routines.
LEMMA SameStyles ==
  /\ Promise!HTStyle = HTStyle
  /\ Promise!Bare = Bare
  /\ \A f : Promise!SheetStyle(f) = SheetStyle(f)
  /\ \A style, at : Promise!Apply(style, at) = Apply(style, at)
BY DEF Promise!HTStyle, HTStyle, Promise!Bare, Bare, Promise!SheetStyle, SheetStyle,
       Promise!AnchorStyle, AnchorStyle, Promise!EndAnchorStyle, EndAnchorStyle,
       Promise!Apply, Apply

\* The first state is one of the abstract specification.
LEMMA PromiseInit == Init => Promise!Init
<1>1. Init => Written(text) = <<>> /\ open = FALSE
  BY DEF Init, NewText, Written
<1>2. QED
  BY <1>1, SameStyles DEF Promise!Init

\* Each step is one of the abstract specification, or none of it.
LEMMA PromiseStep == Orderly /\ [OrderlyNext]_vars => [Promise!Next]_(Promise!vars)
<1> SUFFICES ASSUME Orderly, [OrderlyNext]_vars
             PROVE  [Promise!Next]_(Promise!vars)
  OBVIOUS
<1>1. ASSUME NEW f \in Font, Begin(SheetStyle(f))
      PROVE  Promise!Next
  <2>1. /\ open' = TRUE
        /\ Written(text') = <<>>
        /\ LastAttributes(text') = Apply(SheetStyle(f), Bare)
    BY <1>1, BeginOrderly DEF Orderly
  <2>2. ~open
    BY <1>1 DEF Begin
  <2>3. Promise!Begin(Promise!SheetStyle(f))
    BY <2>1, <2>2, SameStyles DEF Promise!Begin
  <2>4. QED
    BY <2>3 DEF Promise!Next
<1>2. ASSUME NEW c \in Char, Put(c)
      PROVE  Promise!Next
  <2>1. /\ open /\ open'
        /\ Written(text') = Append(Written(text), [ch |-> c, at |-> LastAttributes(text)])
        /\ LastAttributes(text') = LastAttributes(text)
        /\ open \in BOOLEAN /\ open' \in BOOLEAN
    BY <1>2, PutOrderly DEF Orderly
  <2>2. Promise!Put(c)
    BY <2>1 DEF Promise!Put
  <2>3. QED
    BY <2>2 DEF Promise!Next
<1>3. ASSUME NEW style \in HTStyle, Set(style)
      PROVE  Promise!Next
  <2>1. /\ open /\ open'
        /\ Written(text') = Written(text)
        /\ LastAttributes(text') = Apply(style, LastAttributes(text))
        /\ open \in BOOLEAN /\ open' \in BOOLEAN
    BY <1>3, SetOrderly DEF Orderly
  <2>2. Promise!SetStyle(style)
    BY <2>1, SameStyles DEF Promise!SetStyle
  <2>3. QED
    BY <2>2, SameStyles DEF Promise!Next
<1>4. ASSUME End
      PROVE  Promise!Next
  <2>1. open /\ open' = FALSE /\ Written(text') = Written(text)
    BY <1>4, EndOrderly
  <2>2. Promise!End
    BY <2>1, SameStyles DEF Promise!End
  <2>3. QED
    BY <2>2 DEF Promise!Next
<1>5. CASE UNCHANGED vars
  <2>1. UNCHANGED Promise!vars
    BY <1>5 DEF vars, Promise!vars, Written, LastAttributes
  <2>2. QED
    BY <2>1
<1>6. QED
  BY <1>1, <1>2, <1>3, <1>4, <1>5 DEF OrderlyNext

\* Texts begun in a style and finished are what was written, each character in
\* the styles set before it: the dummy characters are never seen.
THEOREM StylesAlwaysHold == OrderlySpec => StylesHold
<1>1. Init => Promise!Init
  BY PromiseInit
<1>2. Orderly /\ [OrderlyNext]_vars => [Promise!Next]_(Promise!vars)
  BY PromiseStep
<1>3. QED
  BY <1>1, <1>2, OrderlyReaders, PTL DEF OrderlySpec, StylesHold, Promise!Spec

-----------------------------------------------------------------------------
(* No style leaves its dummy in the text: DummyIsLast for all readers.     *)

NoDummyIn(s) == \A i \in 1 .. Len(s) : s[i].ch # Dummy

DummyLast(t) == \A i \in 1 .. Len(t.storage) :
                  t.storage[i].ch = Dummy => i = Len(t.storage)

\* The dummy at the end is the one the flag says is there.
Flagged(t) == DummyLast(t) /\ (~t.endsWithDummyCharacter => NoDummyIn(t.storage))

Marked ==
  /\ TypeOK
  /\ DummyLast(text)
  /\ open => Flagged(text)

\* Without the dummy there is none.
LEMMA WrittenHasNoDummy ==
  ASSUME NEW t \in Text, Flagged(t), ~NoDummyToRemove(t)
  PROVE  Written(t) \in Seq(Cell) /\ NoDummyIn(Written(t))
<1>1. t.storage \in Seq(Cell) /\ t.endsWithDummyCharacter \in BOOLEAN
  BY DEF Text
<1>2. CASE ~t.endsWithDummyCharacter
  BY <1>1, <1>2 DEF Written, Flagged
<1>3. CASE t.endsWithDummyCharacter
  <2>1. t.storage # <<>>
    BY <1>3 DEF NoDummyToRemove
  <2> DEFINE s == t.storage
  <2>2. Len(s) \in Nat \ {0}
    BY <1>1, <2>1
  <2>3. Front(s) = [i \in 1 .. (Len(s) - 1) |-> s[i]]
    BY <1>1, <2>2 DEF Front
  <2>4. Len(Front(s)) = Len(s) - 1
    BY <1>1, <2>2, <2>3 DEF Front
  <2>5. \A i \in 1 .. (Len(s) - 1) : s[i].ch # Dummy
    BY <2>2 DEF Flagged, DummyLast
  <2> HIDE DEF s
  <2>6. NoDummyIn(Front(s))
    BY <2>3, <2>4, <2>5 DEF NoDummyIn
  <2>7. Front(s) \in Seq(Cell)
    BY <1>1, <2>1, FrontOfSeq DEF s
  <2>8. QED
    BY <1>3, <2>6, <2>7 DEF Written, s
<1>4. QED
  BY <1>1, <1>2, <1>3

\* Only what is appended can be a dummy, and it is the last.
LEMMA AppendedIsLast ==
  ASSUME NEW s \in Seq(Cell), NoDummyIn(s), NEW cell \in Cell
  PROVE  /\ Append(s, cell) \in Seq(Cell)
         /\ \A i \in 1 .. Len(Append(s, cell)) :
              Append(s, cell)[i].ch = Dummy => i = Len(Append(s, cell))
         /\ cell.ch # Dummy => NoDummyIn(Append(s, cell))
<1>1. /\ Append(s, cell) \in Seq(Cell)
      /\ Len(Append(s, cell)) = Len(s) + 1
      /\ Append(s, cell)[Len(s) + 1] = cell
      /\ \A i \in 1 .. Len(s) : Append(s, cell)[i] = s[i]
      /\ Len(s) \in Nat
  OBVIOUS
<1>2. \A i \in 1 .. (Len(s) + 1) : i \in 1 .. Len(s) \/ i = Len(s) + 1
  BY <1>1
<1>3. QED
  BY <1>1, <1>2 DEF NoDummyIn

\* output_string leaves a dummy only at the end, and then flagged.
LEMMA OutputCharMarks ==
  ASSUME NEW t \in Text, Flagged(t), NEW c \in Char
  PROVE  LET u == OutputChar(t, c)
         IN  u \in Text /\ DummyLast(u) /\ (~u.raised => Flagged(u))
<1> DEFINE cell == [ch |-> c, at |-> LastAttributes(t)]
           u    == OutputChar(t, c)
           s    == Written(t)
<1>1. cell \in Cell /\ cell.ch # Dummy
  BY LastOfText, DummyAssumption DEF Cell
<1>2. CASE t.raised
  BY <1>2 DEF OutputChar, Flagged
<1>3. CASE ~t.raised /\ NoDummyToRemove(t)
  <2>1. u = [t EXCEPT !.storage = <<cell>>, !.raised = TRUE]
    BY <1>3 DEF OutputChar
  <2>2. <<cell>> \in Seq(Cell) /\ Len(<<cell>>) = 1
    BY <1>1
  <2> HIDE DEF u, cell
  <2>3. u \in Text /\ u.storage = <<cell>> /\ u.raised
    BY <2>1, <2>2 DEF Text
  <2>4. DummyLast(u)
    BY <2>2, <2>3 DEF DummyLast
  <2>5. QED
    BY <2>3, <2>4 DEF u, cell
<1>4. CASE ~t.raised /\ ~NoDummyToRemove(t)
  <2>1. u = [t EXCEPT !.storage = Append(s, cell), !.endsWithDummyCharacter = FALSE]
    BY <1>4 DEF OutputChar
  <2>2. s \in Seq(Cell) /\ NoDummyIn(s)
    BY <1>4, WrittenHasNoDummy
  <2> HIDE DEF u, s, cell
  <2>3. /\ Append(s, cell) \in Seq(Cell)
        /\ \A i \in 1 .. Len(Append(s, cell)) :
             Append(s, cell)[i].ch = Dummy => i = Len(Append(s, cell))
        /\ NoDummyIn(Append(s, cell))
    BY <1>1, <2>2, AppendedIsLast
  <2>4. u \in Text /\ u.storage = Append(s, cell)
    BY <2>1, <2>3 DEF Text
  <2>5. DummyLast(u) /\ Flagged(u)
    BY <2>3, <2>4 DEF DummyLast, Flagged
  <2>6. QED
    BY <2>4, <2>5 DEF u
<1>5. QED
  BY <1>2, <1>3, <1>4

\* set_style removes the dummy it finds and flags the one it leaves.
LEMMA SetStyleMarks ==
  ASSUME NEW t \in Text, Flagged(t), NEW style \in HTStyle
  PROVE  LET u == SetStyle(t, style)
         IN  u \in Text /\ Flagged(u)
<1> DEFINE at    == LastAttributes(t)
           dummy == [ch |-> Dummy, at |-> Apply(style, at)]
           u     == SetStyle(t, style)
           s     == Written(t)
<1>1. dummy \in Cell
  BY LastOfText, ApplyType DEF Cell
<1>2. CASE t.raised \/ ~WillChange(style, at)
  BY <1>2 DEF SetStyle
<1>3. CASE ~t.raised /\ WillChange(style, at) /\ NoDummyToRemove(t)
  <2>1. u = [t EXCEPT !.raised = TRUE]
    BY <1>3 DEF SetStyle
  <2> HIDE DEF u
  <2>2. /\ u \in Text
        /\ u.storage = t.storage
        /\ u.endsWithDummyCharacter = t.endsWithDummyCharacter
    BY <2>1 DEF Text
  <2>3. Flagged(u)
    BY <2>2 DEF Flagged, DummyLast
  <2>4. QED
    BY <2>2, <2>3 DEF u
<1>4. CASE ~t.raised /\ WillChange(style, at) /\ ~NoDummyToRemove(t)
  <2>1. u = [t EXCEPT !.storage = Append(s, dummy), !.endsWithDummyCharacter = TRUE]
    BY <1>4 DEF SetStyle
  <2>2. s \in Seq(Cell) /\ NoDummyIn(s)
    BY <1>4, WrittenHasNoDummy
  <2> HIDE DEF u, s, dummy
  <2>3. /\ Append(s, dummy) \in Seq(Cell)
        /\ \A i \in 1 .. Len(Append(s, dummy)) :
             Append(s, dummy)[i].ch = Dummy => i = Len(Append(s, dummy))
    BY <1>1, <2>2, AppendedIsLast
  <2>4. u \in Text /\ u.storage = Append(s, dummy) /\ u.endsWithDummyCharacter
    BY <2>1, <2>3 DEF Text
  <2>5. Flagged(u)
    BY <2>3, <2>4 DEF DummyLast, Flagged
  <2>6. QED
    BY <2>4, <2>5 DEF u
<1>5. QED
  BY <1>2, <1>3, <1>4

\* finish_output leaves no dummy, unless an exception did.
LEMMA FinishOutputMarks ==
  ASSUME NEW t \in Text, Flagged(t)
  PROVE  FinishOutput(t) \in Text /\ DummyLast(FinishOutput(t))
<1> DEFINE u == FinishOutput(t)
           s == Written(t)
<1>1. CASE t.raised
  BY <1>1 DEF FinishOutput, Flagged
<1>2. CASE ~t.raised /\ NoDummyToRemove(t)
  <2>1. u = [t EXCEPT !.raised = TRUE]
    BY <1>2 DEF FinishOutput
  <2> HIDE DEF u
  <2>2. u \in Text /\ u.storage = t.storage
    BY <2>1 DEF Text
  <2>3. QED
    BY <2>2 DEF Flagged, DummyLast, u
<1>3. CASE ~t.raised /\ ~NoDummyToRemove(t)
  <2>1. u = [t EXCEPT !.storage = s, !.endsWithDummyCharacter = FALSE]
    BY <1>3 DEF FinishOutput
  <2>2. s \in Seq(Cell) /\ NoDummyIn(s)
    BY <1>3, WrittenHasNoDummy
  <2> HIDE DEF u, s
  <2>3. u \in Text /\ u.storage = s
    BY <2>1, <2>2 DEF Text
  <2>4. QED
    BY <2>2, <2>3 DEF NoDummyIn, DummyLast, u
<1>4. QED
  BY <1>1, <1>2, <1>3

\* Where a text begins there is nothing in it.
LEMMA AppendBeginMarks ==
  ASSUME NEW t \in Text
  PROVE  AppendBegin(t) \in Text /\ Flagged(AppendBegin(t))
<1> DEFINE u == AppendBegin(t)
<1>1. <<>> \in Seq(Cell)
  OBVIOUS
<1>2. u = [t EXCEPT !.storage = <<>>, !.raised = FALSE]
  BY DEF AppendBegin
<1> HIDE DEF u
<1>3. u \in Text /\ u.storage = <<>>
  BY <1>1, <1>2 DEF Text
<1>4. Flagged(u)
  BY <1>3 DEF Flagged, DummyLast, NoDummyIn
<1>5. QED
  BY <1>3, <1>4 DEF u

\* There is no dummy at first.
LEMMA MarkedInit == Init => Marked
<1> SUFFICES ASSUME Init
             PROVE  Marked
  OBVIOUS
<1>1. text = NewText /\ open = FALSE
  BY DEF Init
<1>2. NewText \in Text /\ NewText.storage = <<>>
  BY DEF NewText, Text
<1>3. DummyLast(text)
  BY <1>1, <1>2 DEF DummyLast
<1>4. TypeOK /\ ~open
  BY <1>1, <1>2 DEF TypeOK
<1>5. QED
  BY <1>3, <1>4 DEF Marked

\* Every step of any readers keeps this.
LEMMA MarkedStep == Marked /\ [Next]_vars => Marked'
<1> SUFFICES ASSUME Marked, [Next]_vars
             PROVE  Marked'
  OBVIOUS
<1>1. text \in Text /\ open \in BOOLEAN /\ DummyLast(text) /\ (open => Flagged(text))
  BY DEF Marked, TypeOK
<1>2. ASSUME NEW f \in Font, Begin(SheetStyle(f))
      PROVE  Marked'
  <2>1. AppendBegin(text) \in Text /\ Flagged(AppendBegin(text))
    BY <1>1, AppendBeginMarks
  <2>2. SheetStyle(f) \in HTStyle
    BY DEF HTStyle
  <2>3. text' \in Text /\ Flagged(text') /\ open' \in BOOLEAN
    BY <1>2, <2>1, <2>2, SetStyleMarks DEF Begin
  <2>4. QED
    BY <2>3 DEF Marked, TypeOK, Flagged
<1>3. ASSUME NEW c \in Char, Put(c)
      PROVE  Marked'
  <2>1. open /\ text' = OutputChar(text, c) /\ open' = ~text'.raised
    BY <1>3 DEF Put, Write
  <2>2. text' \in Text /\ DummyLast(text') /\ (~text'.raised => Flagged(text'))
    BY <1>1, <2>1, OutputCharMarks
  <2>3. QED
    BY <2>1, <2>2 DEF Marked, TypeOK
<1>4. ASSUME NEW style \in HTStyle, Set(style)
      PROVE  Marked'
  <2>1. open /\ text' = SetStyle(text, style) /\ open' \in BOOLEAN
    BY <1>4 DEF Set, Write
  <2>2. text' \in Text /\ Flagged(text')
    BY <1>1, <2>1, SetStyleMarks
  <2>3. QED
    BY <2>1, <2>2 DEF Marked, TypeOK, Flagged
<1>5. ASSUME End
      PROVE  Marked'
  <2>1. open /\ text' = FinishOutput(text) /\ open' = FALSE
    BY <1>5 DEF End
  <2>2. text' \in Text /\ DummyLast(text')
    BY <1>1, <2>1, FinishOutputMarks
  <2>3. QED
    BY <2>1, <2>2 DEF Marked, TypeOK
<1>6. ASSUME BeginBare
      PROVE  Marked'
  <2>1. text' \in Text /\ Flagged(text') /\ open' \in BOOLEAN
    BY <1>1, <1>6, AppendBeginMarks DEF BeginBare
  <2>2. QED
    BY <2>1 DEF Marked, TypeOK, Flagged
<1>7. ASSUME Leave
      PROVE  Marked'
  <2>1. open' = FALSE
    BY <1>7 DEF Leave
  <2>2. CASE UNCHANGED text
    BY <1>1, <2>1, <2>2 DEF Marked, TypeOK, DummyLast
  <2>3. ASSUME NEW c \in Char, text' = [text EXCEPT !.storage = <<[ch |-> c, at |-> Bare]>>]
        PROVE  Marked'
    <3> DEFINE cell == [ch |-> c, at |-> Bare]
    <3>1. cell \in Cell
      BY DEF Cell, Bare, Attr
    <3> HIDE DEF cell
    <3>2. <<cell>> \in Seq(Cell) /\ Len(<<cell>>) = 1
      BY <3>1
    <3>3. text' = [text EXCEPT !.storage = <<cell>>]
      BY <2>3 DEF cell
    <3>4. text' \in Text /\ text'.storage = <<cell>>
      BY <1>1, <3>2, <3>3 DEF Text
    <3>5. DummyLast(text')
      BY <3>2, <3>4 DEF DummyLast
    <3>6. TypeOK' /\ ~open'
      BY <2>1, <3>4 DEF TypeOK
    <3>7. QED
      BY <3>5, <3>6 DEF Marked
  <2>4. QED
    BY <1>7, <2>2, <2>3 DEF Leave
<1>8. CASE UNCHANGED vars
  BY <1>1, <1>8 DEF vars, Marked, TypeOK, DummyLast, Flagged, NoDummyIn
<1>9. QED
  BY <1>2, <1>3, <1>4, <1>5, <1>6, <1>7, <1>8 DEF Next, OrderlyNext

\* The text and its flag keep their types, whoever reads and however it ends.
THEOREM TextTypes == Spec => []TypeOK
<1>1. Marked => TypeOK
  BY DEF Marked
<1>2. QED
  BY <1>1, MarkedInit, MarkedStep, PTL DEF Spec

\* A dummy is only ever the last character: no style leaves its own behind in
\* the text.
THEOREM DummyStaysLast == Spec => []DummyIsLast
<1>1. Marked => DummyIsLast
  <2> SUFFICES ASSUME Marked
               PROVE  DummyIsLast
    OBVIOUS
  <2>1. text.storage \in Seq(Cell) /\ DummyLast(text)
    BY DEF Marked, TypeOK, Text
  <2>2. DOMAIN text.storage = 1 .. Len(text.storage)
    BY <2>1
  <2>3. QED
    BY <2>1, <2>2 DEF DummyLast, DummyIsLast
<1>2. QED
  BY <1>1, MarkedInit, MarkedStep, PTL DEF Spec

=============================================================================
