--------------------------- MODULE SgmlTextProofs ---------------------------
(***************************************************************************)
(* What readSGML makes of any document, whatever the elements, the fonts   *)
(* of their styles, the anchors and the lengths.                           *)
(***************************************************************************)
EXTENDS SgmlText, TextStorageProofs, FiniteSetTheorems

-----------------------------------------------------------------------------
(* The inductive invariant.                                                *)

\* The words of a text, and how many there are up to a place.
Places(s)   == {i \in DOMAIN s : s[i].ch \in Printing}
Count(s, i) == Cardinality({j \in Places(s) : j <= i})

Fits(at, m) ==
  /\ at.anchor = m.anchor
  /\ m.styled => at.font = FontOf[m.element]

\* A word meant as m may be followed at once by one meant as n.
MayTouch(m, n) ==
  n.more \/ {m.element, n.element} \cap Literal # {} \/ m.entity

\* The text s has a word for each meaning of ms, as it was meant.
Good(s, ms) ==
  /\ Cardinality(Places(s)) = Len(ms)
  /\ \A i \in Places(s) : Fits(s[i].at, ms[Count(s, i)])
  /\ \A i \in Places(s) :
       i + 1 \in Places(s) => MayTouch(ms[Count(s, i)], ms[Count(s, i + 1)])

EndsInWord(s) == s # <<>> /\ s[Len(s)].ch \in Printing

\* A parser within a document, the anchor a being open: what it writes next
\* will be in the style of current_style, and in that anchor.
Reads(p, ms, a) ==
  /\ p \in Parsers
  /\ ms \in Seq(Meanings)
  /\ Sound(p.text)
  /\ p.text.storage # <<>>
  /\ p.text.endsWithDummyCharacter =>
       p.text.storage[Len(p.text.storage)].ch = Dummy
  /\ LastAttributes(p.text) = [font |-> FontOf[p.current_style], anchor |-> a, black |-> TRUE]
  /\ Good(Written(p.text), ms)

\* A word at the end of the text will get its space, or needs none.
Parts(p, ms) ==
  EndsInWord(Written(p.text)) =>
    \/ p.output_in_word
    \/ ms[Len(ms)].entity
    \/ ms[Len(ms)].element \in Literal

Open == {"text", "word", "example"}

Reading ==
  /\ Reads(parser, meant, anchor)
  /\ Parts(parser, meant)
  /\ styled => parser.next_style = Innermost(parser.styleStack)

\* Within a word or an example the style is the one asked for.
Settled ==
  /\ state \in {"word", "example"} => parser.current_style = parser.next_style
  /\ state = "word" => meant # <<>> /\ (parser.output_in_word \/ meant[Len(meant)].entity)
  /\ state = "example" => Innermost(parser.styleStack) \in Literal

Inv ==
  /\ TypeOK
  /\ state # "crashed" => ~parser.crashed
  /\ state \in Open => Reading /\ Settled
  /\ state = "idle" => Good(Storage, meant)

-----------------------------------------------------------------------------
(* Counting words.                                                         *)

\* White space, the mark of a list, the rest of a file and a dummy are no
\* words.
LEMMA Characters ==
  /\ \A c \in {Word, Less, Space, Tab, NewLine, Bullet, Rest} : c \in Char
  /\ \A c \in {Space, Tab, NewLine, Bullet, Rest, Dummy} : c \notin Printing
<1>1. \A c \in {Word, Less, Space, Tab, NewLine, Bullet, Rest} : c \in Char
  BY SgmlAssumption
<1>2. \A c \in {Space, Tab, NewLine} : c \notin Printing
  BY SgmlAssumption
<1>3. Bullet \notin Printing /\ Rest \notin Printing
  BY DEF Bullet, Rest, Printing, Word, Less
<1>4. Dummy \notin Printing
  BY <1>1, DummyAssumption DEF Printing
<1>5. QED
  BY <1>1, <1>2, <1>3, <1>4

\* A text has finitely many words.
LEMMA FewWords ==
  ASSUME NEW s \in Seq(Cell)
  PROVE  /\ Places(s) \subseteq 1 .. Len(s) /\ Len(s) \in Nat
         /\ IsFiniteSet(Places(s)) /\ Cardinality(Places(s)) \in Nat
<1>1. Places(s) \subseteq 1 .. Len(s) /\ Len(s) \in Nat
  BY DEF Places
<1>2. IsFiniteSet(1 .. Len(s))
  BY <1>1, FS_Interval
<1>3. IsFiniteSet(Places(s))
  BY <1>1, <1>2, FS_Subset
<1>4. QED
  BY <1>1, <1>3, FS_CardinalityType

\* A word is counted, and the last place counts them all.
LEMMA CountFacts ==
  ASSUME NEW s \in Seq(Cell)
  PROVE  /\ \A i \in Places(s) : Count(s, i) \in 1 .. Cardinality(Places(s))
         /\ Count(s, Len(s)) = Cardinality(Places(s))
<1>1. ASSUME NEW i \in Places(s)
      PROVE  Count(s, i) \in 1 .. Cardinality(Places(s))
  <2> DEFINE T == {j \in Places(s) : j <= i}
  <2>1. T \in SUBSET Places(s) /\ i \in T
    BY FewWords
  <2> HIDE DEF T
  <2>2. /\ IsFiniteSet(T) /\ Cardinality(T) \in Nat
        /\ Cardinality(T) <= Cardinality(Places(s)) /\ Cardinality(Places(s)) \in Nat
    BY <2>1, FewWords, FS_Subset, FS_CardinalityType
  <2>3. Cardinality(T) # 0
    BY <2>1, <2>2, FS_EmptySet
  <2>4. Cardinality(T) \in 1 .. Cardinality(Places(s))
    BY <2>2, <2>3
  <2>5. QED
    BY <2>4 DEF Count, T
<1>2. {j \in Places(s) : j <= Len(s)} = Places(s)
  BY DEF Places
<1>3. QED
  BY <1>1, <1>2 DEF Count

\* What one more character does to the words and their number.
OneMore(s, e, r) ==
  /\ r \in Seq(Cell) /\ Len(r) = Len(s) + 1 /\ Len(s) \in Nat
  /\ r[Len(s) + 1] = e /\ \A i \in 1 .. Len(s) : r[i] = s[i]
  /\ e.ch \notin Printing => Places(r) = Places(s)
  /\ e.ch \in Printing => /\ Places(r) = Places(s) \cup {Len(s) + 1}
                          /\ Cardinality(Places(r)) = Cardinality(Places(s)) + 1
  /\ \A i \in 1 .. Len(s) : Count(r, i) = Count(s, i)

\* A text with one more character is the text and what OneMore says.
LEMMA PlacesAppend ==
  ASSUME NEW s \in Seq(Cell), NEW e \in Cell
  PROVE  OneMore(s, e, Append(s, e))
<1> DEFINE r == Append(s, e)
<1>1. /\ r \in Seq(Cell) /\ Len(r) = Len(s) + 1 /\ Len(s) \in Nat
      /\ r[Len(s) + 1] = e /\ \A i \in 1 .. Len(s) : r[i] = s[i]
  OBVIOUS
<1> HIDE DEF r
<1>2. DOMAIN r = 1 .. (Len(s) + 1) /\ DOMAIN s = 1 .. Len(s)
  BY <1>1
<1>3. e.ch \notin Printing => Places(r) = Places(s)
  BY <1>1, <1>2 DEF Places
<1>4. e.ch \in Printing => Places(r) = Places(s) \cup {Len(s) + 1}
  BY <1>1, <1>2 DEF Places
<1>5. ASSUME e.ch \in Printing
      PROVE  Cardinality(Places(r)) = Cardinality(Places(s)) + 1
  <2>1. IsFiniteSet(Places(s)) /\ Len(s) + 1 \notin Places(s)
    BY <1>1, FewWords
  <2>2. QED
    BY <1>4, <1>5, <2>1, FS_AddElement
<1>6. ASSUME NEW i \in 1 .. Len(s)
      PROVE  Count(r, i) = Count(s, i)
  <2>1. Places(s) \subseteq Nat
    BY FewWords
  <2>2. {j \in Places(r) : j <= i} = {j \in Places(s) : j <= i}
    <3>1. CASE e.ch \notin Printing
      BY <1>3, <3>1
    <3>2. CASE e.ch \in Printing
      BY <1>1, <1>4, <3>2
    <3>3. QED
      BY <3>1, <3>2
  <2>3. QED
    BY <2>2 DEF Count
<1>7. OneMore(s, e, r)
  BY <1>1, <1>3, <1>4, <1>5, <1>6 DEF OneMore
<1>8. QED
  BY <1>7 DEF r

\* A character that is not of a word leaves a text as good as it is.
LEMMA GoodOther ==
  ASSUME NEW s \in Seq(Cell), NEW e \in Cell, e.ch \notin Printing, NEW ms
  PROVE  Good(Append(s, e), ms) <=> Good(s, ms)
<1> DEFINE r == Append(s, e)
<1>0. OneMore(s, e, r)
  BY PlacesAppend
<1> HIDE DEF r
<1>1. /\ Places(r) = Places(s)
      /\ Places(s) \subseteq 1 .. Len(s) /\ Len(s) \in Nat
      /\ \A i \in 1 .. Len(s) : r[i] = s[i] /\ Count(r, i) = Count(s, i)
  BY <1>0, FewWords DEF OneMore
<1>2. /\ \A i \in Places(s) : r[i] = s[i] /\ Count(r, i) = Count(s, i)
      /\ \A i \in Places(s) : i + 1 \in Places(s) => Count(r, i + 1) = Count(s, i + 1)
  BY <1>1
<1>3. Good(r, ms) <=> Good(s, ms)
  BY <1>1, <1>2 DEF Good
<1>4. QED
  BY <1>3 DEF r

\* A word written as it is meant, if it may touch the one it touches.
LEMMA GoodWord ==
  ASSUME NEW s \in Seq(Cell), NEW e \in Cell, e.ch \in Printing,
         NEW ms \in Seq(Meanings), NEW m \in Meanings,
         Good(s, ms), Fits(e.at, m),
         EndsInWord(s) => MayTouch(ms[Len(ms)], m)
  PROVE  /\ Good(Append(s, e), Append(ms, m))
         /\ Append(ms, m) \in Seq(Meanings) /\ Append(ms, m) # <<>>
         /\ Append(ms, m)[Len(Append(ms, m))] = m
<1> DEFINE r == Append(s, e)
           k == Append(ms, m)
           n == Len(s) + 1
<1>0. OneMore(s, e, r)
  BY PlacesAppend
<1> HIDE DEF r
<1>1. /\ r \in Seq(Cell) /\ Len(r) = n /\ Len(s) \in Nat /\ r[n] = e
      /\ \A i \in 1 .. Len(s) : r[i] = s[i] /\ Count(r, i) = Count(s, i)
      /\ Places(r) = Places(s) \cup {n}
      /\ Cardinality(Places(r)) = Cardinality(Places(s)) + 1
  BY <1>0 DEF OneMore
<1>2. /\ k \in Seq(Meanings) /\ Len(k) = Len(ms) + 1 /\ Len(ms) \in Nat /\ k # <<>>
      /\ k[Len(ms) + 1] = m /\ \A i \in 1 .. Len(ms) : k[i] = ms[i]
  OBVIOUS
<1> HIDE DEF k
<1>3. Cardinality(Places(s)) = Len(ms) /\ Cardinality(Places(r)) = Len(k)
  BY <1>1, <1>2 DEF Good
<1>4. /\ Places(s) \subseteq 1 .. Len(s)
      /\ \A i \in Places(s) : Count(s, i) \in 1 .. Len(ms)
      /\ Count(s, Len(s)) = Len(ms)
  BY <1>3, FewWords, CountFacts
<1>5. Count(r, n) = Len(ms) + 1
  BY <1>1, <1>2, <1>3, CountFacts
<1>6. \A i \in Places(s) : /\ i # n /\ r[i] = s[i]
                           /\ Count(r, i) = Count(s, i) /\ k[Count(r, i)] = ms[Count(s, i)]
  BY <1>1, <1>2, <1>4
<1>7. r[n] = e /\ k[Count(r, n)] = m
  BY <1>1, <1>2, <1>5
<1>8. \A i \in Places(r) : Fits(r[i].at, k[Count(r, i)])
  BY <1>1, <1>6, <1>7 DEF Good
<1>9. ASSUME NEW i \in Places(r), i + 1 \in Places(r)
      PROVE  MayTouch(k[Count(r, i)], k[Count(r, i + 1)])
  <2>1. i \in Places(s)
    BY <1>1, <1>4, <1>9
  <2>2. CASE i + 1 \in Places(s)
    BY <1>6, <2>1, <2>2 DEF Good
  <2>3. CASE i + 1 = n
    <3>1. i = Len(s)
      BY <1>1, <1>4, <2>1, <2>3
    <3>2. EndsInWord(s)
      BY <1>1, <1>4, <2>1, <3>1 DEF EndsInWord, Places
    <3>3. k[Count(r, i)] = ms[Len(ms)]
      BY <1>4, <1>6, <2>1, <3>1
    <3>4. QED
      BY <1>7, <2>3, <3>2, <3>3
  <2>4. QED
    BY <1>1, <1>9, <2>2, <2>3
<1>10. Good(r, k)
  BY <1>3, <1>8, <1>9 DEF Good
<1>11. QED
  BY <1>2, <1>10 DEF r, k

\* A text in which nothing is written has no words.
LEMMA GoodEmpty ==
  /\ Good(<<>>, <<>>) /\ ~EndsInWord(<<>>)
  /\ \A e \in Cell : e.ch \notin Printing => Good(<<e>>, <<>>)
<1>1. Places(<<>>) = {}
  BY DEF Places
<1>2. Good(<<>>, <<>>)
  BY <1>1, FS_EmptySet DEF Good
<1>3. ASSUME NEW e \in Cell, e.ch \notin Printing
      PROVE  Good(<<e>>, <<>>)
  <2>1. <<>> \in Seq(Cell) /\ Append(<<>>, e) = <<e>>
    OBVIOUS
  <2>2. QED
    BY <1>2, <1>3, <2>1, GoodOther
<1>4. QED
  BY <1>2, <1>3 DEF EndsInWord

-----------------------------------------------------------------------------
(* The output macros.                                                      *)

\* Only the text of the parser is another.
OnlyText(p, q) ==
  /\ q \in Parsers
  /\ q.current_style = p.current_style /\ q.next_style = p.next_style
  /\ q.styleStack = p.styleStack /\ q.output_in_word = p.output_in_word
  /\ q.crashed = p.crashed

\* The constants are what the types say.
LEMMA Elements ==
  /\ None \notin Element /\ \A e \in Element : FontOf[e] \in Font /\ FontOf[e] # None
  /\ Normal \in Element /\ Preformatted \in Element /\ List \in Element
  /\ Example \in Element /\ Literal \subseteq Element /\ Heading \subseteq Element
BY SgmlAssumption, TextAssumption

\* A parser whose text and style are those of one that reads, reads too.
LEMMA ReadsFrame ==
  ASSUME NEW p, NEW ms, NEW a, Reads(p, ms, a),
         NEW q \in Parsers, q.text = p.text, q.current_style = p.current_style
  PROVE  Reads(q, ms, a)
BY DEF Reads

\* A parser with another text is a parser.
LEMMA WithText ==
  ASSUME NEW p \in Parsers, NEW t \in Text
  PROVE  LET q == [p EXCEPT !.text = t] IN OnlyText(p, q) /\ q.text = t
BY DEF Parsers, OnlyText

\* A character written has the attributes that were the last, and they stay.
LEMMA OutputBasics ==
  ASSUME NEW p, NEW ms, NEW a, Reads(p, ms, a), NEW c \in Char
  PROVE  LET q == OUTPUT(p, c)
             w == Written(p.text)
             e == [ch |-> c, at |-> LastAttributes(p.text)]
         IN  /\ OnlyText(p, q) /\ Sound(q.text) /\ q.text.storage # <<>>
             /\ ~q.text.endsWithDummyCharacter
             /\ LastAttributes(q.text) = LastAttributes(p.text)
             /\ w \in Seq(Cell) /\ e \in Cell /\ Written(q.text) = Append(w, e)
<1> DEFINE t == OutputChar(p.text, c)
           at == LastAttributes(p.text)
           e == [ch |-> c, at |-> at]
<1>1. p \in Parsers /\ Sound(p.text) /\ p.text \in Text
  BY DEF Reads, Sound
<1>2. at \in Attr /\ Written(p.text) \in Seq(Cell)
  BY <1>1, LastOfText DEF Sound
<1>3. e \in Cell
  BY <1>2 DEF Cell
<1>4. /\ Sound(t) /\ t.storage # <<>> /\ Written(t) = Append(Written(p.text), e)
      /\ LastAttributes(t) = at /\ ~t.endsWithDummyCharacter
  BY <1>1, OutputCharWrites
<1>5. t \in Text
  BY <1>4 DEF Sound
<1> HIDE DEF t
<1> DEFINE q == [p EXCEPT !.text = t]
<1>6. OnlyText(p, q) /\ q.text = t
  BY <1>1, <1>5, WithText
<1> HIDE DEF q, e, at
<1>7. /\ OnlyText(p, q) /\ Sound(q.text) /\ q.text.storage # <<>>
      /\ ~q.text.endsWithDummyCharacter
      /\ LastAttributes(q.text) = at
      /\ Written(p.text) \in Seq(Cell) /\ e \in Cell
      /\ Written(q.text) = Append(Written(p.text), e)
  BY <1>2, <1>3, <1>4, <1>6
<1>8. OUTPUT(p, c) = q
  BY DEF OUTPUT, q, t
<1>9. QED
  BY <1>7, <1>8 DEF e, at

\* White space and marks leave the words as they are, and end the one before.
LEMMA OutputOther ==
  ASSUME NEW p, NEW ms, NEW a, Reads(p, ms, a), NEW c \in Char, c \notin Printing
  PROVE  LET q == OUTPUT(p, c)
         IN OnlyText(p, q) /\ Reads(q, ms, a) /\ ~EndsInWord(Written(q.text))
<1> DEFINE q == OUTPUT(p, c)
           w == Written(p.text)
           e == [ch |-> c, at |-> LastAttributes(p.text)]
<1>1. /\ OnlyText(p, q) /\ Sound(q.text) /\ q.text.storage # <<>>
      /\ ~q.text.endsWithDummyCharacter
      /\ LastAttributes(q.text) = LastAttributes(p.text)
      /\ w \in Seq(Cell) /\ e \in Cell /\ Written(q.text) = Append(w, e)
  BY OutputBasics
<1>2. e.ch \notin Printing
  OBVIOUS
<1> HIDE DEF q, w, e
<1>3. Good(w, ms)
  BY DEF Reads, w
<1>4. Good(Written(q.text), ms)
  BY <1>1, <1>2, <1>3, GoodOther
<1>5. Append(w, e)[Len(Append(w, e))] = e
  BY <1>1, FrontOfAppend
<1>6. ~EndsInWord(Written(q.text))
  BY <1>1, <1>2, <1>5 DEF EndsInWord
<1>7. Reads(q, ms, a)
  BY <1>1, <1>4 DEF Reads, OnlyText
<1>8. QED
  BY <1>1, <1>6, <1>7 DEF q

\* A character of a word is one word more, as it is meant.
LEMMA OutputWord ==
  ASSUME NEW p, NEW ms, NEW a, Reads(p, ms, a), NEW c \in Char, c \in Printing,
         NEW m \in Meanings, m.anchor = a, m.styled => p.current_style = m.element,
         EndsInWord(Written(p.text)) => MayTouch(ms[Len(ms)], m)
  PROVE  LET q == OUTPUT(p, c)
             k == Append(ms, m)
         IN  OnlyText(p, q) /\ Reads(q, k, a) /\ k # <<>> /\ k[Len(k)] = m
<1> DEFINE q == OUTPUT(p, c)
           k == Append(ms, m)
           w == Written(p.text)
           at == LastAttributes(p.text)
           e == [ch |-> c, at |-> at]
<1>1. /\ OnlyText(p, q) /\ Sound(q.text) /\ q.text.storage # <<>>
      /\ ~q.text.endsWithDummyCharacter
      /\ LastAttributes(q.text) = at
      /\ w \in Seq(Cell) /\ e \in Cell /\ Written(q.text) = Append(w, e)
  BY OutputBasics
<1>2. at = [font |-> FontOf[p.current_style], anchor |-> a, black |-> TRUE]
  BY DEF Reads
<1>3. Fits(at, m)
  BY <1>2 DEF Fits
<1>4. e.ch \in Printing /\ Fits(e.at, m)
  BY <1>3
<1>5. ms \in Seq(Meanings) /\ Good(w, ms) /\ (EndsInWord(w) => MayTouch(ms[Len(ms)], m))
  BY DEF Reads
<1> HIDE DEF q, w, e, at
<1>6. Good(Append(w, e), k) /\ k \in Seq(Meanings) /\ k # <<>> /\ k[Len(k)] = m
  BY <1>1, <1>4, <1>5, GoodWord
<1> HIDE DEF k
<1>7. Reads(q, k, a)
  BY <1>1, <1>2, <1>6 DEF Reads, OnlyText
<1>8. QED
  BY <1>1, <1>6, <1>7 DEF q, k

\* A style set: nothing that was written changes, and what comes is in the
\* style and the anchor that it makes.
LEMMA StyleReads ==
  ASSUME NEW p, NEW ms, NEW a, Reads(p, ms, a),
         NEW style \in HTStyle, NEW e \in Element, NEW b,
         Apply(style, LastAttributes(p.text)) =
           [font |-> FontOf[e], anchor |-> b, black |-> TRUE],
         NEW q \in Parsers, q.text = SetStyle(p.text, style), q.current_style = e
  PROVE  Reads(q, ms, b) /\ Written(q.text) = Written(p.text)
<1> DEFINE t == SetStyle(p.text, style)
<1>1. /\ Sound(p.text) /\ p.text.storage # <<>> /\ p \in Parsers
      /\ p.text.endsWithDummyCharacter =>
           p.text.storage[Len(p.text.storage)].ch = Dummy
      /\ LastAttributes(p.text) = [font |-> FontOf[p.current_style], anchor |-> a, black |-> TRUE]
      /\ Good(Written(p.text), ms) /\ ms \in Seq(Meanings)
  BY DEF Reads
<1>2. LastAttributes(p.text).font # None /\ LastAttributes(p.text).black
  BY <1>1, Elements DEF Parsers
<1>3. /\ Sound(t) /\ Written(t) = Written(p.text)
      /\ LastAttributes(t) = Apply(style, LastAttributes(p.text))
      /\ t.storage = <<>> => p.text.storage = <<>>
      /\ t = p.text \/ t.storage[Len(t.storage)].ch = Dummy
  BY <1>1, <1>2, SetStyleHolds
<1> HIDE DEF t
<1>4. q.text = t
  BY DEF t
<1>5. t.endsWithDummyCharacter => t.storage[Len(t.storage)].ch = Dummy
  BY <1>1, <1>3
<1>6. LastAttributes(t) = [font |-> FontOf[e], anchor |-> b, black |-> TRUE]
  BY <1>3
<1>7. QED
  BY <1>1, <1>3, <1>4, <1>5, <1>6 DEF Reads

\* A style of the sheet keeps the anchor.
LEMMA SheetMakes ==
  ASSUME NEW e \in Element, NEW at
  PROVE  /\ SheetStyle(FontOf[e]) \in HTStyle
         /\ Apply(SheetStyle(FontOf[e]), at) =
              [font |-> FontOf[e], anchor |-> at.anchor, black |-> TRUE]
<1>1. FontOf[e] \in Font /\ FontOf[e] # None
  BY Elements
<1>2. SheetStyle(FontOf[e]) \in HTStyle
  BY <1>1 DEF HTStyle
<1>3. QED
  BY <1>1, <1>2 DEF Apply, SheetStyle

\* An anchor keeps the style, and so does its end.
LEMMA AnchorMakes ==
  ASSUME NEW at
  PROVE  /\ EndAnchorStyle \in HTStyle
         /\ Apply(EndAnchorStyle, at) =
              [font |-> at.font, anchor |-> None, black |-> TRUE]
         /\ \A b \in Anchors :
              /\ AnchorStyle(b) \in HTStyle
              /\ Apply(AnchorStyle(b), at) =
                   [font |-> at.font, anchor |-> b, black |-> TRUE]
<1>1. /\ EndAnchorStyle \in HTStyle
      /\ Apply(EndAnchorStyle, at) =
           [font |-> at.font, anchor |-> None, black |-> TRUE]
  BY DEF HTStyle, Apply, EndAnchorStyle
<1>2. ASSUME NEW b \in Anchors
      PROVE  /\ AnchorStyle(b) \in HTStyle
             /\ Apply(AnchorStyle(b), at) =
                  [font |-> at.font, anchor |-> b, black |-> TRUE]
  <2>1. b # None
    BY TextAssumption
  <2>2. QED
    BY <2>1 DEF HTStyle, Apply, AnchorStyle
<1>3. QED
  BY <1>1, <1>2

\* What is written before the first item of a list is no word.
LEMMA MarkedReads ==
  ASSUME NEW p, NEW ms, NEW a, Reads(p, ms, a), Parts(p, ms), NEW e
  PROVE  LET q == Marked(p, e)
         IN OnlyText(p, q) /\ Reads(q, ms, a) /\ Parts(q, ms)
<1>1. CASE e = List
  <2>1. Marked(p, e) = OUTPUT(p, Bullet)
    BY <1>1 DEF Marked
  <2>2. Bullet \in Char /\ Bullet \notin Printing
    BY Characters
  <2> DEFINE q == OUTPUT(p, Bullet)
  <2>3. OnlyText(p, q) /\ Reads(q, ms, a) /\ ~EndsInWord(Written(q.text))
    BY <2>2, OutputOther
  <2> HIDE DEF q
  <2>4. Parts(q, ms)
    BY <2>3 DEF Parts
  <2>5. QED
    BY <2>1, <2>3, <2>4 DEF q
<1>2. CASE e # List
  <2>1. Marked(p, e) = p
    BY <1>2 DEF Marked
  <2>2. QED
    BY <2>1 DEF OnlyText, Reads
<1>3. QED
  BY <1>1, <1>2

\* A new line on which no word has begun.
LEMMA NewLineReads ==
  ASSUME NEW p, NEW ms, NEW a, Reads(p, ms, a), NEW b \in BOOLEAN
  PROVE  LET q == [OUTPUT(p, NewLine) EXCEPT !.output_in_word = b]
         IN  /\ Reads(q, ms, a) /\ Parts(q, ms)
             /\ q.current_style = p.current_style /\ q.next_style = p.next_style
             /\ q.styleStack = p.styleStack /\ q.crashed = p.crashed
<1> DEFINE o == OUTPUT(p, NewLine)
<1>1. NewLine \in Char /\ NewLine \notin Printing
  BY Characters
<1>2. OnlyText(p, o) /\ Reads(o, ms, a) /\ ~EndsInWord(Written(o.text))
  BY <1>1, OutputOther
<1> HIDE DEF o
<1> DEFINE q == [o EXCEPT !.output_in_word = b]
<1>3. /\ q \in Parsers /\ q.text = o.text /\ q.current_style = o.current_style
      /\ q.next_style = o.next_style /\ q.styleStack = o.styleStack
      /\ q.crashed = o.crashed
  BY <1>2 DEF OnlyText, Parsers
<1> HIDE DEF q
<1>4. Reads(q, ms, a)
  BY <1>2, <1>3, ReadsFrame
<1>5. Parts(q, ms)
  BY <1>2, <1>3 DEF Parts
<1>6. QED
  BY <1>2, <1>3, <1>4, <1>5 DEF q, o, OnlyText

\* Into the next style: what is meant stays, and the style is that one.
Updated(p, q, ms, a) ==
  /\ q \in Parsers
  /\ q.next_style = p.next_style /\ q.styleStack = p.styleStack
  /\ p.next_style = None => q.crashed
  /\ p.next_style # None => /\ ~q.crashed
                            /\ Reads(q, ms, a) /\ Parts(q, ms)
                            /\ q.current_style = q.next_style

\* UPDATE_STYLE without its test: the new line, the style, the mark of a list.
LEMMA UpdateStyleReads ==
  ASSUME NEW p, NEW ms, NEW a, Reads(p, ms, a), Parts(p, ms), ~p.crashed
  PROVE  Updated(p, UpdateStyle(p), ms, a)
<1> DEFINE broken == IF p.current_style \in FreeFormat
                       THEN [OUTPUT(p, NewLine) EXCEPT !.output_in_word = FALSE]
                       ELSE p
           e      == p.next_style
           style  == SheetStyle(FontOf[e])
           set    == SET_STYLE(broken, style)
           q      == [set EXCEPT !.current_style = e]
<1>1. p \in Parsers /\ e \in Element \cup {None}
  BY DEF Reads, Parsers
<1>2. CASE e = None
  <2>1. UpdateStyle(p) = [p EXCEPT !.crashed = TRUE]
    BY <1>2 DEF UpdateStyle
  <2>2. QED
    BY <1>1, <1>2, <2>1 DEF Updated, Parsers
<1>3. CASE e # None
  <2>1. UpdateStyle(p) = Marked(q, e) /\ e \in Element
    BY <1>1, <1>3 DEF UpdateStyle
  <2>2. /\ Reads(broken, ms, a) /\ Parts(broken, ms)
        /\ broken.current_style = p.current_style /\ broken.next_style = e
        /\ broken.styleStack = p.styleStack /\ ~broken.crashed
    <3>1. CASE p.current_style \in FreeFormat
      <4> DEFINE l == [OUTPUT(p, NewLine) EXCEPT !.output_in_word = FALSE]
      <4>1. broken = l
        BY <3>1
      <4>2. /\ Reads(l, ms, a) /\ Parts(l, ms)
            /\ l.current_style = p.current_style /\ l.next_style = p.next_style
            /\ l.styleStack = p.styleStack /\ l.crashed = p.crashed
        BY NewLineReads
      <4> HIDE DEF l, broken
      <4>3. QED
        BY <4>1, <4>2
    <3>2. CASE p.current_style \notin FreeFormat
      BY <3>2
    <3>3. QED
      BY <3>1, <3>2
  <2> HIDE DEF broken
  <2>3. /\ broken \in Parsers /\ Sound(broken.text) /\ broken.current_style \in Element
        /\ LastAttributes(broken.text) =
             [font |-> FontOf[broken.current_style], anchor |-> a, black |-> TRUE]
    BY <2>2 DEF Reads, Parsers
  <2>4. /\ style \in HTStyle
        /\ Apply(style, LastAttributes(broken.text)) =
             [font |-> FontOf[e], anchor |-> a, black |-> TRUE]
    <3> DEFINE at == LastAttributes(broken.text)
    <3>1. at.anchor = a
      BY <2>3
    <3> HIDE DEF at
    <3>2. /\ style \in HTStyle
          /\ Apply(style, at) = [font |-> FontOf[e], anchor |-> at.anchor, black |-> TRUE]
      BY <2>1, SheetMakes
    <3>3. QED
      BY <3>1, <3>2 DEF at
  <2> DEFINE t == SetStyle(broken.text, style)
  <2>5. t \in Text
    <3>1. LastAttributes(broken.text).font # None /\ LastAttributes(broken.text).black
      BY <2>3, Elements
    <3>2. Sound(t)
      BY <2>3, <2>4, <3>1, SetStyleHolds
    <3>3. QED
      BY <3>2 DEF Sound
  <2>6. set = [broken EXCEPT !.text = t]
    BY DEF SET_STYLE
  <2> HIDE DEF t, style, set
  <2>7. OnlyText(broken, set) /\ set.text = t
    BY <2>3, <2>5, <2>6, WithText
  <2>8. /\ q \in Parsers /\ q.text = t /\ q.current_style = e
        /\ q.next_style = e /\ q.styleStack = p.styleStack
        /\ q.output_in_word = broken.output_in_word /\ ~q.crashed
    BY <2>1, <2>2, <2>7 DEF OnlyText, Parsers
  <2> HIDE DEF q
  <2>9. Reads(q, ms, a) /\ Written(q.text) = Written(broken.text)
    <3>1. q.text = SetStyle(broken.text, style)
      BY <2>8 DEF t
    <3>2. QED
      BY <2>1, <2>2, <2>4, <2>8, <3>1, StyleReads
  <2>10. Parts(q, ms)
    BY <2>2, <2>8, <2>9 DEF Parts
  <2> DEFINE m == Marked(q, e)
  <2>11. OnlyText(q, m) /\ Reads(m, ms, a) /\ Parts(m, ms)
    BY <2>9, <2>10, MarkedReads
  <2> HIDE DEF m
  <2>12. Updated(p, m, ms, a)
    BY <1>3, <2>8, <2>11 DEF Updated, OnlyText
  <2>13. QED
    BY <2>1, <2>12 DEF m
<1>4. QED
  BY <1>2, <1>3

\* The macro, which does nothing if the style is in force.
LEMMA MacroReads ==
  ASSUME NEW p, NEW ms, NEW a, Reads(p, ms, a), Parts(p, ms), ~p.crashed
  PROVE  Updated(p, UPDATE_STYLE(p), ms, a)
<1>1. CASE p.current_style = p.next_style
  <2>1. UPDATE_STYLE(p) = p
    BY <1>1 DEF UPDATE_STYLE
  <2>2. p.next_style # None
    BY <1>1, Elements DEF Reads, Parsers
  <2>3. QED
    BY <1>1, <2>1, <2>2 DEF Updated, Reads
<1>2. CASE p.current_style # p.next_style
  <2>1. UPDATE_STYLE(p) = UpdateStyle(p)
    BY <1>2 DEF UPDATE_STYLE
  <2>2. QED
    BY <2>1, UpdateStyleReads
<1>3. QED
  BY <1>1, <1>2

\* The dummy at the end of a text is no word.
LEMMA StorageGood ==
  ASSUME NEW p, NEW ms, NEW a, Reads(p, ms, a)
  PROVE  Good(p.text.storage, ms)
<1> DEFINE s == p.text.storage
<1>1. s \in Seq(Cell) /\ s # <<>> /\ Good(Written(p.text), ms)
  BY DEF Reads, Sound, Text
<1>2. CASE ~p.text.endsWithDummyCharacter
  BY <1>1, <1>2 DEF Written
<1>3. CASE p.text.endsWithDummyCharacter
  <2>1. Written(p.text) = Front(s)
    BY <1>3 DEF Written
  <2> DEFINE e == s[Len(s)]
             f == Front(s)
  <2>2. e.ch \notin Printing
    BY <1>3, Characters DEF Reads
  <2>3. e \in Cell /\ f \in Seq(Cell)
    BY <1>1, FrontOfSeq
  <2>4. s = Append(f, e)
    BY <1>1, Rebuilt
  <2> HIDE DEF e, f
  <2>5. Good(f, ms)
    BY <1>1, <2>1 DEF f
  <2>6. Good(Append(f, e), ms)
    BY <2>2, <2>3, <2>5, GoodOther
  <2>7. QED
    BY <2>4, <2>6
<1>4. QED
  BY <1>2, <1>3

\* The routines make texts of texts, whatever they hold.
LEMMA TextTypes ==
  ASSUME NEW t \in Text
  PROVE  /\ \A c \in Char : OutputChar(t, c) \in Text
         /\ \A style \in HTStyle : SetStyle(t, style) \in Text
<1> DEFINE at == LastAttributes(t)
           w  == Written(t)
<1>1. t.storage \in Seq(Cell) /\ at \in Attr
  BY LastOfText DEF Text
<1>2. CASE NoDummyToRemove(t)
  <2>1. ASSUME NEW c \in Char
        PROVE  OutputChar(t, c) \in Text
    <3> DEFINE cell == [ch |-> c, at |-> at]
    <3>1. <<cell>> \in Seq(Cell)
      BY <1>1 DEF Cell
    <3> HIDE DEF cell, at
    <3>2. [t EXCEPT !.storage = <<cell>>, !.raised = TRUE]
            = [[t EXCEPT !.storage = <<cell>>] EXCEPT !.raised = TRUE]
      BY DEF Text
    <3>3. [t EXCEPT !.storage = <<cell>>, !.raised = TRUE] \in Text
      BY <3>1, <3>2 DEF Text
    <3>4. QED
      BY <1>2, <3>3 DEF OutputChar, cell, at
  <2>2. ASSUME NEW style \in HTStyle
        PROVE  SetStyle(t, style) \in Text
    BY <1>2 DEF SetStyle, Text
  <2>3. QED
    BY <2>1, <2>2
<1>3. CASE ~NoDummyToRemove(t)
  <2>1. w \in Seq(Cell)
    BY <1>3, LastOfText DEF NoDummyToRemove
  <2>2. ASSUME NEW s \in Seq(Cell), NEW b \in BOOLEAN
        PROVE  [t EXCEPT !.storage = s, !.endsWithDummyCharacter = b] \in Text
    BY <2>2 DEF Text
  <2>3. ASSUME NEW c \in Char
        PROVE  OutputChar(t, c) \in Text
    <3> DEFINE cell == [ch |-> c, at |-> at]
    <3>1. cell \in Cell
      BY <1>1 DEF Cell
    <3>2. Append(w, cell) \in Seq(Cell)
      BY <2>1, <3>1
    <3> HIDE DEF cell, at
    <3>3. [t EXCEPT !.storage = Append(w, cell), !.endsWithDummyCharacter = FALSE] \in Text
      BY <2>2, <3>2
    <3>4. QED
      BY <1>3, <3>3 DEF OutputChar, cell, at
  <2>4. ASSUME NEW style \in HTStyle
        PROVE  SetStyle(t, style) \in Text
    <3> DEFINE dummy == [ch |-> Dummy, at |-> Apply(style, at)]
    <3>1. dummy \in Cell
      BY <1>1, ApplyType DEF Cell
    <3>2. Append(w, dummy) \in Seq(Cell)
      BY <2>1, <3>1
    <3> HIDE DEF dummy, at
    <3>3. [t EXCEPT !.storage = Append(w, dummy), !.endsWithDummyCharacter = TRUE] \in Text
      BY <2>2, <3>2
    <3>4. QED
      BY <1>3, <3>3 DEF SetStyle, dummy, at
  <2>5. QED
    BY <2>3, <2>4
<1>4. QED
  BY <1>2, <1>3

\* And of a parser that has crashed, one that has.
LEMMA MacroTypes ==
  ASSUME NEW p \in Parsers
  PROVE  /\ \A c \in Char : OnlyText(p, OUTPUT(p, c))
         /\ \A style \in HTStyle : OnlyText(p, SET_STYLE(p, style))
<1>1. p.text \in Text
  BY DEF Parsers
<1>2. \A c \in Char : OnlyText(p, OUTPUT(p, c))
  BY <1>1, TextTypes, WithText DEF OUTPUT
<1>3. \A style \in HTStyle : OnlyText(p, SET_STYLE(p, style))
  BY <1>1, TextTypes, WithText DEF SET_STYLE
<1>4. QED
  BY <1>2, <1>3

-----------------------------------------------------------------------------
(* The stack of styles.                                                    *)

\* Outside all elements the style is that of Normal, which is an element.
LEMMA InnermostType ==
  ASSUME NEW stack \in Seq(Element)
  PROVE  Innermost(stack) \in Element
<1>1. stack # <<>> => stack[Len(stack)] \in Element
  BY FrontOfSeq
<1>2. QED
  BY <1>1, Elements DEF Innermost

\* An element that begins is the innermost, and its style is the next.
LEMMA StartStyleFacts ==
  ASSUME NEW p \in Parsers, NEW e \in Element
  PROVE  LET q == StartStyle(p, e)
         IN  /\ q \in Parsers /\ q.text = p.text /\ q.current_style = p.current_style
             /\ q.output_in_word = p.output_in_word /\ q.crashed = p.crashed
             /\ q.next_style = e /\ Innermost(q.styleStack) = e
<1> DEFINE stack == Append(p.styleStack, e)
           q == [p EXCEPT !.styleStack = stack, !.next_style = e]
<1>1. p.styleStack \in Seq(Element)
  BY DEF Parsers
<1>2. stack \in Seq(Element) /\ stack # <<>> /\ stack[Len(stack)] = e
  BY <1>1, FrontOfAppend
<1>3. Innermost(stack) = e
  BY <1>2 DEF Innermost
<1> HIDE DEF stack
<1>4. /\ q \in Parsers /\ q.text = p.text /\ q.current_style = p.current_style
      /\ q.output_in_word = p.output_in_word /\ q.crashed = p.crashed
      /\ q.next_style = e /\ q.styleStack = stack
  BY <1>2 DEF Parsers
<1>5. StartStyle(p, e) = q
  BY DEF StartStyle, stack
<1> HIDE DEF q
<1>6. QED
  BY <1>3, <1>4, <1>5

\* When one ends, the next style is that of the element around it.
LEMMA EndStyleFacts ==
  ASSUME NEW p \in Parsers
  PROVE  LET q == EndStyle(p)
         IN  /\ q \in Parsers /\ q.text = p.text /\ q.current_style = p.current_style
             /\ q.output_in_word = p.output_in_word /\ q.crashed = p.crashed
             /\ q.next_style = Innermost(q.styleStack)
<1> DEFINE stack == IF p.styleStack = <<>> THEN <<>> ELSE Front(p.styleStack)
           e == Innermost(stack)
           q == [p EXCEPT !.styleStack = stack, !.next_style = e]
<1>1. p.styleStack \in Seq(Element)
  BY DEF Parsers
<1>2. stack \in Seq(Element)
  BY <1>1, FrontOfSeq
<1>3. e \in Element
  BY <1>2, InnermostType
<1>4. EndStyle(p) = q
  BY DEF EndStyle
<1> HIDE DEF stack
<1>5. /\ q \in Parsers /\ q.text = p.text /\ q.current_style = p.current_style
      /\ q.output_in_word = p.output_in_word /\ q.crashed = p.crashed
      /\ q.next_style = e /\ q.styleStack = stack
  BY <1>2, <1>3 DEF Parsers
<1> HIDE DEF q
<1>6. QED
  BY <1>4, <1>5

-----------------------------------------------------------------------------
(* How a step of the parser ends.                                          *)

\* It goes on in a document as it has to be.
LEMMA Goes ==
  ASSUME NEW p, NEW s \in Open, Continue(p, s), ~p.crashed,
         Reads(p, meant', anchor'), Parts(p, meant'),
         anchor' \in Anchors \cup {None}, pre' \in BOOLEAN, styled' \in BOOLEAN,
         styled' => p.next_style = Innermost(p.styleStack),
         s \in {"word", "example"} => p.current_style = p.next_style,
         s = "word" => meant' # <<>> /\ (p.output_in_word \/ meant'[Len(meant')].entity),
         s = "example" => Innermost(p.styleStack) \in Literal
  PROVE  Inv'
<1>1. parser' = p /\ p \in Parsers /\ ~p.text.raised /\ meant' \in Seq(Meanings)
  BY DEF Continue, Reads, Sound
<1>2. state' = s
  BY <1>1 DEF Continue
<1>3. s # "idle" /\ s # "crashed" /\ s \in {"idle", "text", "word", "example", "crashed"}
  BY DEF Open
<1>4. TypeOK'
  BY <1>1, <1>2, <1>3 DEF TypeOK
<1>5. Reading'
  BY <1>1 DEF Reading
<1>6. Settled'
  BY <1>1, <1>2 DEF Settled
<1>7. QED
  BY <1>1, <1>2, <1>3, <1>4, <1>5, <1>6 DEF Inv

\* A null pointer ends it all.
LEMMA Crashes ==
  ASSUME NEW p \in Parsers, NEW s, Continue(p, s), p.crashed,
         anchor' \in Anchors \cup {None}, pre' \in BOOLEAN, styled' \in BOOLEAN,
         meant' \in Seq(Meanings)
  PROVE  Inv'
<1>1. parser' = p /\ state' = "crashed"
  BY DEF Continue
<1>2. TypeOK'
  BY <1>1 DEF TypeOK
<1>3. "crashed" \notin Open
  BY DEF Open
<1>4. QED
  BY <1>1, <1>2, <1>3 DEF Inv

\* It stops, and leaves a text that is good.
LEMMA Stops ==
  ASSUME state' = "idle", parser' \in Parsers, ~parser'.crashed,
         anchor' \in Anchors \cup {None}, pre' \in BOOLEAN, styled' \in BOOLEAN,
         meant' \in Seq(Meanings), Good(parser'.text.storage, meant')
  PROVE  Inv'
<1>1. TypeOK'
  BY DEF TypeOK
<1>2. "idle" \notin Open
  BY DEF Open
<1>3. Good(Storage, meant)'
  BY DEF Storage
<1>4. QED
  BY <1>1, <1>2, <1>3 DEF Inv

\* What a document being read is known to be.
LEMMA WithinDocument ==
  ASSUME Inv, state \in Open
  PROVE  /\ parser \in Parsers /\ ~parser.crashed
         /\ Reads(parser, meant, anchor) /\ Parts(parser, meant)
         /\ styled => parser.next_style = Innermost(parser.styleStack)
         /\ Settled
         /\ anchor \in Anchors \cup {None} /\ pre \in BOOLEAN /\ styled \in BOOLEAN
         /\ meant \in Seq(Meanings)
         /\ \A en, mo \in BOOLEAN : Meaning(en, mo) \in Meanings
<1>1. TypeOK /\ Reading /\ Settled /\ state # "crashed"
  BY DEF Inv, Open
<1>2. /\ parser \in Parsers /\ ~parser.crashed
      /\ anchor \in Anchors \cup {None} /\ pre \in BOOLEAN /\ styled \in BOOLEAN
      /\ meant \in Seq(Meanings)
  BY <1>1 DEF Inv, TypeOK
<1>3. Innermost(parser.styleStack) \in Element
  BY <1>2, InnermostType DEF Parsers
<1>4. \A en, mo \in BOOLEAN : Meaning(en, mo) \in Meanings
  BY <1>2, <1>3 DEF Meaning, Meanings
<1>5. QED
  BY <1>1, <1>2, <1>4 DEF Reading

-----------------------------------------------------------------------------
(* The steps.                                                              *)

\* A flag left over makes the first style raise an exception; else the
\* document begins with nothing written.
LEMMA BeginDocumentKeeps ==
  ASSUME Inv, BeginDocument
  PROVE  Inv'
<1> DEFINE b == AppendBegin(parser.text)
           style == SheetStyle(FontOf[Normal])
           t == SetStyle(b, style)
           p == [ parser EXCEPT !.text = t, !.current_style = Normal,
                                !.styleStack = <<>>, !.output_in_word = FALSE ]
<1>1. /\ parser \in Parsers /\ parser.text \in Text /\ ~parser.crashed
      /\ Continue(p, "text") /\ pre' = FALSE /\ anchor' = None /\ styled' = FALSE
      /\ meant' = <<>>
  BY DEF BeginDocument, Inv, TypeOK, Parsers
<1>2. /\ b \in Text /\ b.storage = <<>> /\ ~b.raised
      /\ b.endsWithDummyCharacter = parser.text.endsWithDummyCharacter
  <2>1. ASSUME NEW u \in Text, NEW s \in Seq(Cell), NEW r \in BOOLEAN
        PROVE  LET v == [u EXCEPT !.storage = s, !.raised = r]
               IN  /\ v \in Text /\ v.storage = s /\ v.raised = r
                   /\ v.endsWithDummyCharacter = u.endsWithDummyCharacter
    BY <2>1 DEF Text
  <2>2. <<>> \in Seq(Cell)
    OBVIOUS
  <2>3. QED
    BY <1>1, <2>1, <2>2 DEF AppendBegin
<1> HIDE DEF b
<1>3. style \in HTStyle /\ Apply(style, Bare) = [font |-> FontOf[Normal], anchor |-> None, black |-> TRUE]
  BY Elements, SheetMakes DEF Bare
<1>4. LastAttributes(b) = Bare
  BY <1>2 DEF LastAttributes
<1>5. t \in Text
  BY <1>2, <1>3, TextTypes
<1>6. /\ p \in Parsers /\ p.text = t /\ p.current_style = Normal /\ ~p.crashed
  <2> HIDE DEF t
  <2> DEFINE none == <<>>
  <2>1. /\ parser \in Parsers /\ t \in Text /\ Normal \in Element /\ ~parser.crashed
        /\ none \in Seq(Element)
    BY <1>1, <1>5, Elements
  <2> DEFINE r == [ parser EXCEPT !.text = t, !.current_style = Normal,
                                  !.styleStack = none, !.output_in_word = FALSE ]
  <2>2. p = r
    OBVIOUS
  <2> HIDE DEF none, p
  <2>3. r \in Parsers /\ r.text = t /\ r.current_style = Normal /\ ~r.crashed
    BY <2>1 DEF Parsers
  <2> HIDE DEF r
  <2>4. QED
    BY <2>2, <2>3
<1> HIDE DEF p, style
<1>7. CASE b.endsWithDummyCharacter
  <2>1. NoDummyToRemove(b) /\ WillChange(style, LastAttributes(b))
    BY <1>2, <1>4, <1>7 DEF NoDummyToRemove, WillChange, Bare
  <2>2. t = [b EXCEPT !.raised = TRUE]
    BY <1>2, <2>1 DEF SetStyle
  <2>3. t.raised /\ t.storage = <<>>
    BY <1>2, <2>2 DEF Text
  <2> HIDE DEF t
  <2>4. parser' = p /\ state' = "idle"
    BY <1>1, <2>3, <1>6 DEF Continue
  <2>5. meant' \in Seq(Meanings) /\ Good(parser'.text.storage, meant')
    BY <1>1, <2>3, <1>6, <2>4, GoodEmpty
  <2>6. QED
    BY <1>1, <1>6, <2>4, <2>5, Stops
<1>8. CASE ~b.endsWithDummyCharacter
  <2>1. Sound(b) /\ ~LastAttributes(b).black /\ Written(b) = <<>>
    BY <1>2, <1>4, <1>8 DEF Sound, Written, Bare
  <2>2. /\ Sound(t) /\ Written(t) = <<>>
        /\ LastAttributes(t) = [font |-> FontOf[Normal], anchor |-> None, black |-> TRUE]
        /\ t = b \/ t.storage[Len(t.storage)].ch = Dummy
    BY <1>3, <1>4, <2>1, SetStyleHolds
  <2> HIDE DEF t
  <2>3. t # b /\ t.storage # <<>>
    BY <1>4, <2>2 DEF LastAttributes, Bare
  <2>4. <<>> \in Seq(Meanings)
    OBVIOUS
  <2>5. Reads(p, <<>>, None)
    BY <2>2, <2>3, <1>6, <2>4, GoodEmpty DEF Reads
  <2>6. Parts(p, <<>>)
    BY <2>2, <1>6, GoodEmpty DEF Parts
  <2>7. "text" \in Open
    BY DEF Open
  <2>8. QED
    BY <1>1, <1>6, <2>5, <2>6, <2>7, Goes
<1>9. QED
  BY <1>7, <1>8

\* A word is in the next style, and gets a space if it needs one.
LEMMA ReadWordKeeps ==
  ASSUME Inv, NEW c \in Char, c \in Printing, NEW entity \in BOOLEAN, ReadWord(c, entity)
  PROVE  Inv'
<1> DEFINE p == UPDATE_STYLE(parser)
           o == IF p.output_in_word THEN OUTPUT(p, Space) ELSE p
           w == OUTPUT(o, c)
           q == [w EXCEPT !.output_in_word = w.output_in_word \/ ~entity]
           m == Meaning(entity, FALSE)
<1>1. /\ Continue(q, "word") /\ state \in Open
      /\ meant' = Append(meant, m) /\ pre' = pre /\ anchor' = anchor /\ styled' = styled
  BY DEF ReadWord, Open
<1>2. /\ parser \in Parsers /\ ~parser.crashed
      /\ Reads(parser, meant, anchor) /\ Parts(parser, meant)
      /\ styled => parser.next_style = Innermost(parser.styleStack)
      /\ anchor \in Anchors \cup {None} /\ pre \in BOOLEAN /\ styled \in BOOLEAN
      /\ meant \in Seq(Meanings) /\ m \in Meanings
  BY <1>1, WithinDocument
<1>3. Updated(parser, p, meant, anchor)
  BY <1>2, MacroReads
<1>4. /\ m.anchor = anchor /\ m.styled = styled
      /\ m.element = Innermost(parser.styleStack) /\ m.entity = entity
  BY DEF Meaning
<1> HIDE DEF p, m
<1>5. Space \in Char /\ Space \notin Printing
  BY Characters
<1>6. p \in Parsers
  BY <1>3 DEF Updated
<1>7. OnlyText(p, o)
  BY <1>5, <1>6, MacroTypes DEF OnlyText
<1>8. /\ q \in Parsers /\ q.text = w.text /\ q.current_style = p.current_style
      /\ q.next_style = p.next_style /\ q.styleStack = p.styleStack /\ q.crashed = p.crashed
      /\ q.output_in_word = (w.output_in_word \/ ~entity)
      /\ w.current_style = p.current_style
  <2> HIDE DEF o
  <2>1. o \in Parsers
    BY <1>7 DEF OnlyText
  <2>2. OnlyText(o, w)
    BY <2>1, MacroTypes
  <2> HIDE DEF w
  <2>3. QED
    BY <1>7, <2>2 DEF OnlyText, Parsers
<1>9. CASE parser.next_style = None
  <2> HIDE DEF q
  <2>1. q.crashed
    BY <1>3, <1>8, <1>9 DEF Updated
  <2>2. meant' \in Seq(Meanings)
    BY <1>1, <1>2
  <2>3. QED
    BY <1>1, <1>2, <1>8, <2>1, <2>2, Crashes
<1>10. CASE parser.next_style # None
  <2>1. /\ ~p.crashed /\ Reads(p, meant, anchor) /\ Parts(p, meant)
        /\ p.current_style = p.next_style /\ p.next_style = parser.next_style
        /\ p.styleStack = parser.styleStack
    BY <1>3, <1>10 DEF Updated
  <2>2. /\ Reads(o, meant, anchor)
        /\ EndsInWord(Written(o.text)) =>
             meant[Len(meant)].entity \/ meant[Len(meant)].element \in Literal
    <3>1. CASE p.output_in_word
      BY <1>5, <2>1, <3>1, OutputOther
    <3>2. CASE ~p.output_in_word
      BY <2>1, <3>2 DEF Parts
    <3>3. QED
      BY <3>1, <3>2
  <2> HIDE DEF o
  <2>3. m.styled => o.current_style = m.element
    BY <1>2, <1>4, <1>7, <2>1 DEF OnlyText
  <2>4. EndsInWord(Written(o.text)) => MayTouch(meant[Len(meant)], m)
    BY <2>2 DEF MayTouch
  <2> DEFINE k == Append(meant, m)
  <2>5. Reads(w, k, anchor) /\ k # <<>> /\ k[Len(k)] = m
    BY <1>2, <1>4, <2>2, <2>3, <2>4, OutputWord
  <2> HIDE DEF w, k, q
  <2>6. Reads(q, k, anchor)
    BY <1>8, <2>5, ReadsFrame
  <2>7. q.output_in_word \/ k[Len(k)].entity
    BY <1>4, <1>8, <2>5
  <2>8. Parts(q, k)
    BY <2>7 DEF Parts
  <2>9. meant' = k /\ "word" \in Open
    BY <1>1 DEF k, Open
  <2>10. QED
    BY <1>1, <1>2, <1>8, <2>1, <2>5, <2>6, <2>7, <2>8, <2>9, Goes
<1>11. QED
  BY <1>9, <1>10

\* The rest of a word is in the style of its beginning.
LEMMA ReadMoreKeeps ==
  ASSUME Inv, NEW c \in Char, c \in Printing, NEW known \in BOOLEAN, ReadMore(c, known)
  PROVE  Inv'
<1> DEFINE w == OUTPUT(parser, c)
           q == [w EXCEPT !.output_in_word = w.output_in_word \/ known]
           before == meant[Len(meant)]
           m == Meaning(before.entity /\ ~known, TRUE)
           k == Append(meant, m)
<1>1. /\ Continue(q, "word") /\ state = "word" /\ state \in Open
      /\ meant' = k /\ pre' = pre /\ anchor' = anchor /\ styled' = styled
  BY DEF ReadMore, Open
<1>2. /\ parser \in Parsers /\ ~parser.crashed
      /\ Reads(parser, meant, anchor)
      /\ styled => parser.next_style = Innermost(parser.styleStack)
      /\ parser.current_style = parser.next_style
      /\ meant # <<>> /\ (parser.output_in_word \/ before.entity)
      /\ anchor \in Anchors \cup {None} /\ pre \in BOOLEAN /\ styled \in BOOLEAN
      /\ meant \in Seq(Meanings)
  BY <1>1, WithinDocument DEF Settled
<1>3. m \in Meanings
  <2>1. before \in Meanings
    BY <1>2, FrontOfSeq
  <2>2. (before.entity /\ ~known) \in BOOLEAN
    OBVIOUS
  <2>3. QED
    BY <1>1, <2>2, WithinDocument
<1>4. /\ m.anchor = anchor /\ m.styled = styled /\ m.more = TRUE
      /\ m.element = Innermost(parser.styleStack) /\ m.entity = (before.entity /\ ~known)
  BY DEF Meaning
<1> HIDE DEF m, before
<1>5. m.styled => parser.current_style = m.element
  BY <1>2, <1>4
<1>6. EndsInWord(Written(parser.text)) => MayTouch(meant[Len(meant)], m)
  BY <1>4 DEF MayTouch
<1>7. OnlyText(parser, w) /\ Reads(w, k, anchor) /\ k # <<>> /\ k[Len(k)] = m
  BY <1>2, <1>3, <1>4, <1>5, <1>6, OutputWord
<1> HIDE DEF w, k
<1>8. /\ q \in Parsers /\ q.text = w.text /\ q.current_style = w.current_style
      /\ q.next_style = w.next_style /\ q.styleStack = w.styleStack /\ q.crashed = w.crashed
      /\ q.output_in_word = (w.output_in_word \/ known)
  BY <1>7 DEF OnlyText, Parsers
<1> HIDE DEF q
<1>9. Reads(q, k, anchor)
  BY <1>7, <1>8, ReadsFrame
<1>10. q.output_in_word \/ k[Len(k)].entity
  BY <1>2, <1>4, <1>7, <1>8 DEF OnlyText
<1>11. Parts(q, k)
  BY <1>10 DEF Parts
<1>12. QED
  BY <1>1, <1>2, <1>7, <1>8, <1>9, <1>10, <1>11, Goes DEF OnlyText

\* The steps within a document that read no word and leave the anchor.
LEMMA GoesOn ==
  ASSUME Inv, state \in Open, UNCHANGED <<anchor, meant>>,
         pre' \in BOOLEAN, styled' \in BOOLEAN,
         NEW p, Continue(p, "text"), ~p.crashed,
         Reads(p, meant, anchor), Parts(p, meant),
         styled' => p.next_style = Innermost(p.styleStack)
  PROVE  Inv'
<1>1. /\ anchor' = anchor /\ meant' = meant /\ anchor \in Anchors \cup {None}
      /\ "text" \in Open
  BY WithinDocument DEF Open
<1>2. QED
  BY <1>1, Goes

\* A character that ends the word before it.
LEMMA OtherKeeps ==
  ASSUME Inv, state \in Open, UNCHANGED <<anchor, meant>>,
         pre' \in BOOLEAN, styled' = styled,
         NEW p, Reads(p, meant, anchor), ~p.crashed,
         p.next_style = parser.next_style, p.styleStack = parser.styleStack,
         NEW c \in Char, c \notin Printing, NEW b \in BOOLEAN,
         Continue([OUTPUT(p, c) EXCEPT !.output_in_word = b], "text")
  PROVE  Inv'
<1> DEFINE o == OUTPUT(p, c)
           q == [o EXCEPT !.output_in_word = b]
<1>1. OnlyText(p, o) /\ Reads(o, meant, anchor) /\ ~EndsInWord(Written(o.text))
  BY OutputOther
<1>2. Continue(q, "text")
  OBVIOUS
<1>3. styled \in BOOLEAN /\ (styled => parser.next_style = Innermost(parser.styleStack))
  BY WithinDocument
<1> HIDE DEF o
<1>4. /\ q \in Parsers /\ q.text = o.text /\ q.current_style = o.current_style
      /\ q.next_style = o.next_style /\ q.styleStack = o.styleStack
      /\ q.crashed = o.crashed
  BY <1>1 DEF OnlyText, Parsers
<1> HIDE DEF q
<1>5. Reads(q, meant, anchor) /\ Parts(q, meant)
  BY <1>1, <1>4, ReadsFrame DEF Parts
<1>6. ~q.crashed /\ q.next_style = parser.next_style /\ q.styleStack = parser.styleStack
  BY <1>1, <1>4 DEF OnlyText
<1>7. styled' \in BOOLEAN /\ (styled' => q.next_style = Innermost(q.styleStack))
  BY <1>3, <1>6
<1>8. QED
  BY <1>2, <1>5, <1>6, <1>7, GoesOn

\* A space ends a word.
LEMMA ReadSpaceKeeps ==
  ASSUME Inv, ReadSpace
  PROVE  Inv'
<1>1. /\ Continue([OUTPUT(parser, Space) EXCEPT !.output_in_word = FALSE], "text")
      /\ state \in Open /\ UNCHANGED <<pre, anchor, styled, meant>>
  BY DEF ReadSpace, InText, Open
<1>2. Reads(parser, meant, anchor) /\ ~parser.crashed /\ pre \in BOOLEAN
  BY <1>1, WithinDocument
<1>3. Space \in Char /\ Space \notin Printing
  BY Characters
<1>4. QED
  BY <1>1, <1>2, <1>3, OtherKeeps

\* A tab is in the next style.
LEMMA ReadTabKeeps ==
  ASSUME Inv, ReadTab
  PROVE  Inv'
<1> DEFINE p == UPDATE_STYLE(parser)
           o == OUTPUT(p, Tab)
           q == [o EXCEPT !.output_in_word = FALSE]
<1>1. /\ Continue(q, "text")
      /\ state \in Open /\ UNCHANGED <<pre, anchor, styled, meant>>
  BY DEF ReadTab, InText, Open
<1>2. /\ Reads(parser, meant, anchor) /\ Parts(parser, meant) /\ ~parser.crashed
      /\ anchor \in Anchors \cup {None} /\ pre \in BOOLEAN /\ styled \in BOOLEAN
      /\ meant \in Seq(Meanings)
  BY <1>1, WithinDocument
<1>3. Tab \in Char /\ Tab \notin Printing
  BY Characters
<1>4. Updated(parser, p, meant, anchor)
  BY <1>2, MacroReads
<1> HIDE DEF p
<1>5. CASE parser.next_style = None
  <2>1. p \in Parsers /\ p.crashed
    BY <1>4, <1>5 DEF Updated
  <2>2. OnlyText(p, o)
    BY <1>3, <2>1, MacroTypes
  <2> HIDE DEF o
  <2>3. q \in Parsers /\ q.crashed
    BY <2>1, <2>2 DEF OnlyText, Parsers
  <2> HIDE DEF q
  <2>4. QED
    BY <1>1, <1>2, <2>3, Crashes
<1>6. CASE parser.next_style # None
  <2>1. /\ Reads(p, meant, anchor) /\ ~p.crashed
        /\ p.next_style = parser.next_style /\ p.styleStack = parser.styleStack
    BY <1>4, <1>6 DEF Updated
  <2>2. UNCHANGED <<anchor, meant>> /\ pre' \in BOOLEAN /\ styled' = styled
    BY <1>1, <1>2
  <2>3. QED
    BY <1>1, <1>3, <2>1, <2>2, OtherKeeps
<1>7. QED
  BY <1>5, <1>6

\* An unknown entity writes a space after a word, or nothing.
LEMMA ReadBadEntityKeeps ==
  ASSUME Inv, ReadBadEntity
  PROVE  Inv'
<1> DEFINE p == UPDATE_STYLE(parser)
           o == OUTPUT(p, Space)
           q == IF p.output_in_word THEN o ELSE p
<1>1. /\ Continue(q, "text")
      /\ state \in Open /\ UNCHANGED <<pre, anchor, styled, meant>>
  BY DEF ReadBadEntity, Open
<1>2. /\ Reads(parser, meant, anchor) /\ Parts(parser, meant) /\ ~parser.crashed
      /\ anchor \in Anchors \cup {None} /\ pre \in BOOLEAN /\ styled \in BOOLEAN
      /\ meant \in Seq(Meanings)
      /\ styled => parser.next_style = Innermost(parser.styleStack)
  BY <1>1, WithinDocument
<1>3. Space \in Char /\ Space \notin Printing
  BY Characters
<1>4. Updated(parser, p, meant, anchor)
  BY <1>2, MacroReads
<1> HIDE DEF p
<1>5. CASE parser.next_style = None
  <2>1. p \in Parsers /\ p.crashed
    BY <1>4, <1>5 DEF Updated
  <2>2. OnlyText(p, o)
    BY <1>3, <2>1, MacroTypes
  <2> HIDE DEF o
  <2>3. q \in Parsers /\ q.crashed
    BY <2>1, <2>2 DEF OnlyText
  <2> HIDE DEF q
  <2>4. QED
    BY <1>1, <1>2, <2>3, Crashes
<1>6. CASE parser.next_style # None
  <2>1. /\ Reads(p, meant, anchor) /\ Parts(p, meant) /\ ~p.crashed
        /\ p.next_style = parser.next_style /\ p.styleStack = parser.styleStack
    BY <1>4, <1>6 DEF Updated
  <2>2. OnlyText(p, o) /\ Reads(o, meant, anchor) /\ ~EndsInWord(Written(o.text))
    BY <1>3, <2>1, OutputOther
  <2> HIDE DEF o
  <2>3. Parts(o, meant)
    BY <2>2 DEF Parts
  <2>4. /\ ~o.crashed /\ o.next_style = p.next_style /\ o.styleStack = p.styleStack
    BY <2>1, <2>2 DEF OnlyText
  <2>5. /\ Reads(q, meant, anchor) /\ Parts(q, meant) /\ ~q.crashed
        /\ q.next_style = parser.next_style /\ q.styleStack = parser.styleStack
    BY <2>1, <2>2, <2>3, <2>4
  <2> HIDE DEF q
  <2>6. /\ pre' \in BOOLEAN /\ styled' \in BOOLEAN
        /\ styled' => q.next_style = Innermost(q.styleStack)
    BY <1>1, <1>2, <2>5
  <2>7. QED
    BY <1>1, <2>5, <2>6, GoesOn
<1>7. QED
  BY <1>5, <1>6

\* A paragraph begins with no word, whatever mark its style has.
LEMMA ParagraphReads ==
  ASSUME NEW p, NEW ms, NEW a, Reads(p, ms, a)
  PROVE  LET q == OutputParagraph(p)
         IN  /\ Reads(q, ms, a) /\ Parts(q, ms)
             /\ q.next_style = p.next_style /\ q.styleStack = p.styleStack
             /\ q.crashed = p.crashed
<1> DEFINE l == OUTPUT(p, NewLine)
           m == Marked(l, p.current_style)
           q == [m EXCEPT !.output_in_word = FALSE]
<1>1. OutputParagraph(p) = q
  BY DEF OutputParagraph
<1>2. NewLine \in Char /\ NewLine \notin Printing /\ Bullet \in Char /\ Bullet \notin Printing
  BY Characters
<1>3. OnlyText(p, l) /\ Reads(l, ms, a) /\ ~EndsInWord(Written(l.text))
  BY <1>2, OutputOther
<1> HIDE DEF l
<1>4. OnlyText(l, m) /\ Reads(m, ms, a) /\ ~EndsInWord(Written(m.text))
  <2>1. CASE p.current_style = List
    BY <1>2, <1>3, <2>1, OutputOther DEF Marked
  <2>2. CASE p.current_style # List
    BY <1>3, <2>2 DEF Marked, OnlyText
  <2>3. QED
    BY <2>1, <2>2
<1> HIDE DEF m
<1>5. /\ q \in Parsers /\ q.text = m.text /\ q.current_style = m.current_style
      /\ q.next_style = m.next_style /\ q.styleStack = m.styleStack
      /\ q.crashed = m.crashed
  BY <1>4 DEF OnlyText, Parsers
<1> HIDE DEF q
<1>6. Reads(q, ms, a) /\ Parts(q, ms)
  BY <1>4, <1>5, ReadsFrame DEF Parts
<1>7. QED
  BY <1>1, <1>3, <1>4, <1>5, <1>6 DEF OnlyText

\* <P> and the like, and the end of a line in <PRE>.
LEMMA ParagraphKeeps ==
  ASSUME Inv, state \in Open, Continue(OutputParagraph(parser), "text"),
         UNCHANGED <<pre, anchor, styled, meant>>
  PROVE  Inv'
<1> DEFINE q == OutputParagraph(parser)
<1>1. /\ Reads(parser, meant, anchor) /\ ~parser.crashed
      /\ pre \in BOOLEAN /\ styled \in BOOLEAN
      /\ styled => parser.next_style = Innermost(parser.styleStack)
  BY WithinDocument
<1>2. /\ Reads(q, meant, anchor) /\ Parts(q, meant)
      /\ q.next_style = parser.next_style /\ q.styleStack = parser.styleStack
      /\ q.crashed = parser.crashed
  BY <1>1, ParagraphReads
<1>3. Continue(q, "text")
  OBVIOUS
<1> HIDE DEF q
<1>4. UNCHANGED <<anchor, meant>> /\ pre' \in BOOLEAN /\ styled' \in BOOLEAN
  BY <1>1
<1>5. ~q.crashed /\ (styled' => q.next_style = Innermost(q.styleStack))
  BY <1>1, <1>2
<1>6. QED
  BY <1>2, <1>3, <1>4, <1>5, GoesOn

\* What is skipped.
LEMMA JunkKeeps ==
  ASSUME Inv, state \in Open, Continue(parser, "text"),
         UNCHANGED <<pre, anchor, styled, meant>>
  PROVE  Inv'
<1>1. /\ Reads(parser, meant, anchor) /\ Parts(parser, meant) /\ ~parser.crashed
      /\ pre \in BOOLEAN /\ styled \in BOOLEAN
      /\ styled => parser.next_style = Innermost(parser.styleStack)
  BY WithinDocument
<1>2. UNCHANGED <<anchor, meant>> /\ pre' \in BOOLEAN /\ styled' \in BOOLEAN
  BY <1>1
<1>3. styled' => parser.next_style = Innermost(parser.styleStack)
  BY <1>1
<1>4. QED
  BY <1>1, <1>2, <1>3, GoesOn

\* The end of a line is a paragraph in <PRE>, and nothing elsewhere.
LEMMA ReadNewLineKeeps ==
  ASSUME Inv, ReadNewLine
  PROVE  Inv'
<1>1. state \in Open /\ UNCHANGED <<pre, anchor, styled, meant>>
  BY DEF ReadNewLine, InText, Open
<1>2. CASE pre
  BY <1>1, <1>2, ParagraphKeeps DEF ReadNewLine
<1>3. CASE ~pre
  BY <1>1, <1>3, JunkKeeps DEF ReadNewLine
<1>4. QED
  BY <1>2, <1>3

\* An unknown tag is skipped.
LEMMA ReadJunkKeeps ==
  ASSUME Inv, ReadJunk
  PROVE  Inv'
BY JunkKeeps DEF ReadJunk, InText, Open

\* <P> begins a paragraph.
LEMMA ReadParagraphKeeps ==
  ASSUME Inv, ReadParagraph
  PROVE  Inv'
BY ParagraphKeeps DEF ReadParagraph, InText, Open

\* <DD> writes a tab, which is no word.
LEMMA ReadDefinitionKeeps ==
  ASSUME Inv, ReadDefinition
  PROVE  Inv'
<1> DEFINE q == OUTPUT(parser, Tab)
<1>1. /\ Continue(q, "text") /\ state \in Open
      /\ UNCHANGED <<pre, anchor, styled, meant>>
  BY DEF ReadDefinition, InText, Open
<1>2. /\ Reads(parser, meant, anchor) /\ ~parser.crashed
      /\ pre \in BOOLEAN /\ styled \in BOOLEAN
      /\ styled => parser.next_style = Innermost(parser.styleStack)
  BY <1>1, WithinDocument
<1>3. Tab \in Char /\ Tab \notin Printing
  BY Characters
<1>4. OnlyText(parser, q) /\ Reads(q, meant, anchor) /\ ~EndsInWord(Written(q.text))
  BY <1>2, <1>3, OutputOther
<1> HIDE DEF q
<1>5. Parts(q, meant)
  BY <1>4 DEF Parts
<1>6. UNCHANGED <<anchor, meant>> /\ pre' \in BOOLEAN /\ styled' \in BOOLEAN
  BY <1>1, <1>2
<1>7. ~q.crashed /\ (styled' => q.next_style = Innermost(q.styleStack))
  BY <1>1, <1>2, <1>4 DEF OnlyText
<1>8. QED
  BY <1>1, <1>4, <1>5, <1>6, <1>7, GoesOn

\* The start of an element sets nothing in force: what comes next will.
LEMMA StartReads ==
  ASSUME NEW p, NEW ms, NEW a, Reads(p, ms, a), Parts(p, ms), ~p.crashed,
         NEW e \in Element
  PROVE  LET q == StartStyle(p, e)
         IN  /\ Reads(q, ms, a) /\ Parts(q, ms) /\ ~q.crashed
             /\ q.next_style = e /\ e # None /\ Innermost(q.styleStack) = e
<1> DEFINE q == StartStyle(p, e)
<1>1. p \in Parsers
  BY DEF Reads
<1>2. /\ q \in Parsers /\ q.text = p.text /\ q.current_style = p.current_style
      /\ q.output_in_word = p.output_in_word /\ q.crashed = p.crashed
      /\ q.next_style = e /\ Innermost(q.styleStack) = e
  BY <1>1, StartStyleFacts
<1> HIDE DEF q
<1>3. Reads(q, ms, a) /\ Parts(q, ms)
  BY <1>2, ReadsFrame DEF Parts
<1>4. e # None
  BY Elements
<1>5. QED
  BY <1>2, <1>3, <1>4 DEF q

\* An element that waits for its first word.
LEMMA ReadStartKeeps ==
  ASSUME Inv, NEW e \in Element, ReadStart(e)
  PROVE  Inv'
<1> DEFINE q == StartStyle(parser, e)
<1>1. /\ Continue(q, "text") /\ state \in Open /\ styled' = TRUE
      /\ UNCHANGED <<pre, anchor, meant>>
  BY DEF ReadStart, InText, Open
<1>2. /\ Reads(parser, meant, anchor) /\ Parts(parser, meant) /\ ~parser.crashed
      /\ pre \in BOOLEAN
  BY <1>1, WithinDocument
<1>3. /\ Reads(q, meant, anchor) /\ Parts(q, meant) /\ ~q.crashed
      /\ q.next_style = e /\ Innermost(q.styleStack) = e
  BY <1>2, StartReads
<1> HIDE DEF q
<1>4. UNCHANGED <<anchor, meant>> /\ pre' \in BOOLEAN /\ styled' \in BOOLEAN
  BY <1>1, <1>2
<1>5. styled' => q.next_style = Innermost(q.styleStack)
  BY <1>3
<1>6. QED
  BY <1>1, <1>3, <1>4, <1>5, GoesOn

\* A heading or <PRE>, which does not wait.
LEMMA ReadStartAtOnceKeeps ==
  ASSUME Inv, NEW e \in Element, ReadStartAtOnce(e)
  PROVE  Inv'
<1> DEFINE p == StartStyle(parser, e)
           q == UpdateStyle(p)
<1>1. /\ Continue(q, "text") /\ state \in Open /\ styled' = TRUE
      /\ pre' = (pre \/ e = Preformatted) /\ UNCHANGED <<anchor, meant>>
  BY DEF ReadStartAtOnce, InText, Open
<1>2. /\ Reads(parser, meant, anchor) /\ Parts(parser, meant) /\ ~parser.crashed
      /\ pre \in BOOLEAN
  BY <1>1, WithinDocument
<1>3. /\ Reads(p, meant, anchor) /\ Parts(p, meant) /\ ~p.crashed
      /\ p.next_style = e /\ e # None /\ Innermost(p.styleStack) = e
  BY <1>2, StartReads
<1> HIDE DEF p
<1>4. Updated(p, q, meant, anchor)
  BY <1>3, UpdateStyleReads
<1> HIDE DEF q
<1>5. UNCHANGED <<anchor, meant>> /\ pre' \in BOOLEAN /\ styled' \in BOOLEAN
  BY <1>1, <1>2
<1>6. /\ Reads(q, meant, anchor) /\ Parts(q, meant) /\ ~q.crashed
      /\ q.next_style = Innermost(q.styleStack)
  BY <1>3, <1>4 DEF Updated
<1>7. QED
  BY <1>1, <1>5, <1>6, GoesOn

\* The end of an element, known or not, within an element or outside all.
LEMMA EndKeeps ==
  ASSUME Inv, state \in Open, Continue(EndStyle(parser), "text"),
         UNCHANGED <<anchor, meant>>, pre' \in BOOLEAN, styled' \in BOOLEAN
  PROVE  Inv'
<1> DEFINE q == EndStyle(parser)
<1>1. /\ Reads(parser, meant, anchor) /\ Parts(parser, meant) /\ ~parser.crashed
      /\ parser \in Parsers
  BY WithinDocument
<1>2. /\ q \in Parsers /\ q.text = parser.text /\ q.current_style = parser.current_style
      /\ q.output_in_word = parser.output_in_word /\ q.crashed = parser.crashed
      /\ q.next_style = Innermost(q.styleStack)
  BY <1>1, EndStyleFacts
<1>3. Continue(q, "text")
  OBVIOUS
<1> HIDE DEF q
<1>4. Reads(q, meant, anchor) /\ Parts(q, meant) /\ ~q.crashed
  BY <1>1, <1>2, ReadsFrame DEF Parts
<1>5. styled' => q.next_style = Innermost(q.styleStack)
  BY <1>2
<1>6. QED
  BY <1>3, <1>4, <1>5, GoesOn

\* The end of an element.
LEMMA ReadEndKeeps ==
  ASSUME Inv, NEW e, ReadEnd(e)
  PROVE  Inv'
<1>1. /\ Continue(EndStyle(parser), "text") /\ state \in Open
      /\ UNCHANGED <<anchor, meant>> /\ pre' = (pre /\ e # Preformatted) /\ styled' = TRUE
  BY DEF ReadEnd, InText, Open
<1>2. pre' \in BOOLEAN /\ styled' \in BOOLEAN
  BY <1>1
<1>3. QED
  BY <1>1, <1>2, EndKeeps

\* The end of an example is the end of an element.
LEMMA ReadEndExampleKeeps ==
  ASSUME Inv, ReadEndExample
  PROVE  Inv'
<1>1. /\ Continue(EndStyle(parser), "text") /\ state \in Open
      /\ UNCHANGED <<pre, anchor, styled, meant>>
  BY DEF ReadEndExample, Open
<1>2. pre \in BOOLEAN /\ styled \in BOOLEAN
  BY <1>1, WithinDocument
<1>3. UNCHANGED <<anchor, meant>> /\ pre' \in BOOLEAN /\ styled' \in BOOLEAN
  BY <1>1, <1>2
<1>4. QED
  BY <1>1, <1>3, EndKeeps

\* An example is in its style from its first character on.
LEMMA ReadStartExampleKeeps ==
  ASSUME Inv, NEW e \in Element, ReadStartExample(e)
  PROVE  Inv'
<1> DEFINE p == StartStyle(parser, e)
           q == UPDATE_STYLE(p)
<1>1. /\ Continue(q, "example") /\ state \in Open /\ styled' = TRUE /\ e \in Literal
      /\ UNCHANGED <<pre, anchor, meant>> /\ "example" \in Open
  BY DEF ReadStartExample, InText, Open
<1>2. /\ Reads(parser, meant, anchor) /\ Parts(parser, meant) /\ ~parser.crashed
      /\ pre \in BOOLEAN /\ anchor \in Anchors \cup {None}
  BY <1>1, WithinDocument
<1>3. /\ Reads(p, meant, anchor) /\ Parts(p, meant) /\ ~p.crashed
      /\ p.next_style = e /\ e # None /\ Innermost(p.styleStack) = e
  BY <1>2, StartReads
<1> HIDE DEF p
<1>4. Updated(p, q, meant, anchor)
  BY <1>3, MacroReads
<1> HIDE DEF q
<1>5. /\ Reads(q, meant', anchor') /\ Parts(q, meant') /\ ~q.crashed
      /\ q.current_style = q.next_style
      /\ q.next_style = Innermost(q.styleStack) /\ Innermost(q.styleStack) \in Literal
  BY <1>1, <1>3, <1>4 DEF Updated
<1>6. anchor' \in Anchors \cup {None} /\ pre' \in BOOLEAN /\ styled' \in BOOLEAN
  BY <1>1, <1>2
<1>7. QED
  BY <1>1, <1>5, <1>6, Goes

\* What is written as it is needs no space.
LEMMA ReadExampleKeeps ==
  ASSUME Inv, NEW c \in Char, ReadExample(c)
  PROVE  Inv'
<1> DEFINE q == OUTPUT(parser, c)
           m == Meaning(FALSE, FALSE)
<1>1. /\ Continue(q, "example") /\ state = "example" /\ state \in Open
      /\ meant' = IF c \in Printing THEN Append(meant, m) ELSE meant
      /\ UNCHANGED <<pre, anchor, styled>> /\ "example" \in Open
  BY DEF ReadExample, Open
<1>2. /\ Reads(parser, meant, anchor) /\ Parts(parser, meant) /\ ~parser.crashed
      /\ parser.current_style = parser.next_style
      /\ Innermost(parser.styleStack) \in Literal
      /\ styled => parser.next_style = Innermost(parser.styleStack)
      /\ pre \in BOOLEAN /\ anchor \in Anchors \cup {None} /\ styled \in BOOLEAN
      /\ m \in Meanings
  BY <1>1, WithinDocument DEF Settled
<1>3. /\ m.anchor = anchor /\ m.styled = styled
      /\ m.element = Innermost(parser.styleStack)
  BY DEF Meaning
<1> HIDE DEF m
<1>4. anchor' \in Anchors \cup {None} /\ pre' \in BOOLEAN /\ styled' \in BOOLEAN
  BY <1>1, <1>2
<1>5. OnlyText(parser, q) /\ Reads(q, meant', anchor') /\ Parts(q, meant')
  <2>1. CASE c \in Printing
    <3> DEFINE k == Append(meant, m)
    <3>1. m.styled => parser.current_style = m.element
      BY <1>2, <1>3
    <3>2. EndsInWord(Written(parser.text)) => MayTouch(meant[Len(meant)], m)
      BY <1>2, <1>3 DEF MayTouch
    <3>3. OnlyText(parser, q) /\ Reads(q, k, anchor) /\ k # <<>> /\ k[Len(k)] = m
      BY <1>2, <1>3, <2>1, <3>1, <3>2, OutputWord
    <3> HIDE DEF q, k
    <3>4. Parts(q, k)
      BY <1>2, <1>3, <3>3 DEF Parts
    <3>5. meant' = k /\ anchor' = anchor
      BY <1>1, <2>1 DEF k
    <3>6. QED
      BY <3>3, <3>4, <3>5
  <2>2. CASE c \notin Printing
    <3>1. OnlyText(parser, q) /\ Reads(q, meant, anchor) /\ ~EndsInWord(Written(q.text))
      BY <1>2, <2>2, OutputOther
    <3> HIDE DEF q
    <3>2. Parts(q, meant)
      BY <3>1 DEF Parts
    <3>3. meant' = meant /\ anchor' = anchor
      BY <1>1, <2>2
    <3>4. QED
      BY <3>1, <3>2, <3>3
  <2>3. QED
    BY <2>1, <2>2
<1> HIDE DEF q
<1>6. /\ ~q.crashed /\ q.current_style = q.next_style
      /\ Innermost(q.styleStack) \in Literal
      /\ styled' => q.next_style = Innermost(q.styleStack)
  BY <1>1, <1>2, <1>5 DEF OnlyText
<1>7. QED
  BY <1>1, <1>4, <1>5, <1>6, Goes

\* The words of an anchor come after its style.
LEMMA ReadAnchorKeeps ==
  ASSUME Inv, NEW b \in Anchors, ReadAnchor(b)
  PROVE  Inv'
<1> DEFINE p == UPDATE_STYLE(parser)
           q == SET_STYLE(p, AnchorStyle(b))
<1>1. /\ Continue(q, "text") /\ state \in Open /\ anchor' = b
      /\ UNCHANGED <<pre, styled, meant>> /\ "text" \in Open
  BY DEF ReadAnchor, InText, Open
<1>2. /\ Reads(parser, meant, anchor) /\ Parts(parser, meant) /\ ~parser.crashed
      /\ pre \in BOOLEAN /\ styled \in BOOLEAN /\ meant \in Seq(Meanings)
      /\ styled => parser.next_style = Innermost(parser.styleStack)
  BY <1>1, WithinDocument
<1>3. Updated(parser, p, meant, anchor)
  BY <1>2, MacroReads
<1> HIDE DEF p
<1>4. p \in Parsers /\ AnchorStyle(b) \in HTStyle
  BY <1>3, AnchorMakes DEF Updated
<1>5. OnlyText(p, q) /\ q.text = SetStyle(p.text, AnchorStyle(b))
  BY <1>4, MacroTypes DEF SET_STYLE, Parsers
<1> HIDE DEF q
<1>6. anchor' \in Anchors \cup {None} /\ pre' \in BOOLEAN /\ styled' \in BOOLEAN
  BY <1>1, <1>2
<1>7. CASE parser.next_style = None
  <2>1. q \in Parsers /\ q.crashed
    BY <1>3, <1>5, <1>7 DEF Updated, OnlyText
  <2>2. QED
    BY <1>1, <1>2, <1>6, <2>1, Crashes
<1>8. CASE parser.next_style # None
  <2>1. /\ Reads(p, meant, anchor) /\ Parts(p, meant) /\ ~p.crashed
        /\ p.next_style = parser.next_style /\ p.styleStack = parser.styleStack
    BY <1>3, <1>8 DEF Updated
  <2>2. /\ LastAttributes(p.text) =
             [font |-> FontOf[p.current_style], anchor |-> anchor, black |-> TRUE]
        /\ p.current_style \in Element
    BY <1>4, <2>1 DEF Reads, Parsers
  <2>3. Apply(AnchorStyle(b), LastAttributes(p.text)) =
          [font |-> FontOf[p.current_style], anchor |-> b, black |-> TRUE]
    <3> DEFINE at == LastAttributes(p.text)
    <3>1. at.font = FontOf[p.current_style]
      BY <2>2
    <3> HIDE DEF at
    <3>2. Apply(AnchorStyle(b), at) = [font |-> at.font, anchor |-> b, black |-> TRUE]
      BY AnchorMakes
    <3>3. QED
      BY <3>1, <3>2 DEF at
  <2>4. q \in Parsers /\ q.current_style = p.current_style
    BY <1>5 DEF OnlyText
  <2>5. Reads(q, meant, b) /\ Written(q.text) = Written(p.text)
    BY <1>4, <1>5, <2>1, <2>2, <2>3, <2>4, StyleReads
  <2>6. Parts(q, meant)
    BY <1>5, <2>1, <2>5 DEF Parts, OnlyText
  <2>7. ~q.crashed /\ (styled' => q.next_style = Innermost(q.styleStack))
    BY <1>1, <1>2, <1>5, <2>1 DEF OnlyText
  <2>8. QED
    BY <1>1, <1>6, <2>5, <2>6, <2>7, Goes
<1>9. QED
  BY <1>7, <1>8

\* What comes after an anchor is in the same style and in no anchor.
LEMMA ReadEndAnchorKeeps ==
  ASSUME Inv, ReadEndAnchor
  PROVE  Inv'
<1> DEFINE q == SET_STYLE(parser, EndAnchorStyle)
<1>1. /\ Continue(q, "text") /\ state \in Open /\ anchor' = None
      /\ UNCHANGED <<pre, styled, meant>> /\ "text" \in Open
  BY DEF ReadEndAnchor, InText, Open
<1>2. /\ Reads(parser, meant, anchor) /\ Parts(parser, meant) /\ ~parser.crashed
      /\ parser \in Parsers
      /\ pre \in BOOLEAN /\ styled \in BOOLEAN /\ meant \in Seq(Meanings)
      /\ styled => parser.next_style = Innermost(parser.styleStack)
  BY <1>1, WithinDocument
<1>3. EndAnchorStyle \in HTStyle
  BY AnchorMakes
<1>4. OnlyText(parser, q) /\ q.text = SetStyle(parser.text, EndAnchorStyle)
  BY <1>2, <1>3, MacroTypes DEF SET_STYLE, Parsers
<1> HIDE DEF q
<1>5. anchor' \in Anchors \cup {None} /\ pre' \in BOOLEAN /\ styled' \in BOOLEAN
  BY <1>1, <1>2
<1>6. /\ LastAttributes(parser.text) =
           [font |-> FontOf[parser.current_style], anchor |-> anchor, black |-> TRUE]
      /\ parser.current_style \in Element
  BY <1>2 DEF Reads, Parsers
<1>7. Apply(EndAnchorStyle, LastAttributes(parser.text)) =
        [font |-> FontOf[parser.current_style], anchor |-> None, black |-> TRUE]
  <2> DEFINE at == LastAttributes(parser.text)
  <2>1. at.font = FontOf[parser.current_style]
    BY <1>6
  <2> HIDE DEF at
  <2>2. Apply(EndAnchorStyle, at) = [font |-> at.font, anchor |-> None, black |-> TRUE]
    BY AnchorMakes
  <2>3. QED
    BY <2>1, <2>2 DEF at
<1>8. q \in Parsers /\ q.current_style = parser.current_style
  BY <1>4 DEF OnlyText
<1>9. Reads(q, meant, None) /\ Written(q.text) = Written(parser.text)
  BY <1>2, <1>3, <1>4, <1>6, <1>7, <1>8, StyleReads
<1>10. Parts(q, meant)
  BY <1>2, <1>4, <1>9 DEF Parts, OnlyText
<1>11. ~q.crashed /\ (styled' => q.next_style = Innermost(q.styleStack))
  BY <1>1, <1>2, <1>4 DEF OnlyText
<1>12. QED
  BY <1>1, <1>5, <1>9, <1>10, <1>11, Goes

\* The stream ends, within an example too: the newline is no word, and the
\* dummy goes.
LEMMA EndOfStreamKeeps ==
  ASSUME Inv, EndOfStream
  PROVE  Inv'
<1> DEFINE p == OUTPUT(parser, NewLine)
           t == FinishOutput(p.text)
           none == <<>>
           q == [p EXCEPT !.text = t, !.styleStack = none]
<1>1. /\ parser' = q /\ state \in Open /\ state' = "idle" /\ meant' = meant
      /\ pre' = FALSE /\ anchor' = None /\ styled' = FALSE
  BY DEF EndOfStream, Return, InText, Open
<1>2. Reads(parser, meant, anchor) /\ ~parser.crashed /\ meant \in Seq(Meanings)
  BY <1>1, WithinDocument
<1>3. NewLine \in Char /\ NewLine \notin Printing
  BY Characters
<1>4. OnlyText(parser, p) /\ Reads(p, meant, anchor)
  BY <1>2, <1>3, OutputOther
<1> HIDE DEF p
<1>5. Sound(p.text) /\ Good(Written(p.text), meant) /\ p \in Parsers /\ ~p.crashed
  BY <1>2, <1>4 DEF Reads, OnlyText
<1>6. Sound(t) /\ ~t.endsWithDummyCharacter /\ Written(t) = Written(p.text)
  BY <1>5, FinishOutputKeeps
<1>7. t \in Text /\ Good(t.storage, meant)
  BY <1>5, <1>6 DEF Sound, Written
<1> HIDE DEF t
<1>8. none \in Seq(Element)
  OBVIOUS
<1> HIDE DEF none
<1>9. q \in Parsers /\ q.text = t /\ ~q.crashed
  BY <1>5, <1>7, <1>8 DEF Parsers
<1> HIDE DEF q
<1>10. QED
  BY <1>1, <1>2, <1>7, <1>9, Stops

\* </NODE>: the dummy stays in the text.
LEMMA EndOfNodeKeeps ==
  ASSUME Inv, EndOfNode
  PROVE  Inv'
<1> DEFINE none == <<>>
           q == [parser EXCEPT !.styleStack = none]
<1>1. /\ parser' = q /\ state \in Open /\ state' = "idle" /\ meant' = meant
      /\ pre' = FALSE /\ anchor' = None /\ styled' = FALSE
  BY DEF EndOfNode, Return, InText, Open
<1>2. /\ Reads(parser, meant, anchor) /\ ~parser.crashed /\ meant \in Seq(Meanings)
      /\ parser \in Parsers
  BY <1>1, WithinDocument
<1>3. Good(parser.text.storage, meant)
  BY <1>2, StorageGood
<1>4. none \in Seq(Element)
  OBVIOUS
<1> HIDE DEF none
<1>5. q \in Parsers /\ q.text = parser.text /\ ~q.crashed
  BY <1>2, <1>4 DEF Parsers
<1> HIDE DEF q
<1>6. QED
  BY <1>1, <1>2, <1>3, <1>5, Stops

\* The rest of a file takes the place of the words read.
LEMMA RestOfFileKeeps ==
  ASSUME Inv, RestOfFile
  PROVE  Inv'
<1> DEFINE rest == [ch |-> Rest, at |-> Bare]
           none == <<>>
           line == <<rest>>
<1>1. PICK next \in {parser.next_style, Example} :
        parser' = [ parser EXCEPT !.text.storage = line,
                                  !.next_style = next,
                                  !.styleStack = none ]
  BY DEF RestOfFile
<1>2. /\ state \in Open /\ state' = "idle" /\ meant' = <<>>
      /\ pre' = FALSE /\ anchor' = None /\ styled' = FALSE
  BY DEF RestOfFile, Return, InText, Open
<1>3. parser \in Parsers /\ ~parser.crashed
  BY <1>2, WithinDocument
<1>4. rest \in Cell /\ rest.ch \notin Printing
  BY Characters DEF Cell, Bare, Attr
<1>5. line \in Seq(Cell) /\ Good(line, <<>>) /\ none \in Seq(Element)
  BY <1>4, GoodEmpty
<1> HIDE DEF rest, line, none
<1>6. next \in Element \cup {None}
  BY <1>3, Elements DEF Parsers
<1> DEFINE t == [parser.text EXCEPT !.storage = line]
<1>7. t \in Text /\ t.storage = line
  BY <1>3, <1>5 DEF Parsers, Text
<1> DEFINE q == [parser EXCEPT !.text = t, !.next_style = next, !.styleStack = none]
<1>8. parser' = q
  BY <1>1
<1> HIDE DEF t
<1>9. q \in Parsers /\ q.text = t /\ ~q.crashed
  BY <1>3, <1>5, <1>6, <1>7 DEF Parsers
<1> HIDE DEF q
<1>10. meant' \in Seq(Meanings) /\ Good(parser'.text.storage, meant')
  BY <1>2, <1>5, <1>7, <1>8, <1>9
<1>11. QED
  BY <1>2, <1>8, <1>9, <1>10, Stops

-----------------------------------------------------------------------------
(* The invariant, and what follows from it.                                *)

\* Nothing is in the text before the first document.
LEMMA Initially ==
  ASSUME Init
  PROVE  Inv
<1>1. <<>> \in Seq(Element) /\ <<>> \in Seq(Meanings) /\ <<>> \in Seq(Cell)
  OBVIOUS
<1>2. NewText \in Text
  BY <1>1 DEF NewText, Text
<1>3. parser \in Parsers
  BY <1>1, <1>2, Elements DEF Init, Parsers
<1>4. TypeOK
  BY <1>1, <1>3 DEF Init, TypeOK
<1>5. state = "idle" /\ ~parser.crashed /\ Storage = <<>> /\ meant = <<>>
  BY DEF Init, Storage, NewText
<1>6. QED
  BY <1>4, <1>5, GoodEmpty DEF Inv, Open

\* Every step of readSGML keeps the invariant.
LEMMA Inductive ==
  ASSUME Inv, [Next]_vars
  PROVE  Inv'
<1>1. CASE UNCHANGED vars
  BY <1>1 DEF vars, Inv, TypeOK, Reading, Settled, Storage
<1>2. Word \in Char /\ Word \in Printing /\ NewLine \in Char
  BY Characters DEF Printing
<1>3. ASSUME NEW b \in BOOLEAN, ReadWord(Word, b) \/ ReadMore(Word, b)
      PROVE  Inv'
  BY <1>2, <1>3, ReadWordKeeps, ReadMoreKeeps
<1>4. ASSUME NEW e \in Element,
             ReadStart(e) \/ ReadStartAtOnce(e) \/ ReadStartExample(e)
      PROVE  Inv'
  BY <1>4, ReadStartKeeps, ReadStartAtOnceKeeps, ReadStartExampleKeeps
<1>5. ASSUME NEW c \in {Word, NewLine}, ReadExample(c)
      PROVE  Inv'
  BY <1>2, <1>5, ReadExampleKeeps
<1>6. CASE ReadBadEntity \/ ReadSpace \/ ReadTab \/ ReadNewLine
  BY <1>6, ReadBadEntityKeeps, ReadSpaceKeeps, ReadTabKeeps, ReadNewLineKeeps
<1>7. CASE ReadJunk \/ ReadParagraph \/ ReadDefinition
  BY <1>7, ReadJunkKeeps, ReadParagraphKeeps, ReadDefinitionKeeps
<1>8. CASE EndOfStream \/ EndOfNode \/ RestOfFile
  BY <1>8, EndOfStreamKeeps, EndOfNodeKeeps, RestOfFileKeeps
<1>9. QED
  BY <1>1, <1>3, <1>4, <1>5, <1>6, <1>7, <1>8, BeginDocumentKeeps, ReadEndKeeps,
     ReadEndExampleKeeps, ReadAnchorKeeps, ReadEndAnchorKeeps DEF Next

\* Every word readSGML has written is in the text as it was meant.
THEOREM Invariance == Spec => []Inv
<1>1. Init => Inv
  BY Initially
<1>2. Inv /\ [Next]_vars => Inv'
  BY Inductive
<1>3. QED
  BY <1>1, <1>2, PTL DEF Spec

\* The text, the stack of styles and the parser's other variables are what
\* readSGML takes them to be.
THEOREM Types == Spec => []TypeOK
<1>1. Inv => TypeOK
  BY DEF Inv
<1>2. QED
  BY <1>1, Invariance, PTL

\* In the text there is a word for each that was read.
LEMMA TextGood ==
  ASSUME Inv, state # "crashed"
  PROVE  /\ Good(Storage, meant) /\ WordPlaces = Places(Storage)
         /\ \A i : WordAt(i) = Count(Storage, i)
<1>1. Good(Storage, meant)
  <2>1. CASE state \in Open
    BY <2>1, WithinDocument, StorageGood DEF Storage
  <2>2. CASE state = "idle"
    BY <2>2 DEF Inv
  <2>3. QED
    BY <2>1, <2>2 DEF Inv, TypeOK, Open
<1>2. WordPlaces = Places(Storage)
  BY DEF WordPlaces, Places
<1>3. \A i : WordAt(i) = Count(Storage, i)
  BY <1>2 DEF WordAt, Count
<1>4. QED
  BY <1>1, <1>2, <1>3

\* Setting a style late, on a dummy, or for elements ended out of turn never
\* takes from a word the style and the anchor it was read in.
THEOREM WordsKeepTheirStyle == Spec => []WordsInTheirStyle
<1>1. ASSUME Inv, state # "crashed", NEW i \in WordPlaces
      PROVE  LET m == meant[WordAt(i)]
             IN  /\ Storage[i].at.anchor = m.anchor
                 /\ m.styled => Storage[i].at.font = FontOf[m.element]
  <2>1. Fits(Storage[i].at, meant[WordAt(i)])
    BY <1>1, TextGood DEF Good
  <2>2. QED
    BY <2>1 DEF Fits
<1>2. Inv => WordsInTheirStyle
  BY <1>1 DEF WordsInTheirStyle
<1>3. QED
  BY <1>2, Invariance, PTL

\* output_in_word is set whenever the text ends in a word, but for the two
\* cases the property names, so the space between two words is never lost.
THEOREM WordsStayApart == Spec => []WordsApart
<1>1. ASSUME Inv, state # "crashed", NEW i \in WordPlaces, i + 1 \in WordPlaces
      PROVE  \/ meant[WordAt(i + 1)].more
             \/ {meant[WordAt(i)].element, meant[WordAt(i + 1)].element} \cap Literal # {}
             \/ meant[WordAt(i)].entity
  <2>1. MayTouch(meant[WordAt(i)], meant[WordAt(i + 1)])
    BY <1>1, TextGood DEF Good
  <2>2. QED
    BY <2>1 DEF MayTouch
<1>2. Inv => WordsApart
  BY <1>1 DEF WordsApart
<1>3. QED
  BY <1>2, Invariance, PTL

=============================================================================
