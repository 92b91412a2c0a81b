------------------------------ MODULE SgmlText ------------------------------
(***************************************************************************)
(* readSGML of ParseHTML.h: a document is read tag by tag and word by word *)
(* and written with the output routines of HyperText.m.                    *)
(*                                                                         *)
(* The style of an element is not set when its tag is read but when the    *)
(* next word is (or an anchor begins), so that empty elements leave no     *)
(* newlines.  The parser's variables are static: what one document leaves  *)
(* in them the next one finds.                                             *)
(*                                                                         *)
(* A step reads a tag, a character of a word, or a piece of white space    *)
(* (one character stands for it).                                          *)
(***************************************************************************)
EXTENDS TextStorage, FiniteSets

CONSTANTS
  Element,       \* the SGML styles
  FontOf,        \* [Element -> Font], their styles of the sheet
  Normal,        \* the element in force where there is none
  FreeFormat,    \* those in which the ends of lines are word breaks only
  Heading,       \* <H1> to <H6>
  Preformatted,  \* <PRE>
  Literal,       \* <XMP> and <LISTING>, read as they are up to their end tag
  Example,       \* <XMP>
  List,          \* <UL> and <OL>, the only one that writes text of its own
  Space, Tab, NewLine,  \* the last for one or more; the parser tells none from another
                 \* once it is in the text, so they may be one
  MaxDepth,      \* bound: elements open at once
  MaxText        \* bound: characters of a text

Word    == "word"
Less    == "<"         \* in a document it is an entity
Bullet  == "bullet"    \* with its tab
Rest    == "rest"      \* the rest of a file, read as plain or rich text

\* What words are made of.
Printing == {Word, Less}

ASSUME SgmlAssumption ==
  /\ {Word, Less, Space, Tab, NewLine, Bullet, Rest} \subseteq Char
  /\ {Space, Tab, NewLine} \cap Printing = {}
  /\ FontOf \in [Element -> Font]
  /\ {Normal, Preformatted, List} \cup Literal \subseteq Element /\ Example \in Literal
  /\ Heading \subseteq Element /\ FreeFormat \subseteq Element
  /\ None \notin Element
  /\ MaxDepth \in Nat /\ MaxText \in Nat

VARIABLES
  parser,  \* the text and the parser's static variables
  state,   \* "idle", "text", "word", "example", or "crashed"
  pre,     \* white_significant
  anchor,  \* history: the anchor whose tag is open, or None
  styled,  \* history: the document has had a tag that names a style
  meant    \* history: for each word read, what it was read in

vars == <<parser, state, pre, anchor, styled, meant>>

Parsers ==
  [ text           : Text,
    current_style  : Element,
    next_style     : Element \cup {None},   \* NULL before the first document
    styleStack     : Seq(Element),
    output_in_word : BOOLEAN,
    crashed        : BOOLEAN ]

Meanings == [ element : Element,
              anchor  : Anchors \cup {None},
              styled  : BOOLEAN,
              entity  : BOOLEAN,   \* the word began with an unknown entity
              more    : BOOLEAN ]  \* not the first character of its word

TypeOK ==
  /\ parser \in Parsers
  /\ state \in {"idle", "text", "word", "example", "crashed"}
  /\ pre \in BOOLEAN
  /\ anchor \in Anchors \cup {None}
  /\ styled \in BOOLEAN
  /\ meant \in Seq(Meanings)

-----------------------------------------------------------------------------
(* The output macros, on the parser p.                                     *)

OUTPUT(p, c) == [p EXCEPT !.text = OutputChar(@, c)]

SET_STYLE(p, style) == [p EXCEPT !.text = SetStyle(@, style)]

\* start_text and paragraph_text
Marked(p, e) == IF e = List THEN OUTPUT(p, Bullet) ELSE p

OutputParagraph(p) ==
  [Marked(OUTPUT(p, NewLine), p.current_style) EXCEPT !.output_in_word = FALSE]

\* Mutant: a literal style ends the word without a new line.
UpdateStyleForgets(p) ==
  LET broken == IF p.current_style \in FreeFormat THEN OUTPUT(p, NewLine) ELSE p
      e      == p.next_style
  IN  IF e = None
        THEN [p EXCEPT !.crashed = TRUE]
        ELSE Marked([SET_STYLE(broken, SheetStyle(FontOf[e])) EXCEPT
                       !.current_style = e, !.output_in_word = FALSE], e)

\* Into the next style, on a new line unless the text before is literal.
UpdateStyle(p) ==
  LET broken == IF p.current_style \in FreeFormat
                  THEN [OUTPUT(p, NewLine) EXCEPT !.output_in_word = FALSE]
                  ELSE p
      e      == p.next_style
  IN  IF e = None
        THEN [p EXCEPT !.crashed = TRUE]
        ELSE Marked([SET_STYLE(broken, SheetStyle(FontOf[e])) EXCEPT !.current_style = e], e)

\* The macro of the same name.
UPDATE_STYLE(p) == IF p.current_style = p.next_style THEN p ELSE UpdateStyle(p)

\* Mutant: outside all elements the style is that of no element.
InnermostNull(stack) == IF stack = <<>> THEN None ELSE stack[Len(stack)]

Innermost(stack) == IF stack = <<>> THEN Normal ELSE stack[Len(stack)]

StartStyle(p, e) ==
  [p EXCEPT !.styleStack = Append(@, e), !.next_style = e]

\* Mutant: the end of an element is the end of all.
EndStyleOutermost(p) ==
  LET stack == IF p.styleStack = <<>> THEN <<>> ELSE Front(p.styleStack)
  IN  [p EXCEPT !.styleStack = stack, !.next_style = Normal]

\* Too many ends are no error.
EndStyle(p) ==
  LET stack == IF p.styleStack = <<>> THEN <<>> ELSE Front(p.styleStack)
  IN  [p EXCEPT !.styleStack = stack, !.next_style = Innermost(stack)]

-----------------------------------------------------------------------------
(* Reading.                                                                *)

Init ==
  /\ parser = [ text |-> NewText, current_style |-> Normal, next_style |-> None,
                styleStack |-> <<>>, output_in_word |-> FALSE, crashed |-> FALSE ]
  /\ state = "idle"
  /\ pre = FALSE
  /\ anchor = None
  /\ styled = FALSE
  /\ meant = <<>>

\* An exception leaves readSGML where it is; a null pointer ends the program.
Continue(p, s) ==
  /\ Len(p.text.storage) <= MaxText
  /\ Len(p.styleStack) <= MaxDepth
  /\ parser' = p
  /\ state' = IF p.crashed THEN "crashed" ELSE IF p.text.raised THEN "idle" ELSE s

BeginDocument ==
  /\ state = "idle"
  /\ Continue([ parser EXCEPT
                  !.text = SetStyle(AppendBegin(@), SheetStyle(FontOf[Normal])),
                  !.current_style = Normal,
                  !.styleStack = <<>>,
                  !.output_in_word = FALSE ], "text")
  /\ pre' = FALSE
  /\ anchor' = None
  /\ styled' = FALSE
  /\ meant' = <<>>

InText == state \in {"text", "word"}

\* What a character read now should look like.
Meaning(entity, more) ==
  [ element |-> Innermost(parser.styleStack),
    anchor  |-> anchor,
    styled  |-> styled,
    entity  |-> entity,
    more    |-> more ]

\* The first character of a word, with a space before it if the last one was of
\* a word.  A word that begins with an entity the parser does not know (of which
\* it drops the first characters) leaves output_in_word as it was.
ReadWord(c, entity) ==
  LET p == UPDATE_STYLE(parser)
      q == OUTPUT(IF p.output_in_word THEN OUTPUT(p, Space) ELSE p, c)
  IN  /\ state = "text"
      /\ Continue([q EXCEPT !.output_in_word = @ \/ ~entity], "word")
      /\ meant' = Append(meant, Meaning(entity, FALSE))
      /\ UNCHANGED <<pre, anchor, styled>>

\* An unknown entity with nothing but white space or a tag after it.
ReadBadEntity ==
  LET p == UPDATE_STYLE(parser)
  IN  /\ state = "text"
      /\ Continue(IF p.output_in_word THEN OUTPUT(p, Space) ELSE p, "text")
      /\ UNCHANGED <<pre, anchor, styled, meant>>

\* The characters after it are written faster; only a known entity among them
\* sets output_in_word.
ReadMore(c, known) ==
  /\ state = "word"
  /\ Continue([OUTPUT(parser, c) EXCEPT !.output_in_word = @ \/ known], "word")
  /\ meant' = Append(meant, Meaning(meant[Len(meant)].entity /\ ~known, TRUE))
  /\ UNCHANGED <<pre, anchor, styled>>

ReadSpace ==
  /\ InText
  /\ Continue([OUTPUT(parser, Space) EXCEPT !.output_in_word = FALSE], "text")
  /\ UNCHANGED <<pre, anchor, styled, meant>>

ReadTab ==
  /\ InText
  /\ Continue([OUTPUT(UPDATE_STYLE(parser), Tab) EXCEPT !.output_in_word = FALSE], "text")
  /\ UNCHANGED <<pre, anchor, styled, meant>>

\* The end of a line.  Outside <PRE> it writes nothing, and the word after it
\* gets its space.
ReadNewLine ==
  /\ InText
  /\ Continue(IF pre THEN OutputParagraph(parser) ELSE parser, "text")
  /\ UNCHANGED <<pre, anchor, styled, meant>>

\* A tag it does not know is skipped, and ends the word before it.
ReadJunk ==
  /\ InText
  /\ Continue(parser, "text")
  /\ UNCHANGED <<pre, anchor, styled, meant>>

\* <P>, <LI> after the first, <DT>
ReadParagraph ==
  /\ InText
  /\ Continue(OutputParagraph(parser), "text")
  /\ UNCHANGED <<pre, anchor, styled, meant>>

\* <DD>
ReadDefinition ==
  /\ InText
  /\ Continue(OUTPUT(parser, Tab), "text")
  /\ UNCHANGED <<pre, anchor, styled, meant>>

\* <ADDRESS>, <DL>, <UL> and <OL>
ReadStart(e) ==
  /\ InText
  /\ e \notin Heading \cup {Normal, Preformatted} \cup Literal
  /\ Continue(StartStyle(parser, e), "text")
  /\ styled' = TRUE
  /\ UNCHANGED <<pre, anchor, meant>>

\* <H1> to <H6> and <PRE> are set at once.
ReadStartAtOnce(e) ==
  /\ InText
  /\ e \in Heading \cup {Preformatted}
  /\ Continue(UpdateStyle(StartStyle(parser, e)), "text")
  /\ pre' = (pre \/ e = Preformatted)
  /\ styled' = TRUE
  /\ UNCHANGED <<anchor, meant>>

\* The end of an element, whichever it is; </PRE> ends the lines too.
ReadEnd(e) ==
  /\ InText
  /\ Continue(EndStyle(parser), "text")
  /\ pre' = (pre /\ e # Preformatted)
  /\ styled' = TRUE
  /\ UNCHANGED <<anchor, meant>>

\* <XMP> and <LISTING>: what follows is written as it is, to the end tag (how
\* the end tag is told from the text is left out).
ReadStartExample(e) ==
  /\ InText
  /\ e \in Literal
  /\ Continue(UPDATE_STYLE(StartStyle(parser, e)), "example")
  /\ styled' = TRUE
  /\ UNCHANGED <<pre, anchor, meant>>

ReadExample(c) ==
  /\ state = "example"
  /\ Continue(OUTPUT(parser, c), "example")
  /\ meant' = IF c \in Printing THEN Append(meant, Meaning(FALSE, FALSE)) ELSE meant
  /\ UNCHANGED <<pre, anchor, styled>>

ReadEndExample ==
  /\ state = "example"
  /\ Continue(EndStyle(parser), "text")
  /\ UNCHANGED <<pre, anchor, styled, meant>>

\* <A>, at its ">"
ReadAnchor(a) ==
  /\ InText
  /\ Continue(SET_STYLE(UPDATE_STYLE(parser), AnchorStyle(a)), "text")
  /\ anchor' = a
  /\ UNCHANGED <<pre, styled, meant>>

\* </A>
ReadEndAnchor ==
  /\ InText
  /\ Continue(SET_STYLE(parser, EndAnchorStyle), "text")
  /\ anchor' = None
  /\ UNCHANGED <<pre, styled, meant>>

\* What is local to readSGML goes with it.
Return == pre' = FALSE /\ anchor' = None /\ styled' = FALSE

\* The stream ends, or is silent for four seconds.  The text is given a
\* newline and finished, the elements still open are dropped.
EndOfStream ==
  LET p == OUTPUT(parser, NewLine)
  IN  /\ InText \/ state = "example"
      /\ parser' = [p EXCEPT !.text = FinishOutput(@), !.styleStack = <<>>]
      /\ state' = "idle" /\ Return
      /\ UNCHANGED meant

\* </NODE>: reading ends without the newline and FINISH_OUTPUT.
EndOfNode ==
  /\ InText
  /\ parser' = [parser EXCEPT !.styleStack = <<>>]
  /\ state' = "idle" /\ Return
  /\ UNCHANGED meant

\* <PLAINTEXT>, or <RESTOFFILE> and a format, of which the plain one starts an
\* example first.  The rest of the file takes the place of the text.
RestOfFile ==
  LET rest == [ch |-> Rest, at |-> Bare]
  IN  /\ InText
      /\ \E next \in {parser.next_style, Example} :
           parser' = [ parser EXCEPT !.text.storage = <<rest>>,
                                     !.next_style = next,
                                     !.styleStack = <<>> ]
      /\ state' = "idle" /\ Return
      /\ meant' = <<>>

Next ==
  \/ BeginDocument
  \/ \E b \in BOOLEAN : ReadWord(Word, b) \/ ReadMore(Word, b)
  \/ ReadBadEntity \/ ReadSpace \/ ReadTab \/ ReadNewLine
  \/ ReadJunk \/ ReadParagraph \/ ReadDefinition
  \/ \E e \in Element : ReadStart(e) \/ ReadStartAtOnce(e) \/ ReadStartExample(e)
  \/ \E e \in {Normal, Preformatted} : ReadEnd(e)   \* others are like the first
  \/ \E c \in {Word, NewLine} : ReadExample(c)
  \/ ReadEndExample
  \/ \E a \in Anchors : ReadAnchor(a)
  \/ ReadEndAnchor
  \/ EndOfStream \/ EndOfNode \/ RestOfFile

Spec == Init /\ [][Next]_vars

-----------------------------------------------------------------------------

\* The places of the words in the text, and which word is at a place.
Storage == parser.text.storage
WordPlaces == {i \in DOMAIN Storage : Storage[i].ch \in Printing}
WordAt(i) == Cardinality({j \in WordPlaces : j <= i})

\* Once a document has named a style, each word is in the style of the
\* innermost element that was open where it stood, and always in the anchor
\* that was open there: neither the delay of the styles, nor the dummy
\* characters that carry them, nor wrong nesting makes a word lose either.
WordsInTheirStyle ==
  state # "crashed" =>
    \A i \in WordPlaces :
      LET m == meant[WordAt(i)]
      IN  /\ Storage[i].at.anchor = m.anchor
          /\ m.styled => Storage[i].at.font = FontOf[m.element]

\* Words that white space or a tag parts in the document are apart in the text,
\* except where an example is written as it is, and after a word that began
\* with an unknown entity.
WordsApart ==
  state # "crashed" =>
    \A i \in WordPlaces :
      i + 1 \in WordPlaces =>
        \/ meant[WordAt(i + 1)].more
        \/ {meant[WordAt(i)].element, meant[WordAt(i + 1)].element} \cap Literal # {}
        \/ meant[WordAt(i)].entity

=============================================================================
