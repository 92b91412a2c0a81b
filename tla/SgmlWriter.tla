----------------------------- MODULE SgmlWriter -----------------------------
(***************************************************************************)
(* writeSGML of ParseHTML.h: a text is written run by run, with a tag      *)
(* where a characteristic of a run changes.                                *)
(*                                                                         *)
(* The file is a sequence of characters, entities and tags, each with what *)
(* it is about.  The newlines that are part of a tag of an element in      *)
(* which they mean nothing are left out, as is the header of the file.     *)
(***************************************************************************)
EXTENDS SgmlText, FiniteSetsExt

Lists == INSTANCE SequencesExt

CONSTANTS
  Glossary,     \* <DL>
  styleTable,   \* the SGML styles in the order they are looked for
  LINE_WRAP     \* bound: 64 in the code

White == {Space, Tab, NewLine}

-----------------------------------------------------------------------------
(* The SGML styles.                                                        *)

Open(e)  == <<"open", e>>
Close(e) == <<"close", e>>
Tag(name) == <<name, None>>
Plain(c)  == <<"char", c>>

start_tag(e) == IF e = Normal THEN <<>> ELSE <<Open(e)>>
end_tag(e)   == IF e = Normal THEN <<>> ELSE <<Close(e)>>
tab_tag(e)   == IF e = Glossary THEN <<Tag("DD")>> ELSE <<Plain(Tab)>>
paragraph_tag(e) ==
  CASE e \in Heading -> <<Close(e), Open(e)>>
    [] e = List -> <<Tag("LI")>>
    [] e = Glossary -> <<Tag("DT")>>
    [] e \notin FreeFormat -> <<Plain(NewLine)>>
    [] OTHER -> <<Tag("P")>>

\* A bullet and its tab are two characters of the text, which NEXT_TEXT_CHAR
\* reads as the four bytes of their UTF-8.
Bytes(ch) == IF ch = Bullet THEN <<"E2", "80", "A2", Tab>> ELSE <<ch>>
Length(ch) == IF ch = Bullet THEN 2 ELSE 1

start_text(e) == IF e = List THEN Bytes(Bullet) ELSE <<>>
paragraph_text(e) == start_text(e)

\* The first style that has this font; several may.
findSGML(font) ==
  LET same == {i \in DOMAIN styleTable : FontOf[styleTable[i]] = font}
  IN  IF font = None \/ same = {} THEN Normal ELSE styleTable[Min(same)]

-----------------------------------------------------------------------------
(* The runs of a text, and change_run.                                     *)

\* attributeRuns: the longest stretches with the same attributes.
Runs(storage) ==
  LET Starts == {i \in DOMAIN storage : i = 1 \/ storage[i].at # storage[i - 1].at}
      Ends(i) == Min({j \in Starts \cup {Len(storage) + 1} : j > i}) - 1
  IN  [k \in 1 .. Cardinality(Starts) |->
        LET i == CHOOSE n \in Starts : Cardinality({m \in Starts : m <= n}) = k
        IN  [ anchor |-> storage[i].at.anchor,
              font   |-> storage[i].at.font,
              length |-> Lists!FoldLeft(LAMBDA n, c : n + Length(c.ch), 0,
                                  SubSeq(storage, i, Ends(i))) ]]

\* The run before the first and after the last, which has no characters.
NoRun == [anchor |-> None, font |-> None, length |-> 0]

\* The statics while a text is written: what is left to read, the file so far,
\* the current style, the prefix to be junked (None when it is over), the
\* newlines pending and the length of the line.  (currentSGML is null before the
\* first run; all the texts here begin with a run that has a font, which sets it.)
Writing(storage) ==
  [ input |-> Lists!FlattenSeq([i \in DOMAIN storage |-> Bytes(storage[i].ch)]),
    out |-> <<>>, currentSGML |-> Normal, prefix |-> None,
    newlines |-> FALSE, lineLength |-> 0 ]

Put(w, tags) == [w EXCEPT !.out = @ \o tags]

Flush(w) == IF w.newlines
            THEN [Put(w, paragraph_tag(w.currentSGML)) EXCEPT !.newlines = FALSE]
            ELSE w

\* Mutant: the escape is forgotten.
UnescapedChar(w, c) == Put(w, <<Plain(c)>>)
PutChar(w, c) ==
  Put(w, IF c = Less /\ w.currentSGML \notin Literal THEN <<<<"entity", c>>>> ELSE <<Plain(c)>>)

\* A character that is neither a tab nor a newline.  In free format it counts
\* twice for the length of the line.
PutText(w, c) ==
  LET free == w.currentSGML \in FreeFormat
      wrap == free /\ w.lineLength + 1 > LINE_WRAP /\ c = Space
  IN  [PutChar(w, IF wrap THEN NewLine ELSE c) EXCEPT
         !.lineLength = IF wrap THEN 0 ELSE @ + (IF free THEN 2 ELSE 1)]

\* Mutant: the newlines are dropped, not kept until there is text.
ParagraphLost(w) ==
  IF w.currentSGML \in FreeFormat THEN [w EXCEPT !.lineLength = 0]
  ELSE [Put(w, paragraph_tag(w.currentSGML)) EXCEPT !.lineLength = 0]

\* A newline.
ParagraphMark(w) ==
  IF w.currentSGML \in FreeFormat
  THEN [w EXCEPT !.newlines = TRUE, !.prefix = paragraph_text(w.currentSGML), !.lineLength = 0]
  ELSE [Put(w, paragraph_tag(w.currentSGML)) EXCEPT !.lineLength = 0]

\* One character of the run.
TextChar(w, c) ==
  LET junking == w.prefix \notin {None, <<>>}
      body    == [w EXCEPT !.prefix = None]
      flushed == Flush([body EXCEPT !.lineLength = IF body.newlines THEN 0 ELSE @])
  IN  CASE junking /\ c = w.prefix[1] -> [w EXCEPT !.prefix = Tail(@)]
        [] junking /\ c # w.prefix[1] /\ c \in White -> w
        [] OTHER -> CASE c = NewLine -> ParagraphMark(body)
                      [] c = Tab -> Put(flushed, tab_tag(w.currentSGML))
                      [] OTHER -> PutText(flushed, c)

\* The characters of a run are read off the input, as many as its length.
TextPart(w, n) ==
  [Lists!FoldLeft(TextChar, w, SubSeq(w.input, 1, n)) EXCEPT
     !.input = SubSeq(@, n + 1, Len(@))]

EndAnchor(w, last, r) ==
  IF r.anchor # last.anchor /\ last.anchor # None THEN Put(w, <<Tag("/A")>>) ELSE w

EndParagraph(w, last, r) ==
  IF r.font # last.font /\ last.font # None
  THEN [Put(w, end_tag(w.currentSGML)) EXCEPT !.lineLength = 0]
  ELSE w

\* How much white space is stripped at the start of a paragraph of free format.
Leading(w, r) ==
  Min({i \in 0 .. r.length : i = r.length \/ w.input[i + 1] \notin White})
Stripped(w, r) ==
  IF findSGML(r.font) \in FreeFormat THEN Leading(w, r) ELSE 0

StartParagraph(w, r, n) ==
  LET e == findSGML(r.font)
  IN  [Put(w, start_tag(e)) EXCEPT !.input = SubSeq(@, n + 1, Len(@)), !.currentSGML = e,
                                   !.prefix = start_text(e), !.newlines = FALSE]

StartAnchor(w, last, r) ==
  IF r.anchor = last.anchor THEN w
  ELSE Put(Flush(w), IF r.anchor = None THEN <<>> ELSE <<<<"A", r.anchor>>>>)

change_run(w, last, r) ==
  LET ended    == EndParagraph(EndAnchor(w, last, r), last, r)
      stripped == IF r.font # last.font THEN Stripped(ended, r) ELSE 0
      started  == IF r.font # last.font THEN StartParagraph(ended, r, stripped) ELSE ended
  IN  TextPart(StartAnchor(started, last, r), r.length - stripped)

\* The first run, the runs up to the last but one, and the end of the last.  Of
\* an empty text the loop asks for a run that is not there: an exception.
writeSGML(storage) ==
  LET runs  == Runs(storage)
      first == change_run(Writing(storage), NoRun, runs[1])
      rest  == Lists!FoldLeft(LAMBDA w, i : change_run(w, runs[i - 1], runs[i]), first,
                        [k \in 1 .. Len(runs) - 2 |-> k + 1])
  IN  change_run(rest, runs[Len(runs)], NoRun).out
=============================================================================
