--------------------------- MODULE TextAttributes ---------------------------
(***************************************************************************)
(* The attributes of a character of a hypertext, and the styles that       *)
(* change them (HTStyle.h, HyperText.m).                                   *)
(***************************************************************************)
CONSTANTS
  Char,     \* what is written
  Font,     \* a font with its paragraph style: what a sheet style sets
  Anchors,  \* the anchors of the text
  None      \* no font, no anchor

ASSUME TextAssumption == None \notin Font \cup Anchors

\* "black" is the text colour every style sets.
Attr == [font : Font \cup {None}, anchor : Anchors \cup {None}, black : BOOLEAN]

\* What text has that was written before any style was set.
Bare == [font |-> None, anchor |-> None, black |-> FALSE]

\* A style of the sheet, the style that begins an anchor, the one that ends it.
SheetStyle(f)  == [font |-> f, anchor |-> None, clearAnchor |-> FALSE]
AnchorStyle(a) == [font |-> None, anchor |-> a, clearAnchor |-> FALSE]
EndAnchorStyle == [font |-> None, anchor |-> None, clearAnchor |-> TRUE]

HTStyle == {SheetStyle(f) : f \in Font} \cup {AnchorStyle(a) : a \in Anchors}
             \cup {EndAnchorStyle}

\* The attributes that a style makes of others.
Apply(style, at) ==
  [ font   |-> IF style.font # None THEN style.font ELSE at.font,
    anchor |-> IF style.anchor # None \/ style.clearAnchor
                 THEN style.anchor ELSE at.anchor,
    black  |-> TRUE ]

=============================================================================
