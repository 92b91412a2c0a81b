----------------------------- MODULE MCSgmlText -----------------------------
(***************************************************************************)
(* A small instance of SgmlText for TLC.                                   *)
(***************************************************************************)
EXTENDS SgmlText

MCChar == {Word, Less, Space, Tab, NewLine, Bullet, Rest}

\* <PRE> and <XMP> have one style of the sheet.
MCFontOf ==
  [e \in Element |-> IF e = "pre" THEN "xmp" ELSE e]
=============================================================================
