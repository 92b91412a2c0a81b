----------------------------- MODULE MCRoundTrip -----------------------------
(***************************************************************************)
(* Small instances of RoundTrip for TLC.                                   *)
(***************************************************************************)
EXTENDS RoundTrip

MCChar == {Word, Less, Space, Tab, NewLine, Bullet, Rest}
MCFontOf == [e \in Element |-> IF e = "pre" THEN "xmp" ELSE e]
MCTable == <<"normal", "h1", "dl", "list", "pre", "xmp", "listing">>
MCRunText == {<<Less>>, <<NewLine>>, <<Tab, Word>>, <<Word, Space, Word, NewLine, Word>>}
=============================================================================
