---------------------------- MODULE MCDocuments ----------------------------
(***************************************************************************)
(* Documents for TLC: two file hosts, this one among them, and a server    *)
(* with two ports; names of one or three steps, with and without dots.     *)
(***************************************************************************)
EXTENDS Documents

MCWord == {"file", "http", "here", "far", "off", "web", "8001", "8002", "a", "b", "html", "ps", "z"}
MCHost == <<"here">>
MCFar == <<"far", ".", "off">>
MCHome == <<"/", "me">>
MCResolver == {<<"here">>, MCFar, <<"web">>}
MCNumberOf == [n \in {"8001", "8002"} |-> IF n = "8001" THEN 8001 ELSE 8002]
FileHost == {MCHost, MCFar}
WebHost == {<<"web">>, <<"web", ":", "8001">>, <<"web", ":", "8002">>}
Steps(S, n) == UNION {[1 .. i -> S] : i \in 1 .. n}
Names == {<<"a">>, <<"b">>}

MCPlace ==
  {[access |-> <<"file">>, host |-> h, rooted |-> TRUE, steps |-> s, anchor |-> None] :
      h \in FileHost, s \in Steps(Names, 2) \cup {<<<<"a">>, <<>>>>, <<<<"a", ".", "html">>>>,
                                     <<<<"a", ".", "html">>, <<"b">>>>, <<<<"b", ".", "ps">>>>}}
  \cup
  {[access |-> <<"http">>, host |-> h, rooted |-> TRUE, steps |-> s, anchor |-> None] :
      h \in WebHost, s \in Steps(Names, 2)}

MCReference ==
  [access : {None}, host : {None}, rooted : BOOLEAN,
   steps : Steps({<<"a">>, <<"b">>, Up, Same, <<>>}, 3) \cup {<<>>}, anchor : {None, <<"z">>}]
  \cup
  [access : {None, <<"file">>}, host : FileHost \cup {None}, rooted : {TRUE},
   steps : Steps({<<"a">>, Up}, 2), anchor : {None}]
  \cup
  [access : {None, <<"http">>}, host : WebHost \cup {None}, rooted : {TRUE},
   steps : Steps({<<"a">>}, 2), anchor : {None}]
=============================================================================
