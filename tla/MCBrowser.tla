----------------------------- MODULE MCBrowser -----------------------------
(***************************************************************************)
(* Small instances of Browser for TLC.  Addresses are strings that say     *)
(* what they stand for.                                                    *)
(***************************************************************************)
EXTENDS Browser

\* ~/WWW/default.html as an address ("own") and as the bare file name openMy
\* saves back to ("bare"), and the copy that comes with the application: here
\* the home page and the blank page are one.
MCPage == [personal |-> "own", plain |-> "bare", template |-> "template"]
MCPages == {MCPage}

MCScheme ==
  [a \in Addr |-> CASE a = "bare" -> "none"
                    [] a = "web"  -> "http"
                    [] a = "hits" -> "http"
                    [] a = "news" -> "news"
                    [] OTHER      -> "file"]

\* "detour" is "own" with a ".." in the path.
MCSimplified == [a \in Addr |-> IF a = "detour" THEN "own" ELSE a]

\* "hits" is the index "web" with keywords.
MCQuery == [a \in Addr |-> IF a = "web" /\ "hits" \in Addr THEN "hits" ELSE a]

Whole(a)   == [addr |-> a, tag |-> NoTag]
Part(a, t) == [addr |-> a, tag |-> t]

\* The references of texts and of the user, for each instance.
EditGiven   == {Whole("own"), Part("own", "a")}
TravelGiven == {Whole("picture")}
AliasGiven  == {Whole("own"), Whole("detour")}
SearchGiven == {Whole("web"), Whole("news")}

=============================================================================
