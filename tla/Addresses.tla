----------------------------- MODULE Addresses -----------------------------
(***************************************************************************)
(* HTParse.c: hypertext addresses taken apart, completed, simplified and   *)
(* made relative.                                                          *)
(*                                                                         *)
(* A name is a sequence of tokens: one of ":" "/" "#" "." or a word with   *)
(* none of these in it, which the code never looks into.  Where the code   *)
(* walks a string with a pointer the definition says where it stops.       *)
(***************************************************************************)
EXTENDS Integers, Sequences, FiniteSets, FiniteSetsExt, SequencesExt

CONSTANT None   \* the null pointer

Places(s, t) == {i \in DOMAIN s : s[i] = t}
From(s, i) == SubSeq(s, i, Len(s))
UpTo(s, i) == SubSeq(s, 1, i)
FirstOf(S, otherwise) == IF S = {} THEN otherwise ELSE Min(S)
LastOf(S, otherwise) == IF S = {} THEN otherwise ELSE Max(S)

\* What is between the access name and the anchor is a host, a path from the
\* root behind it, or a path.
Split(rest, hasHost, root) ==
  [ host     |-> IF hasHost THEN SubSeq(rest, 3, IF root = 0 THEN Len(rest) ELSE root - 1)
                 ELSE None,
    absolute |-> CASE rest = <<>> \/ rest[1] # "/" \/ (hasHost /\ root = 0) -> None
                   [] hasHost /\ root # 0 -> From(rest, root + 1)
                   [] OTHER -> From(rest, 2),
    relative |-> IF rest # <<>> /\ rest[1] # "/" THEN rest ELSE None ]

RestOf(rest) == Split(rest, IsPrefix(<<"/", "/">>, rest),
                      FirstOf({i \in Places(rest, "/") : i > 2}, 0))

\* What a name says of its parts.  Every colon before the first slash or
\* number sign ends the access name, so the first one does, and the last one
\* starts what follows; every number sign ends what is before it.
ScanAt(name, colons, marks) ==
  LET rest == RestOf(SubSeq(name, LastOf(colons, 0) + 1, FirstOf(marks, Len(name) + 1) - 1))
  IN [ access   |-> IF colons = {} THEN None ELSE UpTo(name, Min(colons) - 1),
       host     |-> rest.host,
       absolute |-> rest.absolute,
       relative |-> rest.relative,
       anchor   |-> IF marks = {} THEN None
                    ELSE SubSeq(name, Min(marks) + 1,
                                FirstOf({i \in marks : i > Min(marks)}, Len(name) + 1) - 1) ]

scan(name) ==
  LET stop == FirstOf(Places(name, "/") \cup Places(name, "#"), Len(name) + 1)
  IN  ScanAt(name, {i \in Places(name, ":") : i < stop}, Places(name, "#"))

\* PARSE_ACCESS and the rest
Access == "access"
HostPart == "host"
PathPart == "path"
AnchorPart == "anchor"
Punctuation == "punctuation"
PARSE_ALL == {Access, HostPart, PathPart, AnchorPart, Punctuation}

\* A name with another access inherits nothing but that access.
Inherited(given, related) ==
  IF given.access # None /\ related.access # None /\ given.access # related.access
  THEN [related EXCEPT !.host = None, !.absolute = None, !.relative = None, !.anchor = None]
  ELSE related

\* Mutant: the slash goes as well.
WithoutLastStep(path) == UpTo(path, Max(Places(path, "/")) - 1)
WithoutFile(path) == UpTo(path, Max(Places(path, "/")))

PathFrom(given, related, mark) ==
  CASE given.absolute # None -> mark \o given.absolute
    [] given.absolute = None /\ related.absolute # None ->
         LET theirs == <<"/">> \o related.absolute
         IN  IF given.relative = None THEN theirs ELSE WithoutFile(theirs) \o given.relative
    [] given.absolute = None /\ related.absolute = None /\ given.relative # None ->
         given.relative
    [] OTHER -> IF related.relative # None THEN related.relative ELSE <<>>

\* The parts that are wanted, each from the name or else from the related one.
Assembled(given, related, wanted) ==
  LET Mark(s) == IF Punctuation \in wanted THEN s ELSE <<>>
      Marked(before, x, after) ==
        IF x = None THEN <<>> ELSE Mark(before) \o x \o Mark(after)
      Part(p, before, after) ==
        IF p \notin wanted THEN <<>>
        ELSE Marked(before, IF given[p] # None THEN given[p] ELSE related[p], after)
  IN  Part(Access, <<>>, <<":">>) \o Part(HostPart, <<"/", "/">>, <<>>)
        \o (IF PathPart \in wanted THEN PathFrom(given, related, Mark(<<"/">>)) ELSE <<>>)
        \o Part(AnchorPart, <<"#">>, <<>>)

HTParse(aName, relatedName, wanted) ==
  Assembled(scan(aName), Inherited(scan(aName), scan(relatedName)), wanted)

\* A turn of the loop over the filename, which is changed in place.  After xxx/../
\* is removed the search goes back to the slash before it; after /. it goes on
\* behind the slash.
Reads(s, p, t) == p + Len(t) - 1 <= Len(s) /\ SubSeq(s, p, p + Len(t) - 1) = t

Turn(at) ==
  LET s == at.name
      p == at.p
      before == {i \in Places(s, "/") : i < p}
  IN CASE p > Len(s) -> at
       [] Reads(s, p, <<"/", ".", ".", "/">>) ->
            IF before # {}
            THEN [name |-> UpTo(s, Max(before)) \o From(s, p + 4), p |-> Max(before)]
            ELSE [name |-> From(s, p + 4), p |-> 2]
       [] Reads(s, p, <<"/", ".", "/">>) ->
            [name |-> UpTo(s, p - 1) \o From(s, p + 2), p |-> p + 1]
       [] OTHER -> [name |-> s, p |-> p + 1]

\* Every turn leaves less behind p, so there are no more turns than tokens.
HTSimplify(filename) ==
  LET turned[n \in 0 .. Len(filename)] ==
        IF n = 0 THEN [name |-> filename, p |-> 3] ELSE Turn(turned[n - 1])
  IN  turned[Len(filename)].name

\* How far two names match.
Extent(aName, relatedName) ==
  Max({0} \cup {i \in 1 .. Min({Len(aName), Len(relatedName)}) :
                  UpTo(aName, i) = UpTo(relatedName, i)})

\* The directories of the other name that are not this one's.
\* Mutant: never out of a directory.
LevelsDown(theirs) == {}
Levels(theirs) ==
  {i \in Places(theirs, "/") : i < FirstOf(Places(theirs, "#"), Len(theirs) + 1)}

HTRelative(aName, relatedName) ==
  LET common  == UpTo(aName, Extent(aName, relatedName))
      slashes == Places(common, "/")
      third   == CHOOSE i \in slashes : Cardinality({j \in slashes : j <= i}) = 3
      levels  == Cardinality(Levels(From(relatedName, Len(common) + 1)))
  IN CASE Places(common, ":") = {} -> aName
       [] Places(common, ":") # {} /\ Cardinality(slashes) < 3 ->
            From(aName, Max(Places(common, ":")) + 1)
       [] Places(common, ":") # {} /\ Cardinality(slashes) = 3 -> From(aName, third)
       [] OTHER -> FlattenSeq([i \in 1 .. levels |-> <<".", ".", "/">>])
                     \o From(aName, Max(slashes) + 1)
=============================================================================
