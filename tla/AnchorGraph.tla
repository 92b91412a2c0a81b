---------------------------- MODULE AnchorGraph ----------------------------
(***************************************************************************)
(* The objects of Anchor.m as one value, a graph, and the methods that     *)
(* build it as operators from graphs to graphs.                            *)
(*                                                                         *)
(* An anchor is the number of its creation, so the array `orphans' (the    *)
(* anchors without a parent, in the order they were made) is the ascending *)
(* sequence of the parentless numbers.  Anchors are never freed: `orphans' *)
(* and `children' keep them alive.  NIL is the null pointer.               *)
(*                                                                         *)
(* Names are taken up to the case of their letters, as `equivalent' does.  *)
(* An address that ends in "#tag" is a reference [addr, tag].              *)
(***************************************************************************)
EXTENDS Naturals, Sequences

CONSTANTS
  MaxAnchor,   \* bound: the anchors one session makes
  Addr,        \* addresses of documents, without "#tag"
  Tag,         \* names of anchors within a document
  NoTag,       \* a reference to a whole document
  NoName       \* the Address of an anchor not made yet

ASSUME GraphAssumption ==
  /\ MaxAnchor \in Nat
  /\ NoTag \notin Tag
  /\ NoName \notin Addr \cup Tag

Anchor == 1..MaxAnchor
NIL    == 0

Graph == [ made     : 0..MaxAnchor,
           parent   : [Anchor -> Anchor \cup {NIL}],
           children : [Anchor -> Seq(Anchor)],
           address  : [Anchor -> Addr \cup Tag \cup {NoName}],
           sources  : [Anchor -> SUBSET Anchor],
           dest     : [Anchor -> Anchor \cup {NIL}],
           renamed  : SUBSET Anchor ]   \* history: moved by setAddress

Reference == [addr : Addr, tag : Tag \cup {NoTag}]

EmptyGraph ==
  [ made     |-> 0,
    parent   |-> [a \in Anchor |-> NIL],
    children |-> [a \in Anchor |-> << >>],
    address  |-> [a \in Anchor |-> NoName],
    sources  |-> [a \in Anchor |-> {}],
    dest     |-> [a \in Anchor |-> NIL],
    renamed  |-> {} ]

Made(g)    == {a \in Anchor : a <= g.made}
Orphans(g) == {a \in Made(g) : g.parent[a] = NIL}

\* Within the bound: no operator below was asked for one anchor too many.
HasRoom(g) == g.made <= MaxAnchor

\* The document an anchor belongs to (selectDiagnostic, node).
DocOf(g, a) == IF g.parent[a] = NIL THEN a ELSE g.parent[a]

----------------------------------------------------------------------------
(* initWithParent:tag: finds the child of that name or makes it.  Each     *)
(* constructor is two operators: the anchor returned, and the graph after. *)

Named(g, p, t) == {k \in Made(g) : g.parent[k] = p /\ g.address[k] = t}

\* Mutant: the anchor made last, whatever its name.
SubAnchorMadeLast(g, p, t) ==
  IF Named(g, p, t) = {} THEN g.made + 1 ELSE g.made

SubAnchor(g, p, t) ==
  IF Named(g, p, t) = {} THEN g.made + 1 ELSE CHOOSE k \in Named(g, p, t) : TRUE

WithSubAnchor(g, p, t) ==
  IF Named(g, p, t) # {} THEN g
  ELSE LET n == g.made + 1
       IN  [g EXCEPT !.made        = n,
                     !.parent[n]   = p,
                     !.address[n]  = t,
                     !.children[p] = Append(@, n)]

(* initWithAddress: of a whole document: the first of the orphans with an  *)
(* equivalent address, or a new one.                                       *)

Registered(g, d) == {a \in Orphans(g) : g.address[a] = d}

DocAnchor(g, d) ==
  IF Registered(g, d) = {} THEN g.made + 1
  ELSE CHOOSE a \in Registered(g, d) : \A b \in Registered(g, d) : a <= b

\* Mutant: makes an anchor without a look at the orphans.
WithNewDocAnchor(g, d) == [g EXCEPT !.made = @ + 1, !.address[g.made + 1] = d]

WithDocAnchor(g, d) ==
  IF Registered(g, d) # {} THEN g
  ELSE [g EXCEPT !.made = @ + 1, !.address[g.made + 1] = d]

(* initWithAddress: of any reference.                                      *)

WithAnchor(g, ref) ==
  LET g1 == WithDocAnchor(g, ref.addr)
  IN  IF ref.tag = NoTag THEN g1
      ELSE WithSubAnchor(g1, DocAnchor(g, ref.addr), ref.tag)

AnchorAt(g, ref) ==
  LET d == DocAnchor(g, ref.addr)
  IN  IF ref.tag = NoTag THEN d
      ELSE SubAnchor(WithDocAnchor(g, ref.addr), d, ref.tag)

----------------------------------------------------------------------------

\* NSMutableArray removeObject:, for an array that holds x once at most.
Without(s, x) ==
  IF \E i \in 1..Len(s) : s[i] = x
  THEN LET i == CHOOSE j \in 1..Len(s) : s[j] = x
       IN  [j \in 1..(Len(s) - 1) |-> IF j < i THEN s[j] ELSE s[j + 1]]
  ELSE s

\* Mutant: adds the anchor at the end, and leaves it where it was.
MakeLastChildToo(g, a) ==
  IF g.parent[a] = NIL THEN g
  ELSE [g EXCEPT !.children[g.parent[a]] = Append(@, a)]

\* isLastChild
MakeLastChild(g, a) ==
  IF g.parent[a] = NIL THEN g
  ELSE [g EXCEPT !.children[g.parent[a]] = Append(Without(@, a), a)]

\* linkTo:
LinkTo(g, a, d) == [g EXCEPT !.dest[a] = d, !.sources[d] = @ \cup {a}]

\* setAddress:
SetAddress(g, a, d) ==
  [g EXCEPT !.address[a] = d,
            !.renamed    = IF g.address[a] = d THEN @ ELSE @ \cup {a}]

----------------------------------------------------------------------------
(* What the methods promise one another about the graph.                   *)

\* Anchors that are not made are blank.
Blank(g) ==
  \A a \in Anchor \ Made(g) :
    /\ g.parent[a] = NIL
    /\ g.children[a] = << >>
    /\ g.sources[a] = {}
    /\ g.dest[a] = NIL

\* A parent lists each of its children once, and nothing else; the graph is
\* two levels deep.
Families(g) ==
  \A p \in Anchor :
    /\ \A i \in 1..Len(g.children[p]) : g.parent[g.children[p][i]] = p
    /\ \A i, j \in 1..Len(g.children[p]) :
         g.children[p][i] = g.children[p][j] => i = j
    /\ g.parent[p] # NIL =>
         /\ g.parent[p] \in Orphans(g)
         /\ \E i \in 1..Len(g.children[g.parent[p]]) :
              g.children[g.parent[p]][i] = p

\* A document has one anchor of each name; documents have addresses.
DistinctTags(g) ==
  \A a \in Made(g) :
    /\ g.parent[a] = NIL => g.address[a] \in Addr
    /\ g.parent[a] # NIL =>
         /\ g.address[a] \in Tag
         /\ \A b \in Made(g) :
              g.parent[b] = g.parent[a] /\ g.address[b] = g.address[a] => a = b

\* Links join anchors that exist, and the anchor at the far end lists the
\* anchor at the near end among its Sources.
LinksKnown(g) ==
  \A a \in Anchor :
    g.dest[a] # NIL => /\ a \in Made(g)
                       /\ g.dest[a] \in Made(g)
                       /\ a \in g.sources[g.dest[a]]

\* One document has one anchor, unless setAddress brought two together.
DistinctAddresses(g) ==
  \A a, b \in Orphans(g) \ g.renamed : g.address[a] = g.address[b] => a = b

=============================================================================
