--------------------------- MODULE BrowserProofs ---------------------------
(***************************************************************************)
(* What holds in every session of the browser, for every set of addresses, *)
(* names and bounds.  First what each operator of AnchorGraph does to a    *)
(* sound graph: it stays sound, and what was made stays as it was.  Then   *)
(* `Inv', the inductive invariant of Browser: each handler ends in one of  *)
(* a few ways, and there is a lemma for each of those ways.                *)
(***************************************************************************)
EXTENDS Browser, WellFoundedInduction, TLAPS

Sound(g) ==
  /\ g \in Graph
  /\ Blank(g)
  /\ Families(g)
  /\ DistinctTags(g)
  /\ LinksKnown(g)
  /\ DistinctAddresses(g)

\* What a handler may count on after any other has run.
Grows(g, h) ==
  \A a \in Made(g) : /\ a \in Made(h)
                     /\ h.parent[a] = g.parent[a]
                     /\ g.dest[a] # NIL => h.dest[a] # NIL

\* An anchor that is there keeps its place: the relation is a preorder.
LEMMA GrowsReflexive == \A g : Grows(g, g)
  BY DEF Grows

\* What grows and grows again has grown.
LEMMA GrowsTransitive ==
  ASSUME NEW g, NEW h, NEW k, Grows(g, h), Grows(h, k)
  PROVE  Grows(g, k)
  BY DEF Grows

\* Orphans stay orphans.
LEMMA GrowsOrphans ==
  ASSUME NEW g, NEW h, Grows(g, h)
  PROVE  Orphans(g) \subseteq Orphans(h)
  BY DEF Grows, Orphans

\* The program starts with no anchors, which is sound (initialize).
LEMMA EmptySound == Sound(EmptyGraph)
  BY GraphAssumption
  DEF Sound, EmptyGraph, Graph, Blank, Families, DistinctTags, LinksKnown,
      DistinctAddresses, Made, Orphans, Anchor, NIL

\* What a document lists was made, as its child.
LEMMA ChildMade ==
  ASSUME NEW g, Sound(g), NEW r \in Anchor, NEW i \in 1..Len(g.children[r])
  PROVE  g.children[r][i] \in Made(g) /\ g.parent[g.children[r][i]] = r
  <1>1. g.children[r] \in Seq(Anchor)
    BY DEF Sound, Graph
  <1>2. g.children[r][i] \in Anchor
    BY <1>1
  <1>3. g.parent[g.children[r][i]] = r
    BY DEF Sound, Families
  <1>4. r # NIL
    BY DEF Anchor, NIL
  <1> QED BY <1>2, <1>3, <1>4 DEF Sound, Blank

\* initWithParent:tag: on a document: the child it makes has a number of its
\* own, and is listed by its parent only.
LEMMA NewSubAnchor ==
  ASSUME NEW g, Sound(g), NEW p \in Orphans(g), NEW t \in Tag,
         Named(g, p, t) = {}, HasRoom(WithSubAnchor(g, p, t))
  PROVE  /\ Sound(WithSubAnchor(g, p, t))
         /\ Grows(g, WithSubAnchor(g, p, t))
         /\ SubAnchor(g, p, t) \in Made(WithSubAnchor(g, p, t))
         /\ WithSubAnchor(g, p, t).parent[SubAnchor(g, p, t)] = p
  <1> DEFINE n == g.made + 1
             h == WithSubAnchor(g, p, t)
  <1>1. /\ h = [g EXCEPT !.made = n, !.parent[n] = p, !.address[n] = t,
                         !.children[p] = Append(@, n)]
        /\ SubAnchor(g, p, t) = n
    BY DEF WithSubAnchor, SubAnchor
  <1>2. /\ g \in Graph /\ p \in Anchor /\ p # NIL /\ p <= g.made
        /\ p \in Made(g) /\ g.parent[p] = NIL
    BY DEF Sound, Orphans, Made, Anchor, NIL
  <1>3. n \in Anchor /\ n # NIL /\ n \notin Made(g) /\ n # p
    BY <1>1, <1>2, GraphAssumption DEF HasRoom, Anchor, NIL, Made, Graph
  <1>4. /\ h.made = n
        /\ h.parent = [g.parent EXCEPT ![n] = p]
        /\ h.address = [g.address EXCEPT ![n] = t]
        /\ h.children = [g.children EXCEPT ![p] = Append(g.children[p], n)]
        /\ h.sources = g.sources /\ h.dest = g.dest /\ h.renamed = g.renamed
    BY <1>1, <1>2 DEF Graph
  <1>5. h \in Graph
    <2>1. n \in 0..MaxAnchor
      BY <1>3, GraphAssumption DEF Anchor
    <2>2. Append(g.children[p], n) \in Seq(Anchor)
      BY <1>2, <1>3 DEF Graph
    <2>3. /\ [g.parent EXCEPT ![n] = p] \in [Anchor -> Anchor \cup {NIL}]
          /\ [g.address EXCEPT ![n] = t] \in [Anchor -> Addr \cup Tag \cup {NoName}]
          /\ [g.children EXCEPT ![p] = Append(g.children[p], n)] \in [Anchor -> Seq(Anchor)]
      BY <1>2, <2>2 DEF Graph
    <2> HIDE DEF n
    <2> QED BY <1>1, <1>2, <2>1, <2>3 DEF Graph
  <1>6. Made(h) = Made(g) \cup {n}
    BY <1>2, <1>3, <1>4 DEF Made, Anchor, Graph
  <1>7. Orphans(h) = Orphans(g)
    BY <1>2, <1>3, <1>4, <1>6 DEF Orphans, Made, Graph, NIL
  <1>8. Blank(h)
    <2> SUFFICES ASSUME NEW a \in Anchor, a \notin Made(g), a # n, a # p
                 PROVE  /\ h.parent[a] = NIL /\ h.children[a] = << >>
                        /\ h.sources[a] = {} /\ h.dest[a] = NIL
      BY <1>2, <1>6 DEF Blank
    <2> HIDE DEF n, h
    <2> QED BY <1>2, <1>3, <1>4 DEF Sound, Blank, Graph
  <1>9. Families(h)
    <2> SUFFICES ASSUME NEW q \in Anchor
                 PROVE  /\ \A i \in 1..Len(h.children[q]) : h.parent[h.children[q][i]] = q
                        /\ \A i, j \in 1..Len(h.children[q]) :
                             h.children[q][i] = h.children[q][j] => i = j
                        /\ h.parent[q] # NIL =>
                             /\ h.parent[q] \in Orphans(h)
                             /\ \E i \in 1..Len(h.children[h.parent[q]]) :
                                  h.children[h.parent[q]][i] = q
      BY DEF Families
    <2>1. \A i \in 1..Len(g.children[q]) :
            g.children[q][i] \in Made(g) /\ g.parent[g.children[q][i]] = q
      BY ChildMade
    <2>2. \A i, j \in 1..Len(g.children[q]) :
            g.children[q][i] = g.children[q][j] => i = j
      BY DEF Sound, Families
    <2>3. g.children[q] \in Seq(Anchor) /\ g.children[p] \in Seq(Anchor)
      BY <1>2 DEF Graph
    <2>4. CASE q = p
      <3>1. h.children[q] = Append(g.children[p], n)
        BY <1>2, <1>4, <2>4 DEF Graph
      <3>2. h.parent[q] = NIL
        BY <1>2, <1>3, <1>4, <2>4 DEF Graph
      <3>3. \A a \in Made(g) : h.parent[a] = g.parent[a] /\ a # n
        BY <1>2, <1>3, <1>4 DEF Graph, Made
      <3>4. h.parent[n] = p
        BY <1>2, <1>3, <1>4 DEF Graph
      <3> HIDE DEF n, h
      <3> QED BY <2>1, <2>2, <2>3, <2>4, <3>1, <3>2, <3>3, <3>4
    <2>5. CASE q = n
      <3>1. h.children[q] = << >>
        BY <1>2, <1>3, <1>4, <2>5 DEF Graph, Sound, Blank
      <3>2. h.parent[q] = p /\ h.children[p] = Append(g.children[p], n)
        BY <1>2, <1>3, <1>4, <2>5 DEF Graph
      <3>3. /\ Len(Append(g.children[p], n)) \in 1..Len(Append(g.children[p], n))
            /\ Append(g.children[p], n)[Len(Append(g.children[p], n))] = n
        BY <2>3, <1>3
      <3> HIDE DEF n, h
      <3> QED BY <1>2, <1>7, <2>5, <3>1, <3>2, <3>3
    <2>6. CASE q # p /\ q # n
      <3>1. h.children[q] = g.children[q] /\ h.parent[q] = g.parent[q]
        BY <1>2, <1>3, <1>4, <2>6 DEF Graph
      <3>2. \A a \in Made(g) : h.parent[a] = g.parent[a]
        BY <1>2, <1>3, <1>4 DEF Graph, Made
      <3>3. ASSUME g.parent[q] # NIL
            PROVE  /\ g.parent[q] \in Orphans(h)
                   /\ \E i \in 1..Len(h.children[g.parent[q]]) :
                        h.children[g.parent[q]][i] = q
        <4> DEFINE r == g.parent[q]
        <4>1. r \in Orphans(g) /\ \E i \in 1..Len(g.children[r]) : g.children[r][i] = q
          BY <3>3 DEF Sound, Families
        <4>2. r \in Anchor /\ g.children[r] \in Seq(Anchor)
          BY <4>1, <1>2 DEF Orphans, Made, Graph
        <4>3. PICK i \in 1..Len(g.children[r]) : g.children[r][i] = q
          BY <4>1
        <4>4. /\ i \in 1..Len(h.children[r])
              /\ h.children[r][i] = g.children[r][i]
          <5>1. CASE r = p
            BY <1>2, <1>3, <1>4, <4>2, <5>1 DEF Graph
          <5>2. CASE r # p
            BY <1>2, <1>4, <4>2, <5>2 DEF Graph
          <5> QED BY <5>1, <5>2
        <4> QED BY <1>7, <4>1, <4>3, <4>4
      <3> HIDE DEF n, h
      <3> QED BY <2>1, <2>2, <3>1, <3>2, <3>3
    <2> QED BY <2>4, <2>5, <2>6
  <1>10. DistinctTags(h)
    <2>1. \A a \in Made(g) : /\ a \in Anchor /\ a # n
                             /\ h.parent[a] = g.parent[a]
                             /\ h.address[a] = g.address[a]
      BY <1>2, <1>3, <1>4 DEF Graph, Made
    <2>2. h.parent[n] = p /\ h.address[n] = t
      BY <1>2, <1>3, <1>4 DEF Graph
    <2>3. \A a \in Made(g) : ~(g.parent[a] = p /\ g.address[a] = t)
      BY DEF Named
    <2> HIDE DEF n, h
    <2> QED BY <1>2, <1>6, <2>1, <2>2, <2>3 DEF DistinctTags, Sound
  <1>11. LinksKnown(h)
    BY <1>2, <1>3, <1>4, <1>6 DEF Sound, LinksKnown, Graph
  <1>12. DistinctAddresses(h)
    BY <1>2, <1>3, <1>4, <1>6, <1>7 DEF Sound, DistinctAddresses, Graph, Orphans
  <1>13. Grows(g, h)
    BY <1>2, <1>3, <1>4, <1>6 DEF Grows, Graph
  <1> QED BY <1>1, <1>3, <1>4, <1>5, <1>6, <1>8, <1>9, <1>10, <1>11, <1>12, <1>13, <1>2
          DEF Sound, Graph

\* initWithParent:tag: whether the child is there or not.
LEMMA SubAnchorSound ==
  ASSUME NEW g, Sound(g), NEW p \in Orphans(g), NEW t \in Tag,
         HasRoom(WithSubAnchor(g, p, t))
  PROVE  /\ Sound(WithSubAnchor(g, p, t))
         /\ Grows(g, WithSubAnchor(g, p, t))
         /\ SubAnchor(g, p, t) \in Made(WithSubAnchor(g, p, t))
         /\ WithSubAnchor(g, p, t).parent[SubAnchor(g, p, t)] = p
  <1>1. CASE Named(g, p, t) = {}
    BY <1>1, NewSubAnchor
  <1>2. CASE Named(g, p, t) # {}
    <2>1. WithSubAnchor(g, p, t) = g /\ SubAnchor(g, p, t) \in Named(g, p, t)
      BY <1>2 DEF WithSubAnchor, SubAnchor
    <2> QED BY <2>1, GrowsReflexive DEF Named
  <1> QED BY <1>1, <1>2

\* initWithAddress: of a document that is not among the orphans.
LEMMA NewDocAnchor ==
  ASSUME NEW g, Sound(g), NEW d \in Addr,
         Registered(g, d) = {}, HasRoom(WithDocAnchor(g, d))
  PROVE  /\ Sound(WithDocAnchor(g, d))
         /\ Grows(g, WithDocAnchor(g, d))
         /\ DocAnchor(g, d) \in Orphans(WithDocAnchor(g, d))
  <1> DEFINE n == g.made + 1
             h == WithDocAnchor(g, d)
  <1>1. /\ h = [g EXCEPT !.made = n, !.address[n] = d]
        /\ DocAnchor(g, d) = n
    BY DEF WithDocAnchor, DocAnchor
  <1>2. g \in Graph
    BY DEF Sound
  <1>3. n \in Anchor /\ n \notin Made(g) /\ n \in 0..MaxAnchor
    BY <1>1, <1>2, GraphAssumption DEF HasRoom, Anchor, Made, Graph
  <1>4. /\ h.made = n
        /\ h.address = [g.address EXCEPT ![n] = d]
        /\ h.parent = g.parent /\ h.children = g.children
        /\ h.sources = g.sources /\ h.dest = g.dest /\ h.renamed = g.renamed
    BY <1>1, <1>2 DEF Graph
  <1>5. h \in Graph
    <2>1. [g.address EXCEPT ![n] = d] \in [Anchor -> Addr \cup Tag \cup {NoName}]
      BY <1>2 DEF Graph
    <2> HIDE DEF n
    <2> QED BY <1>1, <1>2, <1>3, <2>1 DEF Graph
  <1>6. Made(h) = Made(g) \cup {n}
    BY <1>2, <1>3, <1>4 DEF Made, Anchor, Graph
  <1>7. g.parent[n] = NIL /\ Orphans(h) = Orphans(g) \cup {n}
    BY <1>2, <1>3, <1>4, <1>6 DEF Orphans, Sound, Blank
  <1>8. Blank(h)
    BY <1>4, <1>6 DEF Sound, Blank
  <1>9. Families(h)
    BY <1>4, <1>7 DEF Sound, Families
  <1>10. \A a \in Made(g) : a # n /\ h.address[a] = g.address[a] /\ a \in Anchor
    BY <1>2, <1>3, <1>4 DEF Graph, Made
  <1>11. h.address[n] = d
    BY <1>2, <1>3, <1>4 DEF Graph
  <1>12. DistinctTags(h)
    <2> SUFFICES ASSUME NEW a \in Made(h)
                 PROVE  /\ h.parent[a] = NIL => h.address[a] \in Addr
                        /\ h.parent[a] # NIL =>
                             /\ h.address[a] \in Tag
                             /\ \A b \in Made(h) :
                                  h.parent[b] = h.parent[a] /\ h.address[b] = h.address[a]
                                    => a = b
      BY DEF DistinctTags
    <2>1. CASE a = n
      BY <1>4, <1>7, <1>11, <2>1
    <2>2. CASE a \in Made(g)
      BY <1>4, <1>6, <1>7, <1>10, <2>2 DEF Sound, DistinctTags
    <2> QED BY <1>6, <2>1, <2>2
  <1>13. LinksKnown(h)
    BY <1>4, <1>6 DEF Sound, LinksKnown
  <1>14. DistinctAddresses(h)
    <2>1. \A a \in Orphans(g) : g.address[a] # d /\ a \in Made(g)
      BY DEF Registered, Orphans
    <2> HIDE DEF n, h
    <2> QED BY <1>4, <1>7, <1>10, <1>11, <2>1 DEF Sound, DistinctAddresses
  <1>15. Grows(g, h)
    BY <1>4, <1>6 DEF Grows
  <1> QED BY <1>1, <1>5, <1>7, <1>8, <1>9, <1>12, <1>13, <1>14, <1>15 DEF Sound

----------------------------------------------------------------------------
(* initWithAddress: finds the first of the orphans: there is a first.      *)

Below == {p \in Nat \X Nat : p[1] < p[2]}

\* A non-empty set of numbers has a least element.
LEMMA LeastNumber ==
  ASSUME NEW T, T \subseteq Nat, T # {}
  PROVE  \E x \in T : \A y \in T : x <= y
  <1>1. IsWellFoundedOn(Below, Nat)
    <2>1. OpToRel(<, Nat) = Below
      BY Zenon DEF OpToRel, Below
    <2> QED BY <2>1, NatLessThanWellFounded, Zenon
  <1>2. PICK x \in T : \A y \in T : ~(<<y, x>> \in Below)
    BY <1>1, WFMin
  <1>3. \A y \in T : ~(y < x)
    BY <1>2 DEF Below
  <1> QED BY <1>3

\* initWithAddress: of a document, whether it is registered or not.
LEMMA DocAnchorSound ==
  ASSUME NEW g, Sound(g), NEW d \in Addr, HasRoom(WithDocAnchor(g, d))
  PROVE  /\ Sound(WithDocAnchor(g, d))
         /\ Grows(g, WithDocAnchor(g, d))
         /\ DocAnchor(g, d) \in Orphans(WithDocAnchor(g, d))
  <1>1. CASE Registered(g, d) = {}
    BY <1>1, NewDocAnchor
  <1>2. CASE Registered(g, d) # {}
    <2>1. WithDocAnchor(g, d) = g
      BY <1>2 DEF WithDocAnchor
    <2>2. Registered(g, d) \subseteq Nat /\ Registered(g, d) \subseteq Orphans(g)
      BY GraphAssumption DEF Registered, Orphans, Made, Anchor
    <2>3. \E a \in Registered(g, d) : \A b \in Registered(g, d) : a <= b
      BY <1>2, <2>2, LeastNumber
    <2>4. DocAnchor(g, d) \in Registered(g, d)
      BY <1>2, <2>3 DEF DocAnchor
    <2> QED BY <2>1, <2>2, <2>4, GrowsReflexive
  <1> QED BY <1>1, <1>2

\* The anchor found or made has the address asked for.
LEMMA DocAnchorAddress ==
  ASSUME NEW g, Sound(g), NEW d \in Addr, HasRoom(WithDocAnchor(g, d))
  PROVE  WithDocAnchor(g, d).address[DocAnchor(g, d)] = d
  <1>1. g \in Graph
    BY DEF Sound
  <1>2. CASE Registered(g, d) = {}
    <2>1. /\ WithDocAnchor(g, d).made = g.made + 1
          /\ WithDocAnchor(g, d).address = [g.address EXCEPT ![g.made + 1] = d]
          /\ DocAnchor(g, d) = g.made + 1
      BY <1>1, <1>2 DEF WithDocAnchor, DocAnchor, Graph
    <2>2. g.made + 1 \in Anchor
      BY <1>1, <2>1, GraphAssumption DEF HasRoom, Anchor, Graph
    <2> QED BY <1>1, <2>1, <2>2 DEF Graph
  <1>3. CASE Registered(g, d) # {}
    <2>1. Registered(g, d) \subseteq Nat
      BY GraphAssumption DEF Registered, Orphans, Made, Anchor
    <2>2. \E a \in Registered(g, d) : \A b \in Registered(g, d) : a <= b
      BY <1>3, <2>1, LeastNumber
    <2>3. DocAnchor(g, d) \in Registered(g, d)
      BY <1>3, <2>2 DEF DocAnchor
    <2> QED BY <1>3, <2>3 DEF WithDocAnchor, Registered
  <1> QED BY <1>2, <1>3

\* initWithAddress: of any reference.
LEMMA AnchorSound ==
  ASSUME NEW g, Sound(g), NEW ref \in Reference, HasRoom(WithAnchor(g, ref))
  PROVE  /\ Sound(WithAnchor(g, ref))
         /\ Grows(g, WithAnchor(g, ref))
         /\ AnchorAt(g, ref) \in Made(WithAnchor(g, ref))
         /\ ref.tag = NoTag => AnchorAt(g, ref) \in Orphans(WithAnchor(g, ref))
  <1> DEFINE d  == DocAnchor(g, ref.addr)
             g1 == WithDocAnchor(g, ref.addr)
  <1>1. ref.addr \in Addr /\ ref.tag \in Tag \cup {NoTag}
    BY DEF Reference
  <1>2. HasRoom(g1)
    <2>1. g1.made \in Nat
      <3>1. g \in Graph
        BY DEF Sound
      <3>2. g1.made = g.made \/ g1.made = g.made + 1
        BY <3>1 DEF WithDocAnchor, Graph
      <3> QED BY <3>1, <3>2, GraphAssumption DEF Graph
    <2>2. CASE ref.tag = NoTag
      BY <2>2 DEF WithAnchor
    <2>3. CASE ref.tag # NoTag /\ Named(g1, d, ref.tag) # {}
      BY <2>3 DEF WithAnchor, WithSubAnchor
    <2>4. CASE ref.tag # NoTag /\ Named(g1, d, ref.tag) = {}
      <3>1. WithAnchor(g, ref) = WithSubAnchor(g1, d, ref.tag)
        BY <2>4 DEF WithAnchor
      <3>2. WithSubAnchor(g1, d, ref.tag).made = g1.made + 1
        <4>1. "made" \in DOMAIN g1
          <5>1. DOMAIN g1 = DOMAIN g
            BY DEF WithDocAnchor
          <5>2. g \in Graph
            BY DEF Sound
          <5> QED BY <5>1, <5>2 DEF Graph
        <4> HIDE DEF g1, d
        <4> QED BY <2>4, <4>1 DEF WithSubAnchor
      <3> HIDE DEF g1, d
      <3> QED BY <2>1, <3>1, <3>2, GraphAssumption DEF HasRoom
    <2> QED BY <2>2, <2>3, <2>4
  <1>3. Sound(g1) /\ Grows(g, g1) /\ d \in Orphans(g1)
    BY <1>1, <1>2, DocAnchorSound
  <1>4. CASE ref.tag = NoTag
    <2>1. WithAnchor(g, ref) = g1 /\ AnchorAt(g, ref) = d
      BY <1>4 DEF WithAnchor, AnchorAt
    <2> QED BY <1>3, <2>1 DEF Orphans
  <1>5. CASE ref.tag # NoTag
    <2>1. /\ WithAnchor(g, ref) = WithSubAnchor(g1, d, ref.tag)
          /\ AnchorAt(g, ref) = SubAnchor(g1, d, ref.tag)
      BY <1>5 DEF WithAnchor, AnchorAt
    <2> HIDE DEF g1, d
    <2>2. /\ Sound(WithSubAnchor(g1, d, ref.tag))
          /\ Grows(g1, WithSubAnchor(g1, d, ref.tag))
          /\ SubAnchor(g1, d, ref.tag) \in Made(WithSubAnchor(g1, d, ref.tag))
      BY <1>1, <1>3, <1>5, <2>1, SubAnchorSound
    <2> QED BY <1>3, <1>5, <2>1, <2>2, GrowsTransitive
  <1> QED BY <1>4, <1>5

----------------------------------------------------------------------------
(* isLastChild moves an anchor to the end of its parent's children.        *)

\* removeObject: takes out the one occurrence, and the rest closes up.
LEMMA WithoutOne ==
  ASSUME NEW S, NEW s \in Seq(S), NEW i \in 1..Len(s),
         \A j, k \in 1..Len(s) : s[j] = s[k] => j = k
  PROVE  /\ Without(s, s[i]) \in Seq(S)
         /\ Len(Without(s, s[i])) = Len(s) - 1
         /\ \A j \in 1..(Len(s) - 1) :
              Without(s, s[i])[j] = IF j < i THEN s[j] ELSE s[j + 1]
  <1> DEFINE w == [j \in 1..(Len(s) - 1) |-> IF j < i THEN s[j] ELSE s[j + 1]]
  <1>1. (CHOOSE j \in 1..Len(s) : s[j] = s[i]) = i
    <2>1. \E j \in 1..Len(s) : s[j] = s[i]
      OBVIOUS
    <2> DEFINE c == CHOOSE j \in 1..Len(s) : s[j] = s[i]
    <2>2. c \in 1..Len(s) /\ s[c] = s[i]
      BY <2>1
    <2> QED BY <2>2
  <1>2. Without(s, s[i]) = w
    BY <1>1 DEF Without
  <1>3. Len(s) - 1 \in Nat
    OBVIOUS
  <1>4. \A j \in 1..(Len(s) - 1) : w[j] \in S
    OBVIOUS
  <1>5. w \in Seq(S) /\ Len(w) = Len(s) - 1
    <2>1. w \in [1..(Len(s) - 1) -> S]
      BY <1>4
    <2> HIDE DEF w
    <2> QED BY <1>3, <2>1
  <1> QED BY <1>2, <1>5

\* r has the members of s, each once, in whatever order.
Rearranges(r, s) ==
  /\ Len(r) = Len(s)
  /\ \A j \in 1..Len(r) : \E k \in 1..Len(s) : r[j] = s[k]
  /\ \A k \in 1..Len(s) : \E j \in 1..Len(r) : r[j] = s[k]
  /\ \A j, k \in 1..Len(r) : r[j] = r[k] => j = k

\* Moved to the end, every member is still there, and there once.
LEMMA MovedLast ==
  ASSUME NEW S, NEW s \in Seq(S), NEW i \in 1..Len(s),
         \A j, k \in 1..Len(s) : s[j] = s[k] => j = k,
         NEW r, r = Append(Without(s, s[i]), s[i])
  PROVE  r \in Seq(S) /\ Rearranges(r, s)
  <1> DEFINE w == Without(s, s[i])
  <1>1. /\ w \in Seq(S) /\ Len(w) = Len(s) - 1
        /\ \A j \in 1..(Len(s) - 1) : w[j] = IF j < i THEN s[j] ELSE s[j + 1]
    BY WithoutOne
  <1>2. s[i] \in S /\ Len(s) \in Nat
    OBVIOUS
  <1> HIDE DEF w
  <1>3. r = Append(w, s[i])
    BY DEF w
  <1>4. r \in Seq(S) /\ Len(r) = Len(s)
    BY <1>1, <1>2, <1>3
  <1>5. \A j \in 1..Len(r) :
          r[j] = IF j = Len(s) THEN s[i] ELSE IF j < i THEN s[j] ELSE s[j + 1]
    BY <1>1, <1>2, <1>3, <1>4
  <1>6. \A j \in 1..Len(r) : \E k \in 1..Len(s) : r[j] = s[k]
    BY <1>4, <1>5
  <1>7. ASSUME NEW k \in 1..Len(s) PROVE \E j \in 1..Len(r) : r[j] = s[k]
    <2>1. CASE k = i
      BY <1>4, <1>5, <2>1
    <2>2. CASE k < i
      BY <1>4, <1>5, <2>2
    <2>3. CASE k > i
      <3>1. k - 1 \in 1..Len(r) /\ k - 1 # Len(s) /\ ~(k - 1 < i) /\ (k - 1) + 1 = k
        BY <1>4, <2>3
      <3>2. r[k - 1] = s[k]
        BY <1>5, <3>1
      <3> QED BY <3>1, <3>2
    <2> QED BY <2>1, <2>2, <2>3
  <1>8. ASSUME NEW j \in 1..Len(r), NEW k \in 1..Len(r), r[j] = r[k] PROVE j = k
    <2> DEFINE at(m) == IF m = Len(s) THEN i ELSE IF m < i THEN m ELSE m + 1
    <2>1. \A m \in 1..Len(r) : at(m) \in 1..Len(s) /\ r[m] = s[at(m)]
      BY <1>4, <1>5
    <2>2. at(j) = at(k)
      <3> HIDE DEF at
      <3> QED BY <1>8, <2>1
    <2> QED BY <1>4, <2>2
  <1> QED BY <1>4, <1>6, <1>7, <1>8 DEF Rearranges

\* isLastChild
LEMMA MakeLastChildSound ==
  ASSUME NEW g, Sound(g), NEW a \in Anchor
  PROVE  /\ Sound(MakeLastChild(g, a))
         /\ Grows(g, MakeLastChild(g, a))
         /\ MakeLastChild(g, a).parent = g.parent
         /\ Made(MakeLastChild(g, a)) = Made(g)
  <1>1. CASE g.parent[a] = NIL
    BY <1>1, GrowsReflexive DEF MakeLastChild
  <1>2. CASE g.parent[a] # NIL
    <2> DEFINE p == g.parent[a]
               r == Append(Without(g.children[p], a), a)
               h == MakeLastChild(g, a)
    <2>1. g \in Graph /\ p \in Orphans(g) /\ p \in Anchor /\ g.children[p] \in Seq(Anchor)
      BY <1>2 DEF Sound, Families, Orphans, Made, Graph
    <2>2. h = [g EXCEPT !.children[p] = r]
      BY <1>2, <2>1 DEF MakeLastChild, Graph
    <2>3. PICK i \in 1..Len(g.children[p]) : g.children[p][i] = a
      BY <1>2 DEF Sound, Families
    <2>4. /\ r \in Seq(Anchor) /\ Len(r) = Len(g.children[p])
          /\ \A j \in 1..Len(r) : \E k \in 1..Len(g.children[p]) : r[j] = g.children[p][k]
          /\ \A k \in 1..Len(g.children[p]) : \E j \in 1..Len(r) : r[j] = g.children[p][k]
          /\ \A j, k \in 1..Len(r) : r[j] = r[k] => j = k
      <3>1. \A j, k \in 1..Len(g.children[p]) : g.children[p][j] = g.children[p][k] => j = k
        BY <2>1 DEF Sound, Families
      <3>2. r = Append(Without(g.children[p], g.children[p][i]), g.children[p][i])
        BY <2>3
      <3> DEFINE s == g.children[p]
      <3>3. s \in Seq(Anchor) /\ i \in 1..Len(s) /\ r = Append(Without(s, s[i]), s[i])
        BY <2>1, <2>3, <3>2
      <3>4. \A j, k \in 1..Len(s) : s[j] = s[k] => j = k
        BY <3>1
      <3> HIDE DEF r, s
      <3>5. r \in Seq(Anchor) /\ Rearranges(r, s)
        BY <3>3, <3>4, MovedLast, Zenon
      <3> QED BY <3>5 DEF s, Rearranges
    <2> HIDE DEF r
    <2>5. /\ h.made = g.made
          /\ h.children = [g.children EXCEPT ![p] = r]
          /\ h.parent = g.parent /\ h.address = g.address
          /\ h.sources = g.sources /\ h.dest = g.dest /\ h.renamed = g.renamed
      BY <2>1, <2>2 DEF Graph
    <2>6. h \in Graph
      <3>1. [g.children EXCEPT ![p] = r] \in [Anchor -> Seq(Anchor)]
        BY <2>1, <2>4 DEF Graph
      <3> HIDE DEF p
      <3> QED BY <2>1, <2>2, <3>1 DEF Graph
    <2>7. Made(h) = Made(g) /\ Orphans(h) = Orphans(g)
      BY <2>5 DEF Made, Orphans
    <2>8. Blank(h)
      BY <2>1, <2>5, <2>7 DEF Sound, Blank, Graph, Orphans
    <2>9. Families(h)
      <3> SUFFICES ASSUME NEW q \in Anchor
                   PROVE  /\ \A j \in 1..Len(h.children[q]) : g.parent[h.children[q][j]] = q
                          /\ \A j, k \in 1..Len(h.children[q]) :
                               h.children[q][j] = h.children[q][k] => j = k
                          /\ g.parent[q] # NIL =>
                               /\ g.parent[q] \in Orphans(g)
                               /\ \E j \in 1..Len(h.children[g.parent[q]]) :
                                    h.children[g.parent[q]][j] = q
        BY <2>5, <2>7 DEF Families
      <3> HIDE DEF h
      <3>1. h.children[p] = r /\ \A b \in Anchor \ {p} : h.children[b] = g.children[b]
        BY <2>1, <2>5 DEF Graph
      <3>2. \A b \in Anchor :
              /\ \A k \in 1..Len(g.children[b]) : g.parent[g.children[b][k]] = b
              /\ \A j, k \in 1..Len(g.children[b]) :
                   g.children[b][j] = g.children[b][k] => j = k
              /\ g.parent[b] # NIL =>
                   /\ g.parent[b] \in Orphans(g)
                   /\ \E k \in 1..Len(g.children[g.parent[b]]) :
                        g.children[g.parent[b]][k] = b
        BY DEF Sound, Families
      <3>3. \A b \in Orphans(g) : b \in Anchor
        BY DEF Orphans, Made
      <3> HIDE DEF p
      <3>4. \A j \in 1..Len(h.children[q]) : g.parent[h.children[q][j]] = q
        <4>1. CASE q = p
          <5> SUFFICES ASSUME NEW j \in 1..Len(r) PROVE g.parent[r[j]] = p
            BY <3>1, <4>1
          <5>1. PICK k \in 1..Len(g.children[p]) : r[j] = g.children[p][k]
            BY <2>4
          <5> QED BY <2>1, <3>2, <5>1
        <4>2. CASE q # p
          BY <3>1, <3>2, <4>2
        <4> QED BY <4>1, <4>2
      <3>5. \A j, k \in 1..Len(h.children[q]) :
              h.children[q][j] = h.children[q][k] => j = k
        <4>1. CASE q = p
          BY <2>4, <3>1, <4>1
        <4>2. CASE q # p
          BY <3>1, <3>2, <4>2
        <4> QED BY <4>1, <4>2
      <3>6. ASSUME g.parent[q] # NIL
            PROVE  \E j \in 1..Len(h.children[g.parent[q]]) :
                     h.children[g.parent[q]][j] = q
        <4>1. PICK k \in 1..Len(g.children[g.parent[q]]) :
                g.children[g.parent[q]][k] = q
          BY <3>2, <3>6
        <4>2. g.parent[q] \in Anchor
          BY <3>2, <3>3, <3>6
        <4>3. CASE g.parent[q] = p
          <5>1. PICK j \in 1..Len(r) : r[j] = g.children[p][k]
            BY <2>4, <4>1, <4>3
          <5> QED BY <3>1, <4>1, <4>3, <5>1
        <4>4. CASE g.parent[q] # p
          BY <3>1, <4>1, <4>2, <4>4
        <4> QED BY <4>3, <4>4
      <3> QED BY <3>2, <3>4, <3>5, <3>6
    <2>10. DistinctTags(h) /\ LinksKnown(h) /\ DistinctAddresses(h)
      BY <2>5, <2>7 DEF Sound, DistinctTags, LinksKnown, DistinctAddresses
    <2>11. Grows(g, h)
      BY <2>5, <2>7 DEF Grows
    <2> QED BY <2>5, <2>6, <2>7, <2>8, <2>9, <2>10, <2>11 DEF Sound
  <1> QED BY <1>1, <1>2

----------------------------------------------------------------------------
(* linkTo: and setAddress: leave the families as they are.                 *)

\* linkTo:
LEMMA LinkToSound ==
  ASSUME NEW g, Sound(g), NEW a \in Made(g), NEW d \in Made(g)
  PROVE  /\ Sound(LinkTo(g, a, d))
         /\ Grows(g, LinkTo(g, a, d))
         /\ LinkTo(g, a, d).parent = g.parent
         /\ LinkTo(g, a, d).dest[a] # NIL
         /\ Made(LinkTo(g, a, d)) = Made(g)
  <1> DEFINE h == LinkTo(g, a, d)
  <1>1. g \in Graph /\ a \in Anchor /\ d \in Anchor /\ d # NIL
    BY DEF Sound, Made, Anchor, NIL
  <1>2. /\ h.made = g.made /\ h.parent = g.parent
        /\ h.children = g.children /\ h.address = g.address
        /\ h.sources = [g.sources EXCEPT ![d] = g.sources[d] \cup {a}]
        /\ h.dest = [g.dest EXCEPT ![a] = d] /\ h.renamed = g.renamed
    BY <1>1 DEF LinkTo, Graph
  <1>3. h \in Graph
    <2>1. /\ [g.sources EXCEPT ![d] = g.sources[d] \cup {a}] \in [Anchor -> SUBSET Anchor]
          /\ [g.dest EXCEPT ![a] = d] \in [Anchor -> Anchor \cup {NIL}]
      BY <1>1 DEF Graph
    <2>2. h = [g EXCEPT !.dest = [g.dest EXCEPT ![a] = d],
                        !.sources = [g.sources EXCEPT ![d] = g.sources[d] \cup {a}]]
      BY <1>1 DEF LinkTo, Graph
    <2> HIDE DEF h
    <2> QED BY <1>1, <2>1, <2>2 DEF Graph
  <1>4. Made(h) = Made(g) /\ Orphans(h) = Orphans(g)
    BY <1>2 DEF Made, Orphans
  <1>5. h.dest[a] = d /\ h.sources[d] = g.sources[d] \cup {a}
    BY <1>1, <1>2 DEF Graph
  <1>6. /\ \A b \in Anchor \ {a} : h.dest[b] = g.dest[b]
        /\ \A b \in Anchor \ {d} : h.sources[b] = g.sources[b]
    BY <1>1, <1>2 DEF Graph
  <1>7. Blank(h)
    BY <1>2, <1>4, <1>6 DEF Sound, Blank
  <1>8. Families(h) /\ DistinctTags(h) /\ DistinctAddresses(h)
    BY <1>2, <1>4 DEF Sound, Families, DistinctTags, DistinctAddresses
  <1>9. LinksKnown(h)
    <2> SUFFICES ASSUME NEW b \in Anchor, h.dest[b] # NIL
                 PROVE  /\ b \in Made(g) /\ h.dest[b] \in Made(g)
                        /\ b \in h.sources[h.dest[b]]
      BY <1>4 DEF LinksKnown
    <2> HIDE DEF h
    <2>1. CASE b = a
      BY <1>5, <2>1
    <2>2. CASE b # a
      <3>1. /\ h.dest[b] = g.dest[b] /\ b \in Made(g)
            /\ g.dest[b] \in Made(g) /\ b \in g.sources[g.dest[b]]
        BY <1>6, <2>2 DEF Sound, LinksKnown
      <3>2. g.dest[b] \in Anchor
        BY <3>1 DEF Made
      <3> QED BY <1>5, <1>6, <3>1, <3>2
    <2> QED BY <2>1, <2>2
  <1>10. Grows(g, h)
    <2>1. \A b \in Made(g) : b \in Anchor
      BY DEF Made
    <2> HIDE DEF h
    <2> QED BY <1>1, <1>2, <1>4, <1>5, <1>6, <2>1 DEF Grows
  <1> QED BY <1>1, <1>2, <1>3, <1>4, <1>5, <1>7, <1>8, <1>9, <1>10 DEF Sound

\* setAddress: of a document.  It is remembered if it changed something.
LEMMA SetAddressSound ==
  ASSUME NEW g, Sound(g), NEW a \in Orphans(g), NEW d \in Addr
  PROVE  /\ Sound(SetAddress(g, a, d))
         /\ Grows(g, SetAddress(g, a, d))
         /\ Orphans(SetAddress(g, a, d)) = Orphans(g)
         /\ SetAddress(g, a, d).address[a] = d
  <1> DEFINE h == SetAddress(g, a, d)
             R == IF g.address[a] = d THEN g.renamed ELSE g.renamed \cup {a}
  <1>1. g \in Graph /\ a \in Anchor /\ a \in Made(g) /\ g.parent[a] = NIL
    BY DEF Sound, Made, Orphans
  <1>2. /\ h.made = g.made /\ h.parent = g.parent
        /\ h.children = g.children /\ h.sources = g.sources /\ h.dest = g.dest
        /\ h.address = [g.address EXCEPT ![a] = d] /\ h.renamed = R
    BY <1>1 DEF SetAddress, Graph
  <1>3. h \in Graph
    <2>1. /\ [g.address EXCEPT ![a] = d] \in [Anchor -> Addr \cup Tag \cup {NoName}]
          /\ R \in SUBSET Anchor
      BY <1>1 DEF Graph
    <2>2. h = [g EXCEPT !.address = [g.address EXCEPT ![a] = d], !.renamed = R]
      BY <1>1 DEF SetAddress, Graph
    <2> HIDE DEF h, R
    <2> QED BY <1>1, <2>1, <2>2 DEF Graph
  <1>4. Made(h) = Made(g) /\ Orphans(h) = Orphans(g)
    BY <1>2 DEF Made, Orphans
  <1>5. h.address[a] = d /\ \A b \in Anchor \ {a} : h.address[b] = g.address[b]
    BY <1>1, <1>2 DEF Graph
  <1>6. Blank(h) /\ Families(h) /\ LinksKnown(h)
    BY <1>2, <1>4 DEF Sound, Blank, Families, LinksKnown
  <1>7. DistinctTags(h)
    <2>1. \A b \in Made(g) : b \in Anchor
      BY DEF Made
    <2> HIDE DEF h
    <2> QED BY <1>1, <1>2, <1>4, <1>5, <2>1 DEF Sound, DistinctTags
  <1>8. DistinctAddresses(h)
    <2>1. \A b \in Orphans(g) : b \in Anchor
      BY DEF Made, Orphans
    <2>2. CASE g.address[a] = d
      <3>1. \A b \in Anchor : h.address[b] = g.address[b]
        BY <1>5, <2>2
      <3> HIDE DEF h
      <3> QED BY <1>2, <1>4, <2>1, <2>2, <3>1 DEF Sound, DistinctAddresses
    <2>3. CASE g.address[a] # d
      <3> HIDE DEF h
      <3> QED BY <1>2, <1>4, <1>5, <2>1, <2>3 DEF Sound, DistinctAddresses
    <2> QED BY <2>2, <2>3
  <1>9. Grows(g, h)
    BY <1>2, <1>4 DEF Grows
  <1> QED BY <1>3, <1>4, <1>5, <1>6, <1>7, <1>8, <1>9 DEF Sound

----------------------------------------------------------------------------
(* The invariant of the browser, in its parts.                             *)

\* The entries of a history h, and the anchor that c follows, are links of g.
Linked(g, h) ==
  /\ h \in Seq(Anchor)
  /\ \A i \in 1..Len(h) : /\ h[i] \in Made(g)
                          /\ g.parent[h[i]] # NIL
                          /\ g.dest[h[i]] # NIL

Caller(g, c) ==
  /\ c \in Calls
  /\ c.kind = "follow" => /\ c.src \in Made(g)
                          /\ g.parent[c.src] # NIL
                          /\ g.dest[c.src] # NIL

\* The half of the invariant about windows and their texts.
Nodes ==
  /\ text \in [Anchor -> SUBSET Anchor]
  /\ loaded \in SUBSET Anchor
  /\ panel \in BOOLEAN
  /\ WindowsOfDocuments
  /\ TextOwn

\* The half about the history and the handler that waits: it waits for a
\* document that is open.
Waits ==
  /\ raised \in BOOLEAN
  /\ Linked(graph, history)
  /\ Caller(graph, call)
  /\ call.step \in {"reading", "ending"} => call.doc \in loaded
  /\ call.step = "linking" => call.doc \in Made(graph)

Inv == Sound(graph) /\ Nodes /\ Waits

----------------------------------------------------------------------------
(* What a growing graph leaves true.                                       *)

\* The history and the waiting caller outlive what others make.
LEMMA LinkedGrows ==
  ASSUME NEW g, NEW k, Grows(g, k)
  PROVE  /\ \A h : Linked(g, h) => Linked(k, h)
         /\ \A c : Caller(g, c) => Caller(k, c)
  BY DEF Linked, Caller, Grows

\* Windows stay windows of documents, texts stay texts of their own anchors.
LEMMA NodesGrow ==
  ASSUME Inv, NEW g, Grows(graph, g)
  PROVE  /\ loaded \subseteq Orphans(g)
         /\ \A d \in Anchor : \A k \in text[d] : k \in Made(g) /\ g.parent[k] = d
  <1>1. loaded \subseteq Orphans(g)
    BY GrowsOrphans DEF Inv, Nodes, WindowsOfDocuments
  <1>2. ASSUME NEW d \in Anchor, NEW k \in text[d]
        PROVE  k \in Made(g) /\ g.parent[k] = d
    <2>1. k \in Anchor /\ graph.parent[k] = d /\ d # NIL
      BY <1>2 DEF Inv, Nodes, TextOwn, Anchor, NIL
    <2>2. k \in Made(graph)
      BY <2>1 DEF Inv, Sound, Blank
    <2> QED BY <2>1, <2>2 DEF Grows
  <1> QED BY <1>1, <1>2

\* The anchor a reference means is the first of the orphans with its address;
\* those made later come after it, and no document gets a second anchor of a
\* name, so a graph that grows and moves no address leaves it the meaning.
LEMMA DocumentStays ==
  ASSUME NEW g, NEW k, Sound(g), Sound(k), Grows(g, k),
         \A a \in Made(g) : k.address[a] = g.address[a],
         NEW d, Registered(g, d) # {}
  PROVE  /\ Registered(k, d) # {}
         /\ DocAnchor(g, d) \in Registered(g, d)
         /\ DocAnchor(k, d) = DocAnchor(g, d)
  <1>1. Made(g) \subseteq Nat /\ Made(k) \subseteq Nat /\ g.made \in Nat
    BY GraphAssumption DEF Made, Anchor, Sound, Graph
  <1>2. Registered(g, d) \subseteq Made(g) /\ Registered(k, d) \subseteq Made(k)
    BY DEF Registered, Orphans
  <1>3. \E a \in Registered(g, d) : \A b \in Registered(g, d) : a <= b
    BY <1>1, <1>2, LeastNumber
  <1> DEFINE x == DocAnchor(g, d)
             y == DocAnchor(k, d)
  <1>4. x \in Registered(g, d) /\ \A b \in Registered(g, d) : x <= b
    BY <1>3 DEF DocAnchor
  <1>5. Registered(g, d) \subseteq Registered(k, d)
    BY DEF Registered, Orphans, Grows
  <1>6. \A b \in Registered(k, d) : b \in Registered(g, d) \/ b > g.made
    BY <1>1 DEF Registered, Orphans, Grows, Made, Anchor
  <1>7. \A b \in Registered(k, d) : x <= b
    <2>1. x \in Nat /\ x <= g.made /\ \A b \in Registered(k, d) : b \in Nat
      BY <1>1, <1>2, <1>4 DEF Made
    <2> HIDE DEF x, y
    <2> SUFFICES ASSUME NEW b \in Registered(k, d) PROVE x <= b
      OBVIOUS
    <2>2. CASE b > g.made
      BY <1>1, <2>1, <2>2
    <2> QED BY <1>4, <1>6, <2>2
  <1>8. x \in Registered(k, d)
    BY <1>4, <1>5
  <1> HIDE DEF x
  <1>9. y \in Registered(k, d) /\ \A b \in Registered(k, d) : y <= b
    BY <1>7, <1>8 DEF DocAnchor
  <1> HIDE DEF y
  <1>10. x \in Nat /\ y \in Nat
    BY <1>1, <1>2, <1>8, <1>9
  <1>11. x = y
    BY <1>7, <1>8, <1>9, <1>10
  <1> QED BY <1>4, <1>8, <1>11 DEF x, y

\* A reference that has an anchor keeps it in a graph that grew and moved no address.
LEMMA ReferenceStays ==
  ASSUME NEW g, NEW k, Sound(g), Sound(k), Grows(g, k),
         \A a \in Made(g) : k.address[a] = g.address[a],
         NEW ref \in Reference, Resolves(g, ref)
  PROVE  Resolves(k, ref) /\ AnchorAt(k, ref) = AnchorAt(g, ref)
  <1> DEFINE d == DocAnchor(g, ref.addr)
             t == ref.tag
  <1>1. /\ Registered(g, ref.addr) # {} /\ Registered(k, ref.addr) # {}
        /\ d \in Registered(g, ref.addr) /\ DocAnchor(k, ref.addr) = d
    BY DocumentStays DEF Resolves
  <1>2. WithDocAnchor(g, ref.addr) = g /\ WithDocAnchor(k, ref.addr) = k
    BY <1>1 DEF WithDocAnchor
  <1>3. d # NIL
    BY <1>1 DEF Registered, Orphans, Made, Anchor, NIL
  <1>4. CASE t = NoTag
    BY <1>1, <1>4 DEF Resolves, AnchorAt
  <1>5. CASE t # NoTag
    <2>1. PICK s \in Named(g, d, t) : TRUE
      BY <1>5 DEF Resolves
    <2> HIDE DEF d, t
    <2>2. s \in Made(g) /\ g.parent[s] = d /\ g.address[s] = t
      BY <2>1 DEF Named
    <2>3. s \in Made(k) /\ k.parent[s] = d /\ k.address[s] = t
      BY <2>2 DEF Grows
    <2>4. \A b \in Made(g) : g.parent[b] = d /\ g.address[b] = t => b = s
      BY <1>3, <2>2 DEF Sound, DistinctTags
    <2>5. \A b \in Made(k) : k.parent[b] = d /\ k.address[b] = t => b = s
      BY <1>3, <2>3 DEF Sound, DistinctTags
    <2>6. Named(g, d, t) = {s} /\ Named(k, d, t) = {s}
      BY <2>2, <2>3, <2>4, <2>5 DEF Named
    <2>7. SubAnchor(g, d, t) = s /\ SubAnchor(k, d, t) = s
      BY <2>6 DEF SubAnchor
    <2>8. /\ AnchorAt(g, ref) = SubAnchor(g, d, t)
          /\ AnchorAt(k, ref) = SubAnchor(k, d, t)
      BY <1>1, <1>2, <1>5 DEF AnchorAt, d, t
    <2>9. Resolves(k, ref)
      BY <1>1, <2>6 DEF Resolves, t
    <2> QED BY <2>7, <2>8, <2>9
  <1> QED BY <1>4, <1>5

----------------------------------------------------------------------------
(* The ways in which a handler ends.                                       *)

\* Nothing is forgotten: the anchors stay, the texts of `others' stay as they
\* are, and the only edits given up are those of `clean'.
Keeps(others, clean) ==
  /\ Grows(graph, graph')
  /\ \A e \in others : text'[e] = text[e]
  /\ edited \subseteq edited' \cup clean

\* What a load does to the session it was started in, with history h and for
\* the caller c: it closes nothing, touches no open text, and the history it
\* leaves is h, or h and the anchor that c follows.
Leaves(h, c, clean) ==
  /\ Keeps(loaded, clean)
  /\ loaded \subseteq loaded'
  /\ \/ history' = h
     \/ c.kind = "follow" /\ history' = Append(h, c.src)

\* A handler that touches no text and opens or closes no window.
LEMMA NodesKept ==
  ASSUME Inv, Sound(graph'), Grows(graph, graph'),
         UNCHANGED <<text, loaded, local, index, failed>>,
         edited' \subseteq loaded, editable' \subseteq loaded,
         main' \in loaded \cup {main}, panel' \in BOOLEAN
  PROVE  Nodes'
  <1>1. /\ loaded \subseteq Orphans(graph')
        /\ \A d \in Anchor : \A k \in text[d] : graph'.parent[k] = d
    BY NodesGrow
  <1>2. TextOwn'
    BY <1>1 DEF TextOwn
  <1>3. WindowsOfDocuments'
    <2>1. NIL \notin loaded
      BY DEF Inv, Nodes, Anchor, NIL
    <2> QED BY <1>1, <2>1 DEF Inv, Nodes, WindowsOfDocuments
  <1> QED BY <1>2, <1>3 DEF Inv, Nodes

\* A handler that opens a window on d (initWithAnchor:Server:).
LEMMA NodesNew ==
  ASSUME Inv, NEW g, Sound(g), Grows(graph, g), NEW d \in Orphans(g),
         NEW isLocal, NEW isEditable, NewNode(g, d, isLocal, isEditable),
         failed' \subseteq failed \cup {d}
  PROVE  Nodes'
  <1>1. d \in Anchor
    BY DEF Orphans, Made
  <1>2. /\ loaded \subseteq Orphans(g)
        /\ \A e \in Anchor : \A k \in text[e] : g.parent[k] = e
    BY NodesGrow
  <1>3. /\ graph' = g /\ text' = [text EXCEPT ![d] = {}]
        /\ loaded' = loaded \cup {d} /\ main' = d /\ panel' = panel
        /\ local' \subseteq local \cup {d} /\ editable' \subseteq editable \cup {d}
        /\ edited' \subseteq edited /\ index' \subseteq index
    BY DEF NewNode
  <1>4. /\ text' \in [Anchor -> SUBSET Anchor]
        /\ \A e \in Anchor : text'[e] = IF e = d THEN {} ELSE text[e]
    BY <1>1, <1>3 DEF Inv, Nodes
  <1>5. TextOwn'
    BY <1>2, <1>3, <1>4 DEF TextOwn
  <1>6. WindowsOfDocuments'
    <2>1. \A e \in Anchor \ loaded' : text'[e] = {}
      BY <1>3, <1>4 DEF Inv, Nodes, WindowsOfDocuments
    <2>2. d # NIL
      BY <1>1 DEF Anchor, NIL
    <2> QED BY <1>2, <1>3, <2>1, <2>2 DEF Inv, Nodes, WindowsOfDocuments
  <1> QED BY <1>1, <1>3, <1>4, <1>5, <1>6 DEF Inv, Nodes

\* A handler that returns to `select', and so perhaps to `follow'.
LEMMA WaitsReturn ==
  ASSUME Inv, NEW g, NEW h, NEW c, Linked(g, h), NEW found,
         found => Caller(g, c), Grows(g, graph'), Return(c, h, found)
  PROVE  Waits'
  <1>1. Idle \in Calls /\ Idle.step = "idle" /\ Idle.kind = "open"
    BY DEF Idle, Call, Calls, Kinds
  <1>2. Linked(g, history')
    <2>1. CASE history' = h
      BY <2>1
    <2>2. CASE found /\ c.kind = "follow" /\ history' = Append(h, c.src)
      <3>1. c.src \in Anchor /\ h \in Seq(Anchor)
        BY <2>2 DEF Caller, Linked, Made
      <3>2. /\ history' \in Seq(Anchor) /\ Len(history') = Len(h) + 1
            /\ \A i \in 1..Len(history') :
                 history'[i] = IF i \in 1..Len(h) THEN h[i] ELSE c.src
        BY <2>2, <3>1
      <3> QED BY <2>2, <3>2 DEF Linked, Caller
    <2> QED BY <2>1, <2>2 DEF Return
  <1>3. Linked(graph', history')
    BY <1>2, LinkedGrows
  <1>4. Caller(graph', call')
    BY <1>1 DEF Caller, Return
  <1> QED BY <1>1, <1>3, <1>4 DEF Waits, Return, Inv

\* A handler that goes on to read the document d.
LEMMA WaitsReading ==
  ASSUME Inv, NEW g, NEW h, NEW c, Linked(g, h), Caller(g, c), graph' = g,
         NEW d \in Anchor, d \in loaded', NEW step \in {"reading", "ending"},
         call' = [c EXCEPT !.step = step, !.doc = d], history' = h,
         raised' = raised
  PROVE  Waits'
  <1>1. /\ call' \in Calls /\ call'.step = step /\ call'.doc = d
        /\ call'.kind = c.kind /\ call'.src = c.src
    BY DEF Caller, Calls
  <1> QED BY <1>1 DEF Waits, Caller, Inv

\* A load that fails before there is a node.
LEMMA LoadFailsKeeps ==
  ASSUME Inv, NEW g, NEW h, NEW c, Sound(g), Grows(graph, g),
         Linked(g, h), LoadFails(g, h, c)
  PROVE  Inv' /\ Leaves(h, c, {})
  <1>1. /\ graph' = g /\ Return(c, h, FALSE)
        /\ UNCHANGED <<text, loaded, local, editable, edited, index, failed, main, panel>>
    BY DEF LoadFails, nodeVars
  <1>2. Nodes'
    BY <1>1, NodesKept DEF Inv, Nodes, WindowsOfDocuments
  <1>3. Waits'
    BY <1>1, WaitsReturn, GrowsReflexive
  <1>4. Leaves(h, c, {})
    BY <1>1 DEF Leaves, Keeps, Return
  <1> QED BY <1>1, <1>2, <1>3, <1>4 DEF Inv

----------------------------------------------------------------------------
(* The rest of a handler once its document is there.                       *)

\* loadAnchor:Diagnostic: succeeded, for `select'.
LEMMA AfterSelectKeeps ==
  ASSUME Inv, NEW g, NEW h, NEW c, Sound(g), Grows(graph, g),
         Linked(g, h), Caller(g, c), NEW d, NEW clean,
         AfterSelect(g, h, c, d, clean)
  PROVE  Inv' /\ Leaves(h, c, clean)
  <1>1. /\ graph' = g /\ Return(c, h, d \in loaded => SelectAnchorFinds)
        /\ UNCHANGED <<text, loaded, local, editable, index, failed>>
        /\ edited' = edited \ clean /\ main' \in loaded \cup {main}
        /\ panel' \in BOOLEAN
    BY DEF AfterSelect
  <1>2. Nodes'
    BY <1>1, NodesKept DEF Inv, Nodes, WindowsOfDocuments
  <1>3. Waits'
    BY <1>1, WaitsReturn, GrowsReflexive
  <1>4. Leaves(h, c, clean)
    BY <1>1 DEF Leaves, Keeps, Return
  <1> QED BY <1>1, <1>2, <1>3, <1>4 DEF Inv

\* openFile:diagnostic: opens nothing and selects nothing.
LEMMA AfterOpenFileKeeps ==
  ASSUME Inv, NEW g, NEW h, NEW c, Sound(g), Grows(graph, g),
         Linked(g, h), Caller(g, c), NEW clean,
         AfterOpenFile(g, h, c, clean)
  PROVE  Inv' /\ Leaves(h, c, clean)
  <1>1. /\ graph' = g /\ Return(c, h, TRUE)
        /\ UNCHANGED <<text, loaded, local, editable, index, failed, main, panel>>
        /\ edited' = edited \ clean
    BY DEF AfterOpenFile
  <1>2. Nodes'
    BY <1>1, NodesKept DEF Inv, Nodes, WindowsOfDocuments
  <1>3. Waits'
    BY <1>1, WaitsReturn, GrowsReflexive
  <1>4. Leaves(h, c, clean)
    BY <1>1 DEF Leaves, Keeps, Return
  <1> QED BY <1>1, <1>2, <1>3, <1>4 DEF Inv

\* openMy: and makeNewNode: have a window to bring to the front.
LEMMA AfterOpenMyKeeps ==
  ASSUME Inv, NEW g, NEW h, NEW c, Sound(g), Grows(graph, g),
         Linked(g, h), Caller(g, c), NEW d \in loaded, NEW clean,
         AfterOpenMy(g, h, c, d, clean)
  PROVE  Inv' /\ Leaves(h, c, clean)
  <1> DEFINE own == c.name = NoName
             g1  == IF own THEN g ELSE SetAddress(g, d, c.name)
             ed1 == IF own THEN editable ELSE editable \cup {d}
  <1>1. /\ main' = d /\ edited' = edited \ clean
        /\ UNCHANGED <<text, loaded, local, index, failed, panel>>
        /\ \/ graph' = g1 /\ editable' = ed1 /\ Return(c, h, TRUE)
           \/ /\ \E n \in SaveName : graph' = SetAddress(g1, d, n)
              /\ editable' = editable \cup {d}
              /\ \/ Return(c, h, TRUE)
                 \/ /\ call' = [c EXCEPT !.step = "linking", !.doc = d]
                    /\ history' = h
                    /\ raised' = raised
    BY DEF AfterOpenMy
  <1>2. d \in Orphans(g) /\ d \in Anchor
    BY NodesGrow DEF Inv, Nodes
  <1>3. c.name \in Addr \cup {NoName}
    BY DEF Caller, Calls
  <1>4. Sound(g1) /\ Grows(g, g1) /\ d \in Orphans(g1)
    <2>1. CASE own
      BY <1>2, <2>1, GrowsReflexive
    <2>2. CASE ~own
      BY <1>2, <1>3, <2>2, SetAddressSound
    <2> QED BY <2>1, <2>2
  <1> HIDE DEF g1, ed1
  <1>5. Sound(graph') /\ Grows(g, graph')
    <2>1. CASE graph' = g1
      BY <1>4, <2>1
    <2>2. CASE \E n \in SaveName : graph' = SetAddress(g1, d, n)
      <3>1. PICK n \in SaveName : graph' = SetAddress(g1, d, n)
        BY <2>2
      <3>2. n \in Addr
        BY BrowserAssumption
      <3>3. Sound(graph') /\ Grows(g1, graph')
        BY <1>4, <3>1, <3>2, SetAddressSound
      <3> QED BY <1>4, <3>3, GrowsTransitive
    <2> QED BY <1>1, <2>1, <2>2
  <1>6. Nodes'
    <2>1. Grows(graph, graph')
      BY <1>5, GrowsTransitive
    <2>2. editable' \subseteq loaded /\ edited' \subseteq loaded /\ panel' \in BOOLEAN
      BY <1>1 DEF Inv, Nodes, WindowsOfDocuments, ed1
    <2> QED BY <1>1, <1>5, <2>1, <2>2, NodesKept
  <1>7. Waits'
    <2>1. CASE Return(c, h, TRUE)
      BY <1>5, <2>1, WaitsReturn
    <2>2. CASE /\ call' = [c EXCEPT !.step = "linking", !.doc = d]
               /\ history' = h
               /\ raised' = raised
      <3>1. /\ call' \in Calls /\ call'.step = "linking" /\ call'.doc = d
            /\ call'.kind = c.kind /\ call'.src = c.src
        BY <1>2, <2>2 DEF Caller, Calls
      <3>2. Linked(graph', history') /\ Caller(graph', c)
        BY <1>5, <2>2, LinkedGrows
      <3>3. d \in Made(graph')
        BY <1>2, <1>5 DEF Grows, Orphans
      <3> QED BY <2>2, <3>1, <3>2, <3>3 DEF Waits, Caller, Inv
    <2> QED BY <1>1, <2>1, <2>2
  <1>8. Leaves(h, c, clean)
    <2>1. Grows(graph, graph')
      BY <1>5, GrowsTransitive
    <2> QED BY <1>1, <2>1 DEF Leaves, Keeps, Return
  <1> QED BY <1>5, <1>6, <1>7, <1>8 DEF Inv

\* Any of the three; a document that openMy: asked for is open by then.
LEMMA AfterLoadKeeps ==
  ASSUME Inv, NEW g, NEW h, NEW c, Sound(g), Grows(graph, g),
         Linked(g, h), Caller(g, c), NEW d, NEW clean,
         c.kind \in {"my", "new", "link"} => d \in loaded,
         AfterLoad(g, h, c, d, clean)
  PROVE  Inv' /\ Leaves(h, c, clean)
  <1>1. CASE AfterSelect(g, h, c, d, clean)
    BY <1>1, AfterSelectKeeps
  <1>2. CASE AfterOpenFile(g, h, c, clean)
    BY <1>2, AfterOpenFileKeeps
  <1>3. CASE AfterOpenMy(g, h, c, d, clean)
    <2>1. d \in loaded
      BY <1>3 DEF AfterOpenMy
    <2> QED BY <1>3, <2>1, AfterOpenMyKeeps
  <1> QED BY <1>1, <1>2, <1>3 DEF AfterLoad

----------------------------------------------------------------------------
(* Loading.                                                                *)

\* The premises of every load: g is the graph so far, h the history, c the
\* caller, d the document to load.
Loads(g, h, c, d) ==
  /\ Sound(g) /\ Grows(graph, g)
  /\ Linked(g, h) /\ Caller(g, c)
  /\ d \in Orphans(g)

\* FileAccess simplifies the address of the document it is given.
LEMMA SimplifySound ==
  ASSUME NEW g, Sound(g), NEW d \in Orphans(g)
  PROVE  /\ Sound(Simplify(g, d)) /\ Grows(g, Simplify(g, d))
         /\ Orphans(Simplify(g, d)) = Orphans(g)
         /\ Simplify(g, d).address[d] = Simplified[g.address[d]]
         /\ g.address[d] \in Addr
  <1>1. g.address[d] \in Addr
    BY DEF Sound, DistinctTags, Orphans
  <1>2. Simplified[g.address[d]] \in Addr
    BY <1>1, BrowserAssumption
  <1> QED BY <1>1, <1>2, SetAddressSound DEF Simplify

\* A window on a document that had none is no loss to the others.
LEMMA NewNodeLeaves ==
  ASSUME Inv, NEW g, NEW h, NEW c, NEW d, Loads(g, h, c, d), d \notin loaded,
         NEW isLocal, NEW isEditable, NewNode(g, d, isLocal, isEditable),
         history' = h
  PROVE  Leaves(h, c, {})
  <1>1. /\ graph' = g /\ text' = [text EXCEPT ![d] = {}]
        /\ loaded' = loaded \cup {d} /\ edited' = edited \ {d}
    BY DEF NewNode
  <1>2. edited \subseteq loaded /\ loaded \subseteq Anchor
    BY DEF Inv, Nodes, WindowsOfDocuments
  <1>3. \A e \in loaded : text'[e] = text[e]
    BY <1>1, <1>2 DEF Inv, Nodes
  <1> QED BY <1>1, <1>2, <1>3 DEF Leaves, Keeps, Loads

\* FileAccess, when the file can be opened.
LEMMA FileOpensKeeps ==
  ASSUME Inv, NEW g0, NEW h, NEW c, NEW d, Loads(g0, h, c, d),
         c.kind \in {"my", "new", "link"} => Simplified[g0.address[d]] \notin Foreign,
         FileOpens(g0, h, d, c)
  PROVE  Inv' /\ Leaves(h, c, {})
  <1> DEFINE g == Simplify(g0, d)
  <1>1. /\ Sound(g) /\ Grows(graph, g) /\ Linked(g, h) /\ Caller(g, c)
        /\ d \in Orphans(g) /\ g.address[d] = Simplified[g0.address[d]]
    <2>1. Sound(g) /\ Grows(g0, g) /\ Orphans(g) = Orphans(g0)
      BY SimplifySound DEF Loads
    <2>2. g.address[d] = Simplified[g0.address[d]]
      BY SimplifySound DEF Loads
    <2> HIDE DEF g
    <2> QED BY <2>1, <2>2, GrowsTransitive, LinkedGrows DEF Loads
  <1>2. \/ /\ d \in loaded \/ g.address[d] \in Foreign
           /\ AfterLoad(g, h, c, d, {})
        \/ /\ d \notin loaded
           /\ NewNode(g, d, TRUE, g.address[d] \in Writable)
           /\ Reading(h, c, d, "reading")
    BY DEF FileOpens
  <1> HIDE DEF g
  <1>3. CASE /\ d \in loaded \/ g.address[d] \in Foreign
             /\ AfterLoad(g, h, c, d, {})
    BY <1>1, <1>3, AfterLoadKeeps
  <1>4. CASE /\ d \notin loaded
             /\ NewNode(g, d, TRUE, g.address[d] \in Writable)
             /\ Reading(h, c, d, "reading")
    <2>1. graph' = g /\ d \in loaded' /\ d \in Anchor
      BY <1>1, <1>4 DEF NewNode, Orphans, Made
    <2>2. Nodes'
      <3>1. failed' \subseteq failed \cup {d}
        BY <1>4 DEF Reading
      <3> QED BY <1>1, <1>4, <3>1, NodesNew
    <2>3. Waits'
      BY <1>1, <1>4, <2>1, WaitsReading DEF Reading
    <2>4. Leaves(h, c, {})
      BY <1>1, <1>4, NewNodeLeaves DEF Loads, Reading
    <2> QED BY <1>1, <2>1, <2>2, <2>3, <2>4 DEF Inv
  <1> QED BY <1>2, <1>3, <1>4

\* FileAccess, when it cannot.
LEMMA FileFailsKeeps ==
  ASSUME Inv, NEW g, NEW h, NEW c, NEW d, Loads(g, h, c, d),
         FileFails(g, h, d, c)
  PROVE  Inv' /\ Leaves(h, c, {})
  <1>1. Sound(Simplify(g, d)) /\ Grows(g, Simplify(g, d))
    BY SimplifySound DEF Loads
  <1>2. /\ Grows(graph, Simplify(g, d))
        /\ Linked(Simplify(g, d), h) /\ Caller(Simplify(g, d), c)
    BY <1>1, GrowsTransitive, LinkedGrows DEF Loads
  <1> QED BY <1>1, <1>2, LoadFailsKeeps DEF FileFails

\* TcpAccess, with or without an answer from the host.
LEMMA HttpLoadKeeps ==
  ASSUME Inv, NEW g, NEW h, NEW c, NEW d, Loads(g, h, c, d),
         d \notin loaded, HttpLoad(g, h, d, c)
  PROVE  Inv' /\ Leaves(h, c, {})
  <1>1. NewNode(g, d, FALSE, FALSE)
    BY DEF HttpLoad
  <1>2. graph' = g /\ d \in loaded' /\ d \in Anchor
    BY <1>1 DEF NewNode, Loads, Orphans, Made
  <1>3. failed' \subseteq failed \cup {d}
    BY DEF HttpLoad, Reading
  <1>4. Nodes'
    BY <1>1, <1>3, NodesNew DEF Loads
  <1>5. Waits'
    <2>1. CASE Reading(h, c, d, "reading")
      BY <1>2, <2>1, WaitsReading DEF Reading, Loads
    <2>2. CASE Return(c, h, FALSE)
      BY <1>2, <2>2, WaitsReturn, GrowsReflexive DEF Loads
    <2> QED BY <2>1, <2>2 DEF HttpLoad
  <1>6. Leaves(h, c, {})
    <2>1. history' = h
      BY DEF HttpLoad, Reading, Return
    <2> QED BY <1>1, <2>1, NewNodeLeaves
  <1> QED BY <1>2, <1>4, <1>5, <1>6 DEF Inv, Loads

\* NewsAccess, likewise.
LEMMA NewsLoadKeeps ==
  ASSUME Inv, NEW g, NEW h, NEW c, NEW d, Loads(g, h, c, d),
         d \notin loaded, NewsLoad(g, h, d, c)
  PROVE  Inv' /\ Leaves(h, c, {})
  <1>1. PICK e \in BOOLEAN, step \in {"reading", "ending"} :
          NewNode(g, d, FALSE, e) /\ Reading(h, c, d, step)
    BY DEF NewsLoad
  <1>2. graph' = g /\ d \in loaded' /\ d \in Anchor
    BY <1>1 DEF NewNode, Loads, Orphans, Made
  <1>3. failed' \subseteq failed \cup {d}
    BY <1>1 DEF Reading
  <1>4. Nodes'
    BY <1>1, <1>3, NodesNew DEF Loads
  <1>5. Waits'
    BY <1>1, <1>2, WaitsReading DEF Reading, Loads
  <1>6. Leaves(h, c, {})
    BY <1>1, NewNodeLeaves DEF Reading
  <1> QED BY <1>2, <1>4, <1>5, <1>6 DEF Inv, Loads

\* loadAnchor:Diagnostic: of HyperManager.
LEMMA ManagerLoadKeeps ==
  ASSUME Inv, NEW g, NEW h, NEW c, NEW d, Loads(g, h, c, d),
         d \notin loaded, c.kind \in {"open", "follow"}, ManagerLoad(g, h, d, c)
  PROVE  Inv' /\ Leaves(h, c, {})
  <1>1. CASE FileOpens(g, h, d, c)
    BY <1>1, FileOpensKeeps
  <1>2. CASE FileFails(g, h, d, c)
    BY <1>2, FileFailsKeeps
  <1>3. CASE HttpLoad(g, h, d, c)
    BY <1>3, HttpLoadKeeps
  <1>4. CASE NewsLoad(g, h, d, c)
    BY <1>4, NewsLoadKeeps
  <1>5. CASE LoadFails(g, h, c)
    BY <1>5, LoadFailsKeeps DEF Loads
  <1> QED BY <1>1, <1>2, <1>3, <1>4, <1>5 DEF ManagerLoad

\* selectDiagnostic:
LEMMA SelectKeeps ==
  ASSUME Inv, NEW g, NEW h, NEW c, NEW a \in Made(g),
         Sound(g), Grows(graph, g), Linked(g, h), Caller(g, c),
         c.kind \in {"open", "follow"}, Select(g, h, a, c)
  PROVE  Inv' /\ Leaves(h, c, {})
  <1> DEFINE d == DocOf(g, a)
  <1>1. d \in Orphans(g)
    BY DEF DocOf, Orphans, Sound, Families, Made
  <1> HIDE DEF d
  <1>2. \/ /\ d \in loaded /\ graph' = g /\ main' = d
           /\ Return(c, h, SelectAnchorFinds)
           /\ UNCHANGED <<nodeVars, panel>>
        \/ d \notin loaded /\ ManagerLoad(g, h, d, c)
    BY DEF Select, d
  <1>3. CASE d \notin loaded /\ ManagerLoad(g, h, d, c)
    BY <1>1, <1>3, ManagerLoadKeeps DEF Loads
  <1>4. CASE /\ d \in loaded /\ graph' = g /\ main' = d
             /\ Return(c, h, SelectAnchorFinds)
             /\ UNCHANGED <<nodeVars, panel>>
    <2>1. Nodes'
      BY <1>4, NodesKept DEF Inv, Nodes, WindowsOfDocuments, nodeVars
    <2>2. Waits'
      BY <1>4, WaitsReturn, GrowsReflexive
    <2>3. Leaves(h, c, {})
      BY <1>4 DEF Leaves, Keeps, Return, nodeVars
    <2> QED BY <1>4, <2>1, <2>2, <2>3 DEF Inv
  <1> QED BY <1>2, <1>3, <1>4

----------------------------------------------------------------------------
(* The handlers that load.                                                 *)

\* A handler starts from a state of its own: nothing was done yet.
LEMMA Begins ==
  ASSUME Inv
  PROVE  Sound(graph) /\ Grows(graph, graph) /\ Linked(graph, history)
  BY GrowsReflexive DEF Inv, Waits

\* Only `follow' needs an anchor to follow.
LEMMA NewCaller ==
  ASSUME NEW g, NEW kind \in Kinds \ {"follow"}, NEW src \in Anchor \cup {NIL},
         NEW name \in Addr \cup {NoName}
  PROVE  /\ Caller(g, Call(kind, src, name)) /\ Caller(g, Idle)
         /\ Call(kind, src, name).kind = kind /\ Idle.kind = "open"
         /\ Call(kind, src, name).name = name
  BY DEF Caller, Call, Idle, Calls, Kinds

\* followLink, moveBy: follow an anchor of a document, if it is a link.
LEMMA FollowKeeps ==
  ASSUME Inv, NEW h, Linked(graph, h),
         NEW s \in Made(graph), graph.parent[s] # NIL,
         LET c == Call("follow", s, NoName)
         IN  IF graph.dest[s] = NIL THEN LoadFails(graph, h, c)
             ELSE Select(graph, h, graph.dest[s], c)
  PROVE  Inv' /\ Leaves(h, Call("follow", s, NoName), {})
  <1> DEFINE c == Call("follow", s, NoName)
  <1> SUFFICES Inv' /\ Leaves(h, c, {})
    OBVIOUS
  <1>1. CASE graph.dest[s] = NIL
    <2>1. LoadFails(graph, h, c)
      BY <1>1
    <2> HIDE DEF c
    <2> QED BY <2>1, Begins, LoadFailsKeeps
  <1>2. CASE graph.dest[s] # NIL
    <2>1. s \in Anchor
      BY DEF Made
    <2>2. graph.dest[s] \in Made(graph)
      BY <1>2, <2>1 DEF Inv, Sound, LinksKnown
    <2>3. Caller(graph, c) /\ c.kind = "follow"
      BY <1>2, <2>1 DEF Caller, Call, Calls, Kinds
    <2>4. Select(graph, h, graph.dest[s], c)
      BY <1>2
    <2> HIDE DEF c
    <2> QED BY <2>2, <2>3, <2>4, Begins, SelectKeeps
  <1> QED BY <1>1, <1>2

\* openFile:diagnostic:, for itself and for openMy:.
LEMMA OpenAtKeeps ==
  ASSUME Inv, NEW g, NEW h, NEW c, NEW d \in Addr, Sound(g), Grows(graph, g),
         Linked(g, h), Caller(g, c),
         c.kind \in {"my", "new", "link"} => Simplified[d] \notin Foreign,
         OpenAt(g, h, d, c, FileOpens) \/ OpenAt(g, h, d, c, FileFails)
  PROVE  Inv' /\ Leaves(h, c, {})
  <1> DEFINE g1 == WithDocAnchor(g, d)
             a  == DocAnchor(g, d)
  <1>1. /\ HasRoom(g1)
        /\ FileOpens(g1, h, a, c) \/ FileFails(g1, h, a, c)
    BY DEF OpenAt
  <1>2. /\ Sound(g1) /\ Grows(g, g1) /\ a \in Orphans(g1) /\ g1.address[a] = d
    BY <1>1, DocAnchorSound, DocAnchorAddress
  <1> HIDE DEF g1, a
  <1>3. Loads(g1, h, c, a)
    BY <1>2, GrowsTransitive, LinkedGrows DEF Loads
  <1> QED BY <1>1, <1>2, <1>3, FileOpensKeeps, FileFailsKeeps

\* openMy:diagnostic:, whichever copy it opens.
LEMMA OpenMyKeeps ==
  ASSUME Inv, NEW page \in Page, NEW kind \in {"my", "new", "link"},
         NEW src \in Anchor \cup {NIL}, OpenMy(page, kind, src)
  PROVE  Inv' /\ Leaves(history, Idle, {})
  <1> DEFINE g1    == WithDocAnchor(graph, page.personal)
             tried == Simplify(g1, DocAnchor(graph, page.personal))
  <1>1. /\ page.personal \in Addr /\ page.plain \in Addr /\ page.template \in Addr
        /\ Simplified[page.personal] \notin Foreign
        /\ Simplified[page.template] \notin Foreign
    BY BrowserAssumption DEF Pages
  <1>2. kind \in Kinds \ {"follow"}
    BY DEF Kinds
  <1>3. ASSUME NEW g, Sound(g), Grows(graph, g), OpenTemplate(g, page, kind, src)
        PROVE  Inv' /\ Leaves(history, Idle, {})
    <2> DEFINE c == Call(kind, src, page.plain)
    <2>1. Linked(g, history)
      BY <1>3, Begins, LinkedGrows
    <2>2. Caller(g, c) /\ c.kind # "follow"
      BY <1>1, <1>2, NewCaller
    <2>3. \/ OpenAt(g, history, page.template, c, FileOpens)
          \/ OpenAt(g, history, page.template, c, FileFails)
      BY <1>3 DEF OpenTemplate
    <2> HIDE DEF c
    <2>4. Inv' /\ Leaves(history, c, {})
      BY <1>1, <1>3, <2>1, <2>2, <2>3, OpenAtKeeps
    <2> QED BY <2>2, <2>4 DEF Leaves
  <1>4. CASE OpenAt(graph, history, page.personal, Call(kind, src, NoName), FileOpens)
    <2> DEFINE c == Call(kind, src, NoName)
    <2>1. Caller(graph, c) /\ c.kind # "follow"
      BY <1>2, NewCaller
    <2>2. OpenAt(graph, history, page.personal, c, FileOpens)
      BY <1>4
    <2> HIDE DEF c
    <2>3. Inv' /\ Leaves(history, c, {})
      BY <1>1, <2>1, <2>2, Begins, OpenAtKeeps
    <2> QED BY <2>1, <2>3 DEF Leaves
  <1>5. CASE OpenTemplate(graph, page, kind, src)
    BY <1>3, <1>5, Begins
  <1>6. CASE HasRoom(g1) /\ OpenTemplate(tried, page, kind, src)
    <2>1. /\ Sound(g1) /\ Grows(graph, g1)
          /\ DocAnchor(graph, page.personal) \in Orphans(g1)
      BY <1>1, <1>6, Begins, DocAnchorSound
    <2> HIDE DEF g1
    <2>2. Sound(tried) /\ Grows(graph, tried)
      BY <2>1, SimplifySound, GrowsTransitive
    <2> HIDE DEF tried
    <2> QED BY <1>3, <1>6, <2>2
  <1> QED BY <1>4, <1>5, <1>6 DEF OpenMy

\* open:, and searchDiagnostic: through it.
LEMMA OpenReferenceKeeps ==
  ASSUME Inv, NEW ref \in Reference, OpenReference(ref)
  PROVE  Inv' /\ Leaves(history, Idle, {})
  <1> DEFINE g == WithAnchor(graph, ref)
             a == AnchorAt(graph, ref)
  <1>1. HasRoom(g) /\ Select(g, history, a, Idle)
    BY DEF OpenReference
  <1>2. Sound(g) /\ Grows(graph, g) /\ a \in Made(g)
    BY <1>1, Begins, AnchorSound
  <1> HIDE DEF g, a
  <1>3. Linked(g, history) /\ Caller(g, Idle) /\ Idle.kind = "open"
    BY <1>2, Begins, LinkedGrows DEF Caller, Idle, Call, Calls, Kinds
  <1> QED BY <1>1, <1>2, <1>3, SelectKeeps

\* searchDiagnostic:
LEMMA SearchKeeps ==
  ASSUME Inv, Search
  PROVE  Inv' /\ Leaves(history, Idle, {})
  <1> DEFINE ref == [addr |-> Query[graph.address[main]], tag |-> NoTag]
  <1>1. main \in Orphans(graph)
    BY DEF Search, Inv, Nodes, WindowsOfDocuments
  <1>2. graph.address[main] \in Addr
    BY <1>1 DEF Inv, Sound, DistinctTags, Orphans
  <1>3. ref \in Reference
    BY <1>2, BrowserAssumption DEF Reference
  <1>4. OpenReference(ref)
    BY DEF Search
  <1> HIDE DEF ref
  <1> QED BY <1>3, <1>4, OpenReferenceKeeps

----------------------------------------------------------------------------
(* The handlers that move through the history.                             *)

\* Anchor back
LEMMA BackKeeps ==
  ASSUME Inv, Back
  PROVE  Inv' /\ Leaves(history, Idle, {})
  <1>1. history[Len(history)] \in Made(graph)
    BY DEF Back, Inv, Waits, Linked
  <1>2. Caller(graph, Idle) /\ Idle.kind = "open"
    BY DEF Caller, Idle, Call, Calls, Kinds
  <1> QED BY <1>1, <1>2, Begins, SelectKeeps DEF Back

\* removeLastObject of HTHistory.
LEMMA FrontLength ==
  ASSUME NEW S, NEW h \in Seq(S), h # << >>
  PROVE  /\ Len(h) \in Nat \ {0}
         /\ Front(h) \in Seq(S) /\ Len(Front(h)) = Len(h) - 1
         /\ \A i \in 1..Len(Front(h)) : Front(h)[i] = h[i]
  <1> DEFINE n == Len(h) - 1
  <1>1. n \in Nat /\ n + 1 = Len(h) /\ Len(h) \in Nat \ {0}
    OBVIOUS
  <1>2. \A i \in 1..n : h[i] \in S
    BY <1>1
  <1>3. Front(h) = SubSeq(h, 1, n)
    BY DEF Front
  <1>4. SubSeq(h, 1, n) = [i \in 1..n |-> h[i]]
    BY <1>1
  <1> HIDE DEF n
  <1> QED BY <1>1, <1>2, <1>3, <1>4

\* It takes off what addObject: put on.
LEMMA FrontAppend ==
  ASSUME NEW S, NEW h \in Seq(S), NEW x \in S
  PROVE  Append(h, x) # << >> /\ Front(Append(h, x)) = h
  <1> DEFINE k == Append(h, x)
  <1>1. /\ k \in Seq(S) /\ k # << >> /\ Len(h) \in Nat /\ Len(k) = Len(h) + 1
        /\ \A i \in 1..Len(h) : k[i] = h[i]
    OBVIOUS
  <1> HIDE DEF k
  <1>2. /\ Front(k) \in Seq(S) /\ Len(Front(k)) = Len(h)
        /\ \A i \in 1..Len(h) : Front(k)[i] = h[i]
    BY <1>1, FrontLength
  <1>3. Front(k) = h
    BY <1>1, <1>2
  <1> QED BY <1>1, <1>3 DEF k

\* moveBy: finds the place of the last anchor among its siblings.
LEMMA PositionKnown ==
  ASSUME Inv, history # << >>
  PROVE  /\ Linked(graph, Front(history))
         /\ Siblings \in Seq(Anchor) /\ Position \in 1..Len(Siblings)
         /\ \A i \in 1..Len(Siblings) : /\ Siblings[i] \in Made(graph)
                                        /\ graph.parent[Siblings[i]] # NIL
  <1>1. /\ LastFollowed \in Made(graph) /\ graph.parent[LastFollowed] # NIL
        /\ LastFollowed \in Anchor
    BY DEF Inv, Waits, Linked, LastFollowed, Made
  <1>2. /\ graph.parent[LastFollowed] \in Anchor
        /\ \E i \in 1..Len(Siblings) : Siblings[i] = LastFollowed
    BY <1>1 DEF Inv, Sound, Families, Siblings, Orphans, Made
  <1>3. Siblings \in Seq(Anchor)
    BY <1>2 DEF Inv, Sound, Graph, Siblings
  <1>4. Position \in 1..Len(Siblings)
    BY <1>2 DEF Position
  <1>5. \A i \in 1..Len(Siblings) : /\ Siblings[i] \in Made(graph)
                                    /\ graph.parent[Siblings[i]] # NIL
    BY <1>1, <1>2, ChildMade DEF Inv, Siblings
  <1>6. Linked(graph, Front(history))
    <2>1. history \in Seq(Anchor) /\ Len(history) \in Nat \ {0}
      BY DEF Inv, Waits, Linked
    <2>2. /\ Front(history) \in Seq(Anchor) /\ Len(Front(history)) = Len(history) - 1
          /\ \A i \in 1..Len(Front(history)) : Front(history)[i] = history[i]
      BY <2>1, FrontLength
    <2> QED BY <2>1, <2>2 DEF Inv, Waits, Linked
  <1> QED BY <1>3, <1>4, <1>5, <1>6

\* A handler that leaves the history and the waiting caller alone.
LEMMA WaitsKept ==
  ASSUME Inv, Grows(graph, graph'), history' = history, call' = call,
         raised' \in BOOLEAN, loaded \subseteq loaded' \/ Ready
  PROVE  Waits'
  <1>1. Linked(graph', history') /\ Caller(graph', call')
    BY LinkedGrows DEF Inv, Waits
  <1>2. call.step = "linking" => call.doc \in Made(graph')
    BY DEF Inv, Waits, Grows
  <1> QED BY <1>1, <1>2 DEF Inv, Waits, Ready

\* moveBy: one step forward or back.
LEMMA MoveKeeps ==
  ASSUME Inv, Ready, history # << >>, NEW there, NEW i \in Int,
         there => i \in 1..Len(Siblings), MoveBy(there, Siblings[i])
  PROVE  /\ Inv'
         /\ \/ there /\ Leaves(Front(history), Call("follow", Siblings[i], NoName), {})
            \/ Leaves(history, Idle, {})
  <1>1. CASE there
    <2>1. Siblings[i] \in Made(graph) /\ graph.parent[Siblings[i]] # NIL
      BY <1>1, PositionKnown
    <2>2. Linked(graph, Front(history))
      BY PositionKnown
    <2> QED BY <1>1, <2>1, <2>2, FollowKeeps DEF MoveBy
  <1>2. CASE ~there
    <2>1. /\ raised' = TRUE
          /\ UNCHANGED <<graph, text, loaded, local, editable, edited, index,
                         failed, main, panel, history, call>>
      BY <1>2 DEF MoveBy, nodeVars
    <2>2. Nodes'
      BY <2>1, NodesKept, Begins DEF Inv, Nodes, WindowsOfDocuments
    <2>3. Waits'
      BY <2>1, WaitsKept, Begins
    <2>4. Leaves(history, Idle, {})
      BY <2>1, Begins DEF Leaves, Keeps
    <2> QED BY <2>1, <2>2, <2>3, <2>4 DEF Inv
  <1> QED BY <1>1, <1>2

\* The place of the last anchor followed is that of no other, so the anchor
\* one place on or back is next to it.
LEMMA OneStepIsBeside ==
  ASSUME Inv, history # << >>, NEW i \in 1..Len(Siblings),
         i = Position + 1 \/ i = Position - 1
  PROVE  Siblings[i] \in Anchor /\ Beside(LastFollowed, Siblings[i])
  <1>1. /\ Position \in 1..Len(Siblings) /\ Siblings \in Seq(Anchor)
        /\ Siblings[Position] = LastFollowed
    <2>1. /\ LastFollowed \in Anchor
          /\ graph.parent[LastFollowed] # NIL
      BY DEF Inv, Waits, Linked, LastFollowed, Made
    <2>2. \E j \in 1..Len(Siblings) : Siblings[j] = LastFollowed
      BY <2>1 DEF Inv, Sound, Families, Siblings
    <2> QED BY <2>2, PositionKnown DEF Position
  <1>2. Siblings[i] \in Anchor
    BY <1>1
  <1>3. graph.parent[LastFollowed] = graph.parent[Siblings[i]]
    <2>1. graph.parent[LastFollowed] \in Anchor
      BY DEF Inv, Waits, Linked, LastFollowed, Made, Sound, Families, Orphans
    <2> QED BY <2>1, ChildMade DEF Inv, Siblings
  <1> DEFINE kids == Siblings
  <1>4. \E j \in 1..(Len(kids) - 1) : {kids[j], kids[j + 1]} = {kids[Position], kids[i]}
    <2> DEFINE p == Position
    <2>1. p \in 1..Len(kids) /\ i \in 1..Len(kids) /\ Len(kids) \in Nat
      BY <1>1
    <2>2. i = p + 1 \/ i = p - 1
      OBVIOUS
    <2> HIDE DEF kids, p
    <2>3. CASE i = p + 1
      <3>1. p \in 1..(Len(kids) - 1)
        BY <2>1, <2>3
      <3> QED BY <2>3, <3>1 DEF p
    <2>4. CASE i = p - 1
      <3>1. i \in 1..(Len(kids) - 1) /\ i + 1 = p
        BY <2>1, <2>4
      <3>2. {kids[i], kids[i + 1]} = {kids[p], kids[i]}
        BY <3>1
      <3> QED BY <3>1, <3>2 DEF p
    <2> QED BY <2>2, <2>3, <2>4
  <1> QED BY <1>1, <1>2, <1>3, <1>4 DEF Beside, Siblings

\* next:, previous:
LEMMA NextPreviousKeep ==
  ASSUME Inv, NextAnchor \/ PreviousAnchor
  PROVE  /\ Inv'
         /\ \/ \E s \in Anchor : /\ Beside(LastFollowed, s)
                                 /\ Leaves(Front(history), Call("follow", s, NoName), {})
            \/ Leaves(history, Idle, {})
  <1>1. CASE NextAnchor
    <2>1. Position \in 1..Len(Siblings) /\ Len(Siblings) \in Nat
      BY <1>1, PositionKnown DEF NextAnchor
    <2>2. Position < Len(Siblings) => Position + 1 \in 1..Len(Siblings)
      BY <2>1
    <2> DEFINE i == Position + 1
               there == Position < Len(Siblings)
    <2>3. /\ Ready /\ history # << >> /\ i \in Int
          /\ there => i \in 1..Len(Siblings)
          /\ MoveBy(there, Siblings[i])
      BY <1>1, <2>1, <2>2 DEF NextAnchor
    <2>4. there => Siblings[i] \in Anchor /\ Beside(LastFollowed, Siblings[i])
      BY <2>2, <2>3, OneStepIsBeside
    <2> HIDE DEF i, there
    <2> QED BY <2>3, <2>4, MoveKeeps
  <1>2. CASE PreviousAnchor
    <2>1. Position \in 1..Len(Siblings) /\ Len(Siblings) \in Nat
      BY <1>2, PositionKnown DEF PreviousAnchor
    <2>2. Position > 1 => Position - 1 \in 1..Len(Siblings)
      BY <2>1
    <2> DEFINE i == Position - 1
               there == Position > 1
    <2>3. /\ Ready /\ history # << >> /\ i \in Int
          /\ there => i \in 1..Len(Siblings)
          /\ MoveBy(there, Siblings[i])
      BY <1>2, <2>1, <2>2 DEF PreviousAnchor
    <2>4. there => Siblings[i] \in Anchor /\ Beside(LastFollowed, Siblings[i])
      BY <2>2, <2>3, OneStepIsBeside
    <2> HIDE DEF i, there
    <2> QED BY <2>3, <2>4, MoveKeeps
  <1> QED BY <1>1, <1>2

----------------------------------------------------------------------------
(* The handlers that change texts.                                         *)

\* At most one text changes.
LEMMA OneChanged ==
  ASSUME NEW f \in [Anchor -> SUBSET Anchor], NEW d \in Anchor,
         NEW new \in SUBSET Anchor, NEW k, k = f \/ k = [f EXCEPT ![d] = new]
  PROVE  /\ k \in [Anchor -> SUBSET Anchor]
         /\ \A e \in Anchor : k[e] = f[e] \/ (e = d /\ k[e] = new)
  <1>1. CASE k = f
    BY <1>1
  <1>2. CASE k = [f EXCEPT ![d] = new]
    BY <1>2
  <1> QED BY <1>1, <1>2

\* A handler that changes the texts of documents that are open.
LEMMA NodesEdit ==
  ASSUME Inv, Sound(graph'), Grows(graph, graph'),
         UNCHANGED <<loaded, local, editable, index, failed, panel>>,
         edited' \subseteq loaded, main' \in loaded \cup {main},
         NEW d \in loaded, NEW new \in SUBSET Anchor,
         text' = text \/ text' = [text EXCEPT ![d] = new],
         \A k \in new : graph'.parent[k] = d
  PROVE  Nodes'
  <1>1. /\ loaded \subseteq Orphans(graph')
        /\ \A e \in Anchor : \A k \in text[e] : graph'.parent[k] = e
    BY NodesGrow
  <1>2. /\ text' \in [Anchor -> SUBSET Anchor]
        /\ \A e \in Anchor : text'[e] = text[e] \/ (e = d /\ text'[e] = new)
    <2>1. d \in Anchor /\ text \in [Anchor -> SUBSET Anchor]
      BY DEF Inv, Nodes
    <2> QED BY <2>1, OneChanged
  <1>3. TextOwn'
    BY <1>1, <1>2 DEF TextOwn
  <1>4. WindowsOfDocuments'
    <2>1. \A e \in Anchor \ loaded : text'[e] = {}
      BY <1>2 DEF Inv, Nodes, WindowsOfDocuments
    <2>2. NIL \notin loaded
      BY DEF Inv, Nodes, Anchor, NIL
    <2> QED BY <1>1, <2>1, <2>2 DEF Inv, Nodes, WindowsOfDocuments
  <1> QED BY <1>2, <1>3, <1>4 DEF Inv, Nodes

\* S_anchor: one <A> of the text.
LEMMA ReadAnchorKeeps ==
  ASSUME Inv, ReadAnchor
  PROVE  Inv' /\ Keeps(loaded \ {call.doc}, {})
  <1> DEFINE d == call.doc
  <1>1. PICK t \in Tag, ref \in Given \cup {NoTag}, shown \in BOOLEAN :
          LET g1 == WithSubAnchor(graph, d, t)
              k  == SubAnchor(graph, d, t)
              g2 == MakeLastChild(g1, k)
          IN  /\ HasRoom(g1)
              /\ IF ref = NoTag THEN graph' = g2
                 ELSE /\ HasRoom(WithAnchor(g2, ref))
                      /\ graph' = LinkTo(WithAnchor(g2, ref), k, AnchorAt(g2, ref))
              /\ text' = IF shown THEN [text EXCEPT ![d] = @ \cup {k}] ELSE text
    BY DEF ReadAnchor
  <1> DEFINE g1 == WithSubAnchor(graph, d, t)
             k  == SubAnchor(graph, d, t)
             g2 == MakeLastChild(g1, k)
             g3 == WithAnchor(g2, ref)
  <1>2. /\ d \in loaded /\ d \in Orphans(graph) /\ d \in Anchor
    BY DEF ReadAnchor, Inv, Waits, Nodes, WindowsOfDocuments
  <1>3. /\ Sound(g1) /\ Grows(graph, g1) /\ k \in Made(g1) /\ g1.parent[k] = d
    BY <1>1, <1>2, Begins, SubAnchorSound
  <1>4. k \in Anchor
    BY <1>3 DEF Made
  <1>5. HasRoom(g1) /\ text' \in {text, [text EXCEPT ![d] = text[d] \cup {k}]}
    BY <1>1, <1>2 DEF Inv, Nodes
  <1>6. \/ graph' = g2
        \/ ref # NoTag /\ HasRoom(g3) /\ graph' = LinkTo(g3, k, AnchorAt(g2, ref))
    BY <1>1
  <1> HIDE DEF g1, k
  <1>7. Sound(g2) /\ Grows(g1, g2) /\ k \in Made(g2)
    BY <1>3, <1>4, MakeLastChildSound
  <1> HIDE DEF g2
  <1>8. Sound(graph') /\ Grows(graph, graph') /\ graph'.parent[k] = d
    <2>1. Grows(graph, g2)
      BY <1>3, <1>7, GrowsTransitive
    <2>2. CASE graph' = g2
      BY <1>3, <1>7, <2>1, <2>2 DEF Grows
    <2>3. CASE ref # NoTag /\ HasRoom(g3) /\ graph' = LinkTo(g3, k, AnchorAt(g2, ref))
      <3>1. ref \in Reference
        BY <2>3, BrowserAssumption
      <3>2. Sound(g3) /\ Grows(g2, g3) /\ AnchorAt(g2, ref) \in Made(g3)
        BY <1>7, <2>3, <3>1, AnchorSound
      <3> HIDE DEF g3
      <3>3. k \in Made(g3)
        BY <1>7, <3>2 DEF Grows
      <3>4. Sound(graph') /\ Grows(g3, graph')
        BY <2>3, <3>2, <3>3, LinkToSound
      <3>5. Grows(g2, graph')
        BY <3>2, <3>4, GrowsTransitive
      <3>6. Grows(graph, graph') /\ Grows(g1, graph')
        BY <1>7, <2>1, <3>5, GrowsTransitive
      <3> QED BY <1>3, <3>4, <3>6 DEF Grows
    <2> QED BY <1>6, <2>2, <2>3
  <1>9. /\ UNCHANGED <<loaded, local, editable, index, failed, main, panel,
                       history, call, raised>>
        /\ edited' \subseteq loaded /\ edited \subseteq edited'
    BY <1>2 DEF ReadAnchor, Inv, Nodes, WindowsOfDocuments
  <1>10. Nodes'
    <2>1. /\ text[d] \cup {k} \in SUBSET Anchor
          /\ \A j \in text[d] \cup {k} : graph'.parent[j] = d
      BY <1>2, <1>4, <1>8, NodesGrow DEF Inv, Nodes
    <2> DEFINE new == text[d] \cup {k}
    <2>2. text' = text \/ text' = [text EXCEPT ![d] = new]
      BY <1>5
    <2> HIDE DEF new
    <2>3. new \in SUBSET Anchor /\ \A j \in new : graph'.parent[j] = d
      BY <2>1 DEF new
    <2> QED BY <1>2, <1>8, <1>9, <2>2, <2>3, NodesEdit
  <1>11. Waits'
    BY <1>8, <1>9, WaitsKept DEF Inv, Waits
  <1>12. \A e \in loaded \ {d} : text'[e] = text[e]
    BY <1>5 DEF Inv, Nodes
  <1> QED BY <1>8, <1>9, <1>10, <1>11, <1>12 DEF Inv, Keeps

\* linkSelTo: the near end is an anchor of the text that shows the link.
LEMMA LinkSelectionKeeps ==
  ASSUME Inv, NEW g, Sound(g), Grows(graph, g), NEW h, NEW a \in Made(g),
         LinkSelection(g, h, a),
         UNCHANGED <<loaded, local, editable, index, failed, panel>>
  PROVE  Sound(graph') /\ Nodes' /\ Keeps(loaded \ editable, {})
  <1>1. CASE h \notin editable
    <2>1. graph' = g /\ UNCHANGED <<text, edited, main>>
      BY <1>1 DEF LinkSelection
    <2> QED BY <2>1, NodesKept DEF Inv, Nodes, WindowsOfDocuments, Keeps
  <1>2. CASE h \in editable
    <2>1. /\ h \in loaded /\ h \in Anchor /\ h \in Orphans(g)
          /\ \A k \in text[h] : k \in Made(g) /\ g.parent[k] = h
      BY <1>2, NodesGrow DEF Inv, Nodes, WindowsOfDocuments
    <2>2. PICK s \in Anchor :
            /\ \/ /\ s \in text[h]
                  /\ graph' = LinkTo(g, s, a)
                  /\ main' = h
               \/ /\ \E t \in Tag : /\ HasRoom(WithSubAnchor(g, h, t))
                                    /\ s = SubAnchor(g, h, t)
                                    /\ graph' = LinkTo(WithSubAnchor(g, h, t), s, a)
                  /\ main' = main
            /\ \E over \in SUBSET text[h] :
                 text' \in {text, [text EXCEPT ![h] = (@ \ over) \cup {s}]}
      BY <1>2 DEF LinkSelection
    <2>3. /\ Sound(graph') /\ Grows(g, graph') /\ graph'.parent[s] = h
          /\ main' \in {h, main}
      <3>1. CASE s \in text[h] /\ graph' = LinkTo(g, s, a) /\ main' = h
        <4>1. s \in Made(g) /\ g.parent[s] = h
          BY <2>1, <3>1
        <4> QED BY <3>1, <4>1, LinkToSound
      <3>2. CASE /\ main' = main
                 /\ \E t \in Tag : /\ HasRoom(WithSubAnchor(g, h, t))
                                   /\ s = SubAnchor(g, h, t)
                                   /\ graph' = LinkTo(WithSubAnchor(g, h, t), s, a)
        <4>1. PICK t \in Tag : /\ HasRoom(WithSubAnchor(g, h, t))
                               /\ s = SubAnchor(g, h, t)
                               /\ graph' = LinkTo(WithSubAnchor(g, h, t), s, a)
          BY <3>2
        <4> DEFINE g1 == WithSubAnchor(g, h, t)
        <4>2. Sound(g1) /\ Grows(g, g1) /\ s \in Made(g1) /\ g1.parent[s] = h
          BY <2>1, <4>1, SubAnchorSound
        <4>3. graph' = LinkTo(g1, s, a)
          BY <4>1
        <4> HIDE DEF g1
        <4>4. a \in Made(g1)
          BY <4>2 DEF Grows
        <4>5. Sound(graph') /\ Grows(g1, graph') /\ graph'.parent = g1.parent
          BY <4>2, <4>3, <4>4, LinkToSound
        <4> QED BY <3>2, <4>2, <4>5, GrowsTransitive
      <3> QED BY <2>2, <3>1, <3>2
    <2>4. PICK over \in SUBSET text[h] :
            text' \in {text, [text EXCEPT ![h] = (@ \ over) \cup {s}]}
      BY <2>2
    <2> DEFINE new == (text[h] \ over) \cup {s}
    <2>5. text' = text \/ text' = [text EXCEPT ![h] = new]
      BY <2>1, <2>4 DEF Inv, Nodes
    <2>6. Grows(graph, graph')
      BY <2>3, GrowsTransitive
    <2>7. new \in SUBSET Anchor /\ \A k \in new : graph'.parent[k] = h
      BY <2>1, <2>2, <2>3, <2>6, NodesGrow DEF Inv, Nodes
    <2>8. /\ edited' \subseteq loaded /\ edited \subseteq edited'
          /\ main' \in loaded \cup {main}
      BY <1>2, <2>1, <2>3 DEF LinkSelection, Inv, Nodes, WindowsOfDocuments
    <2> HIDE DEF new
    <2>9. Nodes'
      BY <2>1, <2>3, <2>5, <2>6, <2>7, <2>8, NodesEdit
    <2>10. \A e \in loaded \ editable : text'[e] = text[e]
      BY <1>2, <2>5 DEF Inv, Nodes
    <2> QED BY <2>3, <2>6, <2>8, <2>9, <2>10 DEF Keeps
  <1> QED BY <1>1, <1>2

\* linkToString:, linkToFile:
LEMMA LinkToReferenceKeeps ==
  ASSUME Inv, NEW ref \in Reference, LinkToReference(ref)
  PROVE  Inv' /\ Keeps(loaded \ editable, {})
  <1> DEFINE g == WithAnchor(graph, ref)
             a == AnchorAt(graph, ref)
  <1>1. /\ HasRoom(g) /\ LinkSelection(g, main, a) /\ call' = call
        /\ UNCHANGED <<loaded, local, editable, index, failed, panel, history, raised>>
    BY DEF LinkToReference, EditFrame
  <1>2. Sound(g) /\ Grows(graph, g) /\ a \in Made(g)
    BY <1>1, Begins, AnchorSound
  <1> HIDE DEF g, a
  <1>3. Sound(graph') /\ Nodes' /\ Keeps(loaded \ editable, {})
    BY <1>1, <1>2, LinkSelectionKeeps
  <1>4. Waits'
    BY <1>1, <1>3, WaitsKept DEF Inv, Waits, Keeps
  <1> QED BY <1>3, <1>4 DEF Inv

\* linkToNew:, after the new document was read.
LEMMA FinishLinkToNewKeeps ==
  ASSUME Inv, FinishLinkToNew
  PROVE  Inv' /\ Keeps(loaded \ editable, {})
  <1>1. /\ call.doc \in Made(graph) /\ LinkSelection(graph, call.src, call.doc)
        /\ call' = Idle
        /\ UNCHANGED <<loaded, local, editable, index, failed, panel, history, raised>>
    BY DEF FinishLinkToNew, EditFrame, Inv, Waits
  <1>2. Sound(graph') /\ Nodes' /\ Keeps(loaded \ editable, {})
    BY <1>1, Begins, LinkSelectionKeeps
  <1>3. Caller(graph', Idle) /\ Idle.step = "idle"
    BY DEF Caller, Idle, Call, Calls, Kinds
  <1>4. Waits'
    BY <1>1, <1>2, <1>3, LinkedGrows DEF Inv, Waits, Keeps
  <1> QED BY <1>2, <1>4 DEF Inv

\* markSelected:
LEMMA MarkSelectedKeeps ==
  ASSUME Inv, NEW t \in Tag, MarkSelected(t)
  PROVE  Inv' /\ Keeps(loaded \ editable, {})
  <1> DEFINE k == SubAnchor(graph, main, t)
  <1>1. /\ main \in editable /\ HasRoom(WithSubAnchor(graph, main, t))
        /\ graph' = WithSubAnchor(graph, main, t)
        /\ edited' = edited \cup {main} /\ main' = main /\ call' = call
        /\ UNCHANGED <<loaded, local, editable, index, failed, panel, history, raised>>
    BY DEF MarkSelected, EditFrame
  <1>2. PICK over \in SUBSET text[main] :
          text' \in {text, [text EXCEPT ![main] = (@ \ over) \cup {k}]}
    BY DEF MarkSelected
  <1>3. main \in loaded /\ main \in Anchor /\ main \in Orphans(graph)
    BY <1>1 DEF Inv, Nodes, WindowsOfDocuments
  <1>4. /\ Sound(graph') /\ Grows(graph, graph')
        /\ k \in Made(graph') /\ graph'.parent[k] = main
    BY <1>1, <1>3, Begins, SubAnchorSound
  <1> DEFINE new == (text[main] \ over) \cup {k}
  <1>5. text' = text \/ text' = [text EXCEPT ![main] = new]
    BY <1>2, <1>3 DEF Inv, Nodes
  <1> HIDE DEF k
  <1>6. new \in SUBSET Anchor /\ \A j \in new : graph'.parent[j] = main
    BY <1>3, <1>4, NodesGrow DEF Made, Inv, Nodes
  <1> HIDE DEF new
  <1>7. Nodes'
    <2>1. edited' \subseteq loaded
      BY <1>1, <1>3 DEF Inv, Nodes, WindowsOfDocuments
    <2> QED BY <1>1, <1>3, <1>4, <1>5, <1>6, <2>1, NodesEdit
  <1>8. Waits'
    BY <1>1, <1>4, WaitsKept DEF Inv, Waits
  <1>9. \A e \in loaded \ editable : text'[e] = text[e]
    BY <1>1, <1>5 DEF Inv, Nodes
  <1> QED BY <1>1, <1>4, <1>7, <1>8, <1>9 DEF Inv, Keeps

\* unlink:, and typing.
LEMMA UnlinkSelectionKeeps ==
  ASSUME Inv, NEW over, UnlinkSelection(over)
  PROVE  Inv' /\ Keeps(loaded \ editable, {})
  <1>1. /\ main \in editable /\ text' = [text EXCEPT ![main] = @ \ over]
        /\ edited' = edited \cup {main} /\ graph' = graph /\ main' = main
        /\ UNCHANGED <<loaded, local, editable, index, failed, panel, history, raised, call>>
    BY DEF UnlinkSelection, EditFrame
  <1>2. main \in loaded /\ main \in Anchor
    BY <1>1 DEF Inv, Nodes, WindowsOfDocuments
  <1> DEFINE new == text[main] \ over
  <1>3. text' = [text EXCEPT ![main] = new]
    BY <1>1, <1>2 DEF Inv, Nodes
  <1>4. new \in SUBSET Anchor /\ \A j \in new : graph'.parent[j] = main
    BY <1>1, <1>2 DEF Inv, Nodes, TextOwn
  <1> HIDE DEF new
  <1>5. Nodes'
    <2>1. edited' \subseteq loaded
      BY <1>1, <1>2 DEF Inv, Nodes, WindowsOfDocuments
    <2> QED BY <1>1, <1>2, <1>3, <1>4, <2>1, Begins, NodesEdit
  <1>6. Waits'
    BY <1>1, Begins, WaitsKept DEF Inv, Waits
  <1>7. \A e \in loaded \ editable : text'[e] = text[e]
    BY <1>1, <1>3 DEF Inv, Nodes
  <1> QED BY <1>1, <1>5, <1>6, <1>7, Begins DEF Inv, Keeps

----------------------------------------------------------------------------
(* The handlers that touch neither texts nor graph, and those that close.  *)

\* setTitle:, save:, saveAll:, and a click on another window.
LEMMA MarksKeep ==
  ASSUME Inv,
         UNCHANGED <<graph, text, loaded, local, editable, index, failed, panel,
                     history, raised, call>>,
         edited' \subseteq loaded, main' \in loaded \cup {main}
  PROVE  Inv'
  <1>1. Nodes'
    BY Begins, NodesKept DEF Inv, Nodes, WindowsOfDocuments
  <1>2. Waits'
    BY Begins, WaitsKept DEF Inv, Waits
  <1> QED BY <1>1, <1>2 DEF Inv

\* <ISINDEX>
LEMMA ReadIsIndexKeeps ==
  ASSUME Inv, ReadIsIndex
  PROVE  Inv'
  <1>1. /\ index' = index \cup {call.doc} /\ call.doc \in loaded
        /\ UNCHANGED <<graph, text, loaded, local, editable, edited, failed,
                       main, panel, history, call, raised>>
    BY DEF ReadIsIndex, Inv, Waits
  <1>2. Nodes'
    BY <1>1 DEF Inv, Nodes, WindowsOfDocuments, TextOwn
  <1>3. Waits'
    BY <1>1, Begins, WaitsKept DEF Inv, Waits
  <1> QED BY <1>1, <1>2, <1>3 DEF Inv

\* The end of a text.
LEMMA EndReadKeeps ==
  ASSUME Inv, EndRead
  PROVE  Inv' /\ Leaves(history, call, {call.doc})
  <1>1. call.doc \in loaded /\ Caller(graph, call)
    BY DEF EndRead, Inv, Waits
  <1>2. AfterLoad(graph, history, call, call.doc, {call.doc})
    BY DEF EndRead
  <1> QED BY <1>1, <1>2, Begins, AfterLoadKeeps

\* windowWillClose:, of one window or of many.
LEMMA CloseNodesKeeps ==
  ASSUME Inv, Ready, NEW these, CloseNodes(these)
  PROVE  Inv'
  <1>1. /\ text' = [a \in Anchor |-> IF a \in these THEN {} ELSE text[a]]
        /\ loaded' = loaded \ these /\ local' = local \ these
        /\ editable' = editable \ these /\ edited' = edited \ these
        /\ index' = index \ these /\ failed' = failed \ these
        /\ main' \in IF main \in these
                     THEN IF loaded' = {} THEN {NIL} ELSE loaded'
                     ELSE {main}
        /\ UNCHANGED <<graph, panel, history, call, raised>>
    BY DEF CloseNodes
  <1>2. /\ text' \in [Anchor -> SUBSET Anchor]
        /\ \A a \in Anchor : text'[a] = IF a \in these THEN {} ELSE text[a]
    BY <1>1 DEF Inv, Nodes
  <1>3. TextOwn'
    BY <1>1, <1>2 DEF Inv, Nodes, TextOwn
  <1>4. main' \in loaded' \cup {NIL} /\ (main' = NIL => loaded' = {})
    <2>1. NIL \notin loaded' /\ main \in loaded \cup {NIL} /\ (main = NIL => loaded = {})
      BY <1>1 DEF Inv, Nodes, WindowsOfDocuments, Anchor, NIL
    <2>2. CASE main \in these
      BY <1>1, <2>1, <2>2
    <2>3. CASE main \notin these
      BY <1>1, <2>1, <2>3
    <2> QED BY <2>2, <2>3
  <1>5. WindowsOfDocuments'
    BY <1>1, <1>2, <1>4 DEF Inv, Nodes, WindowsOfDocuments
  <1>6. Nodes'
    BY <1>1, <1>2, <1>3, <1>5 DEF Inv, Nodes
  <1>7. Waits'
    BY <1>1, Begins, WaitsKept DEF Inv, Waits
  <1> QED BY <1>1, <1>6, <1>7 DEF Inv

----------------------------------------------------------------------------
(* What a step may not do, by the way the handler ends.                    *)

Faithful ==
  /\ Grows(graph, graph')
  /\ KeepsUnwritable
  /\ KeepsEdits
  /\ history' # history => MovesHistory

\* A load, or what follows the reading of a document.
LEMMA LoadFaithful ==
  ASSUME Inv, NEW c, c.kind = "follow" => c.src \in Anchor, NEW clean,
         Leaves(history, c, clean),
         \A d \in clean : call.step \in {"reading", "ending"} /\ call.doc = d
  PROVE  Faithful
  <1>1. KeepsUnwritable /\ KeepsEdits /\ Grows(graph, graph')
    BY DEF Leaves, Keeps, KeepsUnwritable, KeepsEdits
  <1>2. history' # history => MovesHistory
    <2> SUFFICES ASSUME c.kind = "follow", history' = Append(history, c.src)
                 PROVE  MovesHistory
      BY DEF Leaves
    <2>1. history \in Seq(Anchor) /\ c.src \in Anchor
      BY DEF Inv, Waits, Linked
    <2>2. history' # << >> /\ Front(history') = history
      BY <2>1, FrontAppend
    <2> QED BY <2>2 DEF MovesHistory
  <1> QED BY <1>1, <1>2 DEF Faithful

\* moveBy:, which takes the last anchor off the history first.
LEMMA MoveFaithful ==
  ASSUME Inv, history # << >>, NEW s \in Anchor, Beside(LastFollowed, s),
         Leaves(Front(history), Call("follow", s, NoName), {})
  PROVE  Faithful
  <1>1. KeepsUnwritable /\ KeepsEdits /\ Grows(graph, graph')
    BY DEF Leaves, Keeps, KeepsUnwritable, KeepsEdits
  <1>2. CASE history' = Front(history)
    BY <1>1, <1>2 DEF Faithful, MovesHistory
  <1>3. CASE history' = Append(Front(history), s)
    <2>1. history \in Seq(Anchor) /\ Front(history) \in Seq(Anchor)
      BY PositionKnown DEF Inv, Waits, Linked
    <2>2. Len(history) \in Nat \ {0} /\ Len(Front(history)) = Len(history) - 1
      BY <2>1, FrontLength
    <2> DEFINE f == Front(history)
    <2>3. /\ f \in Seq(Anchor) /\ Len(f) = Len(history) - 1
          /\ history' = Append(f, s) /\ Front(Append(f, s)) = f
      BY <1>3, <2>1, <2>2, FrontAppend
    <2> HIDE DEF f
    <2>4. Len(history') = Len(history) /\ history'[Len(history')] = s
      BY <2>2, <2>3
    <2>5. Front(history') = Front(history)
      BY <2>3 DEF f
    <2> QED BY <1>1, <2>4, <2>5 DEF Faithful, MovesHistory
  <1> QED BY <1>2, <1>3 DEF Leaves, Call

\* A handler that edits: the text of an editable document, or the one read.
LEMMA EditFaithful ==
  ASSUME history' = history,
         \/ Keeps(loaded \ editable, {})
         \/ call.step = "reading" /\ Keeps(loaded \ {call.doc}, {})
  PROVE  Faithful
  BY DEF Keeps, Faithful, KeepsUnwritable, KeepsEdits

\* save:, saveAll: give up no edits but those FileAccess has written.
LEMMA SaveFaithful ==
  ASSUME NEW these, SaveNodes(these)
  PROVE  Faithful
  BY GrowsReflexive
     DEF SaveNodes, EditFrame, Faithful, KeepsUnwritable, KeepsEdits

\* A window closed takes its own edits with it, closeOthers: those of no one.
LEMMA CloseFaithful ==
  ASSUME Inv, NEW these, CloseNodes(these),
         \/ these \cap edited = {}
         \/ \E d \in loaded : these = {d}
  PROVE  Faithful
  <1>1. /\ text' = [a \in Anchor |-> IF a \in these THEN {} ELSE text[a]]
        /\ loaded' = loaded \ these /\ edited' = edited \ these
        /\ graph' = graph /\ history' = history
    BY DEF CloseNodes
  <1>2. \A e \in loaded \cap loaded' : text'[e] = text[e]
    BY <1>1 DEF Inv, Nodes
  <1>3. KeepsEdits
    BY <1>1 DEF KeepsEdits
  <1> QED BY <1>1, <1>2, <1>3, GrowsReflexive DEF Faithful, KeepsUnwritable

----------------------------------------------------------------------------
(* The invariant is inductive, and its consequences.                       *)

\* The program starts with no window, and opens one.
LEMMA Initially ==
  ASSUME Init
  PROVE  Inv
  <1>1. call \in Calls /\ call.step = "launching" /\ call.kind = "open"
    BY DEF Init, Idle, Call, Calls, Kinds
  <1>2. Linked(graph, history) /\ Caller(graph, call)
    BY <1>1 DEF Init, Linked, Caller
  <1>3. Nodes
    BY DEF Init, Nodes, WindowsOfDocuments, TextOwn, NIL
  <1> QED BY <1>1, <1>2, <1>3, EmptySound DEF Init, Inv, Waits

\* No handler breaks it, or does what no handler may.
LEMMA Inductive ==
  ASSUME Inv, [Next]_vars
  PROVE  Inv' /\ Faithful
  <1> Idle.kind = "open"
    BY DEF Idle, Call
  <1>1. CASE Launch
    <2>1. HomePage \in Page
      BY BrowserAssumption
    <2>2. Inv' /\ Leaves(history, Idle, {})
      BY <1>1, <2>1, OpenMyKeeps DEF Launch
    <2> QED BY <2>2, LoadFaithful
  <1>2. CASE ReadAnchor
    <2>1. Inv' /\ Keeps(loaded \ {call.doc}, {})
      BY <1>2, ReadAnchorKeeps
    <2> QED BY <1>2, <2>1, EditFaithful DEF ReadAnchor
  <1>3. CASE ReadIsIndex
    <2>1. Keeps(loaded \ editable, {}) /\ history' = history
      BY <1>3, GrowsReflexive DEF ReadIsIndex, Keeps
    <2> QED BY <1>3, <2>1, ReadIsIndexKeeps, EditFaithful
  <1>4. CASE EndRead
    <2>1. Inv' /\ Leaves(history, call, {call.doc})
      BY <1>4, EndReadKeeps
    <2>2. call.kind = "follow" => call.src \in Anchor
      BY DEF Inv, Waits, Caller, Made
    <2>3. call.step \in {"reading", "ending"}
      BY <1>4 DEF EndRead
    <2> QED BY <2>1, <2>2, <2>3, LoadFaithful
  <1>5. ASSUME NEW s \in Anchor, FollowLink(s) PROVE Inv' /\ Faithful
    <2>1. s \in Made(graph) /\ graph.parent[s] # NIL
      <3>1. main \in Anchor /\ s \in text[main]
        BY <1>5 DEF FollowLink, Inv, Nodes, WindowsOfDocuments
      <3>2. s \in Made(graph) /\ graph.parent[s] = main
        BY <3>1, Begins, NodesGrow
      <3> QED BY <3>1, <3>2 DEF Anchor, NIL
    <2> DEFINE c == Call("follow", s, NoName)
    <2>2. Inv' /\ Leaves(history, c, {})
      BY <1>5, <2>1, Begins, FollowKeeps DEF FollowLink
    <2>3. c.src \in Anchor
      BY DEF Call
    <2> HIDE DEF c
    <2> QED BY <2>2, <2>3, LoadFaithful
  <1>6. ASSUME NEW ref \in Given, OpenReference(ref) \/ LinkToReference(ref)
        PROVE  Inv' /\ Faithful
    <2>1. ref \in Reference
      BY BrowserAssumption
    <2>2. CASE OpenReference(ref)
      BY <2>1, <2>2, OpenReferenceKeeps, LoadFaithful
    <2>3. CASE LinkToReference(ref)
      <3>1. history' = history
        BY <2>3 DEF LinkToReference, EditFrame
      <3> QED BY <2>1, <2>3, <3>1, LinkToReferenceKeeps, EditFaithful
    <2> QED BY <1>6, <2>2, <2>3
  <1>7. ASSUME NEW d \in Addr, OpenFile(d) PROVE Inv' /\ Faithful
    <2> DEFINE c == Call("file", NIL, NoName)
    <2>1. Caller(graph, c) /\ c.kind = "file"
      BY DEF Caller, Call, Calls, Kinds
    <2>2. OpenAt(graph, history, d, c, FileOpens) \/ OpenAt(graph, history, d, c, FileFails)
      BY <1>7 DEF OpenFile
    <2> HIDE DEF c
    <2>3. Inv' /\ Leaves(history, c, {})
      BY <2>1, <2>2, Begins, OpenAtKeeps
    <2> QED BY <2>1, <2>3, LoadFaithful
  <1>8. ASSUME NEW page \in Page, GoTo(page) PROVE Inv' /\ Faithful
    <2>1. Inv' /\ Leaves(history, Idle, {})
      BY <1>8, OpenMyKeeps DEF GoTo
    <2> QED BY <2>1, LoadFaithful
  <1>9. CASE Search
    BY <1>9, SearchKeeps, LoadFaithful
  <1>10. CASE Back
    BY <1>10, BackKeeps, LoadFaithful
  <1>11. CASE NextAnchor \/ PreviousAnchor
    <2>1. history # << >>
      BY <1>11 DEF NextAnchor, PreviousAnchor
    <2> QED BY <1>11, <2>1, NextPreviousKeep, MoveFaithful, LoadFaithful
  <1>12. CASE MakeNew \/ LinkToNew
    <2>1. BlankPage \in Page
      BY BrowserAssumption
    <2>2. main \in Anchor \cup {NIL}
      BY DEF Inv, Nodes, WindowsOfDocuments
    <2>3. Inv' /\ Leaves(history, Idle, {})
      BY <1>12, <2>1, <2>2, OpenMyKeeps DEF MakeNew, LinkToNew
    <2> QED BY <2>3, LoadFaithful
  <1>13. CASE FinishLinkToNew
    <2>1. history' = history
      BY <1>13 DEF FinishLinkToNew, EditFrame
    <2> QED BY <1>13, <2>1, FinishLinkToNewKeeps, EditFaithful
  <1>14. ASSUME NEW t \in Tag, MarkSelected(t) PROVE Inv' /\ Faithful
    <2>1. history' = history
      BY <1>14 DEF MarkSelected, EditFrame
    <2> QED BY <1>14, <2>1, MarkSelectedKeeps, EditFaithful
  <1>15. ASSUME NEW over, UnlinkSelection(over) PROVE Inv' /\ Faithful
    <2>1. history' = history
      BY <1>15 DEF UnlinkSelection, EditFrame
    <2> QED BY <1>15, <2>1, UnlinkSelectionKeeps, EditFaithful
  <1>16. CASE SetTitle
    <2>1. Inv'
      BY <1>16, MarksKeep DEF SetTitle, EditFrame, Inv, Nodes, WindowsOfDocuments
    <2>2. Keeps(loaded \ editable, {}) /\ history' = history
      BY <1>16, GrowsReflexive DEF SetTitle, EditFrame, Keeps
    <2> QED BY <2>1, <2>2, EditFaithful
  <1>17. CASE Save \/ SaveAll
    <2>1. PICK these : SaveNodes(these)
      BY <1>17 DEF Save, SaveAll
    <2>2. Inv'
      BY <2>1, MarksKeep DEF SaveNodes, EditFrame, Inv, Nodes, WindowsOfDocuments
    <2> QED BY <2>1, <2>2, SaveFaithful
  <1>18. CASE CloseOthers
    <2> DEFINE these == (loaded \ {main}) \ edited
    <2>1. Ready /\ CloseNodes(these) /\ these \cap edited = {}
      BY <1>18 DEF CloseOthers
    <2> HIDE DEF these
    <2> QED BY <2>1, CloseNodesKeeps, CloseFaithful
  <1>19. ASSUME NEW d, Close(d) \/ BecomeMain(d) PROVE Inv' /\ Faithful
    <2>1. CASE Close(d)
      <3>1. Ready /\ CloseNodes({d}) /\ \E e \in loaded : {d} = {e}
        BY <2>1 DEF Close
      <3> QED BY <3>1, CloseNodesKeeps, CloseFaithful
    <2>2. CASE BecomeMain(d)
      <3>1. Inv'
        BY <2>2, MarksKeep DEF BecomeMain, nodeVars, Inv, Nodes, WindowsOfDocuments
      <3>2. Keeps(loaded \ editable, {}) /\ history' = history
        BY <2>2, GrowsReflexive DEF BecomeMain, nodeVars, Keeps
      <3> QED BY <3>1, <3>2, EditFaithful
    <2> QED BY <1>19, <2>1, <2>2
  <1>20. CASE UNCHANGED vars
    <2>1. Inv'
      BY <1>20, MarksKeep DEF vars, nodeVars, Inv, Nodes, WindowsOfDocuments
    <2>2. Keeps(loaded \ editable, {}) /\ history' = history
      BY <1>20, GrowsReflexive DEF vars, nodeVars, Keeps
    <2> QED BY <2>1, <2>2, EditFaithful
  <1> QED BY <1>1, <1>2, <1>3, <1>4, <1>5, <1>6, <1>7, <1>8, <1>9, <1>10, <1>11,
             <1>12, <1>13, <1>14, <1>15, <1>16, <1>17, <1>18, <1>19, <1>20 DEF Next

\* Every session satisfies the invariant.
THEOREM Invariance == Spec => []Inv
  <1>1. Init => Inv
    BY Initially
  <1>2. Inv /\ [Next]_vars => Inv'
    BY Inductive
  <1> QED BY <1>1, <1>2, PTL DEF Spec

\* Every variable keeps its type.
THEOREM Types == Spec => []TypeOK
  <1>1. Inv => TypeOK
    <2>1. ASSUME Inv PROVE TypeOK
      BY <2>1 DEF Inv, Nodes, Waits, WindowsOfDocuments, Sound, Linked, Caller, TypeOK
    <2> QED BY <2>1
  <1> QED BY <1>1, Invariance, PTL

\* The graph of anchors keeps its shape, whatever is read, linked, renamed or
\* closed (Anchor.m).
THEOREM GraphStaysSound == Spec => []GraphSound
  <1>1. Inv => GraphSound
    BY DEF Inv, Sound, GraphSound
  <1> QED BY <1>1, Invariance, PTL

\* An address has one anchor until setAddress: brings two together.
THEOREM AddressesAreUnique == Spec => []OneAnchorPerAddress
  <1>1. Inv => OneAnchorPerAddress
    BY DEF Inv, Sound, OneAnchorPerAddress
  <1> QED BY <1>1, Invariance, PTL

\* Windows are windows of documents, and the main window is one of them.
THEOREM WindowsStay == Spec => []WindowsOfDocuments
  <1>1. Inv => WindowsOfDocuments
    BY DEF Inv, Nodes
  <1> QED BY <1>1, Invariance, PTL

\* A text carries anchors of its own document only (linkSelTo:, S_anchor).
THEOREM TextsKeepTheirOwn == Spec => []TextOwn
  <1>1. Inv => TextOwn
    BY DEF Inv, Nodes
  <1> QED BY <1>1, Invariance, PTL

\* Back, Next and Previous find a link of a document at the end of the history.
THEOREM HistoryHoldsLinks == Spec => []HistoryLinked
  <1>1. Inv => HistoryLinked
    BY DEF Inv, Waits, Linked, HistoryLinked
  <1> QED BY <1>1, Invariance, PTL

----------------------------------------------------------------------------
(* What a step may never do.                                               *)

\* The text of a document that is open and not editable changes only while it
\* is read (linkSelTo:, referenceSelected, unlinkSelection ask isEditable).
THEOREM TextsStayUnwritable == Spec => UnwritableText
  <1>1. Inv /\ [Next]_vars => [KeepsUnwritable]_vars
    BY Inductive DEF Faithful
  <1> QED BY <1>1, Invariance, PTL DEF Spec, UnwritableText

\* Edits go with their window, into a file, or at the end of the reading.
THEOREM EditsAreKept == Spec => EditsNotForgotten
  <1>1. Inv /\ [Next]_vars => [KeepsEdits]_vars
    BY Inductive DEF Faithful
  <1> QED BY <1>1, Invariance, PTL DEF Spec, EditsNotForgotten

\* followLink adds to the history, moveBy: takes from it or turns its end to
\* the anchor next to it, and no other handler touches it.
THEOREM HistoryMovesByOne == Spec => HistoryMoves
  <1>1. Inv /\ [Next]_vars => [history' # history => MovesHistory]_vars
    BY Inductive DEF Faithful
  <1> QED BY <1>1, Invariance, PTL DEF Spec, HistoryMoves

\* A reference goes on meaning the anchor it meant until setAddress: moves a
\* document (initWithAddress: takes the first of the orphans).
THEOREM ReferencesKeepTheirMeaning == Spec => ReferencesAreStable
  <1>1. Inv /\ [Next]_vars => [KeepsReferences]_vars
    <2> SUFFICES ASSUME Inv, [Next]_vars, ~Readdressed,
                        NEW ref \in Reference, Resolves(graph, ref)
                 PROVE  /\ Resolves(graph', ref)
                        /\ AnchorAt(graph', ref) = AnchorAt(graph, ref)
      BY DEF KeepsReferences
    <2>1. Sound(graph) /\ Sound(graph') /\ Grows(graph, graph')
      BY Inductive DEF Faithful, Inv
    <2>2. \A a \in Made(graph) : graph'.address[a] = graph.address[a]
      BY DEF Readdressed
    <2> QED BY <2>1, <2>2, ReferenceStays
  <1> QED BY <1>1, Invariance, PTL DEF Spec, ReferencesAreStable

=============================================================================
