------------------------------ MODULE Browser ------------------------------
(***************************************************************************)
(* The browser seen by its one user: HyperManager and the access modules   *)
(* load documents into windows (HyperText nodes), the user follows, makes  *)
(* and removes links, moves through the history, closes windows.           *)
(*                                                                         *)
(* The program has one thread.  A handler runs to its end before the next  *)
(* event, so a step is a whole handler, except that reading a document is  *)
(* a step per anchor read: `call' holds the handler that waits for it, and *)
(* every other handler waits for `call' to be idle.                        *)
(***************************************************************************)
EXTENDS AnchorGraph

CONSTANTS
  Scheme,      \* [Addr -> Schemes], the access prefix of an address
  Simplified,  \* [Addr -> Addr], HTSimplify
  Query,       \* [Addr -> Addr], the index with the keywords asked for
  Given,       \* the references that texts hold and the user types
  Present,     \* addresses of files that can be there and open
  Absent,      \* addresses of files that can fail to
  Foreign,     \* addresses of files of no type HTFileFormat knows
  Writable,    \* addresses of files HTEditable finds writable
  Index,       \* addresses of texts that say <ISINDEX>
  SaveName,    \* addresses of files the user saves a new document as
  Page,        \* the pages openMy opens: home, help, blank
  HomePage,    \* the one the application starts with
  BlankPage,   \* the one of them that makeNewNode: starts from
  MaxHistory   \* bound: length of HTHistory

Schemes == {"file", "http", "news", "none"}

\* A page of openMy: the address of the user's copy, the plain file name of
\* that copy, and the address of the copy that comes with the application.
Pages == [personal : Addr, plain : Addr, template : Addr]

ASSUME BrowserAssumption ==
  /\ Scheme \in [Addr -> Schemes]
  /\ Simplified \in [Addr -> Addr]
  /\ Query \in [Addr -> Addr]
  /\ Given \subseteq Reference
  /\ Present \subseteq Addr /\ Absent \subseteq Addr
  /\ Foreign \subseteq Addr
  /\ Writable \subseteq Addr
  /\ SaveName \subseteq Addr
  /\ Index \subseteq Addr
  /\ Page \subseteq Pages
  /\ \A page \in Page : /\ Simplified[page.personal] \notin Foreign
                        /\ Simplified[page.template] \notin Foreign
  /\ HomePage \in Page
  /\ BlankPage \in Page
  /\ MaxHistory \in Nat

VARIABLES
  graph,       \* the anchors
  text,        \* [Anchor -> SUBSET Anchor], the anchors on a document's runs
  loaded,      \* the documents with a node, hence a window
  local,       \* those whose server is FileAccess
  editable,    \* those the user may edit
  edited,      \* those whose window says "document edited"
  index,       \* those that are an index (ISINDEX)
  main,        \* the document of the main window, THIS_TEXT, or NIL
  panel,       \* the keywords panel is on the screen
  history,     \* HTHistory
  call,        \* the handler that waits for a document to be read
  raised,      \* history: an exception has left a handler
  failed       \* history: nodes whose loading reported failure

nodeVars == <<text, loaded, local, editable, edited, index, failed>>
vars == <<graph, nodeVars, main, panel, history, call, raised>>

Kinds == {"open", "follow", "file", "my", "new", "link"}

Calls == [ step : {"launching", "idle", "reading", "ending", "linking"},
           kind : Kinds,
           doc  : Anchor \cup {NIL},           \* the document being read
           src  : Anchor \cup {NIL},           \* who follows, or will link
           name : Addr \cup {NoName} ]         \* address to save back to

Call(kind, src, name) ==
  [step |-> "idle", kind |-> kind, doc |-> NIL, src |-> src, name |-> name]

Idle == Call("open", NIL, NoName)

TypeOK ==
  /\ graph \in Graph
  /\ text \in [Anchor -> SUBSET Anchor]
  /\ loaded \in SUBSET Anchor
  /\ local \in SUBSET Anchor
  /\ editable \in SUBSET Anchor
  /\ edited \in SUBSET Anchor
  /\ index \in SUBSET Anchor
  /\ failed \in SUBSET Anchor
  /\ main \in Anchor \cup {NIL}
  /\ panel \in BOOLEAN
  /\ history \in Seq(Anchor)
  /\ call \in Calls
  /\ raised \in BOOLEAN

Init ==
  /\ graph = EmptyGraph
  /\ text = [a \in Anchor |-> {}]
  /\ loaded = {} /\ local = {} /\ editable = {}
  /\ edited = {} /\ index = {} /\ failed = {}
  /\ main = NIL
  /\ panel = FALSE
  /\ history = << >>
  /\ call = [Idle EXCEPT !.step = "launching"]
  /\ raised = FALSE

----------------------------------------------------------------------------
(* How a handler ends.                                                     *)

\* Mutant: whatever is selected goes into the history.
ReturnRemembers(c, h, found) ==
  /\ call' = Idle
  /\ history' = IF found THEN Append(h, c.src) ELSE h
  /\ Len(history') <= MaxHistory
  /\ raised' = raised

\* Mutant: the destination goes into the history, not the link.
ReturnDestination(c, h, found) ==
  /\ call' = Idle
  /\ history' = IF c.kind = "follow" /\ found THEN Append(h, graph.dest[c.src]) ELSE h
  /\ Len(history') <= MaxHistory
  /\ raised' = raised

\* `select' returned to c; found says whether it returned an anchor.  Only
\* `follow' looks, and adds its anchor to the history.
Return(c, h, found) ==
  /\ call' = Idle
  /\ history' = IF c.kind = "follow" /\ found THEN Append(h, c.src) ELSE h
  /\ Len(history') <= MaxHistory
  /\ raised' = raised

\* selectAnchor: brings the window to the front and returns nil, whatever the
\* text is: its loop over the runs never sets foundStart.
SelectAnchorFinds == FALSE

----------------------------------------------------------------------------
(* Loading.                                                                *)

\* initWithAnchor:Server:, setupWindow: a node for d, in a window in front.
NewNode(g, d, isLocal, isEditable) ==
  /\ graph'    = g
  /\ text'     = [text EXCEPT ![d] = {}]
  /\ loaded'   = loaded \cup {d}
  /\ local'    = IF isLocal THEN local \cup {d} ELSE local \ {d}
  /\ editable' = IF isEditable THEN editable \cup {d} ELSE editable \ {d}
  /\ edited'   = edited \ {d}
  /\ index'    = index \ {d}
  /\ main'     = d
  /\ panel'    = panel

Reading(h, c, d, step) ==
  /\ call' = [c EXCEPT !.step = step, !.doc = d]
  /\ history' = h
  /\ failed' = failed \ {d}
  /\ raised' = raised

LoadFails(g, h, c) ==
  /\ graph' = g
  /\ Return(c, h, FALSE)
  /\ UNCHANGED <<nodeVars, main, panel>>

\* loadAnchor:Diagnostic: of HyperManager succeeded, for `select'.
AfterSelect(g, h, c, d, clean) ==
  /\ c.kind \in {"open", "follow"}
  /\ graph' = g
  /\ panel' = (d \in loaded /\ d \in index)
  /\ main' = IF d \in loaded THEN d ELSE main
  /\ Return(c, h, d \in loaded => SelectAnchorFinds)
  /\ edited' = edited \ clean
  /\ UNCHANGED <<text, loaded, local, editable, index, failed>>

\* openFile:diagnostic: goes round HyperManager and selects nothing.
AfterOpenFile(g, h, c, clean) ==
  /\ c.kind = "file"
  /\ graph' = g
  /\ Return(c, h, TRUE)
  /\ edited' = edited \ clean
  /\ UNCHANGED <<text, loaded, local, editable, index, failed, main, panel>>

\* The rest of openMy: and of makeNewNode:, d being loaded.  A copy that came
\* with the application is to be saved under the name of the user's own.
AfterOpenMy(g, h, c, d, clean) ==
  LET own == c.name = NoName
      g1  == IF own THEN g ELSE SetAddress(g, d, c.name)
      ed1 == IF own THEN editable ELSE editable \cup {d}
  IN  /\ c.kind \in {"my", "new", "link"}
      /\ main' = d
      /\ edited' = edited \ clean
      /\ UNCHANGED <<text, loaded, local, index, failed, panel>>
      /\ \/ /\ graph' = g1                        \* "my", or save cancelled
            /\ editable' = ed1
            /\ Return(c, h, TRUE)
         \/ /\ c.kind \in {"new", "link"}
            /\ \E n \in SaveName : graph' = SetAddress(g1, d, n)
            /\ editable' = editable \cup {d}
            /\ IF c.kind = "new"
               THEN Return(c, h, TRUE)
               ELSE /\ call' = [c EXCEPT !.step = "linking", !.doc = d]
                    /\ history' = h
                    /\ raised' = raised

AfterLoad(g, h, c, d, clean) ==
  \/ AfterSelect(g, h, c, d, clean)
  \/ AfterOpenFile(g, h, c, clean)
  \/ AfterOpenMy(g, h, c, d, clean)

\* FileAccess loadAnchor:Diagnostic:.  The address is simplified first.
Simplify(g, d) == SetAddress(g, d, Simplified[g.address[d]])

FileOpens(g0, h, d, c) ==
  LET g == Simplify(g0, d)
  IN  \/ /\ d \in loaded \/ g.address[d] \in Present \cap Foreign
         /\ AfterLoad(g, h, c, d, {})
      \/ /\ d \notin loaded /\ g.address[d] \in Present \ Foreign
         /\ NewNode(g, d, TRUE, g.address[d] \in Writable)
         /\ Reading(h, c, d, "reading")

FileFails(g, h, d, c) ==
  /\ d \notin loaded /\ Simplified[g.address[d]] \in Absent
  /\ LoadFails(Simplify(g, d), h, c)

\* TcpAccess makes the node before it connects, and leaves it if it cannot.
HttpLoad(g, h, d, c) ==
  /\ NewNode(g, d, FALSE, FALSE)
  /\ \/ Reading(h, c, d, "reading")
     \/ /\ failed' = failed \cup {d}
        /\ Return(c, h, FALSE)

\* NewsAccess reports an unreachable host as text, in an editable window.
NewsLoad(g, h, d, c) ==
  \/ NewNode(g, d, FALSE, FALSE) /\ Reading(h, c, d, "reading")
  \/ NewNode(g, d, FALSE, TRUE) /\ Reading(h, c, d, "ending")

ManagerLoad(g, h, d, c) ==
  LET s == Scheme[g.address[d]]
  IN  \/ s = "file" /\ (FileOpens(g, h, d, c) \/ FileFails(g, h, d, c))
      \/ s = "http" /\ HttpLoad(g, h, d, c)
      \/ s = "news" /\ NewsLoad(g, h, d, c)
      \/ s = "none" /\ LoadFails(g, h, c)

\* selectDiagnostic: of an anchor a of g.
Select(g, h, a, c) ==
  LET d == DocOf(g, a)
  IN  \/ /\ d \in loaded
         /\ graph' = g
         /\ main' = d
         /\ Return(c, h, SelectAnchorFinds)
         /\ UNCHANGED <<nodeVars, panel>>
      \/ /\ d \notin loaded
         /\ ManagerLoad(g, h, d, c)

----------------------------------------------------------------------------
(* Reading a document: the anchors of its text, one by one.                *)

\* An <A> element (S_anchor), or appendBeginAnchor:to:.  Without a NAME it is
\* given one by `anchor', which tells the delegate that the text changed; and
\* its run is lost if nothing follows before </A>.
ReadAnchor ==
  LET d == call.doc
  IN  /\ call.step = "reading"
      /\ \E t \in Tag, ref \in Given \cup {NoTag}, shown \in BOOLEAN :
           LET g1 == WithSubAnchor(graph, d, t)
               k  == SubAnchor(graph, d, t)
               g2 == MakeLastChild(g1, k)
           IN  /\ HasRoom(g1)
               /\ IF ref = NoTag THEN graph' = g2
                  ELSE /\ HasRoom(WithAnchor(g2, ref))
                       /\ graph' = LinkTo(WithAnchor(g2, ref), k,
                                          AnchorAt(g2, ref))
               /\ text' = IF shown THEN [text EXCEPT ![d] = @ \cup {k}] ELSE text
      /\ edited' \in {edited, edited \cup {d}}
      /\ UNCHANGED <<loaded, local, editable, index, failed, main, panel,
                     history, call, raised>>

\* <ISINDEX>
ReadIsIndex ==
  /\ call.step = "reading" /\ graph.address[call.doc] \in Index
  /\ index' = index \cup {call.doc}
  /\ UNCHANGED <<graph, text, loaded, local, editable, edited, failed, main,
                 panel, history, call, raised>>

\* The end of the text: the window is marked unedited and the handler goes on.
EndRead ==
  /\ call.step \in {"reading", "ending"}
  /\ AfterLoad(graph, history, call, call.doc, {call.doc})

----------------------------------------------------------------------------
(* Moving about.                                                           *)

Ready == call.step = "idle"

\* followLink, with the selection in anchor s of the main window.
FollowLink(s) ==
  /\ Ready
  /\ main # NIL /\ s \in text[main]
  /\ LET c == Call("follow", s, NoName)
     IN  IF graph.dest[s] = NIL THEN LoadFails(graph, history, c)
         ELSE Select(graph, history, graph.dest[s], c)

\* accessName:Diagnostic:, for open:, appOpenFile:.
OpenReference(ref) ==
  /\ Ready
  /\ HasRoom(WithAnchor(graph, ref))
  /\ Select(WithAnchor(graph, ref), history, AnchorAt(graph, ref), Idle)

\* searchDiagnostic: asks for the main document with keywords.
Search ==
  /\ main # NIL
  /\ OpenReference([addr |-> Query[graph.address[main]], tag |-> NoTag])

\* Anchor back: selects the last anchor followed and leaves the history alone.
Back ==
  /\ Ready
  /\ history # << >>
  /\ Select(graph, history, history[Len(history)], Idle)

\* Mutant: removeAllObjects
FrontEmpty(s) == << >>

Front(s) == SubSeq(s, 1, Len(s) - 1)

\* moveBy:, offset +1 or -1: the sibling of the last anchor followed is
\* followed in its place.  A sibling that is not there raises an exception,
\* which leaves the handler.
MoveBy(there, sibling) ==
  IF there
  THEN LET c == Call("follow", sibling, NoName)
       IN  IF graph.dest[sibling] = NIL
           THEN LoadFails(graph, Front(history), c)
           ELSE Select(graph, Front(history), graph.dest[sibling], c)
  ELSE /\ raised' = TRUE
       /\ UNCHANGED <<graph, nodeVars, main, panel, history, call>>

LastFollowed == history[Len(history)]
Siblings     == graph.children[graph.parent[LastFollowed]]
Position     == CHOOSE i \in 1..Len(Siblings) : Siblings[i] = LastFollowed

NextAnchor ==
  /\ Ready
  /\ history # << >> /\ graph.parent[LastFollowed] # NIL
  /\ MoveBy(Position < Len(Siblings), Siblings[Position + 1])

PreviousAnchor ==
  /\ Ready
  /\ history # << >> /\ graph.parent[LastFollowed] # NIL
  /\ MoveBy(Position > 1, Siblings[Position - 1])

\* openFile:diagnostic:, with a name from the open panel.
OpenAt(g, h, d, c, Outcome(_, _, _, _)) ==
  LET g1 == WithDocAnchor(g, d)
  IN  HasRoom(g1) /\ Outcome(g1, h, DocAnchor(g, d), c)

OpenFile(d) ==
  /\ Ready
  /\ Scheme[d] = "file"
  /\ LET c == Call("file", NIL, NoName)
     IN  OpenAt(graph, history, d, c, FileOpens)
           \/ OpenAt(graph, history, d, c, FileFails)

\* openMy:diagnostic:.  The user's copy, if it is there and opens; else the
\* application's, of which `tried' is the graph the first attempt leaves.
OpenTemplate(g, page, kind, src) ==
  LET c == Call(kind, src, page.plain)
  IN  \/ OpenAt(g, history, page.template, c, FileOpens)
      \/ OpenAt(g, history, page.template, c, FileFails)

OpenMy(page, kind, src) ==
  LET g1    == WithDocAnchor(graph, page.personal)
      tried == Simplify(g1, DocAnchor(graph, page.personal))
  IN  \/ OpenAt(graph, history, page.personal, Call(kind, src, NoName), FileOpens)
      \/ OpenTemplate(graph, page, kind, src)
      \/ HasRoom(g1) /\ OpenTemplate(tried, page, kind, src)

\* applicationDidFinishLaunching:
Launch == call.step = "launching" /\ OpenMy(HomePage, "my", NIL)

\* goHome:, help:, goToBlank:
GoTo(page) == Ready /\ OpenMy(page, "my", NIL)

\* makeNew:
MakeNew == Ready /\ main # NIL /\ OpenMy(BlankPage, "new", NIL)

----------------------------------------------------------------------------
(* Editing links.                                                          *)

\* Mutant: editable or not.
LinkAnywhere(g, h, a) ==
  \/ h = NIL /\ graph' = g /\ UNCHANGED <<text, edited, main>>
  \/ /\ h # NIL
     /\ edited' = edited \cup {h} /\ main' = main
     /\ \E t \in Tag :
          /\ HasRoom(WithSubAnchor(g, h, t))
          /\ graph' = LinkTo(WithSubAnchor(g, h, t), SubAnchor(g, h, t), a)
          /\ text' = [text EXCEPT ![h] = @ \cup {SubAnchor(g, h, t)}]

\* Mutant: the style shows the destination.
LinkShowsDestination(g, h, a) ==
  /\ graph' = g /\ main' = main
  /\ IF h \in editable
     THEN edited' = edited \cup {h} /\ text' = [text EXCEPT ![h] = @ \cup {a}]
     ELSE UNCHANGED <<text, edited>>

\* linkSelTo: a, in the text of h.  The selection lies on an anchor of the
\* text or gets a new one; the style covers the selection, hiding the anchors
\* `over', unless the selection is empty.
LinkSelection(g, h, a) ==
  IF h \notin editable
  THEN graph' = g /\ UNCHANGED <<text, edited, main>>
  ELSE /\ edited' = edited \cup {h}
       /\ \E s \in Anchor :
            /\ \/ /\ s \in text[h]
                  /\ graph' = LinkTo(g, s, a)
                  /\ main' = h
               \/ /\ \E t \in Tag : /\ HasRoom(WithSubAnchor(g, h, t))
                                    /\ s = SubAnchor(g, h, t)
                                    /\ graph' = LinkTo(WithSubAnchor(g, h, t), s, a)
                  /\ main' = main
            /\ \E over \in SUBSET text[h] :
                 text' \in {text, [text EXCEPT ![h] = (@ \ over) \cup {s}]}

EditFrame ==
  UNCHANGED <<loaded, local, editable, index, failed, panel, history, raised>>

\* linkToString:, linkToFile:
LinkToReference(ref) ==
  /\ Ready
  /\ HasRoom(WithAnchor(graph, ref))
  /\ LinkSelection(WithAnchor(graph, ref), main, AnchorAt(graph, ref))
  /\ call' = call
  /\ EditFrame

\* linkToNew: makes a document, then links the selection of the old to it.
LinkToNew == Ready /\ main \in editable /\ OpenMy(BlankPage, "link", main)

FinishLinkToNew ==
  /\ call.step = "linking"
  /\ LinkSelection(graph, call.src, call.doc)
  /\ call' = Idle
  /\ EditFrame

\* markSelected: (referenceSelected), where the selection has no anchor yet.
MarkSelected(t) ==
  LET k == SubAnchor(graph, main, t)
  IN  /\ Ready
      /\ main \in editable
      /\ HasRoom(WithSubAnchor(graph, main, t))
      /\ graph' = WithSubAnchor(graph, main, t)
      /\ \E over \in SUBSET text[main] :
           text' \in {text, [text EXCEPT ![main] = (@ \ over) \cup {k}]}
      /\ edited' = edited \cup {main}
      /\ main' = main /\ call' = call
      /\ EditFrame

\* unlink: (unlinkSelection), and typing over anchors.
UnlinkSelection(over) ==
  /\ Ready
  /\ main \in editable /\ over \subseteq text[main]
  /\ text' = [text EXCEPT ![main] = @ \ over]
  /\ edited' = edited \cup {main}
  /\ UNCHANGED <<graph, main, call>>
  /\ EditFrame

\* setTitle:
SetTitle ==
  /\ Ready
  /\ main # NIL
  /\ edited' = edited \cup {main}
  /\ UNCHANGED <<graph, text, main, call>>
  /\ EditFrame

\* save: and saveAll:.  FileAccess always reports success; the other servers
\* refuse.
SaveNodes(these) ==
  /\ Ready
  /\ edited' = edited \ (these \cap local)
  /\ UNCHANGED <<graph, text, main, call>>
  /\ EditFrame

Save    == main # NIL /\ SaveNodes({main})
SaveAll == SaveNodes(edited)

----------------------------------------------------------------------------
(* Windows.                                                                *)

\* Mutant: the node stays on the anchor of a closed window.
CloseKeepsNode(these) ==
  /\ main' \in IF main \in these
               THEN IF loaded \ these = {} THEN {NIL} ELSE loaded \ these
               ELSE {main}
  /\ UNCHANGED <<graph, nodeVars, panel, history, call, raised>>

\* windowWillClose: of each of `these'; the window system picks another main
\* window if the main one is closed.
CloseNodes(these) ==
  /\ text'     = [a \in Anchor |-> IF a \in these THEN {} ELSE text[a]]
  /\ loaded'   = loaded \ these
  /\ local'    = local \ these
  /\ editable' = editable \ these
  /\ edited'   = edited \ these
  /\ index'    = index \ these
  /\ failed'   = failed \ these
  /\ main' \in IF main \in these
               THEN IF loaded' = {} THEN {NIL} ELSE loaded'
               ELSE {main}
  /\ UNCHANGED <<graph, panel, history, call, raised>>

\* windowShouldClose:.  An edited document is saved first, given up, or kept.
Close(d) ==
  /\ Ready
  /\ d \in loaded
  /\ CloseNodes({d})

\* Mutant: edited windows too.
CloseAllOthers == Ready /\ CloseNodes(loaded \ {main})

\* closeOthers:
CloseOthers ==
  /\ Ready
  /\ CloseNodes((loaded \ {main}) \ edited)

\* A click on another window.  windowDidBecomeMain: asks its delegate for the
\* one-argument hyperTextDidBecomeMain:, which no delegate has.
BecomeMain(d) ==
  /\ Ready
  /\ d \in loaded
  /\ main' = d
  /\ UNCHANGED <<graph, nodeVars, panel, history, call, raised>>

----------------------------------------------------------------------------

Next ==
  \/ Launch \/ ReadAnchor \/ ReadIsIndex \/ EndRead
  \/ \E s \in Anchor : FollowLink(s)
  \/ \E ref \in Given : OpenReference(ref) \/ LinkToReference(ref)
  \/ \E d \in Addr : OpenFile(d)
  \/ \E page \in Page : GoTo(page)
  \/ Search \/ Back \/ NextAnchor \/ PreviousAnchor
  \/ MakeNew \/ LinkToNew \/ FinishLinkToNew
  \/ \E t \in Tag : MarkSelected(t)
  \/ \E over \in SUBSET Anchor : UnlinkSelection(over)
  \/ SetTitle \/ Save \/ SaveAll \/ CloseOthers
  \/ \E d \in Anchor : Close(d) \/ BecomeMain(d)

Spec == Init /\ [][Next]_vars

----------------------------------------------------------------------------
(* Safety.                                                                 *)

\* The node graph keeps its shape: families agree on who is whose child, a
\* name means one anchor of its document, links and Sources agree
\* (initWithParent:tag:, isLastChild, linkTo:, whoever calls them, and in
\* whatever order a text names its anchors).
GraphSound ==
  Blank(graph) /\ Families(graph) /\ DistinctTags(graph) /\ LinksKnown(graph)

\* initWithAddress: never makes a second anchor for an address: two documents
\* share one only when setAddress: has moved one of them there.
OneAnchorPerAddress == DistinctAddresses(graph)

\* Windows belong to documents, never to anchors inside them; the main window
\* is one of them, and so is every window an attribute is kept for; a closed
\* document keeps no text (windowWillClose:, selectDiagnostic:, openMy:).
WindowsOfDocuments ==
  /\ loaded \subseteq Orphans(graph)
  /\ main \in loaded \cup {NIL}
  /\ main = NIL => loaded = {}
  /\ local \cup editable \cup edited \cup index \cup failed \subseteq loaded
  /\ \A d \in Anchor \ loaded : text[d] = {}

\* The runs of a text carry anchors of that document only, so `selectedLink'
\* and `linkSelTo:' never reach into another document (S_anchor, linkSelTo:
\* after makeNewNode: has brought another window to the front).
TextOwn == \A d \in Anchor : \A k \in text[d] : graph.parent[k] = d

\* Back, Next and Previous find what they need in the history: each entry is
\* an anchor inside a document, listed by it, and has a destination.
HistoryLinked ==
  \A i \in 1..Len(history) :
    /\ history[i] \in Made(graph)
    /\ graph.parent[history[i]] # NIL
    /\ graph.dest[history[i]] # NIL

----------------------------------------------------------------------------
(* What a step may not do.                                                 *)

Resolves(g, ref) ==
  /\ Registered(g, ref.addr) # {}
  /\ ref.tag # NoTag => Named(g, DocAnchor(g, ref.addr), ref.tag) # {}

Readdressed == \E a \in Made(graph) : graph'.address[a] # graph.address[a]

KeepsReferences ==
  \A ref \in Reference :
    Resolves(graph, ref) /\ ~Readdressed =>
      Resolves(graph', ref) /\ AnchorAt(graph', ref) = AnchorAt(graph, ref)

\* A reference goes on meaning the anchor it meant, whatever is loaded, read,
\* linked or closed, except when setAddress: moves a document.
ReferencesAreStable == [][KeepsReferences]_vars

KeepsUnwritable ==
  \A d \in loaded \cap loaded' :
    text'[d] # text[d] => \/ d \in editable
                          \/ call.step = "reading" /\ call.doc = d

\* The text of an open document the user may not edit changes only while it is
\* being read (Features.html: one cannot create anchors in unwritable nodes).
UnwritableText == [][KeepsUnwritable]_vars

KeepsEdits ==
  \A d \in edited \ edited' :
    \/ loaded' = loaded \ {d} /\ loaded' # loaded
    \/ d \in local /\ loaded' = loaded
    \/ call.step \in {"reading", "ending"} /\ call.doc = d

\* Edits are given up by nothing but the closing of that very window, a save
\* by the one server that can save, or the end of the reading that made them.
EditsNotForgotten == [][KeepsEdits]_vars

\* Two anchors next to each other in their document.
Beside(a, b) ==
  /\ graph.parent[a] = graph.parent[b]
  /\ \E i \in 1..(Len(graph.children[graph.parent[a]]) - 1) :
       LET kids == graph.children[graph.parent[a]]
       IN  {kids[i], kids[i + 1]} = {a, b}

MovesHistory ==
  \/ history # << >> /\ history' = Front(history)
  \/ history' # << >> /\ Front(history') = history
  \/ /\ Len(history') = Len(history)
     /\ Front(history') = Front(history)
     /\ Beside(LastFollowed, history'[Len(history')])

\* The history moves by whole steps: one more anchor, one fewer, or the last
\* one for a sibling next to it in its document.
HistoryMoves == [][history' # history => MovesHistory]_vars

=============================================================================
