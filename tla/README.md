# WorldWideWeb in TLA+

A TLA+ model of the Cocoa port of the first web browser and editor
(`src/WorldWideWeb/Sources`), with the TLC configurations that check it and
TLAPS proofs of its main invariants.

## The system

The program is one process with one thread.  The AppKit event loop calls one
handler at a time; a handler runs to its end, alerts and panels inside it are
modal, and sockets are read in blocking mode.  So two handlers never
interleave.  What makes the program hard is not threads but *sequences*: the
objects that one handler leaves behind (anchors, nodes, windows, the history,
static parser state, an open connection) are what the next handler, minutes
later, takes for granted.

| Part | Source | State it keeps | Operations |
| --- | --- | --- | --- |
| Anchors | `Anchor.m` | `orphans`, `HTHistory`; per anchor its parent, children, Sources, Address, DestAnchor, Node | `initWithAddress:`, `initWithParent:tag:`, `linkTo:`, `setAddress:`, `isLastChild`, `select`, `follow`, `back`, `next`, `previous` |
| Manager | `HyperManager.m` | list of access modules, the style sheet, the panels | `loadAnchor:`, `accessName:`, `search:`, `saveAll:`, `closeOthers:`, `setTitle:`, `linkToString:` ... |
| Nodes and windows | `HyperText.m` | text storage and its attributes, `isIndex`, `nextAnchorNumber`, the window slots | `initWithAnchor:Server:`, `setupWindow`, `linkSelTo:`, `unlinkSelection`, `followLink`, styles, window delegate |
| Text output | `HyperText.m` 940-1160 | `write_storage`, `endsWithDummyCharacter` (static) | `append_begin`, `output_string`, `set_style`, `finish_output`, `append...` |
| Parser | `ParseHTML.h` | `current_style`, `next_style`, `styleStack` (static) | `readSGML:diagnostic:` |
| Writer | `ParseHTML.h` | none | `writeSGML:relativeTo:` |
| Files | `FileAccess.m`, `HTFile.c` | the files | `openFile:`, `openMy:`, `makeNewNode:`, `linkToNew:`, `saveNode:`, `saveAs:` |
| HTTP | `TcpAccess.m`, `HTTP.c` | none | `accessName:`, `loadAnchor:` |
| News | `NewsAccess.m` | the open connection `s` | `accessName:`, `read_group`, `read_list`, `read_article` |
| FTP | `HTFTP.c` | the list of control connections | `HTFTP_open_file_read`, `HTFTP_close_file` |
| Addresses | `HTParse.c`, `HTString.c` | none | `HTParse`, `HTSimplify`, `HTRelative` |
| Host names | `HTTCP.c` | none | `HTParseInet`, `HTInetStatus` |
| Styles | `HTStyle.m`, `StyleToy.m` | the style sheet | read, write, apply, find |
| Mark and link panel | `TextToy.m` | `Mark` | `markSelected:`, `linkToMark:`, `unlink:`, `followLink:` |
| Print layout, panel, shims | `WWWPageLayout.m`, `WWWPanel.m`, `NXShims.h`, `NSAttributedString+Attributes.m` | none | wrappers of AppKit |

The parts call one another in one direction at a time: a menu action, a click
or the launch enters the manager or a text; the manager hands an anchor to the
access module of its scheme; the module makes a node, opens a stream and gives
it to the parser; the parser makes and links anchors, writes text, and returns;
the caller selects the anchor, which brings the node's window to the front.
The shared state is global: `orphans` and `HTHistory` of `Anchor.m`, the static
variables of the parser and of the output routines, the connection of the news
module, the main window.

What is hard to test is therefore what one call leaves to another much later: a
history entry whose document was closed, a node left by a load that failed, a flag
left by a reader that ended early, an address changed under an anchor that is still
linked to, a style set by one document and read by the next, a backup that the next
save removes, a socket that the last load left.  The news and FTP clients add what
is usual between processes: servers answer when they please, refuse, give notice, or
are gone.  `PROJECT.json` lists these under `hazards`, each at its line, with the
properties that watch it, and the reason where none does or a part is left out.

## The modules

| Module | What it is | Builds on |
| --- | --- | --- |
| `AnchorGraph` | the objects of `Anchor.m` as one value, its methods as operators on it, and what they promise about it | |
| `Browser` | the browser as its user sees it: loads, windows, links, edits, history | `AnchorGraph` |
| `TextAttributes` | attributes of characters, and styles | |
| `StyledText` | abstract: what the output routines promise a parser | `TextAttributes` |
| `TextStorage` | the output routines, with the dummy character, as operators on a text | `TextAttributes` |
| `TextOutput` | the readers that call them, one text after another; implements `StyledText` | `TextStorage` |
| `SgmlText` | the parser: delayed styles, their stack, words, white space, anchors, the ways a document ends | `TextStorage` |
| `SgmlWriter` | the writer: runs to tags, as operators | `SgmlText` |
| `RoundTrip` | a text composed, saved by the writer, and opened again by the parser | `SgmlWriter` |
| `SaveFile` | a save with its backup, over a file system that may refuse any step and a program that may end before any | |
| `Addresses` | addresses taken apart, completed, simplified, made relative, as operators | |
| `Documents` | references followed one after another, and where the address they lead to is looked for | `Addresses` |
| `FtpClient` | the FTP client, its servers, and the descriptors of the process | |
| `NewsClient` | the news client, its host, and the pages of a newsgroup | |
| `MCBrowser`, `MCSgmlText`, `MCRoundTrip`, `MCSaveFile`, `MCDocuments` | instances for TLC, where a configuration alone cannot give them | the module of that name |
| `BrowserProofs`, `TextOutputProofs`, `SgmlTextProofs`, `SaveFileProofs`, `FtpClientProofs`, `NewsClientProofs`, `DocumentsProofs` | theorems and proofs | the module of that name |
| `TextStorageProofs` | what each output routine does to a text: lemmas for `TextOutputProofs` and `SgmlTextProofs` | `TextStorage` |

### `AnchorGraph`

An anchor is the number of its creation, and `NIL` is 0.  `orphans` is an array
in the order of creation, so it is the ascending list of the anchors without a
parent, and "the first equivalent one" is the least.  Anchors are never freed.
`Address`, `parent`, `children`, `Sources`, `DestAnchor` are the fields of the
record; `children` is a sequence, since `isLastChild` and `moveBy:` depend on
its order; `Sources` is a set, since nothing reads its order.  A constructor
that finds or makes is two operators, the anchor and the graph after
(`SubAnchor`, `WithSubAnchor`; `DocAnchor`, `WithDocAnchor`).  Names are taken
up to the case of their letters, as `equivalent` compares them; how an address
is parsed and made absolute is a constant here.  `renamed` is a history
variable: the anchors that `setAddress:` has moved.

### `Browser`

A step is a whole handler, with every call it makes, except that reading a
document is a step for each anchor read: `call` then holds the handler that
waits (`open`, `follow`, `file`, `my`, `new`, `link`), and no other handler runs
until `EndRead` lets it go on.  `Launch` is `applicationDidFinishLaunching:`.

| Action | Code |
| --- | --- |
| `FollowLink`, `OpenReference`, `Search`, `Back`, `NextAnchor`, `PreviousAnchor` | `followLink`, `accessName:`, `searchDiagnostic:`, `back`, `moveBy:`, all through `Select` (`selectDiagnostic:`) and `ManagerLoad` (`loadAnchor:`) |
| `OpenFile`, `GoTo`, `MakeNew`, `LinkToNew`, `FinishLinkToNew` | `openFile:diagnostic:`, `openMy:`, `makeNewNode:`, `linkToNew:` |
| `ReadAnchor`, `ReadIsIndex`, `EndRead` | `readSGML` and `appendBeginAnchor:to:` as far as nodes and anchors go |
| `LinkToReference`, `MarkSelected`, `UnlinkSelection`, `SetTitle` | `linkToString:`, `linkSelTo:`, `referenceSelected`, `unlinkSelection`, `setTitle:` |
| `Save`, `SaveAll`, `Close`, `CloseOthers`, `BecomeMain` | `save:`, `saveAll:`, `windowWillClose:`, `closeOthers:`, `windowDidBecomeMain:` |

`FileOpens`, `FileFails`, `HttpLoad`, `NewsLoad` are the access modules seen
from the manager.  Files come and go: an address may be both in `Present` and in
`Absent`.  `failed` and `raised` are history variables.  AppKit is taken at its
word where the code relies on it: a closed main window makes another window of
the program main, if there is one; an exception that leaves a handler is caught
by the event loop.

### `TextStorage`, `TextOutput`, `StyledText`

An empty `NSTextStorage` keeps no attributes, so `set_style` keeps a style on a
dummy `@` at the end, flagged in the static `endsWithDummyCharacter`, and the
next character takes its attributes and its place.  A text is a record of its
characters with attributes, that flag, and whether an exception has left the
routines (`deleteCharactersInRange:` past the ends).  Attributes are a font
(standing for everything a style of the sheet sets), an anchor, and the text
colour every style sets; `WillChange` and `Apply` are `willChange` and `apply`
on those.  `TextOutput` runs readers over it: `Begin` is one that starts in a
style (`readSGML`), `BeginBare` one that does not (the news reader), `End` is
`FINISH_OUTPUT`, `Leave` is `</NODE>` and `<PLAINTEXT>`, which skip it.
`StyledText` is the text a parser thinks it writes: no dummy, and a current style
that holds for what comes after.

### `SgmlText`

A step reads one tag, one character of a word, or one piece of white space.
`parser` holds the text and the static variables; `next_style` is not reset
between documents.  `ReadWord` is the first character of a word, which sets the
style that was delayed, `ReadMore` those after it, which do not; a word may begin
with an entity that the parser does not know, and `ReadBadEntity` is one that
is followed by white space or a tag.  `ReadJunk` is a tag it does not
know.  `Element` has one of each kind the code treats differently.  `meant` is a
history variable: for each character of a word, the element and the anchor that
were open where it was read.  The lexical level (which characters make a tag,
the matcher for the end of an example, the names and references in an `<A>`) is
left out.

### `SgmlWriter`, `RoundTrip`

`writeSGML` folds `change_run` over the attribute runs of a text, and
`change_run` has a step for each part of the function, in its order: the ends of
the anchor and the element, the start of the next element with its prefix and the
white space before it stripped, the start of the anchor, then `TextChar` for each
character with the newlines that are pending, the prefix that is junked and the
wrapping of lines.  The input is bytes, as in the code, so a bullet is three of
them though it counts as one character.  `RoundTrip` composes a text of a few
runs, saves it, and gives the file to the actions of `SgmlText` one tag or
character at a time; the text that is read may be saved and opened again.

### `SaveFile`

A version of a document, in full or cut short, is the content of a file.  A save
is four steps, each of which may be refused: `Remove` the old backup, `Rename` the
file to it, `OpenHtml` (which empties the file) and `Write`; other formats are
written at once (`WriteAtOnce`).  A file that is there but may not be read is
written over without a backup.  `Ends` is the end of the program, before any of
them.  There is no recovery in the code: the reader opens what is left.  A
backup `,x` is a name like any other, so it can be opened, edited and saved.

### `Addresses`, `Documents`

A name is a sequence of tokens, one of `:` `/` `#` `.` or a word.  `scan`,
`HTParse`, `HTSimplify` and `HTRelative` say where the pointers of the C code stop;
the loop of `HTSimplify` is a recursive function, whose value at n is the name and
the pointer after n turns.  In `Documents` the state is the address of the document
in front, as the program has it, and what it means: an access, a host and the steps
from the root.  `Follow` takes a reference to both, to the first through the
functions of the code and to the second through what a reference means.
`HTLocalName`, `WWW_nameOfFile`, `HTFileFormat`, `HTEditable`, `HTParseInet` and
`HTTP_Get` are operators, and so is `Opened`, the way `loadAnchor:Diagnostic:` of
`FileAccess.m` takes: the file, or else FTP with the simplified name, whichever the
host (`FtpHost`, `FtpPath`).  The words that names are made
of are a constant (`Word`), and so are the places and references that occur;
`IsPlace` and `IsReference` say what may be one: a host of words and dots, with a
port if it has a colon, and steps of words and dots, any number of them.

### `FtpClient`

The static variables of `HTFTP.c` (`connections`, `control`, `master_socket`,
`data_soc`, the input buffer), a table of what each descriptor of the process is,
and for each control connection its server: what it has been told and not
answered, said and not been heard, and the transfer it owes.  A new descriptor is
the lowest that is free, so a number that was kept too long comes to mean another
socket.  Each step of the client reads one reply and does what the code does with
it: `Connect`, `Reuse`, `Login`, `Listen`, `PortReply`, `RetrReply`, `Accept`, then
`ReadToEnd` or `CloseEarly`, and `FinalReply`.  The servers speak RFC 959
(`Answer`, `ConnectData`, `EndTransfer`) and may `Drop` their connection at any
time, with a notice or without.

### `NewsClient`

The socket `s`, the static input buffer, the replies and lines under way, and the
page of a newsgroup.  `Open`, `Greeting`, `Command`, `Reply` are the loop of
`accessName:` with its second try; `ReadHeader`, `ReadBody`, `ReadList`,
`HeadCommand`, `HeadReply`, `ReadFields` the texts; `Chunk`, `Earlier` and `Later` the
arithmetic of `read_group`.  The host answers, refuses, goes (`Drop`, `Notice`) and
gets new articles (`Post`).  There are four history variables: `own`, whether all
that was used was said in answer to the command; `excused`, whether the host gave a
reason for a failure; `seen`, the articles of the group that have been listed, each
when the line with the dot after its header is read; and `missed`, those whose `HEAD`
the host refused, or was gone before answering.

## The runs

| Run | Module, configuration | States | What it shows |
| --- | --- | --- | --- |
| `edit` | `MCBrowser`, `MCBrowserEdit` | 99 386 | windows, texts and edits keep together over loads, new documents, links, saves and closes |
| `travel` | `MCBrowser`, `MCBrowserTravel` | 10 533 | the graph stays sound and the history moves by whole steps, whatever order a text names its anchors in |
| `search` | `MCBrowser`, `MCBrowserSearch` | 134 394 | an address never gets a second anchor, over files, the web, news and searches |
| `text_orderly` | `TextOutput`, `MCTextOrderly` | 18 535 | `OrderlySpec` implements `StyledText` |
| `text_any` | `TextOutput`, `MCTextAny` | 54 791 | whoever reads and however it ends, a dummy is only ever the last character |
| `sgml` | `MCSgmlText` | 678 561 | words keep their style, their anchor and their distance |
| `round_trip` | `MCRoundTrip` | 1 620 949 | what is saved and opened again is the text, but for its last run |
| `bad_save` | `MCRoundTrip`, `BadAllRunsAreWritten` | violation | the last run of a text is not saved |
| `save` | `MCSaveFile` | 1 241 351 | whatever fails in a save and wherever the program ends, a copy remains |
| `documents` | `MCDocuments` | 232 | an address keeps the one text of what it means, and opens that |
| `ftp` | `FtpClient`, `MCFtpClient` | 582 305 | connections are kept and used rightly, replies stay in step, loads end |
| `news` | `NewsClient`, `MCNewsClient` | 687 744 | replies belong to their commands, the second try does its work, the pages of a newsgroup join |

*Properties of `edit`.*  `WindowsOfDocuments`: a window belongs to a document and
never to an anchor inside one, the main window is one of them, a closed document
keeps nothing.  `TextOwn`: the runs of a text carry only anchors of that document,
though `linkToNew:` links after another window has come to the front.
`UnwritableText`: the text of an open document that may not be edited changes
only while it is read.  `EditsNotForgotten`: edits end by a save of the one server
that can save, by closing that window, or by the reading that made them.

*Of `travel`.*  `GraphSound`: parents and children agree, names are unique in a
document, each link is among the Sources of its destination.  `HistoryLinked`:
every history entry is an anchor inside a document and has a destination.
`HistoryMoves`: the history gains one, loses one, or exchanges the last for a
neighbour.  `ReferencesAreStable`: a reference goes on meaning the same anchor
unless `setAddress:` moves a document.

*Of `search`.*  `OneAnchorPerAddress`.

*Of the texts.*  `StylesHold` is the refinement; `DummyIsLast` holds for all
readers.  `WordsInTheirStyle`: once a document has named a style, each word is in
the style of the innermost open element, and always in the anchor open there,
through delayed styles, dummies and wrong nesting.  `WordsApart`: words parted in
the document are parted in the text, except in an example and after a word that
began with an unknown entity.

*Of `round_trip`.*  `SavedIsRead`: opened again, a text has the words it had, each
in its anchor and, once a style has been named, in its style.  `SavedApart`: words
parted by white space are still parted.  Both are for all runs but the last and
leave out texts with bullets and texts with both anchors and a literal style,
which the code gets wrong (below).

*Of `save`.*  `CopyKept`: from the beginning of a save until the next one, what was
in the file is there, under its name or that of its backup, or else the new text
is there in full, unless the backup was refused, or the file could not be read and
had none.  `CompleteRemains`: no step
of a save takes the last complete copy away, but over what the save before it cut
short.

*Of `documents`.*  `HereIsPlace`: after any sequence of references the address is
the one text of the place it means, so no document gets two.  `RelativeLeadsThere`:
a relative address leads from here to what it was made from.  `OpensWhatItMeans`:
the file or mounted file, the FTP request when there is none, or the HTTP request it
leads to, and the format of a file, are those of the place, and the name of a local
file leads back to the address.
`EditableIsWritable`: the rights read off a file's mode are the system's.  Each says
in its comment which references it leaves out.

*Of `ftp`.*  `SocketsAccounted`: no socket is lost, but a listening one that could
not be named or bound.  `CachedAreLoggedIn`: the list
holds open, logged in connections, one to a host, which matters since a failed
login frees its connection and descriptors are used again.  `NewestIsTalkedTo`: a
load from the host connected last talks to it.  `RepliesInStep`: between loads
nothing is unanswered or unread on a connection that is up, however the last load
went.  `LoadsEnd`: a load ends, if by a signal, or waits in `accept` for a server
that will not come.

*Of `news`.*  `OwnReply`: what a load shows was said in answer to its command.
`StaleNoticeCostsNothing`: a load never fails because of a notice that was waiting
since the load before.  `EveryArticleListed`: for a reader who opens a newsgroup and
goes on to the earlier articles, each one has been listed, or its header was refused
or the host gone before it gave it, and none is counted as both, whatever is posted
meanwhile.
`LinksMeetPage`: the pages before and after meet the page.  `LoadsEnd`: a load ends,
or reads on for ever where the connection was lost within a text.

### Bounds

`MaxAnchor` (3 or 4) bounds the anchors of a session: two documents with an anchor
in each, or a document with two anchors and a destination, are enough for every
relation the properties speak of, which never join more than two documents or
two siblings.  `MaxHistory` (1 or 2): a history entry and one before it, since
every operation touches the last only.  In `edit` the home page and the blank
page are one, so that a new document meets the one it is a copy of.  `MaxText` is
4 characters: two words with what comes between them and the dummy; a style
depends on the last character alone.  `MaxDepth` is 2: an element in an element
and its end.  In `text_*` two characters, two fonts and two anchors: one to keep
and one to change to.  In `sgml` blanks, tabs and ends of lines are one character
once they are in the text, since neither the parser nor a property tells them
apart there.

`round_trip` has texts of up to `MaxRuns` = 3 runs, the first, one in between and
the last, which `writeSGML` treats in three places; each run has one of four texts,
which between them have an entity, an end of line, a tab and a wrapped blank
(`LINE_WRAP` is 2 for 64).  `MaxText` and `MaxDepth` are above what such a text can
reach.  `save` makes two versions (`MaxVersion`): one to lose and one to lose it to;
a page, its backup and the backup of that.  `documents` has two file hosts and a
server with two ports, references of up to three steps, and follows none to a place
more than `MaxSteps` = 3 steps deep; ports have 16 bits.  `ftp` has two servers and
descriptors up to `MaxFd` = 6: beside the three of every process, two connections
and the two listening sockets of a change of ports, so that a data connection may or
may not find one free.  Once the client has closed its standard output, taking it
for a document, it is not followed further.  `news` has up to `Newest` = 9 articles
with pages of 2 (`CHUNK_SIZE`) up to 4 (`MAX_CHUNK`), one twice the other as in the
code: groups of one, two and three pages, with a rest and without.  In the modules a
bound is a guard: a step that would pass it is not taken.

`CHECK_DEADLOCK FALSE` is set for the browser, where the bound on anchors stops a
handler that needs one more; for `sgml`, where a null pointer ends the program; and
for `ftp` and `news`, where a signal does, or a client waits for ever, which
`LoadsEnd` speaks of.  The others are checked for deadlock.

### Fairness

The browser and the texts react to one event and return; a user need not do
anything, and nothing is claimed of what must happen.  `ftp` and `news` assume weak
fairness of the client (`Client`: it is one thread that runs on) and of what the
servers owe (`Server` without `Drop`; `Answer`: a server that is there answers what
it was told).  Nothing is assumed of loads, of the closing of connections, of the
parser stopping early, or of new articles.

### Disagreements

`bad_save` expects a violation: the comment on the loop over the runs of a text
says "Runs 2 to N" (`ParseHTML.h:1364`), but the loop ends before the last one
(`ParseHTML.h:1359`), so of a text of two runs or more the last is lost when it is
saved.

The models show more where the code does other than a comment, a document or its
own names say.  They have no run, since each always happens; where one would hide
what a property is about, the comment on the property leaves it out.

*The browser.*

- `selectAnchor:` returns nil always (`HyperText.m:449`), so following a link into
  an open document is not put in the history and passes for a failure, where
  `Anchor.h:50` has "Follow  link if we can, return \"can we?\"".
- Next at the last link and Previous at the first raise an exception in
  `objectAtIndex:` (`Anchor.m:166`) before the "Anchor: No such logical step" of
  lines 170-172; Next drops the last entry before it finds that the
  sibling is no link (`Anchor.m:168`).
- The search panel does not appear when an index comes to the front, as
  `Features.html:10-11` says: the delegate is asked for a method it has not
  (`HyperText.m:925`).
- A load that failed leaves an empty node (`TcpAccess.m:44`), so the next one finds
  it loaded, where `HyperManager.m:76` has nil for a failure.
- An anchor linked anew stays among the Sources of its old destination
  (`Anchor.m:333`), and `setAddress:` lets two windows show one address
  (`Anchor.m:301`).

*Texts.*

- A reader that ends by `</NODE>` leaves `endsWithDummyCharacter` up, and a text
  begun later may raise (`HyperText.m:1009`), or keep its dummy, where line 1013 has
  "Removes a dummy character at the end."
- A first document that begins with a word follows the null `next_style`
  (`ParseHTML.h:202`); later ones begin in the style the last one ended in
  (`ParseHTML.h:424`).
- The end of an anchor is not seen in a text begun in no style (`HyperText.m:669`); a
  list in a list has no first bullet (`ParseHTML.h:1014`); two words join after an
  unknown entity (`ParseHTML.h:576`).
- Saving an empty text raises, and leaves the file cut.  Behind a bullet runs are
  written too early, since the length of a run counts UTF-16 units and the
  characters are read as bytes (`ParseHTML.h:1185`).  The tags of an anchor in or
  next to a literal style are read as text; `<PRE>` and `<XMP>` share a style and come
  back as the first of the two; a tag within a word adds a space to it.  A text
  whose first run has no font would follow the null `currentSGML`.

*Files.*

- No result in a save is looked at and the window is taken to be saved (`FileAccess.m:171`).
  If the new file cannot be opened the null stream is closed, which ends the
  program.  A save that failed and is tried again removes the good backup for the
  bad file.  Save As and new documents write over an old file without a backup
  (`FileAccess.m:564`), and so does a save when the old file may not be read
  (`FileAccess.m:194`).
- A document may be editable for all its group or all the world may write, while
  its owner may not (`HTFile.c:185`).

*Addresses.*

- `//host` and `access:` without a path take the path from here (`HTParse.c:181`), and a
  reference without an anchor takes one from an address that has one.
- `..` above the root eats the host (`HTParse.c:233`); dots behind `/./` stay; relative
  addresses of HTTP documents keep their `../`.
- A file of this host that is not there is asked for by FTP from this host
  (`FileAccess.m:259`).
- `HTRelative` makes an empty reference of the directory of here, and `port/path` of
  a document on another port of the same host.
- A file of this host below `/Net/` or `/private/Net/` is named as the file of
  another host (`HTFile.c:103`).
- `HTTP_Get` does not look at whether the host is known (`HTTP.c:62`) and leaves its
  socket open when the connection or the request fails (`HTTP.c:98`).

*FTP.*

- A load from a host connected before the last one talks to the last one
  (`HTFTP.c:311`).  A login that fails frees the connection that `control` points to
  (`HTFTP.c:366`), and a load from a host connected before reads it there.
- The -1 of a lost connection is negated (`HTFTP.c:645`): descriptor 1 is read for the
  document, and closed.
- A connection that the server closed stays in the list; the second write on it is
  a SIGPIPE.  A listening socket that could not be bound stays open
  (`HTFTP.c:490`); `accept` waits for ever (`HTFTP.c:654`); when it fails, the reply at the
  end of the transfer is left for the next load.

*News.*

- At the end of file in a reply the dead socket is kept (`NewsAccess.m:186`): the
  load fails, and a later one ends the program by SIGPIPE.  At the end of file in
  a text the loops do not end (`NewsAccess.m:382`).
- The input buffer is not cleared with its connection, so the rest of what an old
  one said may be taken for the greeting of the next.
- An article whose `HEAD` is refused is left out without a word, though the heading
  is "All available articles" (`NewsAccess.m:598`); `missed` keeps them.
- A newsgroup of one article is shown as "No articles in this range" (`NewsAccess.m:524`).
- If the host has no address, `s` stays 0 and commands go to the standard input
  (`NewsAccess.m:125`).

## The proofs

They hold for every value of the constants that satisfies the named assumptions.

*`BrowserProofs`*, from `GraphAssumption` and `BrowserAssumption` (addresses,
names and null values are distinct; the pages the program opens for itself have
a type it knows).  The inductive invariant is

    Inv == Sound(graph) /\ Nodes /\ Waits

`Sound` joins the promises of `AnchorGraph`: none is inductive alone, since
finding a child by name needs unique names, and naming a child needs parents that
list their children.  `Nodes` is `WindowsOfDocuments` and `TextOwn`.  `Waits`
says what the handler in the middle of a load knows when it goes on: its document
is open, the anchor it follows has a destination, the history is linked.  The
argument for it is one relation, `Grows`: whatever is done to the graph, anchors
stay, keep their parent, and keep a destination once they have one.  So what
was true of an anchor when it was put into the history is true when it is used.
The first part of the module proves `Sound` and `Grows` of each operator of
`AnchorGraph`; then there is a lemma per way of ending a handler and one per
action, then `Invariance` and from it `Types`, `GraphStaysSound`,
`AddressesAreUnique`, `WindowsStay`, `TextsKeepTheirOwn`, `HistoryHoldsLinks`.

The same induction carries the action properties, since a step that keeps `Inv`
is shown to be `Faithful` with it: the graph grows, the text of an open document
that may not be edited stays, edits are given up only by their own window, and
the history moves by one.  Most handlers end in a load, so what a load does to
the session is stated once (`Keeps`, `Leaves`) and each handler says which
document it may touch.  Hence `TextsStayUnwritable`, `EditsAreKept` and
`HistoryMovesByOne`.  `ReferencesKeepTheirMeaning` needs more than `Grows`: in a
graph that grows and moves no address, the least orphan with an address stays
the least, since new anchors have greater numbers, and names are unique in a
document by `Sound`.

*`TextOutputProofs`*, from `TextAssumption`, `DummyAssumption` and
`BoundAssumption`.  `StylesAlwaysHold`: `OrderlySpec` implements `StyledText`.  A
step of the one is a step of the other only in a text that has a font: without
one, the end of an anchor changes nothing.  Hence the invariant `Orderly`: a text
being written has a font and colour, a flagged dummy is there to remove, and no
flag outlives its reader.  `DummyStaysLast` and `TextTypes` are for all readers,
from `Marked`: while a reader writes, a dummy in the text is flagged.

*`SaveFileProofs`*, from `SaveAssumption` (a backup has another name than its
document).  The inductive invariant is `TypeOK /\ Going /\ Stages /\ CopyKept`.
`Stages` says where the old text is: in the file up to the rename, in the backup
from then on, and a file that is being written is not whole.  `CopyKept` alone
does not survive a step, since it does not say which of the two files may go next.
From it follow `Types`, `SaveKeepsACopy` and, since a step of a save is the only one
that changes a file, `CompleteCopyRemains`.  They hold for any documents, however
their backups overlap, and any number of versions.

*`SgmlTextProofs`*, from `TextAssumption`, `DummyAssumption` and `SgmlAssumption`
(every element has a font; white space is not what words are made of).  The
properties are about all words of the text, and a step only adds to its end, so
the invariant has three parts.  `Good` counts: the n-th word of the text is the
n-th that was read, with its anchor and font, and touches the one before only
where it may.  `Reads` is about the end of the text: nothing was raised, a
flagged dummy is there and is last, and the attributes of the last character
are the font of `current_style` and the open anchor.  That is what the next
character will have, so a word read in the style it should have is `Good`.  `Parts`
says that a word at the end of the text has set `output_in_word`, or began with an
unknown entity, or is of an example.  `next_style` is the innermost element once
a tag has named one, and the macro that makes it `current_style` keeps `Reads` and
`Parts` (`MacroReads`), or meets the null pointer of a parser that has read no
tag yet.  `Invariance` gives `Types`, `WordsKeepTheirStyle` and `WordsStayApart`,
for all elements, fonts, anchors and nestings, and texts of any length.  A flag
left by the document before is in it too: `BeginDocument` then raises, and leaves
no words.

*`FtpClientProofs`*, from `FtpAssumption` (the descriptors 0 to 3, and a host).  The
inductive invariant is

    Inv == TypeOK /\ SocketsAccounted /\ CachedAreLoggedIn
             /\ Numbered /\ Current /\ LoggingIn /\ InStep

`Numbered`: a number that the client keeps is still that of the socket it had,
though numbers are given again as soon as they are free.  `Current`: `control`
is the newest connection in the list, or one that was refused and has been
closed.  `LoggingIn`: what a connection owes while it is logged in, and that a
reply of class 2 means it has let the client in.  `InStep`: what it owes at every
other point of a load, and that all others owe nothing; or there is no
descriptor left and there will be none.  `CachedAreLoggedIn` needs `LoggingIn`, and
`RepliesInStep` needs all of it.  One lemma (`ServerStep`) is for what servers
do; the others are one per handler.

*`NewsClientProofs`*, from `NewsAssumption` (pages of more than one article: with
pages of one, a link leads to a page shown as empty, which TLC found when the
assumption was weaker) and `NamesAssumption`.  The inductive invariant is

    Inv == TypeOK /\ OwnReply /\ Phase /\ Excuses
             /\ Groups /\ Pages /\ LinksMeetPage /\ Listing

`Phase` is the form of what is under way at each `pc`, over the buffer and what
the host has said as one stream: the reply and what belongs to it, or a refusal,
then nothing but refusals.  `Excuses` says why a load without an excuse will not
fail: a dead connection has a notice on it that is read first, and the second
try has none.  `Pages` says where pages begin and end; never at the second
article, since a page so near to the first begins with it.  `Listing` says that
what has been listed or missed is an interval up to the newest article there was,
with the one whose header is being read.  From it
follow `Types`, `AnswersAreOwn`, `NoticesCostNothing`, `PagesMeet` and
`AllArticlesListed`, for groups and pages of any size.

*`DocumentsProofs`*, from `DocumentsAssumption` (words are none of the four marks;
places and references are such; ports are numbers).  The inductive invariant is

    HereInv == IsPlace(place) /\ here = Text(place)

which is little more than `HereIsPlace`: that a step keeps it is all about what the
functions of `HTParse.c` compute, for names of any length.  It is shown in three
stages, each a theorem.  `ScanText`: the text of an address is taken apart into the
parts it was put together from, by where its first colons, slashes and number
signs are.  `ReferredText`: `HTParse` completes a reference to the text of what it
means before dots are taken out; one case for each form a reference has.
`SimplifyWalks`: `HTSimplify` leaves where a walk along the steps leads to.  The
argument for the last is about the loop: after any number of turns the name is what
the first i steps lead to, followed by the steps that are left, with the pointer not
behind the next slash that matters (`Simplifying`), and a turn leaves less behind the
pointer, also one that sends the pointer back, since it removes more than it goes
back over.  So the turns that the function allows are enough.  With them
`Invariance` gives `AddressIsItsPlace`.

`DocumentsAreOpened` reads the same text again: by the functions that ask it for its
host, its path or its access, and from the end for its extension.
`RelativesAreFollowed` needs how far two names match, `Extent`, and how many slashes
are in what they have in common, which is what `HTRelative` chooses by.  `PathsFork`
says where the last common slash is: before the first step in which two paths
differ, though the names may go on to match inside that step.  Then the relative
address is as many `..` as the other has directories left, and the steps from there
(`StepsLeadThere`), or the path from the root, or all but the access; each is a
reference like those above, and `ReferredText` and `SimplifyWalks` say where it
leads.  `EditableFilesAreWritable` needs no invariant: it says of any mode that the
two ways to read it agree.

Recursion is over numbers and sequences here: the functions are given by a
recursive definition, which is shown to have a value (`RecursiveFunction`), and an
induction is over a set of numbers or of sequences that is closed under one more
(`NaturalInduction`, `SequenceInduction`, from the well-foundedness of `<` on the
naturals).

*Only model-checked:* liveness (`LoadsEnd` of both clients), since fairness and
`ENABLED` are out of the prover's reach; the disagreement; and `SavedIsRead` and
`SavedApart` of `RoundTrip`.  These compare a text with what two programs in turn
make of it, and a proof would be a simulation of the writer, a fold over runs and
within each over bytes, by the parser, which reads item by item what the whole
fold has written.  Nor do they hold for every style sheet and every text: the
configuration gives one sheet and four texts a run may have, and what exactly is
to be assumed of them is not known yet.  What the parser does with any items it
reads is proved (`SgmlTextProofs`); that the writer gives it the right ones is
checked, for texts of up to three runs.

## What is not modelled

- The text of a link, of a title, of a page: nothing depends on it.
- Pasted rich text, whose attributes come from other programs.
- Bytes that are not UTF-8: `output_string` skips them.
- What is in the buffer of stdio and what in the socket: `select` sees only the
  second, so a document may be cut after four seconds; that it may be cut at any
  point is in `SgmlText`.
- The characters of tags: the lexical states of the parser, and the matcher for the
  end of an example.
- Replies of a news host without a number, whose code is then uninitialised, and
  `NEWS_PORT`, which is not put into the byte order of the network.
- `HTSimplify` copies over itself with `strcpy`; it is taken to copy forward.
- `HTString.c`, `HTStrip` and `HTCardinal`: nothing here depends on them.  What is only
  compiled for VMS or for other window systems.
- The style sheet file, the panels, the print layout, the resolver.
- The `Mark` of `TextToy.m`, which is never assigned, so that `linkToMark:` links to
  nothing.
- What nobody calls: `unlink`, `unload` and `delete` of `Anchor.m`, `HTAccess.c` and
  the `HTOpenFile` of `HTFile.c` that it uses.
- The answer of an HTTP server; its header is read away before the parser gets the
  rest (`TcpAccess.m:62`).
- Memory: anchors and nodes are never freed, and running out is not handled.

## What could follow

1. `ExampleReader`: the matcher for an end tag and the lexical states against a
   reference definition, over all short inputs.
2. `Windows`, `AnchorIds`, `Selection`: the slots of windows (`HyperText.m:195`), the
   numbers of anchors (`HyperText.m:252`), the selection that grows to whole
   paragraphs (`HyperText.m:788`).
3. Composition: `Browser` with `AnchorIds` and with the clients as its access
   modules; the readers of `TextOutput` implemented by `SgmlText`.
4. Proofs about `RoundTrip`: the assumptions on the style sheet and on texts under
   which its properties hold, what `change_run` writes for one run, and that the
   parser reads that back; then both for all runs.
