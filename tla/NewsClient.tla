----------------------------- MODULE NewsClient -----------------------------
(***************************************************************************)
(* NewsAccess.m: the connection to the news host, over which articles,     *)
(* lists and newsgroups are loaded one after another, and the pages in     *)
(* which a newsgroup is shown.                                             *)
(*                                                                         *)
(* One connection is kept.  A reply that refuses a command may be no more  *)
(* than the notice of a timeout that was waiting there, so the connection  *)
(* is then closed and the command tried once more on a new one.  The input *)
(* buffer is not cleared in between.  The host answers at its own pace and *)
(* may close the connection at any time, with or without a notice.         *)
(*                                                                         *)
(* Of a text only the empty line after its header and the dot at its end   *)
(* are told from other lines.  Replies are good (2xx) or bad.              *)
(***************************************************************************)
EXTENDS Integers, Sequences, FiniteSetsExt

CONSTANTS
  MAX_CHUNK,    \* articles in a page
  CHUNK_SIZE,   \* articles in a page of a longer group
  Newest,       \* bound: the highest article number
  Article, List, \* what is not a newsgroup
  None

\* As in the code, 40 and 20.  (With pages of one article the links would lead
\* to pages that are shown as empty.)
ASSUME NewsAssumption ==
  CHUNK_SIZE \in Nat /\ MAX_CHUNK = 2 * CHUNK_SIZE /\ CHUNK_SIZE > 1 /\ Newest \in Nat

VARIABLES
  group,    \* the articles that the host has of the newsgroup
  link,     \* the socket s: "none", or how its other end is
  todo,     \* what the host has not answered
  said,     \* what it has said and the client has not read
  buffer,   \* what the client has read and not used
  pc,       \* what the client waits for, or does
  wanted,   \* Article, List, or the range asked for of the newsgroup
  retries,
  art,      \* the article whose header is read
  page,     \* what is shown of the newsgroup, or None
  seen,     \* history: articles listed since it was opened by its name, or None
  missed,   \* history: those that the host refused or was not there to answer for
  own,      \* history: what has been used was said in answer to the command
  excused   \* history: why a load may fail

host == <<group, link, todo, said>>
client == <<buffer, pc, wanted, retries, art, page>>
history == <<seen, missed, own, excused>>
vars == <<host, client, history>>

Articles == 0 .. Newest
Ranges == [from : Articles, to : 0 .. Newest + CHUNK_SIZE]
WholeGroup == [from |-> 0, to |-> 0]
Lines == {"good", "bad", "blank", "dot"}
Items == [is : Lines, own : BOOLEAN, first : Articles, last : Articles]
Shown == [from : Articles, to : Articles, first : Articles, last : Articles,
          earlier : Ranges \cup {None}, later : Ranges \cup {None}]

\* What is not a range, an item or a page is told from those.
ASSUME NamesAssumption ==
  /\ Article # List /\ None \notin {Article, List} \cup Items \cup Shown
  /\ {Article, List, None} \cap Ranges = {}

TypeOK ==
  /\ group \in [first : Articles, last : Articles]
  /\ link \in {"none", "stdin", "up", "down", "reset"}
  /\ todo \in Seq({"greeting", "command", "HEAD", "text", "body"})
  /\ said \in Seq(Items) /\ buffer \in Seq(Items)
  /\ pc \in {"idle", "open", "greeting", "command", "reply", "header", "body", "LIST",
             "head", "HEAD", "fields", "failed", "killed"}
  /\ wanted \in {Article, List} \cup Ranges
  /\ retries \in 0 .. 1 /\ art \in 0 .. Newest + 1
  /\ page \in Shown \cup {None}
  /\ seen \in (SUBSET Articles) \cup {None} /\ missed \in SUBSET Articles
  /\ own \in BOOLEAN /\ excused \in BOOLEAN

\* If the name of the host cannot be resolved s stays 0, which is not taken for
\* unconnected.  (The standard input of such a program is empty.)
Init ==
  /\ group \in {[first |-> 0, last |-> 0]} \cup {[first |-> 1, last |-> n] : n \in 1 .. Newest}
  /\ link \in {"none", "stdin"}
  /\ todo = <<>> /\ said = <<>> /\ buffer = <<>>
  /\ pc = "idle" /\ wanted = List /\ retries = 0 /\ art = 0 /\ page = None
  /\ seen = None /\ missed = {} /\ own = TRUE /\ excused = FALSE

-----------------------------------------------------------------------------
(* next_char and response.                                                 *)

\* Mutant: the end of file is not looked for.
NeverEnded == FALSE
Ended == link \in {"stdin", "reset"} \/ (link = "down" /\ said = <<>>)

\* What may be read next: an item, and what is then in the buffer and still to
\* be read; or the end of file, None.
NextItem ==
  LET Read(n) == [item |-> said[1], buffer |-> SubSeq(said, 2, n), said |-> SubSeq(said, n + 1, Len(said))]
      Lost == [item |-> None, buffer |-> buffer, said |-> said]
  IN IF buffer # <<>> THEN {[item |-> buffer[1], buffer |-> Tail(buffer), said |-> said]}
     ELSE (IF link = "stdin" THEN {} ELSE {Read(n) : n \in 1 .. Len(said)})
            \cup {l \in {Lost} : Ended}

\* Nothing that was said before is an answer to the command that is sent now.
Older(items) == [i \in DOMAIN items |-> [items[i] EXCEPT !.own = FALSE]]

\* A write on a connection that the host has closed makes it reset; the next one
\* is a SIGPIPE, which nothing in the program catches.
Send(command, next) ==
  /\ pc' = IF link = "reset" THEN "killed" ELSE next
  /\ todo' = IF link = "up" THEN Append(todo, command) ELSE todo
  /\ link' = IF link = "down" THEN "reset" ELSE link
  /\ said' = Older(said)

Close == link' = "none" /\ todo' = <<>> /\ said' = <<>>
Stay == UNCHANGED <<link, todo>>

-----------------------------------------------------------------------------
(* accessName:anchor:diagnostic:                                           *)

SaysSomething == \E i \in DOMAIN (buffer \o said) : TRUE
DeadInSilence == link \in {"stdin", "down", "reset"} /\ ~SaysSomething

\* The reader opens an article, the list or the newsgroup, or goes to a page
\* before or after the one that is shown.
Load(what) ==
  /\ pc \in {"idle", "failed"}
  /\ wanted' = what /\ retries' = 0 /\ page' = None /\ pc' = "open"
  /\ CASE what = WholeGroup /\ (page = None \/ page.later # what) -> seen' = {} /\ missed' = {}
       [] page # None /\ page.earlier = what -> UNCHANGED <<seen, missed>>
       [] OTHER -> seen' = None /\ missed' = {}
  /\ own' = TRUE /\ excused' = DeadInSilence
  /\ UNCHANGED <<host, buffer, art>>

Open ==
  /\ pc = "open"
  /\ IF link = "none"
     THEN \/ /\ link' = "up" /\ todo' = <<"greeting">> /\ said' = <<>>
             /\ pc' = "greeting" /\ UNCHANGED history
          \/ /\ pc' = "failed" /\ excused' = TRUE      \* the host cannot be reached
             /\ UNCHANGED <<link, todo, said, seen, missed, own>>
     ELSE pc' = "command" /\ UNCHANGED <<link, todo, said, history>>
  /\ UNCHANGED <<group, buffer, wanted, retries, art, page>>

\* The buffer may hold what a connection said that is closed by now, as the
\* notice behind a reply that refused: it is taken for the greeting.
Greeting ==
  /\ pc = "greeting"
  /\ excused' = (excused \/ buffer # <<>>)
  /\ \E r \in NextItem :
       /\ buffer' = r.buffer
       /\ IF r.item # None /\ r.item.is = "good"
          THEN pc' = "command" /\ said' = r.said /\ Stay
          ELSE pc' = "failed" /\ Close
  /\ UNCHANGED <<group, wanted, retries, art, page, seen, missed, own>>

\* The standard input may refuse to be written, and is closed then.
Command ==
  /\ pc = "command"
  /\ \/ Send("command", "reply")
     \/ link = "stdin" /\ Close /\ pc' = "failed"
  /\ buffer' = Older(buffer)
  /\ UNCHANGED <<group, wanted, retries, art, page, history>>

\* Mutants: one try more, and one less.
ThirdTry(n) == n < 2
OneTry(n) == FALSE
TryAgain(n) == n < 1

\* Mutants: no link to a short rest of the group; one article is skipped.
EarlierIfLong(from, first) ==
  IF from - MAX_CHUNK <= first THEN None ELSE [from |-> from - CHUNK_SIZE, to |-> from - 1]
LaterSkips(to, last) ==
  IF to >= last THEN None ELSE [from |-> to + 2, to |-> to + CHUNK_SIZE]
\* read_group: the page for a range of a group, and the links before and after
\* it; None if there is nothing in the range, or no more than one article.
Earlier(from, first) ==
  IF from <= first THEN None
  ELSE [from |-> IF from - MAX_CHUNK <= first THEN first ELSE from - CHUNK_SIZE, to |-> from - 1]
Later(to, last) ==
  CASE to >= last -> None
    [] to < last /\ to + CHUNK_SIZE = last -> WholeGroup
    [] OTHER -> [from |-> to + 1, to |-> to + CHUNK_SIZE]
Chunk(req, first, last) ==
  LET low  == Max({req.from, first})
      high == IF req.to = 0 \/ req.to > last THEN last ELSE req.to
      from == IF high - low + 1 > MAX_CHUNK THEN high - CHUNK_SIZE + 1 ELSE low
  IN IF last = 0 \/ high <= low THEN None
     ELSE [from |-> from, to |-> high, first |-> first, last |-> last,
           earlier |-> Earlier(from, first), later |-> Later(high, last)]

\* What follows a good reply.
Accepted(item) ==
  CASE wanted = Article -> pc' = "header" /\ UNCHANGED <<art, page>>
    [] wanted = List -> pc' = "LIST" /\ UNCHANGED <<art, page>>
    [] OTHER -> LET chunk == Chunk(wanted, item.first, item.last) IN
                /\ page' = chunk
                /\ pc' = IF chunk = None THEN "idle" ELSE "head"
                /\ art' = IF chunk = None THEN art ELSE chunk.from

\* At the end of file s is kept.  (When the connection is reset what the host
\* said before may be lost.)
Reply ==
  /\ pc = "reply"
  /\ \E r \in NextItem :
       /\ buffer' = r.buffer
       /\ excused' = (excused \/ (r.item = None /\ said # <<>>))
       /\ CASE r.item = None ->
                 /\ pc' = "failed" /\ said' = r.said /\ Stay
                 /\ UNCHANGED <<retries, art, page, own>>
            [] r.item # None /\ r.item.is = "good" ->
                 /\ Accepted(r.item) /\ said' = r.said /\ Stay
                 /\ own' = (own /\ r.item.own) /\ UNCHANGED retries
            [] OTHER ->
                 /\ Close
                 /\ IF TryAgain(retries) THEN retries' = retries + 1 /\ pc' = "open"
                                         ELSE retries' = retries /\ pc' = "failed"
                 /\ UNCHANGED <<art, page, own>>
  /\ UNCHANGED <<group, wanted, seen, missed>>

-----------------------------------------------------------------------------
(* Reading a text, line by line up to the dot.  Nothing looks for the end  *)
(* of the file: the loops go on for ever with what is not a character.     *)

\* A line is read, and after[line] is what the client does then.
UpToDot(loop, next) == [line \in Lines |-> IF line = "dot" THEN next ELSE loop]
ReadLine(after) ==
  \E r \in NextItem :
    /\ r.item # None
    /\ buffer' = r.buffer /\ said' = r.said
    /\ own' = (own /\ r.item.own)
    /\ pc' = after[r.item.is]

\* Mutant: the body is not read.
AfterHeaderStop(line) == IF line \in {"blank", "dot"} THEN "idle" ELSE "header"
AfterHeader(line) ==
  CASE line = "blank" -> "body" [] line = "dot" -> "idle" [] OTHER -> "header"
\* A line of what is not a character passes for the end of the header.
ReadHeader ==
  /\ pc = "header"
  /\ \/ ReadLine([line \in Lines |-> AfterHeader(line)])
     \/ /\ \E r \in NextItem : r.item = None
        /\ pc' = "body" /\ UNCHANGED <<buffer, said, own>>
ReadBody == pc = "body" /\ ReadLine(UpToDot("body", "idle"))
ReadList == pc = "LIST" /\ ReadLine(UpToDot("LIST", "idle"))

read_text ==
  /\ ReadHeader \/ ReadBody \/ ReadList
  /\ Stay /\ UNCHANGED <<group, wanted, retries, art, page, seen, missed, excused>>

\* The article asked for is not given, if that lost is true.
Miss(lost) == missed' = IF lost /\ seen # None THEN missed \cup {art} ELSE missed

\* The articles of a page are asked for one by one.
HeadCommand ==
  /\ pc = "head" /\ art <= page.to
  /\ Send("HEAD", "HEAD") /\ buffer' = Older(buffer)
  /\ Miss(link # "up")
  /\ UNCHANGED <<group, wanted, retries, art, page, seen, own, excused>>

\* Without a good reply nothing is listed, and the next one is asked for.
HeadReply ==
  /\ pc = "HEAD"
  /\ \E r \in NextItem :
       /\ buffer' = r.buffer /\ said' = r.said
       /\ IF r.item # None /\ r.item.is = "good"
          THEN pc' = "fields" /\ own' = (own /\ r.item.own) /\ UNCHANGED art
          ELSE pc' = "head" /\ art' = art + 1 /\ UNCHANGED own
  /\ Stay /\ UNCHANGED <<group, wanted, retries, page, seen, missed, excused>>

\* The line of an article is written when its header has been read.
ReadFields ==
  /\ pc = "fields"
  /\ ReadLine(UpToDot("fields", "head"))
  /\ IF pc' = "head"
     THEN art' = art + 1 /\ seen' = IF seen = None THEN None ELSE seen \cup {art}
     ELSE UNCHANGED <<art, seen>>
  /\ Stay /\ UNCHANGED <<group, wanted, retries, page, missed, excused>>

EndGroup ==
  /\ pc = "head" /\ art > page.to
  /\ pc' = "idle"
  /\ UNCHANGED <<host, buffer, wanted, retries, art, page, history>>

-----------------------------------------------------------------------------
(* The news host.                                                          *)

Loading == pc \notin {"idle", "failed"}
Item(is) == [is |-> is, own |-> TRUE, first |-> group.first, last |-> group.last]

\* It answers what it was sent; after a good reply to ARTICLE, LIST or HEAD it
\* sends a text, that of an article with an empty line.
Answer ==
  /\ link = "up" /\ todo # <<>>
  /\ LET asked == Head(todo)
         HasText == asked = "HEAD" \/ (asked = "command" /\ wanted \in {Article, List})
     IN \/ /\ asked \in {"greeting", "command", "HEAD"}
           /\ said' = Append(said, Item("good"))
           /\ todo' = Tail(todo) \o IF HasText THEN <<IF wanted = Article THEN "text" ELSE "body">>
                                               ELSE <<>>
           /\ UNCHANGED <<missed, excused>>
        \/ /\ asked \in {"greeting", "command", "HEAD"}
           /\ said' = Append(said, Item("bad")) /\ todo' = Tail(todo)
           /\ excused' = TRUE /\ Miss(asked = "HEAD")
        \/ /\ asked = "text"
           /\ said' = Append(said, Item("blank")) /\ todo' = <<"body">> \o Tail(todo)
           /\ UNCHANGED <<missed, excused>>
        \/ /\ asked \in {"text", "body"}
           /\ said' = Append(said, Item("dot")) /\ todo' = Tail(todo)
           /\ UNCHANGED <<missed, excused>>
  /\ UNCHANGED <<group, link, client, seen, own>>

Drop ==
  /\ link = "up"
  /\ link' = "down" /\ excused' = (excused \/ Loading)
  /\ Miss(todo = <<"HEAD">>)
  /\ UNCHANGED <<group, todo, said, client, seen, own>>

\* The notice of a timeout, and the end.
Notice ==
  /\ link = "up" /\ todo = <<>>
  /\ link' = "down" /\ said' = Append(said, [Item("bad") EXCEPT !.own = FALSE])
  /\ excused' = (excused \/ Loading)
  /\ UNCHANGED <<group, todo, client, seen, missed, own>>

Post ==
  /\ group.last < Newest
  /\ group' = [first |-> Max({1, group.first}), last |-> group.last + 1]
  /\ UNCHANGED <<link, todo, said, client, history>>

-----------------------------------------------------------------------------
Offered == {Article, List, WholeGroup}
             \cup (IF page = None THEN {} ELSE {page.earlier, page.later} \ {None})

Client == \/ Open \/ Greeting \/ Command \/ Reply \/ read_text
          \/ HeadCommand \/ HeadReply \/ ReadFields \/ EndGroup

Next == \/ \E what \in Offered : Load(what)
        \/ Client
        \/ Answer \/ Drop \/ Notice \/ Post

\* The program runs on, and the host answers while its connection is there.
Fairness == WF_vars(Client) /\ WF_vars(Answer)

Spec == Init /\ [][Next]_vars /\ Fairness

-----------------------------------------------------------------------------
(* Properties.                                                             *)

\* What a load shows is the host's answer to its own command, not one left over
\* in the buffer or on the connection.
OwnReply == own

\* A load fails because the host cannot be reached, refuses the command, or goes
\* away in the middle of it, or went away in silence before: never because of a
\* notice that was waiting on the connection since the load before, which is what
\* the second try is for.  (Unless a reset overtakes it, or it is one of an older
\* connection that was left in the buffer.)
StaleNoticeCostsNothing == pc = "failed" => excused

\* Who opens the newsgroup by its name, and goes on to the earlier articles as
\* long as there are any, has seen a line for every article from the first to the
\* last there was at the beginning; only those are left out whose header the host
\* refused, or was not there any more to send.  (Nothing is shown of a group of
\* one article.)
EveryArticleListed ==
  pc = "idle" /\ page # None /\ seen # None =>
    LET asked == seen \cup missed IN
    /\ seen \cap missed = {} /\ page.from .. page.to \subseteq asked
    /\ wanted = WholeGroup => page.to = page.last
    /\ page.earlier = None => asked = page.first .. Max(asked)

\* The links of a page lead to pages that meet it: no article is skipped between
\* them.  (Not so for a link to one article, which is shown as none.)
LinksMeetPage ==
  page # None =>
    /\ page.earlier # None =>
         LET there == Chunk(page.earlier, page.first, page.last)
         IN there # None /\ there.to = page.from - 1
    /\ page.later # None /\ page.to + 1 < page.last =>
         LET there == Chunk(page.later, page.first, page.last)
         IN there # None /\ page.to + 1 \in there.from .. there.to

\* A load ends, or reads on for ever when the connection is lost within a text.
InVain == pc \in {"body", "LIST", "fields"} /\ Ended /\ buffer = <<>>
LoadsEnd == Loading ~> ~Loading \/ pc = "killed" \/ InVain
=============================================================================
