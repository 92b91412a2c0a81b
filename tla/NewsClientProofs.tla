-------------------------- MODULE NewsClientProofs --------------------------
(***************************************************************************)
(* Proofs about NewsClient: whatever the host says and whenever it goes    *)
(* away, what is shown is the answer to the command, a notice that waited  *)
(* on the connection costs nothing, and the pages of a newsgroup meet.     *)
(***************************************************************************)
EXTENDS NewsClient, TLAPS

-----------------------------------------------------------------------------
(* Sequences: what is read into a buffer, and what is left of what was     *)
(* said.                                                                   *)

\* The elements of two sequences one after the other.
LEMMA Joined ==
  ASSUME NEW S, NEW b \in Seq(S), NEW s \in Seq(S)
  PROVE  /\ b \o s \in Seq(S) /\ Len(b \o s) = Len(b) + Len(s)
         /\ \A i \in 1 .. Len(b) + Len(s) :
              (b \o s)[i] = IF i <= Len(b) THEN b[i] ELSE s[i - Len(b)]
  OBVIOUS

\* A sequence from its second to its n-th element, and what is behind it.
LEMMA SubSeqFacts ==
  ASSUME NEW S, NEW s \in Seq(S), NEW n \in Nat, 1 <= n, n <= Len(s)
  PROVE  /\ SubSeq(s, 2, n) \in Seq(S) /\ Len(SubSeq(s, 2, n)) = n - 1
         /\ \A i \in 1 .. n - 1 : SubSeq(s, 2, n)[i] = s[i + 1]
         /\ SubSeq(s, n + 1, Len(s)) \in Seq(S) /\ Len(SubSeq(s, n + 1, Len(s))) = Len(s) - n
         /\ \A i \in 1 .. Len(s) - n : SubSeq(s, n + 1, Len(s))[i] = s[n + i]
<1>1. /\ SubSeq(s, 2, n) \in Seq(S) /\ Len(SubSeq(s, 2, n)) = n - 1
      /\ \A i \in 1 .. n - 1 : SubSeq(s, 2, n)[i] = s[i + 1]
  OBVIOUS
<1>2. /\ SubSeq(s, n + 1, Len(s)) \in Seq(S) /\ Len(SubSeq(s, n + 1, Len(s))) = Len(s) - n
      /\ \A i \in 1 .. Len(s) - n : SubSeq(s, n + 1, Len(s))[i] = s[n + i]
  OBVIOUS
<1> QED
  BY <1>1, <1>2

\* A sequence of one element.
LEMMA Single ==
  ASSUME NEW c
  PROVE  /\ Head(<<c>>) = c /\ Tail(<<c>>) = <<>> /\ <<c>> \o <<>> = <<c>>
         /\ <<>> \o <<>> = <<>> /\ <<>> \o <<c>> = <<c>> /\ <<c>> # <<>>
         /\ Append(<<>>, c) = <<c>> /\ Len(<<c>>) = 1 /\ Len(<<>>) = 0
         /\ \A d : <<c>> = <<d>> => c = d
  OBVIOUS

-----------------------------------------------------------------------------


\* The client reads what is in its buffer and then what the host has said.
Stream == buffer \o said

\* From place n on there is nothing but refusals and notices; and nothing at
\* all, neither said nor to be answered, while the connection is up.
Bad(s, n) == \A i \in n .. Len(s) : s[i].is = "bad"
Over(s, n) == Bad(s, n) /\ (link = "up" => Len(s) = n - 1 /\ todo = <<>>)

\* From place n on there is the rest of a text, as far as it has been said.
Awaited(s, n, text) == Len(s) = n - 1 /\ (link = "up" => todo = <<text>>)
Own(s, n, line) == Len(s) >= n /\ s[n].is = line /\ s[n].own
BodyAt(s, n) == Awaited(s, n, "body") \/ (Own(s, n, "dot") /\ Over(s, n + 1))
HeaderAt(s, n) ==
  /\ link \in {"up", "down"}
  /\ \/ Awaited(s, n, "text")
     \/ Own(s, n, "blank") /\ BodyAt(s, n + 1)
     \/ Own(s, n, "dot") /\ Over(s, n + 1)

\* There is the reply to a command and what belongs to it, or neither; or it
\* has been refused, if it is not a notice that came before it.
Reaches(item) == wanted \in Ranges /\ seen # None => wanted.to <= item.last
Asked(s, command) ==
  \/ Bad(s, 1) /\ (link = "up" => \/ s = <<>> /\ todo = <<command>>
                                  \/ Len(s) = 1 /\ todo = <<>>)
  \/ /\ link \in {"up", "down"} /\ Own(s, 1, "good")
     /\ CASE command = "command" /\ wanted = Article -> HeaderAt(s, 2)
          [] command = "command" /\ wanted \in Ranges -> Over(s, 2) /\ Reaches(s[1])
          [] OTHER -> BodyAt(s, 2)

\* What is under way, by what the client does.
Phase ==
  /\ pc \in {"idle", "failed", "open", "command", "head"} => Over(Stream, 1)
  /\ pc = "greeting" =>
       /\ Bad(buffer, 1) /\ Bad(said, 2) /\ (said # <<>> => said[1].is \in {"good", "bad"})
       /\ link = "up" => \/ said = <<>> /\ todo = <<"greeting">>
                         \/ Len(said) = 1 /\ todo = <<>>
  /\ pc = "reply" => Asked(Stream, "command")
  /\ pc = "header" => wanted = Article /\ HeaderAt(Stream, 1)
  /\ pc = "body" => wanted = Article /\ BodyAt(Stream, 1)
  /\ pc = "LIST" => wanted = List /\ BodyAt(Stream, 1)
  /\ pc = "HEAD" => Asked(Stream, "HEAD")
  /\ pc = "fields" => BodyAt(Stream, 1)
  /\ pc = "killed" => link = "reset"

\* Why a load that has no excuse yet will not fail: its connection is there, or
\* has a notice on it that is read first; and there is none on the second.
Dead == link \in {"stdin", "down", "reset"}
Excuses ==
  /\ link = "stdin" => Stream = <<>>
  /\ pc = "failed" => excused
  /\ pc = "open" /\ retries = 1 => link = "none"
  /\ ~excused =>
       /\ pc \in {"open", "command", "reply"} /\ Dead => Stream # <<>>
       /\ pc = "greeting" => link = "up" /\ \A i \in 1 .. Len(said) : said[i].is # "bad"
       /\ pc \in {"command", "reply"} /\ retries = 1 =>
            link = "up" /\ \A i \in 1 .. Len(Stream) : Stream[i].is # "bad"

\* The group has articles from the first one on, or none.
Group(g) == g.first <= g.last /\ g.first <= 1 /\ (g.first = 0 <=> g.last = 0)
Groups ==
  /\ Group(group)
  /\ \A i \in 1 .. Len(Stream) : Group(Stream[i]) /\ Stream[i].last <= group.last

\* A page or a link begins with the first article, or leaves two for before it.
Fit(range) == range \in Ranges => range.from # 2
Page(p) ==
  /\ Group(p) /\ p.first <= p.from /\ p.from <= p.to /\ p.to <= p.last
  /\ p.last <= group.last
  /\ wanted \in Ranges
  /\ wanted = WholeGroup => p.to = p.last
  /\ p.earlier = None => p.from = p.first
  /\ p.earlier # None => p.earlier.to = p.from - 1 /\ p.from > 1
  /\ Fit(p.earlier) /\ Fit(p.later)
Pages ==
  /\ page # None => Page(page) /\ pc \in {"head", "HEAD", "fields", "idle", "killed"}
  /\ pc \in {"head", "HEAD", "fields"} => page # None
  /\ Fit(wanted)
  /\ pc \in {"head", "HEAD", "fields"} =>
       page.from <= art /\ art <= page.to + (IF pc = "head" THEN 1 ELSE 0)
  /\ pc = "idle" /\ page # None => art = page.to + 1

\* The article that is asked for is neither listed nor missed, until the host is
\* known to refuse it, or not to answer.
Promised == Own(Stream, 1, "good") \/ (link = "up" /\ Stream = <<>> /\ todo = <<"HEAD">>)
Current ==
  /\ pc = "HEAD" => art \notin seen /\ (art \in missed <=> ~Promised)
  /\ pc = "fields" => art \notin seen \cup missed

\* The articles asked for before the one that is next, on this page and those
\* after.
ListedTo == IF pc \in {"HEAD", "fields"} THEN art ELSE art - 1
Known == seen \cup missed \cup (IF pc \in {"HEAD", "fields"} THEN {art} ELSE {})
Listing ==
  /\ seen # None => seen \cap missed = {} /\ Current
  /\ pc \in {"open", "greeting", "command", "reply"} /\ wanted \in Ranges /\ seen # None =>
       \/ wanted = WholeGroup /\ Known = {}
       \/ /\ 0 < wanted.to /\ wanted.to <= group.last
          /\ \E m \in Articles : wanted.to < m /\ Known = wanted.to + 1 .. m
  /\ pc # "killed" /\ page # None /\ seen # None =>
       \E m \in Articles : page.to <= m /\ Known = (page.from .. ListedTo) \cup (page.to + 1 .. m)

Inv == TypeOK /\ OwnReply /\ Phase /\ Excuses /\ Groups /\ Pages /\ LinksMeetPage /\ Listing

-----------------------------------------------------------------------------
(* Numbers of articles.                                                    *)

\* Max is the maximum of two numbers.
LEMMA MaxOfTwo ==
  ASSUME NEW a \in Int, NEW b \in Int
  PROVE  Max({a, b}) = IF a >= b THEN a ELSE b
<1>1. CASE a >= b
  BY <1>1 DEF Max
<1>2. CASE ~(a >= b)
  BY <1>2 DEF Max
<1> QED
  BY <1>1, <1>2

\* Max is the end of an interval.
LEMMA MaxOfRange ==
  ASSUME NEW a \in Int, NEW b \in Int, a <= b
  PROVE  Max(a .. b) = b
<1>1. b \in a .. b /\ \A y \in a .. b : b >= y
  OBVIOUS
<1> QED
  BY <1>1 DEF Max

\* The page of a range: from low to high, or the end of that; or none.
LEMMA ChunkIs ==
  ASSUME NEW req, NEW first \in Nat, NEW last \in Nat, NEW low, NEW high,
         req.from \in Nat, req.to \in Nat,
         low = IF req.from >= first THEN req.from ELSE first,
         high = IF req.to = 0 \/ req.to > last THEN last ELSE req.to,
         NEW from, from = IF high - low + 1 > MAX_CHUNK THEN high - CHUNK_SIZE + 1 ELSE low
  PROVE  Chunk(req, first, last) =
           IF last = 0 \/ high <= low THEN None
           ELSE [from |-> from, to |-> high, first |-> first, last |-> last,
                 earlier |-> Earlier(from, first), later |-> Later(high, last)]
<1>1. Max({req.from, first}) = low
  BY MaxOfTwo
<1> QED
  BY <1>1 DEF Chunk

\* The range of a load is one that a page links to, or the whole of the group.
Asks(req, first, last) ==
  /\ req \in Ranges /\ first \in Articles /\ last \in Articles
  /\ first <= last /\ first <= 1 /\ (first = 0 <=> last = 0) /\ req.from # 2

\* read_group shows articles of the range it is asked for, and never links to a
\* range that would begin with the second article.
LEMMA ChunkFacts ==
  ASSUME NEW req, NEW first, NEW last, Asks(req, first, last), NEW low, NEW high,
         low = IF req.from >= first THEN req.from ELSE first,
         high = IF req.to = 0 \/ req.to > last THEN last ELSE req.to,
         last # 0, low < high,
         NEW p, p = Chunk(req, first, last)
  PROVE  /\ p \in Shown /\ p # None
         /\ p.first = first /\ p.last = last /\ first = 1
         /\ p.from = IF high - low + 1 > MAX_CHUNK THEN high - CHUNK_SIZE + 1 ELSE low
         /\ p.to = high
         /\ first <= p.from /\ p.from <= p.to /\ p.to <= p.last /\ p.to >= 2
         /\ p.from = 1 \/ p.from >= 3
         /\ p.earlier = Earlier(p.from, first) /\ p.later = Later(high, last)
         /\ p.earlier = None => p.from = first
         /\ p.earlier # None => p.earlier.to = p.from - 1 /\ p.from > first
         /\ Fit(p.earlier) /\ Fit(p.later)
<1> DEFINE from == IF high - low + 1 > MAX_CHUNK THEN high - CHUNK_SIZE + 1 ELSE low
<1>1. /\ CHUNK_SIZE \in Nat /\ MAX_CHUNK = 2 * CHUNK_SIZE /\ CHUNK_SIZE > 1 /\ Newest \in Nat
      /\ req.from \in 0 .. Newest /\ req.to \in 0 .. Newest + CHUNK_SIZE
      /\ first \in 0 .. Newest /\ last \in 0 .. Newest
      /\ first <= last /\ first <= 1 /\ (first = 0 <=> last = 0) /\ req.from # 2
  BY NewsAssumption DEF Ranges, Articles, Asks
<1>2. low = IF req.from >= first THEN req.from ELSE first
  OBVIOUS
<1>3. p = [from |-> from, to |-> high, first |-> first, last |-> last,
           earlier |-> Earlier(from, first), later |-> Later(high, last)]
  BY <1>1, ChunkIs
<1>4. /\ first = 1 /\ low >= 1 /\ low # 2 /\ high \in 0 .. last /\ from \in low .. high
      /\ from = 1 \/ from >= 3
  BY <1>1, <1>2, <1>3
<1> HIDE DEF from
<1>5. /\ Earlier(from, first) \in Ranges \cup {None} /\ Fit(Earlier(from, first))
      /\ Earlier(from, first) = None => from = first
      /\ Earlier(from, first) # None =>
           Earlier(from, first).to = from - 1 /\ from > first
  <2> DEFINE start == IF from - MAX_CHUNK <= first THEN first ELSE from - CHUNK_SIZE
  <2>1. CASE from <= first
    BY <2>1, <1>1, <1>4, NamesAssumption DEF Earlier, Fit
  <2>2. CASE from > first
    <3>1. start \in Articles /\ start # 2 /\ from - 1 \in 0 .. Newest + CHUNK_SIZE
      BY <2>2, <1>1, <1>4 DEF Articles
    <3>2. Earlier(from, first) = [from |-> start, to |-> from - 1]
      BY <2>2, <1>1, <1>4 DEF Earlier
    <3> HIDE DEF start
    <3>3. Earlier(from, first) \in Ranges
      BY <3>1, <3>2 DEF Ranges
    <3> QED
      BY <2>2, <3>1, <3>2, <3>3, NamesAssumption DEF Fit
  <2> QED
    BY <2>1, <2>2, <1>1, <1>4
<1>6. Later(high, last) \in Ranges \cup {None} /\ Fit(Later(high, last))
  <2>1. WholeGroup \in Ranges /\ WholeGroup.from # 2
    BY <1>1 DEF WholeGroup, Ranges, Articles
  <2>2. ASSUME high < last
        PROVE  [from |-> high + 1, to |-> high + CHUNK_SIZE] \in Ranges /\ high + 1 # 2
    <3>1. high \in Nat /\ low \in Int /\ high >= 2
      BY <1>1, <1>2, <1>3, <1>4
    <3>2. high + 1 \in 0 .. Newest /\ high + CHUNK_SIZE \in 0 .. Newest + CHUNK_SIZE
      BY <2>2, <3>1, <1>1
    <3> QED
      BY <3>1, <3>2 DEF Ranges, Articles
  <2> QED
    BY <2>1, <2>2, <1>1, <1>4, NamesAssumption DEF Later, Fit
<1>7. from \in Articles /\ high \in Articles
  BY <1>1, <1>4 DEF Articles
<1>8. p \in Shown
  BY <1>1, <1>3, <1>5, <1>6, <1>7 DEF Shown, Articles
<1>9. high >= 2
  BY <1>1, <1>4
<1> QED
  BY <1>1, <1>3, <1>4, <1>5, <1>6, <1>8, <1>9, NamesAssumption DEF from

\* A page is what ChunkFacts says of its range.
LEMMA ShownChunk ==
  ASSUME NEW req, NEW first, NEW last, Asks(req, first, last),
         NEW p, p = Chunk(req, first, last), p # None
  PROVE  \E low, high :
           /\ low = IF req.from >= first THEN req.from ELSE first
           /\ high = IF req.to = 0 \/ req.to > last THEN last ELSE req.to
           /\ last # 0 /\ low < high
<1> DEFINE low == IF req.from >= first THEN req.from ELSE first
           high == IF req.to = 0 \/ req.to > last THEN last ELSE req.to
<1>1. /\ req.from \in Nat /\ req.to \in Nat /\ first \in Nat /\ last \in Nat
      /\ CHUNK_SIZE \in Nat /\ MAX_CHUNK \in Nat
  BY NewsAssumption DEF Asks, Ranges, Articles
<1>2. low \in Nat /\ high \in Nat
  BY <1>1
<1> HIDE DEF low, high
<1>3. ~(last = 0 \/ high <= low)
  BY <1>1, ChunkIs DEF low, high
<1> QED
  BY <1>2, <1>3 DEF low, high

\* The links of a page lead to pages that meet it, if two articles are there.
LEMMA ChunkMeets ==
  ASSUME NEW req, NEW first, NEW last, Asks(req, first, last),
         NEW p, p = Chunk(req, first, last), p # None
  PROVE  /\ p.earlier # None =>
              LET there == Chunk(p.earlier, p.first, p.last)
              IN there # None /\ there.to = p.from - 1
         /\ p.later # None /\ p.to + 1 < p.last =>
              LET there == Chunk(p.later, p.first, p.last)
              IN there # None /\ p.to + 1 \in there.from .. there.to
<1>1. PICK low, high :
           /\ low = IF req.from >= first THEN req.from ELSE first
           /\ high = IF req.to = 0 \/ req.to > last THEN last ELSE req.to
           /\ last # 0 /\ low < high
  BY ShownChunk
<1>2. /\ p \in Shown
      /\ p.first = first /\ p.last = last /\ first = 1 /\ p.to = high
      /\ first <= p.from /\ p.from <= p.to /\ p.to <= p.last /\ p.to >= 2
      /\ p.from = 1 \/ p.from >= 3
      /\ p.earlier = Earlier(p.from, first) /\ p.later = Later(high, last)
      /\ Fit(p.earlier) /\ Fit(p.later)
  BY <1>1, ChunkFacts
<1>3. /\ p.from \in Nat /\ p.to \in Nat /\ p.last \in Nat
      /\ p.earlier \in Ranges \cup {None} /\ p.later \in Ranges \cup {None}
      /\ first \in Articles /\ last \in Articles /\ first <= last
      /\ CHUNK_SIZE \in Nat /\ MAX_CHUNK = 2 * CHUNK_SIZE /\ CHUNK_SIZE > 1
  BY <1>2, NewsAssumption DEF Shown, Articles, Asks
<1>4. ASSUME p.earlier # None
      PROVE  Chunk(p.earlier, first, last) # None /\ Chunk(p.earlier, first, last).to = p.from - 1
  <2> DEFINE start == IF p.from - MAX_CHUNK <= first THEN first ELSE p.from - CHUNK_SIZE
  <2>1. p.from > first /\ p.earlier = [from |-> start, to |-> p.from - 1]
    BY <1>4, <1>2, <1>3 DEF Earlier
  <2>2. start \in Nat /\ start >= first /\ start < p.from - 1 /\ p.from - 1 # 0 /\ p.from - 1 <= last
    BY <2>1, <1>2, <1>3
  <2> HIDE DEF start
  <2>3. /\ start = IF p.earlier.from >= first THEN p.earlier.from ELSE first
        /\ p.from - 1 = IF p.earlier.to = 0 \/ p.earlier.to > last THEN last ELSE p.earlier.to
    BY <2>1, <2>2, <1>2, <1>3
  <2>4. Asks(p.earlier, first, last)
    BY <1>2, <1>3, <1>4 DEF Asks, Fit
  <2> QED
    BY <2>2, <2>3, <2>4, <1>1, ChunkFacts
<1>5. ASSUME p.later # None, p.to + 1 < p.last
      PROVE  /\ Chunk(p.later, first, last) # None
             /\ p.to + 1 \in Chunk(p.later, first, last).from .. Chunk(p.later, first, last).to
  <2>1. Asks(p.later, first, last)
    BY <1>2, <1>3, <1>5 DEF Asks, Fit
  <2>2. CASE p.later = WholeGroup
    <3>1. /\ first = IF p.later.from >= first THEN p.later.from ELSE first
          /\ last = IF p.later.to = 0 \/ p.later.to > last THEN last ELSE p.later.to
          /\ last # 0 /\ first < last
      BY <2>2, <1>2, <1>3, <1>5 DEF WholeGroup
    <3>2. /\ Chunk(p.later, first, last) # None
          /\ Chunk(p.later, first, last).to = last
          /\ Chunk(p.later, first, last).from =
               IF last - first + 1 > MAX_CHUNK THEN last - CHUNK_SIZE + 1 ELSE first
      BY <2>1, <3>1, ChunkFacts
    <3>3. p.to + CHUNK_SIZE = last
      BY <2>2, <1>2, <1>3, <1>5 DEF Later, WholeGroup
    <3> QED
      BY <3>2, <3>3, <1>2, <1>3, <1>5
  <2>3. CASE p.later # WholeGroup
    <3> DEFINE end == IF p.to + CHUNK_SIZE > last THEN last ELSE p.to + CHUNK_SIZE
    <3>1. p.later = [from |-> p.to + 1, to |-> p.to + CHUNK_SIZE]
      BY <2>3, <1>2, <1>3, <1>5 DEF Later
    <3>2. end \in Nat /\ p.to + 1 < end /\ end - (p.to + 1) + 1 <= MAX_CHUNK
      BY <1>2, <1>3, <1>5
    <3>3. /\ p.to + 1 = IF p.later.from >= first THEN p.later.from ELSE first
          /\ end = IF p.later.to = 0 \/ p.later.to > last THEN last ELSE p.later.to
          /\ last # 0
      BY <3>1, <1>2, <1>3
    <3> HIDE DEF end
    <3>4. /\ Chunk(p.later, first, last) # None
          /\ Chunk(p.later, first, last).to = end
          /\ Chunk(p.later, first, last).from =
               IF end - (p.to + 1) + 1 > MAX_CHUNK THEN end - CHUNK_SIZE + 1 ELSE p.to + 1
      BY <2>1, <3>2, <3>3, ChunkFacts
    <3> QED
      BY <3>2, <3>4, <1>3
  <2> QED
    BY <2>2, <2>3
<1> QED
  BY <1>2, <1>4, <1>5

-----------------------------------------------------------------------------
(* What is on its way to the client.                                       *)

\* The stream is the buffer, then what has been said.
LEMMA StreamFacts ==
  ASSUME TypeOK
  PROVE  /\ Stream \in Seq(Items) /\ Len(Stream) = Len(buffer) + Len(said)
         /\ Len(buffer) \in Nat /\ Len(said) \in Nat
         /\ \A i \in 1 .. Len(Stream) : Stream[i] \in Items
         /\ \A i \in 1 .. Len(buffer) : Stream[i] = buffer[i]
         /\ \A i \in 1 .. Len(said) : Stream[Len(buffer) + i] = said[i]
         /\ \A i \in 1 .. Len(Stream) :
              Stream[i] = IF i <= Len(buffer) THEN buffer[i] ELSE said[i - Len(buffer)]
<1>1. buffer \in Seq(Items) /\ said \in Seq(Items)
  BY DEF TypeOK
<1>2. Len(buffer) \in Nat /\ Len(said) \in Nat
  BY <1>1
<1>3. /\ Stream \in Seq(Items) /\ Len(Stream) = Len(buffer) + Len(said)
      /\ \A i \in 1 .. Len(Stream) :
           Stream[i] = IF i <= Len(buffer) THEN buffer[i] ELSE said[i - Len(buffer)]
  BY <1>1, Joined DEF Stream
<1>4. \A i \in 1 .. Len(Stream) : Stream[i] \in Items
  BY <1>3
<1>5. \A i \in 1 .. Len(buffer) : i \in 1 .. Len(Stream)
  BY <1>2, <1>3
<1>6. \A i \in 1 .. Len(said) :
        /\ Len(buffer) + i \in 1 .. Len(Stream)
        /\ ~(Len(buffer) + i <= Len(buffer)) /\ Len(buffer) + i - Len(buffer) = i
  BY <1>2, <1>3
<1> QED
  BY <1>2, <1>3, <1>4, <1>5, <1>6

\* Two parts of a sequence without its first element, joined again.
LEMMA Rejoined ==
  ASSUME NEW s, NEW b, NEW t, NEW rest, NEW n \in Nat, NEW m \in Nat, 1 <= n, n <= m,
         \A i \in 1 .. n - 1 : b[i] = s[i + 1],
         \A i \in 1 .. m - n : t[i] = s[n + i],
         \A i \in 1 .. m - 1 : rest[i] = IF i <= n - 1 THEN b[i] ELSE t[i - (n - 1)]
  PROVE  \A i \in 1 .. m - 1 : rest[i] = s[i + 1]
<1> SUFFICES ASSUME NEW i \in Nat, 1 <= i, i <= m - 1
             PROVE  rest[i] = s[i + 1]
  OBVIOUS
<1>1. CASE i <= n - 1
  BY <1>1
<1>2. CASE ~(i <= n - 1)
  <2>1. i - (n - 1) \in 1 .. m - n /\ n + (i - (n - 1)) = i + 1
    BY <1>2
  <2> QED
    BY <1>2, <2>1
<1> QED
  BY <1>1, <1>2

\* Reading takes the first item there is, or finds the end of the file.
LEMMA Reading ==
  ASSUME TypeOK, NEW r \in NextItem
  PROVE  \/ /\ r.item = None /\ Ended /\ buffer = <<>> /\ r.buffer = buffer /\ r.said = said
         \/ /\ r.item # None /\ Stream # <<>> /\ Len(Stream) >= 1 /\ r.item = Stream[1]
            /\ r.item \in Items /\ r.buffer \in Seq(Items) /\ r.said \in Seq(Items)
            /\ r.buffer \o r.said \in Seq(Items)
            /\ Len(r.buffer \o r.said) = Len(Stream) - 1
            /\ \A i \in 1 .. Len(Stream) - 1 : (r.buffer \o r.said)[i] = Stream[i + 1]
            /\ Len(r.buffer) \in 0 .. Len(Stream) - 1
            /\ \A i \in 1 .. Len(r.buffer) : r.buffer[i] = Stream[i + 1]
            /\ buffer # <<>> => Len(r.buffer) = Len(buffer) - 1
<1> DEFINE AtEnd == /\ r.item = None /\ Ended /\ buffer = <<>>
                    /\ r.buffer = buffer /\ r.said = said
<1>0. /\ Len(Stream) = Len(buffer) + Len(said)
      /\ Len(buffer) \in Nat /\ Len(said) \in Nat
      /\ \A i \in 1 .. Len(Stream) :
           Stream[i] \in Items
             /\ Stream[i] = IF i <= Len(buffer) THEN buffer[i] ELSE said[i - Len(buffer)]
  BY StreamFacts
<1>a. None \notin Items
  BY NamesAssumption
<1>1. CASE buffer # <<>>
  <2>1. /\ r.item = buffer[1] /\ r.buffer = Tail(buffer) /\ r.said = said
    BY <1>1 DEF NextItem
  <2>2. /\ Tail(buffer) \in Seq(Items) /\ Len(Tail(buffer)) = Len(buffer) - 1
        /\ Len(buffer) >= 1
        /\ \A i \in 1 .. Len(buffer) - 1 : Tail(buffer)[i] = buffer[i + 1]
    BY <1>1 DEF TypeOK
  <2>3. said \in Seq(Items) /\ buffer \in Seq(Items)
    BY DEF TypeOK
  <2> DEFINE tail == Tail(buffer)
             rest == tail \o said
  <2>4. r.buffer = tail /\ rest = r.buffer \o r.said
    BY <2>1
  <2>5. /\ tail \in Seq(Items) /\ Len(tail) = Len(buffer) - 1
        /\ \A i \in 1 .. Len(buffer) - 1 : tail[i] = buffer[i + 1]
    BY <2>2
  <2> HIDE DEF tail
  <2>6. /\ rest \in Seq(Items) /\ Len(rest) = Len(tail) + Len(said)
        /\ \A i \in 1 .. Len(tail) + Len(said) :
             rest[i] = IF i <= Len(tail) THEN tail[i] ELSE said[i - Len(tail)]
    BY <2>5, <2>3, Joined, Zenon
  <2> HIDE DEF rest
  <2>7. \A i \in 1 .. Len(Stream) - 1 : rest[i] = Stream[i + 1]
    <3> SUFFICES ASSUME NEW i \in 1 .. Len(Stream) - 1
                 PROVE  rest[i] = Stream[i + 1]
      OBVIOUS
    <3>1. CASE i <= Len(buffer) - 1
      BY <3>1, <2>2, <2>5, <2>6, <1>0
    <3>2. CASE i > Len(buffer) - 1
      BY <3>2, <2>2, <2>5, <2>6, <1>0
    <3> QED
      BY <3>1, <3>2, <2>2, <1>0
  <2>8. /\ r.item # None /\ Len(Stream) >= 1 /\ r.item = Stream[1] /\ r.item \in Items
        /\ Len(rest) = Len(Stream) - 1 /\ Stream # <<>>
    BY <1>0, <1>a, <2>1, <2>2, <2>5, <2>6
  <2>9. /\ Len(r.buffer) \in 0 .. Len(Stream) - 1
        /\ \A i \in 1 .. Len(r.buffer) : r.buffer[i] = Stream[i + 1]
        /\ Len(r.buffer) = Len(buffer) - 1
    BY <1>0, <2>1, <2>2, <2>4, <2>5
  <2>10. r.buffer \in Seq(Items) /\ r.said \in Seq(Items)
    BY <2>1, <2>3, <2>4, <2>5
  <2> QED
    BY <2>4, <2>6, <2>7, <2>8, <2>9, <2>10, Zenon
<1>2. CASE buffer = <<>> /\ ~AtEnd
  <2>1. PICK n \in 1 .. Len(said) :
          /\ r.item = said[1] /\ r.buffer = SubSeq(said, 2, n)
          /\ r.said = SubSeq(said, n + 1, Len(said))
    <3> DEFINE Read(n) ==
          [item |-> said[1], buffer |-> SubSeq(said, 2, n), said |-> SubSeq(said, n + 1, Len(said))]
    <3>1. ~(r \in {l \in {[item |-> None, buffer |-> buffer, said |-> said]} : Ended})
      BY <1>2
    <3>2. r \in {Read(n) : n \in 1 .. Len(said)}
      BY <1>2, <3>1 DEF NextItem
    <3> QED
      BY <3>2
  <2>2. said \in Seq(Items) /\ Len(buffer) = 0 /\ Len(said) \in Nat /\ n \in Nat /\ 1 <= n /\ n <= Len(said)
    BY <1>2 DEF TypeOK
  <2>3. /\ r.buffer \in Seq(Items) /\ Len(r.buffer) = n - 1
        /\ \A i \in 1 .. n - 1 : r.buffer[i] = said[i + 1]
        /\ r.said \in Seq(Items) /\ Len(r.said) = Len(said) - n
        /\ \A i \in 1 .. Len(said) - n : r.said[i] = said[n + i]
    <3>1. /\ r.buffer \in Seq(Items) /\ Len(r.buffer) = n - 1
          /\ \A i \in 1 .. n - 1 : r.buffer[i] = said[i + 1]
          /\ r.said \in Seq(Items) /\ Len(r.said) = Len(said) - n
          /\ \A i \in 1 .. Len(said) - n : r.said[i] = said[n + i]
      <4>1. /\ SubSeq(said, 2, n) \in Seq(Items) /\ Len(SubSeq(said, 2, n)) = n - 1
            /\ \A i \in 1 .. n - 1 : SubSeq(said, 2, n)[i] = said[i + 1]
            /\ SubSeq(said, n + 1, Len(said)) \in Seq(Items)
            /\ Len(SubSeq(said, n + 1, Len(said))) = Len(said) - n
            /\ \A i \in 1 .. Len(said) - n : SubSeq(said, n + 1, Len(said))[i] = said[n + i]
        BY <2>2, SubSeqFacts
      <4> QED
        BY <2>1, <4>1, Zenon
    <3> QED
      BY <3>1, Zenon
  <2>4. \A i \in 1 .. Len(said) : Stream[i] = said[i]
    BY <2>2, <1>0
  <2> DEFINE rest == r.buffer \o r.said
  <2>5. /\ rest \in Seq(Items) /\ Len(rest) = Len(said) - 1
        /\ \A i \in 1 .. Len(said) - 1 : rest[i] = said[i + 1]
    <3>1. /\ rest \in Seq(Items) /\ Len(rest) = Len(r.buffer) + Len(r.said)
          /\ \A i \in 1 .. Len(r.buffer) + Len(r.said) :
               rest[i] = IF i <= Len(r.buffer) THEN r.buffer[i] ELSE r.said[i - Len(r.buffer)]
      BY <2>3, Joined, Zenon
    <3> HIDE DEF rest
    <3>2. Len(r.buffer) + Len(r.said) = Len(said) - 1
      BY <2>2, <2>3
    <3>3. \A i \in 1 .. Len(said) - 1 :
            rest[i] = IF i <= n - 1 THEN r.buffer[i] ELSE r.said[i - (n - 1)]
      BY <2>3, <3>1, <3>2
    <3>4. \A i \in 1 .. Len(said) - 1 : rest[i] = said[i + 1]
      BY <2>2, <2>3, <3>3, Rejoined
    <3> QED
      BY <3>1, <3>2, <3>4
  <2> HIDE DEF rest
  <2>6. /\ \A i \in 1 .. Len(said) - 1 : rest[i] = Stream[i + 1]
        /\ \A i \in 1 .. n - 1 : r.buffer[i] = Stream[i + 1]
    <3>1. \A i \in 1 .. Len(said) - 1 : i + 1 \in 1 .. Len(said)
      BY <2>2
    <3>2. \A i \in 1 .. n - 1 : i + 1 \in 1 .. Len(said)
      BY <2>2
    <3> QED
      <4>1. \A i \in 1 .. Len(said) - 1 : rest[i] = Stream[i + 1]
        BY <2>4, <2>5, <3>1
      <4>2. \A i \in 1 .. n - 1 : r.buffer[i] = Stream[i + 1]
        BY <2>3, <2>4, <3>2
      <4> QED
        BY <4>1, <4>2
  <2>7. r.item = Stream[1] /\ r.item \in Items /\ Len(Stream) = Len(said) /\ Len(said) >= 1
    BY <2>1, <2>2, <1>0
  <2>8. Len(r.buffer) \in 0 .. Len(Stream) - 1 /\ (buffer # <<>> => Len(r.buffer) = Len(buffer) - 1)
    BY <1>2, <2>2, <2>3, <2>7
  <2>9. /\ r.item # None /\ Stream # <<>> /\ Len(Stream) >= 1 /\ r.item = Stream[1]
        /\ r.item \in Items /\ r.buffer \in Seq(Items) /\ r.said \in Seq(Items)
        /\ rest \in Seq(Items)
        /\ Len(rest) = Len(Stream) - 1
        /\ \A i \in 1 .. Len(Stream) - 1 : rest[i] = Stream[i + 1]
        /\ Len(r.buffer) \in 0 .. Len(Stream) - 1
        /\ \A i \in 1 .. Len(r.buffer) : r.buffer[i] = Stream[i + 1]
        /\ buffer # <<>> => Len(r.buffer) = Len(buffer) - 1
    <3>1. r.item # None /\ Stream # <<>>
      BY <1>a, <2>2, <2>7
    <3> QED
      BY <2>2, <2>3, <2>5, <2>6, <2>7, <2>8, <3>1
  <2> QED
    BY <2>9, Zenon DEF rest
<1>3. CASE AtEnd
  BY <1>3, Zenon
<1> QED
  BY <1>1, <1>2, <1>3, Zenon

\* Reading a line takes the first of the stream.
LEMMA ReadItem ==
  ASSUME TypeOK, NEW r \in NextItem, r.item # None, buffer' = r.buffer, said' = r.said
  PROVE  /\ buffer' \in Seq(Items) /\ said' \in Seq(Items)
         /\ Stream' \in Seq(Items) /\ Len(Stream) >= 1 /\ Len(Stream) \in Nat
         /\ Len(Stream') = Len(Stream) - 1
         /\ \A i \in 1 .. Len(Stream) - 1 : Stream'[i] = Stream[i + 1]
         /\ r.item = Stream[1] /\ r.item \in Items
<1>1. Stream' = r.buffer \o r.said
  BY DEF Stream
<1>2. Len(Stream) \in Nat
  BY StreamFacts
<1> HIDE DEF Stream
<1>3. /\ Len(Stream) >= 1 /\ r.item = Stream[1]
      /\ r.item \in Items /\ r.buffer \in Seq(Items) /\ r.said \in Seq(Items)
      /\ r.buffer \o r.said \in Seq(Items)
      /\ Len(r.buffer \o r.said) = Len(Stream) - 1
      /\ \A i \in 1 .. Len(Stream) - 1 : (r.buffer \o r.said)[i] = Stream[i + 1]
  BY Reading, Zenon
<1> QED
  BY <1>1, <1>2, <1>3, Zenon

\* There is nothing to read only at the end of file.
LEMMA ReadEnd ==
  ASSUME TypeOK, NEW r \in NextItem, r.item = None
  PROVE  /\ Ended /\ buffer = <<>> /\ r.buffer = buffer /\ r.said = said
         /\ Len(Stream) = Len(said) /\ (said = <<>> <=> Stream = <<>>)
<1>1. Ended /\ buffer = <<>> /\ r.buffer = buffer /\ r.said = said
  BY Reading, Zenon
<1>2. said \in Seq(Items) /\ Len(buffer) = 0
  BY <1>1 DEF TypeOK
<1> QED
  BY <1>1, <1>2, StreamFacts

\* When a connection is closed what has been read of it stays.
LEMMA ReadAndClose ==
  ASSUME TypeOK, NEW r \in NextItem, buffer' = r.buffer, said' = <<>>
  PROVE  /\ buffer' \in Seq(Items) /\ said' \in Seq(Items)
         /\ Stream' \in Seq(Items) /\ Len(Stream) \in Nat /\ Len(buffer') \in Nat
         /\ Len(Stream') = Len(buffer') /\ \A i \in 1 .. Len(buffer') : Stream'[i] = buffer'[i]
         /\ r.item = None => Len(buffer') = 0
         /\ r.item # None => /\ r.item = Stream[1] /\ Len(buffer') < Len(Stream)
                             /\ \A i \in 1 .. Len(buffer') : buffer'[i] = Stream[i + 1]
                             /\ buffer # <<>> => Len(buffer') = Len(buffer) - 1
<1>1. Stream' = buffer' \o <<>>
  BY DEF Stream
<1> HIDE DEF Stream
<1>2. Len(Stream) \in Nat
  BY StreamFacts
<1>3. buffer' \in Seq(Items) /\ said' \in Seq(Items)
  <2>1. buffer \in Seq(Items)
    BY DEF TypeOK
  <2>2. r.buffer \in Seq(Items)
    BY <2>1, Reading, Zenon
  <2> QED
    BY <2>2
<1>4. Stream' = buffer' /\ Len(buffer') \in Nat
  BY <1>1, <1>3
<1>5. r.item = None => Len(buffer') = 0
  BY ReadEnd
<1>6. ASSUME r.item # None
      PROVE  /\ r.item = Stream[1]
             /\ Len(buffer') \in 0 .. Len(Stream) - 1
             /\ \A i \in 1 .. Len(buffer') : buffer'[i] = Stream[i + 1]
             /\ buffer # <<>> => Len(buffer') = Len(buffer) - 1
  <2>1. /\ r.item = Stream[1]
        /\ Len(r.buffer) \in 0 .. Len(Stream) - 1
        /\ \A i \in 1 .. Len(r.buffer) : r.buffer[i] = Stream[i + 1]
        /\ buffer # <<>> => Len(r.buffer) = Len(buffer) - 1
    BY <1>6, Reading, Zenon
  <2> QED
    BY <2>1
<1>7. r.item # None => Len(buffer') < Len(Stream)
  BY <1>2, <1>6
<1>8. /\ Stream' \in Seq(Items) /\ Len(Stream') = Len(buffer')
      /\ \A i \in 1 .. Len(buffer') : Stream'[i] = buffer'[i]
  BY <1>3, <1>4
<1> QED
  BY <1>2, <1>3, <1>4, <1>5, <1>6, <1>7, <1>8

\* What had been said is gone, the buffer stays.
LEMMA Hushed ==
  ASSUME TypeOK, buffer' = buffer, said' = <<>>
  PROVE  /\ buffer' \in Seq(Items) /\ said' \in Seq(Items)
         /\ Stream' \in Seq(Items) /\ Len(Stream') = Len(buffer) /\ Len(buffer) \in Nat
         /\ Len(buffer) <= Len(Stream) /\ Len(Stream) \in Nat
         /\ \A i \in 1 .. Len(buffer) : Stream'[i] = Stream[i]
         /\ \A i \in 1 .. Len(buffer) : buffer[i] = Stream[i]
<1>1. buffer \in Seq(Items) /\ Len(buffer) \in Nat
  BY DEF TypeOK
<1>2. Stream' = buffer \o <<>>
  BY DEF Stream
<1> HIDE DEF Stream
<1>3. Stream' = buffer
  BY <1>1, <1>2
<1>4. /\ Len(buffer) <= Len(Stream) /\ Len(Stream) \in Nat
      /\ \A i \in 1 .. Len(buffer) : buffer[i] = Stream[i]
  BY StreamFacts
<1> QED
  BY <1>1, <1>3, <1>4

\* What the host says comes at the end of the stream.
LEMMA Saying ==
  ASSUME TypeOK, NEW x \in Items, said' = Append(said, x), buffer' = buffer
  PROVE  /\ buffer' \in Seq(Items) /\ said' \in Seq(Items)
         /\ Stream' \in Seq(Items) /\ Len(Stream') = Len(Stream) + 1
         /\ Len(said') = Len(said) + 1 /\ said'[Len(said) + 1] = x
         /\ \A i \in 1 .. Len(said) : said'[i] = said[i]
         /\ \A i \in 1 .. Len(Stream) : Stream'[i] = Stream[i]
         /\ Stream'[Len(Stream) + 1] = x
<1>1. buffer \in Seq(Items) /\ said \in Seq(Items)
  BY DEF TypeOK
<1>2. Stream' = buffer \o Append(said, x) /\ Stream = buffer \o said
  BY DEF Stream
<1>3. buffer \o Append(said, x) = Append(buffer \o said, x)
  BY <1>1
<1>4. Stream \in Seq(Items)
  BY StreamFacts
<1> HIDE DEF Stream
<1>5. Stream' = Append(Stream, x)
  BY <1>2, <1>3, Zenon
<1>6. /\ Append(Stream, x) \in Seq(Items) /\ Len(Append(Stream, x)) = Len(Stream) + 1
      /\ \A i \in 1 .. Len(Stream) : Append(Stream, x)[i] = Stream[i]
      /\ Append(Stream, x)[Len(Stream) + 1] = x
  BY <1>4
<1>7. /\ said' \in Seq(Items) /\ Len(said') = Len(said) + 1 /\ said'[Len(said) + 1] = x
      /\ \A i \in 1 .. Len(said) : said'[i] = said[i]
  BY <1>1
<1> QED
  BY <1>1, <1>5, <1>6, <1>7, Zenon

\* A line is still the same when it is no longer the client's own.
LEMMA OldItem ==
  ASSUME NEW x \in Items, NEW y, y = [x EXCEPT !.own = FALSE]
  PROVE  y \in Items /\ y.is = x.is /\ y.own = FALSE /\ y.first = x.first /\ y.last = x.last
<1>1. x = [is |-> x.is, own |-> x.own, first |-> x.first, last |-> x.last]
  BY DEF Items
<1>2. y = [is |-> x.is, own |-> FALSE, first |-> x.first, last |-> x.last]
  BY <1>1
<1> QED
  BY <1>2 DEF Items

\* The next command makes what is in the buffer old, and nothing else of it.
LEMMA OlderFacts ==
  ASSUME NEW s \in Seq(Items)
  PROVE  /\ Older(s) \in Seq(Items) /\ Len(Older(s)) = Len(s)
         /\ \A i \in 1 .. Len(s) : Older(s)[i] = [s[i] EXCEPT !.own = FALSE]
<1>1. DOMAIN s = 1 .. Len(s) /\ Len(s) \in Nat
  OBVIOUS
<1>2. \A i \in 1 .. Len(s) : [s[i] EXCEPT !.own = FALSE] \in Items
  <2>1. \A i \in 1 .. Len(s) : s[i] \in Items
    OBVIOUS
  <2> QED
    BY <2>1, OldItem
<1>3. Older(s) \in [1 .. Len(s) -> Items]
  BY <1>1, <1>2 DEF Older
<1> QED
  BY <1>1, <1>3 DEF Older

\* A command makes everything that was said before it old, and nothing else of it.
LEMMA Aging ==
  ASSUME TypeOK, buffer' = Older(buffer), said' = Older(said)
  PROVE  /\ buffer' \in Seq(Items) /\ said' \in Seq(Items)
         /\ Stream' \in Seq(Items) /\ Len(Stream') = Len(Stream)
         /\ \A i \in 1 .. Len(Stream) :
              /\ Stream'[i].is = Stream[i].is
              /\ Stream'[i].first = Stream[i].first /\ Stream'[i].last = Stream[i].last
<1>1. buffer \in Seq(Items) /\ said \in Seq(Items)
  BY DEF TypeOK
<1>2. /\ buffer' \in Seq(Items) /\ Len(buffer') = Len(buffer)
      /\ \A i \in 1 .. Len(buffer) : buffer'[i] = [buffer[i] EXCEPT !.own = FALSE]
      /\ said' \in Seq(Items) /\ Len(said') = Len(said)
      /\ \A i \in 1 .. Len(said) : said'[i] = [said[i] EXCEPT !.own = FALSE]
  BY <1>1, OlderFacts
<1>3. Stream' = buffer' \o said'
  BY DEF Stream
<1> HIDE DEF Stream
<1>4. /\ Stream' \in Seq(Items) /\ Len(Stream') = Len(buffer') + Len(said')
      /\ \A i \in 1 .. Len(buffer') + Len(said') :
           Stream'[i] = IF i <= Len(buffer') THEN buffer'[i] ELSE said'[i - Len(buffer')]
  <2>1. buffer' \in Seq(Items) /\ said' \in Seq(Items)
    BY <1>2
  <2>2. ASSUME NEW b \in Seq(Items), NEW t \in Seq(Items), NEW st, st = b \o t
        PROVE  /\ st \in Seq(Items) /\ Len(st) = Len(b) + Len(t)
               /\ \A i \in 1 .. Len(b) + Len(t) :
                    st[i] = IF i <= Len(b) THEN b[i] ELSE t[i - Len(b)]
    BY <2>2, Joined, Zenon
  <2> QED
    BY <1>3, <2>1, <2>2
<1>5. /\ Len(Stream) = Len(buffer) + Len(said) /\ Len(buffer) \in Nat /\ Len(said) \in Nat
      /\ \A i \in 1 .. Len(Stream) :
           /\ Stream[i] \in Items
           /\ Stream[i] = IF i <= Len(buffer) THEN buffer[i] ELSE said[i - Len(buffer)]
  BY StreamFacts
<1>6. ASSUME NEW i \in 1 .. Len(Stream)
      PROVE  Stream'[i] = [Stream[i] EXCEPT !.own = FALSE]
  <2>0. i \in 1 .. Len(buffer') + Len(said') /\ i \in Int
    BY <1>2, <1>5
  <2>1. CASE i <= Len(buffer)
    <3>1. Stream[i] = buffer[i] /\ Stream'[i] = buffer'[i] /\ i \in 1 .. Len(buffer)
      BY <2>0, <2>1, <1>2, <1>4, <1>5
    <3> QED
      BY <3>1, <1>2
  <2>2. CASE ~(i <= Len(buffer))
    <3>1. i - Len(buffer) \in 1 .. Len(said)
      BY <2>2, <1>5
    <3>2. Stream[i] = said[i - Len(buffer)] /\ Stream'[i] = said'[i - Len(buffer)]
      BY <2>0, <2>2, <1>2, <1>4, <1>5
    <3> QED
      BY <3>1, <3>2, <1>2
  <2> QED
    BY <2>1, <2>2
<1>7. \A i \in 1 .. Len(Stream) :
        /\ Stream'[i].is = Stream[i].is
        /\ Stream'[i].first = Stream[i].first /\ Stream'[i].last = Stream[i].last
  BY <1>5, <1>6, OldItem
<1>8. Len(Stream') = Len(Stream)
  BY <1>2, <1>4, <1>5
<1>9. buffer' \in Seq(Items) /\ said' \in Seq(Items)
  BY <1>2
<1>10. Stream' \in Seq(Items)
  BY <1>4
<1> QED
  BY <1>7, <1>8, <1>9, <1>10, Zenon

-----------------------------------------------------------------------------
(* A load.                                                                 *)

\* The constants are numbers, requests and null values that differ.
LEMMA Numbers ==
  /\ CHUNK_SIZE \in Nat /\ MAX_CHUNK = 2 * CHUNK_SIZE /\ CHUNK_SIZE > 1 /\ Newest \in Nat
  /\ Articles = 0 .. Newest /\ 0 \in Articles
  /\ WholeGroup \in Ranges /\ WholeGroup.from = 0 /\ WholeGroup.to = 0
  /\ Article # List /\ Article \notin Ranges /\ List \notin Ranges /\ None \notin Ranges
  /\ None # Article /\ None # List /\ None \notin Items /\ None \notin Shown
  BY NewsAssumption, NamesAssumption DEF Articles, WholeGroup, Ranges

\* At first there is no connection and nothing has been asked.
LEMMA InitInv == Init => Inv
<1> SUFFICES ASSUME Init PROVE Inv
  OBVIOUS
<1> USE DEF Init
<1>1. TypeOK
  <2>1. group \in [first : Articles, last : Articles]
    BY Numbers
  <2>2. /\ todo \in Seq({"greeting", "command", "HEAD", "text", "body"})
        /\ said \in Seq(Items) /\ buffer \in Seq(Items)
    OBVIOUS
  <2>3. retries \in 0 .. 1 /\ art \in 0 .. Newest + 1
    BY Numbers
  <2> QED
    BY <2>1, <2>2, <2>3 DEF TypeOK
<1>2. Stream = <<>> /\ Len(Stream) = 0
  <2>1. Stream = <<>>
    BY DEF Stream
  <2> QED
    BY <2>1
<1>3. Phase
  BY <1>2 DEF Phase, Over, Bad
<1>4. Excuses
  BY <1>2 DEF Excuses
<1>5. Groups
  BY <1>2, Numbers DEF Groups, Group
<1>6. Pages /\ LinksMeetPage /\ Listing
  BY Numbers DEF Pages, LinksMeetPage, Listing, Known, Current, Fit
<1> QED
  BY <1>1, <1>3, <1>4, <1>5, <1>6 DEF Inv, OwnReply

\* A load begins, of an article, the list or a range.
LEMMA LoadInv ==
  ASSUME Inv, NEW what \in Offered, Load(what)
  PROVE  Inv'
<1> USE Numbers
<1>1. TypeOK /\ Phase /\ Excuses /\ Groups /\ Pages /\ Listing
  BY DEF Inv
<1>2. /\ pc \in {"idle", "failed"} /\ UNCHANGED <<group, link, todo, said, buffer, art>>
      /\ wanted' = what /\ retries' = 0 /\ page' = None /\ pc' = "open"
      /\ own' = TRUE /\ excused' = DeadInSilence
  BY DEF Load, host
<1>3. Stream' = Stream
  BY <1>2 DEF Stream
<1>4. /\ what \in {Article, List} \cup Ranges /\ Fit(what)
      /\ page # None => page \in Shown /\ pc = "idle" /\ Page(page) /\ art = page.to + 1
  BY <1>1, <1>2 DEF Offered, TypeOK, Pages, Fit, Shown, Page
<1>5. \/ what = WholeGroup /\ seen' = {} /\ missed' = {}
      \/ page # None /\ page.earlier = what /\ seen' = seen /\ missed' = missed
      \/ seen' = None /\ missed' = {}
  BY DEF Load
<1>6. TypeOK'
  <2>1. DeadInSilence \in BOOLEAN
    BY DEF DeadInSilence
  <2>2. seen' \in (SUBSET Articles) \cup {None} /\ missed' \in SUBSET Articles
    BY <1>1, <1>5 DEF TypeOK
  <2> QED
    BY <1>1, <1>2, <1>4, <2>1, <2>2 DEF TypeOK
<1>7. Phase'
  BY <1>1, <1>2, <1>3 DEF Phase, Over, Bad
<1>8. Excuses'
  <2>1. ~excused' => (link \in {"stdin", "down", "reset"} => Stream # <<>>)
    <3>1. SaysSomething => Stream # <<>>
      BY DEF SaysSomething, Stream
    <3> QED
      BY <1>2, <3>1 DEF DeadInSilence
  <2> QED
    BY <1>1, <1>2, <1>3, <2>1 DEF Excuses, Dead
<1>9. Groups'
  BY <1>1, <1>2, <1>3 DEF Groups, Group
<1>10. Pages' /\ LinksMeetPage'
  BY <1>2, <1>4 DEF Pages, LinksMeetPage, Fit
<1>11. Listing'
  <2>1. CASE page # None /\ page.earlier = what /\ seen' = seen /\ missed' = missed
             /\ seen # None /\ what \in Ranges
    <3>1. PICK m \in Articles :
            page.to <= m /\ Known = (page.from .. ListedTo) \cup (page.to + 1 .. m)
      BY <1>1, <1>2, <2>1 DEF Listing
    <3>2. /\ page.from \in Nat /\ page.to \in Nat /\ page.last \in Nat /\ group.last \in Nat
          /\ m \in Nat
      BY <1>1, <1>4, <2>1 DEF Shown, TypeOK
    <3>3. /\ what.to = page.from - 1 /\ page.from > 1 /\ page.from <= page.to
          /\ page.to <= page.last /\ page.last <= group.last /\ ListedTo = page.to
      BY <1>2, <1>4, <2>1, <3>2 DEF Page, ListedTo
    <3>4. 0 < what.to /\ what.to <= group.last /\ what.to < m
      BY <3>1, <3>2, <3>3
    <3>5. Known = what.to + 1 .. m
      BY <3>1, <3>2, <3>3
    <3>6. Known' = Known
      BY <1>2, <2>1 DEF Known
    <3>7. seen \cap missed = {}
      BY <1>1, <2>1 DEF Listing
    <3> QED
      BY <1>2, <2>1, <3>4, <3>5, <3>6, <3>7 DEF Listing, Current
  <2>2. CASE seen' = {} /\ missed' = {} /\ what = WholeGroup
    <3>1. Known' = {}
      BY <1>2, <2>2 DEF Known
    <3> QED
      BY <1>2, <2>2, <3>1 DEF Listing, Current
  <2>3. CASE seen' = None
    BY <1>2, <2>3 DEF Listing
  <2>4. CASE page # None /\ page.earlier = what /\ seen' = seen /\ what \notin Ranges /\ seen # None
    BY <1>1, <1>2, <1>5, <2>4 DEF Listing, Current
  <2> QED
    BY <1>5, <2>1, <2>2, <2>3, <2>4
<1> QED
  BY <1>2, <1>6, <1>7, <1>8, <1>9, <1>10, <1>11 DEF Inv, OwnReply

\* The client connects if it has no connection.
LEMMA OpenInv == ASSUME Inv, Open PROVE Inv'
<1> USE Numbers
<1>1. /\ TypeOK /\ Phase /\ Excuses /\ Groups /\ Pages /\ Listing
      /\ own = TRUE /\ pc = "open" /\ page = None /\ Over(Stream, 1)
  BY DEF Inv, OwnReply, Open, Phase, Pages
<1>2. UNCHANGED <<group, buffer, wanted, retries, art, page, seen, missed, own>>
  BY DEF Open, history
<1>3. CASE /\ link = "none" /\ link' = "up" /\ todo' = <<"greeting">> /\ said' = <<>>
           /\ pc' = "greeting" /\ UNCHANGED history
  <2>1. TypeOK'
    BY <1>1, <1>2, <1>3, Hushed DEF TypeOK, history
  <2>2. Phase'
    <3>1. Bad(buffer, 1)' /\ Bad(said, 2)' /\ said' = <<>>
      BY <1>1, <1>2, <1>3, Hushed DEF Over, Bad
    <3> QED
      BY <1>3, <3>1 DEF Phase
  <2>3. Excuses'
    BY <1>3, Hushed DEF Excuses
  <2>4. Groups'
    BY <1>1, <1>2, <1>3, Hushed DEF Groups, Group
  <2>5. Pages' /\ LinksMeetPage' /\ Listing'
    BY <1>1, <1>2, <1>3 DEF Pages, LinksMeetPage, Listing, Known, Current, Fit, history
  <2> QED
    BY <1>1, <1>2, <2>1, <2>2, <2>3, <2>4, <2>5 DEF Inv, OwnReply
<1>4. CASE /\ ~(link = "none" /\ link' = "up") /\ UNCHANGED <<link, todo, said>>
           /\ \/ pc' = "failed" /\ excused' = TRUE
              \/ pc' = "command" /\ link # "none" /\ excused' = excused
  <2>1. Stream' = Stream
    BY <1>2, <1>4 DEF Stream
  <2>2. TypeOK'
    BY <1>1, <1>2, <1>4 DEF TypeOK
  <2>3. Phase'
    BY <1>1, <1>4, <2>1 DEF Phase, Over, Bad
  <2>4. Excuses'
    BY <1>1, <1>2, <1>4, <2>1 DEF Excuses, Dead, TypeOK
  <2>5. Groups'
    BY <1>1, <1>2, <2>1 DEF Groups, Group
  <2>6. Pages' /\ LinksMeetPage' /\ Listing'
    BY <1>1, <1>2, <1>4 DEF Pages, LinksMeetPage, Listing, Known, Current, Fit
  <2> QED
    BY <1>1, <1>2, <2>2, <2>3, <2>4, <2>5, <2>6 DEF Inv, OwnReply
<1> QED
  BY <1>1, <1>3, <1>4 DEF Open, history

\* The greeting, or what is taken for it.
LEMMA GreetingInv == ASSUME Inv, Greeting PROVE Inv'
<1> USE Numbers
<1>1. /\ TypeOK /\ Phase /\ Excuses /\ Groups /\ Pages /\ Listing
      /\ own = TRUE /\ pc = "greeting" /\ page = None
      /\ excused' = (excused \/ buffer # <<>>)
      /\ UNCHANGED <<group, wanted, retries, art, page, seen, missed, own>>
  BY DEF Inv, OwnReply, Greeting, Pages
<1>2. /\ Bad(buffer, 1) /\ Bad(said, 2) /\ (said # <<>> => said[1].is \in {"good", "bad"})
      /\ link = "up" => \/ said = <<>> /\ todo = <<"greeting">>
                        \/ Len(said) = 1 /\ todo = <<>>
  BY <1>1 DEF Phase
<1>3. PICK r \in NextItem :
        /\ buffer' = r.buffer
        /\ IF r.item # None /\ r.item.is = "good"
           THEN pc' = "command" /\ said' = r.said /\ UNCHANGED <<link, todo>>
           ELSE pc' = "failed" /\ link' = "none" /\ todo' = <<>> /\ said' = <<>>
  BY DEF Greeting, Stay, Close
<1>4. /\ buffer \in Seq(Items) /\ Len(buffer) \in Nat /\ said \in Seq(Items) /\ Len(said) \in Nat
      /\ excused \in BOOLEAN
  BY <1>1 DEF TypeOK
<1>5. buffer = <<>> => Len(Stream) = Len(said) /\ \A i \in 1 .. Len(said) : Stream[i] = said[i]
  BY <1>1, <1>4, StreamFacts
<1>6. Pages' /\ LinksMeetPage' /\ Listing'
  BY <1>1, <1>3 DEF Pages, LinksMeetPage, Listing, Known, Current, Fit
<1>7. CASE r.item # None /\ r.item.is = "good"
  <2>1. /\ buffer' \in Seq(Items) /\ said' \in Seq(Items)
        /\ Len(Stream) >= 1 /\ Len(Stream) \in Nat /\ Len(Stream') = Len(Stream) - 1
        /\ \A i \in 1 .. Len(Stream) - 1 : Stream'[i] = Stream[i + 1]
        /\ r.item = Stream[1] /\ r.item \in Items
    BY <1>1, <1>3, <1>7, ReadItem
  <2>a. \A i \in 1 .. Len(Stream') : i + 1 \in 1 .. Len(Stream) /\ Stream'[i] = Stream[i + 1]
    BY <2>1
  <2>2. buffer = <<>>
    <3>1. buffer # <<>> => Len(buffer) >= 1 /\ Stream[1] = buffer[1]
      BY <1>1, <1>4, StreamFacts
    <3> QED
      BY <3>1, <2>1, <1>2, <1>4, <1>7 DEF Bad
  <2>3. TypeOK'
    BY <1>1, <1>3, <1>7, <2>1 DEF TypeOK
  <2>4. Phase'
    <3>1. \A i \in 1 .. Len(Stream') : Stream'[i].is = "bad"
      BY <1>2, <1>4, <1>5, <2>1, <2>2 DEF Bad
    <3>2. link = "up" => Len(Stream') = 0 /\ todo = <<>>
      BY <1>2, <1>4, <1>5, <2>1, <2>2
    <3> QED
      BY <1>3, <1>7, <3>1, <3>2 DEF Phase, Over, Bad
  <2>5. Excuses'
    <3>1. link # "stdin"
      BY <1>1, <2>1 DEF Excuses
    <3>2. ~excused => link = "up" /\ \A i \in 1 .. Len(said) : said[i].is # "bad"
      BY <1>1 DEF Excuses
    <3>3. ~excused => \A i \in 1 .. Len(Stream') : Stream'[i].is # "bad"
      BY <3>2, <1>5, <2>a, <2>2
    <3> QED
      BY <1>1, <1>3, <1>7, <2>2, <3>1, <3>2, <3>3 DEF Excuses, Dead
  <2>6. Groups'
    BY <1>1, <2>a DEF Groups, Group
  <2> QED
    BY <1>1, <1>6, <2>3, <2>4, <2>5, <2>6 DEF Inv, OwnReply
<1>8. CASE ~(r.item # None /\ r.item.is = "good")
  <2>1. /\ buffer' \in Seq(Items) /\ said' \in Seq(Items)
        /\ Len(Stream) \in Nat /\ Len(buffer') \in Nat
        /\ Len(Stream') = Len(buffer') /\ \A i \in 1 .. Len(buffer') : Stream'[i] = buffer'[i]
        /\ r.item = None => Len(buffer') = 0
        /\ r.item # None => /\ r.item = Stream[1] /\ Len(buffer') < Len(Stream)
                            /\ \A i \in 1 .. Len(buffer') : buffer'[i] = Stream[i + 1]
                            /\ buffer # <<>> => Len(buffer') = Len(buffer) - 1
    BY <1>1, <1>3, <1>8, ReadAndClose
  <2>2. TypeOK'
    BY <1>1, <1>3, <1>8, <2>1 DEF TypeOK
  <2>3. \A i \in 1 .. Len(buffer') : buffer'[i].is = "bad"
    <3>1. CASE buffer = <<>> /\ r.item # None
      BY <1>2, <1>4, <1>5, <2>1, <3>1 DEF Bad
    <3>2. CASE buffer # <<>> /\ r.item # None
      <4>1. \A i \in 1 .. Len(buffer) : Stream[i] = buffer[i]
        BY <1>1, StreamFacts
      <4>2. \A i \in 1 .. Len(buffer') : i + 1 \in 1 .. Len(buffer)
        BY <1>4, <2>1, <3>2
      <4> QED
        BY <1>2, <2>1, <3>2, <4>1, <4>2 DEF Bad
    <3> QED
      BY <2>1, <3>1, <3>2
  <2>4. Phase'
    BY <1>3, <1>8, <2>1, <2>3 DEF Phase, Over, Bad
  <2>5. excused'
    <3> SUFFICES ASSUME ~excused, buffer = <<>> PROVE FALSE
      BY <1>1
    <3>1. link = "up" /\ \A i \in 1 .. Len(said) : said[i].is # "bad"
      BY <1>1 DEF Excuses
    <3>2. r.item # None
      BY <1>1, <3>1, ReadEnd DEF Ended
    <3>3. Len(said) >= 1 /\ r.item = said[1]
      BY <1>4, <1>5, <2>1, <3>2
    <3> QED
      BY <1>2, <1>4, <1>8, <3>1, <3>2, <3>3
  <2>6. Excuses'
    BY <1>3, <1>8, <2>5 DEF Excuses
  <2>7. Groups'
    <3>1. \A i \in 1 .. Len(Stream') : i + 1 \in 1 .. Len(Stream) /\ Stream'[i] = Stream[i + 1]
      BY <2>1
    <3> QED
      BY <1>1, <3>1 DEF Groups, Group
  <2> QED
    BY <1>1, <1>6, <2>2, <2>4, <2>6, <2>7 DEF Inv, OwnReply
<1> QED
  BY <1>7, <1>8

\* When all that was said is read, the stream is the buffer.
LEMMA OnlyBuffer ==
  ASSUME buffer' \in Seq(Items), said' = <<>>
  PROVE  Stream' = buffer' /\ Len(buffer') \in Nat
<1>1. Stream' = buffer' \o <<>>
  BY DEF Stream
<1> HIDE DEF Stream
<1> QED
  BY <1>1

\* A command is sent when nothing but notices is under way.
LEMMA CommandInv == ASSUME Inv, Command PROVE Inv'
<1> USE Numbers
<1>1. /\ TypeOK /\ Phase /\ Excuses /\ Groups /\ Pages /\ Listing
      /\ own = TRUE /\ pc = "command" /\ page = None /\ Over(Stream, 1)
      /\ UNCHANGED <<group, wanted, retries, art, page, seen, missed, own, excused>>
      /\ buffer' = Older(buffer)
  BY DEF Inv, OwnReply, Command, Phase, Pages, history
<1>2. /\ buffer \in Seq(Items) /\ said \in Seq(Items) /\ Len(buffer) \in Nat /\ Len(said) \in Nat
      /\ Len(Stream) = Len(buffer) + Len(said) /\ Stream \in Seq(Items)
  BY <1>1, StreamFacts DEF TypeOK
<1>3. CASE Send("command", "reply")
  <2>1. /\ pc' = IF link = "reset" THEN "killed" ELSE "reply"
        /\ todo' = IF link = "up" THEN Append(todo, "command") ELSE todo
        /\ link' = IF link = "down" THEN "reset" ELSE link
        /\ said' = Older(said)
    BY <1>3 DEF Send
  <2>2. /\ buffer' \in Seq(Items) /\ said' \in Seq(Items)
        /\ Stream' \in Seq(Items) /\ Len(Stream') = Len(Stream)
        /\ \A i \in 1 .. Len(Stream) :
             /\ Stream'[i].is = Stream[i].is
             /\ Stream'[i].first = Stream[i].first /\ Stream'[i].last = Stream[i].last
    BY <1>1, <2>1, Aging
  <2>3. TypeOK'
    <3>1. todo' \in Seq({"greeting", "command", "HEAD", "text", "body"})
      BY <1>1, <2>1 DEF TypeOK
    <3>2. pc' \in {"killed", "reply"} /\ link' \in {"none", "stdin", "up", "down", "reset"}
      BY <1>1, <2>1 DEF TypeOK
    <3> QED
      BY <1>1, <2>2, <3>1, <3>2 DEF TypeOK
  <2>4. Bad(Stream, 1)' /\ (Stream = <<>> <=> Stream' = <<>>)
    <3>1. Bad(Stream, 1)'
      BY <1>1, <2>2 DEF Over, Bad
    <3>2. Stream = <<>> <=> Stream' = <<>>
      BY <1>2, <2>2
    <3> QED
      BY <3>1, <3>2
  <2>5. link' = "up" => Stream' = <<>> /\ todo' = <<"command">>
    <3>1. link' = "up" => link = "up" /\ todo = <<>> /\ Stream = <<>>
      BY <1>1, <1>2, <2>1 DEF Over
    <3>2. Append(<<>>, "command") = <<"command">>
      OBVIOUS
    <3> QED
      BY <1>2, <2>1, <2>4, <3>1, <3>2
  <2>6. Phase'
    BY <2>1, <2>4, <2>5 DEF Phase, Asked
  <2>7. Excuses'
    <3>1. link' = "stdin" => Stream' = <<>>
      BY <1>1, <2>1, <2>4 DEF Excuses
    <3>2. ~excused /\ retries = 1 =>
            link' = "up" /\ \A i \in 1 .. Len(Stream') : Stream'[i].is # "bad"
      BY <1>1, <2>1, <2>2 DEF Excuses
    <3>3. ~excused /\ Dead' => Stream' # <<>>
      BY <1>1, <2>1, <2>4 DEF Excuses, Dead
    <3> QED
      BY <1>1, <2>1, <3>1, <3>2, <3>3 DEF Excuses
  <2>8. Groups'
    BY <1>1, <2>2 DEF Groups, Group
  <2>9. Pages' /\ LinksMeetPage' /\ Listing'
    BY <1>1, <2>1 DEF Pages, LinksMeetPage, Listing, Known, Current, Fit
  <2> QED
    BY <1>1, <2>3, <2>6, <2>7, <2>8, <2>9 DEF Inv, OwnReply
<1>4. CASE link = "stdin" /\ Close /\ pc' = "failed"
  <2>1. link' = "none" /\ todo' = <<>> /\ said' = <<>> /\ pc' = "failed"
    BY <1>4 DEF Close
  <2>2. Stream = <<>> /\ excused
    BY <1>1, <1>4 DEF Excuses, Dead
  <2>3. buffer' \in Seq(Items) /\ Len(buffer') = 0
    BY <1>1, <1>2, <2>2, OlderFacts
  <2>4. Stream' = buffer'
    BY <2>1, <2>3, OnlyBuffer
  <2>5. TypeOK'
    BY <1>1, <2>1, <2>3 DEF TypeOK
  <2>6. Phase' /\ Excuses' /\ Groups'
    BY <1>1, <2>1, <2>2, <2>3, <2>4 DEF Phase, Over, Bad, Excuses, Groups, Group
  <2>7. Pages' /\ LinksMeetPage' /\ Listing'
    BY <1>1, <2>1 DEF Pages, LinksMeetPage, Listing, Known, Current, Fit
  <2> QED
    BY <1>1, <2>5, <2>6, <2>7 DEF Inv, OwnReply
<1> QED
  BY <1>3, <1>4 DEF Command

\* What follows an item is the same when the item has been read.
LEMMA Shifted ==
  ASSUME NEW n \in Nat, n >= 1, UNCHANGED <<link, todo>>, Len(Stream) \in Nat, Len(Stream) >= 1,
         Len(Stream') = Len(Stream) - 1,
         \A i \in 1 .. Len(Stream) - 1 : Stream'[i] = Stream[i + 1]
  PROVE  /\ Over(Stream, n + 1) => Over(Stream, n)'
         /\ BodyAt(Stream, n + 1) => BodyAt(Stream, n)'
         /\ HeaderAt(Stream, n + 1) => HeaderAt(Stream, n)'
<1>1. ASSUME NEW k \in Nat, k >= 1, Over(Stream, k + 1) PROVE Over(Stream, k)'
  <2>1. ASSUME NEW i \in k .. Len(Stream') PROVE Stream'[i].is = "bad"
    <3>1. i + 1 \in k + 1 .. Len(Stream) /\ i \in 1 .. Len(Stream) - 1
      BY <1>1
    <3> QED
      BY <1>1, <3>1 DEF Over, Bad
  <2>2. link' = "up" => Len(Stream') = k - 1 /\ todo' = <<>>
    BY <1>1 DEF Over
  <2> QED
    BY <2>1, <2>2 DEF Over, Bad
<1>2. ASSUME NEW k \in Nat, k >= 1, NEW text, Awaited(Stream, k + 1, text)
      PROVE  Awaited(Stream, k, text)'
  BY <1>2 DEF Awaited
<1>3. ASSUME NEW k \in Nat, k >= 1, NEW line, Own(Stream, k + 1, line) PROVE Own(Stream, k, line)'
  <2>1. k \in 1 .. Len(Stream) - 1
    BY <1>3 DEF Own
  <2> QED
    BY <1>3, <2>1 DEF Own
<1>4. ASSUME NEW k \in Nat, k >= 1, BodyAt(Stream, k + 1) PROVE BodyAt(Stream, k)'
  <2>1. CASE Awaited(Stream, k + 1, "body")
    BY <1>2, <1>4, <2>1 DEF BodyAt
  <2>2. CASE Own(Stream, k + 1, "dot") /\ Over(Stream, (k + 1) + 1)
    BY <1>1, <1>3, <1>4, <2>2 DEF BodyAt
  <2> QED
    BY <1>4, <2>1, <2>2 DEF BodyAt
<1>5. ASSUME HeaderAt(Stream, n + 1) PROVE HeaderAt(Stream, n)'
  <2>1. CASE Awaited(Stream, n + 1, "text")
    BY <1>2, <1>5, <2>1 DEF HeaderAt
  <2>2. CASE Own(Stream, n + 1, "blank") /\ BodyAt(Stream, (n + 1) + 1)
    BY <1>3, <1>4, <1>5, <2>2 DEF HeaderAt
  <2>3. CASE Own(Stream, n + 1, "dot") /\ Over(Stream, (n + 1) + 1)
    BY <1>1, <1>3, <1>5, <2>3 DEF HeaderAt
  <2> QED
    BY <1>5, <2>1, <2>2, <2>3 DEF HeaderAt
<1> QED
  BY <1>1, <1>4, <1>5

\* The end of file instead of a reply fails the load.
LEMMA ReplyEnd ==
  ASSUME Inv, pc = "reply", NEW r \in NextItem, r.item = None,
         buffer' = r.buffer, said' = r.said, pc' = "failed",
         UNCHANGED <<group, link, todo, wanted, retries, art, page, seen, missed, own>>,
         excused' = (excused \/ said # <<>>)
  PROVE  Inv'
<1>1. TypeOK /\ Phase /\ Excuses /\ Groups /\ Pages /\ Listing /\ own = TRUE /\ page = None
  BY DEF Inv, OwnReply, Pages
<1>2. /\ Ended /\ buffer = <<>> /\ r.buffer = buffer /\ r.said = said
      /\ Len(Stream) = Len(said) /\ (said = <<>> <=> Stream = <<>>)
  BY <1>1, ReadEnd
<1>3. UNCHANGED <<buffer, said>> /\ Stream' = Stream
  BY <1>2 DEF Stream
<1>4. Asked(Stream, "command") /\ said \in Seq(Items)
  BY <1>1 DEF Phase, TypeOK
<1>5. Bad(Stream, 1) /\ link # "up" /\ Dead
  <2>1. link = "down" => Len(said) = 0
    BY <1>2, <1>4 DEF Ended
  <2>2. ~(link \in {"up", "down"} /\ Own(Stream, 1, "good"))
    BY <1>2, <2>1 DEF Own, Ended
  <2> QED
    BY <1>2, <1>4, <2>2 DEF Asked, Ended, Dead
<1>6. excused'
  BY <1>1, <1>2, <1>5 DEF Excuses
<1>7. TypeOK'
  BY <1>1, <1>3 DEF TypeOK
<1>8. Phase'
  BY <1>3, <1>5 DEF Phase, Over, Bad
<1>9. Excuses' /\ Groups'
  BY <1>1, <1>3, <1>6 DEF Excuses, Groups, Group
<1>10. Pages' /\ LinksMeetPage' /\ Listing'
  BY <1>1 DEF Pages, LinksMeetPage, Listing, Known, Current, Fit
<1> QED
  BY <1>1, <1>7, <1>8, <1>9, <1>10 DEF Inv, OwnReply

\* A refusal closes the connection and is tried again once.
LEMMA ReplyRefused ==
  ASSUME Inv, pc = "reply", NEW r \in NextItem, r.item # None, r.item.is # "good",
         buffer' = r.buffer, said' = <<>>, todo' = <<>>, link' = "none",
         IF TryAgain(retries) THEN retries' = retries + 1 /\ pc' = "open"
                              ELSE retries' = retries /\ pc' = "failed",
         UNCHANGED <<group, wanted, art, page, seen, missed, own>>, excused' = excused
  PROVE  Inv'
<1>1. TypeOK /\ Phase /\ Excuses /\ Groups /\ Pages /\ Listing /\ own = TRUE /\ page = None
  BY DEF Inv, OwnReply, Pages
<1>2. /\ buffer' \in Seq(Items) /\ said' \in Seq(Items)
      /\ Len(Stream) \in Nat /\ Len(buffer') \in Nat
      /\ Len(Stream') = Len(buffer') /\ \A i \in 1 .. Len(buffer') : Stream'[i] = buffer'[i]
      /\ r.item = Stream[1] /\ Len(buffer') < Len(Stream)
      /\ \A i \in 1 .. Len(buffer') : buffer'[i] = Stream[i + 1]
  BY <1>1, ReadAndClose
<1>3. \A i \in 1 .. Len(Stream') : i + 1 \in 1 .. Len(Stream) /\ Stream'[i] = Stream[i + 1]
  <2>1. ASSUME NEW i \in 1 .. Len(buffer')
        PROVE  i + 1 \in 1 .. Len(Stream) /\ Stream'[i] = Stream[i + 1]
    BY <1>2
  <2> QED
    BY <1>2, <2>1
<1>4. Bad(Stream, 1) /\ Stream[1].is = "bad"
  <2>1. Bad(Stream, 1)
    BY <1>1, <1>2 DEF Phase, Asked, Own
  <2>2. 1 \in 1 .. Len(Stream)
    BY <1>2
  <2> QED
    BY <2>1, <2>2 DEF Bad
<1>5. TypeOK'
  <2>1. retries' \in 0 .. 1 /\ pc' \in {"open", "failed"}
    BY <1>1 DEF TypeOK, TryAgain
  <2> QED
    BY <1>1, <1>2, <2>1 DEF TypeOK
<1>6. Phase'
  BY <1>3, <1>4, <1>5 DEF Phase, Over, Bad, TryAgain
<1>7. Excuses'
  <2>1. retries = 1 => excused
    <3>1. 1 \in 1 .. Len(Stream)
      BY <1>2
    <3> QED
      BY <1>1, <1>4, <3>1 DEF Excuses
  <2>2. ~TryAgain(retries) => retries = 1
    BY <1>1 DEF TypeOK, TryAgain
  <2> QED
    BY <2>1, <2>2 DEF Excuses, Dead
<1>8. Groups'
  BY <1>1, <1>3 DEF Groups, Group
<1>9. Pages' /\ LinksMeetPage' /\ Listing'
  BY <1>1 DEF Pages, LinksMeetPage, Listing, Known, Current, Fit
<1> QED
  BY <1>1, <1>5, <1>6, <1>7, <1>8, <1>9 DEF Inv, OwnReply

\* A good reply is the host's own, and the text that belongs to it follows.
LEMMA ReplyGood ==
  ASSUME Inv, pc = "reply", NEW r \in NextItem, r.item # None, r.item.is = "good",
         buffer' = r.buffer, said' = r.said, Accepted(r.item), own' = (own /\ r.item.own),
         UNCHANGED <<group, link, todo, wanted, retries, seen, missed, excused>>
  PROVE  Inv'
<1> USE Numbers
<1>1. TypeOK /\ Phase /\ Excuses /\ Groups /\ Pages /\ Listing /\ own = TRUE /\ page = None
  BY DEF Inv, OwnReply, Pages
<1>2. /\ buffer' \in Seq(Items) /\ said' \in Seq(Items)
      /\ Len(Stream) >= 1 /\ Len(Stream) \in Nat /\ Len(Stream') = Len(Stream) - 1
      /\ \A i \in 1 .. Len(Stream) - 1 : Stream'[i] = Stream[i + 1]
      /\ r.item = Stream[1] /\ r.item \in Items
  BY <1>1, ReadItem
<1>3. \A i \in 1 .. Len(Stream') : i + 1 \in 1 .. Len(Stream) /\ Stream'[i] = Stream[i + 1]
  BY <1>2
<1>4. /\ link \in {"up", "down"} /\ r.item.own
      /\ wanted = Article => HeaderAt(Stream, 2)
      /\ wanted = List => BodyAt(Stream, 2)
      /\ wanted \in Ranges => Over(Stream, 2) /\ Reaches(r.item)
  <2>1. Asked(Stream, "command") /\ 1 \in 1 .. Len(Stream)
    BY <1>1, <1>2 DEF Phase
  <2> QED
    BY <1>2, <2>1 DEF Asked, Own, Bad
<1>5. /\ Over(Stream, 2) => Over(Stream, 1)'
      /\ BodyAt(Stream, 2) => BodyAt(Stream, 1)'
      /\ HeaderAt(Stream, 2) => HeaderAt(Stream, 1)'
  <2>1. 1 \in Nat /\ 1 >= 1 /\ 1 + 1 = 2
    OBVIOUS
  <2> QED
    BY <1>2, <2>1, Shifted
<1>6. Groups'
  BY <1>1, <1>3 DEF Groups, Group
<1>7. own' = TRUE
  BY <1>1, <1>4
<1>8. Excuses'
  <2>1. link # "stdin"
    BY <1>4
  <2> QED
    BY <1>1, <2>1 DEF Excuses, Accepted
<1>9. CASE wanted = Article \/ wanted = List
  <2>1. /\ UNCHANGED <<art, page>>
        /\ pc' = IF wanted = Article THEN "header" ELSE "LIST"
    BY <1>9 DEF Accepted
  <2>2. TypeOK'
    BY <1>1, <1>2, <1>7, <1>9, <2>1 DEF TypeOK
  <2>3. Phase'
    BY <1>4, <1>5, <1>9, <2>1 DEF Phase
  <2>4. Pages' /\ LinksMeetPage' /\ Listing'
    BY <1>1, <1>9, <2>1 DEF Pages, LinksMeetPage, Listing, Known, Current, Fit
  <2> QED
    BY <1>6, <1>7, <1>8, <2>2, <2>3, <2>4 DEF Inv, OwnReply
<1>10. CASE wanted \in Ranges
  <2> DEFINE chunk == Chunk(wanted, r.item.first, r.item.last)
  <2>1. /\ page' = chunk
        /\ pc' = IF chunk = None THEN "idle" ELSE "head"
        /\ art' = IF chunk = None THEN art ELSE chunk.from
    BY <1>10 DEF Accepted
  <2>2. Phase'
    BY <1>4, <1>5, <1>10, <2>1 DEF Phase
  <2>3. Asks(wanted, r.item.first, r.item.last) /\ r.item.last <= group.last
    <3>1. Group(r.item) /\ r.item.last <= group.last
      BY <1>1, <1>2 DEF Groups
    <3> QED
      BY <1>1, <1>2, <1>10, <3>1 DEF Asks, Group, Pages, Fit, Items
  <2>4. CASE chunk = None
    <3>1. TypeOK'
      BY <1>1, <1>2, <1>7, <2>1, <2>4 DEF TypeOK
    <3>2. Pages' /\ LinksMeetPage' /\ Listing'
      BY <1>1, <1>10, <2>1, <2>4 DEF Pages, LinksMeetPage, Listing, Known, Current, Fit
    <3> QED
      BY <1>6, <1>7, <1>8, <2>2, <3>1, <3>2 DEF Inv, OwnReply
  <2>5. CASE chunk # None
    <3>1. PICK low, high :
             /\ low = IF wanted.from >= r.item.first THEN wanted.from ELSE r.item.first
             /\ high = IF wanted.to = 0 \/ wanted.to > r.item.last THEN r.item.last ELSE wanted.to
             /\ r.item.last # 0 /\ low < high
      BY <2>3, <2>5, ShownChunk
    <3>2. /\ chunk \in Shown
          /\ chunk.first = r.item.first /\ chunk.last = r.item.last /\ r.item.first = 1
          /\ chunk.to = high
          /\ r.item.first <= chunk.from /\ chunk.from <= chunk.to /\ chunk.to <= chunk.last
          /\ chunk.earlier = None => chunk.from = r.item.first
          /\ chunk.earlier # None => chunk.earlier.to = chunk.from - 1 /\ chunk.from > r.item.first
          /\ Fit(chunk.earlier) /\ Fit(chunk.later)
      BY <2>3, <3>1, ChunkFacts
    <3>3. LinksMeetPage'
      <4>1. /\ chunk.earlier # None =>
                 LET there == Chunk(chunk.earlier, chunk.first, chunk.last)
                 IN there # None /\ there.to = chunk.from - 1
            /\ chunk.later # None /\ chunk.to + 1 < chunk.last =>
                 LET there == Chunk(chunk.later, chunk.first, chunk.last)
                 IN there # None /\ chunk.to + 1 \in there.from .. there.to
        BY <2>3, <2>5, ChunkMeets
      <4> HIDE DEF chunk
      <4> QED
        BY <2>1, <4>1 DEF LinksMeetPage
    <3> HIDE DEF chunk
    <3>4. /\ page' = chunk /\ pc' = "head" /\ art' = chunk.from
      BY <2>1, <2>5
    <3>5. /\ chunk.from \in 0 .. Newest /\ chunk.to \in 0 .. Newest /\ chunk.last \in 0 .. Newest
          /\ chunk.first \in 0 .. Newest /\ group.last \in 0 .. Newest
          /\ wanted.to \in Nat /\ r.item.last \in 0 .. Newest
      BY <1>1, <1>2, <1>10, <3>2 DEF Shown, TypeOK, Ranges, Items
    <3>6. TypeOK'
      <4>1. art' \in 0 .. Newest + 1
        BY <3>4, <3>5
      <4> QED
        BY <1>1, <1>2, <1>7, <3>2, <3>4, <4>1 DEF TypeOK
    <3>7. Pages'
      <4>1. Page(page)'
        <5>1. Group(chunk)
          BY <2>3, <3>2 DEF Group, Asks
        <5>2. wanted = WholeGroup => chunk.to = chunk.last
          BY <3>1, <3>2
        <5> QED
          BY <1>10, <2>3, <3>2, <3>4, <3>5, <5>1, <5>2 DEF Page, Group
      <4>2. Fit(wanted)'
        BY <1>1 DEF Pages, Fit
      <4> QED
        BY <3>2, <3>4, <3>5, <4>1, <4>2 DEF Pages
    <3>8. Listing'
      <4>1. ASSUME seen # None
            PROVE  \E m \in Articles :
                     chunk.to <= m /\ Known = (chunk.from .. chunk.from - 1) \cup (chunk.to + 1 .. m)
        <5>1. CASE wanted = WholeGroup /\ Known = {}
          <6>1. /\ chunk.from .. chunk.from - 1 = {} /\ chunk.to + 1 .. chunk.to = {}
                /\ chunk.to \in Articles /\ chunk.to <= chunk.to
            BY <3>5
          <6> QED
            BY <5>1, <6>1
        <5>2. CASE /\ 0 < wanted.to /\ wanted.to <= group.last
                   /\ \E m \in Articles : wanted.to < m /\ Known = wanted.to + 1 .. m
          <6>1. chunk.to = wanted.to
            BY <1>4, <1>10, <3>1, <3>2, <3>5, <4>1, <5>2 DEF Reaches
          <6> QED
            BY <3>5, <5>2, <6>1
        <5> QED
          BY <1>1, <1>10, <4>1, <5>1, <5>2 DEF Listing
      <4>2. ListedTo' = chunk.from - 1 /\ Known' = Known
        BY <3>4 DEF ListedTo, Known
      <4>3. seen # None => seen \cap missed = {}
        BY <1>1 DEF Listing
      <4> QED
        BY <3>4, <4>1, <4>2, <4>3 DEF Listing, Current
    <3> QED
      BY <1>6, <1>7, <1>8, <2>2, <3>3, <3>6, <3>7, <3>8 DEF Inv, OwnReply
  <2> QED
    BY <2>4, <2>5
<1> QED
  BY <1>1, <1>9, <1>10 DEF TypeOK

\* The reply to a command, and where it leads.
LEMMA ReplyInv == ASSUME Inv, Reply PROVE Inv'
<1>1. /\ pc = "reply" /\ UNCHANGED <<group, wanted, seen, missed>> /\ excused \in BOOLEAN
  BY DEF Reply, Inv, TypeOK
<1>2. PICK r \in NextItem :
        /\ buffer' = r.buffer
        /\ excused' = (excused \/ (r.item = None /\ said # <<>>))
        /\ CASE r.item = None ->
                 /\ pc' = "failed" /\ said' = r.said /\ Stay
                 /\ UNCHANGED <<retries, art, page, own>>
            [] r.item # None /\ r.item.is = "good" ->
                 /\ Accepted(r.item) /\ said' = r.said /\ Stay
                 /\ own' = (own /\ r.item.own) /\ UNCHANGED retries
            [] OTHER ->
                 /\ Close
                 /\ IF TryAgain(retries) THEN retries' = retries + 1 /\ pc' = "open"
                                         ELSE retries' = retries /\ pc' = "failed"
                 /\ UNCHANGED <<art, page, own>>
  BY DEF Reply
<1>3. CASE r.item = None
  BY <1>1, <1>2, <1>3, ReplyEnd DEF Stay
<1>4. CASE r.item # None /\ r.item.is = "good"
  BY <1>1, <1>2, <1>4, ReplyGood DEF Stay
<1>5. CASE r.item # None /\ r.item.is # "good"
  BY <1>1, <1>2, <1>5, ReplyRefused DEF Close
<1> QED
  BY <1>3, <1>4, <1>5

-----------------------------------------------------------------------------
(* Texts.                                                                  *)

\* A line of a text is the host's own, and the text ends with its dot.
LEMMA TextLine ==
  ASSUME Inv, pc \in {"header", "body", "LIST", "fields"}, NEW r \in NextItem, r.item # None,
         buffer' = r.buffer, said' = r.said, own' = (own /\ r.item.own),
         UNCHANGED <<group, link, todo, wanted, retries, page, missed, excused>>,
         pc = "header" => pc' = AfterHeader(r.item.is),
         pc # "header" => pc' = IF r.item.is # "dot" THEN pc
                                ELSE IF pc = "fields" THEN "head" ELSE "idle",
         art' = IF pc = "fields" /\ r.item.is = "dot" THEN art + 1 ELSE art,
         seen' = IF pc = "fields" /\ r.item.is = "dot" /\ seen # None THEN seen \cup {art} ELSE seen
  PROVE  Inv'
<1>1. TypeOK /\ Phase /\ Excuses /\ Groups /\ Pages /\ LinksMeetPage /\ Listing /\ own = TRUE
  BY DEF Inv, OwnReply
<1>2. /\ buffer' \in Seq(Items) /\ said' \in Seq(Items)
      /\ Len(Stream) >= 1 /\ Len(Stream) \in Nat /\ Len(Stream') = Len(Stream) - 1
      /\ \A i \in 1 .. Len(Stream) - 1 : Stream'[i] = Stream[i + 1]
      /\ r.item = Stream[1] /\ r.item \in Items
  BY <1>1, ReadItem
<1>3. \A i \in 1 .. Len(Stream') : i + 1 \in 1 .. Len(Stream) /\ Stream'[i] = Stream[i + 1]
  BY <1>2
<1>4. \/ /\ pc = "header" /\ r.item.is = "blank" /\ r.item.own /\ BodyAt(Stream, 2)
      \/ r.item.is = "dot" /\ r.item.own /\ Over(Stream, 2)
  BY <1>1, <1>2 DEF Phase, HeaderAt, BodyAt, Awaited, Own
<1>5. /\ Over(Stream, 2) => Over(Stream, 1)'
      /\ BodyAt(Stream, 2) => BodyAt(Stream, 1)'
  <2>1. 1 \in Nat /\ 1 >= 1 /\ 1 + 1 = 2
    OBVIOUS
  <2> QED
    BY <1>2, <2>1, Shifted
<1>6. \/ pc = "header" /\ pc' = "body" /\ BodyAt(Stream, 1)' /\ art' = art /\ seen' = seen
      \/ pc # "fields" /\ pc' = "idle" /\ Over(Stream, 1)' /\ art' = art /\ seen' = seen
      \/ /\ pc = "fields" /\ pc' = "head" /\ Over(Stream, 1)' /\ art' = art + 1
         /\ seen' = IF seen # None THEN seen \cup {art} ELSE seen
  BY <1>4, <1>5 DEF AfterHeader
<1>7. pc = "header" => wanted = Article
  BY <1>1 DEF Phase
<1>8. pc # "fields" => page = None
  BY <1>1 DEF Pages
<1>9. Phase'
  BY <1>6, <1>7 DEF Phase
<1>10. Groups'
  BY <1>1, <1>3 DEF Groups, Group
<1>11. Excuses'
  <2>1. link # "stdin"
    BY <1>1, <1>2 DEF Excuses
  <2> QED
    BY <1>6, <2>1 DEF Excuses
<1>12. CASE pc # "fields"
  <2>1. TypeOK' /\ own' = TRUE
    BY <1>1, <1>2, <1>4, <1>6, <1>12 DEF TypeOK
  <2>2. Pages' /\ LinksMeetPage' /\ Listing'
    BY <1>1, <1>6, <1>8, <1>12 DEF Pages, LinksMeetPage, Listing, Known, Current, Fit
  <2> QED
    BY <1>9, <1>10, <1>11, <2>1, <2>2 DEF Inv, OwnReply
<1>13. CASE pc = "fields"
  <2>0. /\ page # None /\ Page(page) /\ page.from <= art /\ Fit(wanted)
        /\ art <= page.to + 0
    BY <1>1, <1>13 DEF Pages
  <2>a. page \in Shown
    BY <1>1, <2>0 DEF TypeOK
  <2>2. page.from \in 0 .. Newest /\ page.to \in 0 .. Newest /\ art \in Nat
    BY <1>1, <2>a, Numbers DEF Shown, TypeOK
  <2>1. /\ page \in Shown /\ Page(page) /\ page.from <= art /\ art <= page.to /\ Fit(wanted)
        /\ page # None
    BY <2>0, <2>a, <2>2
  <2>3. TypeOK' /\ own' = TRUE
    <3>1. art' \in 0 .. Newest + 1 /\ art \in Articles
      BY <1>6, <1>13, <2>1, <2>2, Numbers
    <3>2. seen' \in (SUBSET Articles) \cup {None}
      BY <1>1, <1>6, <1>13, <3>1 DEF TypeOK
    <3> QED
      BY <1>1, <1>2, <1>4, <1>6, <1>13, <3>1, <3>2 DEF TypeOK
  <2>4. Pages' /\ LinksMeetPage'
    <3>1. Page(page)'
      BY <2>1 DEF Page, Group, Fit
    <3>2. page.from <= art' /\ art' <= page.to + 1
      BY <1>6, <1>13, <2>1, <2>2
    <3> QED
      BY <1>1, <1>6, <1>13, <2>1, <3>1, <3>2 DEF Pages, LinksMeetPage, Fit
  <2>5. Listing'
    <3>1. ListedTo' = ListedTo /\ pc' = "head"
      BY <1>6, <1>13, <2>2 DEF ListedTo
    <3>2. seen' # None => seen # None
      BY <1>6, <1>13
    <3>3. ASSUME seen # None
          PROVE  Known' = Known /\ (seen \cap missed)' = {}
      <4>1. seen' = seen \cup {art} /\ missed' = missed
        BY <1>6, <1>13, <3>3
      <4>2. seen \cap missed = {} /\ art \notin missed
        BY <1>1, <1>13, <3>3 DEF Listing, Current
      <4> QED
        BY <1>13, <3>1, <4>1, <4>2 DEF Known
    <3> QED
      BY <1>1, <1>13, <3>1, <3>2, <3>3 DEF Listing, Current
  <2> QED
    BY <1>9, <1>10, <1>11, <2>3, <2>4, <2>5 DEF Inv, OwnReply
<1> QED
  BY <1>12, <1>13

\* A line of an article or of the list.
LEMMA ReadTextInv == ASSUME Inv, read_text PROVE Inv'
<1>1. UNCHANGED <<group, link, todo, wanted, retries, art, page, seen, missed, excused>>
  BY DEF read_text, Stay
<1>2. ASSUME NEW after, ReadLine(after)
      PROVE  \E r \in NextItem : /\ r.item # None /\ buffer' = r.buffer /\ said' = r.said
                                /\ own' = (own /\ r.item.own) /\ pc' = after[r.item.is]
                                /\ r.item.is \in Lines
  <2>1. TypeOK
    BY DEF Inv
  <2>2. PICK r \in NextItem : /\ r.item # None /\ buffer' = r.buffer /\ said' = r.said
                              /\ own' = (own /\ r.item.own) /\ pc' = after[r.item.is]
    BY <1>2 DEF ReadLine
  <2>3. r.item \in Items
    BY <2>1, <2>2, ReadItem
  <2>4. r.item.is \in Lines
    BY <2>3 DEF Items
  <2> QED
    BY <2>2, <2>4
<1>3. CASE pc = "header" /\ ReadLine([line \in Lines |-> AfterHeader(line)])
  <2>1. PICK r \in NextItem : /\ r.item # None /\ buffer' = r.buffer /\ said' = r.said
                              /\ own' = (own /\ r.item.own) /\ pc' = AfterHeader(r.item.is)
    BY <1>2, <1>3
  <2> QED
    BY <1>1, <1>3, <2>1, TextLine
<1>4. CASE /\ pc = "header" /\ \E r \in NextItem : r.item = None
           /\ pc' = "body" /\ UNCHANGED <<buffer, said, own>>
  <2>1. TypeOK /\ Phase /\ Excuses /\ Groups /\ Pages /\ Listing /\ own = TRUE /\ page = None
    BY <1>4 DEF Inv, OwnReply, Pages
  <2>2. Ended /\ buffer = <<>> /\ Len(Stream) = Len(said)
    BY <1>4, <2>1, ReadEnd
  <2>3. Stream' = Stream
    BY <1>4 DEF Stream
  <2>4. wanted = Article /\ HeaderAt(Stream, 1)
    BY <1>4, <2>1 DEF Phase
  <2>5. link = "down" /\ said = <<>>
    BY <2>2, <2>4 DEF HeaderAt, Ended
  <2>6. Len(Stream) = 0
    BY <2>2, <2>5
  <2>7. Phase'
    BY <1>1, <1>4, <2>3, <2>4, <2>5, <2>6 DEF Phase, BodyAt, Awaited
  <2>8. TypeOK' /\ Excuses' /\ Groups'
    BY <1>1, <1>4, <2>1, <2>3, <2>5 DEF TypeOK, Excuses, Groups, Group
  <2>9. Pages' /\ LinksMeetPage' /\ Listing'
    BY <1>1, <1>4, <2>1 DEF Pages, LinksMeetPage, Listing, Known, Current, Fit
  <2> QED
    BY <1>4, <2>1, <2>7, <2>8, <2>9 DEF Inv, OwnReply
<1>5. CASE pc = "body" /\ ReadLine(UpToDot("body", "idle"))
  <2>1. PICK r \in NextItem : /\ r.item # None /\ buffer' = r.buffer /\ said' = r.said
                              /\ own' = (own /\ r.item.own)
                              /\ pc' = IF r.item.is = "dot" THEN "idle" ELSE "body"
    BY <1>2, <1>5 DEF UpToDot
  <2> QED
    BY <1>1, <1>5, <2>1, TextLine
<1>6. CASE pc = "LIST" /\ ReadLine(UpToDot("LIST", "idle"))
  <2>1. PICK r \in NextItem : /\ r.item # None /\ buffer' = r.buffer /\ said' = r.said
                              /\ own' = (own /\ r.item.own)
                              /\ pc' = IF r.item.is = "dot" THEN "idle" ELSE "LIST"
    BY <1>2, <1>6 DEF UpToDot
  <2> QED
    BY <1>1, <1>6, <2>1, TextLine
<1> QED
  BY <1>3, <1>4, <1>5, <1>6 DEF read_text, ReadHeader, ReadBody, ReadList

\* A line of the header of an article of a page.
LEMMA ReadFieldsInv == ASSUME Inv, ReadFields PROVE Inv'
<1>1. /\ pc = "fields" /\ ReadLine(UpToDot("fields", "head"))
      /\ art' = IF pc' = "head" THEN art + 1 ELSE art
      /\ seen' = IF pc' = "head" /\ seen # None THEN seen \cup {art} ELSE seen
      /\ UNCHANGED <<group, link, todo, wanted, retries, page, missed, excused>>
  BY DEF ReadFields, Stay
<1>2. TypeOK
  BY DEF Inv
<1>3. PICK r \in NextItem :
        /\ r.item # None /\ buffer' = r.buffer /\ said' = r.said
        /\ own' = (own /\ r.item.own) /\ pc' = UpToDot("fields", "head")[r.item.is]
  BY <1>1 DEF ReadLine
<1>4. r.item \in Items
  BY <1>2, <1>3, ReadItem
<1>5. pc' = IF r.item.is = "dot" THEN "head" ELSE "fields"
  BY <1>3, <1>4 DEF Items, UpToDot
<1> QED
  BY <1>1, <1>3, <1>5, TextLine

-----------------------------------------------------------------------------
(* The articles of a page.                                                 *)

\* A page and its next article are in the bounds of the group.
LEMMA PageFacts ==
  ASSUME TypeOK, Pages, page # None
  PROVE  /\ page \in Shown /\ Page(page) /\ Fit(wanted)
         /\ page.from \in Nat /\ page.to \in 0 .. Newest /\ page.last \in Nat /\ art \in Nat
         /\ page.from <= page.to
         /\ pc \in {"HEAD", "fields"} => page.from <= art /\ art <= page.to
         /\ pc = "head" => page.from <= art /\ art <= page.to + 1
<1>1. page \in Shown /\ Page(page) /\ Fit(wanted) /\ art \in 0 .. Newest + 1
  BY DEF TypeOK, Pages
<1>2. page.from \in 0 .. Newest /\ page.to \in 0 .. Newest /\ page.last \in 0 .. Newest
  BY <1>1, Numbers DEF Shown
<1>3. pc \in {"HEAD", "fields"} => page.from <= art /\ art <= page.to + 0
  BY DEF Pages
<1>4. pc = "head" => page.from <= art /\ art <= page.to + 1
  BY DEF Pages
<1> QED
  BY <1>1, <1>2, <1>3, <1>4, Numbers DEF Page

\* The header of the next article of a page is asked for.
LEMMA HeadCommandInv == ASSUME Inv, HeadCommand PROVE Inv'
<1> USE Numbers
<1>1. /\ TypeOK /\ Phase /\ Excuses /\ Groups /\ Pages /\ LinksMeetPage /\ Listing
      /\ own = TRUE /\ pc = "head" /\ page # None /\ Over(Stream, 1) /\ art <= page.to
      /\ UNCHANGED <<group, wanted, retries, art, page, seen, own, excused>>
      /\ buffer' = Older(buffer)
      /\ missed' = IF link # "up" /\ seen # None THEN missed \cup {art} ELSE missed
  BY DEF Inv, OwnReply, HeadCommand, Phase, Pages, Miss
<1>2. /\ pc' = IF link = "reset" THEN "killed" ELSE "HEAD"
      /\ todo' = IF link = "up" THEN Append(todo, "HEAD") ELSE todo
      /\ link' = IF link = "down" THEN "reset" ELSE link
      /\ said' = Older(said)
  BY DEF HeadCommand, Send
<1>3. /\ buffer' \in Seq(Items) /\ said' \in Seq(Items)
      /\ Stream' \in Seq(Items) /\ Len(Stream') = Len(Stream)
      /\ \A i \in 1 .. Len(Stream) :
           /\ Stream'[i].is = Stream[i].is
           /\ Stream'[i].first = Stream[i].first /\ Stream'[i].last = Stream[i].last
  BY <1>1, <1>2, Aging
<1>4. /\ page \in Shown /\ Page(page) /\ Fit(wanted)
      /\ page.from \in Nat /\ page.to \in 0 .. Newest /\ art \in Nat
      /\ page.from <= art /\ art <= page.to
  BY <1>1, PageFacts
<1>5. TypeOK'
  <2>1. todo' \in Seq({"greeting", "command", "HEAD", "text", "body"})
    BY <1>1, <1>2 DEF TypeOK
  <2>2. pc' \in {"killed", "HEAD"} /\ link' \in {"none", "stdin", "up", "down", "reset"}
    BY <1>1, <1>2 DEF TypeOK
  <2>3. art \in Articles
    BY <1>4
  <2>4. missed' \in SUBSET Articles
    BY <1>1, <2>3 DEF TypeOK
  <2> QED
    BY <1>1, <1>3, <2>1, <2>2, <2>4 DEF TypeOK
<1>6. Stream \in Seq(Items)
  BY <1>1, StreamFacts
<1>7. Bad(Stream, 1)' /\ (Stream = <<>> <=> Stream' = <<>>)
  <2>1. Bad(Stream, 1)'
    BY <1>1, <1>3 DEF Over, Bad
  <2>2. Stream = <<>> <=> Stream' = <<>>
    BY <1>3, <1>6
  <2> QED
    BY <2>1, <2>2
<1>8. link' = "up" => Stream' = <<>> /\ todo' = <<"HEAD">>
  <2>1. link' = "up" => link = "up" /\ todo = <<>> /\ Stream = <<>>
    BY <1>1, <1>2, <1>6 DEF Over
  <2>2. Append(<<>>, "HEAD") = <<"HEAD">>
    OBVIOUS
  <2> QED
    BY <1>2, <1>7, <2>1, <2>2
<1>9. Phase'
  BY <1>2, <1>7, <1>8 DEF Phase, Asked
<1>10. Excuses'
  <2>1. link' = "stdin" => Stream' = <<>>
    BY <1>1, <1>2, <1>7 DEF Excuses
  <2> QED
    BY <1>1, <1>2, <2>1 DEF Excuses
<1>11. Groups'
  BY <1>1, <1>3 DEF Groups, Group
<1>12. Pages' /\ LinksMeetPage'
  <2>1. Page(page)'
    BY <1>1, <1>4 DEF Page, Group, Fit
  <2>2. page' # None /\ Fit(wanted)' /\ page'.from <= art' /\ art' <= page'.to + 0
    BY <1>1, <1>4 DEF Fit
  <2>3. LinksMeetPage'
    BY <1>1 DEF LinksMeetPage
  <2> QED
    BY <1>2, <2>1, <2>2, <2>3 DEF Pages
<1>13. Listing'
  <2>1. ASSUME seen # None
        PROVE  /\ (seen \cap missed)' = {} /\ Current'
               /\ pc' = "HEAD" =>
                    \E m \in Articles :
                      page.to <= m /\ Known' = (page.from .. art) \cup (page.to + 1 .. m)
    <3>1. PICK m \in Articles :
            page.to <= m /\ seen \cup missed = (page.from .. art - 1) \cup (page.to + 1 .. m)
      BY <1>1, <2>1 DEF Listing, ListedTo, Known
    <3>2. (page.from .. art - 1) \cup {art} = page.from .. art
      BY <1>4
    <3>3. art \notin seen \cup missed
      BY <1>4, <3>1
    <3>4. seen \cap missed = {}
      BY <1>1, <2>1 DEF Listing
    <3>5. pc' = "HEAD" => Known' = seen \cup missed \cup {art}
      BY <1>1 DEF Known
    <3>6. Promised' <=> link = "up"
      <4>1. CASE link = "up"
        BY <1>2, <1>8, <4>1 DEF Promised
      <4>2. CASE link # "up"
        <5>1. link' # "up"
          BY <1>2, <4>2
        <5>2. ~Own(Stream, 1, "good")'
          <6>1. Len(Stream)' \in Nat
            BY <1>3
          <6> QED
            BY <1>7, <6>1 DEF Own, Bad
        <5> QED
          BY <4>2, <5>1, <5>2 DEF Promised
      <4> QED
        BY <4>1, <4>2
    <3>7. Current'
      BY <1>1, <1>2, <2>1, <3>3, <3>6 DEF Current
    <3> QED
      BY <1>1, <2>1, <3>1, <3>2, <3>3, <3>4, <3>5, <3>7
  <2>2. pc' = "HEAD" => ListedTo' = art
    BY <1>1 DEF ListedTo
  <2> QED
    BY <1>1, <1>2, <2>1, <2>2 DEF Listing
<1> QED
  BY <1>1, <1>5, <1>9, <1>10, <1>11, <1>12, <1>13 DEF Inv, OwnReply

\* The header of an article is the host's own; if it refuses, or is gone, the
\* article is passed over.
LEMMA HeadReplyInv == ASSUME Inv, HeadReply PROVE Inv'
<1> USE Numbers
<1>1. /\ TypeOK /\ Phase /\ Excuses /\ Groups /\ Pages /\ LinksMeetPage /\ Listing
      /\ own = TRUE /\ pc = "HEAD" /\ page # None /\ Asked(Stream, "HEAD")
      /\ UNCHANGED <<group, link, todo, wanted, retries, page, seen, missed, excused>>
  BY DEF Inv, OwnReply, HeadReply, Phase, Pages, Stay
<1>2. PICK r \in NextItem :
        /\ buffer' = r.buffer /\ said' = r.said
        /\ IF r.item # None /\ r.item.is = "good"
           THEN pc' = "fields" /\ own' = (own /\ r.item.own) /\ UNCHANGED art
           ELSE pc' = "head" /\ art' = art + 1 /\ UNCHANGED own
  BY DEF HeadReply
<1>3. /\ page \in Shown /\ Page(page) /\ Fit(wanted)
      /\ page.from \in Nat /\ page.to \in 0 .. Newest /\ art \in Nat
      /\ page.from <= art /\ art <= page.to
  BY <1>1, PageFacts
<1>4. Page(page)' /\ Fit(wanted)' /\ LinksMeetPage'
  BY <1>1, <1>3 DEF Page, Group, Fit, LinksMeetPage
<1>5. ASSUME pc' = "fields" <=> Promised
      PROVE  Pages' /\ Listing' /\ art' \in 0 .. Newest + 1
  <2>0. seen # None => /\ seen \cap missed = {} /\ art \notin seen
                       /\ art \in missed <=> ~Promised
    BY <1>1 DEF Listing, Current
  <2>1. CASE pc' = "fields" /\ art' = art
    <3>1. ListedTo' = ListedTo /\ Known' = Known
      BY <1>1, <2>1 DEF ListedTo, Known
    <3>2. Listing'
      BY <1>1, <1>5, <2>0, <2>1, <3>1 DEF Listing, Current
    <3>3. Pages'
      BY <1>1, <1>3, <1>4, <2>1 DEF Pages
    <3> QED
      BY <1>3, <2>1, <3>2, <3>3
  <2>2. CASE pc' = "head" /\ art' = art + 1
    <3>1. ListedTo' = ListedTo
      BY <1>1, <1>3, <2>2 DEF ListedTo
    <3>a. seen # None => Known' = Known
      BY <1>1, <1>5, <2>0, <2>2 DEF Known
    <3>2. Listing'
      BY <1>1, <2>0, <2>2, <3>1, <3>a DEF Listing, Current
    <3>3. Pages'
      BY <1>1, <1>3, <1>4, <2>2 DEF Pages
    <3> QED
      BY <1>3, <2>2, <3>2, <3>3
  <2> QED
    BY <1>2, <2>1, <2>2
<1>6. CASE r.item = None
  <2>1. /\ Ended /\ buffer = <<>> /\ r.buffer = buffer /\ r.said = said
        /\ Len(Stream) = Len(said) /\ (said = <<>> <=> Stream = <<>>)
    BY <1>1, <1>6, ReadEnd
  <2>2. UNCHANGED <<buffer, said>> /\ Stream' = Stream
    BY <1>2, <2>1 DEF Stream
  <2>3. Bad(Stream, 1) /\ link # "up"
    <3>1. link = "down" => Len(said) = 0
      BY <2>1 DEF Ended
    <3> QED
      BY <1>1, <2>1, <3>1 DEF Asked, Own, Ended
  <2>a. ~Promised
    <3>1. Len(Stream) \in Nat
      BY <1>1, StreamFacts
    <3> QED
      BY <2>3, <3>1 DEF Promised, Own, Bad
  <2>b. Pages' /\ Listing' /\ art' \in 0 .. Newest + 1
    BY <1>2, <1>5, <1>6, <2>a
  <2>4. TypeOK'
    BY <1>1, <1>2, <1>6, <2>2, <2>b DEF TypeOK
  <2>5. Phase'
    BY <1>1, <1>2, <1>6, <2>2, <2>3 DEF Phase, Over, Bad
  <2>6. Excuses' /\ Groups'
    BY <1>1, <1>2, <1>6, <2>2 DEF Excuses, Groups, Group
  <2> QED
    BY <1>1, <1>2, <1>4, <1>6, <2>4, <2>5, <2>6, <2>b DEF Inv, OwnReply
<1>7. CASE r.item # None
  <2>1. /\ buffer' \in Seq(Items) /\ said' \in Seq(Items)
        /\ Len(Stream) >= 1 /\ Len(Stream) \in Nat /\ Len(Stream') = Len(Stream) - 1
        /\ \A i \in 1 .. Len(Stream) - 1 : Stream'[i] = Stream[i + 1]
        /\ r.item = Stream[1] /\ r.item \in Items
    BY <1>1, <1>2, <1>7, ReadItem
  <2>2. \A i \in 1 .. Len(Stream') : i + 1 \in 1 .. Len(Stream) /\ Stream'[i] = Stream[i + 1]
    BY <2>1
  <2>3. /\ Over(Stream, 2) => Over(Stream, 1)'
        /\ BodyAt(Stream, 2) => BodyAt(Stream, 1)'
    <3>1. 1 \in Nat /\ 1 >= 1 /\ 1 + 1 = 2
      OBVIOUS
    <3> QED
      BY <1>1, <2>1, <3>1, Shifted
  <2>4. \/ r.item.is = "good" /\ r.item.own /\ BodyAt(Stream, 2)
        \/ r.item.is = "bad" /\ Over(Stream, 2)
    <3>1. CASE Bad(Stream, 1) /\ (link = "up" => \/ Stream = <<>> /\ todo = <<"HEAD">>
                                                 \/ Len(Stream) = 1 /\ todo = <<>>)
      <4>1. 1 \in 1 .. Len(Stream) /\ Stream # <<>>
        BY <2>1
      <4> QED
        BY <2>1, <3>1, <4>1 DEF Over, Bad
    <3>2. CASE Own(Stream, 1, "good") /\ BodyAt(Stream, 2)
      BY <2>1, <3>2 DEF Own
    <3>3. Asked(Stream, "HEAD")
      BY <1>1
    <3> QED
      BY <3>1, <3>2, <3>3 DEF Asked
  <2>5. \/ pc' = "fields" /\ BodyAt(Stream, 1)' /\ own' = TRUE
        \/ pc' = "head" /\ Over(Stream, 1)' /\ own' = TRUE
    BY <1>1, <1>2, <1>7, <2>3, <2>4
  <2>a. Promised <=> r.item.is = "good"
    <3>1. Stream # <<>>
      BY <2>1
    <3> QED
      BY <2>1, <2>4, <3>1 DEF Promised, Own
  <2>b. Pages' /\ Listing' /\ art' \in 0 .. Newest + 1
    BY <1>2, <1>5, <1>7, <2>a
  <2>6. TypeOK'
    BY <1>1, <2>1, <2>5, <2>b DEF TypeOK
  <2>7. Phase'
    BY <2>5 DEF Phase
  <2>8. Excuses'
    <3>1. link # "stdin"
      BY <1>1, <2>1 DEF Excuses
    <3> QED
      BY <1>1, <2>5, <3>1 DEF Excuses
  <2>9. Groups'
    BY <1>1, <2>2 DEF Groups, Group
  <2> QED
    BY <1>4, <2>5, <2>6, <2>7, <2>8, <2>9, <2>b DEF Inv, OwnReply
<1> QED
  BY <1>6, <1>7

\* A page is shown when its last article has been listed.
LEMMA EndGroupInv == ASSUME Inv, EndGroup PROVE Inv'
<1> USE Numbers
<1>1. /\ TypeOK /\ Phase /\ Excuses /\ Groups /\ Pages /\ LinksMeetPage /\ Listing
      /\ own = TRUE /\ pc = "head" /\ page # None /\ art > page.to /\ pc' = "idle"
      /\ UNCHANGED <<group, link, todo, said, buffer, wanted, retries, art, page, seen, missed, own, excused>>
  BY DEF Inv, OwnReply, EndGroup, Pages, host, history
<1>2. /\ page \in Shown /\ Page(page) /\ Fit(wanted)
      /\ page.from \in Nat /\ page.to \in 0 .. Newest /\ art \in Nat
      /\ page.from <= art /\ art <= page.to + 1
  BY <1>1, PageFacts
<1>3. Stream' = Stream /\ ListedTo' = ListedTo
  BY <1>1 DEF Stream, ListedTo
<1>4. TypeOK' /\ Excuses' /\ Groups' /\ LinksMeetPage'
  BY <1>1, <1>3 DEF TypeOK, Excuses, Groups, Group, LinksMeetPage
<1>5. Phase'
  BY <1>1, <1>3 DEF Phase, Over, Bad
<1>6. Pages'
  <2>1. Page(page)' /\ Fit(wanted)'
    BY <1>1, <1>2 DEF Page, Group, Fit
  <2>2. art = page.to + 1
    BY <1>1, <1>2
  <2> QED
    BY <1>1, <2>1, <2>2 DEF Pages
<1>7. Listing'
  <2>1. Known' = Known
    BY <1>1 DEF Known
  <2> QED
    BY <1>1, <1>3, <2>1 DEF Listing, Current
<1> QED
  BY <1>1, <1>4, <1>5, <1>6, <1>7 DEF Inv, OwnReply
-----------------------------------------------------------------------------
(* The host.                                                               *)

\* An article is posted, which is the last one from then on.
LEMMA PostInv == ASSUME Inv, Post PROVE Inv'
<1> USE Numbers
<1>1. /\ TypeOK /\ Phase /\ Excuses /\ Groups /\ Pages /\ LinksMeetPage /\ Listing /\ own = TRUE
      /\ group.last < Newest
      /\ group' = [first |-> Max({1, group.first}), last |-> group.last + 1]
      /\ UNCHANGED <<link, todo, said, buffer, pc, wanted, retries, art, page, seen, missed, own, excused>>
  BY DEF Inv, OwnReply, Post, client, history
<1>2. group.first \in 0 .. Newest /\ group.last \in 0 .. Newest /\ Group(group)
  BY <1>1 DEF TypeOK, Groups
<1>3. Max({1, group.first}) = 1
  BY <1>2, MaxOfTwo DEF Group
<1>4. /\ group' = [first |-> 1, last |-> group.last + 1] /\ group.last <= group'.last
      /\ 1 \in 0 .. Newest /\ group.last + 1 \in 0 .. Newest
  BY <1>1, <1>2, <1>3
<1>5. Stream' = Stream /\ ListedTo' = ListedTo
  BY <1>1 DEF Stream, ListedTo
<1>6. TypeOK'
  BY <1>1, <1>4 DEF TypeOK
<1>7. Phase' /\ Excuses' /\ LinksMeetPage'
  <2>1. Phase'
    BY <1>1, <1>5 DEF Phase, Over, Bad, Asked, Own, HeaderAt, BodyAt, Awaited, Reaches
  <2>2. Excuses' /\ LinksMeetPage'
    BY <1>1, <1>5 DEF Excuses, Dead, LinksMeetPage
  <2> QED
    BY <2>1, <2>2
<1>8. Groups'
  <2>1. Group(group)'
    BY <1>2, <1>4 DEF Group
  <2>2. \A i \in 1 .. Len(Stream) : Group(Stream[i]) /\ Stream[i].last <= group'.last
    <3>1. \A i \in 1 .. Len(Stream) : Stream[i].last \in Int
      BY <1>1, StreamFacts DEF Items
    <3> QED
      BY <1>1, <1>2, <1>4, <3>1 DEF Groups
  <2> QED
    BY <1>5, <2>1, <2>2 DEF Groups, Group
<1>9. Pages'
  <2>1. page # None => Page(page)'
    <3>1. page # None => page.last \in Int /\ Page(page)
      BY <1>1, PageFacts
    <3> QED
      BY <1>1, <1>2, <1>4, <3>1 DEF Page, Group, Fit
  <2> QED
    BY <1>1, <2>1 DEF Pages, Fit
<1>10. Listing'
  <2>1. wanted \in Ranges /\ wanted.to <= group.last => wanted.to <= group'.last
    BY <1>2, <1>4 DEF Ranges
  <2>2. Known' = Known /\ (Current => Current')
    BY <1>1, <1>5 DEF Known, Current, Promised, Own
  <2> QED
    BY <1>1, <1>5, <2>1, <2>2 DEF Listing
<1> QED
  BY <1>1, <1>6, <1>7, <1>8, <1>9, <1>10 DEF Inv, OwnReply

\* A line that tells of the group tells of it as it is.
LEMMA GroupItem ==
  ASSUME TypeOK, Groups, NEW is \in Lines, NEW mine \in BOOLEAN,
         NEW x, x = [is |-> is, own |-> mine, first |-> group.first, last |-> group.last]
  PROVE  /\ x \in Items /\ x.is = is /\ x.own = mine /\ Group(x) /\ x.last = group.last
         /\ x.last <= group.last
<1>1. group.first \in Articles /\ group.last \in Articles /\ group.last \in Int
  BY Numbers DEF TypeOK
<1> QED
  BY <1>1 DEF Items, Groups, Group

\* What the host says more is of the newsgroup as it is.
LEMMA GroupsSaying ==
  ASSUME TypeOK, Groups, NEW x \in Items, Group(x), x.last <= group.last,
         said' = Append(said, x), buffer' = buffer, group' = group
  PROVE  Groups'
<1>1. /\ Len(Stream) \in Nat /\ Len(Stream') = Len(Stream) + 1
      /\ \A i \in 1 .. Len(Stream) : Stream'[i] = Stream[i]
      /\ Stream'[Len(Stream) + 1] = x
  BY Saying, StreamFacts
<1>2. \A i \in 1 .. Len(Stream') : i \in 1 .. Len(Stream) \/ i = Len(Stream) + 1
  BY <1>1
<1>3. \A i \in 1 .. Len(Stream') : Group(Stream'[i]) /\ Stream'[i].last <= group.last
  BY <1>1, <1>2 DEF Groups
<1> QED
  BY <1>3 DEF Groups, Group

\* The notice comes when nothing is awaited.
LEMMA Noticed ==
  ASSUME TypeOK, link = "up", todo = <<>>, link' = "down",
         NEW x \in Items, x.is = "bad", said' = Append(said, x), buffer' = buffer,
         NEW n \in Nat, n >= 1
  PROVE  /\ Bad(Stream, n) => Bad(Stream, n)'
         /\ Over(Stream, n) => Over(Stream, n)'
         /\ BodyAt(Stream, n) => BodyAt(Stream, n)'
         /\ HeaderAt(Stream, n) => HeaderAt(Stream, n)'
<1>1. /\ Len(Stream) \in Nat /\ Len(Stream') = Len(Stream) + 1
      /\ \A i \in 1 .. Len(Stream) : Stream'[i] = Stream[i]
      /\ Stream'[Len(Stream) + 1] = x
  BY Saying, StreamFacts
<1>2. ASSUME NEW k \in Nat, k >= 1, Bad(Stream, k) PROVE Bad(Stream, k)'
  <2>1. \A i \in k .. Len(Stream') : Stream'[i].is = "bad"
    <3>1. \A i \in k .. Len(Stream') :
            (i \in 1 .. Len(Stream) /\ i \in k .. Len(Stream)) \/ i = Len(Stream) + 1
      BY <1>1, <1>2
    <3> QED
      BY <1>1, <1>2, <3>1 DEF Bad
  <2> QED
    BY <2>1 DEF Bad
<1>3. ASSUME NEW k \in Nat, k >= 1, NEW line, Own(Stream, k, line) PROVE Own(Stream, k, line)'
  <2>1. k \in 1 .. Len(Stream) /\ Len(Stream') >= k
    BY <1>1, <1>3 DEF Own
  <2> QED
    BY <1>1, <1>3, <2>1 DEF Own
<1>4. ASSUME NEW k \in Nat, k >= 1, BodyAt(Stream, k) PROVE BodyAt(Stream, k)'
  <2>1. Own(Stream, k, "dot") /\ Bad(Stream, k + 1)
    BY <1>4 DEF BodyAt, Awaited, Over
  <2>2. Own(Stream, k, "dot")' /\ Bad(Stream, k + 1)'
    BY <1>2, <1>3, <1>4, <2>1
  <2> QED
    BY <2>2 DEF BodyAt, Over
<1>5. ASSUME HeaderAt(Stream, n) PROVE HeaderAt(Stream, n)'
  <2>1. CASE Own(Stream, n, "blank") /\ BodyAt(Stream, n + 1)
    <3>1. Own(Stream, n, "blank")' /\ BodyAt(Stream, n + 1)'
      BY <1>3, <1>4, <2>1
    <3> QED
      BY <3>1 DEF HeaderAt
  <2>2. CASE Own(Stream, n, "dot") /\ Bad(Stream, n + 1)
    <3>1. Own(Stream, n, "dot")' /\ Bad(Stream, n + 1)'
      BY <1>2, <1>3, <2>2
    <3> QED
      BY <3>1 DEF HeaderAt, Over
  <2> QED
    BY <1>5, <2>1, <2>2 DEF HeaderAt, Awaited, Over
<1> QED
  BY <1>2, <1>4, <1>5 DEF Over

\* The host gives notice and closes.
LEMMA NoticeInv == ASSUME Inv, Notice PROVE Inv'
<1> USE Numbers
<1>1. /\ TypeOK /\ Phase /\ Excuses /\ Groups /\ Pages /\ LinksMeetPage /\ Listing /\ own = TRUE
      /\ link = "up" /\ todo = <<>> /\ link' = "down" /\ excused' = (excused \/ Loading)
      /\ said' = Append(said, [Item("bad") EXCEPT !.own = FALSE])
      /\ UNCHANGED <<group, todo, buffer, pc, wanted, retries, art, page, seen, missed, own>>
  BY DEF Inv, OwnReply, Notice, client
<1>2. PICK x : /\ x = [is |-> "bad", own |-> FALSE, first |-> group.first, last |-> group.last]
               /\ said' = Append(said, x)
  BY <1>1 DEF Item
<1>3. x \in Items /\ x.is = "bad" /\ Group(x) /\ x.last <= group.last
  <2>1. "bad" \in Lines
    BY DEF Lines
  <2> QED
    BY <1>1, <1>2, <2>1, GroupItem
<1>4. /\ buffer' \in Seq(Items) /\ said' \in Seq(Items)
      /\ Stream' \in Seq(Items) /\ Len(Stream') = Len(Stream) + 1 /\ Len(Stream) \in Nat
      /\ Len(said') = Len(said) + 1 /\ said'[Len(said) + 1] = x /\ Len(said) \in Nat
      /\ \A i \in 1 .. Len(said) : said'[i] = said[i]
      /\ \A i \in 1 .. Len(Stream) : Stream'[i] = Stream[i]
  BY <1>1, <1>2, <1>3, Saying, StreamFacts
<1>5. TypeOK'
  BY <1>1, <1>4 DEF TypeOK, Loading
<1>6. \A n \in {1, 2} : /\ Bad(Stream, n) => Bad(Stream, n)'
                        /\ Over(Stream, n) => Over(Stream, n)'
                        /\ BodyAt(Stream, n) => BodyAt(Stream, n)'
                        /\ HeaderAt(Stream, n) => HeaderAt(Stream, n)'
  BY <1>1, <1>2, <1>3, Noticed
<1>7. Phase'
  <2>1. pc = "greeting" => /\ Bad(buffer, 1)' /\ Bad(said, 2)' /\ link' # "up"
                           /\ said'[1].is \in {"good", "bad"}
    <3>1. pc = "greeting" => Bad(buffer, 1) /\ Len(said) = 1 /\ said[1].is \in {"good", "bad"}
      <4>1. said = <<>> => Len(said) = 0
        OBVIOUS
      <4>2. pc = "greeting" => Bad(buffer, 1) /\ (said # <<>> => said[1].is \in {"good", "bad"})
        BY <1>1 DEF Phase
      <4>3. pc = "greeting" => Len(said) = 1
        BY <1>1 DEF Phase
      <4> QED
        BY <4>1, <4>2, <4>3
    <3>2. Len(said) = 1 => /\ Len(said') = 2 /\ said'[1] = said[1]
                           /\ \A i \in 2 .. 2 : said'[i] = x
      BY <1>4
    <3>3. Bad(buffer, 1) => Bad(buffer, 1)'
      BY <1>1 DEF Bad
    <3>4. Len(said) = 1 => Bad(said, 2)'
      BY <1>3, <3>2 DEF Bad
    <3> QED
      BY <1>1, <3>1, <3>2, <3>3, <3>4
  <2>2. ASSUME NEW command \in {"command", "HEAD"}, Asked(Stream, command)
        PROVE  Asked(Stream, command)'
    <3>1. CASE Bad(Stream, 1)
      <4>1. Bad(Stream, 1)'
        BY <1>6, <3>1
      <4> QED
        BY <1>1, <4>1 DEF Asked
    <3>2. CASE Own(Stream, 1, "good")
      <4>1. Own(Stream, 1, "good")' /\ Stream'[1] = Stream[1]
        BY <1>4, <3>2 DEF Own
      <4>2. Bad(Stream, 1) \/ CASE command = "command" /\ wanted = Article -> HeaderAt(Stream, 2)
                       [] command = "command" /\ wanted \in Ranges ->
                            Over(Stream, 2) /\ Reaches(Stream[1])
                       [] OTHER -> BodyAt(Stream, 2)
        BY <2>2 DEF Asked
      <4>3. CASE command = "command" /\ wanted = Article /\ HeaderAt(Stream, 2)
        <5>1. HeaderAt(Stream, 2)'
          BY <1>6, <4>3
        <5> QED
          BY <1>1, <4>1, <4>3, <5>1 DEF Asked
      <4>4. CASE command = "command" /\ wanted \in Ranges /\ Over(Stream, 2) /\ Reaches(Stream[1])
        <5>1. Over(Stream, 2)' /\ Reaches(Stream[1])'
          BY <1>1, <1>6, <4>1, <4>4 DEF Reaches
        <5> QED
          BY <1>1, <4>1, <4>4, <5>1 DEF Asked
      <4>5. CASE ~(command = "command" /\ (wanted = Article \/ wanted \in Ranges)) /\ BodyAt(Stream, 2)
        <5>1. BodyAt(Stream, 2)'
          BY <1>6, <4>5
        <5> QED
          BY <1>1, <4>1, <4>5, <5>1 DEF Asked
      <4> QED
        BY <3>1, <4>2, <4>3, <4>4, <4>5
    <3> QED
      BY <2>2, <3>1, <3>2 DEF Asked
  <2>3. /\ pc \in {"idle", "failed", "open", "command", "head"} => Over(Stream, 1)'
        /\ pc = "header" => HeaderAt(Stream, 1)'
        /\ pc \in {"body", "LIST", "fields"} => BodyAt(Stream, 1)'
    BY <1>1, <1>6 DEF Phase
  <2>4. /\ pc = "reply" => Asked(Stream, "command")'
        /\ pc = "HEAD" => Asked(Stream, "HEAD")'
        /\ pc # "killed"
    BY <1>1, <2>2 DEF Phase
  <2>5. /\ pc = "header" => wanted = Article
        /\ pc = "body" => wanted = Article
        /\ pc = "LIST" => wanted = List
    BY <1>1 DEF Phase
  <2> QED
    BY <1>1, <2>1, <2>3, <2>4, <2>5 DEF Phase
<1>8. Excuses'
  BY <1>1 DEF Excuses, Dead, Loading
<1>9. Groups'
  BY <1>1, <1>2, <1>3, GroupsSaying
<1>10. Pages' /\ LinksMeetPage' /\ Listing'
  <2>1. LinksMeetPage' /\ ListedTo' = ListedTo /\ Known' = Known
    BY <1>1 DEF LinksMeetPage, ListedTo, Known
  <2>a. pc = "HEAD" => (Promised' <=> Promised)
    <3>1. pc = "HEAD" => Len(Stream) >= 1
      <4>1. todo # <<"HEAD">>
        BY <1>1, Single
      <4>2. pc = "HEAD" => Asked(Stream, "HEAD")
        BY <1>1 DEF Phase
      <4>3. link = "up"
        BY <1>1
      <4>4. Asked(Stream, "HEAD") =>
              Own(Stream, 1, "good") \/ todo = <<"HEAD">> \/ Len(Stream) = 1
        BY <4>3 DEF Asked
      <4>5. Own(Stream, 1, "good") => Len(Stream) >= 1
        BY DEF Own
      <4>6. Len(Stream) = 1 => Len(Stream) >= 1
        BY <1>4
      <4> QED
        BY <4>1, <4>2, <4>4, <4>5, <4>6, Zenon
    <3>2. Len(Stream) >= 1 => Stream'[1] = Stream[1] /\ Len(Stream') >= 1
      BY <1>4
    <3> QED
      BY <1>1, <3>1, <3>2 DEF Promised, Own
  <2>2. Listing'
    BY <1>1, <2>1, <2>a DEF Listing, Current
  <2>3. Pages'
    BY <1>1 DEF Pages, Page, Group, Fit
  <2> QED
    BY <2>1, <2>2, <2>3
<1> QED
  BY <1>1, <1>5, <1>7, <1>8, <1>9, <1>10 DEF Inv, OwnReply

\* The host has at most one thing to answer, by what the client waits for.
LEMMA WhatIsAsked ==
  ASSUME Inv, link = "up", todo # <<>>
  PROVE  \/ pc = "greeting" /\ todo = <<"greeting">> /\ said = <<>>
         \/ pc = "reply" /\ todo = <<"command">> /\ Stream = <<>>
         \/ pc = "HEAD" /\ todo = <<"HEAD">> /\ Stream = <<>>
         \/ /\ pc \in {"reply", "header"} /\ todo = <<"text">>
         \/ /\ pc \in {"reply", "header", "body", "LIST", "HEAD", "fields"} /\ todo = <<"body">>
<1>1. Phase /\ TypeOK
  BY DEF Inv
<1>2. \A n \in {1, 2, 3} : /\ ~Over(Stream, n)
                           /\ BodyAt(Stream, n) => todo = <<"body">>
  BY DEF Over, BodyAt, Awaited
<1>3. \A n \in {1, 2} : /\ ~Over(Stream, n + 1)
                        /\ BodyAt(Stream, n + 1) => todo = <<"body">>
  BY <1>2
<1>4. \A n \in {1, 2} : HeaderAt(Stream, n) => todo \in {<<"body">>, <<"text">>}
  BY <1>3 DEF HeaderAt, Awaited
<1>5. pc \notin {"idle", "failed", "open", "command", "head", "killed"}
  BY <1>1, <1>2 DEF Phase
<1>6. pc = "greeting" => todo = <<"greeting">> /\ said = <<>>
  BY <1>1 DEF Phase
<1>7. ASSUME NEW command, Asked(Stream, command)
      PROVE  \/ todo = <<command>> /\ Stream = <<>>
             \/ command = "command" /\ todo = <<"text">>
             \/ todo = <<"body">>
  <2>1. CASE Bad(Stream, 1) /\ (link = "up" => \/ Stream = <<>> /\ todo = <<command>>
                                               \/ Len(Stream) = 1 /\ todo = <<>>)
    BY <2>1
  <2>2. CASE CASE command = "command" /\ wanted = Article -> HeaderAt(Stream, 2)
               [] command = "command" /\ wanted \in Ranges -> Over(Stream, 2) /\ Reaches(Stream[1])
               [] OTHER -> BodyAt(Stream, 2)
    BY <1>2, <1>4, <2>2
  <2> QED
    BY <1>7, <2>1, <2>2 DEF Asked
<1>8. pc = "reply" => \/ todo = <<"command">> /\ Stream = <<>>
                      \/ todo = <<"text">> \/ todo = <<"body">>
  BY <1>1, <1>7 DEF Phase
<1>9. pc = "HEAD" => (todo = <<"HEAD">> /\ Stream = <<>>) \/ todo = <<"body">>
  BY <1>1, <1>7 DEF Phase
<1>10. pc = "header" => todo = <<"text">> \/ todo = <<"body">>
  BY <1>1, <1>4 DEF Phase
<1>11. pc \in {"body", "LIST", "fields"} => todo = <<"body">>
  BY <1>1, <1>2 DEF Phase
<1>12. pc \in {"greeting", "reply", "header", "body", "LIST", "HEAD", "fields"}
  BY <1>1, <1>5 DEF TypeOK
<1> QED
  BY <1>6, <1>8, <1>9, <1>10, <1>11, <1>12

\* A connection that is closed in the middle of a load excuses it.
LEMMA DropInv == ASSUME Inv, Drop PROVE Inv'
<1>1. /\ TypeOK /\ Phase /\ Excuses /\ Groups /\ Pages /\ LinksMeetPage /\ Listing /\ own = TRUE
      /\ link = "up" /\ link' = "down" /\ excused' = (excused \/ Loading)
      /\ missed' = IF todo = <<"HEAD">> /\ seen # None THEN missed \cup {art} ELSE missed
      /\ UNCHANGED <<group, todo, said, buffer, pc, wanted, retries, art, page, seen, own>>
  BY DEF Inv, OwnReply, Drop, Miss, client
<1>2. Stream' = Stream /\ ListedTo' = ListedTo
  BY <1>1 DEF Stream, ListedTo
<1>3. todo = <<"HEAD">> => /\ pc = "HEAD" /\ page # None /\ Stream = <<>>
                           /\ art \in Articles
  <2>1. todo = <<"HEAD">> => pc = "HEAD" /\ Stream = <<>>
    BY <1>1, WhatIsAsked, Single
  <2>2. pc = "HEAD" => page # None
    BY <1>1 DEF Pages
  <2>3. pc = "HEAD" => art \in Nat /\ page.to \in 0 .. Newest /\ art <= page.to
    BY <1>1, <2>2, PageFacts
  <2> QED
    BY <2>1, <2>2, <2>3, Numbers
<1>4. TypeOK'
  BY <1>1, <1>3 DEF TypeOK, Loading
<1>5. Phase'
  BY <1>1, <1>2 DEF Phase, Over, Bad, Asked, Own, HeaderAt, BodyAt, Awaited, Reaches
<1>6. Excuses'
  BY <1>1, <1>2 DEF Excuses, Dead, Loading
<1>7. Groups' /\ Pages' /\ LinksMeetPage'
  <2>1. Groups' /\ LinksMeetPage'
    BY <1>1, <1>2 DEF Groups, Group, LinksMeetPage
  <2>2. Pages'
    BY <1>1 DEF Pages, Page, Group, Fit
  <2> QED
    BY <2>1, <2>2
<1>8. Listing'
  <2>1. ASSUME seen # None
        PROVE  Known' = Known /\ (seen \cap missed)' = {} /\ Current'
    <3>1. seen \cap missed = {} /\ Current
      BY <1>1, <2>1 DEF Listing
    <3>2. CASE todo = <<"HEAD">>
      <4>1. missed' = missed \cup {art} /\ pc = "HEAD" /\ Stream = <<>>
        BY <1>1, <1>3, <2>1, <3>2
      <4>2. art \notin seen
        BY <3>1, <4>1 DEF Current
      <4>3. ~Promised'
        <5>1. Len(Stream') = 0
          BY <1>2, <4>1
        <5> QED
          BY <1>1, <5>1 DEF Promised, Own
      <4> QED
        BY <1>1, <3>1, <4>1, <4>2, <4>3 DEF Known, Current
    <3>3. CASE todo # <<"HEAD">>
      <4>1. missed' = missed /\ (Promised' <=> Promised)
        BY <1>1, <1>2, <3>3 DEF Promised, Own
      <4> QED
        BY <1>1, <3>1, <4>1 DEF Known, Current
    <3> QED
      BY <3>2, <3>3
  <2> QED
    BY <1>1, <1>2, <2>1 DEF Listing
<1> QED
  BY <1>1, <1>4, <1>5, <1>6, <1>7, <1>8 DEF Inv, OwnReply

\* A line of the text that is awaited belongs to it.
LEMMA TextGoesOn ==
  ASSUME TypeOK, link = "up", link' = "up", NEW x \in Items, x.own,
         said' = Append(said, x), buffer' = buffer, NEW n \in {1, 2},
         \/ todo = <<"text">> /\ x.is = "blank" /\ todo' = <<"body">>
         \/ todo \in {<<"text">>, <<"body">>} /\ x.is = "dot" /\ todo' = <<>>
  PROVE  /\ BodyAt(Stream, n) => BodyAt(Stream, n)'
         /\ HeaderAt(Stream, n) => HeaderAt(Stream, n)'
         /\ ~Over(Stream, n)
<1>1. /\ Len(Stream) \in Nat /\ Len(Stream') = Len(Stream) + 1
      /\ \A i \in 1 .. Len(Stream) : Stream'[i] = Stream[i]
      /\ Stream'[Len(Stream) + 1] = x
  BY Saying, StreamFacts
<1>2. todo # <<>> /\ <<"text">> # <<"body">>
  BY Single
<1>3. ASSUME NEW k \in 1 .. 3, BodyAt(Stream, k) PROVE BodyAt(Stream, k)'
  <2>1. Len(Stream) = k - 1 /\ todo = <<"body">>
    BY <1>2, <1>3 DEF BodyAt, Awaited, Over
  <2>2. /\ Stream'[k] = x /\ Len(Stream') = k /\ x.is = "dot" /\ todo' = <<>>
    BY <1>1, <1>2, <2>1
  <2>3. Own(Stream, k, "dot")'
    BY <2>2 DEF Own
  <2>4. Over(Stream, k + 1)'
    BY <2>2 DEF Over, Bad
  <2> QED
    BY <2>3, <2>4 DEF BodyAt
<1>4. ASSUME HeaderAt(Stream, n) PROVE HeaderAt(Stream, n)'
  <2>1. CASE Awaited(Stream, n, "text")
    <3>1. Len(Stream) = n - 1 /\ todo = <<"text">>
      BY <2>1 DEF Awaited
    <3>2. Stream'[n] = x /\ Len(Stream') = n
      BY <1>1, <3>1
    <3>3. CASE x.is = "blank" /\ todo' = <<"body">>
      <4>1. Own(Stream, n, "blank")' /\ Awaited(Stream, n + 1, "body")'
        BY <3>2, <3>3 DEF Own, Awaited
      <4> QED
        BY <4>1 DEF HeaderAt, BodyAt
    <3>4. CASE x.is = "dot" /\ todo' = <<>>
      <4>1. Own(Stream, n, "dot")' /\ Over(Stream, n + 1)'
        BY <3>2, <3>4 DEF Own, Over, Bad
      <4> QED
        BY <4>1 DEF HeaderAt
    <3> QED
      BY <3>3, <3>4
  <2>2. CASE Own(Stream, n, "blank") /\ BodyAt(Stream, n + 1)
    <3>1. BodyAt(Stream, n + 1)'
      BY <1>3, <2>2
    <3>2. n \in 1 .. Len(Stream) /\ Len(Stream') >= n
      BY <1>1, <2>2 DEF Own
    <3>3. Own(Stream, n, "blank")'
      BY <1>1, <2>2, <3>2 DEF Own
    <3> QED
      BY <3>1, <3>3 DEF HeaderAt
  <2>3. ~Over(Stream, n + 1)
    BY <1>2 DEF Over
  <2> QED
    BY <1>4, <2>1, <2>2, <2>3 DEF HeaderAt
<1> QED
  BY <1>2, <1>3, <1>4 DEF Over

\* What the host says and awaits then, once it has answered what it was asked.
LEMMA Answered ==
  ASSUME Inv, Answer
  PROVE  \E c, x :
           /\ todo = <<c>> /\ x \in Items /\ x.own /\ Group(x) /\ x.last = group.last
           /\ x.last <= group.last /\ said' = Append(said, x)
           /\ missed' = IF c = "HEAD" /\ x.is = "bad" /\ seen # None THEN missed \cup {art} ELSE missed
           /\ \/ /\ c \in {"greeting", "command", "HEAD"} /\ x.is = "good" /\ excused' = excused
                 /\ todo' = IF c = "HEAD" \/ (c = "command" /\ wanted \in {Article, List})
                            THEN <<IF wanted = Article THEN "text" ELSE "body">> ELSE <<>>
              \/ /\ c \in {"greeting", "command", "HEAD"} /\ x.is = "bad" /\ excused' = TRUE
                 /\ todo' = <<>>
              \/ /\ c = "text" /\ x.is = "blank" /\ excused' = excused /\ todo' = <<"body">>
              \/ /\ c \in {"text", "body"} /\ x.is = "dot" /\ excused' = excused /\ todo' = <<>>
<1>1. TypeOK /\ Groups /\ link = "up" /\ todo # <<>>
  BY DEF Inv, Answer
<1>2. PICK c : todo = <<c>>
  BY <1>1, WhatIsAsked
<1>3. Head(todo) = c /\ Tail(todo) = <<>>
  BY <1>2, Single
<1> DEFINE text == <<IF wanted = Article THEN "text" ELSE "body">>
           hasText == c = "HEAD" \/ (c = "command" /\ wanted \in {Article, List})
<1>4. \/ /\ c \in {"greeting", "command", "HEAD"}
         /\ said' = Append(said, Item("good"))
         /\ todo' = <<>> \o (IF hasText THEN text ELSE <<>>)
         /\ UNCHANGED <<missed, excused>>
      \/ /\ c \in {"greeting", "command", "HEAD"}
         /\ said' = Append(said, Item("bad")) /\ todo' = <<>> /\ excused' = TRUE
         /\ missed' = IF c = "HEAD" /\ seen # None THEN missed \cup {art} ELSE missed
      \/ /\ c = "text" /\ said' = Append(said, Item("blank")) /\ todo' = <<"body">> \o <<>>
         /\ UNCHANGED <<missed, excused>>
      \/ /\ c \in {"text", "body"} /\ said' = Append(said, Item("dot")) /\ todo' = <<>>
         /\ UNCHANGED <<missed, excused>>
  BY <1>3 DEF Answer, Miss
<1>5. /\ <<>> \o (IF hasText THEN text ELSE <<>>) = IF hasText THEN text ELSE <<>>
      /\ <<"body">> \o <<>> = <<"body">>
  BY Single
<1>6. \A is \in Lines : /\ Item(is) \in Items /\ Item(is).is = is /\ Item(is).own
                        /\ Group(Item(is)) /\ Item(is).last = group.last
                        /\ Item(is).last <= group.last
  BY <1>1, GroupItem DEF Item
<1>7. {"good", "bad", "blank", "dot"} = Lines
  BY DEF Lines
<1> HIDE DEF text, hasText
<1>8. CASE c \in {"greeting", "command", "HEAD"} /\ said' = Append(said, Item("good"))
           /\ todo' = <<>> \o (IF hasText THEN text ELSE <<>>) /\ UNCHANGED <<missed, excused>>
  BY <1>2, <1>5, <1>6, <1>7, <1>8 DEF text, hasText
<1>9. CASE c \in {"greeting", "command", "HEAD"}
           /\ said' = Append(said, Item("bad")) /\ todo' = <<>> /\ excused' = TRUE
           /\ missed' = IF c = "HEAD" /\ seen # None THEN missed \cup {art} ELSE missed
  BY <1>2, <1>6, <1>7, <1>9
<1>10. CASE c = "text" /\ said' = Append(said, Item("blank")) /\ todo' = <<"body">> \o <<>>
            /\ UNCHANGED <<missed, excused>>
  BY <1>2, <1>5, <1>6, <1>7, <1>10
<1>11. CASE c \in {"text", "body"} /\ said' = Append(said, Item("dot")) /\ todo' = <<>>
            /\ UNCHANGED <<missed, excused>>
  BY <1>2, <1>6, <1>7, <1>11
<1> QED
  BY <1>4, <1>8, <1>9, <1>10, <1>11

\* The host answers what it owes.
LEMMA AnswerInv == ASSUME Inv, Answer PROVE Inv'
<1> USE Numbers
<1>1. /\ TypeOK /\ Phase /\ Excuses /\ Groups /\ Pages /\ LinksMeetPage /\ Listing /\ own = TRUE
      /\ link = "up" /\ todo # <<>>
      /\ UNCHANGED <<group, link, buffer, pc, wanted, retries, art, page, seen, own>>
  BY DEF Inv, OwnReply, Answer, client
<1>2. PICK c, x :
        /\ todo = <<c>> /\ x \in Items /\ x.own /\ Group(x) /\ x.last = group.last
        /\ x.last <= group.last /\ said' = Append(said, x)
        /\ missed' = IF c = "HEAD" /\ x.is = "bad" /\ seen # None THEN missed \cup {art} ELSE missed
        /\ \/ /\ c \in {"greeting", "command", "HEAD"} /\ x.is = "good" /\ excused' = excused
              /\ todo' = IF c = "HEAD" \/ (c = "command" /\ wanted \in {Article, List})
                         THEN <<IF wanted = Article THEN "text" ELSE "body">> ELSE <<>>
           \/ /\ c \in {"greeting", "command", "HEAD"} /\ x.is = "bad" /\ excused' = TRUE
              /\ todo' = <<>>
           \/ /\ c = "text" /\ x.is = "blank" /\ excused' = excused /\ todo' = <<"body">>
           \/ /\ c \in {"text", "body"} /\ x.is = "dot" /\ excused' = excused /\ todo' = <<>>
  BY Answered, Zenon
<1>3. /\ buffer' \in Seq(Items) /\ said' \in Seq(Items)
      /\ Stream' \in Seq(Items) /\ Len(Stream') = Len(Stream) + 1 /\ Len(Stream) \in Nat
      /\ Len(said') = Len(said) + 1 /\ said'[Len(said) + 1] = x /\ Len(said) \in Nat
      /\ \A i \in 1 .. Len(said) : said'[i] = said[i]
      /\ \A i \in 1 .. Len(Stream) : Stream'[i] = Stream[i]
      /\ Stream'[Len(Stream) + 1] = x
  BY <1>1, <1>2, Saying, StreamFacts
<1>4. \/ pc = "greeting" /\ c = "greeting" /\ said = <<>>
      \/ pc = "reply" /\ c = "command" /\ Stream = <<>>
      \/ pc = "HEAD" /\ c = "HEAD" /\ Stream = <<>>
      \/ pc \in {"reply", "header"} /\ c = "text"
      \/ pc \in {"reply", "header", "body", "LIST", "HEAD", "fields"} /\ c = "body"
  BY <1>1, <1>2, WhatIsAsked, Single
<1>5. todo' = <<>> \/ todo' = <<"text">> \/ todo' = <<"body">>
  BY <1>2
<1>6. TypeOK'
  <2> DEFINE Questions == Seq({"greeting", "command", "HEAD", "text", "body"})
  <2>0. <<>> \in Questions /\ <<"text">> \in Questions /\ <<"body">> \in Questions
    OBVIOUS
  <2>1. todo' \in Questions
    BY <1>5, <2>0, Zenon
  <2>2. excused' \in BOOLEAN
    BY <1>1, <1>2 DEF TypeOK
  <2>3. missed' \in SUBSET Articles
    <3>1. c = "HEAD" => pc = "HEAD" /\ page # None
      BY <1>1, <1>4 DEF Pages
    <3>2. c = "HEAD" => art \in Nat /\ page.to \in 0 .. Newest /\ art <= page.to
      BY <1>1, <3>1, PageFacts
    <3>3. c = "HEAD" => art \in Articles
      BY <3>2
    <3> QED
      BY <1>1, <1>2, <3>3 DEF TypeOK
  <2> QED
    BY <1>1, <1>3, <2>1, <2>2, <2>3 DEF TypeOK
<1>7. Groups'
  BY <1>1, <1>2, GroupsSaying
<1>8. Pages' /\ LinksMeetPage' /\ Listing'
  <2>1. LinksMeetPage' /\ ListedTo' = ListedTo
    BY <1>1 DEF LinksMeetPage, ListedTo
  <2>a. ASSUME seen # None
        PROVE  Known' = Known /\ (seen \cap missed)' = {} /\ Current'
    <3>1. seen \cap missed = {} /\ Current
      BY <1>1, <2>a DEF Listing
    <3>2. CASE c = "HEAD"
      <4>1. pc = "HEAD" /\ Stream = <<>> /\ x.is \in {"good", "bad"} /\ todo' # <<"HEAD">>
        <5>1. \A d \in {"text", "body"} : <<d>> # <<"HEAD">>
          BY Single
        <5>2. todo' # <<"HEAD">>
          BY <1>5, <5>1, Single
        <5> QED
          BY <1>2, <1>4, <3>2, <5>2
      <4>2. Len(Stream') = 1 /\ Stream'[1] = x
        <5>1. Len(Stream) = 0
          BY <4>1
        <5> QED
          BY <1>3, <5>1
      <4>3. Promised /\ (Promised' <=> x.is = "good")
        BY <1>1, <1>2, <3>2, <4>1, <4>2 DEF Promised, Own
      <4>4. art \notin seen /\ art \notin missed
        BY <3>1, <4>1, <4>3 DEF Current
      <4> QED
        BY <1>1, <1>2, <2>a, <3>1, <3>2, <4>1, <4>3, <4>4 DEF Known, Current
    <3>3. CASE c # "HEAD"
      <4>1. missed' = missed
        BY <1>2, <3>3
      <4>2. pc = "HEAD" => Promised /\ Promised'
        <5>1. pc = "HEAD" => c = "body"
          BY <1>4, <3>3
        <5>2. c = "body" => todo # <<"HEAD">> /\ todo # <<>>
          BY <1>2
        <5>3. pc = "HEAD" => Own(Stream, 1, "good")
          BY <1>1, <5>1, <5>2 DEF Phase, Asked
        <5>4. Own(Stream, 1, "good") => Own(Stream, 1, "good")'
          BY <1>3 DEF Own
        <5> QED
          BY <5>3, <5>4 DEF Promised
      <4> QED
        BY <1>1, <3>1, <4>1, <4>2 DEF Known, Current
    <3> QED
      BY <3>2, <3>3
  <2>2. Listing'
    BY <1>1, <2>1, <2>a DEF Listing
  <2>3. Pages'
    BY <1>1 DEF Pages, Page, Group, Fit
  <2> QED
    BY <2>1, <2>2, <2>3
<1>9. Excuses'
  <2>1. ASSUME ~excused', pc = "greeting"
        PROVE  \A i \in 1 .. Len(said') : said'[i].is # "bad"
    <3>1. said = <<>> /\ x.is = "good"
      BY <1>2, <1>4, <2>1
    <3>2. Len(said) = 0
      BY <3>1
    <3>3. \A i \in 1 .. Len(said') : said'[i] = x
      BY <1>3, <3>2
    <3> QED
      BY <3>1, <3>3
  <2>2. ASSUME ~excused', pc \in {"command", "reply"}, retries = 1
        PROVE  \A i \in 1 .. Len(Stream') : Stream'[i].is # "bad"
    <3>1. x.is # "bad" /\ ~excused
      BY <1>2, <2>2
    <3>2. \A i \in 1 .. Len(Stream) : Stream[i].is # "bad"
      BY <1>1, <2>2, <3>1 DEF Excuses
    <3>3. \A i \in 1 .. Len(Stream') : i \in 1 .. Len(Stream) \/ i = Len(Stream) + 1
      BY <1>3
    <3> QED
      BY <1>3, <3>1, <3>2, <3>3
  <2>3. pc # "failed" /\ link' = "up"
    BY <1>1, <1>4
  <2>4. pc = "open" /\ retries = 1 => link = "none"
    BY <1>1 DEF Excuses
  <2> QED
    BY <1>1, <2>1, <2>2, <2>3, <2>4 DEF Excuses, Dead
<1>10. Phase'
  <2>1. CASE pc = "greeting" /\ c = "greeting" /\ said = <<>>
    <3>1. Len(said) = 0
      BY <2>1
    <3>2. Len(said') = 1 /\ said'[1] = x /\ Bad(said, 2)'
      BY <1>3, <3>1 DEF Bad
    <3>3. x.is \in {"good", "bad"} /\ todo' = <<>>
      BY <1>2, <2>1
    <3>4. Bad(buffer, 1)'
      BY <1>1, <2>1 DEF Phase, Bad
    <3> QED
      BY <1>1, <2>1, <3>2, <3>3, <3>4 DEF Phase
  <2>2. CASE c \in {"command", "HEAD"} /\ Stream = <<>> /\ pc = (IF c = "HEAD" THEN "HEAD" ELSE "reply")
    <3>1. Len(Stream) = 0
      BY <2>2
    <3>2. Len(Stream') = 1 /\ Stream'[1] = x
      BY <1>3, <3>1
    <3>3. CASE x.is = "bad" /\ todo' = <<>>
      <4>1. Bad(Stream, 1)'
        BY <3>2, <3>3 DEF Bad
      <4> QED
        BY <1>1, <2>2, <3>2, <3>3, <4>1 DEF Phase, Asked
    <3>4. CASE x.is = "good" /\ todo' = IF c = "HEAD" \/ (c = "command" /\ wanted \in {Article, List})
                         THEN <<IF wanted = Article THEN "text" ELSE "body">> ELSE <<>>
      <4>1. Own(Stream, 1, "good")'
        BY <1>2, <3>2, <3>4 DEF Own
      <4>2. c = "HEAD" => wanted \in Ranges
        BY <1>1, <2>2 DEF Pages, Page
      <4>3. CASE c = "command" /\ wanted = Article
        <5>1. HeaderAt(Stream, 2)'
          BY <1>1, <3>2, <3>4, <4>3 DEF HeaderAt, Awaited
        <5> QED
          BY <1>1, <2>2, <4>1, <4>3, <5>1 DEF Phase, Asked
      <4>4. CASE c = "command" /\ wanted \in Ranges
        <5>1. Over(Stream, 2)'
          BY <3>2, <3>4, <4>4 DEF Over, Bad
        <5>2. Reaches(Stream[1])'
          <6>1. seen # None => wanted.to <= group.last
            <7>1. WholeGroup.to <= group.last
              BY <1>1 DEF TypeOK
            <7> QED
              BY <1>1, <2>2, <4>4, <7>1 DEF Listing
          <6> QED
            BY <1>1, <1>2, <3>2, <6>1 DEF Reaches
        <5> QED
          BY <1>1, <2>2, <4>1, <4>4, <5>1, <5>2 DEF Phase, Asked
      <4>5. CASE c = "HEAD" \/ wanted = List
        <5>1. todo' = <<"body">>
          BY <2>2, <3>4, <4>2, <4>5
        <5>2. BodyAt(Stream, 2)'
          BY <3>2, <5>1 DEF BodyAt, Awaited
        <5> QED
          BY <1>1, <2>2, <4>1, <4>5, <5>2 DEF Phase, Asked
      <4> QED
        BY <1>1, <2>2, <4>3, <4>4, <4>5 DEF TypeOK
    <3> QED
      BY <1>2, <2>2, <3>3, <3>4
  <2>3. CASE c \in {"text", "body"}
    <3>1. \/ todo = <<"text">> /\ x.is = "blank" /\ todo' = <<"body">>
          \/ todo \in {<<"text">>, <<"body">>} /\ x.is = "dot" /\ todo' = <<>>
      BY <1>2, <2>3
    <3>2. \A n \in {1, 2} : /\ BodyAt(Stream, n) => BodyAt(Stream, n)'
                            /\ HeaderAt(Stream, n) => HeaderAt(Stream, n)'
                            /\ ~Over(Stream, n)
      BY <1>1, <1>2, <3>1, TextGoesOn
    <3>3. todo # <<"command">> /\ todo # <<"HEAD">> /\ todo # <<>>
      BY <1>2, <2>3, Single
    <3>4. ASSUME NEW command \in {"command", "HEAD"}, Asked(Stream, command)
          PROVE  Asked(Stream, command)'
      <4>1. ~(link = "up" => \/ Stream = <<>> /\ todo = <<command>>
                             \/ Len(Stream) = 1 /\ todo = <<>>)
        BY <1>1, <3>3
      <4>2. /\ Own(Stream, 1, "good")
            /\ CASE command = "command" /\ wanted = Article -> HeaderAt(Stream, 2)
                 [] command = "command" /\ wanted \in Ranges -> Over(Stream, 2) /\ Reaches(Stream[1])
                 [] OTHER -> BodyAt(Stream, 2)
        BY <3>4, <4>1 DEF Asked
      <4>3. 1 \in 1 .. Len(Stream) /\ Len(Stream') >= 1
        BY <1>3, <4>2 DEF Own
      <4>4. Own(Stream, 1, "good")'
        BY <1>3, <4>2, <4>3 DEF Own
      <4>5. CASE command = "command" /\ wanted = Article /\ HeaderAt(Stream, 2)
        <5>1. HeaderAt(Stream, 2)'
          BY <3>2, <4>5
        <5> QED
          BY <1>1, <4>4, <4>5, <5>1 DEF Asked
      <4>6. CASE ~(command = "command" /\ (wanted = Article \/ wanted \in Ranges)) /\ BodyAt(Stream, 2)
        <5>1. BodyAt(Stream, 2)'
          BY <3>2, <4>6
        <5> QED
          BY <1>1, <4>4, <4>6, <5>1 DEF Asked
      <4> QED
        BY <3>2, <4>2, <4>5, <4>6
    <3>5. /\ pc = "reply" => Asked(Stream, "command")'
          /\ pc = "HEAD" => Asked(Stream, "HEAD")'
      BY <1>1, <3>4 DEF Phase
    <3>6. /\ pc = "header" => wanted = Article /\ HeaderAt(Stream, 1)'
          /\ pc = "body" => wanted = Article /\ BodyAt(Stream, 1)'
          /\ pc = "LIST" => wanted = List /\ BodyAt(Stream, 1)'
          /\ pc = "fields" => BodyAt(Stream, 1)'
      BY <1>1, <3>2 DEF Phase
    <3>7. pc \in {"reply", "header", "body", "LIST", "HEAD", "fields"}
      BY <1>4, <2>3
    <3> QED
      BY <1>1, <3>5, <3>6, <3>7 DEF Phase
  <2> QED
    BY <1>4, <2>1, <2>2, <2>3
<1> QED
  BY <1>1, <1>6, <1>7, <1>8, <1>9, <1>10 DEF Inv, OwnReply

-----------------------------------------------------------------------------
(* Theorems.                                                               *)

\* Nothing changes, so nothing breaks.
LEMMA StutterInv == ASSUME Inv, UNCHANGED vars PROVE Inv'
<1>1. UNCHANGED <<group, link, todo, said, buffer, pc, wanted, retries, art, page, seen, missed, own, excused>>
  BY DEF vars, host, client, history
<1>2. Stream' = Stream /\ ListedTo' = ListedTo /\ Known' = Known
  BY <1>1 DEF Stream, ListedTo, Known
<1>a. Current' <=> Current
  BY <1>1, <1>2 DEF Current, Promised, Own
<1>3. TypeOK' /\ OwnReply' /\ Excuses' /\ Groups' /\ LinksMeetPage' /\ Listing'
  BY <1>1, <1>2, <1>a
  DEF Inv, TypeOK, OwnReply, Excuses, Dead, Groups, Group, LinksMeetPage, Listing
<1>4. Phase'
  BY <1>1, <1>2
  DEF Inv, Phase, Over, Bad, Asked, Own, HeaderAt, BodyAt, Awaited, Reaches
<1>5. Pages'
  BY <1>1 DEF Inv, Pages, Page, Group, Fit
<1> QED
  BY <1>3, <1>4, <1>5 DEF Inv

\* Every step keeps what is on its way in step with what the client waits for.
LEMMA NextInv == ASSUME Inv, [Next]_vars PROVE Inv'
<1>1. ASSUME NEW what \in Offered, Load(what) PROVE Inv'
  BY <1>1, LoadInv
<1>2. CASE Open
  BY <1>2, OpenInv
<1>3. CASE Greeting
  BY <1>3, GreetingInv
<1>4. CASE Command
  BY <1>4, CommandInv
<1>5. CASE Reply
  BY <1>5, ReplyInv
<1>6. CASE read_text
  BY <1>6, ReadTextInv
<1>7. CASE HeadCommand
  BY <1>7, HeadCommandInv
<1>8. CASE HeadReply
  BY <1>8, HeadReplyInv
<1>9. CASE ReadFields
  BY <1>9, ReadFieldsInv
<1>10. CASE EndGroup
  BY <1>10, EndGroupInv
<1>11. CASE Answer
  BY <1>11, AnswerInv
<1>12. CASE Drop
  BY <1>12, DropInv
<1>13. CASE Notice
  BY <1>13, NoticeInv
<1>14. CASE Post
  BY <1>14, PostInv
<1>15. CASE UNCHANGED vars
  BY <1>15, StutterInv
<1> QED
  BY <1>1, <1>2, <1>3, <1>4, <1>5, <1>6, <1>7, <1>8, <1>9, <1>10, <1>11, <1>12, <1>13, <1>14,
     <1>15 DEF Next, Client

\* The connection and the client stay in step, whatever the host says and
\* whenever it goes away.
THEOREM Invariance == Spec => []Inv
<1>1. Init => Inv
  BY InitInv
<1>2. Inv /\ [Next]_vars => Inv'
  BY NextInv
<1> QED
  BY <1>1, <1>2, PTL DEF Spec

\* The variables of NewsAccess.m and of its connection keep their types.
THEOREM Types == Spec => []TypeOK
<1>1. Inv => TypeOK
  BY DEF Inv
<1> QED
  BY <1>1, Invariance, PTL

\* What accessName: shows as an article, a list or a newsgroup was said by the
\* host in answer to the command of this load, though the buffer is never cleared.
THEOREM AnswersAreOwn == Spec => []OwnReply
<1>1. Inv => OwnReply
  BY DEF Inv
<1> QED
  BY <1>1, Invariance, PTL

\* The second try of accessName: is enough: a load fails for no notice that had
\* waited on the connection since the load before.
THEOREM NoticesCostNothing == Spec => []StaleNoticeCostsNothing
<1>1. Inv => StaleNoticeCostsNothing
  BY DEF Inv, Excuses, StaleNoticeCostsNothing
<1> QED
  BY <1>1, Invariance, PTL

\* The links that read_group writes before and after a page lead to pages that
\* meet it, whatever the size of a page and of the group.
THEOREM PagesMeet == Spec => []LinksMeetPage
<1>1. Inv => LinksMeetPage
  BY DEF Inv
<1> QED
  BY <1>1, Invariance, PTL

\* Who follows the links of read_group from the newest page to the oldest sees a
\* line for every article of the group that the host has not refused and was there
\* to answer for, though others are posted in the meantime.
THEOREM AllArticlesListed == Spec => []EveryArticleListed
<1>1. Inv => EveryArticleListed
  <2> SUFFICES ASSUME Inv, pc = "idle", page # None, seen # None
               PROVE  /\ seen \cap missed = {} /\ page.from .. page.to \subseteq seen \cup missed
                      /\ wanted = WholeGroup => page.to = page.last
                      /\ page.earlier = None =>
                           seen \cup missed = page.first .. Max(seen \cup missed)
    BY DEF EveryArticleListed
  <2>1. TypeOK /\ Pages /\ Listing
    BY DEF Inv
  <2>2. /\ Page(page) /\ page.from \in Nat /\ page.to \in Nat /\ page.from <= page.to
        /\ art = page.to + 1
    <3>1. art = page.to + 1
      BY <2>1 DEF Pages
    <3> QED
      BY <2>1, <3>1, PageFacts
  <2>3. PICK m \in Articles :
          page.to <= m /\ seen \cup missed = (page.from .. art - 1) \cup (page.to + 1 .. m)
    BY <2>1 DEF Listing, ListedTo, Known
  <2>4. m \in Nat /\ page.from <= m
    BY <2>2, <2>3, Numbers
  <2>5. seen \cup missed = page.from .. m /\ page.from .. page.to \subseteq page.from .. m
    BY <2>2, <2>3, <2>4
  <2>6. Max(seen \cup missed) = m
    <3>1. Max(page.from .. m) = m
      BY <2>2, <2>4, MaxOfRange
    <3> QED
      BY <2>5, <3>1, Zenon
  <2>7. seen \cap missed = {}
    BY <2>1 DEF Listing
  <2> QED
    BY <2>2, <2>5, <2>6, <2>7 DEF Page
<1> QED
  BY <1>1, Invariance, PTL
=============================================================================
