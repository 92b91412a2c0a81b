-------------------------- MODULE FtpClientProofs --------------------------
(***************************************************************************)
(* Proofs about FtpClient: whatever servers answer and whenever they go    *)
(* away, no socket is lost track of, a connection that is kept is logged   *)
(* in, the newest is talked to, and every command gets its own reply.      *)
(***************************************************************************)
EXTENDS FtpClient, WellFoundedInduction, TLAPS

-----------------------------------------------------------------------------
(* Sequences: what is read into a buffer, and what is left of what was     *)
(* said.                                                                   *)

\* The elements of two sequences one after the other.
LEMMA Joined ==
  ASSUME NEW S, NEW b \in Seq(S), NEW s \in Seq(S)
  PROVE  /\ b \o s \in Seq(S) /\ Len(b \o s) = Len(b) + Len(s)
         /\ \A i \in 1 .. Len(b) + Len(s) :
              (b \o s)[i] = IF i <= Len(b) THEN b[i] ELSE s[i - Len(b)]
  OBVIOUS

\* A sequence from its second to its n-th element, and what is behind it.
LEMMA SubSeqFacts ==
  ASSUME NEW S, NEW s \in Seq(S), NEW n \in Nat, 1 <= n, n <= Len(s)
  PROVE  /\ SubSeq(s, 2, n) \in Seq(S) /\ Len(SubSeq(s, 2, n)) = n - 1
         /\ \A i \in 1 .. n - 1 : SubSeq(s, 2, n)[i] = s[i + 1]
         /\ SubSeq(s, n + 1, Len(s)) \in Seq(S) /\ Len(SubSeq(s, n + 1, Len(s))) = Len(s) - n
         /\ \A i \in 1 .. Len(s) - n : SubSeq(s, n + 1, Len(s))[i] = s[n + i]
<1>1. /\ SubSeq(s, 2, n) \in Seq(S) /\ Len(SubSeq(s, 2, n)) = n - 1
      /\ \A i \in 1 .. n - 1 : SubSeq(s, 2, n)[i] = s[i + 1]
  OBVIOUS
<1>2. /\ SubSeq(s, n + 1, Len(s)) \in Seq(S) /\ Len(SubSeq(s, n + 1, Len(s))) = Len(s) - n
      /\ \A i \in 1 .. Len(s) - n : SubSeq(s, n + 1, Len(s))[i] = s[n + i]
  OBVIOUS
<1> QED
  BY <1>1, <1>2

\* A sequence of one element.
LEMMA Single ==
  ASSUME NEW c
  PROVE  /\ Head(<<c>>) = c /\ Tail(<<c>>) = <<>> /\ <<c>> \o <<>> = <<c>>
         /\ <<>> \o <<>> = <<>> /\ <<>> \o <<c>> = <<c>> /\ <<c>> # <<>>
         /\ Append(<<>>, c) = <<c>> /\ Len(<<c>>) = 1 /\ Len(<<>>) = 0
         /\ \A d : <<c>> = <<d>> => c = d
  OBVIOUS

\* Where a sequence has elements.
LEMMA InDomain ==
  ASSUME NEW S, NEW s \in Seq(S)
  PROVE  /\ DOMAIN s = 1 .. Len(s) /\ Len(s) \in Nat /\ \A i \in DOMAIN s : s[i] \in S
         /\ s # <<>> => 1 \in DOMAIN s
  OBVIOUS

\* Only two empty sequences make an empty one.
LEMMA JoinedEmpty ==
  ASSUME NEW S, NEW b \in Seq(S), NEW s \in Seq(S)
  PROVE  /\ b \o s = <<>> <=> b = <<>> /\ s = <<>>
         /\ <<>> \o s = s /\ b \o <<>> = b
  OBVIOUS

\* The empty sequence is the one of length 0.
LEMMA EmptySeq ==
  ASSUME NEW S
  PROVE  <<>> \in Seq(S) /\ \A s \in Seq(S) : Len(s) = 0 <=> s = <<>>
  OBVIOUS

\* A sequence with one more element before it.
LEMMA Prepended ==
  ASSUME NEW S, NEW s \in Seq(S), NEW x \in S, NEW t, t = <<x>> \o s
  PROVE  /\ t \in Seq(S) /\ DOMAIN t = 1 .. Len(s) + 1 /\ Len(s) \in Nat
         /\ DOMAIN s = 1 .. Len(s) /\ t[1] = x /\ \A i \in 1 .. Len(s) : t[i + 1] = s[i]
         /\ t # <<>>
  OBVIOUS

\* Two sequences with the same elements are the same.
LEMMA SameSeq ==
  ASSUME NEW S, NEW s \in Seq(S), NEW t \in Seq(S), Len(s) = Len(t),
         \A i \in 1 .. Len(s) : s[i] = t[i]
  PROVE  s = t
  OBVIOUS

\* A sequence without its first element.
LEMMA TailFacts ==
  ASSUME NEW S, NEW s \in Seq(S), s # <<>>
  PROVE  /\ Tail(s) \in Seq(S) /\ Len(Tail(s)) = Len(s) - 1 /\ Len(s) \in Nat /\ Len(s) >= 1
         /\ \A i \in 1 .. Len(s) - 1 : Tail(s)[i] = s[i + 1]
         /\ s[1] \in S
  OBVIOUS

\* Nothing is left of one element.
LEMMA TailOfOne ==
  ASSUME NEW S, NEW s \in Seq(S), Len(s) = 1
  PROVE  Tail(s) = <<>>
<1>1. s # <<>>
  OBVIOUS
<1> DEFINE rest == Tail(s)
<1>2. rest \in Seq(S) /\ Len(rest) = 0
  BY <1>1, TailFacts
<1> HIDE DEF rest
<1>3. rest = <<>>
  BY <1>2, EmptySeq
<1> QED
  BY <1>3 DEF rest

\* Reading the first of n elements into a buffer leaves the others in order.
LEMMA ReadAhead ==
  ASSUME NEW S, NEW s \in Seq(S), NEW n \in 1 .. Len(s)
  PROVE  SubSeq(s, 2, n) \o SubSeq(s, n + 1, Len(s)) = Tail(s)
<1> DEFINE b == SubSeq(s, 2, n)
           t == SubSeq(s, n + 1, Len(s))
           st == b \o t
           rest == Tail(s)
<1>1. /\ b \in Seq(S) /\ Len(b) = n - 1
      /\ \A i \in 1 .. n - 1 : b[i] = s[i + 1]
      /\ t \in Seq(S) /\ Len(t) = Len(s) - n
      /\ \A i \in 1 .. Len(s) - n : t[i] = s[n + i]
  BY SubSeqFacts
<1>2. s # <<>> /\ Len(s) \in Nat /\ n \in Nat /\ 1 <= n /\ n <= Len(s)
  OBVIOUS
<1>3. rest \in Seq(S) /\ Len(rest) = Len(s) - 1 /\ \A i \in 1 .. Len(s) - 1 : rest[i] = s[i + 1]
  BY <1>2, TailFacts
<1> HIDE DEF b, t, rest
<1>4. /\ st \in Seq(S) /\ Len(st) = Len(b) + Len(t)
      /\ \A i \in 1 .. Len(b) + Len(t) : st[i] = IF i <= Len(b) THEN b[i] ELSE t[i - Len(b)]
  BY <1>1, Joined, Zenon
<1> HIDE DEF st
<1>5. Len(st) = Len(s) - 1
  BY <1>1, <1>2, <1>4
<1>6. ASSUME NEW i \in 1 .. Len(s) - 1 PROVE st[i] = rest[i]
  <2>1. CASE i <= n - 1
    <3>1. i \in 1 .. n - 1 /\ i \in 1 .. Len(b) + Len(t) /\ i <= Len(b)
      BY <2>1, <1>1, <1>2
    <3>2. st[i] = b[i] /\ b[i] = s[i + 1]
      BY <3>1, <1>1, <1>4
    <3> QED
      BY <3>2, <1>3
  <2>2. CASE i > n - 1
    <3>1. i - (n - 1) \in 1 .. Len(s) - n /\ n + (i - (n - 1)) = i + 1
      BY <2>2, <1>2
    <3>2. t[i - (n - 1)] = s[i + 1]
      BY <1>1, <3>1
    <3>3. st[i] = t[i - (n - 1)]
      <4>1. i \in 1 .. Len(b) + Len(t) /\ ~(i <= Len(b)) /\ Len(b) = n - 1
        BY <2>2, <1>1, <1>2
      <4> QED
        BY <1>4, <4>1
    <3> QED
      BY <3>2, <3>3, <1>3
  <2> QED
    BY <2>1, <2>2, <1>2
<1>7. st = rest
  BY <1>3, <1>4, <1>5, <1>6, SameSeq
<1> QED
  BY <1>7 DEF st, b, t, rest

\* Reading from a buffer is reading from the stream it begins.
LEMMA TailJoined ==
  ASSUME NEW S, NEW b \in Seq(S), NEW s \in Seq(S), b # <<>>
  PROVE  Tail(b) \o s = Tail(b \o s) /\ (b \o s)[1] = b[1] /\ b \o s # <<>>
<1> DEFINE tail == Tail(b)
           all == b \o s
           st == tail \o s
           rest == Tail(all)
<1>1. /\ tail \in Seq(S) /\ Len(tail) = Len(b) - 1 /\ Len(b) \in Nat /\ Len(b) >= 1
      /\ \A i \in 1 .. Len(b) - 1 : tail[i] = b[i + 1]
  BY TailFacts
<1>2. /\ all \in Seq(S) /\ Len(all) = Len(b) + Len(s)
      /\ \A i \in 1 .. Len(b) + Len(s) : all[i] = IF i <= Len(b) THEN b[i] ELSE s[i - Len(b)]
  BY Joined, Zenon
<1> HIDE DEF tail, all
<1>3. /\ st \in Seq(S) /\ Len(st) = Len(tail) + Len(s)
      /\ \A i \in 1 .. Len(tail) + Len(s) :
           st[i] = IF i <= Len(tail) THEN tail[i] ELSE s[i - Len(tail)]
  BY <1>1, Joined, Zenon
<1> HIDE DEF st
<1>4. Len(s) \in Nat /\ all # <<>> /\ all[1] = b[1]
  BY <1>1, <1>2
<1>5. rest \in Seq(S) /\ Len(rest) = Len(all) - 1 /\ \A i \in 1 .. Len(all) - 1 : rest[i] = all[i + 1]
  BY <1>2, <1>4, TailFacts
<1> HIDE DEF rest
<1>6. ASSUME NEW i \in 1 .. Len(all) - 1 PROVE st[i] = rest[i]
  <2>1. CASE i <= Len(b) - 1
    BY <2>1, <1>1, <1>2, <1>3, <1>4, <1>5
  <2>2. CASE i > Len(b) - 1
    BY <2>2, <1>1, <1>2, <1>3, <1>4, <1>5
  <2> QED
    BY <2>1, <2>2, <1>1, <1>2, <1>4
<1>7. st = rest
  <2>1. Len(st) = Len(all) - 1
    BY <1>1, <1>2, <1>3
  <2> QED
    BY <1>3, <1>5, <1>6, <2>1, SameSeq
<1> QED
  BY <1>4, <1>7 DEF st, tail, rest, all

\* What is said comes at the end of the stream.
LEMMA AppendJoined ==
  ASSUME NEW S, NEW b \in Seq(S), NEW s \in Seq(S), NEW x \in S
  PROVE  b \o Append(s, x) = Append(b \o s, x)
  OBVIOUS

\* A sequence with one more element after it.
LEMMA AppendFacts ==
  ASSUME NEW S, NEW s \in Seq(S), NEW x \in S
  PROVE  /\ Append(s, x) \in Seq(S) /\ Len(Append(s, x)) = Len(s) + 1 /\ Len(s) \in Nat
         /\ \A i \in 1 .. Len(s) : Append(s, x)[i] = s[i]
         /\ Append(s, x)[Len(s) + 1] = x
  OBVIOUS

-----------------------------------------------------------------------------


\* The connection that control stands for, and what the client reads of it: what
\* is in its buffer and then what the server has said.
Con == server[control]
Stream == buffer \o Con.said
Listed(k) == \E i \in DOMAIN connections : connections[i].socket = k

\* A number that the client keeps is that of the socket it had.  (Loads begin
\* while its output is open, so that no socket ever gets that number.)
Numbered ==
  /\ pc # "idle" => file[Stdout] = "std"
  /\ data_soc # Stdout
  /\ master_socket # -1 => file[master_socket] = "listening"
  /\ pc \in {"PORT", "RETR", "accept"} => master_socket # -1
  /\ pc = "reading" => got = Stdout \/ (got \in Fd /\ got = data_soc /\ file[got] = "data")

\* control is the newest connection, or one that was refused and has been closed.
Current ==
  /\ control = -1 => connections = <<>> /\ pc = "idle" /\ ~dangling
  /\ dangling => /\ file[control] # "control" /\ pc \notin {"accept", "final"}
                 /\ pc = "reading" => got = Stdout
  /\ ~dangling /\ control # -1 /\ pc \notin LoginSteps \cup {"killed"} =>
       connections # <<>> /\ connections[1].socket = control

\* While it is being logged in it is not in the list, nor is another to its host;
\* it owes at most the reply to the last command; and if that is 2 it has let us in.
LoggingIn ==
  pc \in LoginSteps =>
    /\ ~dangling /\ file[control] = "control" /\ Con.host \notin Cached
    /\ Con.owes = "nothing"
    /\ Con.link = "up" => \/ Con.todo = <<pc>> /\ Stream = <<>>
                          \/ Con.todo = <<>> /\ Len(Stream) = 1
    /\ Len(Stream) > 0 /\ Stream[1] = 2 /\ pc # "greeting" => Con.in
    /\ \A i \in 2 .. Len(Stream) : Stream[i] = 4

\* What it owes otherwise, by what the client waits for.
Final ==
  /\ Con.todo = <<>>
  /\ \/ Con.owes # "nothing" /\ Stream = <<>>
     \/ Con.owes = "nothing" /\ Len(Stream) = 1
Talk ==
  ~dangling /\ control # -1 /\ Con.link = "up" =>
    /\ pc \in {"idle", "listen"} => Quiet(Con)
    /\ pc = "listen" => buffer = <<>>
    /\ pc = "PORT" =>
         /\ Con.owes = "nothing"
         /\ \/ Con.todo = <<"PORT">> /\ Stream = <<>>
            \/ Con.todo = <<>> /\ Len(Stream) = 1
    /\ pc = "RETR" =>
         \/ Con.todo = <<"RETR">> /\ Stream = <<>> /\ Con.owes = "nothing"
         \/ Con.todo = <<>> /\ Len(Stream) = 1 /\ Stream[1] = 4 /\ Con.owes = "nothing"
         \/ /\ Con.todo = <<>> /\ Stream[1] = 1
            /\ Len(Stream) = IF Con.owes = "nothing" THEN 2 ELSE 1
    /\ pc \in {"accept", "reading", "final"} => Final
    /\ pc = "reading" => got # Stdout
Others ==
  \A i \in DOMAIN connections :
    LET k == connections[i].socket IN
    k # control /\ server[k].link = "up" => Quiet(server[k])

\* Once an accept has failed for want of a descriptor there will be none.
Stuck == Free = {} /\ pc \in {"idle", "listen"}
InStep == Stuck \/ (Talk /\ Others)

Inv == TypeOK /\ SocketsAccounted /\ CachedAreLoggedIn /\ Numbered /\ Current /\ LoggingIn /\ InStep
-----------------------------------------------------------------------------
(* Descriptors and conversations.                                          *)

\* There is a least free descriptor if there is one.
LEMMA LeastExists ==
  ASSUME NEW S, S \subseteq Nat, S # {}
  PROVE  Min(S) \in S
<1> DEFINE R == {ss \in Nat \X Nat : ss[1] < ss[2]}
<1>0. IsWellFoundedOn(R, Nat)
  BY NatLessThanWellFounded, Zenon DEF OpToRel
<1> HIDE DEF R
<1>1. PICK x \in S : \A y \in S : ~(<<y, x>> \in R)
  BY <1>0, WFMin, Zenon
<1>2. \A y \in S : x <= y
  <2> SUFFICES ASSUME NEW y \in S PROVE ~(y < x)
    OBVIOUS
  <2>1. <<y, x>> \in Nat \X Nat /\ <<y, x>>[1] = y /\ <<y, x>>[2] = x
    OBVIOUS
  <2> QED
    BY <1>1, <2>1 DEF R
<1> QED
  BY <1>1, <1>2 DEF Min

\* A descriptor that is opened was closed.
LEMMA NewFdIsFree ==
  ASSUME Free # {}
  PROVE  NewFd \in Fd /\ file[NewFd] = "closed"
<1>1. Free \subseteq Nat
  BY FtpAssumption DEF Free, Fd
<1>2. NewFd \in Free
  BY <1>1, LeastExists DEF NewFd
<1> QED
  BY <1>2 DEF Free

\* The descriptors are 0 to MaxFd, and -1 is none of them.
LEMMA Numbers ==
  MaxFd \in Nat /\ Stdout \in Fd /\ -1 \notin Fd /\ Stdout = 1 /\ 0 \in Fd
  BY FtpAssumption DEF Fd, Stdout

\* A connection begins with a greeting still to come.
LEMMA NewConversations ==
  /\ \A h \in Host : /\ Greeting(h) \in Conversation
                     /\ Greeting(h).host = h /\ Greeting(h).link = "up"
                     /\ Greeting(h).todo = <<"greeting">> /\ Greeting(h).said = <<>>
                     /\ Greeting(h).owes = "nothing"
  /\ Nobody \in Conversation
<1>1. ASSUME NEW h \in Host PROVE Greeting(h) \in Conversation
  <2>1. <<"greeting">> \in Seq(Commands) /\ <<>> \in Seq(1 .. 4)
    BY DEF Commands
  <2> QED
    BY <2>1 DEF Greeting, Conversation
<1>2. (CHOOSE h \in Host : TRUE) \in Host
  BY FtpAssumption
<1> QED
  BY <1>1, <1>2 DEF Greeting, Nobody

\* A conversation is its parts.
LEMMA Parts ==
  ASSUME NEW s \in Conversation
  PROVE  /\ s = [host |-> s.host, link |-> s.link, in |-> s.in, port |-> s.port,
                 todo |-> s.todo, said |-> s.said, owes |-> s.owes]
         /\ s.host \in Host /\ s.link \in {"up", "down", "reset"} /\ s.in \in BOOLEAN
         /\ s.port \in {"old", "current"} /\ s.todo \in Seq(Commands) /\ s.said \in Seq(1 .. 4)
         /\ s.owes \in {"nothing", "connection", "data"}
  BY DEF Conversation

\* Only what has been said changes.
LEMMA SetSaid ==
  ASSUME NEW s \in Conversation, NEW said2 \in Seq(1 .. 4)
  PROVE  [s EXCEPT !.said = said2] =
           [host |-> s.host, link |-> s.link, in |-> s.in, port |-> s.port,
            todo |-> s.todo, said |-> said2, owes |-> s.owes]
<1> DEFINE t == [host |-> s.host, link |-> s.link, in |-> s.in, port |-> s.port,
                 todo |-> s.todo, said |-> s.said, owes |-> s.owes]
<1>1. s = t
  BY Parts
<1>2. [t EXCEPT !.said = said2] =
           [host |-> s.host, link |-> s.link, in |-> s.in, port |-> s.port,
            todo |-> s.todo, said |-> said2, owes |-> s.owes]
  OBVIOUS
<1> HIDE DEF t
<1> QED
  BY <1>1, <1>2

\* Only what is to be answered changes.
LEMMA SetTodo ==
  ASSUME NEW s \in Conversation, NEW todo2 \in Seq(Commands)
  PROVE  [s EXCEPT !.todo = todo2] =
           [host |-> s.host, link |-> s.link, in |-> s.in, port |-> s.port,
            todo |-> todo2, said |-> s.said, owes |-> s.owes]
<1> DEFINE t == [host |-> s.host, link |-> s.link, in |-> s.in, port |-> s.port,
                 todo |-> s.todo, said |-> s.said, owes |-> s.owes]
<1>1. s = t
  BY Parts
<1>2. [t EXCEPT !.todo = todo2] =
           [host |-> s.host, link |-> s.link, in |-> s.in, port |-> s.port,
            todo |-> todo2, said |-> s.said, owes |-> s.owes]
  OBVIOUS
<1> HIDE DEF t
<1> QED
  BY <1>1, <1>2

\* A connection in the list is open, and to the host the list says.
LEMMA ListedFacts ==
  ASSUME TypeOK, CachedAreLoggedIn, NEW i \in DOMAIN connections
  PROVE  /\ connections[i].socket \in Fd /\ connections[i].addr \in Host
         /\ file[connections[i].socket] = "control"
         /\ server[connections[i].socket].host = connections[i].addr
         /\ server[connections[i].socket].host \in Cached
         /\ server[connections[i].socket] \in Conversation
<1>1. connections \in Seq([addr : Host, socket : Fd])
  BY DEF TypeOK
<1>2. connections[i] \in [addr : Host, socket : Fd]
  BY <1>1, InDomain
<1> QED
  BY <1>2 DEF CachedAreLoggedIn, Cached, TypeOK

\* The newest connection is in use, unless it was refused.
LEMMA NewestFacts ==
  ASSUME TypeOK, CachedAreLoggedIn, Current, ~dangling, control # -1,
         pc \notin LoginSteps \cup {"killed"}
  PROVE  /\ Talking /\ control \in Fd /\ connections # <<>> /\ 1 \in DOMAIN connections
         /\ connections[1] = [addr |-> Con.host, socket |-> control] /\ Con \in Conversation
<1>1. connections # <<>> /\ connections[1].socket = control
  BY DEF Current
<1>2. connections \in Seq([addr : Host, socket : Fd])
  BY DEF TypeOK
<1>3. 1 \in DOMAIN connections /\ connections[1] \in [addr : Host, socket : Fd]
  BY <1>1, <1>2, InDomain
<1>4. /\ control \in Fd /\ file[control] = "control" /\ Con \in Conversation
      /\ Con.host = connections[1].addr
  BY <1>1, <1>3, ListedFacts DEF Con
<1> QED
  BY <1>1, <1>3, <1>4 DEF Talking

\* What the client reads is the first reply there is; or it finds the end, and
\* then the connection is not up, or it talks to none.
LEMMA Reading ==
  ASSUME TypeOK, control \in Fd, NEW r \in NextReply
  PROVE  /\ r.server \in [Fd -> Conversation] /\ r.buffer \in Seq(1 .. 4)
         /\ \A k \in Fd : k # control => r.server[k] = server[k]
         /\ LET s == r.server[control] IN
            /\ s.host = Con.host /\ s.link = Con.link /\ s.in = Con.in /\ s.todo = Con.todo
            /\ s.owes = Con.owes
            /\ \/ /\ r.reply = -1 /\ r.server = server /\ r.buffer = buffer
                  /\ ~Talking \/ Con.link # "up"
               \/ /\ r.reply \in 1 .. 4 /\ Talking /\ Stream # <<>> /\ r.reply = Stream[1]
                  /\ r.buffer \o s.said = Tail(Stream)
<1>1. /\ server \in [Fd -> Conversation] /\ Con \in Conversation
      /\ buffer \in Seq(1 .. 4) /\ Con.said \in Seq(1 .. 4) /\ Con = server[control]
  BY DEF TypeOK, Con, Conversation
<1>2. CASE r = Lost /\ (~Talking \/ Ended)
  <2>1. r.reply = -1 /\ r.server = server /\ r.buffer = buffer
    BY <1>2 DEF Lost
  <2>2. ~Talking \/ Con.link # "up"
    BY <1>2 DEF Ended, Con
  <2> QED
    BY <1>1, <2>1, <2>2
<1>3. CASE Talking /\ buffer # <<>> /\ r = [reply |-> buffer[1], server |-> server, buffer |-> Tail(buffer)]
  <2>1. r.reply = buffer[1] /\ r.server = server /\ r.buffer = Tail(buffer)
    BY <1>3
  <2>2. r.buffer \o Con.said = Tail(Stream) /\ Stream[1] = buffer[1] /\ Stream # <<>>
    BY <1>1, <1>3, <2>1, TailJoined DEF Stream
  <2>3. r.buffer \in Seq(1 .. 4) /\ r.reply \in 1 .. 4
    BY <1>1, <1>3, <2>1, TailFacts
  <2> QED
    BY <1>1, <1>3, <2>1, <2>2, <2>3
<1>4. CASE Talking /\ buffer = <<>> /\
           \E n \in 1 .. Len(Con.said) :
             r = [reply  |-> Con.said[1],
                  server |-> [server EXCEPT ![control].said = SubSeq(Con.said, n + 1, Len(Con.said))],
                  buffer |-> SubSeq(Con.said, 2, n)]
  <2> DEFINE said == Con.said
  <2>1. PICK n \in 1 .. Len(said) :
             r = [reply  |-> said[1],
                  server |-> [server EXCEPT ![control].said = SubSeq(said, n + 1, Len(said))],
                  buffer |-> SubSeq(said, 2, n)]
    BY <1>4
  <2> DEFINE left == SubSeq(said, n + 1, Len(said))
             s == [host |-> Con.host, link |-> Con.link, in |-> Con.in, port |-> Con.port,
                   todo |-> Con.todo, said |-> left, owes |-> Con.owes]
  <2>2. said \in Seq(1 .. 4) /\ said # <<>> /\ n \in Nat /\ 1 <= n /\ n <= Len(said)
    BY <1>1
  <2>3. /\ SubSeq(said, 2, n) \in Seq(1 .. 4) /\ left \in Seq(1 .. 4)
        /\ SubSeq(said, 2, n) \o left = Tail(said)
    BY <2>2, SubSeqFacts, ReadAhead
  <2>4. Stream = said
    BY <1>1, <1>4 DEF Stream
  <2>5. said[1] \in 1 .. 4
    BY <2>2, TailFacts
  <2> HIDE DEF left, said
  <2>6. [Con EXCEPT !.said = left] = s /\ s \in Conversation
    <3>1. [Con EXCEPT !.said = left] = s
      BY <1>1, <2>3, SetSaid
    <3>2. s \in Conversation
      BY <1>1, <2>3, Parts DEF Conversation
    <3> QED
      BY <3>1, <3>2
  <2>7. [server EXCEPT ![control].said = left] = [server EXCEPT ![control] = s]
    BY <1>1, <2>6
  <2>8. r.reply = said[1] /\ r.server = [server EXCEPT ![control] = s] /\ r.buffer = SubSeq(said, 2, n)
    BY <2>1, <2>7 DEF left
  <2>9. r.server \in [Fd -> Conversation] /\ \A k \in Fd : k # control => r.server[k] = server[k]
    BY <1>1, <2>6, <2>8
  <2>10. /\ r.server[control] = s /\ s.said = left
         /\ s.host = Con.host /\ s.link = Con.link /\ s.in = Con.in /\ s.todo = Con.todo
         /\ s.owes = Con.owes
    BY <1>1, <2>8
  <2> HIDE DEF s
  <2>11. r.buffer \o s.said = Tail(Stream)
    <3>1. r.buffer = SubSeq(said, 2, n)
      BY <2>8
    <3> QED
      BY <2>3, <2>4, <2>10, <3>1, Zenon
  <2> QED
    BY <1>4, <2>2, <2>3, <2>4, <2>5, <2>8, <2>9, <2>10, <2>11
<1>5. r \in CASE ~Talking -> {Lost}
            [] Talking /\ buffer # <<>> ->
                 {[reply |-> buffer[1], server |-> server, buffer |-> Tail(buffer)]}
            [] OTHER ->
                 {[reply  |-> Con.said[1],
                   server |-> [server EXCEPT ![control].said = SubSeq(Con.said, n + 1, Len(Con.said))],
                   buffer |-> SubSeq(Con.said, 2, n)] : n \in 1 .. Len(Con.said)}
                   \cup {l \in {Lost} : Ended}
  BY DEF NextReply, Con
<1> QED
  BY <1>2, <1>3, <1>4, <1>5

\* What a command does to the connection it is written to.
LEMMA Writing ==
  ASSUME NEW srv \in [Fd -> Conversation], control \in Fd, NEW cmd \in Commands,
         server' = Written(srv, cmd)
  PROVE  /\ server' \in [Fd -> Conversation]
         /\ \A k \in Fd : k # control => server'[k] = srv[k]
         /\ LET s == server'[control]
                t == srv[control] IN
            /\ s.host = t.host /\ s.in = t.in /\ s.said = t.said /\ s.owes = t.owes
            /\ s.link = "up" => t.link = "up"
            /\ Talking /\ t.link = "up" => s.todo = Append(t.todo, cmd)
<1> DEFINE t == srv[control]
<1>1. t \in Conversation
  OBVIOUS
<1>2. CASE ~Talking
  BY <1>1, <1>2 DEF Written
<1>3. CASE Talking /\ t.link = "up"
  <2> DEFINE s == [host |-> t.host, link |-> t.link, in |-> t.in, port |-> t.port,
                   todo |-> Append(t.todo, cmd), said |-> t.said, owes |-> t.owes]
  <2>1. Append(t.todo, cmd) \in Seq(Commands)
    BY <1>1, Parts, AppendFacts
  <2>2. [t EXCEPT !.todo = Append(t.todo, cmd)] = s /\ s \in Conversation
    <3>1. [t EXCEPT !.todo = Append(t.todo, cmd)] = s
      BY <1>1, <2>1, SetTodo
    <3>2. s \in Conversation
      BY <1>1, <2>1, Parts DEF Conversation
    <3> QED
      BY <3>1, <3>2
  <2>3. server' = [srv EXCEPT ![control] = s]
    BY <1>3, <2>2 DEF Written
  <2> QED
    BY <1>3, <2>2, <2>3
<1>4. CASE Talking /\ t.link # "up"
  <2> DEFINE s == [host |-> t.host, link |-> "reset", in |-> t.in, port |-> t.port,
                   todo |-> t.todo, said |-> t.said, owes |-> t.owes]
  <2>2. [t EXCEPT !.link = "reset"] = s /\ s \in Conversation
    BY <1>1, Parts DEF Conversation
  <2>3. server' = [srv EXCEPT ![control] = s]
    BY <1>4, <2>2 DEF Written
  <2> QED
    BY <1>4, <2>2, <2>3
<1> QED
  BY <1>2, <1>3, <1>4
\* What is on its way from the newest connection.
LEMMA StreamFacts ==
  ASSUME TypeOK, control \in Fd
  PROVE  /\ Stream \in Seq(1 .. 4) /\ buffer \in Seq(1 .. 4) /\ Con.said \in Seq(1 .. 4)
         /\ Con \in Conversation /\ Con.todo \in Seq(Commands)
         /\ Len(Stream) \in Nat /\ (Len(Stream) = 0 <=> Stream = <<>>)
         /\ Stream = <<>> <=> buffer = <<>> /\ Con.said = <<>>
         /\ Stream # <<>> => /\ Len(Tail(Stream)) = Len(Stream) - 1 /\ Len(Stream) >= 1
                             /\ \A i \in 1 .. Len(Stream) - 1 : Tail(Stream)[i] = Stream[i + 1]
                             /\ Len(Stream) = 1 => Tail(Stream) = <<>>
<1>1. buffer \in Seq(1 .. 4) /\ Con \in Conversation
  BY DEF TypeOK, Con
<1>2. Con.said \in Seq(1 .. 4) /\ Con.todo \in Seq(Commands)
  BY <1>1, Parts
<1>3. Stream \in Seq(1 .. 4) /\ (Stream = <<>> <=> buffer = <<>> /\ Con.said = <<>>)
  BY <1>1, <1>2, Joined, JoinedEmpty DEF Stream
<1>4. Len(Stream) \in Nat /\ (Len(Stream) = 0 <=> Stream = <<>>)
  BY <1>3
<1>5. Stream # <<>> => /\ Len(Tail(Stream)) = Len(Stream) - 1 /\ Len(Stream) >= 1
                       /\ \A i \in 1 .. Len(Stream) - 1 : Tail(Stream)[i] = Stream[i + 1]
                       /\ Tail(Stream) \in Seq(1 .. 4)
  BY <1>3, TailFacts
<1>6. Stream # <<>> /\ Len(Stream) = 1 => Tail(Stream) = <<>>
  BY <1>3, TailOfOne
<1> QED
  BY <1>1, <1>2, <1>3, <1>4, <1>5, <1>6

\* The list stays true if its connections stay open and logged in.
LEMMA CachedKept ==
  ASSUME TypeOK, CachedAreLoggedIn, UNCHANGED connections,
         \A k \in Fd : file[k] = "control" /\ Listed(k) =>
           /\ file'[k] = "control" /\ server'[k].host = server[k].host
           /\ server[k].in => server'[k].in
  PROVE  CachedAreLoggedIn'
<1>1. ASSUME NEW i \in DOMAIN connections
      PROVE  LET con == connections[i] IN
             /\ file'[con.socket] = "control"
             /\ server'[con.socket].host = con.addr /\ server'[con.socket].in
             /\ \A j \in DOMAIN connections : i # j => connections[j].addr # con.addr
  <2>1. connections[i].socket \in Fd /\ Listed(connections[i].socket)
    BY ListedFacts DEF Listed
  <2> QED
    BY <2>1 DEF CachedAreLoggedIn
<1> QED
  BY <1>1 DEF CachedAreLoggedIn

\* The connections that are not talked to stay quiet.
LEMMA OthersKept ==
  ASSUME TypeOK, CachedAreLoggedIn, Others, UNCHANGED <<connections, control>>,
         \A k \in Fd : k # control /\ server'[k].link = "up" =>
           server[k].link = "up" /\ (Quiet(server[k]) => Quiet(server'[k]))
  PROVE  Others'
<1>1. ASSUME NEW i \in DOMAIN connections, connections[i].socket # control,
             server'[connections[i].socket].link = "up"
      PROVE  Quiet(server'[connections[i].socket])
  <2>1. connections[i].socket \in Fd
    BY ListedFacts
  <2> QED
    BY <1>1, <2>1 DEF Others
<1> QED
  BY <1>1 DEF Others, Quiet

\* The newest connection is between two loads.
LEMMA AllQuiet ==
  ASSUME TypeOK, CachedAreLoggedIn, Current, Talk, Others, pc = "idle",
         NEW i \in DOMAIN connections, server[connections[i].socket].link = "up"
  PROVE  Quiet(server[connections[i].socket])
<1>1. CASE connections[i].socket # control
  BY <1>1 DEF Others
<1>2. CASE connections[i].socket = control
  <2>1. control # -1 /\ file[control] = "control"
    BY <1>2, ListedFacts, Numbers
  <2> QED
    BY <1>2, <2>1 DEF Talk, Current, Con
<1> QED
  BY <1>1, <1>2

-----------------------------------------------------------------------------
(* Getting a connection.                                                   *)

\* At first there is no connection, and only the standard descriptors are open.
LEMMA InitInv == Init => Inv
<1> SUFFICES ASSUME Init PROVE Inv
  OBVIOUS
<1> USE Numbers DEF Init
<1>1. TypeOK
  <2>1. <<>> \in Seq([addr : Host, socket : Fd]) /\ <<>> \in Seq(1 .. 4)
    OBVIOUS
  <2> QED
    BY <2>1, NewConversations DEF TypeOK
<1>2. SocketsAccounted /\ Numbered
  BY DEF SocketsAccounted, Numbered
<1>3. DOMAIN connections = {}
  OBVIOUS
<1>4. CachedAreLoggedIn /\ Others
  BY <1>3 DEF CachedAreLoggedIn, Others
<1>5. Current /\ LoggingIn /\ Talk
  BY DEF Current, LoggingIn, Talk, LoginSteps
<1> QED
  BY <1>1, <1>2, <1>4, <1>5 DEF Inv, InStep

\* A load from a host that is connected goes on with the connection that was current.
LEMMA ReuseInv ==
  ASSUME Inv, file[Stdout] = "std", NEW h \in Host, Reuse(h)
  PROVE  Inv'
<1>1. /\ TypeOK /\ SocketsAccounted /\ CachedAreLoggedIn /\ Numbered /\ Current /\ InStep
      /\ pc = "idle" /\ h \in Cached /\ buffer' = <<>> /\ pc' = "listen"
      /\ UNCHANGED <<file, server, pending, feeder, connections, control, dangling, master_socket,
                     data_soc, got>>
  BY DEF Inv, Reuse, sockets
<1>2. TypeOK'
  BY <1>1 DEF TypeOK, LoginSteps
<1>3. SocketsAccounted'
  BY <1>1 DEF SocketsAccounted, LoginSteps
<1>4. CachedAreLoggedIn'
  BY <1>1 DEF CachedAreLoggedIn
<1>5. Numbered'
  BY <1>1 DEF Numbered
<1>6. Current'
  <2>1. connections # <<>>
    <3>1. DOMAIN connections # {}
      BY <1>1 DEF Cached
    <3> QED
      BY <3>1
  <2> QED
    BY <1>1, <2>1 DEF Current, LoginSteps
<1>7. LoggingIn'
  BY <1>1 DEF LoggingIn, LoginSteps
<1>8. InStep'
  <2>1. CASE Stuck
    BY <1>1, <2>1 DEF InStep, Stuck, Free
  <2>2. CASE Talk /\ Others
    BY <1>1, <2>2 DEF InStep, Talk, Others, Con, Quiet
  <2> QED
    BY <1>1, <2>1, <2>2 DEF InStep
<1> QED
  BY <1>2, <1>3, <1>4, <1>5, <1>6, <1>7, <1>8 DEF Inv

\* The host cannot be reached: only the buffer is another.
LEMMA ConnectFailsInv ==
  ASSUME Inv, NEW h \in Host, ConnectFails(h)
  PROVE  Inv'
<1>1. /\ TypeOK /\ SocketsAccounted /\ CachedAreLoggedIn /\ Numbered /\ Current /\ InStep
      /\ pc = "idle" /\ buffer' = <<>>
      /\ UNCHANGED <<file, server, pending, feeder, connections, control, dangling, master_socket,
                     data_soc, pc, got>>
  BY DEF Inv, ConnectFails, sockets
<1>2. TypeOK'
  BY <1>1 DEF TypeOK
<1>3. SocketsAccounted' /\ CachedAreLoggedIn' /\ Numbered' /\ Current'
  BY <1>1 DEF SocketsAccounted, CachedAreLoggedIn, Numbered, Current
<1>4. LoggingIn'
  BY <1>1 DEF LoggingIn, LoginSteps
<1>5. InStep'
  <2>1. CASE Stuck
    BY <1>1, <2>1 DEF InStep, Stuck, Free
  <2>2. CASE Talk /\ Others
    BY <1>1, <2>2 DEF InStep, Talk, Others, Con, Quiet
  <2> QED
    BY <1>1, <2>1, <2>2 DEF InStep
<1> QED
  BY <1>2, <1>3, <1>4, <1>5 DEF Inv

\* A new connection is the only one to its host.
LEMMA ConnectInv ==
  ASSUME Inv, file[Stdout] = "std", NEW h \in Host, Connect(h)
  PROVE  Inv'
<1>1. /\ TypeOK /\ SocketsAccounted /\ CachedAreLoggedIn /\ Numbered /\ Current /\ InStep
      /\ pc = "idle" /\ h \notin Cached /\ Free # {}
      /\ file' = [file EXCEPT ![NewFd] = "control"]
      /\ server' = [server EXCEPT ![NewFd] = Greeting(h)]
      /\ control' = NewFd /\ dangling' = FALSE
      /\ buffer' = <<>> /\ pc' = "greeting"
      /\ UNCHANGED <<pending, feeder, connections, master_socket, data_soc, got>>
  BY DEF Inv, Connect
<1>2. /\ NewFd \in Fd /\ file[NewFd] = "closed" /\ NewFd # -1
      /\ file \in [Fd -> {"closed", "std", "socket", "listening", "data", "control"}]
      /\ server \in [Fd -> Conversation] /\ Greeting(h) \in Conversation
  BY <1>1, NewFdIsFree, NewConversations, Numbers DEF TypeOK
<1> DEFINE fd == NewFd
<1>3. /\ file' = [file EXCEPT ![fd] = "control"] /\ server' = [server EXCEPT ![fd] = Greeting(h)]
      /\ control' = fd /\ fd \in Fd /\ file[fd] = "closed" /\ fd # -1
  BY <1>1, <1>2
<1> HIDE DEF fd
<1>4. /\ file'[fd] = "control" /\ \A k \in Fd : k # fd => file'[k] = file[k]
      /\ server'[fd] = Greeting(h) /\ \A k \in Fd : k # fd => server'[k] = server[k]
      /\ file' \in [Fd -> {"closed", "std", "socket", "listening", "data", "control"}]
      /\ server' \in [Fd -> Conversation]
  BY <1>2, <1>3
<1>5. TypeOK'
  <2>1. buffer' \in Seq(1 .. 4)
    BY <1>1, EmptySeq
  <2>2. pc' \in LoginSteps /\ control' \in Fd \cup {-1} /\ dangling' \in BOOLEAN
    BY <1>1, <1>3 DEF LoginSteps
  <2>3. UNCHANGED <<pending, feeder, connections, master_socket, data_soc, got>>
    BY <1>1
  <2> QED
    BY <1>1, <1>4, <2>1, <2>2, <2>3 DEF TypeOK
<1>6. SocketsAccounted'
  <2> SUFFICES ASSUME NEW k \in Fd
               PROVE  /\ file'[k] = "control" => Listed(k) \/ k = fd
                      /\ file'[k] = "listening" => k = master_socket
                      /\ file'[k] # "data"
    BY <1>1, <1>3 DEF SocketsAccounted, Listed, LoginSteps
  <2> QED
    BY <1>1, <1>4 DEF SocketsAccounted, Listed, LoginSteps
<1>7. CachedAreLoggedIn'
  BY <1>1, <1>3, <1>4, CachedKept
<1>8. Numbered'
  BY <1>1, <1>3, <1>4, Numbers DEF Numbered, TypeOK
<1>9. Current'
  BY <1>1, <1>3 DEF Current, LoginSteps
<1>10. LoggingIn'
  <2>1. Con' = Greeting(h)
    BY <1>3, <1>4 DEF Con
  <2>2. /\ Con'.host = h /\ Con'.todo = <<"greeting">> /\ Con'.owes = "nothing"
        /\ Con'.said = <<>>
    BY <2>1, NewConversations
  <2>3. Stream' = <<>> \o Con'.said
    BY <1>1 DEF Stream
  <2>4. Stream' = <<>> /\ Len(Stream') = 0
    BY <2>2, <2>3, Single
  <2>5. Cached' = Cached
    BY <1>1 DEF Cached
  <2> QED
    BY <1>1, <1>3, <1>4, <2>2, <2>4, <2>5 DEF LoggingIn
<1>11. InStep'
  <2>1. Talk /\ Others
    BY <1>1 DEF InStep, Stuck
  <2>2. Talk'
    BY <1>1 DEF Talk
  <2>3. ASSUME NEW i \in DOMAIN connections, connections[i].socket # fd,
               server'[connections[i].socket].link = "up"
        PROVE  Quiet(server'[connections[i].socket])
    <3>1. connections[i].socket \in Fd
      BY <1>1, ListedFacts
    <3>2. server'[connections[i].socket] = server[connections[i].socket]
      BY <1>4, <2>3, <3>1
    <3> QED
      BY <1>1, <2>1, <2>3, <3>2, AllQuiet
  <2>4. Others'
    BY <1>1, <1>3, <2>3 DEF Others, Quiet
  <2> QED
    BY <2>2, <2>4 DEF InStep
<1> QED
  BY <1>5, <1>6, <1>7, <1>8, <1>9, <1>10, <1>11 DEF Inv
-----------------------------------------------------------------------------
(* Logging in.                                                             *)

\* What a reply during the login says: it is in time, and a 2 lets us in.
LEMMA LoginReply ==
  ASSUME Inv, pc \in LoginSteps, NEW r \in NextReply
  PROVE  /\ TypeOK /\ SocketsAccounted /\ CachedAreLoggedIn /\ Numbered /\ Current /\ LoggingIn
         /\ Talk /\ Others
         /\ control \in Fd /\ control # -1 /\ control # Stdout /\ file[control] = "control"
         /\ file[Stdout] = "std" /\ ~dangling
         /\ \A i \in DOMAIN connections : connections[i].socket # control
         /\ r.server \in [Fd -> Conversation] /\ r.buffer \in Seq(1 .. 4)
         /\ \A k \in Fd : k # control => r.server[k] = server[k]
         /\ r.server[control].host = Con.host /\ r.server[control].link = Con.link
         /\ r.server[control].in = Con.in /\ r.server[control].owes = "nothing"
         /\ r.server[control].todo = Con.todo
         /\ \/ r.reply = -1 /\ r.server = server
            \/ /\ r.reply \in 1 .. 4 /\ r.reply = Stream[1]
               /\ r.buffer \o r.server[control].said = Tail(Stream)
               /\ Con.link = "up" => Con.todo = <<>> /\ Tail(Stream) = <<>>
               /\ \A i \in 1 .. Len(Tail(Stream)) : Tail(Stream)[i] = 4
               /\ r.reply = 2 /\ pc # "greeting" => Con.in
<1>1. /\ TypeOK /\ SocketsAccounted /\ CachedAreLoggedIn /\ Numbered /\ Current /\ LoggingIn /\ InStep
  BY DEF Inv
<1>2. pc \notin {"idle", "listen"}
  BY DEF LoginSteps
<1>3. Talk /\ Others
  BY <1>1, <1>2 DEF InStep, Stuck
<1>4. /\ control \in Fd /\ control # -1 /\ file[control] = "control" /\ ~dangling
      /\ file[Stdout] = "std" /\ Con.host \notin Cached /\ Con.owes = "nothing"
  BY <1>1, <1>2, Numbers DEF LoggingIn, Numbered, Current, TypeOK
<1>5. control # Stdout
  BY <1>4
<1>6. \A i \in DOMAIN connections : connections[i].socket # control
  BY <1>1, <1>4, ListedFacts DEF Con
<1>7. /\ r.server \in [Fd -> Conversation] /\ r.buffer \in Seq(1 .. 4)
      /\ \A k \in Fd : k # control => r.server[k] = server[k]
      /\ r.server[control].host = Con.host /\ r.server[control].link = Con.link
      /\ r.server[control].in = Con.in /\ r.server[control].owes = Con.owes
      /\ r.server[control].todo = Con.todo
      /\ \/ r.reply = -1 /\ r.server = server
         \/ /\ r.reply \in 1 .. 4 /\ Stream # <<>> /\ r.reply = Stream[1]
            /\ r.buffer \o r.server[control].said = Tail(Stream)
  BY <1>1, <1>4, Reading
<1>8. ASSUME Stream # <<>>
      PROVE  /\ Con.link = "up" => Con.todo = <<>> /\ Tail(Stream) = <<>>
             /\ \A i \in 1 .. Len(Tail(Stream)) : Tail(Stream)[i] = 4
             /\ Stream[1] = 2 /\ pc # "greeting" => Con.in
  <2>1. /\ Len(Stream) \in Nat /\ Len(Stream) > 0 /\ Len(Tail(Stream)) = Len(Stream) - 1
        /\ \A i \in 1 .. Len(Stream) - 1 : Tail(Stream)[i] = Stream[i + 1]
        /\ Len(Stream) = 1 => Tail(Stream) = <<>>
    BY <1>1, <1>4, <1>8, StreamFacts
  <2>2. /\ Con.link = "up" => Con.todo = <<>> /\ Len(Stream) = 1
        /\ Stream[1] = 2 /\ pc # "greeting" => Con.in
    BY <1>1, <1>8, <2>1 DEF LoggingIn
  <2>3. \A i \in 2 .. Len(Stream) : Stream[i] = 4
    BY <1>1 DEF LoggingIn
  <2>4. ASSUME NEW i \in 1 .. Len(Tail(Stream)) PROVE Tail(Stream)[i] = 4
    <3>1. i \in 1 .. Len(Stream) - 1 /\ i + 1 \in 2 .. Len(Stream)
      BY <2>1
    <3> QED
      BY <2>1, <2>3, <3>1
  <2> QED
    BY <2>1, <2>2, <2>4
<1> QED
  BY <1>1, <1>3, <1>4, <1>5, <1>6, <1>7, <1>8

\* The next command of a login is sent.
LEMMA LoginGoesOn ==
  ASSUME Inv, pc \in LoginSteps, NEW r \in NextReply, NEW next \in LoginSteps, next # "greeting",
         r.reply # -1, buffer' = r.buffer, Issue(r.server, next),
         UNCHANGED <<file, connections, dangling, got, pending, feeder, control, master_socket, data_soc>>
  PROVE  Inv'
<1>1. /\ TypeOK /\ SocketsAccounted /\ CachedAreLoggedIn /\ Numbered /\ Current /\ LoggingIn
      /\ Talk /\ Others
      /\ control \in Fd /\ control # -1 /\ file[control] = "control" /\ ~dangling
      /\ file[Stdout] = "std"
      /\ \A i \in DOMAIN connections : connections[i].socket # control
      /\ r.server \in [Fd -> Conversation] /\ r.buffer \in Seq(1 .. 4)
      /\ \A k \in Fd : k # control => r.server[k] = server[k]
      /\ r.server[control].host = Con.host /\ r.server[control].link = Con.link
      /\ r.server[control].in = Con.in /\ r.server[control].owes = "nothing"
      /\ r.server[control].todo = Con.todo
      /\ r.buffer \o r.server[control].said = Tail(Stream)
      /\ Con.link = "up" => Con.todo = <<>> /\ Tail(Stream) = <<>>
      /\ \A i \in 1 .. Len(Tail(Stream)) : Tail(Stream)[i] = 4
  BY LoginReply
<1>2. /\ pc' = IF Fatal THEN "killed" ELSE next
      /\ server' = Written(r.server, next) /\ next \in Commands
  BY DEF Issue, LoginSteps, Commands
<1>3. /\ server' \in [Fd -> Conversation]
      /\ \A k \in Fd : k # control => server'[k] = server[k]
      /\ server'[control].host = Con.host /\ server'[control].in = Con.in
      /\ server'[control].owes = "nothing"
      /\ server'[control].said = r.server[control].said
      /\ server'[control].link = "up" => Con.link = "up"
      /\ Con.link = "up" => server'[control].todo = Append(Con.todo, next)
  <2>1. Talking
    BY <1>1 DEF Talking
  <2> QED
    BY <1>1, <1>2, <2>1, Writing
<1>4. /\ Con' = server'[control]
      /\ Stream' = Tail(Stream)
  <2>1. Con' = server'[control]
    BY DEF Con
  <2>2. Stream' = buffer' \o Con'.said
    BY DEF Stream
  <2> QED
    BY <1>1, <1>3, <2>1, <2>2
<1>5. TypeOK'
  <2>1. pc' \in LoginSteps \cup {"killed"}
    BY <1>2
  <2>2. buffer' \in Seq(1 .. 4)
    BY <1>1
  <2> QED
    BY <1>1, <1>3, <2>1, <2>2 DEF TypeOK
<1>6. SocketsAccounted'
  BY <1>1, <1>2 DEF SocketsAccounted, LoginSteps
<1>7. CachedAreLoggedIn'
  BY <1>1, <1>3, CachedKept DEF Con
<1>8. Numbered' /\ Current'
  BY <1>1, <1>2 DEF Numbered, Current, LoginSteps
<1>9. LoggingIn'
  <2> SUFFICES ASSUME pc' = next PROVE LoggingIn'
    BY <1>2 DEF LoggingIn, LoginSteps
  <2>1. Cached' = Cached /\ Con.host \notin Cached
    BY <1>1 DEF LoggingIn, Cached
  <2>2. Con'.link = "up" => Con'.todo = <<next>> /\ Stream' = <<>>
    BY <1>1, <1>3, <1>4, Single
  <2>3. \A i \in 1 .. Len(Stream') : Stream'[i] = 4
    BY <1>1, <1>4
  <2>4. Len(Stream') \in Nat
    <3>1. Stream # <<>> => Len(Tail(Stream)) \in Nat
      BY <1>1, StreamFacts
    <3>2. Stream # <<>>
      BY <1>1, Reading
    <3> QED
      BY <1>4, <3>1, <3>2
  <2>5. /\ Len(Stream') > 0 => Stream'[1] # 2
        /\ \A i \in 2 .. Len(Stream') : Stream'[i] = 4
    BY <2>3, <2>4
  <2> QED
    BY <1>1, <1>3, <1>4, <2>1, <2>2, <2>5 DEF LoggingIn
<1>10. InStep'
  <2>1. Talk'
    BY <1>2 DEF Talk, LoginSteps
  <2>2. Others'
    BY <1>1, <1>3, OthersKept
  <2> QED
    BY <2>1, <2>2 DEF InStep
<1> QED
  BY <1>5, <1>6, <1>7, <1>8, <1>9, <1>10 DEF Inv

\* A connection that is put into the list is logged in, and quiet.
LEMMA LoginEnds ==
  ASSUME Inv, pc \in LoginSteps, NEW r \in NextReply, r.reply = 2, pc # "greeting",
         buffer' = r.buffer, LinkConnection, server' = r.server, pc' = "listen",
         UNCHANGED <<file, dangling, got, pending, feeder, control, master_socket, data_soc>>
  PROVE  Inv'
<1>1. /\ TypeOK /\ SocketsAccounted /\ CachedAreLoggedIn /\ Numbered /\ Current /\ LoggingIn
      /\ Talk /\ Others
      /\ control \in Fd /\ control # -1 /\ file[control] = "control" /\ ~dangling
      /\ file[Stdout] = "std"
      /\ \A i \in DOMAIN connections : connections[i].socket # control
      /\ r.server \in [Fd -> Conversation] /\ r.buffer \in Seq(1 .. 4)
      /\ \A k \in Fd : k # control => r.server[k] = server[k]
      /\ r.server[control].host = Con.host /\ r.server[control].link = Con.link
      /\ r.server[control].in = Con.in /\ r.server[control].owes = "nothing"
      /\ r.server[control].todo = Con.todo
      /\ r.buffer \o r.server[control].said = Tail(Stream)
      /\ Con.link = "up" => Con.todo = <<>> /\ Tail(Stream) = <<>>
      /\ Con.in
  <2>1. r.reply # -1
    OBVIOUS
  <2>2. /\ TypeOK /\ SocketsAccounted /\ CachedAreLoggedIn /\ Numbered /\ Current /\ LoggingIn
        /\ Talk /\ Others
        /\ control \in Fd /\ control # -1 /\ file[control] = "control" /\ ~dangling
        /\ file[Stdout] = "std"
        /\ \A i \in DOMAIN connections : connections[i].socket # control
        /\ r.server \in [Fd -> Conversation] /\ r.buffer \in Seq(1 .. 4)
        /\ \A k \in Fd : k # control => r.server[k] = server[k]
        /\ r.server[control].host = Con.host /\ r.server[control].link = Con.link
        /\ r.server[control].in = Con.in /\ r.server[control].owes = "nothing"
        /\ r.server[control].todo = Con.todo
    BY LoginReply
  <2>3. /\ r.buffer \o r.server[control].said = Tail(Stream)
        /\ Con.link = "up" => Con.todo = <<>> /\ Tail(Stream) = <<>>
        /\ Con.in
    BY <2>1, LoginReply, Zenon
  <2> QED
    BY <2>2, <2>3
<1> DEFINE new == [addr |-> Con.host, socket |-> control]
<1>2. connections' = <<new>> \o connections /\ new \in [addr : Host, socket : Fd]
  <2>1. Con \in Conversation
    BY <1>1 DEF TypeOK, Con
  <2>2. Con.host \in Host
    BY <2>1, Parts
  <2> QED
    BY <1>1, <2>2 DEF LinkConnection, Con
<1>3. /\ new.addr = Con.host /\ new.socket = control
  OBVIOUS
<1> HIDE DEF new
<1>4. /\ connections' \in Seq([addr : Host, socket : Fd])
      /\ DOMAIN connections' = 1 .. Len(connections) + 1 /\ Len(connections) \in Nat
      /\ DOMAIN connections = 1 .. Len(connections)
      /\ connections'[1] = new
      /\ \A i \in 1 .. Len(connections) : connections'[i + 1] = connections[i]
      /\ connections' # <<>>
  BY <1>1, <1>2, Prepended DEF TypeOK
<1>5. \A i \in DOMAIN connections' :
        \/ i = 1 /\ connections'[i] = new
        \/ i - 1 \in DOMAIN connections /\ connections'[i] = connections[i - 1]
  <2> TAKE i \in DOMAIN connections'
  <2>1. CASE i = 1
    BY <2>1, <1>4
  <2>2. CASE i # 1
    <3>1. i - 1 \in 1 .. Len(connections) /\ (i - 1) + 1 = i
      BY <2>2, <1>4
    <3> QED
      BY <1>4, <3>1
  <2> QED
    BY <2>1, <2>2
<1>6. Con' = server'[control] /\ Stream' = Tail(Stream)
  <2>1. Con' = server'[control]
    BY DEF Con
  <2>2. Stream' = buffer' \o Con'.said
    BY DEF Stream
  <2> QED
    BY <1>1, <2>1, <2>2
<1>7. TypeOK'
  <2>1. server' \in [Fd -> Conversation] /\ buffer' \in Seq(1 .. 4)
    BY <1>1
  <2> QED
    BY <1>1, <1>4, <2>1 DEF TypeOK
<1>8. SocketsAccounted'
  <2>1. \A k \in Fd : Listed(k) \/ k = control => Listed(k)'
    <3>1. \A i \in DOMAIN connections : i + 1 \in DOMAIN connections'
      BY <1>4
    <3> QED
      BY <1>3, <1>4, <3>1 DEF Listed
  <2> QED
    BY <1>1, <2>1 DEF SocketsAccounted, Listed, LoginSteps
<1>9. CachedAreLoggedIn'
  <2>1. ASSUME NEW i \in DOMAIN connections'
        PROVE  /\ file'[connections'[i].socket] = "control"
               /\ server'[connections'[i].socket].host = connections'[i].addr
               /\ server'[connections'[i].socket].in
    <3>1. CASE connections'[i] = new
      BY <1>1, <1>3, <3>1
    <3>2. CASE i - 1 \in DOMAIN connections /\ connections'[i] = connections[i - 1]
      <4>1. /\ connections[i - 1].socket \in Fd /\ connections[i - 1].socket # control
            /\ server'[connections[i - 1].socket] = server[connections[i - 1].socket]
        BY <1>1, <3>2, ListedFacts
      <4> QED
        BY <1>1, <3>2, <4>1 DEF CachedAreLoggedIn
    <3> QED
      BY <1>5, <3>1, <3>2
  <2>2. ASSUME NEW i \in DOMAIN connections', NEW j \in DOMAIN connections', i # j
        PROVE  connections'[i].addr # connections'[j].addr
    <3>1. Con.host \notin Cached
      BY <1>1 DEF LoggingIn
    <3>2. \A n \in DOMAIN connections : connections[n].addr # Con.host
      BY <3>1 DEF Cached
    <3>3. CASE i # 1 /\ j # 1
      <4>1. /\ i - 1 \in DOMAIN connections /\ connections'[i] = connections[i - 1]
            /\ j - 1 \in DOMAIN connections /\ connections'[j] = connections[j - 1]
        BY <1>5, <3>3
      <4>2. i - 1 # j - 1
        BY <1>4, <2>2
      <4> QED
        BY <1>1, <4>1, <4>2 DEF CachedAreLoggedIn
    <3>4. CASE i = 1
      <4>1. j - 1 \in DOMAIN connections /\ connections'[j] = connections[j - 1]
        BY <1>5, <2>2, <3>4
      <4> QED
        BY <1>3, <1>4, <3>2, <3>4, <4>1
    <3>5. CASE j = 1
      <4>1. i - 1 \in DOMAIN connections /\ connections'[i] = connections[i - 1]
        BY <1>5, <2>2, <3>5
      <4> QED
        BY <1>3, <1>4, <3>2, <3>5, <4>1
    <3> QED
      BY <3>3, <3>4, <3>5
  <2> QED
    BY <2>1, <2>2 DEF CachedAreLoggedIn
<1>10. Numbered'
  BY <1>1 DEF Numbered
<1>11. Current'
  BY <1>1, <1>3, <1>4 DEF Current
<1>12. LoggingIn'
  BY DEF LoggingIn, LoginSteps
<1>13. InStep'
  <2>1. Talk'
    <3> SUFFICES ASSUME Con'.link = "up" PROVE Quiet(Con)' /\ buffer' = <<>>
      BY DEF Talk
    <3>1. Con.link = "up" /\ Con.todo = <<>> /\ Stream' = <<>>
      BY <1>1, <1>6
    <3>2. buffer' = <<>> /\ Con'.said = <<>>
      <4>1. server'[control].said \in Seq(1 .. 4) /\ buffer' \in Seq(1 .. 4)
        BY <1>1, Parts
      <4>2. Con'.said = server'[control].said
        BY <1>1, <1>6
      <4>3. Stream' = buffer' \o Con'.said
        BY DEF Stream
      <4> DEFINE b == buffer'
                 said == server'[control].said
      <4>4. b \in Seq(1 .. 4) /\ said \in Seq(1 .. 4) /\ b \o said = <<>>
        BY <3>1, <4>1, <4>2, <4>3
      <4>5. Con'.said = said /\ buffer' = b
        BY <4>2
      <4> HIDE DEF b, said
      <4>6. b = <<>> /\ said = <<>>
        BY <4>4, JoinedEmpty, Zenon
      <4> QED
        BY <4>5, <4>6
    <3> QED
      BY <1>1, <1>6, <3>1, <3>2 DEF Quiet
  <2>2. ASSUME NEW i \in DOMAIN connections', connections'[i].socket # control,
               server'[connections'[i].socket].link = "up"
        PROVE  Quiet(server'[connections'[i].socket])
    <3>1. i - 1 \in DOMAIN connections /\ connections'[i] = connections[i - 1]
      BY <1>3, <1>5, <2>2
    <3>2. connections[i - 1].socket \in Fd
      BY <1>1, <3>1, ListedFacts
    <3>3. server'[connections'[i].socket] = server[connections[i - 1].socket]
      BY <1>1, <2>2, <3>1, <3>2
    <3> QED
      BY <1>1, <2>2, <3>1, <3>3 DEF Others
  <2>3. Others'
    BY <2>2 DEF Others, Quiet
  <2> QED
    BY <2>1, <2>3 DEF InStep
<1> QED
  BY <1>7, <1>8, <1>9, <1>10, <1>11, <1>12, <1>13 DEF Inv

\* A connection that is refused is closed and was never in the list.
LEMMA LoginRefused ==
  ASSUME Inv, pc \in LoginSteps, NEW r \in NextReply,
         buffer' = r.buffer, file' = [file EXCEPT ![control] = "closed"], dangling' = TRUE,
         server' = [r.server EXCEPT ![control] = Nobody],
         pc' = IF -r.reply < 0 THEN "idle" ELSE "listen",
         UNCHANGED <<connections, got, pending, feeder, control, master_socket, data_soc>>
  PROVE  Inv'
<1>1. /\ TypeOK /\ SocketsAccounted /\ CachedAreLoggedIn /\ Numbered /\ Current /\ LoggingIn
      /\ Talk /\ Others
      /\ control \in Fd /\ control # -1 /\ control # Stdout /\ file[control] = "control"
      /\ file[Stdout] = "std"
      /\ \A i \in DOMAIN connections : connections[i].socket # control
      /\ r.server \in [Fd -> Conversation] /\ r.buffer \in Seq(1 .. 4)
      /\ \A k \in Fd : k # control => r.server[k] = server[k]
  BY LoginReply
<1>2. /\ file \in [Fd -> {"closed", "std", "socket", "listening", "data", "control"}]
      /\ Nobody \in Conversation
  BY <1>1, NewConversations DEF TypeOK
<1>3. /\ file' \in [Fd -> {"closed", "std", "socket", "listening", "data", "control"}]
      /\ server' \in [Fd -> Conversation]
      /\ file'[control] = "closed"
      /\ \A k \in Fd : k # control => file'[k] = file[k] /\ server'[k] = server[k]
  BY <1>1, <1>2
<1>4. pc' \in {"idle", "listen"}
  OBVIOUS
<1>5. TypeOK'
  BY <1>1, <1>3, <1>4 DEF TypeOK
<1>6. SocketsAccounted'
  <2> SUFFICES ASSUME NEW k \in Fd
               PROVE  /\ file'[k] = "control" => Listed(k)
                      /\ file'[k] = "listening" => k = master_socket
                      /\ file'[k] # "data"
    BY DEF SocketsAccounted, Listed
  <2> QED
    BY <1>1, <1>3 DEF SocketsAccounted, Listed, LoginSteps
<1>7. CachedAreLoggedIn'
  BY <1>1, <1>3, CachedKept DEF Listed
<1>8. Numbered'
  BY <1>1, <1>3, <1>4, Numbers DEF Numbered, TypeOK, LoginSteps
<1>9. Current' /\ LoggingIn' /\ Talk'
  BY <1>1, <1>3, <1>4 DEF Current, LoggingIn, LoginSteps, Talk
<1>10. Others'
  BY <1>1, <1>3, OthersKept
<1> QED
  BY <1>5, <1>6, <1>7, <1>8, <1>9, <1>10 DEF Inv, InStep

\* A reply while logging in: on with it, let in, or refused.
LEMMA LoginInv == ASSUME Inv, Login PROVE Inv'
<1>1. /\ pc \in LoginSteps
      /\ UNCHANGED <<pending, feeder, control, master_socket, data_soc>>
  BY DEF Login
<1>2. PICK r \in NextReply :
        LET next == AfterReply(pc, r.reply) IN
        /\ buffer' = r.buffer
        /\ \/ /\ next \in LoginSteps
              /\ Issue(r.server, next)
              /\ UNCHANGED <<file, connections, dangling, got>>
           \/ /\ next = "in"
              /\ LinkConnection
              /\ server' = r.server /\ pc' = "listen"
              /\ UNCHANGED <<file, dangling, got>>
           \/ /\ next = "refused"
              /\ file' = [file EXCEPT ![control] = "closed"]
              /\ dangling' = TRUE
              /\ server' = [r.server EXCEPT ![control] = Nobody]
              /\ pc' = IF -r.reply < 0 THEN "idle" ELSE "listen"
              /\ UNCHANGED <<connections, got>>
  BY DEF Login
<1> DEFINE next == AfterReply(pc, r.reply)
<1>3. /\ next \in LoginSteps => next # "greeting" /\ r.reply # -1
      /\ next = "in" => r.reply = 2 /\ pc # "greeting"
  BY <1>1 DEF AfterReply, LoginSteps
<1> HIDE DEF next
<1>4. CASE next \in LoginSteps /\ Issue(r.server, next) /\ UNCHANGED <<file, connections, dangling, got>>
  BY <1>1, <1>2, <1>3, <1>4, LoginGoesOn
<1>5. CASE /\ next = "in" /\ LinkConnection /\ server' = r.server /\ pc' = "listen"
           /\ UNCHANGED <<file, dangling, got>>
  BY <1>1, <1>2, <1>3, <1>5, LoginEnds
<1>6. CASE /\ file' = [file EXCEPT ![control] = "closed"] /\ dangling' = TRUE
           /\ server' = [r.server EXCEPT ![control] = Nobody]
           /\ pc' = IF -r.reply < 0 THEN "idle" ELSE "listen"
           /\ UNCHANGED <<connections, got>>
  BY <1>1, <1>2, <1>6, LoginRefused
<1> QED
  BY <1>2, <1>4, <1>5, <1>6 DEF next

-----------------------------------------------------------------------------
(* The listening socket.                                                   *)

\* What the client reads after a step.
LEMMA StreamLater ==
  ASSUME server' \in [Fd -> Conversation], buffer' \in Seq(1 .. 4), control' \in Fd
  PROVE  /\ Con' = server'[control'] /\ Con' \in Conversation
         /\ Stream' = buffer' \o server'[control'].said
         /\ Stream' \in Seq(1 .. 4) /\ Len(Stream') \in Nat
         /\ Len(Stream') = 0 <=> Stream' = <<>>
         /\ Stream' = <<>> <=> buffer' = <<>> /\ server'[control'].said = <<>>
<1> DEFINE b == buffer'
           s == server'[control']
           said == s.said
<1>1. Con' = s /\ Stream' = b \o said /\ b = buffer'
  BY DEF Con, Stream
<1>2. s \in Conversation /\ b \in Seq(1 .. 4) /\ said \in Seq(1 .. 4)
  <2>1. s \in Conversation
    OBVIOUS
  <2> QED
    BY <2>1, Parts
<1>3. said = server'[control'].said /\ s = server'[control']
  OBVIOUS
<1> HIDE DEF b, said
<1>4. b \o said \in Seq(1 .. 4) /\ (b \o said = <<>> <=> b = <<>> /\ said = <<>>)
  <2>1. b \o said \in Seq(1 .. 4)
    BY <1>2, Joined, Zenon
  <2>2. b \o said = <<>> <=> b = <<>> /\ said = <<>>
    BY <1>2, JoinedEmpty, Zenon
  <2> QED
    BY <2>1, <2>2
<1> HIDE DEF s
<1>5. Stream' \in Seq(1 .. 4) /\ (Stream' = <<>> <=> b = <<>> /\ said = <<>>)
  BY <1>1, <1>4
<1>6. Len(Stream') \in Nat /\ (Len(Stream') = 0 <=> Stream' = <<>>)
  BY <1>5
<1> QED
  BY <1>1, <1>2, <1>3, <1>5, <1>6

\* Opening a listening socket, and giving up, spares every other descriptor.
LEMMA NoListenSocketInv == ASSUME Inv, NoListenSocket PROVE Inv'
<1>1. /\ TypeOK /\ SocketsAccounted /\ CachedAreLoggedIn /\ Numbered /\ Current /\ InStep
      /\ pc = "listen" /\ pc' = "idle" /\ got' = -1
      /\ UNCHANGED <<server, feeder, connections, control, dangling, data_soc, buffer>>
      /\ file \in [Fd -> {"closed", "std", "socket", "listening", "data", "control"}]
  BY DEF Inv, NoListenSocket, TypeOK
<1>2. /\ file' \in [Fd -> {"closed", "std", "socket", "listening", "data", "control"}]
      /\ \A k \in Fd : /\ file'[k] = "control" <=> file[k] = "control"
                       /\ file'[k] # "data"
                       /\ file'[k] = "listening" => k = master_socket'
      /\ master_socket' \in Fd \cup {-1} /\ pending' \subseteq Fd
      /\ master_socket' # -1 => file'[master_socket'] = "listening"
      /\ Free = {} => Free' = {}
  <2>1. CASE Free = {} /\ UNCHANGED <<file, master_socket, pending>>
    BY <1>1, <2>1 DEF TypeOK, SocketsAccounted, Numbered, LoginSteps, Free
  <2>2. ASSUME Free # {}
        PROVE  NewFd \in Fd /\ file[NewFd] = "closed"
    BY <2>2, NewFdIsFree
  <2> DEFINE fd == NewFd
  <2>3. Free # {} => fd \in Fd /\ file[fd] = "closed"
    BY <2>2
  <2>4. CASE Free # {} /\ file' = [file EXCEPT ![fd] = "socket"] /\ UNCHANGED <<master_socket, pending>>
    <3> HIDE DEF fd
    <3> QED
      BY <1>1, <2>3, <2>4 DEF TypeOK, SocketsAccounted, Numbered, LoginSteps
  <2>5. CASE /\ Free # {} /\ file' = [WithoutMaster EXCEPT ![fd] = "socket"]
             /\ master_socket' = -1 /\ pending' = {}
    <3> HIDE DEF fd
    <3>1. master_socket >= 0 <=> master_socket # -1
      BY <1>1, Numbers DEF TypeOK, Fd
    <3>2. \A k \in Fd : WithoutMaster[k] = IF k = master_socket THEN "closed" ELSE file[k]
      BY <1>1, <3>1, Numbers DEF WithoutMaster
    <3>3. WithoutMaster \in [Fd -> {"closed", "std", "socket", "listening", "data", "control"}]
      BY <1>1, <3>1 DEF WithoutMaster
    <3> HIDE DEF WithoutMaster
    <3>4. \A k \in Fd : file'[k] = IF k = fd THEN "socket"
                                   ELSE IF k = master_socket THEN "closed" ELSE file[k]
      BY <2>5, <3>2, <3>3
    <3> QED
      BY <1>1, <2>3, <2>5, <3>3, <3>4, Numbers DEF TypeOK, SocketsAccounted, Numbered, LoginSteps
  <2> QED
    BY <2>1, <2>4, <2>5 DEF NoListenSocket
<1>3. TypeOK'
  BY <1>1, <1>2 DEF TypeOK
<1>4. SocketsAccounted'
  BY <1>1, <1>2 DEF SocketsAccounted, LoginSteps
<1>5. CachedAreLoggedIn'
  BY <1>1, <1>2, CachedKept
<1>6. Numbered'
  BY <1>1, <1>2 DEF Numbered
<1>7. Current'
  BY <1>1, <1>2, Numbers DEF Current, LoginSteps, TypeOK
<1>8. LoggingIn'
  BY <1>1 DEF LoggingIn, LoginSteps
<1>9. InStep'
  <2>1. CASE Free = {}
    BY <1>1, <1>2, <2>1 DEF InStep, Stuck
  <2>2. CASE Free # {}
    BY <1>1, <2>2 DEF InStep, Stuck, Talk, Others, Con, Quiet
  <2> QED
    BY <2>1, <2>2
<1> QED
  BY <1>3, <1>4, <1>5, <1>6, <1>7, <1>8, <1>9 DEF Inv

\* A server that forgets the port it was given is otherwise as before.
LEMMA Forgetting ==
  ASSUME TypeOK
  PROVE  /\ PortsForgotten \in [Fd -> Conversation]
         /\ \A k \in Fd :
              LET s == PortsForgotten[k] IN
              /\ s.host = server[k].host /\ s.link = server[k].link /\ s.in = server[k].in
              /\ s.said = server[k].said /\ s.owes = server[k].owes
              /\ server[k].todo = <<>> => s.todo = <<>>
<1>1. ASSUME NEW k \in Fd
      PROVE  LET s == PortsForgotten[k] IN
             /\ s \in Conversation
             /\ s.host = server[k].host /\ s.link = server[k].link /\ s.in = server[k].in
             /\ s.said = server[k].said /\ s.owes = server[k].owes
             /\ server[k].todo = <<>> => s.todo = <<>>
  <2> DEFINE t == server[k]
             todo2 == [i \in DOMAIN t.todo |-> IF t.todo[i] = "PORT" THEN "OLDPORT" ELSE t.todo[i]]
             u == [host |-> t.host, link |-> t.link, in |-> t.in, port |-> "old",
                   todo |-> t.todo, said |-> t.said, owes |-> t.owes]
             s == [host |-> t.host, link |-> t.link, in |-> t.in, port |-> "old",
                   todo |-> todo2, said |-> t.said, owes |-> t.owes]
  <2>1. t \in Conversation
    BY DEF TypeOK
  <2>2. t.todo \in Seq(Commands)
    BY <2>1, Parts
  <2>3. todo2 \in Seq(Commands) /\ (t.todo = <<>> => todo2 = <<>>)
    <3> DEFINE todo == t.todo
    <3>1. todo \in Seq(Commands) /\ "OLDPORT" \in Commands
      BY <2>2 DEF Commands
    <3> HIDE DEF todo
    <3>2. DOMAIN todo = 1 .. Len(todo) /\ Len(todo) \in Nat /\ \A i \in DOMAIN todo : todo[i] \in Commands
      BY <3>1, InDomain
    <3>3. [i \in DOMAIN todo |-> IF todo[i] = "PORT" THEN "OLDPORT" ELSE todo[i]] \in Seq(Commands)
      BY <3>1, <3>2
    <3>4. todo = <<>> =>
            [i \in DOMAIN todo |-> IF todo[i] = "PORT" THEN "OLDPORT" ELSE todo[i]] = <<>>
      BY <3>2
    <3> QED
      BY <3>3, <3>4 DEF todo
  <2> HIDE DEF todo2
  <2>4. [t EXCEPT !.port = "old"] = u /\ u \in Conversation /\ u.todo = t.todo
    BY <2>1, Parts DEF Conversation
  <2>5. [u EXCEPT !.todo = todo2] = s
    OBVIOUS
  <2>6. s \in Conversation
    BY <2>1, <2>3, Parts DEF Conversation
  <2>7. PortsForgotten[k] = [[t EXCEPT !.port = "old"] EXCEPT !.todo = todo2]
    BY DEF PortsForgotten, todo2
  <2>8. PortsForgotten[k] = s
    BY <2>4, <2>5, <2>7
  <2> QED
    BY <2>3, <2>6, <2>8
<1>2. DOMAIN PortsForgotten = Fd /\ PortsForgotten = [k \in Fd |-> PortsForgotten[k]]
  BY DEF PortsForgotten
<1> QED
  BY <1>1, <1>2

\* A new listening socket takes the place of the old one.
LEMMA ListenInv == ASSUME Inv, Listen PROVE Inv'
<1>1. /\ TypeOK /\ SocketsAccounted /\ CachedAreLoggedIn /\ Numbered /\ Current /\ InStep
      /\ pc = "listen" /\ Free # {}
      /\ file' = [WithoutMaster EXCEPT ![NewFd] = "listening"]
      /\ master_socket' = NewFd /\ pending' = {}
      /\ pc' = IF Fatal THEN "killed" ELSE "PORT"
      /\ server' = Written(PortsForgotten, "PORT")
      /\ UNCHANGED <<feeder, connections, control, dangling, data_soc, buffer, got>>
      /\ file \in [Fd -> {"closed", "std", "socket", "listening", "data", "control"}]
  BY DEF Inv, Listen, Issue, TypeOK
<1>2. Talk /\ Others /\ file[Stdout] = "std" /\ control \in Fd /\ control # -1
  BY <1>1, Numbers DEF InStep, Stuck, Numbered, Current, TypeOK
<1> DEFINE fd == NewFd
<1>3. /\ fd \in Fd /\ file[fd] = "closed" /\ master_socket' = fd
      /\ file' = [WithoutMaster EXCEPT ![fd] = "listening"]
  BY <1>1, NewFdIsFree
<1> HIDE DEF fd
<1>4. /\ file' \in [Fd -> {"closed", "std", "socket", "listening", "data", "control"}]
      /\ \A k \in Fd : file'[k] = IF k = fd THEN "listening"
                                  ELSE IF k = master_socket THEN "closed" ELSE file[k]
  <2>1. master_socket >= 0 <=> master_socket # -1
    BY <1>1, Numbers DEF TypeOK, Fd
  <2>2. \A k \in Fd : WithoutMaster[k] = IF k = master_socket THEN "closed" ELSE file[k]
    BY <1>1, <2>1, Numbers DEF WithoutMaster
  <2>3. WithoutMaster \in [Fd -> {"closed", "std", "socket", "listening", "data", "control"}]
    BY <1>1, <2>1 DEF WithoutMaster
  <2> HIDE DEF WithoutMaster
  <2> QED
    BY <1>3, <2>2, <2>3
<1>5. \A k \in Fd : file'[k] = "control" <=> file[k] = "control"
  BY <1>1, <1>3, <1>4, Numbers DEF Numbered
<1>6. /\ server' \in [Fd -> Conversation]
      /\ \A k \in Fd : /\ server'[k].host = server[k].host /\ server'[k].in = server[k].in
                       /\ server'[k].said = server[k].said /\ server'[k].owes = server[k].owes
                       /\ server'[k].link = "up" => server[k].link = "up"
                       /\ k # control /\ server[k].todo = <<>> => server'[k].todo = <<>>
      /\ Talking /\ server[control].link = "up" /\ server[control].todo = <<>> =>
           server'[control].todo = <<"PORT">>
  <2> DEFINE srv == PortsForgotten
  <2>1. /\ srv \in [Fd -> Conversation]
        /\ \A k \in Fd : /\ srv[k].host = server[k].host /\ srv[k].link = server[k].link
                         /\ srv[k].in = server[k].in
                         /\ srv[k].said = server[k].said /\ srv[k].owes = server[k].owes
                         /\ server[k].todo = <<>> => srv[k].todo = <<>>
    BY <1>1, Forgetting
  <2>2. server' = Written(srv, "PORT") /\ "PORT" \in Commands
    BY <1>1 DEF Commands
  <2> HIDE DEF srv
  <2>3. /\ server' \in [Fd -> Conversation]
        /\ \A k \in Fd : k # control => server'[k] = srv[k]
        /\ server'[control].host = srv[control].host /\ server'[control].in = srv[control].in
        /\ server'[control].said = srv[control].said /\ server'[control].owes = srv[control].owes
        /\ server'[control].link = "up" => srv[control].link = "up"
        /\ Talking /\ srv[control].link = "up" =>
             server'[control].todo = Append(srv[control].todo, "PORT")
    BY <1>2, <2>1, <2>2, Writing
  <2>4. Append(<<>>, "PORT") = <<"PORT">>
    BY Single
  <2> QED
    BY <1>2, <2>1, <2>3, <2>4
<1>7. TypeOK'
  BY <1>1, <1>3, <1>4, <1>6 DEF TypeOK
<1>8. SocketsAccounted'
  BY <1>1, <1>3, <1>4, <1>5 DEF SocketsAccounted, LoginSteps
<1>9. CachedAreLoggedIn'
  BY <1>1, <1>5, <1>6, CachedKept
<1>10. Numbered'
  BY <1>1, <1>2, <1>3, <1>4, Numbers DEF Numbered
<1>11. Current'
  BY <1>1, <1>2, <1>5 DEF Current, LoginSteps
<1>12. LoggingIn'
  BY <1>1 DEF LoggingIn, LoginSteps
<1>13. Talk'
  <2> SUFFICES ASSUME ~dangling, Con'.link = "up"
               PROVE  Con'.owes = "nothing" /\ Con'.todo = <<"PORT">> /\ Stream' = <<>>
    BY <1>1 DEF Talk
  <2>1. Con' = server'[control]
    BY <1>1 DEF Con
  <2>2. Con.link = "up" /\ Quiet(Con) /\ buffer = <<>>
    BY <1>1, <1>2, <1>6, <2>1 DEF Talk, Con
  <2>3. Talking
    BY <1>1, <1>2, NewestFacts DEF LoginSteps
  <2>4. Con'.owes = "nothing" /\ Con'.todo = <<"PORT">> /\ Con'.said = <<>>
    BY <1>2, <1>6, <2>1, <2>2, <2>3 DEF Quiet, Con
  <2>5. Stream' = buffer' \o Con'.said
    BY DEF Stream
  <2>6. Stream' = <<>>
    BY <1>1, <2>2, <2>4, <2>5, Single
  <2> QED
    BY <2>4, <2>6
<1>14. Others'
  BY <1>1, <1>2, <1>6, OthersKept DEF Quiet
<1> QED
  BY <1>7, <1>8, <1>9, <1>10, <1>11, <1>12, <1>13, <1>14 DEF Inv, InStep

-----------------------------------------------------------------------------
(* The replies to the commands of a load.                                  *)

\* The reply to a command is there, and is the first there is, or the client
\* finds the connection closed.
LEMMA LoadReply ==
  ASSUME Inv, pc \in {"PORT", "RETR", "final"}, NEW r \in NextReply
  PROVE  /\ TypeOK /\ SocketsAccounted /\ CachedAreLoggedIn /\ Numbered /\ Current /\ Talk /\ Others
         /\ control \in Fd /\ control # -1 /\ file[Stdout] = "std"
         /\ r.server \in [Fd -> Conversation] /\ r.buffer \in Seq(1 .. 4)
         /\ \A k \in Fd : /\ k # control => r.server[k] = server[k]
                          /\ r.server[k].host = server[k].host /\ r.server[k].in = server[k].in
         /\ r.server[control].link = Con.link /\ r.server[control].owes = Con.owes
         /\ r.server[control].todo = Con.todo
         /\ r.reply = -1 \/ r.reply \in 1 .. 4
         /\ dangling => r.reply = -1
         /\ ~dangling /\ Con.link = "up" =>
              /\ Talking /\ Stream # <<>> /\ Len(Stream) \in Nat /\ Stream[1] = r.reply
              /\ r.reply \in 1 .. 4
              /\ r.buffer \o r.server[control].said = Tail(Stream)
              /\ Len(Tail(Stream)) = Len(Stream) - 1
              /\ Len(Stream) = 1 => Tail(Stream) = <<>>
<1>1. /\ TypeOK /\ SocketsAccounted /\ CachedAreLoggedIn /\ Numbered /\ Current /\ Talk /\ Others
      /\ control \in Fd /\ control # -1 /\ file[Stdout] = "std"
  BY Numbers DEF Inv, InStep, Stuck, Numbered, Current, TypeOK
<1>2. /\ r.server \in [Fd -> Conversation] /\ r.buffer \in Seq(1 .. 4)
      /\ \A k \in Fd : k # control => r.server[k] = server[k]
      /\ r.server[control].host = Con.host /\ r.server[control].in = Con.in
      /\ r.server[control].link = Con.link /\ r.server[control].owes = Con.owes
      /\ r.server[control].todo = Con.todo
      /\ \/ r.reply = -1 /\ (~Talking \/ Con.link # "up")
         \/ /\ r.reply \in 1 .. 4 /\ Talking /\ Stream # <<>> /\ r.reply = Stream[1]
            /\ r.buffer \o r.server[control].said = Tail(Stream)
  BY <1>1, Reading
<1>3. dangling => ~Talking
  BY <1>1 DEF Current, Talking
<1>4. ~dangling => Talking
  BY <1>1, NewestFacts DEF LoginSteps
<1>5. ~dangling /\ Con.link = "up" =>
        /\ r.reply \in 1 .. 4 /\ Stream # <<>> /\ r.reply = Stream[1]
        /\ r.buffer \o r.server[control].said = Tail(Stream)
  BY <1>2, <1>4
<1>6. Stream # <<>> => /\ Len(Stream) \in Nat /\ Len(Tail(Stream)) = Len(Stream) - 1
                       /\ Len(Stream) = 1 => Tail(Stream) = <<>>
  BY <1>1, StreamFacts
<1>7. \A k \in Fd : r.server[k].host = server[k].host /\ r.server[k].in = server[k].in
  BY <1>2 DEF Con
<1>8. dangling => r.reply = -1
  BY <1>2, <1>3
<1>9. r.reply = -1 \/ r.reply \in 1 .. 4
  BY <1>2
<1> QED
  BY <1>1, <1>2, <1>4, <1>5, <1>6, <1>7, <1>8, <1>9

\* -1 is returned as the descriptor of the standard output.
LEMMA Returned ==
  ASSUME NEW n, n = -1 \/ n \in 1 .. 4, Return(n)
  PROVE  \/ pc' = "idle" /\ got' = -1
         \/ pc' = "reading" /\ got' = Stdout /\ n = -1
<1>1. CASE n = -1
  BY <1>1, Numbers DEF Return
<1>2. CASE n \in 1 .. 4
  BY <1>2 DEF Return
<1> QED
  BY <1>1, <1>2

\* A load that only reads a reply changes nothing but what is on its way.
LEMMA ReplyRead ==
  ASSUME Inv, pc \in {"PORT", "RETR", "final"}, NEW r \in NextReply,
         buffer' = r.buffer, server' = r.server, data_soc' \in {data_soc, -1},
         UNCHANGED <<file, pending, feeder, connections, control, dangling, master_socket>>,
         \/ pc' = "idle" /\ got' = -1
         \/ pc' = "reading" /\ got' = Stdout
         \/ pc = "RETR" /\ pc' = "accept" /\ r.reply # -1 /\ UNCHANGED <<got, data_soc>>,
         Talk'
  PROVE  Inv'
<1>1. /\ TypeOK /\ SocketsAccounted /\ CachedAreLoggedIn /\ Numbered /\ Current /\ Talk /\ Others
      /\ control \in Fd /\ control # -1 /\ file[Stdout] = "std"
      /\ r.server \in [Fd -> Conversation] /\ r.buffer \in Seq(1 .. 4)
      /\ \A k \in Fd : /\ k # control => r.server[k] = server[k]
                       /\ r.server[k].host = server[k].host /\ r.server[k].in = server[k].in
      /\ dangling => r.reply = -1
  BY LoadReply
<1>2. pc' \in {"idle", "reading", "accept"} /\ got' \in Fd \cup {-1} /\ data_soc' \in Fd \cup {-1}
  BY <1>1, Numbers DEF TypeOK
<1>3. TypeOK'
  <2>1. server' \in [Fd -> Conversation] /\ buffer' \in Seq(1 .. 4)
    BY <1>1
  <2> QED
    BY <1>1, <1>2, <2>1 DEF TypeOK
<1>4. SocketsAccounted'
  BY <1>1 DEF SocketsAccounted, LoginSteps
<1>5. CachedAreLoggedIn'
  BY <1>1, CachedKept
<1>6. Numbered'
  BY <1>1, Numbers DEF Numbered
<1>7. Current'
  BY <1>1, <1>2 DEF Current, LoginSteps
<1>8. LoggingIn'
  BY <1>2 DEF LoggingIn, LoginSteps
<1>9. Others'
  BY <1>1, OthersKept
<1> QED
  BY <1>3, <1>4, <1>5, <1>6, <1>7, <1>8, <1>9 DEF Inv, InStep

\* What is on its way once it has been read.
LEMMA StreamRead ==
  ASSUME UNCHANGED control, NEW r, buffer' = r.buffer,
         server'[control].said = r.server[control].said,
         r.buffer \o r.server[control].said = Tail(Stream)
  PROVE  Con' = server'[control] /\ Stream' = Tail(Stream)
<1>1. Con' = server'[control]
  BY DEF Con
<1>2. Stream' = buffer' \o Con'.said
  BY DEF Stream
<1> QED
  BY <1>1, <1>2

\* Both the buffer and the server are empty when nothing is on its way.
LEMMA QuietRead ==
  ASSUME control \in Fd, UNCHANGED control, server' \in [Fd -> Conversation],
         buffer' \in Seq(1 .. 4), Stream' = <<>>, Con'.todo = <<>>, Con'.owes = "nothing"
  PROVE  Quiet(Con)'
<1>1. Con' = server'[control] /\ server'[control].said = <<>>
  BY StreamLater
<1> QED
  BY <1>1 DEF Quiet

\* The reply to PORT: the document is asked for, or the load ends.
LEMMA PortReplyInv == ASSUME Inv, PortReply PROVE Inv'
<1>1. PICK r \in NextReply :
        /\ buffer' = r.buffer
        /\ \/ r.reply = 2 /\ Issue(r.server, "RETR") /\ UNCHANGED got
           \/ r.reply # 2 /\ server' = r.server /\ Return(r.reply)
  BY DEF PortReply
<1>2. /\ pc = "PORT" /\ pc \in {"PORT", "RETR", "final"}
      /\ UNCHANGED <<file, pending, feeder, connections, control, dangling, master_socket, data_soc>>
  BY DEF PortReply
<1>3. /\ TypeOK /\ SocketsAccounted /\ CachedAreLoggedIn /\ Numbered /\ Current /\ Talk /\ Others
      /\ control \in Fd /\ control # -1 /\ file[Stdout] = "std"
      /\ r.server \in [Fd -> Conversation] /\ r.buffer \in Seq(1 .. 4)
      /\ \A k \in Fd : /\ k # control => r.server[k] = server[k]
                       /\ r.server[k].host = server[k].host /\ r.server[k].in = server[k].in
      /\ r.server[control].link = Con.link /\ r.server[control].owes = Con.owes
      /\ r.server[control].todo = Con.todo
  BY <1>2, LoadReply
<1>4. ASSUME ~dangling, Con.link = "up"
      PROVE  /\ Talking /\ r.reply \in 1 .. 4 /\ Con.todo = <<>> /\ Con.owes = "nothing"
             /\ r.buffer \o r.server[control].said = Tail(Stream) /\ Tail(Stream) = <<>>
  <2>1. /\ Talking /\ Stream # <<>> /\ r.reply \in 1 .. 4
        /\ r.buffer \o r.server[control].said = Tail(Stream)
        /\ Len(Stream) = 1 => Tail(Stream) = <<>>
    BY <1>2, <1>4, LoadReply
  <2> QED
    BY <1>2, <1>3, <1>4, <2>1 DEF Talk
<1>5. CASE r.reply # 2 /\ server' = r.server /\ Return(r.reply)
  <2>1. r.reply = -1 \/ r.reply \in 1 .. 4
    BY <1>2, LoadReply
  <2>2. \/ pc' = "idle" /\ got' = -1
        \/ pc' = "reading" /\ got' = Stdout /\ r.reply = -1
    BY <1>5, <2>1, Returned
  <2>3. Talk'
    <3> SUFFICES ASSUME ~dangling, Con'.link = "up"
                 PROVE  pc' = "idle" /\ Quiet(Con)'
      BY <1>2 DEF Talk
    <3>1. Con' = server'[control]
      BY <1>2 DEF Con
    <3>2. Con.link = "up"
      BY <1>3, <1>5, <3>1
    <3>3. /\ r.reply \in 1 .. 4 /\ Con.todo = <<>> /\ Con.owes = "nothing"
          /\ Stream' = <<>> 
      BY <1>1, <1>2, <1>4, <1>5, <3>2, StreamRead
    <3>4. Con'.todo = <<>> /\ Con'.owes = "nothing"
      BY <1>3, <1>5, <3>1, <3>3
    <3>5. Quiet(Con)'
      BY <1>1, <1>2, <1>3, <1>5, <3>3, <3>4, QuietRead
    <3> QED
      BY <2>2, <3>3, <3>5
  <2> QED
    BY <1>1, <1>2, <1>5, <2>2, <2>3, ReplyRead
<1>6. CASE r.reply = 2 /\ Issue(r.server, "RETR") /\ UNCHANGED got
  <2>1. /\ pc' = IF Fatal THEN "killed" ELSE "RETR"
        /\ server' = Written(r.server, "RETR") /\ "RETR" \in Commands
    BY <1>6 DEF Issue, Commands
  <2>2. /\ server' \in [Fd -> Conversation]
        /\ \A k \in Fd : /\ k # control => server'[k] = server[k]
                         /\ server'[k].host = server[k].host /\ server'[k].in = server[k].in
        /\ server'[control].owes = Con.owes
        /\ server'[control].said = r.server[control].said
        /\ server'[control].link = "up" => Con.link = "up"
        /\ Talking /\ Con.link = "up" => server'[control].todo = Append(Con.todo, "RETR")
    BY <1>3, <2>1, Writing
  <2>3. TypeOK'
    <3>1. pc' \in {"killed", "RETR"} /\ buffer' \in Seq(1 .. 4)
      BY <1>1, <1>3, <2>1
    <3> QED
      BY <1>2, <1>3, <1>6, <2>2, <3>1 DEF TypeOK
  <2>4. SocketsAccounted'
    BY <1>2, <1>3, <2>1 DEF SocketsAccounted, LoginSteps
  <2>5. CachedAreLoggedIn'
    BY <1>2, <1>3, <2>2, CachedKept
  <2>6. Numbered' /\ Current' /\ LoggingIn'
    BY <1>2, <1>3, <2>1 DEF Numbered, Current, LoggingIn, LoginSteps
  <2>7. Talk'
    <3> SUFFICES ASSUME ~dangling, Con'.link = "up"
                 PROVE  Con'.owes = "nothing" /\ Con'.todo = <<"RETR">> /\ Stream' = <<>>
      BY <1>2, <2>1 DEF Talk
    <3>1. Con' = server'[control]
      BY <1>2 DEF Con
    <3>2. Con.link = "up"
      BY <2>2, <3>1
    <3>3. Append(<<>>, "RETR") = <<"RETR">>
      BY Single
    <3>4. Stream' = <<>>
      BY <1>1, <1>2, <1>4, <2>2, <3>2, StreamRead
    <3> QED
      BY <1>4, <2>2, <3>1, <3>2, <3>3, <3>4
  <2>8. Others'
    BY <1>2, <1>3, <2>2, OthersKept
  <2> QED
    BY <2>3, <2>4, <2>5, <2>6, <2>7, <2>8 DEF Inv, InStep
<1> QED
  BY <1>1, <1>5, <1>6

\* The reply to RETR: the connection for the data is awaited, or the load ends.
LEMMA RetrReplyInv == ASSUME Inv, RetrReply PROVE Inv'
<1>1. PICK r \in NextReply :
        /\ buffer' = r.buffer /\ server' = r.server
        /\ \/ r.reply = 1 /\ pc' = "accept" /\ UNCHANGED got
           \/ r.reply # 1 /\ Return(r.reply)
  BY DEF RetrReply
<1>2. /\ pc = "RETR" /\ pc \in {"PORT", "RETR", "final"}
      /\ UNCHANGED <<file, pending, feeder, connections, control, dangling, master_socket, data_soc>>
  BY DEF RetrReply
<1>3. /\ control \in Fd /\ control # -1 /\ Talk
      /\ server' \in [Fd -> Conversation] /\ buffer' \in Seq(1 .. 4)
      /\ server'[control].link = Con.link /\ server'[control].owes = Con.owes
      /\ server'[control].todo = Con.todo
      /\ r.reply = -1 \/ r.reply \in 1 .. 4
  BY <1>1, <1>2, LoadReply
<1>4. \/ r.reply = 1 /\ pc' = "accept" /\ UNCHANGED got
      \/ r.reply # 1 /\ pc' = "idle" /\ got' = -1
      \/ r.reply = -1 /\ pc' = "reading" /\ got' = Stdout
  BY <1>1, <1>3, Returned
<1>5. Talk'
  <2> SUFFICES ASSUME ~dangling, Con'.link = "up"
               PROVE  \/ pc' = "idle" /\ Quiet(Con)'
                      \/ pc' = "accept" /\ Final'
    BY <1>2, <1>4 DEF Talk
  <2>1. Con' = server'[control]
    BY <1>2 DEF Con
  <2>2. Con.link = "up" /\ Con'.todo = Con.todo /\ Con'.owes = Con.owes
    BY <1>3, <2>1
  <2>3. /\ Stream # <<>> /\ Len(Stream) \in Nat /\ Stream[1] = r.reply /\ r.reply \in 1 .. 4
        /\ r.buffer \o r.server[control].said = Tail(Stream)
        /\ Len(Tail(Stream)) = Len(Stream) - 1
        /\ Len(Stream) = 1 => Tail(Stream) = <<>>
    BY <1>2, <2>2, LoadReply
  <2>4. \/ Con.todo = <<>> /\ Len(Stream) = 1 /\ Stream[1] = 4 /\ Con.owes = "nothing"
        \/ /\ Con.todo = <<>> /\ Stream[1] = 1
           /\ Len(Stream) = IF Con.owes = "nothing" THEN 2 ELSE 1
    BY <1>2, <1>3, <2>2, <2>3 DEF Talk
  <2>5. Stream' = Tail(Stream) /\ Len(Stream') = Len(Stream) - 1
    BY <1>1, <1>2, <2>3, StreamRead
  <2>6. CASE Con.todo = <<>> /\ Len(Stream) = 1 /\ Stream[1] = 4 /\ Con.owes = "nothing"
    <3>1. pc' = "idle"
      BY <1>4, <2>3, <2>6
    <3>2. Stream' = <<>>
      BY <2>3, <2>5, <2>6
    <3>3. Quiet(Con)'
      BY <1>2, <1>3, <2>2, <2>6, <3>2, QuietRead
    <3> QED
      BY <3>1, <3>3
  <2>7. CASE /\ Con.todo = <<>> /\ Stream[1] = 1
             /\ Len(Stream) = IF Con.owes = "nothing" THEN 2 ELSE 1
    <3>1. pc' = "accept"
      BY <1>4, <2>3, <2>7
    <3>2. CASE Con.owes = "nothing"
      BY <2>2, <2>5, <2>7, <3>1, <3>2 DEF Final
    <3>3. CASE Con.owes # "nothing"
      <4>1. Stream' = <<>>
        BY <2>3, <2>5, <2>7, <3>3
      <4> QED
        BY <2>2, <2>7, <3>1, <3>3, <4>1 DEF Final
    <3> QED
      BY <3>2, <3>3
  <2> QED
    BY <2>4, <2>6, <2>7
<1>6. \/ pc' = "idle" /\ got' = -1
      \/ pc' = "reading" /\ got' = Stdout
      \/ pc = "RETR" /\ pc' = "accept" /\ r.reply # -1 /\ UNCHANGED <<got, data_soc>>
  BY <1>2, <1>4
<1> QED
  BY <1>1, <1>2, <1>5, <1>6, ReplyRead

\* The reply at the end of a transfer ends the load.
LEMMA FinalReplyInv == ASSUME Inv, FinalReply PROVE Inv'
<1>1. PICK r \in NextReply :
        /\ buffer' = r.buffer /\ server' = r.server
        /\ data_soc' = IF r.reply = 2 THEN -1 ELSE data_soc
  BY DEF FinalReply
<1>2. /\ pc = "final" /\ pc \in {"PORT", "RETR", "final"} /\ pc' = "idle" /\ got' = -1
      /\ UNCHANGED <<file, pending, feeder, connections, control, dangling, master_socket>>
  BY DEF FinalReply
<1>3. /\ control \in Fd /\ control # -1 /\ Talk
      /\ server' \in [Fd -> Conversation] /\ buffer' \in Seq(1 .. 4)
      /\ server'[control].link = Con.link /\ server'[control].owes = Con.owes
      /\ server'[control].todo = Con.todo
  BY <1>1, <1>2, LoadReply
<1>4. Talk'
  <2> SUFFICES ASSUME ~dangling, Con'.link = "up"
               PROVE  Quiet(Con)'
    BY <1>2 DEF Talk
  <2>1. Con' = server'[control]
    BY <1>2 DEF Con
  <2>2. Con.link = "up" /\ Con'.todo = Con.todo /\ Con'.owes = Con.owes
    BY <1>3, <2>1
  <2>3. /\ Stream # <<>>
        /\ r.buffer \o r.server[control].said = Tail(Stream)
        /\ Len(Stream) = 1 => Tail(Stream) = <<>>
    BY <1>2, <2>2, LoadReply
  <2>4. Con.todo = <<>> /\ Con.owes = "nothing" /\ Len(Stream) = 1
    BY <1>2, <1>3, <2>2, <2>3 DEF Talk, Final
  <2>5. Stream' = <<>>
    BY <1>1, <1>2, <2>3, <2>4, StreamRead
  <2> QED
    BY <1>2, <1>3, <2>2, <2>4, <2>5, QuietRead
<1> QED
  BY <1>1, <1>2, <1>4, ReplyRead

-----------------------------------------------------------------------------
(* The data connection.                                                    *)

\* The server's connection for the data gets the least free descriptor.
LEMMA AcceptInv == ASSUME Inv, Accept PROVE Inv'
<1>1. PICK k \in pending :
        /\ file' = [file EXCEPT ![NewFd] = "data"]
        /\ data_soc' = NewFd /\ got' = NewFd
        /\ pending' = pending \ {k} /\ feeder' = k
  BY DEF Accept
<1>2. /\ TypeOK /\ SocketsAccounted /\ CachedAreLoggedIn /\ Numbered /\ Current /\ InStep
      /\ pc = "accept" /\ pc' = "reading" /\ Free # {}
      /\ UNCHANGED <<server, connections, control, dangling, master_socket, buffer>>
      /\ file \in [Fd -> {"closed", "std", "socket", "listening", "data", "control"}]
  BY DEF Inv, Accept, TypeOK
<1>3. Talk /\ Others /\ ~dangling /\ file[Stdout] = "std" /\ control # -1
  BY <1>2 DEF InStep, Stuck, Numbered, Current
<1> DEFINE fd == NewFd
<1>4. /\ fd \in Fd /\ file[fd] = "closed" /\ data_soc' = fd /\ got' = fd
      /\ file' = [file EXCEPT ![fd] = "data"]
  BY <1>1, <1>2, NewFdIsFree
<1> HIDE DEF fd
<1>5. /\ file' \in [Fd -> {"closed", "std", "socket", "listening", "data", "control"}]
      /\ \A j \in Fd : file'[j] = IF j = fd THEN "data" ELSE file[j]
  BY <1>2, <1>4
<1>6. TypeOK'
  <2>1. pending' \subseteq Fd /\ feeder' \in Fd
    BY <1>1, <1>2 DEF TypeOK
  <2> QED
    BY <1>2, <1>4, <1>5, <2>1 DEF TypeOK
<1>7. SocketsAccounted'
  BY <1>2, <1>4, <1>5 DEF SocketsAccounted, LoginSteps
<1>8. CachedAreLoggedIn'
  BY <1>2, <1>4, <1>5, CachedKept
<1>9. Numbered'
  BY <1>2, <1>3, <1>4, <1>5, Numbers DEF Numbered, TypeOK
<1>10. Current' /\ LoggingIn'
  BY <1>2, <1>3 DEF Current, LoggingIn, LoginSteps
<1>11. Talk'
  <2>1. got' # Stdout
    BY <1>3, <1>4
  <2> QED
    BY <1>2, <1>3, <2>1 DEF Talk, Final, Con, Stream
<1>12. Others'
  BY <1>2, <1>3 DEF Others, Quiet
<1> QED
  BY <1>6, <1>7, <1>8, <1>9, <1>10, <1>11, <1>12 DEF Inv, InStep

\* An accept fails when no descriptor is left, and then none ever is.
LEMMA AcceptFailsInv == ASSUME Inv, AcceptFails PROVE Inv'
<1>1. /\ TypeOK /\ SocketsAccounted /\ CachedAreLoggedIn /\ Numbered /\ Current
      /\ pc = "accept" /\ pc' = "idle" /\ got' = -1 /\ (Free = {} \/ ~Listening)
      /\ UNCHANGED <<file, server, pending, feeder, connections, control, dangling, master_socket,
                     data_soc, buffer>>
  BY DEF Inv, AcceptFails, sockets, statics
<1>2. Free = {}
  <2>1. Listening
    BY <1>1 DEF TypeOK, Numbered, Listening
  <2> QED
    BY <1>1, <2>1
<1>3. TypeOK'
  BY <1>1 DEF TypeOK
<1>4. SocketsAccounted' /\ CachedAreLoggedIn' /\ Numbered'
  BY <1>1 DEF SocketsAccounted, CachedAreLoggedIn, Numbered, LoginSteps
<1>5. Current' /\ LoggingIn'
  BY <1>1 DEF Current, LoggingIn, LoginSteps
<1>6. InStep'
  BY <1>1, <1>2 DEF InStep, Stuck, Free
<1> QED
  BY <1>3, <1>4, <1>5, <1>6 DEF Inv

\* A stream that cannot be read ends the load.
LEMMA NoStreamInv == ASSUME Inv, NoStream PROVE Inv'
<1>1. /\ TypeOK /\ SocketsAccounted /\ CachedAreLoggedIn /\ Numbered /\ Current /\ InStep
      /\ pc = "reading" /\ pc' = "idle" /\ got' = -1 /\ file[got] \in {"closed", "std"}
      /\ UNCHANGED <<file, server, pending, feeder, connections, control, dangling, master_socket,
                     data_soc, buffer>>
  BY DEF Inv, NoStream, sockets, statics
<1>2. got = Stdout /\ Talk /\ Others
  BY <1>1 DEF Numbered, InStep, Stuck
<1>3. TypeOK'
  BY <1>1 DEF TypeOK
<1>4. SocketsAccounted' /\ CachedAreLoggedIn' /\ Numbered'
  <2>1. \A k \in Fd : file[k] # "data"
    BY <1>1 DEF SocketsAccounted
  <2> QED
    BY <1>1, <2>1 DEF SocketsAccounted, CachedAreLoggedIn, Numbered, LoginSteps
<1>5. Current' /\ LoggingIn'
  BY <1>1 DEF Current, LoggingIn, LoginSteps
<1>6. Talk' /\ Others'
  BY <1>1, <1>2 DEF Talk, Others, Quiet, Con
<1> QED
  BY <1>3, <1>4, <1>5, <1>6 DEF Inv, InStep

\* What is closed is the data connection, whose last reply is waited for, or
\* the standard output, and then no reply is on its way.
LEMMA CloseFileInv == ASSUME Inv, pc = "reading", CloseFile PROVE Inv'
<1>1. /\ TypeOK /\ SocketsAccounted /\ CachedAreLoggedIn /\ Numbered /\ Current /\ InStep
      /\ pc' = IF got = data_soc THEN "final" ELSE "idle"
      /\ file' = [file EXCEPT ![got] = "closed"] /\ feeder' = 0
      /\ UNCHANGED <<server, pending, connections, control, dangling, master_socket,
                     data_soc, buffer, got>>
      /\ file \in [Fd -> {"closed", "std", "socket", "listening", "data", "control"}]
  BY DEF Inv, CloseFile, statics, TypeOK
<1>2. Talk /\ Others /\ file[Stdout] = "std" /\ data_soc # Stdout /\ control # -1
  BY <1>1 DEF InStep, Stuck, Numbered, Current
<1>3. /\ got \in Fd /\ file[got] \in {"std", "data"}
      /\ got = Stdout \/ got = data_soc
  BY <1>1, <1>2, Numbers DEF Numbered
<1>4. /\ file' \in [Fd -> {"closed", "std", "socket", "listening", "data", "control"}]
      /\ \A k \in Fd : file'[k] = IF k = got THEN "closed" ELSE file[k]
  BY <1>1, <1>3
<1>5. \A k \in Fd : file'[k] = "control" <=> file[k] = "control"
  BY <1>3, <1>4
<1>6. TypeOK'
  BY <1>1, <1>4, Numbers DEF TypeOK
<1>7. SocketsAccounted'
  BY <1>1, <1>3, <1>4 DEF SocketsAccounted, LoginSteps
<1>8. CachedAreLoggedIn'
  BY <1>1, <1>5, CachedKept
<1>9. Numbered'
  BY <1>1, <1>2, <1>3, <1>4, Numbers DEF Numbered, TypeOK
<1>10. Current' /\ LoggingIn'
  <2>1. control \in Fd
    BY <1>1, <1>2 DEF TypeOK
  <2> QED
    BY <1>1, <1>2, <1>3, <1>5, <2>1 DEF Current, LoggingIn, LoginSteps
<1>11. Talk'
  BY <1>1, <1>2, <1>3 DEF Talk, Final, Con, Stream
<1>12. Others'
  BY <1>1, <1>2 DEF Others, Quiet
<1> QED
  BY <1>6, <1>7, <1>8, <1>9, <1>10, <1>11, <1>12 DEF Inv, InStep

-----------------------------------------------------------------------------
(* The servers.                                                            *)

\* A step of a server keeps the invariant if it keeps what is said of the
\* connection the client talks to: another is quiet, or goes away.
LEMMA ServerStep ==
  ASSUME Inv, NEW k \in Fd, Up(k), NEW s \in Conversation,
         server' = [server EXCEPT ![k] = s],
         s.host = server[k].host, server[k].in => s.in,
         s.link = "up" => ~Quiet(server[k]),
         pending' \subseteq Fd, UNCHANGED <<file, feeder, statics, pc, got>>,
         k = control => LoggingIn' /\ (Talk /\ Con.link = "up" => Talk')
  PROVE  Inv'
<1>1. /\ TypeOK /\ SocketsAccounted /\ CachedAreLoggedIn /\ Numbered /\ Current /\ LoggingIn /\ InStep
      /\ file[k] = "control" /\ server[k].link = "up"
      /\ UNCHANGED <<connections, control, dangling, master_socket, data_soc, buffer>>
      /\ server \in [Fd -> Conversation]
  BY DEF Inv, Up, statics, TypeOK
<1>2. /\ server' \in [Fd -> Conversation] /\ server'[k] = s
      /\ \A j \in Fd : j # k => server'[j] = server[j]
      /\ \A j \in Fd : /\ server'[j].host = server[j].host
                       /\ server[j].in => server'[j].in
                       /\ server'[j].link = "up" =>
                            server[j].link = "up" /\ (Quiet(server[j]) => Quiet(server'[j]))
  BY <1>1
<1>3. TypeOK'
  BY <1>1, <1>2 DEF TypeOK
<1>4. SocketsAccounted' /\ Numbered' /\ Current'
  BY <1>1 DEF SocketsAccounted, Numbered, Current
<1>5. CachedAreLoggedIn'
  BY <1>1, <1>2, CachedKept
<1>6. Others => Others'
  BY <1>1, <1>2, OthersKept
<1>7. CASE k = control
  <2>1. Con.link = "up"
    BY <1>1, <1>7 DEF Con
  <2> QED
    BY <1>1, <1>3, <1>4, <1>5, <1>6, <1>7, <2>1 DEF Inv, InStep, Stuck, Free
<1>8. CASE k # control
  <2>1. control \in Fd => Con' = Con /\ Stream' = Stream
    BY <1>1, <1>2, <1>8 DEF Con, Stream
  <2>2. control \in Fd \cup {-1}
    BY <1>1 DEF TypeOK
  <2>3. LoggingIn'
    BY <1>1, <2>1, <2>2 DEF LoggingIn, Current, LoginSteps, Cached
  <2>4. Talk => Talk'
    <3>1. CASE control \in Fd
      BY <1>1, <2>1, <3>1 DEF Talk, Final, Quiet
    <3>2. CASE control = -1
      BY <1>1, <3>2 DEF Talk
    <3> QED
      BY <2>2, <3>1, <3>2
  <2> QED
    BY <1>1, <1>3, <1>4, <1>5, <1>6, <2>3, <2>4 DEF Inv, InStep, Stuck, Free
<1> QED
  BY <1>7, <1>8

\* What the client will read after the newest connection has said something more.
LEMMA MoreSaid ==
  ASSUME TypeOK, control \in Fd, UNCHANGED <<control, buffer>>,
         server' \in [Fd -> Conversation], NEW reply \in 1 .. 4,
         server'[control].said = Append(Con.said, reply)
  PROVE  /\ Con' = server'[control] /\ Stream' = Append(Stream, reply) /\ Len(Stream) \in Nat
         /\ Len(Stream') = Len(Stream) + 1 /\ Stream'[Len(Stream) + 1] = reply
         /\ \A i \in 1 .. Len(Stream) : Stream'[i] = Stream[i]
         /\ Len(Stream) = 0 <=> Stream = <<>>
<1>1. /\ buffer \in Seq(1 .. 4) /\ Con.said \in Seq(1 .. 4) /\ Stream \in Seq(1 .. 4)
      /\ Len(Stream) \in Nat /\ (Len(Stream) = 0 <=> Stream = <<>>)
  BY StreamFacts
<1>2. Con' = server'[control] /\ Stream' = buffer \o Append(Con.said, reply)
  BY DEF Con, Stream
<1>3. Stream' = Append(Stream, reply)
  <2> DEFINE b == buffer
             said == Con.said
  <2>1. /\ b \in Seq(1 .. 4) /\ said \in Seq(1 .. 4) /\ Stream = b \o said
        /\ Stream' = b \o Append(said, reply)
    BY <1>1, <1>2 DEF Stream
  <2> HIDE DEF b, said
  <2>2. b \o Append(said, reply) = Append(b \o said, reply)
    <3> DEFINE R == 1 .. 4
    <3>1. b \in Seq(R) /\ said \in Seq(R) /\ reply \in R
      BY <2>1
    <3> HIDE DEF R
    <3> QED
      BY <3>1, AppendJoined
  <2> QED
    BY <2>1, <2>2
<1>4. /\ Len(Append(Stream, reply)) = Len(Stream) + 1
      /\ \A i \in 1 .. Len(Stream) : Append(Stream, reply)[i] = Stream[i]
      /\ Append(Stream, reply)[Len(Stream) + 1] = reply
  <2> DEFINE R == 1 .. 4
  <2>1. Stream \in Seq(R) /\ reply \in R
    BY <1>1
  <2> HIDE DEF R
  <2> QED
    BY <2>1, AppendFacts
<1> QED
  BY <1>1, <1>2, <1>3, <1>4

\* A connection that goes away says one thing more at most, and only when it
\* owes no reply.
LEMMA DropInv == ASSUME Inv, NEW k \in Fd, Drop(k) PROVE Inv'
<1>1. /\ TypeOK /\ LoggingIn /\ Up(k) /\ file[k] = "control" /\ server[k].link = "up"
      /\ UNCHANGED <<file, pending, feeder, statics, pc, got>>
      /\ UNCHANGED <<connections, control, dangling, buffer>>
      /\ server \in [Fd -> Conversation] /\ pending \subseteq Fd
  BY DEF Inv, Drop, Up, statics, TypeOK
<1> DEFINE t == server[k]
           Gone(said2) == [host |-> t.host, link |-> "down", in |-> t.in, port |-> t.port,
                           todo |-> t.todo, said |-> said2, owes |-> t.owes]
<1>2. t \in Conversation /\ t.said \in Seq(1 .. 4)
  <2>1. t \in Conversation
    BY <1>1
  <2> QED
    BY <2>1, Parts
<1>3. PICK said2 \in Seq(1 .. 4) :
        /\ server' = [server EXCEPT ![k] = Gone(said2)]
        /\ said2 = t.said \/ (t.todo = <<>> /\ t.owes = "nothing" /\ said2 = Append(t.said, 4))
  <2>1. CASE server' = [server EXCEPT ![k].link = "down"]
    <3>1. [t EXCEPT !.link = "down"] = Gone(t.said)
      BY <1>2, Parts
    <3>2. server' = [server EXCEPT ![k] = Gone(t.said)]
      BY <2>1, <3>1
    <3> QED
      BY <1>2, <3>2
  <2>2. CASE /\ server[k].todo = <<>> /\ server[k].owes = "nothing"
             /\ server' = [server EXCEPT ![k].link = "down", ![k].said = Append(@, 4)]
    <3>1. Append(t.said, 4) \in Seq(1 .. 4)
      BY <1>2, AppendFacts
    <3>2. [t EXCEPT !.link = "down"] = Gone(t.said)
      BY <1>2, Parts
    <3>3. [Gone(t.said) EXCEPT !.said = Append(t.said, 4)] = Gone(Append(t.said, 4))
      OBVIOUS
    <3>4. server' = [server EXCEPT ![k] = [[t EXCEPT !.link = "down"] EXCEPT !.said = Append(t.said, 4)]]
      BY <1>1, <2>2
    <3>5. server' = [server EXCEPT ![k] = Gone(Append(t.said, 4))]
      BY <3>2, <3>3, <3>4
    <3> QED
      BY <2>2, <3>1, <3>5
  <2> QED
    BY <2>1, <2>2 DEF Drop
<1> DEFINE s == Gone(said2)
<1>4. /\ s \in Conversation /\ s.host = t.host /\ s.in = t.in /\ s.link = "down"
      /\ s.todo = t.todo /\ s.said = said2 /\ s.owes = t.owes
  BY <1>2, <1>3, Parts DEF Conversation
<1> HIDE DEF Gone
<1>5. server' \in [Fd -> Conversation] /\ server'[k] = s
  BY <1>1, <1>3, <1>4
<1>6. ASSUME k = control
      PROVE  LoggingIn' /\ Talk'
  <2>1. Con' = s /\ t = Con
    BY <1>1, <1>5, <1>6 DEF Con
  <2>2. Talk'
    BY <1>4, <2>1 DEF Talk
  <2>3. LoggingIn'
    <3> SUFFICES ASSUME pc \in LoginSteps
                 PROVE  /\ Len(Stream') > 0 /\ Stream'[1] = 2 /\ pc # "greeting" => Con.in
                        /\ \A i \in 2 .. Len(Stream') : Stream'[i] = 4
      BY <1>1, <1>4, <2>1 DEF LoggingIn, Cached
    <3>1. CASE said2 = t.said
      <4>1. Stream' = Stream
        BY <1>1, <1>4, <2>1, <3>1 DEF Stream
      <4> QED
        BY <1>1, <4>1 DEF LoggingIn
    <3>2. CASE t.todo = <<>> /\ t.owes = "nothing" /\ said2 = Append(t.said, 4)
      <4>1. Len(Stream) = 1
        <5>1. <<pc>> # <<>>
          BY Single
        <5>2. Con.link = "up" /\ Con.todo = <<>>
          BY <1>1, <2>1, <3>2
        <5> QED
          BY <1>1, <5>1, <5>2 DEF LoggingIn
      <4>2. server'[control].said = Append(Con.said, 4)
        BY <1>4, <1>5, <1>6, <2>1, <3>2
      <4>3. /\ Len(Stream') = Len(Stream) + 1 /\ Stream'[Len(Stream) + 1] = 4
            /\ \A i \in 1 .. Len(Stream) : Stream'[i] = Stream[i]
        BY <1>1, <1>5, <1>6, <4>2, MoreSaid
      <4>4. Len(Stream') = 2 /\ Stream'[2] = 4 /\ Stream'[1] = Stream[1]
        BY <4>1, <4>3
      <4>5. \A i \in 2 .. Len(Stream') : Stream'[i] = 4
        BY <4>4
      <4>6. Stream[1] = 2 /\ pc # "greeting" => Con.in
        BY <1>1, <4>1 DEF LoggingIn
      <4> QED
        BY <4>4, <4>5, <4>6
    <3> QED
      BY <1>3, <3>1, <3>2
  <2> QED
    BY <2>2, <2>3
<1>7. server' = [server EXCEPT ![k] = s] /\ s.host = server[k].host /\ (server[k].in => s.in)
  BY <1>3, <1>4
<1>8. s.link # "up" /\ pending' \subseteq Fd
  BY <1>1, <1>4
<1> HIDE DEF t, s
<1> QED
  BY <1>1, <1>4, <1>6, <1>7, <1>8, ServerStep

\* A transfer goes on, or comes to its end with a reply.
LEMMA TransferStep ==
  ASSUME Inv, NEW k \in Fd, Up(k), server[k].owes # "nothing", NEW s,
         NEW said2 \in Seq(1 .. 4), NEW owes2 \in {"nothing", "connection", "data"},
         s = [host |-> server[k].host, link |-> server[k].link, in |-> server[k].in,
              port |-> server[k].port, todo |-> server[k].todo, said |-> said2, owes |-> owes2],
         server' = [server EXCEPT ![k] = s],
         \/ owes2 # "nothing" /\ said2 = server[k].said
         \/ owes2 = "nothing" /\ \E reply \in {2, 4} : said2 = Append(server[k].said, reply),
         pending' \subseteq Fd, UNCHANGED <<file, feeder, statics, pc, got>>
  PROVE  Inv'
<1>1. /\ TypeOK /\ LoggingIn /\ file[k] = "control" /\ server[k].link = "up"
      /\ UNCHANGED <<connections, control, dangling, buffer>>
      /\ server \in [Fd -> Conversation]
  BY DEF Inv, Up, statics, TypeOK
<1>2. /\ s \in Conversation /\ s.host = server[k].host /\ s.in = server[k].in /\ s.link = "up"
      /\ s.todo = server[k].todo /\ s.said = said2 /\ s.owes = owes2
  <2>1. server[k] \in Conversation
    BY <1>1
  <2> QED
    BY <1>1, <2>1, Parts DEF Conversation
<1>3. server' \in [Fd -> Conversation] /\ server'[k] = s
  BY <1>1, <1>2
<1>4. ASSUME k = control
      PROVE  LoggingIn' /\ (Talk /\ Con.link = "up" => Talk')
  <2>1. Con' = s /\ server[k] = Con
    BY <1>1, <1>3, <1>4 DEF Con
  <2>2. pc \notin LoginSteps
    BY <1>1, <2>1 DEF LoggingIn
  <2>3. LoggingIn'
    BY <1>1, <2>2 DEF LoggingIn
  <2>4. Con'.todo = Con.todo /\ Con'.owes = owes2 /\ Con.owes # "nothing"
    BY <1>2, <2>1
  <2>5. CASE owes2 # "nothing" /\ said2 = server[k].said
    <3>1. Stream' = Stream
      BY <1>1, <1>2, <2>1, <2>5 DEF Stream
    <3>2. Talk /\ Con.link = "up" => Talk'
      BY <1>1, <2>4, <2>5, <3>1 DEF Talk, Quiet, Final
    <3> QED
      BY <2>3, <3>2
  <2>6. CASE owes2 = "nothing" /\ \E reply \in {2, 4} : said2 = Append(server[k].said, reply)
    <3>1. PICK reply \in {2, 4} : said2 = Append(server[k].said, reply)
      BY <2>6
    <3>2. reply \in 1 .. 4 /\ server'[control].said = Append(Con.said, reply)
      BY <1>2, <1>3, <1>4, <2>1, <3>1
    <3>3. /\ Len(Stream') = Len(Stream) + 1 /\ Len(Stream) \in Nat
          /\ \A i \in 1 .. Len(Stream) : Stream'[i] = Stream[i]
          /\ Len(Stream) = 0 <=> Stream = <<>>
      BY <1>1, <1>3, <1>4, <3>2, MoreSaid
    <3>4. ASSUME Talk, Con.link = "up", ~dangling, control # -1
          PROVE  /\ pc \notin {"idle", "listen", "PORT"}
                 /\ pc = "RETR" => Con.todo = <<>> /\ Stream'[1] = 1 /\ Len(Stream') = 2
                 /\ pc \in {"accept", "reading", "final"} =>
                      Con.todo = <<>> /\ Len(Stream') = 1
                 /\ pc = "reading" => got # Stdout
      <4>1. /\ pc \notin {"idle", "listen", "PORT"}
            /\ pc = "RETR" => Con.todo = <<>> /\ Stream[1] = 1 /\ Len(Stream) = 1
            /\ pc \in {"accept", "reading", "final"} => Con.todo = <<>> /\ Len(Stream) = 0
            /\ pc = "reading" => got # Stdout
        BY <2>4, <3>3, <3>4 DEF Talk, Quiet, Final
      <4>2. Len(Stream) = 1 => Stream'[1] = Stream[1] /\ Len(Stream') = 2
        BY <3>3
      <4>3. Len(Stream) = 0 => Len(Stream') = 1
        BY <3>3
      <4> QED
        BY <4>1, <4>2, <4>3
    <3>5. Talk /\ Con.link = "up" => Talk'
      BY <1>1, <2>4, <2>6, <3>4 DEF Talk, Final
    <3> QED
      BY <2>3, <3>5
  <2> QED
    BY <2>5, <2>6
<1>5. ~Quiet(server[k])
  BY DEF Quiet
<1> QED
  BY <1>1, <1>2, <1>4, <1>5, ServerStep

\* Changing what a server owes.
LEMMA SetOwes ==
  ASSUME NEW s \in Conversation, NEW owes2 \in {"nothing", "connection", "data"},
         NEW said2 \in Seq(1 .. 4)
  PROVE  /\ [s EXCEPT !.owes = owes2] =
              [host |-> s.host, link |-> s.link, in |-> s.in, port |-> s.port,
               todo |-> s.todo, said |-> s.said, owes |-> owes2]
         /\ [s EXCEPT !.owes = owes2, !.said = said2] =
              [host |-> s.host, link |-> s.link, in |-> s.in, port |-> s.port,
               todo |-> s.todo, said |-> said2, owes |-> owes2]
<1> DEFINE t == [host |-> s.host, link |-> s.link, in |-> s.in, port |-> s.port,
                 todo |-> s.todo, said |-> s.said, owes |-> s.owes]
<1>1. s = t
  BY Parts
<1> DEFINE u == [host |-> s.host, link |-> s.link, in |-> s.in, port |-> s.port,
                 todo |-> s.todo, said |-> s.said, owes |-> owes2]
<1>2. [t EXCEPT !.owes = owes2] = u
  OBVIOUS
<1>3. [s EXCEPT !.owes = owes2, !.said = said2] = [[s EXCEPT !.owes = owes2] EXCEPT !.said = said2]
  OBVIOUS
<1>4. [u EXCEPT !.said = said2] =
           [host |-> s.host, link |-> s.link, in |-> s.in, port |-> s.port,
            todo |-> s.todo, said |-> said2, owes |-> owes2]
  OBVIOUS
<1>5. u = [host |-> s.host, link |-> s.link, in |-> s.in, port |-> s.port,
           todo |-> s.todo, said |-> s.said, owes |-> owes2]
  OBVIOUS
<1> HIDE DEF t, u
<1>6. [s EXCEPT !.owes = owes2] = u
  BY <1>1, <1>2
<1>7. [s EXCEPT !.owes = owes2, !.said = said2] = [u EXCEPT !.said = said2]
  BY <1>3, <1>6
<1> QED
  BY <1>4, <1>5, <1>6, <1>7

\* A server is done with a transfer, well or not, and says so.
LEMMA TransferEnds ==
  ASSUME Inv, NEW k \in Fd, Up(k), server[k].owes # "nothing", NEW reply \in {2, 4},
         server' = [server EXCEPT ![k].owes = "nothing", ![k].said = Append(@, reply)],
         pending' \subseteq Fd, UNCHANGED <<file, feeder, statics, pc, got>>
  PROVE  Inv'
<1>1. server \in [Fd -> Conversation] /\ server[k] \in Conversation
  BY DEF Inv, TypeOK
<1>2. Append(server[k].said, reply) \in Seq(1 .. 4)
  <2>1. server[k].said \in Seq(1 .. 4) /\ reply \in 1 .. 4
    BY <1>1, Parts
  <2> QED
    BY <2>1, AppendFacts
<1> DEFINE said2 == Append(server[k].said, reply)
           s == [host |-> server[k].host, link |-> server[k].link, in |-> server[k].in,
                 port |-> server[k].port, todo |-> server[k].todo, said |-> said2,
                 owes |-> "nothing"]
<1>3. [server[k] EXCEPT !.owes = "nothing", !.said = said2] = s
  BY <1>1, <1>2, SetOwes
<1>4. server' = [server EXCEPT ![k] = s]
  <2>1. server' = [server EXCEPT ![k] = [server[k] EXCEPT !.owes = "nothing", !.said = said2]]
    BY <1>1
  <2> QED
    BY <1>3, <2>1
<1> QED
  BY <1>2, <1>4, TransferStep

\* A server connects for the data, or cannot.
LEMMA ConnectDataInv == ASSUME Inv, NEW k \in Fd, ConnectData(k) PROVE Inv'
<1>1. /\ Up(k) /\ server[k].owes = "connection" /\ server[k].owes # "nothing"
      /\ UNCHANGED <<file, feeder, statics, pc, got>>
      /\ server \in [Fd -> Conversation] /\ server[k] \in Conversation /\ pending \subseteq Fd
  BY DEF Inv, TypeOK, ConnectData
<1>2. CASE /\ pending' = pending \cup {k}
           /\ server' = [server EXCEPT ![k].owes = "data"]
  <2> DEFINE s == [host |-> server[k].host, link |-> server[k].link, in |-> server[k].in,
                   port |-> server[k].port, todo |-> server[k].todo, said |-> server[k].said,
                   owes |-> "data"]
  <2>1. server[k].said \in Seq(1 .. 4)
    BY <1>1, Parts
  <2>2. server' = [server EXCEPT ![k] = s]
    <3>1. [server[k] EXCEPT !.owes = "data"] = s
      BY <1>1, <2>1, SetOwes
    <3>2. server' = [server EXCEPT ![k] = [server[k] EXCEPT !.owes = "data"]]
      BY <1>1, <1>2
    <3> QED
      BY <3>1, <3>2
  <2>3. pending' \subseteq Fd
    BY <1>1, <1>2
  <2> QED
    BY <1>1, <2>1, <2>2, <2>3, TransferStep
<1>3. CASE /\ server' = [server EXCEPT ![k].owes = "nothing", ![k].said = Append(@, 4)]
           /\ UNCHANGED pending
  <2>1. pending' \subseteq Fd
    BY <1>1, <1>3
  <2> QED
    BY <1>1, <1>3, <2>1, TransferEnds
<1> QED
  BY <1>2, <1>3 DEF ConnectData

\* A server ends a transfer.
LEMMA EndTransferInv == ASSUME Inv, NEW k \in Fd, EndTransfer(k) PROVE Inv'
<1>1. PICK reply \in {2, 4} :
        server' = [server EXCEPT ![k].owes = "nothing", ![k].said = Append(@, reply)]
  BY DEF EndTransfer
<1>2. /\ Up(k) /\ server[k].owes # "nothing" /\ pending' \subseteq Fd
      /\ UNCHANGED <<file, feeder, statics, pc, got>>
  BY DEF Inv, TypeOK, EndTransfer
<1> QED
  BY <1>1, <1>2, TransferEnds

\* A command is answered by the one reply to it, which lets the client in if it
\* is a 2 during the login, and starts a transfer if it is a 1.
LEMMA AnswerInv == ASSUME Inv, NEW k \in Fd, Answer(k) PROVE Inv'
<1>1. /\ TypeOK /\ LoggingIn /\ Up(k) /\ file[k] = "control" /\ server[k].link = "up"
      /\ server[k].todo # <<>> /\ server[k].owes = "nothing"
      /\ UNCHANGED <<file, pending, feeder, statics, pc, got>>
      /\ UNCHANGED <<connections, control, dangling, buffer>>
      /\ server \in [Fd -> Conversation] /\ server[k] \in Conversation /\ pending' \subseteq Fd
  BY DEF Inv, Answer, Up, statics, TypeOK
<1> DEFINE t == server[k]
           cmd == Head(t.todo)
<1>2. PICK reply \in Answers(k) :
        server' = [server EXCEPT
          ![k].todo = Tail(@),
          ![k].said = Append(@, reply),
          ![k].in = @ \/ (reply = 2 /\ cmd \in {"USER", "PASS", "ACCT"}),
          ![k].port = IF reply = 2 /\ cmd = "PORT" THEN "current" ELSE @,
          ![k].owes = IF reply = 1 /\ cmd = "RETR" THEN "connection" ELSE @]
  BY DEF Answer
<1>3. /\ reply \in 1 .. 4
      /\ cmd = "RETR" => reply \in {1, 4}
  BY <1>2 DEF Answers
<1> DEFINE todo2 == Tail(t.todo)
           said2 == Append(t.said, reply)
           in2 == t.in \/ (reply = 2 /\ cmd \in {"USER", "PASS", "ACCT"})
           port2 == IF reply = 2 /\ cmd = "PORT" THEN "current" ELSE t.port
           owes2 == IF reply = 1 /\ cmd = "RETR" THEN "connection" ELSE t.owes
           s == [host |-> t.host, link |-> t.link, in |-> in2, port |-> port2,
                 todo |-> todo2, said |-> said2, owes |-> owes2]
<1>4. todo2 \in Seq(Commands) /\ said2 \in Seq(1 .. 4)
  <2>1. t.todo \in Seq(Commands) /\ t.said \in Seq(1 .. 4)
    BY <1>1, Parts
  <2>2. said2 \in Seq(1 .. 4)
    BY <1>3, <2>1, AppendFacts
  <2>3. todo2 \in Seq(Commands)
    BY <1>1, <2>1, TailFacts
  <2> QED
    BY <2>2, <2>3
<1>5. /\ in2 \in BOOLEAN /\ port2 \in {"old", "current"} /\ owes2 \in {"nothing", "connection", "data"}
  BY <1>1, Parts
<1>6. server' = [server EXCEPT ![k] = s]
  <2>1. server' = [server EXCEPT ![k] =
                    [server[k] EXCEPT !.todo = todo2, !.said = said2, !.in = in2, !.port = port2,
                                      !.owes = owes2]]
    BY <1>1, <1>2, Zenon
  <2> HIDE DEF todo2, said2, in2, port2, owes2
  <2>2. t \in Conversation /\ t = server[k]
    BY <1>1
  <2> HIDE DEF t
  <2>3. [t EXCEPT !.todo = todo2, !.said = said2, !.in = in2, !.port = port2, !.owes = owes2] = s
    <3> DEFINE v1 == [t EXCEPT !.todo = todo2]
               v2 == [v1 EXCEPT !.said = said2]
               v3 == [v2 EXCEPT !.in = in2]
               v4 == [v3 EXCEPT !.port = port2]
               v5 == [v4 EXCEPT !.owes = owes2]
    <3>1. [t EXCEPT !.todo = todo2, !.said = said2, !.in = in2, !.port = port2, !.owes = owes2] = v5
      OBVIOUS
    <3>0. t = [host |-> t.host, link |-> t.link, in |-> t.in, port |-> t.port,
               todo |-> t.todo, said |-> t.said, owes |-> t.owes]
      BY <2>2, Parts
    <3>2. v1 = [host |-> t.host, link |-> t.link, in |-> t.in, port |-> t.port,
                todo |-> todo2, said |-> t.said, owes |-> t.owes]
      BY <3>0
    <3> HIDE DEF v1
    <3>3. v2 = [host |-> t.host, link |-> t.link, in |-> t.in, port |-> t.port,
                todo |-> todo2, said |-> said2, owes |-> t.owes]
      BY <3>2
    <3> HIDE DEF v2
    <3>4. v3 = [host |-> t.host, link |-> t.link, in |-> in2, port |-> t.port,
                todo |-> todo2, said |-> said2, owes |-> t.owes]
      BY <3>3
    <3> HIDE DEF v3
    <3>5. v4 = [host |-> t.host, link |-> t.link, in |-> in2, port |-> port2,
                todo |-> todo2, said |-> said2, owes |-> t.owes]
      BY <3>4
    <3> HIDE DEF v4
    <3>6. v5 = [host |-> t.host, link |-> t.link, in |-> in2, port |-> port2,
                todo |-> todo2, said |-> said2, owes |-> owes2]
      BY <3>5
    <3> HIDE DEF v5
    <3> QED
      BY <3>1, <3>6 DEF s
  <2> HIDE DEF s
  <2> QED
    BY <2>1, <2>2, <2>3
<1>7. /\ cmd = Head(server[k].todo) /\ todo2 = Tail(server[k].todo)
      /\ said2 = Append(server[k].said, reply)
      /\ in2 <=> server[k].in \/ (reply = 2 /\ cmd \in {"USER", "PASS", "ACCT"})
      /\ owes2 = IF reply = 1 /\ cmd = "RETR" THEN "connection" ELSE "nothing"
  BY <1>1
<1> HIDE DEF t, cmd, todo2, said2, in2, port2, owes2
<1>8. /\ s \in Conversation /\ s.host = server[k].host /\ s.in = in2 /\ s.link = "up"
      /\ s.todo = todo2 /\ s.said = said2 /\ s.owes = owes2
  BY <1>1, <1>4, <1>5, Parts DEF Conversation, t
<1> HIDE DEF s
<1>9. server' \in [Fd -> Conversation] /\ server'[k] = s
  BY <1>1, <1>6, <1>8
<1>10. ASSUME k = control
       PROVE  LoggingIn' /\ (Talk /\ Con.link = "up" => Talk')
  <2>1. Con' = s /\ server[k] = Con /\ Con.todo # <<>> /\ Con.link = "up" /\ Con.owes = "nothing"
    BY <1>1, <1>9, <1>10 DEF Con
  <2>2. server'[control].said = Append(Con.said, reply)
    BY <1>7, <1>8, <1>9, <1>10, <2>1
  <2>3. /\ Len(Stream') = Len(Stream) + 1 /\ Stream'[Len(Stream) + 1] = reply
        /\ Len(Stream) \in Nat /\ (Len(Stream) = 0 <=> Stream = <<>>)
    BY <1>1, <1>3, <1>9, <1>10, <2>2, MoreSaid
  <2>4. ASSUME NEW c, Con.todo = <<c>>
        PROVE  cmd = c /\ todo2 = <<>>
    BY <1>7, <2>1, <2>4, Single
  <2>5. LoggingIn'
    <3> SUFFICES ASSUME pc \in LoginSteps PROVE LoggingIn'
      BY <1>1 DEF LoggingIn
    <3>1. /\ ~dangling /\ file[control] = "control" /\ Con.host \notin Cached
          /\ Con.todo = <<pc>> /\ Stream = <<>>
      BY <1>1, <2>1 DEF LoggingIn
    <3>2. cmd = pc /\ todo2 = <<>>
      BY <2>4, <3>1
    <3>3. Len(Stream') = 1 /\ Stream'[1] = reply
      BY <2>3, <3>1
    <3>4. reply = 2 /\ pc # "greeting" => in2
      BY <1>7, <3>2 DEF LoginSteps
    <3>5. owes2 = "nothing"
      BY <1>7, <3>2 DEF LoginSteps
    <3>6. \A i \in 2 .. Len(Stream') : Stream'[i] = 4
      BY <3>3
    <3>7. Con'.host = Con.host /\ Cached' = Cached
      BY <1>1, <1>8, <2>1 DEF Cached
    <3>8. Con'.owes = "nothing" /\ Con'.todo = <<>> /\ (Con'.in <=> in2)
      BY <1>8, <2>1, <3>2, <3>5
    <3> QED
      BY <1>1, <3>1, <3>3, <3>4, <3>6, <3>7, <3>8 DEF LoggingIn
  <2>6. ASSUME Talk, ~dangling, control # -1
        PROVE  /\ pc \notin {"idle", "listen", "accept", "reading", "final"}
               /\ pc = "PORT" => Con'.todo = <<>> /\ Len(Stream') = 1 /\ Con'.owes = "nothing"
               /\ pc = "RETR" =>
                    /\ Con'.todo = <<>> /\ Len(Stream') = 1
                    /\ \/ Stream'[1] = 4 /\ Con'.owes = "nothing"
                       \/ Stream'[1] = 1 /\ Con'.owes = "connection"
    <3>1. /\ pc \notin {"idle", "listen", "accept", "reading", "final"}
          /\ pc = "PORT" => Con.todo = <<"PORT">> /\ Stream = <<>>
          /\ pc = "RETR" => Con.todo = <<"RETR">> /\ Stream = <<>>
      BY <2>1, <2>6 DEF Talk, Quiet, Final
    <3>2. Con'.todo = todo2 /\ Con'.owes = owes2
      BY <1>8, <2>1
    <3>3. Stream = <<>> => Len(Stream') = 1 /\ Stream'[1] = reply
      BY <2>3
    <3>4. /\ pc = "PORT" => cmd = "PORT" /\ todo2 = <<>>
          /\ pc = "RETR" => cmd = "RETR" /\ todo2 = <<>>
      BY <2>4, <3>1
    <3> QED
      BY <1>3, <1>7, <3>1, <3>2, <3>3, <3>4
  <2>7. Talk => Talk'
    BY <1>1, <2>6 DEF Talk
  <2> QED
    BY <2>5, <2>7
<1>11. ~Quiet(server[k]) /\ (server[k].in => s.in)
  BY <1>1, <1>7, <1>8 DEF Quiet
<1> QED
  BY <1>1, <1>6, <1>8, <1>10, <1>11, ServerStep

-----------------------------------------------------------------------------
(* Theorems.                                                               *)

\* Every step keeps the invariant.
LEMMA NextInv == ASSUME Inv, Next PROVE Inv'
<1>1. ASSUME NEW h \in Host, Load(h) PROVE Inv'
  BY <1>1, ReuseInv, ConnectFailsInv, ConnectInv DEF Load
<1>2. CASE Login
  BY <1>2, LoginInv
<1>3. CASE NoListenSocket
  BY <1>3, NoListenSocketInv
<1>4. CASE Listen
  BY <1>4, ListenInv
<1>5. CASE PortReply
  BY <1>5, PortReplyInv
<1>6. CASE RetrReply
  BY <1>6, RetrReplyInv
<1>7. CASE Accept
  BY <1>7, AcceptInv
<1>8. CASE AcceptFails
  BY <1>8, AcceptFailsInv
<1>9. CASE NoStream
  BY <1>9, NoStreamInv
<1>10. CASE ReadToEnd \/ CloseEarly
  BY <1>10, CloseFileInv DEF ReadToEnd, CloseEarly
<1>11. CASE FinalReply
  BY <1>11, FinalReplyInv
<1>12. ASSUME NEW k \in Fd, Server(k) \/ Drop(k) PROVE Inv'
  BY <1>12, AnswerInv, ConnectDataInv, EndTransferInv, DropInv DEF Server
<1> QED
  BY <1>1, <1>2, <1>3, <1>4, <1>5, <1>6, <1>7, <1>8, <1>9, <1>10, <1>11, <1>12 DEF Next, Client

\* Nothing changes, so nothing breaks.
LEMMA StutterInv == ASSUME Inv, UNCHANGED vars PROVE Inv'
<1>1. UNCHANGED <<file, server, pending, feeder, connections, control, dangling, master_socket,
                  data_soc, buffer, pc, got>>
  BY DEF vars, sockets, statics
<1>2. TypeOK' /\ SocketsAccounted' /\ CachedAreLoggedIn' /\ Numbered' /\ Current'
  BY <1>1 DEF Inv, TypeOK, SocketsAccounted, CachedAreLoggedIn, Numbered, Current
<1>3. LoggingIn'
  BY <1>1 DEF Inv, LoggingIn, Stream, Con, Cached
<1>4. InStep'
  BY <1>1 DEF Inv, InStep, Stuck, Free, Talk, Others, Final, Quiet, Stream, Con
<1> QED
  BY <1>2, <1>3, <1>4 DEF Inv

\* Whatever servers answer, and whenever connections go away or descriptors run
\* out, the invariant of the client of HTFTP.c holds.
THEOREM Invariance == Spec => []Inv
<1>1. Init => Inv
  BY InitInv
<1>2. Inv /\ [Next]_vars => Inv'
  BY NextInv, StutterInv
<1> QED
  BY <1>1, <1>2, PTL DEF Spec

\* The static variables of HTFTP.c and the conversations have their types: a
\* descriptor that is kept is one of the process, or -1.
THEOREM Types == Spec => []TypeOK
<1>1. Inv => TypeOK
  BY DEF Inv
<1> QED
  BY <1>1, Invariance, PTL

\* No socket is lost track of, however get_connection, get_listen_socket and
\* HTFTP_open_file_read fail: each is in the list, is master_socket, is being
\* logged in or is being read.
THEOREM SocketsAreAccounted == Spec => []SocketsAccounted
<1>1. Inv => SocketsAccounted
  BY DEF Inv
<1> QED
  BY <1>1, Invariance, PTL

\* A connection that get_connection keeps stays an open control connection to
\* its host, logged in, and the only one to that host.
THEOREM CachedStayLoggedIn == Spec => []CachedAreLoggedIn
<1>1. Inv => CachedAreLoggedIn
  BY DEF Inv
<1> QED
  BY <1>1, Invariance, PTL

\* While a load waits for a reply to PORT or RETR, a data connection or the last
\* reply, control is the connection logged in last, unless it has been freed.
THEOREM NewestStaysTalkedTo == Spec => []NewestIsTalkedTo
<1>1. Inv => NewestIsTalkedTo
  <2> SUFFICES ASSUME Inv, ~dangling, pc \in {"PORT", "RETR", "accept", "final"}
               PROVE  Talking /\ connections[1] = [addr |-> server[control].host, socket |-> control]
    BY DEF NewestIsTalkedTo
  <2>1. TypeOK /\ CachedAreLoggedIn /\ Current /\ control # -1 /\ pc \notin LoginSteps \cup {"killed"}
    BY DEF Inv, Current, LoginSteps
  <2> QED
    BY <2>1, NewestFacts DEF Con
<1> QED
  BY <1>1, Invariance, PTL

\* However the last load went, the next command of HTFTP.c gets its own reply:
\* between loads nothing is unanswered, unread or under way on a connection that
\* is up, as long as there is a descriptor left.
THEOREM RepliesStayInStep == Spec => []RepliesInStep
<1>1. Inv => RepliesInStep
  <2> SUFFICES ASSUME Inv, pc = "idle", Free # {}, NEW i \in DOMAIN connections,
                      server[connections[i].socket].link = "up"
               PROVE  Quiet(server[connections[i].socket])
    BY DEF RepliesInStep
  <2>1. TypeOK /\ CachedAreLoggedIn /\ Current /\ Talk /\ Others
    BY DEF Inv, InStep, Stuck
  <2> QED
    BY <2>1, AllQuiet
<1> QED
  BY <1>1, Invariance, PTL
=============================================================================
