----------------------------- MODULE FtpClient -----------------------------
(***************************************************************************)
(* HTFTP.c: the control connections of the FTP client and their servers,   *)
(* as FileAccess.m uses them to load one document after another.           *)
(*                                                                         *)
(* The client is one sequential program whose only variables are static:   *)
(* a list of connections that are kept for ever, the one it thinks it is   *)
(* talking to, a listening socket, a data socket and an input buffer.      *)
(* Servers answer at their own pace, and may go away at any time.  A       *)
(* descriptor is the lowest number that is free, so a number closed twice, *)
(* or kept after its socket is closed, may come to mean another socket.    *)
(*                                                                         *)
(* A reply stands for all its lines; 4 stands for 4 and 5.  Servers speak  *)
(* RFC 959: one reply to a command, and one more at the end of a transfer. *)
(***************************************************************************)
EXTENDS Integers, Sequences, FiniteSets, FiniteSetsExt

CONSTANTS
  Host,       \* servers, by internet address
  MaxFd       \* bound: the highest descriptor of the process

ASSUME FtpAssumption == MaxFd \in Nat /\ MaxFd >= 3 /\ Host # {}

VARIABLES
  file,          \* what each descriptor is
  server,        \* the other end of those that are control connections
  connections,   \* the list of logged in connections, the newest first
  control,       \* the socket of the current connection, or -1
  dangling,      \* the connection control points to has been freed
  master_socket,
  data_soc,
  buffer,        \* replies in input_buffer, read and not yet used
  pending,       \* servers that connected to master_socket and wait
  feeder,        \* the control connection whose server feeds data_soc
  pc,            \* the reply the client waits for, or what it does
  got            \* the descriptor the load was given

sockets == <<file, server, pending, feeder>>
statics == <<connections, control, dangling, master_socket, data_soc, buffer>>
vars == <<sockets, statics, pc, got>>

Fd == 0 .. MaxFd
Stdout == 1
Commands == {"greeting", "USER", "PASS", "ACCT", "PORT", "OLDPORT", "RETR"}
LoginSteps == {"greeting", "USER", "PASS", "ACCT"}

Conversation ==
  [ host : Host,
    link : {"up", "down", "reset"},  \* closed by the server; and written to since
    in   : BOOLEAN,                  \* logged in
    port : {"old", "current"},       \* the port it was given is master_socket's
    todo : Seq(Commands),            \* not yet answered
    said : Seq(1 .. 4),              \* replies not yet read
    owes : {"nothing", "connection", "data"} ]

TypeOK ==
  /\ file \in [Fd -> {"closed", "std", "socket", "listening", "data", "control"}]
  /\ server \in [Fd -> Conversation]
  /\ connections \in Seq([addr : Host, socket : Fd])
  /\ control \in Fd \cup {-1} /\ dangling \in BOOLEAN
  /\ master_socket \in Fd \cup {-1} /\ data_soc \in Fd \cup {-1}
  /\ buffer \in Seq(1 .. 4)
  /\ pending \subseteq Fd /\ feeder \in Fd
  /\ pc \in LoginSteps \cup {"idle", "listen", "PORT", "RETR", "accept",
                             "reading", "final", "killed"}
  /\ got \in Fd \cup {-1}

Greeting(h) == [host |-> h, link |-> "up", in |-> FALSE, port |-> "old",
                todo |-> <<"greeting">>, said |-> <<>>, owes |-> "nothing"]

Nobody == Greeting(CHOOSE h \in Host : TRUE)   \* at the end of no connection

Init ==
  /\ file = [k \in Fd |-> IF k <= 2 THEN "std" ELSE "closed"]
  /\ server = [k \in Fd |-> Nobody]
  /\ connections = <<>> /\ control = -1 /\ dangling = FALSE
  /\ master_socket = -1 /\ data_soc = 0
  /\ buffer = <<>> /\ pending = {} /\ feeder = 0
  /\ pc = "idle" /\ got = -1

-----------------------------------------------------------------------------
(* Descriptors and the control connection.                                 *)

Free == {k \in Fd : file[k] = "closed"}
NewFd == Min(Free)

Talking == control \in Fd /\ file[control] = "control"

\* A write succeeds once after the server has closed; the next one is a
\* SIGPIPE, which nothing in the program catches.  On a socket that is not
\* connected, or closed, it just fails.
Fatal == Talking /\ server[control].link = "reset"
Written(srv, cmd) ==
  CASE ~Talking -> srv
    [] Talking /\ srv[control].link = "up" ->
         [srv EXCEPT ![control].todo = Append(@, cmd)]
    [] OTHER -> [srv EXCEPT ![control].link = "reset"]

\* The end of file, or an error: response returns -1, the buffer as it was.
\* Mutant: the mark of the end of file stays in the buffer.
LostMarked == [reply |-> -1, server |-> server, buffer |-> <<-1>>]
Lost == [reply |-> -1, server |-> server, buffer |-> buffer]

\* Mutant: it is not looked for.
NeverEnded == FALSE
Ended == \/ server[control].link = "reset"
         \/ server[control].link = "down" /\ server[control].said = <<>>

\* What reading a reply may give: the reply, the servers and the buffer after
\* it.  A read takes what has arrived into the buffer.
NextReply ==
  LET said == server[control].said
      Read(n) == [reply  |-> said[1],
                  server |-> [server EXCEPT ![control].said = SubSeq(said, n + 1, Len(said))],
                  buffer |-> SubSeq(said, 2, n)]
  IN CASE ~Talking -> {Lost}
       [] Talking /\ buffer # <<>> ->
            {[reply |-> buffer[1], server |-> server, buffer |-> Tail(buffer)]}
       [] OTHER -> {Read(n) : n \in 1 .. Len(said)} \cup {l \in {Lost} : Ended}

\* Issue a command whose reply the client waits for at step.
Issue(srv, cmd) ==
  /\ pc' = IF Fatal THEN "killed" ELSE cmd
  /\ server' = Written(srv, cmd)

\* return -status: the caller takes a number that is not negative for a
\* descriptor to read from, and the negation of -1 is one.
Return(status) ==
  IF -status >= 0 THEN got' = -status /\ pc' = "reading"
                  ELSE got' = -1 /\ pc' = "idle"

-----------------------------------------------------------------------------
(* get_connection                                                          *)

Cached == {connections[i].addr : i \in DOMAIN connections}

Reuse(h) ==
  /\ pc = "idle" /\ h \in Cached
  /\ buffer' = <<>> /\ pc' = "listen"
  /\ UNCHANGED <<sockets, connections, control, dangling, master_socket, data_soc, got>>

ConnectFails(h) ==
  /\ pc = "idle" /\ h \notin Cached
  /\ buffer' = <<>>
  /\ UNCHANGED <<sockets, connections, control, dangling, master_socket, data_soc, pc, got>>

Connect(h) ==
  /\ pc = "idle" /\ h \notin Cached /\ Free # {}
  /\ file' = [file EXCEPT ![NewFd] = "control"]
  /\ server' = [server EXCEPT ![NewFd] = Greeting(h)]
  /\ control' = NewFd /\ dangling' = FALSE
  /\ buffer' = <<>> /\ pc' = "greeting"
  /\ UNCHANGED <<pending, feeder, connections, master_socket, data_soc, got>>

\* Mutant: a server that asks for an account is taken to have let us in.
AfterReplyNoAccount(step, reply) ==
  CASE step = "greeting" /\ reply = 2 -> "USER"
    [] step \in {"greeting", "USER"} /\ reply = 3 -> "PASS"
    [] step # "greeting" /\ reply \in {2, 3} -> "in"
    [] OTHER -> "refused"

\* The command that follows a reply, or the end of the login.
AfterReply(step, reply) ==
  CASE step = "greeting" /\ reply = 2 -> "USER"
    [] step \in {"greeting", "USER"} /\ reply = 3 -> "PASS"
    [] step = "PASS" /\ reply = 3 -> "ACCT"
    [] step # "greeting" /\ reply = 2 -> "in"
    [] OTHER -> "refused"

\* Mutant: a new connection goes to the end of the list.
LinkAtEnd ==
  connections' = Append(connections, [addr |-> server[control].host, socket |-> control])
LinkConnection ==
  connections' = <<[addr |-> server[control].host, socket |-> control]>> \o connections

Login ==
  /\ pc \in LoginSteps
  /\ \E r \in NextReply :
       LET next == AfterReply(pc, r.reply) IN
       /\ buffer' = r.buffer
       /\ \/ /\ next \in LoginSteps
             /\ Issue(r.server, next)
             /\ UNCHANGED <<file, connections, dangling, got>>
          \/ /\ next = "in"
             /\ LinkConnection
             /\ server' = r.server /\ pc' = "listen"
             /\ UNCHANGED <<file, dangling, got>>
          \/ /\ next = "refused"   \* con is closed and freed, control is not reset
             /\ file' = [file EXCEPT ![control] = "closed"]
             /\ dangling' = TRUE
             /\ server' = [r.server EXCEPT ![control] = Nobody]
             /\ pc' = IF -r.reply < 0 THEN "idle" ELSE "listen"
             /\ UNCHANGED <<connections, got>>
  /\ UNCHANGED <<pending, feeder, control, master_socket, data_soc>>

-----------------------------------------------------------------------------
(* get_listen_socket.  The new socket is opened before the old one is      *)
(* closed, and is not closed when something fails after that.              *)

\* Mutant: the old socket is not closed.
MasterLeft == file

\* What closing master_socket does to the descriptors, whatever they are now.
WithoutMaster == IF master_socket >= 0 THEN [file EXCEPT ![master_socket] = "closed"]
                                       ELSE file

\* Servers that were told of the old port have no use for it.
PortsForgotten ==
  [k \in Fd |->
    [server[k] EXCEPT !.port = "old",
                      !.todo = [i \in DOMAIN @ |-> IF @[i] = "PORT" THEN "OLDPORT" ELSE @[i]]]]

\* getsockname of a freed connection reads garbage, or the number that was
\* there, which may be that of the new socket by now, or of one that was opened
\* in the meantime.
ControlHasName == \/ Talking
                  \/ dangling /\ control = NewFd
                  \/ dangling /\ file[control] \in {"socket", "listening"}

NoListenSocket ==
  /\ pc = "listen"
  /\ \/ Free = {} /\ UNCHANGED <<file, master_socket, pending>>
     \/ /\ Free # {}               \* getsockname or bind fails
        /\ file' = [file EXCEPT ![NewFd] = "socket"]
        /\ UNCHANGED <<master_socket, pending>>
     \/ /\ Free # {}               \* listen fails
        /\ ControlHasName
        /\ file' = [WithoutMaster EXCEPT ![NewFd] = "socket"]
        /\ master_socket' = -1 /\ pending' = {}
  /\ pc' = "idle" /\ got' = -1
  /\ UNCHANGED <<server, feeder, connections, control, dangling, data_soc, buffer>>

Listen ==
  /\ pc = "listen" /\ Free # {} /\ ControlHasName
  /\ file' = [WithoutMaster EXCEPT ![NewFd] = "listening"]
  /\ master_socket' = NewFd /\ pending' = {}
  /\ Issue(PortsForgotten, "PORT")
  /\ UNCHANGED <<feeder, connections, control, dangling, data_soc, buffer, got>>

-----------------------------------------------------------------------------
(* HTFTP_open_file_read                                                    *)

PortReply ==
  /\ pc = "PORT"
  /\ \E r \in NextReply :
       /\ buffer' = r.buffer
       /\ \/ r.reply = 2 /\ Issue(r.server, "RETR") /\ UNCHANGED got
          \/ r.reply # 2 /\ server' = r.server /\ Return(r.reply)
  /\ UNCHANGED <<file, pending, feeder, connections, control, dangling,
                 master_socket, data_soc>>

RetrReply ==
  /\ pc = "RETR"
  /\ \E r \in NextReply :
       /\ buffer' = r.buffer /\ server' = r.server
       /\ \/ r.reply = 1 /\ pc' = "accept" /\ UNCHANGED got
          \/ r.reply # 1 /\ Return(r.reply)
  /\ UNCHANGED <<file, pending, feeder, connections, control, dangling,
                 master_socket, data_soc>>

Listening == master_socket \in Fd /\ file[master_socket] = "listening"

Accept ==
  /\ pc = "accept" /\ Listening /\ Free # {}
  /\ \E k \in pending :
       /\ file' = [file EXCEPT ![NewFd] = "data"]
       /\ data_soc' = NewFd /\ got' = NewFd
       /\ pending' = pending \ {k} /\ feeder' = k
  /\ pc' = "reading"
  /\ UNCHANGED <<server, connections, control, dangling, master_socket, buffer>>

AcceptFails ==
  /\ pc = "accept" /\ (Free = {} \/ ~Listening)
  /\ pc' = "idle" /\ got' = -1
  /\ UNCHANGED <<sockets, statics>>

-----------------------------------------------------------------------------
(* The caller: loadAnchor:Diagnostic: of FileAccess.m makes a stream of    *)
(* the descriptor, reads it, closes it and calls HTFTP_close_file.         *)

\* fdopen refuses a descriptor that is closed or cannot be read.
NoStream ==
  /\ pc = "reading" /\ file[got] \in {"closed", "std"}
  /\ pc' = "idle" /\ got' = -1
  /\ UNCHANGED <<sockets, statics>>

\* The text ends with its data, or where the parser stops; a file of no known
\* format is not read at all.  fclose closes the descriptor before
\* HTFTP_close_file does, for which that is no error.
DataEnded == file[got] = "data" => server[feeder].owes # "data" \/ server[feeder].link # "up"

\* Mutant: the reply that ends the transfer is not waited for.
CloseWithoutReply ==
  /\ pc' = "idle"
  /\ file' = [file EXCEPT ![got] = "closed"] /\ feeder' = 0
  /\ UNCHANGED <<server, pending, statics, got>>
CloseFile ==
  /\ pc' = IF got = data_soc THEN "final" ELSE "idle"
  /\ file' = [file EXCEPT ![got] = "closed"] /\ feeder' = 0
  /\ UNCHANGED <<server, pending, statics, got>>

ReadToEnd  == pc = "reading" /\ file[got] # "closed" /\ DataEnded /\ CloseFile
CloseEarly == pc = "reading" /\ file[got] # "closed" /\ ~DataEnded /\ CloseFile

FinalReply ==
  /\ pc = "final"
  /\ \E r \in NextReply :
       /\ buffer' = r.buffer /\ server' = r.server
       /\ data_soc' = IF r.reply = 2 THEN -1 ELSE data_soc
  /\ pc' = "idle" /\ got' = -1
  /\ UNCHANGED <<file, pending, feeder, connections, control, dangling, master_socket>>

-----------------------------------------------------------------------------
(* The servers.                                                            *)

Up(k) == file[k] = "control" /\ server[k].link = "up"

Answers(k) ==
  LET cmd == Head(server[k].todo) IN
  CASE cmd = "greeting" -> {1, 2, 4}
    [] cmd \in {"USER", "PASS"} -> {2, 3, 4}
    [] cmd = "ACCT" -> {2, 4}
    [] cmd = "RETR" -> IF server[k].in THEN {1, 4} ELSE {4}
    [] OTHER -> IF server[k].in THEN {2, 4} ELSE {4}

Answer(k) ==
  /\ Up(k) /\ server[k].todo # <<>> /\ server[k].owes = "nothing"
  /\ \E reply \in Answers(k) :
       LET cmd == Head(server[k].todo) IN
       server' = [server EXCEPT
         ![k].todo = Tail(@),
         ![k].said = Append(@, reply),
         ![k].in = @ \/ (reply = 2 /\ cmd \in {"USER", "PASS", "ACCT"}),
         ![k].port = IF reply = 2 /\ cmd = "PORT" THEN "current" ELSE @,
         ![k].owes = IF reply = 1 /\ cmd = "RETR" THEN "connection" ELSE @]
  /\ UNCHANGED <<file, pending, feeder, statics, pc, got>>

\* The server opens the data connection, or cannot and says so.
ConnectData(k) ==
  /\ Up(k) /\ server[k].owes = "connection"
  /\ IF server[k].port = "current" /\ Listening
     THEN /\ pending' = pending \cup {k}
          /\ server' = [server EXCEPT ![k].owes = "data"]
     ELSE /\ server' = [server EXCEPT ![k].owes = "nothing", ![k].said = Append(@, 4)]
          /\ UNCHANGED pending
  /\ UNCHANGED <<file, feeder, statics, pc, got>>

\* It has sent the file, or found the data connection closed.
Served(k) == k \in pending \/ (pc = "reading" /\ file[got] = "data" /\ feeder = k)
EndTransfer(k) ==
  /\ Up(k) /\ server[k].owes = "data"
  /\ \E reply \in IF Served(k) THEN {2, 4} ELSE {4} :
       server' = [server EXCEPT ![k].owes = "nothing", ![k].said = Append(@, reply)]
  /\ UNCHANGED <<file, pending, feeder, statics, pc, got>>

\* The server, or the network, closes the connection: after a time without
\* commands it says so (421), otherwise not.
Drop(k) ==
  /\ Up(k)
  /\ \/ server' = [server EXCEPT ![k].link = "down"]
     \/ /\ server[k].todo = <<>> /\ server[k].owes = "nothing"
        /\ server' = [server EXCEPT ![k].link = "down", ![k].said = Append(@, 4)]
  /\ UNCHANGED <<file, pending, feeder, statics, pc, got>>

-----------------------------------------------------------------------------
\* Bound: once the program has closed its standard output, having read it for
\* a document, its descriptors get mixed up and it is not followed further.
Load(h) == file[Stdout] = "std" /\ (Reuse(h) \/ ConnectFails(h) \/ Connect(h))

Client == \/ Login \/ NoListenSocket \/ Listen \/ PortReply \/ RetrReply
          \/ Accept \/ AcceptFails \/ NoStream \/ ReadToEnd \/ FinalReply

Server(k) == Answer(k) \/ ConnectData(k) \/ EndTransfer(k)

Next == \/ \E h \in Host : Load(h)
        \/ Client \/ CloseEarly
        \/ \E k \in Fd : Server(k) \/ Drop(k)

\* The program runs on; what a server has been told to do it does, unless its
\* connection is closed.  Nothing says that a connection lasts, or that a
\* document is read to its end.
Fairness == WF_vars(Client) /\ WF_vars(\E k \in Fd : Server(k))

Spec == Init /\ [][Next]_vars /\ Fairness

-----------------------------------------------------------------------------
(* Properties.                                                             *)

\* No socket is lost track of: a control connection is in the list or being
\* logged in, a listening socket is master_socket, a data connection is being
\* read.  (The socket of a listen that failed is lost: that is "socket".)
SocketsAccounted ==
  \A k \in Fd :
    /\ file[k] = "control" => \/ \E i \in DOMAIN connections : connections[i].socket = k
                              \/ pc \in LoginSteps \cup {"killed"} /\ k = control
    /\ file[k] = "listening" => k = master_socket
    /\ file[k] = "data" => pc = "reading" /\ k = got

\* A connection in the list is open, to its host, logged in, and the only one
\* to that host.
CachedAreLoggedIn ==
  \A i \in DOMAIN connections :
    LET con == connections[i] IN
    /\ file[con.socket] = "control"
    /\ server[con.socket].host = con.addr /\ server[con.socket].in
    /\ \A j \in DOMAIN connections : i # j => connections[j].addr # con.addr

\* A load from the host connected last talks to that host.  (One from an older
\* connection talks to the newest one too: get_connection does not set control.)
NewestIsTalkedTo ==
  /\ ~dangling
  /\ pc \in {"PORT", "RETR", "accept", "final"}
  => Talking /\ connections[1] = [addr |-> server[control].host, socket |-> control]

\* Between loads no command is unanswered, no reply unread and no transfer
\* under way on a connection that is up, however the last load went: the next
\* command gets its own reply.  (Not so once descriptors have run out and an
\* accept has failed: the reply at the end of that transfer is never read.)
Quiet(s) == s.todo = <<>> /\ s.said = <<>> /\ s.owes = "nothing"
RepliesInStep ==
  pc = "idle" /\ Free # {} =>
    \A i \in DOMAIN connections :
      LET s == server[connections[i].socket] IN s.link = "up" => Quiet(s)

\* A load ends, or waits in accept for a server that will not connect any more.
InVain == /\ pc = "accept" /\ pending = {}
          /\ \A k \in Fd : Up(k) => server[k].owes # "connection"
LoadsEnd == pc # "idle" ~> pc \in {"idle", "killed"} \/ InVain
=============================================================================
