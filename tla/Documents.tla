----------------------------- MODULE Documents -----------------------------
(***************************************************************************)
(* From the address of a document to the file or the server that has it:   *)
(* HTFile.c, HTTP.c, HTTCP.c, HTFTP.c and FileAccess.m, with the addresses *)
(* that the browser makes of references and of file names as it goes from  *)
(* one document to another.                                                *)
(***************************************************************************)
EXTENDS Addresses

CONSTANTS
  Word,         \* the words that names are made of
  HTHostName,   \* the name of this host
  Home,         \* $HOME
  Resolver,     \* the hosts whose address gethostbyname knows
  NumberOf,     \* the value of each token that is a number
  PortWidth,    \* bound: ports have this many bits (16)
  Reference,    \* what a document may say after HREF
  Place,        \* addresses to begin with, and to make relative ones of
  MaxSteps      \* bound: steps of an address

Token == Word \cup {".", ":", "/", "#"}
StepName == Seq(Word \cup {"."})
Up == <<".", ".">>
Same == <<".">>
Dots(s) == s = Up \/ s = Same

\* A host may have a port.
IsHost(h) ==
  /\ h \in Seq(Word \cup {".", ":"}) /\ h # <<>> /\ ~Dots(h)
  /\ Places(h, ":") \subseteq {Len(h) - 1}
  /\ Places(h, ":") # {} => Last(h) \in DOMAIN NumberOf

IsPlace(p) ==
  /\ p \in [access : {<<w>> : w \in Word}, host : Seq(Token), rooted : {TRUE},
            steps : Seq(StepName), anchor : {None}]
  /\ IsHost(p.host)
  /\ p.steps # <<>>
  /\ \A i \in DOMAIN p.steps : ~Dots(p.steps[i]) /\ (p.steps[i] = <<>> => i = Len(p.steps))

IsReference(r) ==
  /\ r \in [access : {None} \cup {<<w>> : w \in Word}, host : {None} \cup Seq(Token),
            rooted : BOOLEAN, steps : Seq(StepName), anchor : {None} \cup Seq(Word)]
  /\ r.host # None => IsHost(r.host)
  /\ r.anchor # <<>>

ASSUME DocumentsAssumption ==
  /\ Word \cap {".", ":", "/", "#"} = {}
  /\ None \notin Seq(Token)
  /\ \A r \in Reference : IsReference(r)
  /\ \A p \in Place : IsPlace(p)
  /\ PortWidth \in Nat /\ 2^PortWidth \in Nat \ {0}
  /\ \A n \in DOMAIN NumberOf : NumberOf[n] \in Nat

TCP_PORT == 80
IsNumber(token) == token \in DOMAIN NumberOf

VARIABLES
  here,    \* the address of the document in front, as the program has it
  place    \* history: what it means

vars == <<here, place>>

-----------------------------------------------------------------------------
(* HTFile.c                                                                *)

PathOf(name) == HTParse(name, <<>>, {PathPart, Punctuation})
HostOf(name) == HTParse(name, <<>>, {HostPart})
AccessOf(name) == HTParse(name, <<>>, {Access})

MountRoot == <<"/", "Net", "/">>
PrivateRoot == <<"/", "private", "/", "Net", "/">>

\* Mutant: every file is a file of this host.
LocalPath(name) == PathOf(name)
HTLocalName(name) ==
  IF AccessOf(name) = <<"file">>
  THEN IF HostOf(name) \in {HTHostName, <<>>} THEN PathOf(name)
       ELSE MountRoot \o HostOf(name) \o PathOf(name)
  ELSE Home \o <<"/", "WWW", "/">> \o AccessOf(name) \o <<"/">> \o HostOf(name) \o PathOf(name)

FileAddress(rest) == <<"file", ":", "/", "/">> \o rest
WWW_nameOfFile(name) ==
  CASE IsPrefix(PrivateRoot, name) -> FileAddress(From(name, 6))
    [] IsPrefix(MountRoot, name) -> FileAddress(From(name, 4))
    [] OTHER -> FileAddress(HTHostName \o name)

\* The extension is looked for from the end back to a slash or the beginning.
HTFileFormat(filename) ==
  LET e == LastOf(Places(filename, ".") \cup Places(filename, "/"), 0)
      extension == IF e = 0 THEN <<>> ELSE From(filename, e)
  IN CASE e = 0 \/ filename[e] = "/" -> "plaintext"
       [] extension = <<".", "html">> -> "html"
       [] extension = <<".", "rtf">> -> "richtext"
       [] extension = <<".", "txt">> -> "plaintext"
       [] OTHER -> "invalid"

\* The mode of a file says of its owner, its group and all if they may write.
\* Mutant: any group will do.
EditableByGroup(file, me) ==
  \/ file.all
  \/ file.owner /\ file.uid = me.uid
  \/ file.group
HTEditable(file, me) ==
  \/ file.all
  \/ file.owner /\ file.uid = me.uid
  \/ file.group /\ file.gid \in me.groups

-----------------------------------------------------------------------------
(* HTTCP.c, HTTP.c, HTFTP.c and FileAccess.m                               *)

\* The node that a host is, or None if it has no address.
Resolved(host) ==
  CASE host # <<>> /\ IsNumber(host[1]) -> host
    [] host \in Resolver -> host
    [] OTHER -> None

\* Where a name and port of a host lead to, from a port to begin with.  The
\* address is not set when the resolver does not know the name.
HTParseInet(str, port) ==
  LET colon == FirstOf(Places(str, ":"), Len(str) + 1)
      host  == UpTo(str, colon - 1)
      given == colon < Len(str) /\ IsNumber(str[colon + 1])
  IN [ port |-> IF given THEN NumberOf[str[colon + 1]] % 2^PortWidth ELSE port,
       node |-> Resolved(host) ]

\* The request, and where it goes to.  That the host is not known is not looked
\* at: the connection is tried with whatever the address was.
HTTP_Get(arg) ==
  LET path == PathOf(arg) IN
  [ to   |-> HTParseInet(HostOf(arg), TCP_PORT),
    path |-> IF path = <<>> THEN <<"/">> ELSE path,
    host |-> HostOf(arg) ]

\* Of whom FTP asks, and what for.  It knows no ports, and gives up if there is
\* no such host.
FtpHost(name) == Resolved(HostOf(name))
FtpPath(name) == PathOf(name)

\* How FileAccess opens what it is given, under its simplified name: as a file if
\* there is one to read, and by FTP if not, even if the file is one of this host.
Opened(addr, readable) ==
  LET newname  == HTSimplify(addr)
      filename == HTLocalName(newname)
      format   == HTFileFormat(filename)
      host     == FtpHost(newname)
  IN CASE filename \in readable -> [by |-> "file", name |-> filename, format |-> format]
       [] filename \notin readable /\ host # None ->
            [by |-> "ftp", host |-> host, path |-> FtpPath(newname), format |-> format]
       [] OTHER -> [by |-> "nothing"]

-----------------------------------------------------------------------------
(* The browser follows a reference of the document in front, or opens a    *)
(* file.  An anchor is taken off the address (initWithAddress:), and the   *)
(* file access simplifies what is left before it loads it.                 *)

Document(address) ==
  IF HTParse(address, <<>>, {AnchorPart}) = <<>> THEN address
  ELSE HTParse(address, <<>>, {Access, HostPart, PathPart, Punctuation})

Loaded(address) ==
  IF AccessOf(address) = <<"file">> THEN HTSimplify(address) ELSE address

Followed(ref) == Loaded(Document(HTParse(ref, here, PARSE_ALL)))

-----------------------------------------------------------------------------
(* What an address means: an access, a host with its port, and the steps   *)
(* from the root, each a sequence of tokens, the last one empty for a      *)
(* directory.  A reference may leave out the access, the host or the root. *)

Joined(steps) == FlattenSeq([i \in DOMAIN steps |->
                               IF i = 1 THEN steps[i] ELSE <<"/">> \o steps[i]])

Text(p) == (IF p.access = None THEN <<>> ELSE p.access \o <<":">>)
             \o (IF p.host = None THEN <<>> ELSE <<"/", "/">> \o p.host)
             \o (IF p.rooted THEN <<"/">> ELSE <<>>) \o Joined(p.steps)
             \o (IF p.anchor = None THEN <<>> ELSE <<"#">> \o p.anchor)

\* Where the first steps lead to.
Walked(from, steps) ==
  LET at[i \in 0 .. Len(steps)] ==
        CASE i = 0 -> from
          [] i > 0 /\ steps[i] = Up -> Front(at[i - 1])
          [] i > 0 /\ steps[i] = Same -> at[i - 1]
          [] OTHER -> Append(at[i - 1], steps[i])
  IN  at
Walk(from, steps) == Walked(from, steps)[Len(steps)]

Start(ref) == IF ref.rooted THEN <<>> ELSE Front(place.steps)
Meant(ref) ==
  [ access |-> IF ref.access = None THEN place.access ELSE ref.access,
    host   |-> IF ref.host = None THEN place.host ELSE ref.host,
    rooted |-> TRUE,
    steps  |-> IF ref.steps = <<>> THEN place.steps ELSE Walk(Start(ref), ref.steps),
    anchor |-> None ]

\* The references that the functions get right.  Not among them: another access
\* or host without a path from the root, which is taken from here; more .. than
\* there are directories, which eat up the host; dots after /./, which stay; dots
\* at the end, or for a server, which gets them as they are.
Climbs(ref) ==
  \E i \in DOMAIN ref.steps :
    ref.steps[i] = Up /\ Walked(Start(ref), ref.steps)[i - 1] = <<>>
Tame(ref) ==
  /\ (ref.access # None /\ ref.access # place.access) \/ ref.host # None => ref.rooted
  /\ ref.access # None /\ ref.access # place.access => ref.host # None
  /\ ~Climbs(ref)
  /\ \A i \in DOMAIN ref.steps : ref.steps[i] = <<>> => i = Len(ref.steps) /\ (i > 1 \/ ref.rooted)
  /\ ref.rooted => ref.steps # <<>>
  /\ \A i \in DOMAIN ref.steps : Dots(ref.steps[i]) =>
       /\ i < Len(ref.steps) /\ Meant(ref).access = <<"file">>
       /\ ref.steps[i] = Same => ~Dots(ref.steps[i + 1])

Init == /\ place \in {p \in Place : p.access = <<"file">>}
        /\ here = Text(place)

Follow(ref) ==
  /\ Tame(ref) /\ Len(Meant(ref).steps) <= MaxSteps
  /\ here' = Followed(Text(ref))
  /\ place' = Meant(ref)

Next == \E ref \in Reference : Follow(ref)

Spec == Init /\ [][Next]_vars

-----------------------------------------------------------------------------
(* Properties.                                                             *)

\* After any sequence of references the address is the one text of the place
\* it means, so that a document has one address whatever way led to it.
HereIsPlace == here = Text(place)

\* What HTRelative makes of an address leads to it from here, as a reader of
\* the saved text will follow it.  (Not so for the directory of here, which
\* becomes an empty reference, and for another port of a host with a port.  The dots
\* it may put before a document of a server are left for the server to follow.)
OwnDirectory(p) ==
  p = [place EXCEPT !.steps = Append(Front(place.steps), <<>>)] /\ p # place
NameOf(host) == UpTo(host, FirstOf(Places(host, ":"), Len(host) + 1) - 1)
OtherPort(p) ==
  /\ p.access = place.access /\ p.host # place.host /\ NameOf(p.host) = NameOf(place.host)
  /\ Places(p.host, ":") # {} /\ Places(place.host, ":") # {}
RelativeLeadsThere ==
  \A p \in Place : ~OwnDirectory(p) /\ ~OtherPort(p) =>
    HTSimplify(Followed(HTRelative(Text(p), here))) = Text(p)

\* The document here is asked for where it is: a file of this host by its own
\* path and one of another host by its mounted path, or else either by FTP from its
\* host, if the resolver knows it by that name; and one of a server by a request to
\* that server and port for that path, if the resolver knows it.  A file has the
\* format of its last step.  The name of a local file leads back to the address,
\* but for files of this host in the directories of mounted ones.
Path(p) == <<"/">> \o Joined(p.steps)
FormatOf(step) ==
  IF Places(step, ".") = {} THEN "plaintext"
  ELSE LET extension == From(step, Max(Places(step, ".")) + 1) IN
       CASE extension = <<"html">> -> "html"
         [] extension = <<"rtf">> -> "richtext"
         [] extension = <<"txt">> -> "plaintext"
         [] OTHER -> "invalid"
Mounted(path) == IsPrefix(MountRoot, path) \/ IsPrefix(PrivateRoot, path)
OpensWhatItMeans ==
  LET host  == place.host
      local == IF host = HTHostName THEN Path(place) ELSE MountRoot \o host \o Path(place)
      node  == NameOf(host)
      port  == IF node = host THEN TCP_PORT ELSE NumberOf[Last(host)]
      format == FormatOf(Last(place.steps))
  IN /\ place.access = <<"file">> =>
          /\ Opened(here, {local}) = [by |-> "file", name |-> local, format |-> format]
          /\ host \in Resolver =>
               Opened(here, {}) =
                 [by |-> "ftp", host |-> host, path |-> Path(place), format |-> format]
          /\ ~Mounted(Path(place)) => WWW_nameOfFile(local) = here
     /\ place.access = <<"http">> /\ node \in Resolver /\ port < 2^PortWidth =>
          HTTP_Get(here) = [ to   |-> [port |-> port, node |-> node],
                             path |-> Path(place),
                             host |-> host ]

\* The document of a file is shown as editable if the system will let its file
\* be written, for every mode that lets the owner do what the group may, and the
\* group what all may.  (Otherwise it may be editable for all but its owner.)
File == [uid : {"me", "another"}, gid : {"staff", "other"},
         owner : BOOLEAN, group : BOOLEAN, all : BOOLEAN]
Writable(file, me) ==
  CASE file.uid = me.uid -> file.owner
    [] file.uid # me.uid /\ file.gid \in me.groups -> file.group
    [] OTHER -> file.all
EditableIsWritable ==
  place.access = <<"file">> => \A file \in File, groups \in SUBSET {"staff", "other"} :
    LET me == [uid |-> "me", groups |-> groups] IN
    (file.all => file.group) /\ (file.group => file.owner)
      => (HTEditable(file, me) <=> Writable(file, me))
=============================================================================
