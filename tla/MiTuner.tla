-------------------------------- MODULE MiTuner --------------------------------
(***************************************************************************)
(* MiTuner_socket_server.py: a server that gives one TCP client at a time  *)
(* access to the device.  A request is a header of HEADER_SZ characters (a *)
(* type and the length of the command) and the command; the answer to it   *)
(* is sent at once.  TCP keeps the order of the bytes but not the pieces   *)
(* they were sent in: one recv returns whatever has arrived, up to         *)
(* BUFFER_SZ.  One recv is one pass of the loop: at most one header and    *)
(* one command are taken from the message.                                 *)
(*                                                                         *)
(* Bytes are counted, not named: a client's script is one stream, and a    *)
(* position in it says which request begins there.                         *)
(***************************************************************************)
EXTENDS HbiLoadFirmware

CONSTANTS
  Clients,
  Scripts,     \* the requests of each client: a sequence of [type, len]
  Eager,       \* clients that do not wait for an answer before the next request
  HEADER_SZ, BUFFER_SZ,
  Backlog      \* connections that may wait for accept

ASSUME MiTunerOK ==
  /\ HEADER_SZ \in Nat \ {0} /\ BUFFER_SZ \in Nat \ {0} /\ Backlog \in Nat
  /\ Eager \subseteq Clients /\ None \notin Clients
  /\ \A c \in Clients : /\ Len(Scripts[c]) \in Nat
                        /\ \A k \in 1 .. Len(Scripts[c]) : Scripts[c][k].len \in Nat
  /\ None \notin Seq([client : Clients, k : Nat]) /\ Partial \notin Seq([client : Clients, k : Nat])

VARIABLES
  cl,          \* each client: [st, sent, answers, unread]
  srv,         \* "off", "accept", "recv", "down"
  queue,       \* connections waiting for accept
  peer,        \* the client served
  got, used,   \* bytes received from it, and taken from the message
  waitType, header,
  s3File       \* FirmwareLoading.s3File: kept from one connection to the next, None before an FA

server == <<cl, srv, queue, peer, got, used, waitType, header, s3File>>
vars   == <<dev, args, pc, fw_running, slot, cl, srv, queue, peer, got, used, waitType, header, s3File>>

\* Where the requests of a client end in its stream.
Size(c, k) == HEADER_SZ + Scripts[c][k].len
Length(c)  == Len(Scripts[c])
Ends(c)    == LET end[n \in 0 .. Length(c)] == IF n = 0 THEN 0 ELSE end[n - 1] + Size(c, n) IN end
End(c, k)  == Ends(c)[k]

\* What a header taken at this position is: a request, or else characters that are none.
Stray == [k |-> 0, type |-> "??", len |-> 0]
HeaderAt(c, pos) ==
  IF \E k \in 1 .. Length(c) : End(c, k - 1) = pos
  THEN LET k == CHOOSE k \in 1 .. Length(c) : End(c, k - 1) = pos
       IN [k |-> k, type |-> Scripts[c][k].type, len |-> Scripts[c][k].len]
  ELSE Stray

Init ==
  /\ ToolInit
  /\ cl = [c \in Clients |-> [st |-> "new", sent |-> 0, answers |-> <<>>, unread |-> 0]]
  /\ srv = IF args = None THEN "accept" ELSE "off"
  /\ queue = <<>> /\ peer = None /\ got = 0 /\ used = 0
  /\ waitType = "header" /\ header = Stray /\ s3File = None

-----------------------------------------------------------------------------
(* The clients. *)

Connect(c) ==
  /\ srv \in {"accept", "recv"} /\ cl[c].st = "new" /\ Len(queue) < Backlog
  /\ cl' = [cl EXCEPT ![c].st = "open"] /\ queue' = Append(queue, c)
  /\ UNCHANGED <<dev, tool, srv, peer, got, used, waitType, header, s3File>>

\* A client sends a request in one or more pieces, the next one when it has the answer.
MaySend(c) ==
  IF c \in Eager \/ cl[c].unread = 0
  THEN IF c \in Eager THEN End(c, Length(c))
       ELSE LET k == Len(cl[c].answers) + 1 IN End(c, IF k > Length(c) THEN Length(c) ELSE k)
  ELSE cl[c].sent

Send(c, n) ==
  /\ cl[c].st = "open" /\ cl[c].sent + n <= MaySend(c)
  /\ cl' = [cl EXCEPT ![c].sent = @ + n]
  /\ UNCHANGED <<dev, tool, srv, queue, peer, got, used, waitType, header, s3File>>

ReadAnswer(c) ==
  /\ cl[c].st = "open" /\ cl[c].unread > 0
  /\ cl' = [cl EXCEPT ![c].unread = @ - 1]
  /\ UNCHANGED <<dev, tool, srv, queue, peer, got, used, waitType, header, s3File>>

\* A client may go at any time.  One that leaves an answer unread resets the connection.
Leave(c) ==
  /\ cl[c].st = "open"
  /\ cl' = [cl EXCEPT ![c].st = IF cl[c].unread > 0 THEN "reset" ELSE "eof"]
  /\ UNCHANGED <<dev, tool, srv, queue, peer, got, used, waitType, header, s3File>>

-----------------------------------------------------------------------------
(* What ParseCmd does: the answer, the device, the file collected so far. *)

Answers(file, results) == {[dev |-> x.dev, ok |-> x.ok, file |-> file] : x \in results}

\* FirmwareLoading: FA starts a file, FB continues it, FC ends and loads it.  Before the first FA
\* there is no attribute to continue, which raises what ParseCmd does not catch.
Raises(h) == h.type \in {"FB", "FC"} /\ s3File = None

\* Variant: FA continues the file that is there.
FileKept(type, piece) == IF s3File = None THEN <<piece>> ELSE Append(s3File, piece)
FileWith(type, piece) == IF type = "FA" THEN <<piece>> ELSE Append(s3File, piece)

FirmwareLoading(type, piece) ==
  LET file == FileWith(type, piece)
  IN Answers(file, IF type = "FC" THEN {Err(dev)} \cup LoadFirmware(dev, file) ELSE {Ok(dev)})

\* A write to registers, by WR or BW: those that stop and start the firmware too.
RegisterWrite == {r \in {Ok(dev)} \cup StopFirmware(dev) \cup StartFirmware(dev) : r.ok}

SaveConfig2Flash(i) ==
  IF dev.running THEN SaveConfigToFlash(dev, i)
  ELSE Then(InitFlash(dev, FALSE), LAMBDA e : SaveConfigToFlash(e, i))

ParseCmd(c, h) ==
  LET piece == [client |-> c, k |-> h.k]
      Plain(results) == Answers(s3File, results)
  IN CASE h.type \in {"RD", "BR", "HR"} -> Plain({Ok(dev)})
       [] h.type \in {"WR", "BW"} -> Plain(RegisterWrite)
       [] h.type \in {"FA", "FB", "FC"} -> FirmwareLoading(h.type, piece)
       [] h.type = "ER" -> Plain(EraseFlash(dev))
       [] h.type = "SF" -> Plain(Then(InitFlash(dev, FALSE), SaveFirmwareToFlash))
       [] h.type = "SC" -> Plain(SaveConfig2Flash(1))
       [] h.type = "LF" -> Plain(Then(InitFlash(dev, FALSE), LAMBDA e : LoadFirmwareFromFlash(e, 1)))
       [] OTHER -> Plain({Err(dev)})

-----------------------------------------------------------------------------
(* The server. *)

Accept ==
  /\ srv = "accept" /\ queue # <<>>
  /\ srv' = "recv" /\ peer' = Head(queue) /\ queue' = Tail(queue)
  /\ got' = 0 /\ used' = 0 /\ waitType' = "header" /\ header' = Stray
  /\ UNCHANGED <<dev, tool, cl, s3File>>

\* Variant: a header is looked for in the middle of a command too.
HeaderAnyTime(g) ==
  IF g - used >= HEADER_SZ
  THEN [wait |-> "cmd", header |-> HeaderAt(peer, used), used |-> used + HEADER_SZ]
  ELSE [wait |-> waitType, header |-> header, used |-> used]

\* The header is taken when it is whole; then, in the same pass, the command if it is there too.
Header(g) ==
  IF waitType = "header" /\ g - used >= HEADER_SZ
  THEN [wait |-> "cmd", header |-> HeaderAt(peer, used), used |-> used + HEADER_SZ]
  ELSE [wait |-> waitType, header |-> header, used |-> used]

\* Variant: a command that came with its header waits for the next recv.
CmdReadyLater(p, g) == waitType = "cmd" /\ g - p.used >= p.header.len
CmdReady(p, g) == p.wait = "cmd" /\ g - p.used >= p.header.len
\* Variant: the command stays in the message.
CutHeader(p) == p.used
Cut(p) == p.used + p.header.len

\* The answer reaches the client, or a socket whose other end is gone and resets it.
Sent(c, answer) ==
  IF cl[c].st = "open"
  THEN {[cl EXCEPT ![c].answers = Append(@, answer), ![c].unread = @ + 1]}
  ELSE {cl, [cl EXCEPT ![c].st = "reset"]}

Incoming == cl[peer].sent - got

Recv ==
  /\ srv = "recv" /\ cl[peer].st # "reset" /\ Incoming > 0
  /\ LET g == got + (IF Incoming > BUFFER_SZ THEN BUFFER_SZ ELSE Incoming)
         p == Header(g)
     IN /\ got' = g /\ header' = p.header
        /\ \/ /\ ~CmdReady(p, g)
              /\ used' = p.used /\ waitType' = p.wait
              /\ UNCHANGED <<dev, cl, s3File>>
              /\ UNCHANGED srv
           \/ /\ CmdReady(p, g) /\ Raises(p.header)
              /\ used' = Cut(p) /\ waitType' = p.wait /\ srv' = "down"
              /\ UNCHANGED <<dev, cl, s3File>>
           \/ /\ CmdReady(p, g) /\ ~Raises(p.header)
              /\ used' = Cut(p) /\ waitType' = "header" /\ UNCHANGED srv
              /\ \E r \in ParseCmd(peer, p.header) :
                   /\ dev' = r.dev /\ s3File' = r.file
                   /\ cl' \in Sent(peer, [k |-> p.header.k, ok |-> r.ok])
  /\ UNCHANGED <<tool, queue, peer>>

\* recv returns "": the client has closed, and everything it sent has been read.
Closed ==
  /\ srv = "recv" /\ cl[peer].st = "eof" /\ Incoming = 0
  /\ srv' = "accept" /\ peer' = None /\ got' = 0 /\ used' = 0
  /\ waitType' = "header" /\ header' = Stray
  /\ UNCHANGED <<dev, tool, cl, queue, s3File>>

\* recv raises on a connection that was reset: the bare except ends the server.
ShutDown ==
  /\ srv = "recv" /\ cl[peer].st = "reset"
  /\ srv' = "down"
  /\ UNCHANGED <<dev, tool, cl, queue, peer, got, used, waitType, header, s3File>>

ServerNext == Accept \/ Recv \/ Closed \/ ShutDown

ClientNext ==
  \E c \in Clients : \/ Connect(c) \/ ReadAnswer(c) \/ Leave(c)
                     \/ \E n \in 1 .. MaySend(c) - cl[c].sent : Send(c, n)

Tool == ToolNext /\ UNCHANGED server

Next == Tool \/ ServerNext \/ ClientNext

Spec == Init /\ [][Next]_vars /\ WF_vars(ServerNext)

-----------------------------------------------------------------------------
(* Properties *)

\* Every variable keeps its type; firmware runs only from a whole image, and no byte is taken
\* before it has come.
TypeOK ==
  /\ DeviceOK(dev)
  /\ pc \in Stages /\ fw_running \in BOOLEAN /\ slot \in 1 .. MaxSlots \cup {None}
  /\ srv \in {"off", "accept", "recv", "down"} /\ Len(queue) <= Backlog
  /\ peer \in Clients \cup {None} /\ (srv = "recv") => peer # None
  /\ used <= got /\ (peer # None => got <= cl[peer].sent)
  /\ \A c \in Clients : /\ cl[c].st \in {"new", "open", "eof", "reset"}
                        /\ cl[c].unread <= Len(cl[c].answers)

\* However the bytes arrive, a client gets one answer to each request, in their order, and only
\* when it has sent the whole request; and the message never holds more than what that client sent.
AnswersInOrder ==
  \A c \in Clients : \A i \in DOMAIN cl[c].answers :
    cl[c].answers[i].k = i /\ End(c, i) <= cl[c].sent

\* The requests that made the file a client has begun, after k of them; a file that holds them.
HasBegun(c, k) == \E m \in 1 .. k : Scripts[c][m].type = "FA"
Parts(c, k) ==
  {m \in 1 .. k : /\ Scripts[c][m].type \in {"FA", "FB", "FC"}
                  /\ \A n \in m + 1 .. k : Scripts[c][n].type # "FA"}
Holds(file, c, k) ==
  /\ \A i \in DOMAIN file : file[i].client = c
  /\ {file[i].k : i \in DOMAIN file} = Parts(c, k)
  /\ \A i, j \in DOMAIN file : i < j => file[i].k < file[j].k

\* FC answered OK: the image in the device is made of the pieces this client has sent since its
\* last FA, all of them, in their order, and no other: nothing a client before it left in s3File.
LoadsWhatWasSent ==
  LET done == cl[peer].answers
      k    == Len(done)
  IN (srv = "recv" /\ cl[peer].st = "open" /\ done # <<>>) =>
       (done[k].ok /\ Scripts[peer][k].type = "FC" /\ HasBegun(peer, k) => Holds(dev.ram, peer, k))

\* The session: who is served, and how many of its requests were taken whole before the place
\* where the one that is awaited begins.
Begun   == IF waitType = "header" THEN used ELSE used - HEADER_SZ
Session == IF srv = "recv" THEN peer ELSE None
Carried ==
  IF srv = "recv"
  THEN LET ends == Ends(peer) IN Cardinality({k \in 1 .. Length(peer) : ends[k] <= Begun})
  ELSE 0
Given == [c \in Clients |-> cl[c].answers]
Mode  == IF srv \in {"off", "down"} THEN srv ELSE "up"

Service == INSTANCE Sessions WITH
  mode <- Mode, waiting <- queue, serving <- Session, carried <- Carried,
  answers <- Given, file <- s3File, image <- dev.ram

\* However its bytes come in, the receive loop carries out whole requests, one at a time and in the
\* order of the client's script, and no client's between another's; each does to the device and to
\* the file what its type says, together with its answer.
ImplementsSessions == Service!Spec

\* A client that waits for its answers gets them: once the connection is served and a request
\* wholly sent, it is answered, unless that client goes or the server has shut down.
Waiting(c) ==
  /\ srv = "recv" /\ peer = c /\ cl[c].st = "open"
  /\ Len(cl[c].answers) < Length(c) /\ cl[c].sent >= End(c, Len(cl[c].answers) + 1)

Served == \A c \in Clients \ Eager : Waiting(c) ~> ~Waiting(c)

=============================================================================
