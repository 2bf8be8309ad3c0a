-------------------------------- MODULE Sessions --------------------------------
(***************************************************************************)
(* What the MiTuner server is to its clients, without bytes, sockets and   *)
(* buffers: clients are served one at a time in the order they came, the   *)
(* requests of a session are carried out one at a time in the order of its *)
(* script, each whole and together with its answer.  Of the device, only   *)
(* the image in its memory is kept: what each request may do to it.        *)
(***************************************************************************)
EXTENDS Naturals, Sequences

CONSTANTS Clients, Scripts, None, Partial

VARIABLES
  mode,      \* "off" (the tool has the device), "up", "down"
  waiting,   \* clients that came while another was served
  serving,   \* the client of the session, or None
  carried,   \* how many of its requests were carried out
  answers,   \* what each client was answered
  file,      \* the pieces of an image that were sent so far, by whomever
  image      \* the image in the device

sessionVars == <<mode, waiting, serving, carried, answers, file, image>>

Init ==
  /\ mode \in {"off", "up"} /\ waiting = <<>> /\ serving = None /\ carried = 0
  /\ answers = [c \in Clients |-> <<>>] /\ file = None

Tool ==
  /\ mode = "off"
  /\ UNCHANGED <<mode, waiting, serving, carried, answers, file>>

Join(c) ==
  /\ mode = "up" /\ c # serving /\ answers[c] = <<>> /\ \A i \in DOMAIN waiting : waiting[i] # c
  /\ waiting' = Append(waiting, c)
  /\ UNCHANGED <<mode, serving, carried, answers, file, image>>

Begin ==
  /\ mode = "up" /\ serving = None /\ waiting # <<>>
  /\ serving' = Head(waiting) /\ waiting' = Tail(waiting) /\ carried' = 0
  /\ UNCHANGED <<mode, answers, file, image>>

FileAfter(type, piece) ==
  CASE type = "FA" -> <<piece>>
    [] type \in {"FB", "FC"} -> Append(file, piece)
    [] OTHER -> file

Reads  == {"RD", "BR", "HR"}
Writes == {"WR", "BW"}
Pieces == {"FA", "FB"}
Types  == Reads \cup Writes \cup Pieces \cup {"FC", "ER", "SF", "SC", "LF"}

\* Only an FC loads the file, only an LF brings an image from the flash; a write to registers may
\* stop the firmware.  A load that fails may leave part of an image.
May(type, ok) ==
  /\ type \in Reads \cup Writes \cup Pieces => ok
  /\ type \notin Types => ~ok
  /\ type \in Writes => image' \in {image, None}
  /\ type = "FC" => IF ok THEN image' = file' ELSE image' \in {image, Partial}
  /\ type \notin Writes \cup {"FC", "LF"} => image' = image

\* A client that has left goes without its answer, and without every later one.
Answered(answer) ==
  \/ UNCHANGED answers
  \/ /\ Len(answers[serving]) = carried
     /\ answers' = [answers EXCEPT ![serving] = Append(@, answer)]

CarryOut ==
  LET k    == carried + 1
      type == Scripts[serving][k].type
  IN /\ serving # None /\ k <= Len(Scripts[serving])
     /\ type \in {"FB", "FC"} => file # None
     /\ carried' = k /\ file' = FileAfter(type, [client |-> serving, k |-> k])
     /\ \E ok \in BOOLEAN : May(type, ok) /\ Answered([k |-> k, ok |-> ok])
     /\ UNCHANGED <<mode, waiting, serving>>

\* The client is gone, at the end of its script or before.
End ==
  /\ serving # None /\ serving' = None /\ carried' = 0
  /\ UNCHANGED <<mode, waiting, answers, file, image>>

\* So is the server: its client reset the connection, or continued a file nobody began.
ShutDown ==
  /\ serving # None /\ serving' = None /\ carried' = 0 /\ mode' = "down"
  /\ UNCHANGED <<waiting, answers, file, image>>

Next == Tool \/ Begin \/ CarryOut \/ End \/ ShutDown \/ \E c \in Clients : Join(c)

Spec == Init /\ [][Next]_sessionVars

=============================================================================
