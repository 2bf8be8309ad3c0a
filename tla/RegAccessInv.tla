----------------------------- MODULE RegAccessInv -----------------------------
(***************************************************************************)
(* The inductive invariant of RegAccess.                                   *)
(***************************************************************************)
EXTENDS RegAccess

Writing == {"fill", "send"}
Reading == {"read", "copy", "len"}
Pcs     == {"idle", "take", "line", "reboot", "poll", "get"} \cup Writing \cup Reading
Ops     == [pc : Pcs, kind : {None, "reg_wr", "reg_rd", "dump", "cfgrec", "restart", "put"},
            reg : Addrs \cup {None}, n : Nat, at : 0 .. 2, val : Seq(Word),
            rest : Seq(Word) \cup Seq(Lines), ctl : Controls \cup {None}, off : BOOLEAN]

RegTypes ==
  /\ page \in 0 .. 255 /\ regs \in [Regs -> Word] /\ written \in [Regs -> Word]
  /\ cmd \in [addr : Nat, read : BOOLEAN, words : Nat] /\ buffer \in [1 .. 3 -> Word]
  /\ rwbuf \in [1 .. MaxWords -> Word] /\ rwlen \in 0 .. LenMod - 1
  /\ op \in [Users -> Ops] /\ want \in [Controls -> Nat] /\ mixed \in BOOLEAN

\* The values a control can have: some bits of its mask.
Settable(c) == {c.low * g : g \in 0 .. c.values - 1}

\* What an operation holds at each of its places.
Held(o) ==
  /\ o.pc \in Writing =>
       /\ o.kind \in {"reg_wr", "cfgrec", "restart", "put"} /\ o.reg \in Addrs /\ Len(o.val) = 1
       /\ o.at < Len(Frame(o))
  /\ o.pc \notin Writing => o.at = 0
  /\ o.pc \in {"line", "reboot"} => o.kind = "cfgrec"
  /\ o.pc = "poll" => o.kind = "restart"
  /\ o.pc # "idle" /\ o.kind = "cfgrec" => o.rest \in Seq(Lines)
  /\ o.pc = "line" => o.rest # <<>>
  /\ o.pc = "get" => o.kind = "put"
  /\ o.pc # "idle" /\ o.kind = "put" =>
       o.ctl \in Controls /\ o.reg = o.ctl.reg /\ o.n \in Settable(o.ctl)
  /\ o.pc \in Writing /\ o.kind = "put" =>
       /\ o.rest \in Seq(Word) /\ Len(o.rest) = 1 /\ o.val[1] = Merged(o.rest[1], o.ctl, o.n)
  /\ o.pc \in Reading => o.kind = "reg_rd" /\ o.reg \in Regs /\ o.n \in 1 .. MaxWords
  /\ o.pc \in {"copy", "len"} => o.rest \in Seq(Word) /\ Len(o.rest) = o.n
  /\ o.pc = "copy" => o.val = o.rest
  /\ o.pc = "take" => o.n < LenMod
OpsHeld == \A u \in Users : Held(op[u])

\* The words of a write in the buffer are its own while it is not off.
BufferRight ==
  \A u \in Users : ~op[u].off => \A k \in InBuffer(op[u]) : buffer[k] = Frame(op[u])[k]

\* One write at a time is on the bus, and while it is not off the device has its header up to
\* where it is: when that is complete, the command under way is the one for its data.
BusRight ==
  /\ \A u, w \in Users : OnBus(op[u]) /\ OnBus(op[w]) => u = w
  /\ (\A u \in Users : ~OnBus(op[u])) => cmd = Idle
  /\ \A u \in Users : OnBus(op[u]) /\ ~op[u].off =>
       LET o == op[u]
           h == WriteHeader(o.reg)
           x == [addr |-> o.reg, read |-> FALSE, words |-> 1] IN
       IF o.at = Len(h) THEN cmd = x ELSE cmd = Idle /\ Access(page, h[2]) = x

\* The words of a dump are a request's own while it is not off.
DumpsRight ==
  \A u \in Users : op[u].pc = "len" /\ ~op[u].off => \A i \in 1 .. op[u].n : rwbuf[i] = op[u].rest[i]

\* Unless they were mixed, one user at a time takes from a dump, no more than there is.
TakesRight ==
  ~mixed => /\ rwlen <= MaxWords
            /\ \A u \in Users : op[u].pc = "take" => op[u].n <= rwlen
            /\ \A u, w \in Users : op[u].pc = "take" /\ op[w].pc = "take" => u = w

RegInv ==
  /\ RegTypes /\ OpsHeld /\ BufferRight /\ BusRight /\ DumpsRight /\ TakesRight
  /\ WritesLand /\ ControlsHold /\ DumpKept

=============================================================================
