------------------------------- MODULE RegAccess -------------------------------
(***************************************************************************)
(* Register accesses of several users to one device: HBI_read and          *)
(* HBI_write down to the bus (internal_hbi_read and internal_hbi_write in  *)
(* hbi_tw.c, hbi_ssl.c, hal_port.c), the proc entries for registers and    *)
(* for a configuration record (hbi_k.c), and the mixer controls of the     *)
(* ALSA codec, which read a register, change a field and write it back     *)
(* (zl380xx_codec.c).                                                      *)
(*                                                                         *)
(* A read is one step, under the port lock.  A write puts its header and   *)
(* its data into the one buffer of the device before it takes the lock,    *)
(* and the bus sends from there: each word put in and each word sent is a  *)
(* step, so writes of other users change the buffer at any time.  The      *)
(* register dump is kept in one global buffer too.                         *)
(***************************************************************************)
EXTENDS RegFrame, Integers

CONSTANTS
  Users,
  Regs,        \* registers of the device that hold what is written to them
  Vals,        \* what users write to them
  Controls,    \* mixer controls, each with its register and, as powers of two, its shift (unit),
               \* the lowest bit of its mask (low) and the number of its values
  Settings,    \* what users set them to
  MaxWords,    \* words of the largest register dump
  Records,     \* configuration records: sequences of register and value
  MaxPolls,    \* bound, for APP_RST_WAIT
  LenMod,      \* size_t of hbi_rw.len wraps
  Works,       \* ways to share the operations among the users
  None

Word   == 0 .. 256 * 256 - 1
Lines  == [reg : Addrs, val : Word]      \* of a configuration record
Powers == {1, 2, 4, 8, 16, 32, 64, 128, 256, 512, 1024, 2048, 4096, 8192, 16384, 32768}

\* The lowest bit of a control in its register, and the bit after its highest; one is below
\* another.
First(c)    == c.unit * c.low
After(c)    == First(c) * c.values
Below(c, d) == First(d) % After(c) = 0

ASSUME RegConstantsOK ==
  /\ Regs \subseteq Addrs /\ Vals \subseteq Word /\ Settings \subseteq Word
  /\ MaxWords \in 1 .. 128 /\ MaxPolls \in Nat /\ LenMod \in Nat /\ LenMod > MaxWords
  /\ Records \subseteq Seq(Lines)
  /\ Controls \subseteq [reg : Regs, unit : Powers, low : Powers, values : Powers]
  /\ \A c \in Controls : 65536 % After(c) = 0
  /\ \A c, d \in Controls : c # d /\ c.reg = d.reg => Below(c, d) \/ Below(d, c)

FlagsReg  == 6          \* ZL380xx_HOST_SW_FLAGS_REG, which the device changes itself
AppReboot == 2

NoOp == [pc |-> "idle", kind |-> None, reg |-> None, n |-> 0, at |-> 0, val |-> <<>>,
         rest |-> <<>>, ctl |-> None, off |-> FALSE]

VARIABLES
  work,           \* the operations each user makes, chosen once
  page, cmd, regs, \* the device; cmd is the command under way in a transfer
  buffer,         \* vproc_dev.buffer, its first words
  rwbuf, rwlen,   \* hbi_rw: the words of the last register dump, and how many are left
  op,             \* the operation of each user
  written,        \* history: what each register was last written to by a write that succeeded
  want,           \* history: what each control was last set to
  fresh,          \* history: the words of the last dump, while nobody has touched it
  mixed           \* history: a dump was taken from during another dump or request

device == <<page, cmd, regs>>
hist == <<written, want, fresh, mixed>>
vars == <<work, device, buffer, rwbuf, rwlen, op, hist>>

\* v & m, for a mask m of the bits from low on that have so many values; v & mask; and
\* (v >> shift) & mask.
Bits(v, low, values) == low * ((v \div low) % values)
Masked(v, c)         == Bits(v, c.low, c.values)
Field(v, c)          == Masked(v \div c.unit, c)

Init ==
  /\ work \in Works
  /\ page = 0 /\ cmd = Idle /\ regs = [r \in Regs |-> 0] /\ buffer = [i \in 1 .. 3 |-> 0]
  /\ rwbuf = [i \in 1 .. MaxWords |-> 0] /\ rwlen = 0
  /\ op = [u \in Users |-> NoOp]
  /\ written = regs /\ want = [c \in Controls |-> 0] /\ fresh = None /\ mixed = FALSE

Set(u, o)   == op' = [op EXCEPT ![u] = o]
Begin(u, k) == op[u] = NoOp /\ k \in work[u]

-----------------------------------------------------------------------------
(* The bus: SSL_port_rw, SSL_port_write, hal_port_rw.  Who is sending holds the port lock. *)

OnBus(o)   == o.pc = "send" /\ o.at > 0
BusFree(u) == \A w \in Users \ {u} : ~OnBus(op[w])

\* internal_hbi_read: n words from register r.  One that fails may have selected the page.
Peek(a) == IF a \in Regs THEN regs[a] ELSE 0
ReadHeader(r, n) == Header(r, TRUE, 2 * n)
ReadWords(r, n) ==
  LET x == Decoded(page, ReadHeader(r, n)) IN [i \in 1 .. n |-> Peek(x.addr + 2 * (i - 1))]
AfterRead(u, r, n) == BusFree(u) /\ page' = Selected(page, ReadHeader(r, n)[1])
ReadFails(u, r, n) == BusFree(u) /\ page' \in {page, Selected(page, ReadHeader(r, n)[1])}

\* internal_hbi_write: the header, one word or two, and behind it the data.
WriteHeader(r) == Header(r, FALSE, 2)
Frame(o)       == WriteHeader(o.reg) \o o.val

\* The words of a write that are in the buffer and still to be sent.
InBuffer(o) ==
  IF o.pc = "fill" THEN 1 .. o.at ELSE IF o.pc = "send" THEN o.at + 1 .. Len(Frame(o)) ELSE {}

\* Before the lock.  History: a write is off from when another one has changed a word of it.
Fill(u) ==
  LET o == op[u]
      k == o.at + 1
  IN
  /\ o.pc = "fill"
  /\ buffer' = [buffer EXCEPT ![k] = Frame(o)[k]]
  /\ op' = [w \in Users |->
       IF w = u THEN IF k = Len(Frame(o)) THEN [o EXCEPT !.pc = "send", !.at = 0] ELSE [o EXCEPT !.at = k]
       ELSE IF k \in InBuffer(op[w]) /\ Frame(o)[k] # buffer[k] THEN [op[w] EXCEPT !.off = TRUE]
       ELSE op[w]]
  /\ UNCHANGED <<device, rwbuf, rwlen, hist>>

\* What becomes of an operation after its write: a configuration record goes on, whatever the
\* write returned, and waits after its restart if that was written; the others are done.
NextLine(rest) == IF rest = <<>> THEN "reboot" ELSE "line"
AfterWrite(o, ok) ==
  IF o.kind = "cfgrec" THEN [o EXCEPT !.pc = NextLine(o.rest), !.at = 0, !.off = FALSE]
  ELSE IF o.kind = "restart" /\ ok THEN [o EXCEPT !.pc = "poll", !.at = 0, !.off = FALSE]
  ELSE NoOp

\* The registers when the device has taken a word.
Stored(w) ==
  IF cmd.words > 0 /\ ~cmd.read /\ cmd.addr \in Regs THEN [regs EXCEPT ![cmd.addr] = w] ELSE regs

\* History: a write has written its register when its last word is sent; one that is off has
\* written what it changed.
Wrote(o, last, new) ==
  IF o.off THEN [r \in Regs |-> IF new[r] = regs[r] THEN written[r] ELSE new[r]]
  ELSE IF last /\ o.reg \in Regs THEN [written EXCEPT ![o.reg] = o.val[1]]
  ELSE written

\* History: a control that is put has its value, and the others keep theirs, unless the register
\* was written since the put read it.  Any other write sets them to what it writes there.
Puts(o, last)    == o.kind = "put" /\ last /\ ~o.off
Current(o)       == o.rest[1] = regs[o.reg]
Wanted(o, last, new) ==
  [c \in Controls |->
    IF Puts(o, last) /\ c = o.ctl THEN o.n
    ELSE IF new[c.reg] = regs[c.reg] \/ (Puts(o, last) /\ Current(o)) THEN want[c]
    ELSE Field(new[c.reg], c)]

\* Under the lock.  The words are sent as they are in the buffer, as many as the write has.
Send(u) ==
  LET o    == op[u]
      k    == o.at + 1
      w    == buffer[k]
      last == k = Len(Frame(o))
  IN
  /\ o.pc = "send" /\ BusFree(u)
  /\ page' = PageAfter(page, cmd, w) /\ regs' = Stored(w)
  /\ cmd' = IF last THEN Idle ELSE CommandAfter(page, cmd, w)
  /\ Set(u, IF last THEN AfterWrite(o, TRUE) ELSE [o EXCEPT !.at = k])
  /\ written' = Wrote(o, last, Stored(w)) /\ want' = Wanted(o, last, Stored(w))
  /\ UNCHANGED <<buffer, rwbuf, rwlen, fresh, mixed>>

\* The bus fails before a word: the device has taken those before it.
SendFails(u) ==
  /\ op[u].pc = "send" /\ BusFree(u)
  /\ cmd' = Idle /\ Set(u, AfterWrite(op[u], FALSE))
  /\ UNCHANGED <<page, regs, buffer, rwbuf, rwlen, hist>>

-----------------------------------------------------------------------------
(* /proc: reg_wr, reg_rd and its dump *)

\* hbi_proc_reg_wr
RegWr(u, r, v) ==
  /\ Begin(u, "reg_wr")
  /\ Set(u, [NoOp EXCEPT !.pc = "fill", !.kind = "reg_wr", !.reg = r, !.val = <<v>>])
  /\ UNCHANGED <<device, buffer, rwbuf, rwlen, hist>>

\* History: other requests find the words changed.
Asking(w)    == op[w].kind = "reg_rd"
Scrambled(u) == [w \in Users |-> IF w # u /\ Asking(w) THEN [op[w] EXCEPT !.off = TRUE] ELSE op[w]]

\* hbi_proc_reg_rd: it clears the words, reads them, and then sets their number; if the read
\* fails the number stays.
RegRd(u, r, n) ==
  /\ Begin(u, "reg_rd")
  /\ rwbuf' = [i \in 1 .. MaxWords |-> IF i <= n THEN 0 ELSE rwbuf[i]]
  /\ op' = [Scrambled(u) EXCEPT ![u] =
              [NoOp EXCEPT !.pc = "read", !.kind = "reg_rd", !.reg = r, !.n = n]]
  /\ fresh' = None
  /\ UNCHANGED <<device, buffer, rwlen, written, want, mixed>>

Read(u) ==
  LET o == op[u] IN
  /\ o.pc = "read"
  /\ \/ AfterRead(u, o.reg, o.n) /\ Set(u, [o EXCEPT !.pc = "copy", !.val = ReadWords(o.reg, o.n),
                                                    !.rest = [i \in 1 .. o.n |-> Peek(o.reg + 2 * (i - 1))]])
     \/ ReadFails(u, o.reg, o.n) /\ Set(u, NoOp)
  /\ UNCHANGED <<cmd, regs, buffer, rwbuf, rwlen, hist>>

\* Variant: the last word is not copied.
CopiedShort(o) == [i \in 1 .. MaxWords |-> IF i < o.n THEN o.val[i] ELSE rwbuf[i]]
Copied(o) == [i \in 1 .. MaxWords |-> IF i <= o.n THEN o.val[i] ELSE rwbuf[i]]

\* HBI_read copies what it has read to the caller's buffer when it has released the lock.
CopyOut(u) ==
  LET o == op[u] IN
  /\ o.pc = "copy"
  /\ rwbuf' = Copied(o)
  /\ op' = [Scrambled(u) EXCEPT ![u].pc = "len"]
  /\ fresh' = None
  /\ UNCHANGED <<device, buffer, rwlen, written, want, mixed>>

\* Another user is taking from the dump.
Taking(u) == \E w \in Users \ {u} : op[w].pc = "take"

SetLen(u) ==
  LET o == op[u] IN
  /\ o.pc = "len"
  /\ rwlen' = o.n
  /\ Set(u, NoOp)
  /\ fresh' = IF o.off \/ Taking(u) \/ \E w \in Users \ {u} : Asking(w) THEN None ELSE o.rest
  /\ mixed' = Taking(u)
  /\ UNCHANGED <<device, buffer, rwbuf, written, want>>

\* Variant: the size asked for is not limited to what is left.
TakenUnlimited(size) == size
Taken(size) == IF size > rwlen THEN rwlen ELSE size

\* hbi_proc_reg_rd_dump: always from the first word; at the end of the dump nothing happens.
Dump(u, size) ==
  /\ Begin(u, "dump") /\ rwlen # 0
  /\ Set(u, [NoOp EXCEPT !.pc = "take", !.kind = "dump", !.n = Taken(size)])
  /\ mixed' = (mixed \/ Taking(u))
  /\ UNCHANGED <<device, buffer, rwbuf, rwlen, written, want, fresh>>

\* Variant: the length is a signed number.
LeftSigned(n) == rwlen - n
Left(n) == (rwlen + LenMod - n) % LenMod

Take(u) ==
  /\ op[u].pc = "take"
  /\ rwlen' = Left(op[u].n)
  /\ Set(u, NoOp)
  /\ fresh' = None
  /\ UNCHANGED <<device, buffer, rwbuf, written, want, mixed>>

-----------------------------------------------------------------------------
(* /proc: hbi_proc_wr_cfgrec *)

CfgRec(u, rec) ==
  /\ Begin(u, "cfgrec")
  /\ Set(u, [NoOp EXCEPT !.pc = NextLine(rec), !.kind = "cfgrec", !.rest = rec])
  /\ UNCHANGED <<device, buffer, rwbuf, rwlen, hist>>

CfgLine(u) ==
  LET o == op[u] IN
  /\ o.pc = "line"
  /\ Set(u, [o EXCEPT !.pc = "fill", !.reg = o.rest[1].reg, !.val = <<o.rest[1].val>>, !.rest = Tail(@)])
  /\ UNCHANGED <<device, buffer, rwbuf, rwlen, hist>>

\* The last write asks for a restart of the application.
CfgReboot(u) ==
  /\ op[u].pc = "reboot"
  /\ Set(u, [op[u] EXCEPT !.pc = "fill", !.kind = "restart", !.reg = FlagsReg, !.val = <<AppReboot>>])
  /\ UNCHANGED <<device, buffer, rwbuf, rwlen, hist>>

\* It reads the flags until a read fails or it has read them often enough, whatever it reads.
CfgPoll(u) ==
  LET o == op[u] IN
  /\ o.pc = "poll"
  /\ \/ /\ AfterRead(u, FlagsReg, 1)
        /\ Set(u, IF o.n < MaxPolls THEN [o EXCEPT !.n = @ + 1] ELSE NoOp)
     \/ ReadFails(u, FlagsReg, 1) /\ Set(u, NoOp)
  /\ UNCHANGED <<cmd, regs, buffer, rwbuf, rwlen, hist>>

-----------------------------------------------------------------------------
(* The mixer controls: zl380xx_control_write; zl380tw_mute_r and zl380tw_mute_s do the same to
   bits 7 and 8 of AEC_CTRL0 *)

Put(u, c, v) ==
  /\ Begin(u, "put")
  /\ Set(u, [NoOp EXCEPT !.pc = "get", !.kind = "put", !.reg = c.reg, !.ctl = c, !.n = Masked(v, c)])
  /\ UNCHANGED <<device, buffer, rwbuf, rwlen, hist>>

\* Variant: the field is cleared where the mask is, not where the field is.
MergedUnshifted(old, c, v) == old - Masked(old, c) + v * c.unit
\* valt &= ~(mask << shift); valt |= val << shift
Merged(old, c, v) == old - Bits(old, First(c), c.values) + v * c.unit

\* It reads the register, and is done if the field has the value.
PutReads(u) ==
  LET o == op[u]
      old == ReadWords(o.reg, 1)[1] IN
  /\ o.pc = "get"
  /\ \/ /\ AfterRead(u, o.reg, 1)
        /\ IF Field(old, o.ctl) = o.n
             THEN Set(u, NoOp) /\ want' = [want EXCEPT ![o.ctl] = o.n]
             ELSE /\ Set(u, [o EXCEPT !.pc = "fill", !.val = <<Merged(old, o.ctl, o.n)>>, !.rest = <<old>>])
                  /\ UNCHANGED want
     \/ ReadFails(u, o.reg, 1) /\ Set(u, NoOp) /\ UNCHANGED want
  /\ UNCHANGED <<cmd, regs, buffer, rwbuf, rwlen, written, fresh, mixed>>

-----------------------------------------------------------------------------
Step(u) ==
  \/ Fill(u) \/ Send(u) \/ SendFails(u)
  \/ \E r \in Regs, v \in Vals : RegWr(u, r, v)
  \/ \E r \in Regs, n \in 1 .. MaxWords : RegRd(u, r, n)
  \/ Read(u) \/ CopyOut(u) \/ SetLen(u)
  \/ \E n \in 1 .. MaxWords + 1 : Dump(u, n)
  \/ Take(u)
  \/ \E rec \in Records : CfgRec(u, rec)
  \/ CfgLine(u) \/ CfgReboot(u) \/ CfgPoll(u)
  \/ \E c \in Controls, v \in Settings : Put(u, c, v)
  \/ PutReads(u)

Next == UNCHANGED work /\ \E u \in Users : Step(u)

Spec == Init /\ [][Next]_vars

-----------------------------------------------------------------------------
(* Properties *)

\* Every variable keeps its type; the device has a page selected.
TypeOK ==
  /\ page \in 0 .. 255 /\ regs \in [Regs -> Word] /\ buffer \in [1 .. 3 -> Word]
  /\ rwbuf \in [1 .. MaxWords -> Word] /\ rwlen \in 0 .. LenMod - 1
  /\ \A u \in Users : op[u].pc \in {"idle", "fill", "send", "read", "copy", "len", "take",
                                    "line", "reboot", "poll", "get"}
  /\ written \in [Regs -> Word]

\* However reads and writes of several users follow each other, through pages that others have
\* selected, transfers that fail half way and buffers that others fill, each register holds what
\* the last write that succeeded wrote to it.  What the code does not keep apart is exempt: a
\* write of which another one has changed a word in the buffer of the device, between filling and
\* sending it, may write anything to any register.
WritesLand == regs = written

\* A mixer control has the value it was last put to, also when other controls of its register are
\* put at the same time.  Exempt are: a write of the whole register by other means sets it to
\* what it writes there; another control's put that has read the register before it was last
\* written puts it back to what it was then; and so does, to anything, a write of which another
\* one, of whatever register, has changed a word in the buffer of the device.
ControlsHold == \A c \in Controls : Field(regs[c.reg], c) = want[c]

\* As long as nobody else asks or takes, the dump is the words the registers had.  (A request
\* that fails counts: it clears words and leaves the length.)
DumpKept == fresh # None => rwlen = Len(fresh) /\ \A i \in 1 .. rwlen : rwbuf[i] = fresh[i]

\* The length of the dump goes below zero only if one user takes from it while another one
\* takes or asks.
DumpEnds == rwlen > MaxWords => mixed

=============================================================================
