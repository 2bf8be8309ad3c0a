-------------------------------- MODULE RegFrame --------------------------------
(***************************************************************************)
(* The commands the HBI driver puts in front of the data of a register     *)
(* access (tw_hbi_tp_frame_hdr in hbi_tw.c), as 16-bit words, and what the *)
(* device makes of them.                                                   *)
(***************************************************************************)
EXTENDS Naturals, Sequences

\* reg_addr_t of 16-bit registers.  The commands for the last four of page 0 mean other things
\* to the device (HBI_SELECT_PAGE and its neighbours): there are no registers.
Addrs == {a \in 0 .. 256 * 256 - 1 : a % 2 = 0 /\ a \notin 248 .. 255}
Sizes == {s \in 2 .. 256 : s % 2 = 0}    \* bytes of an access: up to MAX_HBI_BYTES_PER_ACCESS

Page(addr)     == addr \div 256
Offset(addr)   == (addr % 256) \div 2
NumWords(size) == size \div 2 - 1

\* HBI_SELECT_PAGE, HBI_PAGED_READ and HBI_DIRECT_READ; a write has bit 7 besides.
SelectPage(page)      == 65024 + page
PagedRead(off, len)   == off * 256 + len
DirectRead(off, len)  == 32768 + off * 256 + len
Directed(w, read)     == IF read THEN w ELSE w + 128

\* Variant: the page register is taken to hold the number of the page.
HeaderRawPage(addr, read, size) ==
  LET o == Offset(addr)
      n == NumWords(size) IN
  IF Page(addr) = 0 THEN <<Directed(DirectRead(o, n), read)>>
  ELSE <<SelectPage(Page(addr)), Directed(PagedRead(o, n), read)>>

\* Pages are numbered from 1 in an address and from 0 in the device, but for the last one.
Header(addr, read, size) ==
  LET o == Offset(addr)
      n == NumWords(size)
      p == IF Page(addr) = 255 THEN 255 ELSE Page(addr) - 1 IN
  IF Page(addr) = 0 THEN <<Directed(DirectRead(o, n), read)>>
  ELSE <<SelectPage(p), Directed(PagedRead(o, n), read)>>

-----------------------------------------------------------------------------
(* The device *)

IsSelect(w)    == w \div 256 = 254
Selected(page, w) == IF IsSelect(w) THEN w % 256 ELSE page
PageAddr(page) == IF page = 255 THEN 255 * 256 ELSE (page + 1) * 256

\* An access command when the page is selected.
Access(page, w) ==
  LET body == w % 32768 IN
  [addr  |-> (IF w >= 32768 THEN 0 ELSE PageAddr(page)) + 2 * (body \div 256),
   read  |-> (body \div 128) % 2 = 0,
   words |-> (body % 128) + 1]

\* The words of a transfer, one by one: while a command is under way they are its data, else
\* commands.
Idle == [addr |-> 0, read |-> FALSE, words |-> 0]
PageAfter(page, cmd, w) == IF cmd.words = 0 THEN Selected(page, w) ELSE page
CommandAfter(page, cmd, w) ==
  IF cmd.words > 0 THEN [cmd EXCEPT !.addr = @ + 2, !.words = @ - 1]
  ELSE IF IsSelect(w) THEN Idle
  ELSE Access(page, w)

\* What the device does with a header when it has a page selected.
Decoded(page, h) ==
  IF IsSelect(h[1]) THEN Access(Selected(page, h[1]), h[2]) ELSE Access(page, h[1])

=============================================================================
