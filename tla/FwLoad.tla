-------------------------------- MODULE FwLoad --------------------------------
(***************************************************************************)
(* Loading a firmware image by writing its file to the proc entry of a     *)
(* device (hbi_k.c, hbi_proc_load_fw and hbi_wr_bin_fw).  The file arrives *)
(* in several writes; the driver gathers it in the device's buffer, and    *)
(* pushes it block by block once it holds enough.                          *)
(*                                                                         *)
(* Lengths are in units: a file is HdrLen units of header and its image.   *)
(* What the header says is latched in static variables, shared by every    *)
(* device and never reset.                                                 *)
(***************************************************************************)
EXTENDS Naturals, FiniteSets, Sequences

CONSTANTS
  Writers,      \* the processes that write images
  Devices,
  Images,       \* the image files
  ImgLen,       \* the length of each image, without its header
  HdrLen,       \* IMG_HDR_LEN
  BlockSize,    \* the block length every header names
  BufLen,       \* HBI_LNX_BUF_MAX_LEN
  Cuts          \* where a file may be cut between two writes: pairs <<image, offset>>

ASSUME FwConstantsOK ==
  /\ ImgLen \in [Images -> Nat \ {0}] /\ HdrLen \in Nat \ {0} /\ BlockSize \in Nat \ {0}
  /\ BufLen \in Nat
  /\ \A c \in Cuts : c[1] \in Images /\ c[2] \in 1 .. HdrLen + ImgLen[c[1]] - 1

FileLen(image) == HdrLen + ImgLen[image]
File(image)    == [k \in 1 .. FileLen(image) |-> <<image, k>>]
CutsOf(image)  == {c[2] : c \in {x \in Cuts : x[1] = image}}
Payload(image) == [k \in 1 .. ImgLen[image] |-> <<image, HdrLen + k>>]
Blank          == <<"blank", 0>>
NoLoad         == [image |-> "none", data |-> <<>>]

VARIABLES
  first, total_img_len, block_size, hdr_len,   \* the statics of hbi_proc_load_fw
  hbi_buf,     \* what each device's buffer holds; all behind it is zero
  pc,          \* where each writer is
  dev, image,  \* what it writes, and where
  at,          \* how much of the file it has written
  size,        \* the size hbi_wr_bin_fw was called with
  sent,        \* the blocks hbi_wr_bin_fw has sent
  res,         \* what became of the writer's last upload
  pushed,      \* history: has this upload been concluded on the device?
  loaded       \* history: each device's last concluded load

statics == <<first, total_img_len, block_size, hdr_len>>
fwVars  == <<statics, hbi_buf, pc, dev, image, at, size, sent, res, pushed, loaded>>

Init ==
  /\ first = TRUE /\ total_img_len = 1 /\ block_size = 0 /\ hdr_len = 0
  /\ hbi_buf = [d \in Devices |-> <<>>]
  /\ pc = [w \in Writers |-> "idle"]
  /\ dev \in [Writers -> Devices] /\ image \in [Writers -> Images]
  /\ at = [w \in Writers |-> 0] /\ size = [w \in Writers |-> 0]
  /\ sent = [w \in Writers |-> <<>>] /\ res = [w \in Writers |-> "none"]
  /\ pushed = [w \in Writers |-> FALSE] /\ loaded = [d \in Devices |-> NoLoad]

-----------------------------------------------------------------------------
(* The writing process: it stops at the first write that fails. *)

Start(w, d, i) ==
  /\ pc[w] = "idle"
  /\ \A v \in Writers : dev[v] = d => pc[v] = "idle"
  /\ dev' = [dev EXCEPT ![w] = d] /\ image' = [image EXCEPT ![w] = i]
  /\ at' = [at EXCEPT ![w] = 0] /\ pc' = [pc EXCEPT ![w] = "write"]
  /\ res' = [res EXCEPT ![w] = "none"] /\ pushed' = [pushed EXCEPT ![w] = FALSE]
  /\ UNCHANGED <<statics, hbi_buf, size, sent, loaded>>

\* A write returns its size, and the process goes on to the end of the file.
WriteOk(w) ==
  IF at[w] = FileLen(image[w])
    THEN pc' = [pc EXCEPT ![w] = "idle"] /\ res' = [res EXCEPT ![w] = "done"]
    ELSE pc' = [pc EXCEPT ![w] = "write"] /\ UNCHANGED res
WriteFails(w) == pc' = [pc EXCEPT ![w] = "idle"] /\ res' = [res EXCEPT ![w] = "failed"]

-----------------------------------------------------------------------------
(* hbi_proc_load_fw *)

\* Variant: the room left in the buffer is not checked.
FitsAlways(d, n) == TRUE
Fits(d, n) == Len(hbi_buf[d]) + n <= BufLen

\* Appends what is written to the buffer, or empties the buffer if it does not fit.
Write(w) ==
  \E e \in CutsOf(image[w]) \cup {FileLen(image[w])} :
    LET d == dev[w] IN
    /\ pc[w] = "write" /\ e > at[w]
    /\ IF Fits(d, e - at[w])
         THEN /\ hbi_buf' = [hbi_buf EXCEPT ![d] = @ \o SubSeq(File(image[w]), at[w] + 1, e)]
              /\ pc' = [pc EXCEPT ![w] = "header"]
              /\ at' = [at EXCEPT ![w] = e]
              /\ UNCHANGED res
         ELSE /\ hbi_buf' = [hbi_buf EXCEPT ![d] = <<>>]
              /\ WriteFails(w)
              /\ UNCHANGED at
    /\ UNCHANGED <<statics, dev, image, size, sent, pushed, loaded>>

\* The first write ever parses the header: HBI_get_header refuses less than a header.
Header(w) ==
  LET b == hbi_buf[dev[w]] IN
  /\ pc[w] = "header"
  /\ IF first /\ Len(b) < HdrLen
       THEN WriteFails(w) /\ UNCHANGED statics
       ELSE /\ first' = FALSE
            /\ total_img_len' = IF first THEN ImgLen[b[1][1]] ELSE total_img_len
            /\ block_size' = IF first THEN BlockSize ELSE block_size
            /\ hdr_len' = IF first THEN HdrLen ELSE hdr_len
            /\ pc' = [pc EXCEPT ![w] = "compare"]
            /\ UNCHANGED res
  /\ UNCHANGED <<hbi_buf, dev, image, at, size, sent, pushed, loaded>>

\* Variant: the length in bytes is compared as if it were words.
EnoughWords(n) == n >= 2 * total_img_len
Enough(n) == n >= total_img_len

Compare(w) ==
  /\ pc[w] = "compare"
  /\ IF Enough(Len(hbi_buf[dev[w]]))
       THEN /\ pc' = [pc EXCEPT ![w] = "push"]
            /\ size' = [size EXCEPT ![w] = total_img_len]
            /\ sent' = [sent EXCEPT ![w] = <<>>]
            /\ UNCHANGED res
       ELSE WriteOk(w) /\ UNCHANGED <<size, sent>>
  /\ UNCHANGED <<statics, hbi_buf, dev, image, at, pushed, loaded>>

\* Variant: the blocks are taken from the start of the buffer, header included.
BlockFromHeader(b, i) ==
  [k \in 1 .. block_size |-> IF i + k <= Len(b) THEN b[i + k] ELSE Blank]
\* The block at offset i behind the header.
Block(b, i) ==
  [k \in 1 .. block_size |-> IF hdr_len + i + k <= Len(b) THEN b[hdr_len + i + k] ELSE Blank]

\* Variant: a push that fails leaves the buffer as it is.
EmptiedOnSuccess(b, ok) == IF ok THEN <<>> ELSE b
Emptied(b, ok) == <<>>

\* hbi_wr_bin_fw has returned; the buffer is emptied whatever became of the push.
Pushed(w, ok) ==
  /\ hbi_buf' = [hbi_buf EXCEPT ![dev[w]] = Emptied(@, ok)]
  /\ IF ok THEN WriteOk(w) ELSE WriteFails(w)

\* HBI_CMD_LOAD_FWR_FROM_HOST with one block.
SendBlock(w) ==
  LET i == Len(sent[w]) IN
  /\ pc[w] = "push" /\ (i = 0 \/ i < size[w])
  /\ \/ /\ size[w] >= block_size /\ block_size > 0
        /\ sent' = [sent EXCEPT ![w] = @ \o Block(hbi_buf[dev[w]], i)]
        /\ UNCHANGED <<hbi_buf, pc, res>>
     \/ Pushed(w, FALSE) /\ UNCHANGED sent        \* the block is too long, or the bus failed
  /\ UNCHANGED <<statics, dev, image, at, size, pushed, loaded>>

\* HBI_CMD_LOAD_FWR_COMPLETE
Conclude(w) ==
  /\ pc[w] = "push" /\ Len(sent[w]) > 0 /\ Len(sent[w]) >= size[w]
  /\ \/ /\ Pushed(w, TRUE)
        /\ pushed' = [pushed EXCEPT ![w] = TRUE]
        /\ loaded' = [loaded EXCEPT ![dev[w]] = [image |-> image[w], data |-> sent[w]]]
     \/ Pushed(w, FALSE) /\ UNCHANGED <<pushed, loaded>>
  /\ sent' = [sent EXCEPT ![w] = <<>>] /\ size' = [size EXCEPT ![w] = 0]
  /\ UNCHANGED <<statics, dev, image, at>>

Next ==
  \E w \in Writers :
    \/ \E d \in Devices, i \in Images : Start(w, d, i)
    \/ Write(w) \/ Header(w) \/ Compare(w) \/ SendBlock(w) \/ Conclude(w)

Spec == Init /\ [][Next]_fwVars

\* The files that fit the buffer.  The first piece the driver ever takes latches the length: when
\* it is of a file too long, or of another length, no other file is pushed right until the
\* module is loaded again.
Fitting   == {i \in Images : FileLen(i) <= BufLen}
FirstFits == first => \A w \in Writers : pc[w] = "header" => image[w] \in Fitting

LoadSpec == Init /\ [][Next /\ FirstFits']_fwVars

-----------------------------------------------------------------------------
(* Properties *)

Places == {"idle", "write", "header", "compare", "push"}

\* The statics and the buffers keep their types, and no buffer holds more than its length.
TypeOK ==
  /\ first \in BOOLEAN /\ total_img_len \in Nat /\ block_size \in Nat /\ hdr_len \in Nat
  /\ \A d \in Devices : Len(hbi_buf[d]) <= BufLen
  /\ pc \in [Writers -> Places] /\ res \in [Writers -> {"none", "done", "failed"}]
  /\ \A w \in Writers : at[w] \in 0 .. FileLen(image[w])

\* What a device was loaded with, up to the HBI_CMD_LOAD_FWR_COMPLETE it accepted, is the
\* image of the file that was written, whole, in order and without its header, whatever was
\* written to the other devices meanwhile and whichever uploads failed before.
LoadedWhole ==
  \A d \in Devices : loaded[d] # NoLoad => loaded[d].data = Payload(loaded[d].image)

\* A process whose every write succeeded has loaded its image.
DoneMeansLoaded == \A w \in Writers : res[w] = "done" => pushed[w]

\* An upload starts with an empty buffer, also after one that failed on the bus, did not fit, or
\* overflowed the buffer after pieces of it had been taken.  (A process that stops between two
\* writes of its own accord is not modelled: what it wrote would stay in the buffer.)
StartsEmpty ==
  \A w \in Writers : pc[w] = "write" /\ at[w] = 0 => hbi_buf[dev[w]] = <<>>

\* hbi_k.c:1836, "this command accumulates complete data in kernel buffer and then written to
\* device": a push starts when the whole file has been written.
CompleteBeforePush == \A w \in Writers : pc[w] = "push" => at[w] = FileLen(image[w])

=============================================================================
