------------------------------- MODULE FwLoadInv -------------------------------
(***************************************************************************)
(* The inductive invariants of FwLoad.                                     *)
(***************************************************************************)
EXTENDS FwLoad

-----------------------------------------------------------------------------
(* What holds of every file *)

FwTypes ==
  /\ first \in BOOLEAN /\ total_img_len \in Nat /\ block_size \in Nat /\ hdr_len \in Nat
  /\ hbi_buf \in [Devices -> Seq(Images \X Nat)] /\ \A d \in Devices : Len(hbi_buf[d]) <= BufLen
  /\ pc \in [Writers -> Places]
  /\ dev \in [Writers -> Devices] /\ image \in [Writers -> Images]
  /\ at \in [Writers -> Nat] /\ \A w \in Writers : at[w] <= FileLen(image[w])
  /\ size \in [Writers -> Nat] /\ sent \in [Writers -> Seq((Images \X Nat) \cup {Blank})]
  /\ res \in [Writers -> {"none", "done", "failed"}] /\ pushed \in [Writers -> BOOLEAN]
  /\ DOMAIN loaded = Devices

\* A device is written by one process at a time.
OneWriter ==
  \A v, w \in Writers : dev[v] = dev[w] /\ pc[v] # "idle" /\ pc[w] # "idle" => v = w

\* The header is parsed before anything is compared with it.
FirstSeen == first => \A w \in Writers : pc[w] \in {"idle", "write", "header"}

FwInv == FwTypes /\ OneWriter /\ FirstSeen

-----------------------------------------------------------------------------
(* What holds of files the driver can load: those that fit the buffer are whole blocks of one   *)
(* length, and the writes of a file, one too long included, break off behind its header and     *)
(* before the latched length is reached, which is HdrLen units before the end of a file that    *)
(* fits.                                                                                        *)

Regular ==
  /\ \A i, j \in Fitting : ImgLen[i] = ImgLen[j]
  /\ \A i \in Fitting : \E m \in Nat : ImgLen[i] = m * BlockSize
  /\ \A i \in Images : \A e \in CutsOf(i) : HdrLen <= e /\ \A j \in Fitting : e < ImgLen[j]

\* The header that was latched is right for every file that fits.
Latched ==
  ~first => /\ block_size = BlockSize /\ hdr_len = HdrLen
            /\ Fitting # {} /\ \A i \in Fitting : total_img_len = ImgLen[i]

\* The first n units of a file.
Written(i, n) == [k \in 1 .. n |-> <<i, k>>]

\* A buffer holds what its writer has written of its file, and nothing when nobody writes.
Gathered ==
  /\ \A w \in Writers : pc[w] # "idle" => hbi_buf[dev[w]] = Written(image[w], at[w])
  /\ \A d \in Devices : (\A w \in Writers : dev[w] = d => pc[w] = "idle") => hbi_buf[d] = <<>>
  /\ \A w \in Writers : pc[w] = "write" => at[w] \in {0} \cup CutsOf(image[w])
  /\ \A w \in Writers : pc[w] \in {"header", "compare"} =>
       \/ image[w] \in Fitting /\ at[w] = FileLen(image[w])
       \/ at[w] \in CutsOf(image[w])
  /\ \A w \in Writers : pc[w] = "push" => image[w] \in Fitting /\ at[w] = FileLen(image[w])

\* What was sent is the image so far, in whole blocks.
SentRight(w) ==
  pc[w] = "push" =>
    /\ size[w] = ImgLen[image[w]] /\ Len(sent[w]) <= size[w]
    /\ \E m \in Nat : size[w] = Len(sent[w]) + m * BlockSize
    /\ sent[w] = [k \in 1 .. Len(sent[w]) |-> <<image[w], HdrLen + k>>]
SentSoFar == \A w \in Writers : SentRight(w)

RegularInv == Latched /\ Gathered /\ SentSoFar /\ LoadedWhole /\ DoneMeansLoaded

=============================================================================
