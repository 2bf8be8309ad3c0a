------------------------------ MODULE FwLoadProofs ------------------------------
(***************************************************************************)
(* For every number of processes, devices and files: the upload through    *)
(* the proc entry (FwLoad) keeps its types and its buffers' lengths; and   *)
(* on the files the driver can load at all (Regular), what a device is     *)
(* loaded with is the image that was written.                              *)
(***************************************************************************)
EXTENDS FwLoadInv, TLAPS, SequenceTheorems

-----------------------------------------------------------------------------
(* Files *)

LEMMA Lengths ==
  /\ HdrLen \in Nat /\ HdrLen > 0 /\ BlockSize \in Nat /\ BlockSize > 0 /\ BufLen \in Nat
  /\ \A i \in Images : /\ ImgLen[i] \in Nat /\ ImgLen[i] > 0
                       /\ FileLen(i) \in Nat /\ FileLen(i) = HdrLen + ImgLen[i]
BY FwConstantsOK DEF FileLen

\* A write ends within the file.
LEMMA CutsInside ==
  ASSUME NEW i \in Images, NEW e \in CutsOf(i) \cup {FileLen(i)}
  PROVE  e \in Nat /\ e <= FileLen(i) /\ (e \in CutsOf(i) => e < FileLen(i))
<1>1. CASE e \notin CutsOf(i)
  BY <1>1, Lengths
<1>2. CASE e \in CutsOf(i)
  <2>1. PICK c \in Cuts : c[1] = i /\ e = c[2]
    BY <1>2 DEF CutsOf
  <2>2. c[2] \in 1 .. HdrLen + ImgLen[i] - 1
    BY <2>1, FwConstantsOK
  <2>3. e \in 1 .. HdrLen + ImgLen[i] - 1
    BY <2>1, <2>2
  <2>4. QED
    BY <2>3, Lengths
<1>3. QED
  BY <1>1, <1>2

\* The units of a file a write brings.
LEMMA Piece ==
  ASSUME NEW i \in Images, NEW a \in Nat, NEW e \in Nat, a < e, e <= FileLen(i)
  PROVE  /\ SubSeq(File(i), a + 1, e) \in Seq(Images \X Nat)
         /\ Len(SubSeq(File(i), a + 1, e)) = e - a
         /\ \A k \in 1 .. e - a : SubSeq(File(i), a + 1, e)[k] = <<i, a + k>>
<1>1. PICK L : L = FileLen(i)
  OBVIOUS
<1>2. L \in Nat /\ e <= L
  BY <1>1, Lengths
<1>3. PICK f : f = [k \in 1 .. L |-> <<i, k>>]
  OBVIOUS
<1>4. f \in Seq(Images \X Nat) /\ Len(f) = L /\ File(i) = f
  BY <1>1, <1>2, <1>3 DEF File
<1>5. SubSeq(f, a + 1, e) = [k \in 1 .. e - (a + 1) + 1 |-> f[k + (a + 1) - 1]]
  BY <1>2, <1>4 DEF SubSeq
<1>6. e - (a + 1) + 1 = e - a /\ \A k \in 1 .. e - a : k + (a + 1) - 1 = a + k /\ a + k \in 1 .. L
  BY <1>2
<1>7. SubSeq(f, a + 1, e) = [k \in 1 .. e - a |-> f[a + k]]
  BY <1>5, <1>6
<1>8. \A k \in 1 .. e - a : f[a + k] = <<i, a + k>> /\ <<i, a + k>> \in Images \X Nat
  BY <1>3, <1>6
<1>9. e - a \in Nat
  OBVIOUS
<1>10. PICK g : g = [k \in 1 .. e - a |-> f[a + k]]
  OBVIOUS
<1>11. g \in Seq(Images \X Nat) /\ Len(g) = e - a /\ \A k \in 1 .. e - a : g[k] = <<i, a + k>>
  <2>1. PICK n : n = e - a
    OBVIOUS
  <2>2. n \in Nat /\ g = [k \in 1 .. n |-> f[a + k]]
    BY <1>9, <1>10, <2>1
  <2>3. \A k \in 1 .. n : f[a + k] \in Images \X Nat
    BY <1>8, <2>1
  <2>4. g \in Seq(Images \X Nat) /\ Len(g) = n
    BY <2>2, <2>3
  <2>5. QED
    BY <1>8, <1>10, <2>1, <2>4
<1>12. QED
  BY <1>4, <1>7, <1>10, <1>11

\* What was written, and a write more.
LEMMA WrittenMore ==
  ASSUME NEW i \in Images, NEW a \in Nat, NEW e \in Nat, a < e, e <= FileLen(i)
  PROVE  Written(i, a) \o SubSeq(File(i), a + 1, e) = Written(i, e)
<1>1. PICK q : q = SubSeq(File(i), a + 1, e)
  OBVIOUS
<1>2. q \in Seq(Images \X Nat) /\ Len(q) = e - a /\ \A k \in 1 .. e - a : q[k] = <<i, a + k>>
  BY <1>1, Piece
<1>3. PICK r : r = Written(i, a)
  OBVIOUS
<1>4. r \in Seq(Images \X Nat) /\ Len(r) = a /\ \A k \in 1 .. a : r[k] = <<i, k>>
  BY <1>3 DEF Written
<1>5. PICK s : s = r \o q
  OBVIOUS
<1>6. /\ s \in Seq(Images \X Nat) /\ Len(s) = Len(r) + Len(q)
      /\ \A k \in 1 .. Len(r) + Len(q) : s[k] = IF k <= Len(r) THEN r[k] ELSE q[k - Len(r)]
  BY <1>2, <1>4, <1>5, ConcatProperties
<1>7. Len(s) = e
  BY <1>2, <1>4, <1>6
<1>8. \A k \in 1 .. e : s[k] = <<i, k>>
  <2>1. SUFFICES ASSUME NEW k \in 1 .. e
                 PROVE  s[k] = <<i, k>>
    OBVIOUS
  <2>2. s[k] = IF k <= a THEN r[k] ELSE q[k - a]
    BY <1>2, <1>4, <1>6, SMTT(60)
  <2>3. CASE k <= a
    BY <1>4, <2>2, <2>3
  <2>4. CASE ~(k <= a)
    <3>1. k - a \in 1 .. e - a /\ a + (k - a) = k
      BY <2>4
    <3>2. QED
      BY <1>2, <2>2, <2>4, <3>1
  <2>5. QED
    BY <2>3, <2>4
<1>9. s = [k \in 1 .. e |-> <<i, k>>]
  BY <1>6, <1>7, <1>8
<1>10. QED
  BY <1>1, <1>3, <1>5, <1>9 DEF Written

-----------------------------------------------------------------------------
(* Types, and one writer at a time *)

LEMMA FwInit == Init => FwInv
<1> SUFFICES ASSUME Init
             PROVE  FwInv
  OBVIOUS
<1>1. /\ \A w \in Writers : at[w] = 0 /\ pc[w] = "idle" /\ image[w] \in Images
      /\ \A d \in Devices : hbi_buf[d] = <<>>
  BY DEF Init
<1>2. \A w \in Writers : at[w] <= FileLen(image[w])
  BY <1>1, Lengths
<1>3. \A d \in Devices : Len(hbi_buf[d]) <= BufLen
  BY <1>1, Lengths
<1>4. FwTypes
  BY <1>2, <1>3 DEF Init, FwTypes, Places
<1>5. QED
  BY <1>1, <1>4 DEF FwInv, OneWriter, FirstSeen

LEMMA StartTypes ==
  ASSUME FwInv, NEW w \in Writers, NEW d \in Devices, NEW i \in Images, Start(w, d, i)
  PROVE  FwInv'
<1>1. /\ pc[w] = "idle" /\ \A v \in Writers : dev[v] = d => pc[v] = "idle"
      /\ dev' = [dev EXCEPT ![w] = d] /\ image' = [image EXCEPT ![w] = i]
      /\ at' = [at EXCEPT ![w] = 0] /\ pc' = [pc EXCEPT ![w] = "write"]
      /\ res' = [res EXCEPT ![w] = "none"] /\ pushed' = [pushed EXCEPT ![w] = FALSE]
      /\ UNCHANGED <<first, total_img_len, block_size, hdr_len, hbi_buf, size, sent, loaded>>
  BY DEF Start, statics
<1>2. \A v \in Writers : at'[v] <= FileLen(image'[v])
  <2>1. /\ at \in [Writers -> Nat] /\ image \in [Writers -> Images]
        /\ \A v \in Writers : at[v] <= FileLen(image[v])
    BY DEF FwInv, FwTypes
  <2>2. at'[w] = 0 /\ image'[w] = i /\ FileLen(i) \in Nat
    BY <1>1, <2>1, Lengths
  <2>3. \A v \in Writers \ {w} : at'[v] = at[v] /\ image'[v] = image[v]
    BY <1>1, <2>1
  <2>4. QED
    BY <2>1, <2>2, <2>3
<1>3. FwTypes'
  BY <1>1, <1>2 DEF FwInv, FwTypes, Places
<1>4. OneWriter'
  BY <1>1, SMTT(60) DEF FwInv, FwTypes, OneWriter
<1>5. FirstSeen'
  BY <1>1 DEF FwInv, FwTypes, FirstSeen
<1>6. QED
  BY <1>3, <1>4, <1>5 DEF FwInv

\* A writer that goes on, or is done, stays the only one of its device.
LEMMA StaysAlone ==
  ASSUME FwInv, NEW w \in Writers, NEW p, pc[w] # "idle", pc' = [pc EXCEPT ![w] = p], dev' = dev
  PROVE  OneWriter'
BY DEF FwInv, FwTypes, OneWriter

LEMMA WriteDoes ==
  ASSUME FwInv, NEW w \in Writers, Write(w)
  PROVE  /\ pc[w] = "write"
         /\ UNCHANGED <<first, total_img_len, block_size, hdr_len, dev, image, size, sent, pushed,
                        loaded>>
         /\ \/ \E e \in CutsOf(image[w]) \cup {FileLen(image[w])} :
                 /\ e \in Nat /\ e <= FileLen(image[w]) /\ at[w] < e
                 /\ Len(hbi_buf[dev[w]]) + (e - at[w]) <= BufLen
                 /\ hbi_buf' = [hbi_buf EXCEPT ![dev[w]] =
                                  @ \o SubSeq(File(image[w]), at[w] + 1, e)]
                 /\ pc' = [pc EXCEPT ![w] = "header"] /\ at' = [at EXCEPT ![w] = e]
                 /\ UNCHANGED res
            \/ /\ hbi_buf' = [hbi_buf EXCEPT ![dev[w]] = <<>>]
               /\ pc' = [pc EXCEPT ![w] = "idle"] /\ res' = [res EXCEPT ![w] = "failed"]
               /\ UNCHANGED at
<1>1. PICK e \in CutsOf(image[w]) \cup {FileLen(image[w])} :
        /\ pc[w] = "write" /\ e > at[w]
        /\ IF Fits(dev[w], e - at[w])
             THEN /\ hbi_buf' = [hbi_buf EXCEPT ![dev[w]] =
                                   @ \o SubSeq(File(image[w]), at[w] + 1, e)]
                  /\ pc' = [pc EXCEPT ![w] = "header"] /\ at' = [at EXCEPT ![w] = e]
                  /\ UNCHANGED res
             ELSE /\ hbi_buf' = [hbi_buf EXCEPT ![dev[w]] = <<>>]
                  /\ WriteFails(w) /\ UNCHANGED at
        /\ UNCHANGED <<statics, dev, image, size, sent, pushed, loaded>>
  BY Zenon DEF Write
<1>2. image[w] \in Images /\ at[w] \in Nat
  BY DEF FwInv, FwTypes
<1>3. e \in Nat /\ e <= FileLen(image[w])
  BY <1>2, CutsInside
<1>4. at[w] < e
  BY <1>1, <1>2, <1>3
<1>5. QED
  BY <1>1, <1>3, <1>4 DEF Fits, WriteFails, statics

LEMMA WriteTypes == ASSUME FwInv, NEW w \in Writers, Write(w) PROVE FwInv'
<1>1. /\ pc[w] = "write"
      /\ UNCHANGED <<first, total_img_len, block_size, hdr_len, dev, image, size, sent, pushed,
                     loaded>>
  BY WriteDoes
<1>2. CASE \E e \in CutsOf(image[w]) \cup {FileLen(image[w])} :
             /\ e \in Nat /\ e <= FileLen(image[w]) /\ at[w] < e
             /\ Len(hbi_buf[dev[w]]) + (e - at[w]) <= BufLen
             /\ hbi_buf' = [hbi_buf EXCEPT ![dev[w]] =
                              @ \o SubSeq(File(image[w]), at[w] + 1, e)]
             /\ pc' = [pc EXCEPT ![w] = "header"] /\ at' = [at EXCEPT ![w] = e]
             /\ UNCHANGED res
  <2>1. PICK e \in Nat :
          /\ e <= FileLen(image[w]) /\ at[w] < e
          /\ Len(hbi_buf[dev[w]]) + (e - at[w]) <= BufLen
          /\ hbi_buf' = [hbi_buf EXCEPT ![dev[w]] = @ \o SubSeq(File(image[w]), at[w] + 1, e)]
          /\ pc' = [pc EXCEPT ![w] = "header"] /\ at' = [at EXCEPT ![w] = e]
          /\ UNCHANGED res
    BY <1>2
  <2>2. PICK q, b : q = SubSeq(File(image[w]), at[w] + 1, e) /\ b = hbi_buf[dev[w]]
    OBVIOUS
  <2>3. image[w] \in Images /\ at[w] \in Nat /\ dev[w] \in Devices
    BY DEF FwInv, FwTypes
  <2>4. q \in Seq(Images \X Nat) /\ Len(q) = e - at[w] /\ b \in Seq(Images \X Nat)
    BY <2>1, <2>2, <2>3, Piece DEF FwInv, FwTypes
  <2>5. b \o q \in Seq(Images \X Nat) /\ Len(b \o q) = Len(b) + Len(q)
    BY <2>4, ConcatProperties
  <2>6. Len(b \o q) <= BufLen
    BY <2>1, <2>2, <2>4, <2>5
  <2>7. hbi_buf' = [hbi_buf EXCEPT ![dev[w]] = b \o q]
    BY <2>1, <2>2
  <2>8. FwTypes'
    <3>1. hbi_buf' \in [Devices -> Seq(Images \X Nat)]
      BY <2>3, <2>5, <2>7 DEF FwInv, FwTypes
    <3>2. \A d \in Devices : Len(hbi_buf'[d]) <= BufLen
      BY <2>3, <2>6, <2>7 DEF FwInv, FwTypes
    <3>3. pc' \in [Writers -> Places] /\ at' \in [Writers -> Nat]
      BY <2>1 DEF FwInv, FwTypes, Places
    <3>4. \A v \in Writers : at'[v] <= FileLen(image'[v])
      BY <1>1, <2>1 DEF FwInv, FwTypes
    <3>5. QED
      BY <1>1, <2>1, <3>1, <3>2, <3>3, <3>4 DEF FwInv, FwTypes
  <2>9. FirstSeen'
    BY <1>1, <2>1 DEF FwInv, FwTypes, FirstSeen
  <2>10. QED
    BY <1>1, <2>1, <2>8, <2>9, StaysAlone DEF FwInv
<1>3. CASE /\ hbi_buf' = [hbi_buf EXCEPT ![dev[w]] = <<>>]
           /\ pc' = [pc EXCEPT ![w] = "idle"] /\ res' = [res EXCEPT ![w] = "failed"]
           /\ UNCHANGED at
  <2>1. FwTypes'
    BY <1>1, <1>3, Lengths, SMTT(60) DEF FwInv, FwTypes, Places
  <2>2. FirstSeen'
    BY <1>1, <1>3 DEF FwInv, FwTypes, FirstSeen
  <2>3. QED
    BY <1>1, <1>3, <2>1, <2>2, StaysAlone DEF FwInv
<1>4. QED
  BY <1>2, <1>3, WriteDoes

LEMMA HeaderTypes == ASSUME FwInv, NEW w \in Writers, Header(w) PROVE FwInv'
<1>1. /\ pc[w] = "header"
      /\ UNCHANGED <<hbi_buf, dev, image, at, size, sent, pushed, loaded>>
  BY DEF Header
<1>2. CASE WriteFails(w) /\ UNCHANGED statics
  <2>1. FwTypes' /\ FirstSeen'
    BY <1>1, <1>2 DEF WriteFails, statics, FwInv, FwTypes, FirstSeen, Places
  <2>2. QED
    BY <1>1, <1>2, <2>1, StaysAlone DEF WriteFails, FwInv
<1>3. CASE /\ ~(first /\ Len(hbi_buf[dev[w]]) < HdrLen)
           /\ first' = FALSE
           /\ total_img_len' = IF first THEN ImgLen[hbi_buf[dev[w]][1][1]] ELSE total_img_len
           /\ block_size' = IF first THEN BlockSize ELSE block_size
           /\ hdr_len' = IF first THEN HdrLen ELSE hdr_len
           /\ pc' = [pc EXCEPT ![w] = "compare"] /\ UNCHANGED res
  <2>1. PICK b : b = hbi_buf[dev[w]]
    OBVIOUS
  <2>2. b \in Seq(Images \X Nat)
    BY <2>1 DEF FwInv, FwTypes
  <2>3. first => b[1] \in Images \X Nat
    BY <1>3, <2>1, <2>2, Lengths
  <2>4. first => ImgLen[b[1][1]] \in Nat
    BY <2>3, Lengths
  <2>5. total_img_len' \in Nat /\ block_size' \in Nat /\ hdr_len' \in Nat
    BY <1>3, <2>1, <2>4, Lengths DEF FwInv, FwTypes
  <2>6. FwTypes' /\ FirstSeen'
    BY <1>1, <1>3, <2>5 DEF FwInv, FwTypes, FirstSeen, Places
  <2>7. QED
    BY <1>1, <1>3, <2>6, StaysAlone DEF FwInv
<1>4. QED
  BY <1>2, <1>3 DEF Header

\* A write returns; the process is at the end of the file, or goes on.
LEMMA WriteOkDoes ==
  ASSUME FwInv, NEW w \in Writers, WriteOk(w)
  PROVE  \E p \in {"idle", "write"} :
           /\ pc' = [pc EXCEPT ![w] = p]
           /\ p = "idle" => at[w] = FileLen(image[w]) /\ res' = [res EXCEPT ![w] = "done"]
           /\ p = "write" => at[w] # FileLen(image[w]) /\ res' = res
BY DEF WriteOk

LEMMA CompareTypes == ASSUME FwInv, NEW w \in Writers, Compare(w) PROVE FwInv'
<1>1. pc[w] = "compare" /\ UNCHANGED <<statics, hbi_buf, dev, image, at, pushed, loaded>>
  BY DEF Compare
<1>2. first = FALSE
  BY <1>1 DEF FwInv, FwTypes, FirstSeen
<1>3. CASE /\ pc' = [pc EXCEPT ![w] = "push"]
           /\ size' = [size EXCEPT ![w] = total_img_len]
           /\ sent' = [sent EXCEPT ![w] = <<>>] /\ UNCHANGED res
  <2>1. FwTypes' /\ FirstSeen'
    BY <1>1, <1>2, <1>3, SMTT(60) DEF statics, FwInv, FwTypes, FirstSeen, Places
  <2>2. QED
    BY <1>1, <1>3, <2>1, StaysAlone DEF FwInv
<1>4. CASE WriteOk(w) /\ UNCHANGED <<size, sent>>
  <2>1. FwTypes' /\ FirstSeen'
    BY <1>1, <1>2, <1>4, WriteOkDoes DEF statics, FwInv, FwTypes, FirstSeen, Places
  <2>2. QED
    BY <1>1, <1>4, <2>1, WriteOkDoes, StaysAlone DEF FwInv
<1>5. QED
  BY <1>3, <1>4 DEF Compare

\* A push has ended.
LEMMA PushedDoes ==
  ASSUME FwInv, NEW w \in Writers, NEW ok \in BOOLEAN, Pushed(w, ok)
  PROVE  /\ hbi_buf' = [hbi_buf EXCEPT ![dev[w]] = <<>>]
         /\ \E p \in {"idle", "write"} : \E r \in {"none", "done", "failed"} :
              /\ pc' = [pc EXCEPT ![w] = p] /\ res' = [res EXCEPT ![w] = r]
              /\ p = "write" => ok /\ at[w] # FileLen(image[w])
              /\ r = "done" => ok \/ res[w] = "done"
<1>1. hbi_buf' = [hbi_buf EXCEPT ![dev[w]] = <<>>]
  BY DEF Pushed, Emptied
<1>2. res \in [Writers -> {"none", "done", "failed"}]
  BY DEF FwInv, FwTypes
<1>3. res = [res EXCEPT ![w] = res[w]] /\ res[w] \in {"none", "done", "failed"}
  BY <1>2
<1>4. CASE ok
  BY <1>1, <1>3, <1>4, WriteOkDoes DEF Pushed
<1>5. CASE ~ok
  BY <1>1, <1>5 DEF Pushed, WriteFails
<1>6. QED
  BY <1>4, <1>5

\* The types after a push.
LEMMA PushedTypes ==
  ASSUME FwInv, NEW w \in Writers, NEW ok \in BOOLEAN, Pushed(w, ok), pc[w] = "push",
         UNCHANGED <<statics, dev, image, at>>
  PROVE  /\ OneWriter' /\ FirstSeen'
         /\ first' \in BOOLEAN /\ total_img_len' \in Nat /\ block_size' \in Nat /\ hdr_len' \in Nat
         /\ hbi_buf' \in [Devices -> Seq(Images \X Nat)]
         /\ \A d \in Devices : Len(hbi_buf'[d]) <= BufLen
         /\ pc' \in [Writers -> Places] /\ res' \in [Writers -> {"none", "done", "failed"}]
         /\ dev' \in [Writers -> Devices] /\ image' \in [Writers -> Images]
         /\ at' \in [Writers -> Nat] /\ \A v \in Writers : at'[v] <= FileLen(image'[v])
<1>1. hbi_buf' = [hbi_buf EXCEPT ![dev[w]] = <<>>]
  BY PushedDoes
<1>2. PICK p \in {"idle", "write"}, r \in {"none", "done", "failed"} :
        pc' = [pc EXCEPT ![w] = p] /\ res' = [res EXCEPT ![w] = r]
  BY PushedDoes
<1>3. OneWriter'
  BY <1>2, StaysAlone
<1>4. FirstSeen'
  BY <1>2 DEF statics, FwInv, FwTypes, FirstSeen
<1>5. /\ hbi_buf' \in [Devices -> Seq(Images \X Nat)] /\ \A d \in Devices : Len(hbi_buf'[d]) <= BufLen
  BY <1>1, Lengths DEF FwInv, FwTypes
<1>6. pc' \in [Writers -> Places] /\ res' \in [Writers -> {"none", "done", "failed"}]
  BY <1>2 DEF FwInv, FwTypes, Places
<1>7. QED
  BY <1>3, <1>4, <1>5, <1>6 DEF statics, FwInv, FwTypes

\* A block is a sequence of units, or of what is behind them.
LEMMA BlockType ==
  ASSUME FwInv, NEW b \in Seq(Images \X Nat), NEW i \in Nat
  PROVE  /\ Block(b, i) \in Seq((Images \X Nat) \cup {Blank}) /\ Len(Block(b, i)) = block_size
         /\ \A k \in 1 .. block_size :
              Block(b, i)[k] = IF hdr_len + i + k <= Len(b) THEN b[hdr_len + i + k] ELSE Blank
<1>1. PICK n : n = block_size
  OBVIOUS
<1>2. n \in Nat /\ hdr_len \in Nat
  BY <1>1 DEF FwInv, FwTypes
<1>3. PICK q : q = [k \in 1 .. n |-> IF hdr_len + i + k <= Len(b) THEN b[hdr_len + i + k] ELSE Blank]
  OBVIOUS
<1>4. \A k \in 1 .. n : (IF hdr_len + i + k <= Len(b) THEN b[hdr_len + i + k] ELSE Blank)
                          \in (Images \X Nat) \cup {Blank}
  <2>1. SUFFICES ASSUME NEW k \in 1 .. n, hdr_len + i + k <= Len(b)
                 PROVE  b[hdr_len + i + k] \in Images \X Nat
    OBVIOUS
  <2>2. hdr_len + i + k \in 1 .. Len(b)
    BY <1>2, <2>1
  <2>3. QED
    BY <2>2, ElementOfSeq
<1>5. q \in Seq((Images \X Nat) \cup {Blank}) /\ Len(q) = n
  BY <1>2, <1>3, <1>4
<1>6. QED
  BY <1>1, <1>3, <1>5 DEF Block

LEMMA SendBlockTypes == ASSUME FwInv, NEW w \in Writers, SendBlock(w) PROVE FwInv'
<1>1. pc[w] = "push" /\ UNCHANGED <<statics, dev, image, at, size, pushed, loaded>>
  BY DEF SendBlock
<1>2. PICK i : i = Len(sent[w])
  OBVIOUS
<1>3. sent[w] \in Seq((Images \X Nat) \cup {Blank}) /\ i \in Nat
      /\ hbi_buf[dev[w]] \in Seq(Images \X Nat)
  BY <1>2 DEF FwInv, FwTypes
<1>4. CASE sent' = [sent EXCEPT ![w] = @ \o Block(hbi_buf[dev[w]], i)] /\ UNCHANGED <<hbi_buf, pc, res>>
  <2>1. PICK q : q = Block(hbi_buf[dev[w]], i)
    OBVIOUS
  <2>2. q \in Seq((Images \X Nat) \cup {Blank})
    BY <1>3, <2>1, BlockType
  <2>3. sent[w] \o q \in Seq((Images \X Nat) \cup {Blank})
    BY <1>3, <2>2, ConcatProperties
  <2>4. sent' = [sent EXCEPT ![w] = sent[w] \o q]
    BY <1>4, <2>1
  <2>5. FwTypes'
    BY <1>1, <1>4, <2>3, <2>4, ZenonT(60) DEF statics, FwInv, FwTypes
  <2>6. QED
    BY <1>1, <1>4, <2>5 DEF statics, FwInv, OneWriter, FirstSeen
<1>5. CASE Pushed(w, FALSE) /\ UNCHANGED sent
  <2>1. FALSE \in BOOLEAN
    OBVIOUS
  <2>2. QED
    BY <1>1, <1>5, <2>1, PushedTypes DEF FwInv, FwTypes
<1>6. QED
  BY <1>2, <1>4, <1>5 DEF SendBlock

LEMMA ConcludeTypes == ASSUME FwInv, NEW w \in Writers, Conclude(w) PROVE FwInv'
<1>1. /\ pc[w] = "push" /\ UNCHANGED <<statics, dev, image, at>>
      /\ sent' = [sent EXCEPT ![w] = <<>>] /\ size' = [size EXCEPT ![w] = 0]
  BY DEF Conclude
<1>2. /\ sent' \in [Writers -> Seq((Images \X Nat) \cup {Blank})] /\ size' \in [Writers -> Nat]
  BY <1>1 DEF FwInv, FwTypes
<1>3. CASE /\ Pushed(w, TRUE) /\ pushed' = [pushed EXCEPT ![w] = TRUE]
           /\ loaded' = [loaded EXCEPT ![dev[w]] = [image |-> image[w], data |-> sent[w]]]
  <2>1. pushed' \in [Writers -> BOOLEAN] /\ DOMAIN loaded' = Devices /\ TRUE \in BOOLEAN
    BY <1>3 DEF FwInv, FwTypes
  <2>2. QED
    BY <1>1, <1>2, <1>3, <2>1, PushedTypes DEF FwInv, FwTypes
<1>4. CASE Pushed(w, FALSE) /\ UNCHANGED <<pushed, loaded>>
  <2>1. pushed' \in [Writers -> BOOLEAN] /\ DOMAIN loaded' = Devices /\ FALSE \in BOOLEAN
    BY <1>4 DEF FwInv, FwTypes
  <2>2. QED
    BY <1>1, <1>2, <1>4, <2>1, PushedTypes DEF FwInv, FwTypes
<1>5. QED
  BY <1>3, <1>4 DEF Conclude

\* The buffers hold no more than their length, the processes are where they can be, and each
\* device has one of them at a time: for all files and all ways of cutting them.
THEOREM FwInductive == Spec => []FwInv
<1>1. FwInv /\ [Next]_fwVars => FwInv'
  <2> SUFFICES ASSUME FwInv, [Next]_fwVars
               PROVE  FwInv'
    OBVIOUS
  <2>1. CASE UNCHANGED fwVars
    BY <2>1 DEF fwVars, statics, FwInv, FwTypes, OneWriter, FirstSeen
  <2>2. CASE Next
    BY <2>2, StartTypes, WriteTypes, HeaderTypes, CompareTypes, SendBlockTypes, ConcludeTypes
       DEF Next
  <2>3. QED
    BY <2>1, <2>2
<1>2. QED
  BY <1>1, FwInit, PTL DEF Spec

\* No buffer is written past its end, whatever file is written in whatever pieces.
THEOREM FwTypesRight == Spec => []TypeOK
<1>1. FwInv => TypeOK
  <2> SUFFICES ASSUME FwInv
               PROVE  TypeOK
    OBVIOUS
  <2>1. \A w \in Writers : at[w] \in 0 .. FileLen(image[w])
    BY Lengths DEF FwInv, FwTypes
  <2>2. QED
    BY <2>1 DEF FwInv, FwTypes, TypeOK
<1>2. QED
  BY <1>1, FwInductive, PTL

-----------------------------------------------------------------------------
(* Files the driver can load *)

\* Short of a number of blocks, there is room for one more.
LEMMA BlocksLeft ==
  ASSUME NEW B \in Nat, B > 0, NEW i \in Nat, NEW N \in Nat, i < N,
         \E m \in Nat : N = i + m * B
  PROVE  i + B <= N /\ \E n \in Nat : N = (i + B) + n * B
<1>0. PICK m \in Nat : N = i + m * B
  OBVIOUS
<1>1. m # 0
  BY <1>0
<1>2. PICK n \in Nat : m = n + 1
  <2>1. m - 1 \in Nat /\ m = (m - 1) + 1
    BY <1>1
  <2>2. QED
    BY <2>1
<1>3. PICK l : l = n * B
  OBVIOUS
<1>4. l \in Nat
  BY <1>3
<1>5. m * B = l + B
  BY <1>2, <1>3
<1>6. N = (i + B) + l /\ i + B <= N
  BY <1>0, <1>4, <1>5
<1>7. QED
  BY <1>3, <1>6

\* What was written, unit by unit.
LEMMA WrittenFields ==
  ASSUME NEW i \in Images, NEW n \in Nat
  PROVE  /\ Written(i, n) \in Seq(Images \X Nat) /\ Len(Written(i, n)) = n
         /\ \A k \in 1 .. n : Written(i, n)[k] = <<i, k>>
         /\ Written(i, 0) = <<>>
<1>1. PICK q : q = Written(i, n)
  OBVIOUS
<1>2. q \in Seq(Images \X Nat) /\ Len(q) = n /\ \A k \in 1 .. n : q[k] = <<i, k>>
  BY <1>1 DEF Written
<1>3. PICK r : r = Written(i, 0)
  OBVIOUS
<1>4. r \in Seq(Images \X Nat) /\ Len(r) = 0
  BY <1>3 DEF Written
<1>5. r = <<>>
  BY <1>4
<1>6. QED
  BY <1>1, <1>2, <1>3, <1>5

\* Where a file that is regular is cut, and that a whole file that fits is in reach.
LEMMA RegularCuts ==
  ASSUME Regular, NEW i \in Images
  PROVE  /\ i \in Fitting <=> FileLen(i) <= BufLen
         /\ \A e \in CutsOf(i) : HdrLen <= e /\ \A j \in Fitting : e < ImgLen[j]
BY DEF Regular, Fitting

\* A step of the writer of a device: its buffer is x, and the writer at p with n units written.
LEMMA GatheredStep ==
  ASSUME FwInv, Gathered, NEW w \in Writers, pc[w] # "idle", NEW x, NEW p, NEW n,
         hbi_buf' = [hbi_buf EXCEPT ![dev[w]] = x],
         pc' = [pc EXCEPT ![w] = p], at' = [at EXCEPT ![w] = n], dev' = dev, image' = image,
         p = "idle" => x = <<>>,
         p # "idle" => x = Written(image[w], n),
         p = "write" => n \in {0} \cup CutsOf(image[w]),
         p \in {"header", "compare"} =>
           (image[w] \in Fitting /\ n = FileLen(image[w])) \/ n \in CutsOf(image[w]),
         p = "push" => image[w] \in Fitting /\ n = FileLen(image[w])
  PROVE  Gathered'
<1>1. \A v \in Writers \ {w} : pc[v] # "idle" => dev[v] # dev[w]
  BY DEF FwInv, OneWriter
<1>2. /\ dev[w] \in Devices /\ hbi_buf'[dev[w]] = x
      /\ \A d \in Devices \ {dev[w]} : hbi_buf'[d] = hbi_buf[d]
      /\ pc'[w] = p /\ at'[w] = n
      /\ \A v \in Writers \ {w} : pc'[v] = pc[v] /\ at'[v] = at[v] /\ dev[v] \in Devices
  BY DEF FwInv, FwTypes
<1>3. ASSUME NEW v \in Writers
      PROVE  /\ pc'[v] # "idle" => hbi_buf'[dev'[v]] = Written(image'[v], at'[v])
             /\ pc'[v] = "write" => at'[v] \in {0} \cup CutsOf(image'[v])
             /\ pc'[v] \in {"header", "compare"} =>
                  \/ image'[v] \in Fitting /\ at'[v] = FileLen(image'[v])
                  \/ at'[v] \in CutsOf(image'[v])
             /\ pc'[v] = "push" => image'[v] \in Fitting /\ at'[v] = FileLen(image'[v])
  <2>1. CASE v = w
    BY <1>2, <2>1
  <2>2. CASE v # w
    BY <1>1, <1>2, <2>2 DEF Gathered
  <2>3. QED
    BY <2>1, <2>2
<1>4. ASSUME NEW d \in Devices, \A v \in Writers : dev'[v] = d => pc'[v] = "idle"
      PROVE  hbi_buf'[d] = <<>>
  <2>1. CASE d = dev[w]
    BY <1>2, <1>4, <2>1
  <2>2. CASE d # dev[w]
    BY <1>2, <1>4, <2>2 DEF Gathered
  <2>3. QED
    BY <2>1, <2>2
<1>5. QED
  BY <1>3, <1>4 DEF Gathered

\* The uploads of the others.
LEMMA SentStep ==
  ASSUME FwInv, SentSoFar, NEW w \in Writers, NEW p, pc' = [pc EXCEPT ![w] = p],
         \A v \in Writers \ {w} :
           size'[v] = size[v] /\ sent'[v] = sent[v] /\ image'[v] = image[v],
         SentRight(w)'
  PROVE  SentSoFar'
<1>1. \A v \in Writers \ {w} : pc'[v] = pc[v]
  BY DEF FwInv, FwTypes
<1>2. SUFFICES ASSUME NEW v \in Writers
               PROVE  SentRight(v)'
  BY DEF SentSoFar
<1>3. CASE v = w
  BY <1>3
<1>4. CASE v # w
  <2>1. /\ pc'[v] = pc[v] /\ size'[v] = size[v] /\ sent'[v] = sent[v] /\ image'[v] = image[v]
    BY <1>1, <1>4
  <2>2. SentRight(v)
    BY DEF SentSoFar
  <2>3. QED
    BY <2>1, <2>2 DEF SentRight
<1>5. QED
  BY <1>3, <1>4

LEMMA RegularInit == Init => RegularInv
<1> SUFFICES ASSUME Init
             PROVE  RegularInv
  OBVIOUS
<1>1. /\ first = TRUE /\ \A w \in Writers : pc[w] = "idle" /\ res[w] = "none"
      /\ \A d \in Devices : hbi_buf[d] = <<>> /\ loaded[d] = NoLoad
  BY DEF Init
<1>2. Latched /\ SentSoFar /\ LoadedWhole /\ DoneMeansLoaded
  BY <1>1 DEF Latched, SentSoFar, SentRight, LoadedWhole, DoneMeansLoaded
<1>3. Gathered
  BY <1>1 DEF Gathered
<1>4. QED
  BY <1>2, <1>3 DEF RegularInv

LEMMA StartRegular ==
  ASSUME FwInv, RegularInv, NEW w \in Writers, NEW d \in Devices, NEW i \in Images, Start(w, d, i)
  PROVE  RegularInv'
<1>1. /\ pc[w] = "idle" /\ \A v \in Writers : dev[v] = d => pc[v] = "idle"
      /\ dev' = [dev EXCEPT ![w] = d] /\ image' = [image EXCEPT ![w] = i]
      /\ at' = [at EXCEPT ![w] = 0] /\ pc' = [pc EXCEPT ![w] = "write"]
      /\ res' = [res EXCEPT ![w] = "none"] /\ pushed' = [pushed EXCEPT ![w] = FALSE]
      /\ UNCHANGED <<first, total_img_len, block_size, hdr_len, hbi_buf, size, sent, loaded>>
  BY DEF Start, statics
<1>2. /\ dev'[w] = d /\ image'[w] = i /\ at'[w] = 0 /\ pc'[w] = "write" /\ res'[w] = "none"
      /\ \A v \in Writers \ {w} : /\ dev'[v] = dev[v] /\ image'[v] = image[v] /\ at'[v] = at[v]
                                  /\ pc'[v] = pc[v] /\ res'[v] = res[v] /\ pushed'[v] = pushed[v]
  BY <1>1 DEF FwInv, FwTypes
<1>3. hbi_buf[d] = <<>>
  BY <1>1 DEF RegularInv, Gathered
<1>4. Gathered'
  <2>1. ASSUME NEW v \in Writers
        PROVE  /\ pc'[v] # "idle" => hbi_buf'[dev'[v]] = Written(image'[v], at'[v])
               /\ pc'[v] = "write" => at'[v] \in {0} \cup CutsOf(image'[v])
               /\ pc'[v] \in {"header", "compare"} =>
                    \/ image'[v] \in Fitting /\ at'[v] = FileLen(image'[v])
                    \/ at'[v] \in CutsOf(image'[v])
               /\ pc'[v] = "push" => image'[v] \in Fitting /\ at'[v] = FileLen(image'[v])
    <3>1. CASE v = w
      <4>1. Written(i, 0) = <<>>
        BY WrittenFields
      <4>2. QED
        BY <1>1, <1>2, <1>3, <3>1, <4>1
    <3>2. CASE v # w
      BY <1>1, <1>2, <3>2 DEF RegularInv, Gathered
    <3>3. QED
      BY <3>1, <3>2
  <2>2. ASSUME NEW e \in Devices, \A v \in Writers : dev'[v] = e => pc'[v] = "idle"
        PROVE  hbi_buf'[e] = <<>>
    <3>1. \A v \in Writers : dev[v] = e => pc[v] = "idle"
      BY <1>1, <1>2, <2>2
    <3>2. QED
      BY <1>1, <3>1 DEF RegularInv, Gathered
  <2>3. QED
    BY <2>1, <2>2 DEF Gathered
<1>5. Latched'
  BY <1>1 DEF RegularInv, Latched
<1>6. SentSoFar'
  <2>1. SentRight(w)'
    BY <1>2 DEF SentRight
  <2>2. QED
    BY <1>1, <1>2, <2>1, SentStep DEF RegularInv
<1>7. LoadedWhole' /\ DoneMeansLoaded'
  BY <1>1, <1>2 DEF RegularInv, LoadedWhole, DoneMeansLoaded
<1>8. QED
  BY <1>4, <1>5, <1>6, <1>7 DEF RegularInv

LEMMA WriteRegular ==
  ASSUME Regular, FwInv, RegularInv, NEW w \in Writers, Write(w)
  PROVE  RegularInv'
<1>1. /\ pc[w] = "write"
      /\ UNCHANGED <<first, total_img_len, block_size, hdr_len, dev, image, size, sent, pushed,
                     loaded>>
  BY WriteDoes
<1>2. /\ image[w] \in Images /\ at[w] \in Nat /\ dev[w] \in Devices
      /\ hbi_buf[dev[w]] = Written(image[w], at[w])
  BY <1>1 DEF FwInv, FwTypes, RegularInv, Gathered
<1>3. Latched' /\ LoadedWhole'
  BY <1>1 DEF RegularInv, Latched, LoadedWhole
<1>4. CASE \E e \in CutsOf(image[w]) \cup {FileLen(image[w])} :
             /\ e \in Nat /\ e <= FileLen(image[w]) /\ at[w] < e
             /\ Len(hbi_buf[dev[w]]) + (e - at[w]) <= BufLen
             /\ hbi_buf' = [hbi_buf EXCEPT ![dev[w]] =
                              @ \o SubSeq(File(image[w]), at[w] + 1, e)]
             /\ pc' = [pc EXCEPT ![w] = "header"] /\ at' = [at EXCEPT ![w] = e]
             /\ UNCHANGED res
  <2>1. PICK e \in CutsOf(image[w]) \cup {FileLen(image[w])} :
          /\ e \in Nat /\ e <= FileLen(image[w]) /\ at[w] < e
          /\ Len(hbi_buf[dev[w]]) + (e - at[w]) <= BufLen
          /\ hbi_buf' = [hbi_buf EXCEPT ![dev[w]] = @ \o SubSeq(File(image[w]), at[w] + 1, e)]
          /\ pc' = [pc EXCEPT ![w] = "header"] /\ at' = [at EXCEPT ![w] = e]
          /\ UNCHANGED res
    BY <1>4
  <2>2. hbi_buf' = [hbi_buf EXCEPT ![dev[w]] = Written(image[w], e)]
    BY <1>2, <2>1, WrittenMore, ZenonT(60)
  <2>3. (image[w] \in Fitting /\ e = FileLen(image[w])) \/ e \in CutsOf(image[w])
    <3>1. Len(hbi_buf[dev[w]]) = at[w]
      BY <1>2, WrittenFields
    <3>2. e <= BufLen
      BY <1>2, <2>1, <3>1, Lengths
    <3>3. QED
      BY <1>2, <2>1, <3>2, RegularCuts
  <2>4. Gathered'
    BY <1>1, <2>1, <2>2, <2>3, GatheredStep DEF RegularInv
  <2>5. SentSoFar'
    <3>1. SentRight(w)'
      BY <2>1 DEF FwInv, FwTypes, SentRight
    <3>2. QED
      BY <1>1, <2>1, <3>1, SentStep DEF RegularInv
  <2>6. DoneMeansLoaded'
    BY <1>1, <2>1 DEF RegularInv, DoneMeansLoaded
  <2>7. QED
    BY <1>3, <2>4, <2>5, <2>6 DEF RegularInv
<1>5. CASE /\ hbi_buf' = [hbi_buf EXCEPT ![dev[w]] = <<>>]
           /\ pc' = [pc EXCEPT ![w] = "idle"] /\ res' = [res EXCEPT ![w] = "failed"]
           /\ UNCHANGED at
  <2>1. at' = [at EXCEPT ![w] = at[w]]
    BY <1>5 DEF FwInv, FwTypes
  <2>2. Gathered'
    BY <1>1, <1>5, <2>1, GatheredStep DEF RegularInv
  <2>3. SentSoFar'
    <3>1. SentRight(w)'
      BY <1>5 DEF FwInv, FwTypes, SentRight
    <3>2. QED
      BY <1>1, <1>5, <3>1, SentStep DEF RegularInv
  <2>4. DoneMeansLoaded'
    BY <1>1, <1>5 DEF FwInv, FwTypes, RegularInv, DoneMeansLoaded
  <2>5. QED
    BY <1>3, <2>2, <2>3, <2>4 DEF RegularInv
<1>6. QED
  BY <1>4, <1>5, WriteDoes

\* Past the first write of a file that is regular its header is in the buffer.
LEMMA HeaderThere ==
  ASSUME Regular, FwInv, RegularInv, NEW w \in Writers, pc[w] \in {"header", "compare"}
  PROVE  /\ image[w] \in Images /\ at[w] \in Nat /\ HdrLen <= at[w]
         /\ (image[w] \in Fitting /\ at[w] = FileLen(image[w])) \/ at[w] \in CutsOf(image[w])
         /\ hbi_buf[dev[w]] = Written(image[w], at[w]) /\ Len(hbi_buf[dev[w]]) = at[w]
         /\ hbi_buf[dev[w]][1] = <<image[w], 1>>
<1>1. /\ (image[w] \in Fitting /\ at[w] = FileLen(image[w])) \/ at[w] \in CutsOf(image[w])
      /\ hbi_buf[dev[w]] = Written(image[w], at[w])
  BY DEF RegularInv, Gathered
<1>2. image[w] \in Images /\ at[w] \in Nat
  BY DEF FwInv, FwTypes
<1>3. HdrLen <= at[w]
  BY <1>1, <1>2, Lengths, RegularCuts
<1>4. 1 \in 1 .. at[w]
  BY <1>2, <1>3, Lengths
<1>5. PICK q : q = Written(image[w], at[w])
  OBVIOUS
<1>6. Len(q) = at[w] /\ \A k \in 1 .. at[w] : q[k] = <<image[w], k>>
  BY <1>2, <1>5, WrittenFields, Zenon
<1>7. q[1] = <<image[w], 1>>
  BY <1>4, <1>6, Zenon
<1>8. QED
  BY <1>1, <1>2, <1>3, <1>5, <1>6, <1>7, Zenon

LEMMA HeaderRegular ==
  ASSUME Regular, FirstFits, FwInv, RegularInv, NEW w \in Writers, Header(w)
  PROVE  RegularInv'
<1>1. /\ pc[w] = "header"
      /\ UNCHANGED <<hbi_buf, dev, image, at, size, sent, pushed, loaded>>
  BY DEF Header
<1>2. /\ first => image[w] \in Fitting
      /\ Len(hbi_buf[dev[w]]) = at[w] /\ HdrLen <= at[w] /\ at[w] \in Nat
      /\ hbi_buf[dev[w]] = Written(image[w], at[w]) /\ hbi_buf[dev[w]][1][1] = image[w]
  BY <1>1, HeaderThere DEF FirstFits
<1>3. ~(first /\ Len(hbi_buf[dev[w]]) < HdrLen)
  BY <1>2, Lengths
<1>4. /\ first' = FALSE
      /\ total_img_len' = IF first THEN ImgLen[image[w]] ELSE total_img_len
      /\ block_size' = IF first THEN BlockSize ELSE block_size
      /\ hdr_len' = IF first THEN HdrLen ELSE hdr_len
      /\ pc' = [pc EXCEPT ![w] = "compare"] /\ UNCHANGED res
  BY <1>2, <1>3 DEF Header
<1>5. Latched'
  <2>1. first => \A i \in Fitting : ImgLen[image[w]] = ImgLen[i]
    BY <1>2 DEF Regular
  <2>2. CASE first
    BY <1>2, <1>4, <2>1, <2>2 DEF Latched
  <2>3. CASE ~first
    BY <1>4, <2>3 DEF RegularInv, Latched
  <2>4. QED
    BY <2>2, <2>3
<1>6. Gathered'
  <2>1. /\ hbi_buf' = [hbi_buf EXCEPT ![dev[w]] = Written(image[w], at[w])]
        /\ at' = [at EXCEPT ![w] = at[w]]
    BY <1>1, <1>2 DEF FwInv, FwTypes
  <2>2. (image[w] \in Fitting /\ at[w] = FileLen(image[w])) \/ at[w] \in CutsOf(image[w])
    BY <1>1 DEF RegularInv, Gathered
  <2>3. QED
    BY <1>1, <1>2, <1>4, <2>1, <2>2, GatheredStep DEF RegularInv
<1>7. SentSoFar'
  <2>1. SentRight(w)'
    BY <1>4 DEF FwInv, FwTypes, SentRight
  <2>2. QED
    BY <1>1, <1>4, <2>1, SentStep DEF RegularInv
<1>8. LoadedWhole' /\ DoneMeansLoaded'
  BY <1>1, <1>4 DEF RegularInv, LoadedWhole, DoneMeansLoaded
<1>9. QED
  BY <1>5, <1>6, <1>7, <1>8 DEF RegularInv

LEMMA CompareRegular ==
  ASSUME Regular, FwInv, RegularInv, NEW w \in Writers, Compare(w)
  PROVE  RegularInv'
<1>1. pc[w] = "compare" /\ UNCHANGED <<statics, hbi_buf, dev, image, at, pushed, loaded>>
  BY DEF Compare
<1>2. /\ image[w] \in Images /\ at[w] \in Nat
      /\ Len(hbi_buf[dev[w]]) = at[w] /\ hbi_buf[dev[w]] = Written(image[w], at[w])
  BY <1>1, HeaderThere
<1>3. (image[w] \in Fitting /\ at[w] = FileLen(image[w])) \/ at[w] \in CutsOf(image[w])
  BY <1>1 DEF RegularInv, Gathered
<1>4. /\ total_img_len \in Nat /\ \A i \in Fitting : total_img_len = ImgLen[i]
      /\ at[w] \in CutsOf(image[w]) => at[w] < total_img_len
  <2>1. /\ total_img_len \in Nat /\ Fitting # {}
        /\ \A i \in Fitting : total_img_len = ImgLen[i]
    BY <1>1 DEF FwInv, FwTypes, FirstSeen, RegularInv, Latched
  <2>2. PICK i \in Fitting : total_img_len = ImgLen[i]
    BY <2>1
  <2>3. at[w] \in CutsOf(image[w]) => at[w] < ImgLen[i]
    BY <1>2, <2>2, RegularCuts
  <2>4. QED
    BY <2>1, <2>2, <2>3
<1>5. /\ hbi_buf' = [hbi_buf EXCEPT ![dev[w]] = Written(image[w], at[w])]
      /\ at' = [at EXCEPT ![w] = at[w]]
  BY <1>1, <1>2 DEF FwInv, FwTypes
<1>6. Latched' /\ LoadedWhole'
  BY <1>1 DEF statics, RegularInv, Latched, LoadedWhole
<1>7. CASE /\ Enough(Len(hbi_buf[dev[w]]))
           /\ pc' = [pc EXCEPT ![w] = "push"]
           /\ size' = [size EXCEPT ![w] = total_img_len]
           /\ sent' = [sent EXCEPT ![w] = <<>>] /\ UNCHANGED res
  <2>1. at[w] >= total_img_len
    BY <1>2, <1>7 DEF Enough
  <2>2. image[w] \in Fitting /\ at[w] = FileLen(image[w])
    BY <1>2, <1>3, <1>4, <2>1
  <2>3. Gathered'
    BY <1>1, <1>2, <1>5, <1>7, <2>2, GatheredStep DEF RegularInv
  <2>4. SentRight(w)'
    <3>1. size'[w] = ImgLen[image[w]] /\ sent'[w] = <<>> /\ ImgLen[image[w]] \in Nat
      BY <1>2, <1>4, <1>7, <2>2, Lengths DEF FwInv, FwTypes
    <3>2. PICK m \in Nat : ImgLen[image[w]] = m * BlockSize
      BY <2>2 DEF Regular
    <3>3. m * BlockSize = 0 + m * BlockSize
      BY Lengths
    <3>4. Len(<<>>) = 0 /\ <<>> = [k \in 1 .. 0 |-> <<image[w], HdrLen + k>>]
      OBVIOUS
    <3>5. QED
      BY <1>1, <3>1, <3>2, <3>3, <3>4 DEF SentRight
  <2>5. SentSoFar'
    BY <1>1, <1>7, <2>4, SentStep DEF FwInv, FwTypes, RegularInv
  <2>6. DoneMeansLoaded'
    BY <1>1, <1>7 DEF RegularInv, DoneMeansLoaded
  <2>7. QED
    BY <1>6, <2>3, <2>5, <2>6 DEF RegularInv
<1>8. CASE ~Enough(Len(hbi_buf[dev[w]])) /\ WriteOk(w) /\ UNCHANGED <<size, sent>>
  <2>1. at[w] < total_img_len
    BY <1>2, <1>4, <1>8 DEF Enough
  <2>2. at[w] # FileLen(image[w])
    <3>1. CASE image[w] \in Fitting /\ at[w] = FileLen(image[w])
      BY <1>2, <1>4, <2>1, <3>1, Lengths
    <3>2. CASE at[w] \in CutsOf(image[w])
      BY <1>2, <3>2, CutsInside
    <3>3. QED
      BY <1>3, <3>1, <3>2
  <2>3. pc' = [pc EXCEPT ![w] = "write"] /\ res' = res
    BY <1>8, <2>2 DEF WriteOk
  <2>4. Gathered'
    BY <1>1, <1>2, <1>3, <1>5, <2>2, <2>3, GatheredStep DEF RegularInv
  <2>5. SentSoFar'
    <3>1. SentRight(w)'
      BY <2>3 DEF FwInv, FwTypes, SentRight
    <3>2. QED
      BY <1>1, <1>8, <2>3, <3>1, SentStep DEF RegularInv
  <2>6. DoneMeansLoaded'
    BY <1>1, <2>3 DEF RegularInv, DoneMeansLoaded
  <2>7. QED
    BY <1>6, <2>4, <2>5, <2>6 DEF RegularInv
<1>9. QED
  BY <1>7, <1>8 DEF Compare

\* Who is idle has nothing to send.
LEMMA IdleSent ==
  ASSUME FwInv, NEW w \in Writers, pc' = [pc EXCEPT ![w] = "idle"]
  PROVE  SentRight(w)'
<1>1. pc'[w] = "idle"
  BY DEF FwInv, FwTypes
<1>2. QED
  BY <1>1 DEF SentRight

\* A push that ends leaves its process idle and the buffer empty.
LEMMA PushedRegular ==
  ASSUME FwInv, RegularInv, NEW w \in Writers, NEW ok \in BOOLEAN, Pushed(w, ok),
         pc[w] = "push", UNCHANGED <<statics, dev, image, at>>,
         \A v \in Writers \ {w} : size'[v] = size[v] /\ sent'[v] = sent[v]
  PROVE  /\ Latched' /\ Gathered' /\ SentSoFar'
         /\ res' = [res EXCEPT ![w] = IF ok THEN "done" ELSE "failed"]
<1>1. at[w] = FileLen(image[w])
  BY DEF RegularInv, Gathered
<1>2. /\ pc' = [pc EXCEPT ![w] = "idle"] /\ hbi_buf' = [hbi_buf EXCEPT ![dev[w]] = <<>>]
      /\ res' = [res EXCEPT ![w] = IF ok THEN "done" ELSE "failed"]
  BY <1>1 DEF Pushed, Emptied, WriteOk, WriteFails
<1>3. at' = [at EXCEPT ![w] = at[w]]
  BY DEF FwInv, FwTypes
<1>4. Gathered'
  BY <1>2, <1>3, GatheredStep DEF RegularInv
<1>5. Latched'
  <2>1. UNCHANGED <<first, total_img_len, block_size, hdr_len>>
    BY DEF statics
  <2>2. Latched
    BY DEF RegularInv
  <2>3. QED
    BY <2>1, <2>2 DEF Latched
<1>6. SentSoFar'
  <2>1. SentRight(w)'
    <3>1. pc' = [pc EXCEPT ![w] = "idle"]
      BY <1>2
    <3>2. QED
      BY <3>1, IdleSent
  <2>2. QED
    BY <1>2, <2>1, SentStep DEF RegularInv
<1>7. QED
  BY <1>2, <1>4, <1>5, <1>6

\* The next block of the image is what is sent.
LEMMA BlockRight ==
  ASSUME Regular, FwInv, RegularInv, NEW w \in Writers, pc[w] = "push",
         NEW i \in Nat, i = Len(sent[w]), i = 0 \/ i < size[w],
         sent' = [sent EXCEPT ![w] = @ \o Block(hbi_buf[dev[w]], i)],
         UNCHANGED <<pc, size, image>>
  PROVE  SentRight(w)'
<1>1. PICK b, img : b = hbi_buf[dev[w]] /\ img = image[w]
  OBVIOUS
<1>2. /\ img \in Fitting /\ img \in Images /\ at[w] = FileLen(img) /\ b = Written(img, FileLen(img))
  BY <1>1 DEF FwInv, FwTypes, RegularInv, Gathered
<1>3. block_size = BlockSize /\ hdr_len = HdrLen
  BY DEF FwInv, FwTypes, FirstSeen, RegularInv, Latched
<1>4. PICK q, N : q = sent[w] /\ N = size[w]
  OBVIOUS
<1>5. /\ N = ImgLen[img] /\ i <= N /\ N \in Nat /\ N > 0 /\ BlockSize \in Nat /\ BlockSize > 0
      /\ HdrLen \in Nat /\ FileLen(img) = HdrLen + N
      /\ q = [k \in 1 .. i |-> <<img, HdrLen + k>>]
  BY <1>1, <1>2, <1>4, Lengths DEF RegularInv, SentSoFar, SentRight
<1>6. i < N
  BY <1>4, <1>5
<1>7. i + BlockSize <= N /\ \E n \in Nat : N = (i + BlockSize) + n * BlockSize
  <2>1. \E m \in Nat : N = i + m * BlockSize
    BY <1>4 DEF RegularInv, SentSoFar, SentRight
  <2>2. QED
    BY <1>5, <1>6, <2>1, BlocksLeft, ZenonT(60)
<1>8. /\ b \in Seq(Images \X Nat) /\ Len(b) = HdrLen + N
       /\ \A k \in 1 .. HdrLen + N : b[k] = <<img, k>>
  <2>1. PICK L : L = FileLen(img)
    OBVIOUS
  <2>2. L \in Nat /\ L = HdrLen + N /\ b = Written(img, L)
    BY <1>2, <1>5, <2>1, Lengths
  <2>3. b \in Seq(Images \X Nat) /\ Len(b) = L /\ \A k \in 1 .. L : b[k] = <<img, k>>
    BY <1>2, <2>2, WrittenFields
  <2>4. QED
    BY <2>2, <2>3
<1>9. PICK c : c = Block(b, i)
  OBVIOUS
<1>10. /\ c \in Seq((Images \X Nat) \cup {Blank}) /\ Len(c) = BlockSize
       /\ \A k \in 1 .. BlockSize :
            c[k] = IF HdrLen + i + k <= Len(b) THEN b[HdrLen + i + k] ELSE Blank
  BY <1>3, <1>8, <1>9, BlockType
<1>11. \A k \in 1 .. BlockSize : c[k] = <<img, HdrLen + (i + k)>>
  <2>1. SUFFICES ASSUME NEW k \in 1 .. BlockSize
                 PROVE  c[k] = <<img, HdrLen + (i + k)>>
    OBVIOUS
  <2>2. HdrLen + i + k \in 1 .. HdrLen + N /\ HdrLen + i + k = HdrLen + (i + k)
    <3>1. i + BlockSize <= N
      BY <1>7
    <3>2. QED
      BY <1>5, <3>1
  <2>3. HdrLen + i + k <= Len(b)
    BY <1>8, <2>2
  <2>4. QED
    BY <1>8, <1>10, <2>2, <2>3
<1>12. /\ q \in Seq((Images \X Nat) \cup {Blank}) /\ Len(q) = i
       /\ \A k \in 1 .. i : q[k] = <<img, HdrLen + k>>
  <2>1. q \in Seq((Images \X Nat) \cup {Blank})
    BY <1>4 DEF FwInv, FwTypes
  <2>2. Len(q) = i
    BY <1>4
  <2>3. \A k \in 1 .. i : q[k] = <<img, HdrLen + k>>
    BY <1>5
  <2>4. QED
    BY <2>1, <2>2, <2>3
<1>13. PICK s : s = q \o c
  OBVIOUS
<1>14. /\ s \in Seq((Images \X Nat) \cup {Blank}) /\ Len(s) = i + BlockSize
       /\ \A k \in 1 .. i + BlockSize : s[k] = IF k <= i THEN q[k] ELSE c[k - i]
  <2>1. q \in Seq((Images \X Nat) \cup {Blank}) /\ c \in Seq((Images \X Nat) \cup {Blank})
    BY <1>10, <1>12
  <2>2. /\ s \in Seq((Images \X Nat) \cup {Blank}) /\ Len(s) = Len(q) + Len(c)
        /\ \A k \in 1 .. Len(q) + Len(c) : s[k] = IF k <= Len(q) THEN q[k] ELSE c[k - Len(q)]
    BY <1>13, <2>1, ConcatProperties
  <2>3. Len(q) = i /\ Len(c) = BlockSize
    BY <1>10, <1>12
  <2>4. QED
    BY <2>2, <2>3
<1>15. \A k \in 1 .. i + BlockSize : s[k] = <<img, HdrLen + k>>
  <2>1. SUFFICES ASSUME NEW k \in 1 .. i + BlockSize
                 PROVE  s[k] = <<img, HdrLen + k>>
    OBVIOUS
  <2>2. CASE k <= i
    <3>1. k \in 1 .. i
      BY <2>2
    <3>2. s[k] = q[k]
      BY <1>14, <2>2
    <3>3. QED
      BY <1>12, <3>1, <3>2
  <2>3. CASE ~(k <= i)
    <3>1. k - i \in 1 .. BlockSize /\ i + (k - i) = k
      BY <1>5, <2>3, SMTT(60)
    <3>2. QED
      BY <1>11, <1>14, <2>3, <3>1
  <2>4. QED
    BY <2>2, <2>3
<1>16. s = [k \in 1 .. Len(s) |-> <<img, HdrLen + k>>]
  <2>1. PICK e : e = i + BlockSize
    OBVIOUS
  <2>2. e \in Nat /\ Len(s) = e /\ \A k \in 1 .. e : s[k] = <<img, HdrLen + k>>
    BY <1>5, <1>14, <1>15, <2>1
  <2>3. s = [k \in 1 .. e |-> s[k]]
    BY <1>14, <2>2
  <2>4. QED
    BY <2>2, <2>3
<1>17. sent'[w] = s /\ size'[w] = N /\ image'[w] = img
  BY <1>1, <1>4, <1>9, <1>13 DEF FwInv, FwTypes
<1>18. Len(s) <= N /\ \E n \in Nat : N = Len(s) + n * BlockSize
  <2>1. PICK e : e = i + BlockSize
    OBVIOUS
  <2>2. e <= N /\ \E n \in Nat : N = e + n * BlockSize
    BY <1>7, <2>1
  <2>3. Len(s) = e
    BY <1>14, <2>1
  <2>4. QED
    BY <2>2, <2>3
<1>19. QED
  BY <1>5, <1>16, <1>17, <1>18 DEF SentRight

LEMMA SendBlockRegular ==
  ASSUME Regular, FwInv, RegularInv, NEW w \in Writers, SendBlock(w)
  PROVE  RegularInv'
<1>1. pc[w] = "push" /\ UNCHANGED <<statics, dev, image, at, size, pushed, loaded>>
  BY DEF SendBlock
<1>2. LoadedWhole'
  BY <1>1 DEF RegularInv, LoadedWhole
<1>3. PICK i : i = Len(sent[w])
  OBVIOUS
<1>4. i \in Nat /\ (i = 0 \/ i < size[w])
  BY <1>3 DEF SendBlock, FwInv, FwTypes
<1>5. CASE sent' = [sent EXCEPT ![w] = @ \o Block(hbi_buf[dev[w]], i)] /\ UNCHANGED <<hbi_buf, pc, res>>
  <2>1. SentRight(w)'
    BY <1>1, <1>3, <1>4, <1>5, BlockRight
  <2>2. pc' = [pc EXCEPT ![w] = pc[w]] /\ \A v \in Writers \ {w} : sent'[v] = sent[v]
    BY <1>5 DEF FwInv, FwTypes
  <2>3. SentSoFar'
    BY <1>1, <2>1, <2>2, SentStep DEF RegularInv
  <2>4. Latched' /\ DoneMeansLoaded'
    BY <1>1, <1>5 DEF statics, RegularInv, Latched, DoneMeansLoaded
  <2>5. Gathered'
    BY <1>1, <1>5 DEF RegularInv, Gathered
  <2>6. QED
    BY <1>2, <2>3, <2>4, <2>5 DEF RegularInv
<1>6. CASE Pushed(w, FALSE) /\ UNCHANGED sent
  <2>1. FALSE \in BOOLEAN
    OBVIOUS
  <2>2. Latched' /\ Gathered' /\ SentSoFar' /\ res' = [res EXCEPT ![w] = "failed"]
    BY <1>1, <1>6, <2>1, PushedRegular
  <2>3. DoneMeansLoaded'
    BY <1>1, <2>2 DEF FwInv, FwTypes, RegularInv, DoneMeansLoaded
  <2>4. QED
    BY <1>2, <2>2, <2>3 DEF RegularInv
<1>7. QED
  BY <1>3, <1>5, <1>6 DEF SendBlock

LEMMA ConcludeRegular ==
  ASSUME Regular, FwInv, RegularInv, NEW w \in Writers, Conclude(w)
  PROVE  RegularInv'
<1>1. /\ pc[w] = "push" /\ UNCHANGED <<statics, dev, image, at>> /\ Len(sent[w]) >= size[w]
      /\ sent' = [sent EXCEPT ![w] = <<>>] /\ size' = [size EXCEPT ![w] = 0]
  BY DEF Conclude
<1>2. \A v \in Writers \ {w} : size'[v] = size[v] /\ sent'[v] = sent[v]
  BY <1>1 DEF FwInv, FwTypes
<1>3. CASE /\ Pushed(w, TRUE) /\ pushed' = [pushed EXCEPT ![w] = TRUE]
           /\ loaded' = [loaded EXCEPT ![dev[w]] = [image |-> image[w], data |-> sent[w]]]
  <2>1. TRUE \in BOOLEAN
    OBVIOUS
  <2>2. Latched' /\ Gathered' /\ SentSoFar' /\ res' = [res EXCEPT ![w] = "done"]
    BY <1>1, <1>2, <1>3, <2>1, PushedRegular
  <2>3. DoneMeansLoaded'
    BY <1>3, <2>2 DEF FwInv, FwTypes, RegularInv, DoneMeansLoaded
  <2>4. sent[w] = Payload(image[w])
    <3>1. /\ size[w] = ImgLen[image[w]] /\ Len(sent[w]) <= size[w]
          /\ sent[w] = [k \in 1 .. Len(sent[w]) |-> <<image[w], HdrLen + k>>]
      BY <1>1 DEF RegularInv, SentSoFar, SentRight
    <3>2. Len(sent[w]) \in Nat /\ size[w] \in Nat
      BY DEF FwInv, FwTypes
    <3>3. Len(sent[w]) = ImgLen[image[w]]
      BY <1>1, <3>1, <3>2
    <3>4. QED
      BY <3>1, <3>3 DEF Payload
  <2>5. LoadedWhole'
    <3>1. SUFFICES ASSUME NEW d \in Devices, loaded'[d] # NoLoad
                   PROVE  loaded'[d].data = Payload(loaded'[d].image)
      BY DEF LoadedWhole
    <3>2. CASE d = dev[w]
      BY <1>3, <2>4, <3>2 DEF FwInv, FwTypes
    <3>3. CASE d # dev[w]
      BY <1>3, <3>1, <3>3 DEF FwInv, FwTypes, RegularInv, LoadedWhole
    <3>4. QED
      BY <3>2, <3>3
  <2>6. QED
    BY <2>2, <2>3, <2>5 DEF RegularInv
<1>4. CASE Pushed(w, FALSE) /\ UNCHANGED <<pushed, loaded>>
  <2>1. FALSE \in BOOLEAN
    OBVIOUS
  <2>2. Latched' /\ Gathered' /\ SentSoFar' /\ res' = [res EXCEPT ![w] = "failed"]
    BY <1>1, <1>2, <1>4, <2>1, PushedRegular
  <2>3. DoneMeansLoaded' /\ LoadedWhole'
    BY <1>4, <2>2 DEF FwInv, FwTypes, RegularInv, DoneMeansLoaded, LoadedWhole
  <2>4. QED
    BY <2>2, <2>3 DEF RegularInv
<1>5. QED
  BY <1>3, <1>4 DEF Conclude

\* The first piece the driver takes is of a file that fits.
LEMMA FirstFitsAlways == LoadSpec => [](FirstFits /\ FwInv)
<1>1. Init => FirstFits
  BY DEF Init, FirstFits
<1>2. FirstFits /\ [Next /\ FirstFits']_fwVars => FirstFits'
  BY DEF fwVars, statics, FirstFits
<1>3. [Next /\ FirstFits']_fwVars => [Next]_fwVars
  OBVIOUS
<1>4. QED
  BY <1>1, <1>2, <1>3, FwInductive, PTL DEF Spec, LoadSpec

\* While the files are regular and the first that was taken fits, each buffer holds what its
\* process has written of its file, also of one too long, the latched header is right for every
\* file that fits, and what was sent is the image so far.
THEOREM RegularInductive == Regular => (LoadSpec => []RegularInv)
<1> SUFFICES ASSUME Regular
             PROVE  LoadSpec => []RegularInv
  OBVIOUS
<1>1. FirstFits /\ FwInv /\ RegularInv /\ [Next /\ FirstFits']_fwVars => RegularInv'
  <2> SUFFICES ASSUME FirstFits, FwInv, RegularInv, [Next]_fwVars
               PROVE  RegularInv'
    OBVIOUS
  <2>1. CASE UNCHANGED fwVars
    BY <2>1 DEF fwVars, statics, RegularInv, Latched, Gathered, SentSoFar, SentRight, LoadedWhole,
                DoneMeansLoaded
  <2>2. CASE Next
    BY <2>2, StartRegular, WriteRegular, HeaderRegular, CompareRegular, SendBlockRegular,
       ConcludeRegular DEF Next
  <2>3. QED
    BY <2>1, <2>2
<1>2. QED
  BY <1>1, RegularInit, FirstFitsAlways, PTL DEF LoadSpec

\* What a device is loaded with is the image of the file that was written, whole, in order and
\* without its header, for regular files in any number of pieces to any number of devices.
THEOREM LoadsWhole == Regular => (LoadSpec => []LoadedWhole)
<1> SUFFICES ASSUME Regular
             PROVE  LoadSpec => []LoadedWhole
  OBVIOUS
<1>1. RegularInv => LoadedWhole
  BY DEF RegularInv
<1>2. QED
  BY <1>1, RegularInductive, PTL

\* A process whose every write of a regular file succeeded has loaded its image.
THEOREM DoneLoads == Regular => (LoadSpec => []DoneMeansLoaded)
<1> SUFFICES ASSUME Regular
             PROVE  LoadSpec => []DoneMeansLoaded
  OBVIOUS
<1>1. RegularInv => DoneMeansLoaded
  BY DEF RegularInv
<1>2. QED
  BY <1>1, RegularInductive, PTL

\* An upload starts with an empty buffer: after one whose push failed, after a file that did not
\* fit in one piece, and after one too long of which pieces had been taken before the buffer
\* overflowed.
THEOREM EmptyStart == Regular => (LoadSpec => []StartsEmpty)
<1> SUFFICES ASSUME Regular
             PROVE  LoadSpec => []StartsEmpty
  OBVIOUS
<1>1. FwInv /\ RegularInv => StartsEmpty
  <2> SUFFICES ASSUME FwInv, RegularInv, NEW w \in Writers, pc[w] = "write", at[w] = 0
               PROVE  hbi_buf[dev[w]] = <<>>
    BY DEF StartsEmpty
  <2>1. hbi_buf[dev[w]] = Written(image[w], 0) /\ image[w] \in Images
    BY DEF FwInv, FwTypes, RegularInv, Gathered
  <2>2. QED
    BY <2>1, WrittenFields
<1>2. QED
  BY <1>1, FirstFitsAlways, RegularInductive, PTL

=============================================================================
