---------------------------- MODULE RegAccessProofs ----------------------------
(***************************************************************************)
(* Every access reaches the register it is for, writes land there,         *)
(* controls keep their values, and a dump is what the registers held.      *)
(***************************************************************************)
EXTENDS RegAccessInv, SequenceTheorems, TLAPS

-----------------------------------------------------------------------------
(* The command words *)

\* A number written in bytes, and in units of two.
LEMMA Bytes ==
  ASSUME NEW q \in Nat, NEW r \in Nat, r < 256
  PROVE  (256 * q + r) \div 256 = q /\ (256 * q + r) % 256 = r
BY SMT

LEMMA Halves ==
  ASSUME NEW k \in Nat, NEW f \in Nat, f < 2
  PROVE  (2 * k + f) \div 2 = k /\ (2 * k + f) % 2 = f
BY SMT

LEMMA Even ==
  ASSUME NEW a \in Nat, a % 2 = 0
  PROVE  a \div 2 \in Nat /\ a = 2 * (a \div 2)
BY SMT

\* The addresses, and among them those of the command registers.
LEMMA AddrsAre ==
  ASSUME NEW addr \in Addrs
  PROVE  /\ addr \in Nat /\ addr < 256 * 256 /\ ~(addr >= 248 /\ addr =< 255)
         /\ addr % 2 = 0
<1>1. PICK m \in Nat, n \in Nat, top \in Nat : m = 248 /\ n = 255 /\ top = 256 * 256 - 1
  <2>1. 248 \in Nat /\ 255 \in Nat /\ 256 * 256 - 1 \in Nat
    BY SMT
  <2> QED BY <2>1, Zenon
<1>2. addr \in 0 .. top /\ addr % 2 = 0 /\ addr \notin m .. n
  BY <1>1 DEF Addrs
<1>3. addr \in Nat /\ addr =< top /\ ~(addr >= m /\ addr =< n)
  BY <1>2
<1>4. addr < 256 * 256
  BY <1>1, <1>3
<1>5. ~(addr >= 248 /\ addr =< 255)
  BY <1>1, <1>3
<1> QED BY <1>2, <1>3, <1>4, <1>5

\* The parts of an address.
LEMMA AddrParts ==
  ASSUME NEW addr \in Addrs
  PROVE  /\ Page(addr) \in 0 .. 255 /\ Offset(addr) \in 0 .. 127
         /\ addr = 256 * Page(addr) + 2 * Offset(addr)
         /\ Page(addr) = 0 => Offset(addr) < 124
<1>1. addr \in Nat /\ addr < 256 * 256 /\ ~(addr >= 248 /\ addr =< 255) /\ addr % 2 = 0
  BY AddrsAre, SMT
<1>2. PICK h \in Nat : addr = 2 * h
  BY <1>1, Even, SMT
<1>3. PICK q \in Nat : 128 * q =< h /\ h < 128 * q + 128
  <2>1. h \div 128 \in Nat /\ 128 * (h \div 128) =< h /\ h < 128 * (h \div 128) + 128
    BY SMT
  <2> QED BY <2>1
<1>4. PICK k \in Nat : h = 128 * q + k
  <2>1. h - 128 * q \in Nat /\ h = 128 * q + (h - 128 * q)
    BY <1>3, SMT
  <2> QED BY <2>1
<1>5. k < 128 /\ addr = 256 * q + 2 * k
  BY <1>2, <1>3, <1>4, SMT
<1>6. Page(addr) = q /\ addr % 256 = 2 * k
  <2>1. 2 * k \in Nat /\ 2 * k < 256
    BY <1>5, SMT
  <2> QED BY <1>5, <2>1, Bytes DEF Page
<1>7. Offset(addr) = k
  <2>1. (2 * k) \div 2 = k
    BY SMT
  <2> QED BY <1>6, <2>1 DEF Offset
<1>8. q < 256 /\ (q = 0 => k < 124)
  <2>1. q < 256
    BY <1>1, <1>5, SMT
  <2>2. q = 0 => k < 124
    BY <1>1, <1>5, SMT
  <2> QED BY <2>1, <2>2
<1>9. q \in 0 .. 255 /\ k \in 0 .. 127
  BY <1>5, <1>8
<1>10. Page(addr) = q
  BY <1>6
<1> QED
  BY <1>5, <1>7, <1>8, <1>9, <1>10, SMTT(30)

\* The length of an access.
LEMMA SizeParts ==
  ASSUME NEW size \in Sizes
  PROVE  NumWords(size) \in 0 .. 127 /\ NumWords(size) + 1 = size \div 2
<1>1. size \in Nat /\ size >= 2 /\ size =< 256
  BY DEF Sizes
<1>2. size \div 2 \in Nat /\ size \div 2 >= 1 /\ size \div 2 =< 128
  BY <1>1, SMT
<1> DEFINE w == size \div 2
<1> HIDE DEF w
<1>3. w \in Nat /\ w >= 1 /\ w =< 128
  BY <1>2 DEF w
<1>4. w - 1 \in 0 .. 127 /\ w - 1 + 1 = w
  BY <1>3, SMT
<1> QED BY <1>4 DEF NumWords, w

\* Bit 15 of a command word.
LEMMA TopBit ==
  ASSUME NEW b \in Nat, b < 32768
  PROVE  b % 32768 = b /\ (32768 + b) % 32768 = b /\ ~(b >= 32768) /\ 32768 + b >= 32768
BY SMT

\* An access command carries its offset, direction and length.
LEMMA AccessDecodes ==
  ASSUME NEW o \in 0 .. 127, NEW n \in 0 .. 127, NEW read \in BOOLEAN, NEW sel \in Nat
  PROVE  /\ Access(sel, Directed(PagedRead(o, n), read)) =
              [addr |-> PageAddr(sel) + 2 * o, read |-> read, words |-> n + 1]
         /\ Access(sel, Directed(DirectRead(o, n), read)) =
              [addr |-> 0 + 2 * o, read |-> read, words |-> n + 1]
<1> DEFINE f == IF read THEN 0 ELSE 1
           b == 256 * o + (128 * f + n)
<1>1. f \in Nat /\ f < 2 /\ (f = 0) = read
  OBVIOUS
<1>2. o \in Nat /\ o < 128 /\ n \in Nat /\ n < 128
  OBVIOUS
<1> HIDE DEF f
<1>3. Directed(PagedRead(o, n), read) = b /\ Directed(DirectRead(o, n), read) = 32768 + b
  <2>1. CASE read
    BY <1>2, <2>1 DEF Directed, PagedRead, DirectRead, f
  <2>2. CASE ~read
    BY <1>2, <2>2 DEF Directed, PagedRead, DirectRead, f
  <2> QED BY <2>1, <2>2
<1>4. b \in Nat /\ b < 32768 /\ b \div 256 = o
  <2>1. 128 * f + n \in Nat /\ 128 * f + n < 256
    BY <1>1, <1>2, SMT
  <2>2. b \div 256 = o
    BY <1>2, <2>1, Bytes
  <2>3. b \in Nat /\ b < 32768
    BY <1>1, <1>2, SMT
  <2> QED BY <2>2, <2>3
<1>5. b % 128 = n /\ b \div 128 = 2 * o + f
  BY <1>1, <1>2, SMT
<1>6. (b \div 128) % 2 = f
  BY <1>1, <1>2, <1>5, Halves
<1> HIDE DEF b
<1>7. b % 32768 = b /\ (32768 + b) % 32768 = b /\ ~(b >= 32768) /\ 32768 + b >= 32768
  BY <1>4, TopBit
<1>8. Access(sel, b) = [addr |-> PageAddr(sel) + 2 * o, read |-> read, words |-> n + 1]
  <2>1. Access(sel, b) = [addr |-> PageAddr(sel) + 2 * (b \div 256),
                           read |-> (b \div 128) % 2 = 0, words |-> (b % 128) + 1]
    BY <1>7 DEF Access
  <2> QED BY <1>1, <1>4, <1>5, <1>6, <2>1
<1>9. Access(sel, 32768 + b) = [addr |-> 0 + 2 * o, read |-> read, words |-> n + 1]
  <2> DEFINE w == 32768 + b
  <2>1. w % 32768 = b /\ w >= 32768
    BY <1>7
  <2> HIDE DEF w
  <2>2. Access(sel, w) = [addr |-> 0 + 2 * (b \div 256),
                           read |-> (b \div 128) % 2 = 0, words |-> (b % 128) + 1]
    BY <2>1 DEF Access
  <2>3. Access(sel, w) = [addr |-> 0 + 2 * o, read |-> read, words |-> n + 1]
    BY <1>1, <1>4, <1>5, <1>6, <2>2
  <2> QED BY <2>3 DEF w
<1> QED BY <1>3, <1>8, <1>9

\* An access of a register: its address, its direction and the number of its words.
Of(addr, read, size) == [addr |-> addr, read |-> read, words |-> size \div 2]

\* A header is an access command for page 0, or the selection of a page and a command in it.
LEMMA HeaderIs ==
  ASSUME NEW addr \in Addrs, NEW size \in Sizes, NEW read \in BOOLEAN
  PROVE  LET h == Header(addr, read, size) IN
         \/ /\ Len(h) = 1 /\ ~IsSelect(h[1])
            /\ \A sel \in Nat : Access(sel, h[1]) = Of(addr, read, size)
         \/ /\ Len(h) = 2 /\ IsSelect(h[1]) /\ ~IsSelect(h[2])
            /\ \A sel \in Nat : Access(Selected(sel, h[1]), h[2]) = Of(addr, read, size)
<1> DEFINE o == Offset(addr)
           n == NumWords(size)
           p == IF Page(addr) = 255 THEN 255 ELSE Page(addr) - 1
<1>1. o \in 0 .. 127 /\ n \in 0 .. 127 /\ Page(addr) \in 0 .. 255 /\ n + 1 = size \div 2
  BY AddrParts, SizeParts
<1>2. addr = 256 * Page(addr) + 2 * o
  BY AddrParts
<1>3. CASE Page(addr) = 0
  <2> DEFINE w == Directed(DirectRead(o, n), read)
  <2>1. Header(addr, read, size) = <<w>>
    BY <1>3 DEF Header
  <2>2. o < 124
    BY <1>3, AddrParts
  <2>3. ~IsSelect(w)
    <3>1. w \in Nat /\ w < 32768 + 124 * 256
      <4>1. o \in Nat /\ o < 124 /\ n \in Nat /\ n < 128
        BY <1>1, <2>2
      <4> HIDE DEF o, n
      <4>2. CASE read
        BY <4>1, <4>2 DEF Directed, DirectRead
      <4>3. CASE ~read
        BY <4>1, <4>3 DEF Directed, DirectRead
      <4> QED BY <4>2, <4>3
    <3> HIDE DEF w
    <3>2. w \div 256 < 254
      BY <3>1, SMT
    <3> QED BY <3>2, SMT DEF IsSelect
  <2>4. 0 + 2 * o = addr
    BY <1>2, <1>3, <1>1
  <2>5. ASSUME NEW sel \in Nat
        PROVE  Access(sel, w) = Of(addr, read, size)
    <3>1. Access(sel, w) = [addr |-> 0 + 2 * o, read |-> read, words |-> n + 1]
      BY <1>1, AccessDecodes, Zenon
    <3> QED BY <1>1, <2>4, <3>1, Zenon DEF Of
  <2> HIDE DEF w
  <2>6. Len(<<w>>) = 1 /\ <<w>>[1] = w
    OBVIOUS
  <2> QED BY <2>1, <2>3, <2>5, <2>6, Zenon
<1>4. CASE Page(addr) # 0
  <2> DEFINE v == SelectPage(p)
             w == Directed(PagedRead(o, n), read)
  <2>1. Header(addr, read, size) = <<v, w>>
    BY <1>4 DEF Header
  <2>2. p \in 0 .. 255 /\ PageAddr(p) = 256 * Page(addr)
    BY <1>1, <1>4, SMT DEF PageAddr
  <2>3. IsSelect(v) /\ \A sel : Selected(sel, v) = p
    <3> HIDE DEF p
    <3>1. v \div 256 = 254 /\ v % 256 = p
      BY <2>2, SMT DEF SelectPage
    <3> QED BY <3>1 DEF IsSelect, Selected
  <2>4. ~IsSelect(w)
    <3>1. w \in Nat /\ w < 32768
      <4>1. o \in Nat /\ o < 128 /\ n \in Nat /\ n < 128
        BY <1>1
      <4> HIDE DEF o, n
      <4>2. CASE read
        BY <4>1, <4>2 DEF Directed, PagedRead
      <4>3. CASE ~read
        BY <4>1, <4>3 DEF Directed, PagedRead
      <4> QED BY <4>2, <4>3
    <3> HIDE DEF w
    <3>2. w \div 256 < 254
      BY <3>1, SMT
    <3> QED BY <3>2, SMT DEF IsSelect
  <2>5. PageAddr(p) + 2 * o = addr
    BY <1>2, <2>2, <1>1
  <2>6. Access(p, w) = Of(addr, read, size)
    <3>1. p \in Nat
      BY <2>2, SMT
    <3> HIDE DEF p
    <3>2. Access(p, w) = [addr |-> PageAddr(p) + 2 * o, read |-> read, words |-> n + 1]
      BY <1>1, <3>1, AccessDecodes, Zenon
    <3> QED BY <1>1, <2>5, <3>2, Zenon DEF Of
  <2> HIDE DEF p, v, w
  <2>7. Len(<<v, w>>) = 2 /\ <<v, w>>[1] = v /\ <<v, w>>[2] = w
    OBVIOUS
  <2> QED BY <2>1, <2>3, <2>4, <2>6, <2>7, Zenon
<1> QED BY <1>3, <1>4

\* Whatever page other accesses have left selected in the device, the header of an access names
\* the register, the direction and the number of words that were asked for.
THEOREM HeaderReachesRegister ==
  ASSUME NEW addr \in Addrs, NEW size \in Sizes, NEW read \in BOOLEAN, NEW sel \in 0 .. 255
  PROVE  Decoded(sel, Header(addr, read, size)) =
           [addr |-> addr, read |-> read, words |-> size \div 2]
<1>1. PICK h : h = Header(addr, read, size)
  OBVIOUS
<1>2. sel \in Nat
  BY SMT
<1>3. \/ Len(h) = 1 /\ ~IsSelect(h[1]) /\ Access(sel, h[1]) = Of(addr, read, size)
      \/ /\ Len(h) = 2 /\ IsSelect(h[1])
         /\ Access(Selected(sel, h[1]), h[2]) = Of(addr, read, size)
  BY <1>1, <1>2, HeaderIs, Zenon
<1>4. Decoded(sel, h) = Of(addr, read, size)
  BY <1>3, Zenon DEF Decoded
<1> QED BY <1>1, <1>4, Zenon DEF Of

-----------------------------------------------------------------------------
(* Fields of a register *)

LEMMA WordIs == \A v : v \in Word <=> v \in Nat /\ v < 65536
<1>1. PICK n \in Nat : n = 256 * 256 - 1
  OBVIOUS
<1>2. n = 65535
  BY <1>1
<1>3. Word = 0 .. n
  BY <1>1 DEF Word
<1>4. \A v : v \in 0 .. n <=> v \in Nat /\ v =< n
  OBVIOUS
<1>5. \A v : v \in Word <=> v \in Nat /\ v =< n
  BY <1>3, <1>4
<1> QED BY <1>2, <1>5

\* Division, and that quotient and remainder are unique.
LEMMA Divides ==
  ASSUME NEW a \in Nat, NEW b \in Nat, b > 0
  PROVE  /\ a \div b \in Nat /\ a % b \in Nat /\ a % b < b
         /\ a = b * (a \div b) + (a % b)
<1>1. a \div b \in Nat
  OBVIOUS
<1>2. a % b \in 0 .. b - 1
  OBVIOUS
<1>3. a = b * (a \div b) + (a % b)
  OBVIOUS
<1> QED BY <1>1, <1>2, <1>3

LEMMA Larger ==
  ASSUME NEW b \in Nat, NEW p \in Nat, NEW q \in Nat, p < q
  PROVE  b * q >= b * p + b
<1>1. PICK k \in Nat : q = p + 1 + k
  <2> q - p - 1 \in Nat /\ q = p + 1 + (q - p - 1)
    OBVIOUS
  <2> QED OBVIOUS
<1>2. b * k \in Nat /\ b * p \in Nat
  OBVIOUS
<1>3. b * q = b * p + b + b * k
  BY <1>1
<1> QED BY <1>2, <1>3

LEMMA Quotient ==
  ASSUME NEW b \in Nat, b > 0, NEW q \in Nat, NEW r \in Nat, r < b, NEW a, a = b * q + r
  PROVE  a \div b = q /\ a % b = r
<1>1. a \in Nat /\ b * q \in Nat
  OBVIOUS
<1>2. PICK p \in Nat, s \in Nat : p = a \div b /\ s = a % b /\ s < b /\ a = b * p + s
  BY <1>1, Divides
<1>3. b * p \in Nat
  BY <1>2
<1>4. ~(p > q)
  <2> SUFFICES ASSUME p > q PROVE FALSE
    OBVIOUS
  <2>1. b * p >= b * q + b
    BY <1>2, Larger
  <2> QED BY <1>1, <1>2, <1>3, <2>1
<1>5. ~(q > p)
  <2> SUFFICES ASSUME q > p PROVE FALSE
    OBVIOUS
  <2>1. b * q >= b * p + b
    BY <1>2, Larger
  <2> QED BY <1>1, <1>2, <1>3, <2>1
<1>6. p = q
  BY <1>2, <1>4, <1>5
<1>7. s = r
  BY <1>1, <1>2, <1>3, <1>6
<1> QED BY <1>2, <1>6, <1>7

LEMMA Times ==
  ASSUME NEW x \in Nat, NEW y \in Nat
  PROVE  x * y \in Nat /\ (x > 0 /\ y > 0 => x * y > 0)
<1>1. x * y \in Nat
  OBVIOUS
<1>2. ASSUME x > 0, y > 0 PROVE x * y > 0
  <2>1. x * y >= x * 0 + x
    BY <1>2, Larger
  <2> QED BY <1>1, <1>2, <2>1
<1> QED BY <1>1, <1>2

\* A number as r units below a place of weight s, a digit f of v values there, and k above.
Digits(x, s, v, k, f, r) ==
  k \in Nat /\ f \in Nat /\ f < v /\ r \in Nat /\ r < s /\ x = s * (v * k + f) + r

LEMMA DigitsExist ==
  ASSUME NEW x \in Nat, NEW s \in Nat, s > 0, NEW v \in Nat, v > 0
  PROVE  \E k, f, r \in Nat : Digits(x, s, v, k, f, r)
<1>1. PICK q \in Nat, r \in Nat : r < s /\ x = s * q + r
  <2>1. /\ x \div s \in Nat /\ x % s \in Nat /\ x % s < s
        /\ x = s * (x \div s) + (x % s)
    BY Divides
  <2> QED BY <2>1
<1>2. PICK k \in Nat, f \in Nat : f < v /\ q = v * k + f
  <2>1. /\ q \div v \in Nat /\ q % v \in Nat /\ q % v < v
        /\ q = v * (q \div v) + (q % v)
    BY Divides
  <2> QED BY <2>1
<1>3. Digits(x, s, v, k, f, r)
  BY <1>1, <1>2 DEF Digits
<1> QED BY <1>3

LEMMA DigitsRead ==
  ASSUME NEW x, NEW s \in Nat, s > 0, NEW v \in Nat, v > 0, NEW k, NEW f, NEW r,
         Digits(x, s, v, k, f, r)
  PROVE  /\ (x \div s) % v = f /\ x \in Nat
         /\ s * v \in Nat /\ s * v > 0 /\ x \div (s * v) = k
         /\ s * f \in Nat /\ s * f + r < s * v /\ x = (s * v) * k + (s * f + r)
<1>1. k \in Nat /\ f \in Nat /\ r \in Nat /\ f < v /\ r < s /\ x = s * (v * k + f) + r
  BY DEF Digits
<1>2. v * k \in Nat /\ v * k + f \in Nat
  BY <1>1, Times
<1>3. x \div s = v * k + f
  <2>1. PICK q \in Nat : q = v * k + f
    BY <1>2
  <2>2. x \in Nat /\ x = s * q + r
    BY <1>1, <2>1, Times
  <2>3. r \in Nat /\ r < s
    BY <1>1
  <2>4. x \div s = q
    BY <2>2, <2>3, Quotient
  <2> QED BY <2>1, <2>4
<1>4. (v * k + f) % v = f
  BY <1>1, Quotient
<1>5. s * v \in Nat /\ s * v > 0 /\ s * f \in Nat
  BY <1>1, Times
<1>6. s * v >= s * f + s
  BY <1>1, Larger
<1>7. s * f + r < s * v
  BY <1>1, <1>5, <1>6
<1>8. x = (s * v) * k + (s * f + r)
  BY <1>1
<1>9. x \in Nat
  BY <1>1, <1>2, Times
<1>10. x \div (s * v) = k
  <2> DEFINE b == s * v
             e == s * f + r
  <2>1. b \in Nat /\ b > 0 /\ e \in Nat /\ e < b /\ x = b * k + e
    BY <1>1, <1>5, <1>7, <1>8
  <2> HIDE DEF b, e
  <2>2. x \div b = k
    BY <1>1, <2>1, Quotient
  <2> QED BY <2>2 DEF b
<1> QED BY <1>3, <1>4, <1>5, <1>7, <1>8, <1>9, <1>10

DigitOf(x, s, v) == (x \div s) % v
LEMMA DigitIs ==
  ASSUME NEW x, NEW s \in Nat, s > 0, NEW v \in Nat, v > 0, NEW k, NEW f, NEW r,
         Digits(x, s, v, k, f, r)
  PROVE  DigitOf(x, s, v) = f
BY DigitsRead DEF DigitOf

\* Dividing twice.
LEMMA Twice ==
  ASSUME NEW x \in Nat, NEW a \in Nat, a > 0, NEW b \in Nat, b > 0
  PROVE  (x \div a) \div b = x \div (a * b)
<1>1. PICK k, f, r \in Nat : Digits(x, a, b, k, f, r)
  BY DigitsExist
<1>2. x \div (a * b) = k
  BY <1>1, DigitsRead
<1>3. f < b /\ r < a /\ x = a * (b * k + f) + r /\ b * k + f \in Nat
  BY <1>1, Times DEF Digits
<1>4. x \div a = b * k + f
  BY <1>3, Quotient
<1>5. (b * k + f) \div b = k
  BY <1>3, Quotient
<1> QED BY <1>2, <1>4, <1>5

-----------------------------------------------------------------------------
(* The controls *)

LEMMA ControlParts ==
  ASSUME NEW c \in Controls
  PROVE  /\ c.reg \in Regs
         /\ c.unit \in Nat /\ c.unit > 0 /\ c.low \in Nat /\ c.low > 0
         /\ c.values \in Nat /\ c.values > 0
         /\ First(c) \in Nat /\ First(c) > 0 /\ After(c) \in Nat /\ After(c) > 0
         /\ After(c) = First(c) * c.values
         /\ \E k \in Nat : 65536 = After(c) * k
<1>1. c \in [reg : Regs, unit : Powers, low : Powers, values : Powers] /\ 65536 % After(c) = 0
  BY RegConstantsOK
<1>2. \A p \in Powers : p \in Nat /\ p > 0
  BY DEF Powers
<1>3. /\ c.reg \in Regs /\ c.unit \in Powers /\ c.low \in Powers /\ c.values \in Powers
  BY <1>1
<1>4. /\ c.unit \in Nat /\ c.unit > 0 /\ c.low \in Nat /\ c.low > 0
      /\ c.values \in Nat /\ c.values > 0
  BY <1>2, <1>3
<1>5. First(c) \in Nat /\ First(c) > 0
  BY <1>4, Times DEF First
<1>6. After(c) \in Nat /\ After(c) > 0
  BY <1>4, <1>5, Times DEF After
<1>7. 65536 \div After(c) \in Nat /\ 65536 = After(c) * (65536 \div After(c)) + (65536 % After(c))
  <2>1. PICK w \in Nat : w = 65536
    OBVIOUS
  <2>2. w \div After(c) \in Nat /\ w = After(c) * (w \div After(c)) + (w % After(c))
    BY <1>6, Divides
  <2> QED BY <2>1, <2>2
<1>8. 65536 = After(c) * (65536 \div After(c))
  BY <1>1, <1>6, <1>7
<1> QED BY <1>3, <1>4, <1>5, <1>6, <1>7, <1>8 DEF After

\* What a field reads.
LEMMA FieldReads ==
  ASSUME NEW c \in Controls, NEW x \in Nat
  PROVE  /\ Field(x, c) = c.low * ((x \div First(c)) % c.values)
         /\ Field(x, c) \in Nat
<1>1. (x \div c.unit) \div c.low = x \div First(c)
  BY ControlParts, Twice DEF First
<1>2. Field(x, c) = c.low * ((x \div First(c)) % c.values)
  BY <1>1 DEF Field, Masked, Bits
<1>3. x \div First(c) \in Nat
  BY ControlParts, Divides
<1>4. (x \div First(c)) % c.values \in Nat
  BY <1>3, ControlParts, Divides
<1> QED BY <1>2, <1>4, ControlParts, Times

\* Setting a field changes one digit of the register.
LEMMA MergedDigits ==
  ASSUME NEW c \in Controls, NEW x \in Nat, NEW n \in Settable(c)
  PROVE  \E k, f, g, r \in Nat :
           /\ Digits(x, First(c), c.values, k, f, r)
           /\ Digits(Merged(x, c, n), First(c), c.values, k, g, r)
           /\ n = c.low * g
<1> DEFINE s == First(c)
           v == c.values
<1>1. s \in Nat /\ s > 0 /\ v \in Nat /\ v > 0 /\ c.low \in Nat /\ c.unit \in Nat
  BY ControlParts
<1>2. PICK g \in 0 .. v - 1 : n = c.low * g
  BY DEF Settable
<1>3. PICK k, f, r \in Nat : Digits(x, s, v, k, f, r)
  BY <1>1, DigitsExist
<1>4. (x \div s) % v = f
  BY <1>1, <1>3, DigitsRead
<1>5. Merged(x, c, n) = x - s * f + n * c.unit
  BY <1>4 DEF Merged, Bits
<1>6. n * c.unit = s * g
  BY <1>1, <1>2 DEF First
<1>7. x = s * (v * k + f) + r /\ r < s
  BY <1>3 DEF Digits
<1>8. Merged(x, c, n) = s * (v * k + g) + r
  <2> HIDE DEF s, v
  <2>1. x = s * (v * k) + s * f + r
    BY <1>1, <1>7
  <2>2. s * (v * k + g) = s * (v * k) + s * g
    BY <1>1, <1>2
  <2>3. s * (v * k) \in Nat /\ s * f \in Nat /\ s * g \in Nat
    BY <1>1, <1>2, Times
  <2> QED BY <1>1, <1>5, <1>6, <2>1, <2>2, <2>3
<1>9. Digits(Merged(x, c, n), s, v, k, g, r)
  BY <1>1, <1>2, <1>7, <1>8 DEF Digits
<1> QED BY <1>2, <1>3, <1>9

LEMMA MergedWord ==
  ASSUME NEW c \in Controls, NEW x \in Word, NEW n \in Settable(c)
  PROVE  Merged(x, c, n) \in Word
<1> DEFINE s == First(c)
           v == c.values
           a == After(c)
           m == Merged(x, c, n)
<1>1. s \in Nat /\ s > 0 /\ v \in Nat /\ v > 0 /\ a \in Nat /\ a > 0 /\ a = s * v
  BY ControlParts
<1>2. x \in Nat /\ x < 65536
  BY WordIs
<1>3. PICK k, f, g, r \in Nat : Digits(x, s, v, k, f, r) /\ Digits(m, s, v, k, g, r)
  BY <1>2, MergedDigits
<1>4. x \div a = k /\ m \in Nat /\ m \div a = k
  <2>1. x \div (s * v) = k /\ m \in Nat /\ m \div (s * v) = k
    BY <1>1, <1>3, DigitsRead, ZenonT(60)
  <2> QED BY <1>1, <2>1
<1>5. PICK j \in Nat : 65536 = a * j
  BY ControlParts
<1> HIDE DEF s, v, a, m
<1>6. x >= a * k /\ m < a * k + a
  <2>1. x % a \in Nat /\ x = a * k + (x % a)
    BY <1>1, <1>2, <1>4, Divides
  <2>2. m % a \in Nat /\ m % a < a /\ m = a * k + (m % a)
    BY <1>1, <1>4, Divides
  <2>3. a * k \in Nat
    BY <1>1, Times
  <2> QED BY <1>1, <2>1, <2>2, <2>3
<1>7. k < j
  <2> SUFFICES ASSUME j =< k PROVE FALSE
    OBVIOUS
  <2>1. a * k >= a * j
    <3>1. CASE j = k
      BY <3>1, <1>1, Times
    <3>2. CASE j < k
      <4>1. a * k >= a * j + a
        BY <1>1, <3>2, Larger
      <4>2. a * k \in Nat /\ a * j \in Nat
        BY <1>1, Times
      <4> QED BY <1>1, <4>1, <4>2
    <3> QED BY <3>1, <3>2
  <2>2. a * k \in Nat
    BY <1>1, Times
  <2> QED BY <1>2, <1>5, <1>6, <2>1, <2>2
<1>8. a * j >= a * k + a /\ a * k \in Nat
  BY <1>1, <1>7, Larger, Times
<1>9. m < 65536
  BY <1>1, <1>4, <1>5, <1>6, <1>8
<1>10. m \in Word
  <2>1. m \in Nat
    BY <1>4
  <2> QED BY <1>9, <2>1, WordIs
<1> QED BY <1>10 DEF m

\* A control reads back what it was set to.
LEMMA FieldSet ==
  ASSUME NEW c \in Controls, NEW x \in Word, NEW n \in Settable(c)
  PROVE  Field(Merged(x, c, n), c) = n
<1>1. PICK w \in Nat : w = x
  BY WordIs
<1>2. PICK m \in Word : m = Merged(x, c, n)
  BY MergedWord
<1>3. m \in Nat
  BY <1>2, WordIs
<1>4. PICK k \in Nat, f \in Nat, g \in Nat, r \in Nat :
        /\ Digits(m, First(c), c.values, k, g, r) /\ n = c.low * g
  <2>1. \E k, f, g, r \in Nat :
           /\ Digits(x, First(c), c.values, k, f, r)
           /\ Digits(Merged(x, c, n), First(c), c.values, k, g, r)
           /\ n = c.low * g
    BY <1>1, MergedDigits, Zenon
  <2> QED BY <1>2, <2>1
<1>5. (m \div First(c)) % c.values = g
  BY <1>4, ControlParts, DigitsRead
<1>6. Field(m, c) = c.low * g
  BY <1>3, <1>5, FieldReads
<1> QED BY <1>2, <1>4, <1>6

\* What lies above a place does not change when what is below it does.
SameAbove(x, y, a) == x \div a = y \div a
LEMMA Above ==
  ASSUME NEW x \in Nat, NEW y \in Nat, NEW a \in Nat, a > 0, SameAbove(x, y, a),
         NEW s \in Nat, s > 0, s % a = 0
  PROVE  SameAbove(x, y, s)
<1>1. PICK j \in Nat : j = s \div a /\ s = a * j
  <2>1. s \div a \in Nat /\ s = a * (s \div a) + (s % a)
    BY Divides
  <2>2. a * (s \div a) \in Nat
    BY <2>1, Times
  <2> QED BY <2>1, <2>2
<1>2. j > 0
  <2> SUFFICES ASSUME j = 0 PROVE FALSE
    OBVIOUS
  <2> QED BY <1>1
<1>3. x \div s = (x \div a) \div j /\ y \div s = (y \div a) \div j
  BY <1>1, <1>2, Twice
<1> QED BY <1>3 DEF SameAbove

\* Nor does a digit when what is above it does.
Beyond(t, s, v)   == t % (s * v) = 0
Over(x, t, q, r)  == x = t * q + r
LEMMA DigitBelow ==
  ASSUME NEW s \in Nat, s > 0, NEW v \in Nat, v > 0, NEW t \in Nat, t > 0, Beyond(t, s, v),
         NEW q \in Nat, NEW r \in Nat, NEW x, Over(x, t, q, r)
  PROVE  DigitOf(x, s, v) = DigitOf(r, s, v)
<1>1. PICK j \in Nat : t = (s * v) * j
  <2>1. s * v \in Nat /\ s * v > 0
    BY Times
  <2>2. PICK a \in Nat : a = s * v /\ a > 0 /\ t % a = 0
    BY <2>1 DEF Beyond
  <2>3. t \div a \in Nat /\ t = a * (t \div a) + (t % a)
    BY <2>2, Divides
  <2>4. a * (t \div a) \in Nat
    BY <2>2, <2>3, Times
  <2>5. t = a * (t \div a)
    BY <2>2, <2>3, <2>4
  <2> QED BY <2>2, <2>3, <2>5
<1>2. PICK k, f, e \in Nat : Digits(r, s, v, k, f, e)
  BY DigitsExist
<1>3. DigitOf(r, s, v) = f /\ e < s /\ f < v /\ r = s * (v * k + f) + e
  <2>1. DigitOf(r, s, v) = f
    BY <1>2, DigitIs
  <2> QED BY <1>2, <2>1 DEF Digits
<1>4. PICK p \in Nat : p = j * q + k
  <2>1. j * q \in Nat
    BY Times
  <2> QED BY <2>1
<1>5. x = s * (v * p + f) + e
  BY <1>1, <1>3, <1>4 DEF Over
<1>6. Digits(x, s, v, p, f, e)
  BY <1>3, <1>5 DEF Digits
<1>7. DigitOf(x, s, v) = f
  BY <1>6, DigitIs
<1> QED BY <1>3, <1>7

\* The other controls of the register keep their values.
LEMMA FieldKept ==
  ASSUME NEW c \in Controls, NEW d \in Controls, c # d, c.reg = d.reg,
         NEW x \in Word, NEW n \in Settable(c)
  PROVE  Field(Merged(x, c, n), d) = Field(x, d)
<1>1. PICK m \in Word : m = Merged(x, c, n)
  BY MergedWord
<1>2. x \in Nat /\ m \in Nat
  BY <1>1, WordIs
<1>3. PICK s \in Nat, v \in Nat : s = First(c) /\ v = c.values /\ s > 0 /\ v > 0
  BY ControlParts
<1>4. PICK t \in Nat, w \in Nat : t = First(d) /\ w = d.values /\ t > 0 /\ w > 0
  BY ControlParts
<1>5. After(c) = s * v /\ After(d) = t * w /\ s * v \in Nat /\ s * v > 0
  BY <1>3, <1>4, ControlParts
<1>6. PICK k \in Nat, f \in Nat, g \in Nat, r \in Nat :
        Digits(x, s, v, k, f, r) /\ Digits(m, s, v, k, g, r)
  BY <1>1, <1>2, <1>3, MergedDigits
<1>7. Below(c, d) \/ Below(d, c)
  BY RegConstantsOK
<1>8. DigitOf(m, t, w) = DigitOf(x, t, w)
  <2>1. CASE Below(c, d)
    <3>1. x \div (s * v) = k /\ m \div (s * v) = k
      <4>1. x \div (s * v) = k
        BY <1>3, <1>6, DigitsRead, ZenonT(60)
      <4>2. m \div (s * v) = k
        BY <1>3, <1>6, DigitsRead
      <4> QED BY <4>1, <4>2
    <3>2. PICK a \in Nat : a = s * v /\ a > 0
      BY <1>5
    <3>3. SameAbove(x, m, a) /\ t % a = 0
      BY <2>1, <1>4, <1>5, <3>1, <3>2 DEF Below, SameAbove
    <3>4. SameAbove(x, m, t)
      BY <1>2, <1>4, <3>2, <3>3, Above
    <3> QED BY <3>4 DEF SameAbove, DigitOf
  <2>2. CASE Below(d, c)
    <3>1. PICK qx \in Nat : qx = v * k + f
      BY Times
    <3>2. PICK qm \in Nat : qm = v * k + g
      BY Times
    <3>3. Over(x, s, qx, r) /\ Over(m, s, qm, r)
      BY <1>6, <3>1, <3>2 DEF Digits, Over
    <3>4. Beyond(s, t, w)
      BY <2>2, <1>3, <1>5 DEF Below, Beyond
    <3>5. DigitOf(x, t, w) = DigitOf(r, t, w)
      BY <1>3, <1>4, <3>3, <3>4, DigitBelow
    <3>6. DigitOf(m, t, w) = DigitOf(r, t, w)
      BY <1>3, <1>4, <3>3, <3>4, DigitBelow
    <3> QED BY <3>5, <3>6
  <2> QED BY <1>7, <2>1, <2>2
<1>9. /\ Field(m, d) = d.low * ((m \div First(d)) % d.values)
      /\ Field(x, d) = d.low * ((x \div First(d)) % d.values)
  BY <1>2, FieldReads
<1> QED BY <1>1, <1>4, <1>8, <1>9 DEF DigitOf

-----------------------------------------------------------------------------
(* The headers *)

LEMMA ReadReaches ==
  ASSUME NEW a \in Addrs, NEW p \in 0 .. 255, NEW n \in 1 .. MaxWords
  PROVE  Decoded(p, ReadHeader(a, n)).addr = a
<1>1. n \in Nat /\ 1 =< n /\ n =< 128
  BY RegConstantsOK
<1>2. 2 * n \in 2 .. 256 /\ (2 * n) % 2 = 0
  BY <1>1
<1>3. 2 * n \in Sizes /\ TRUE \in BOOLEAN
  BY <1>2 DEF Sizes
<1>4. Decoded(p, Header(a, TRUE, 2 * n)) = [addr |-> a, read |-> TRUE, words |-> (2 * n) \div 2]
  BY <1>3, HeaderReachesRegister
<1>5. ReadHeader(a, n) = Header(a, TRUE, 2 * n)
  BY DEF ReadHeader
<1>6. [addr |-> a, read |-> TRUE, words |-> (2 * n) \div 2].addr = a
  OBVIOUS
<1> QED BY <1>4, <1>5, <1>6, Zenon

\* Headers are words, and what they select is a page.
LEMMA HeaderWords ==
  ASSUME NEW a \in Addrs, NEW size \in Sizes, NEW read \in BOOLEAN
  PROVE  /\ Header(a, read, size) \in Seq(Word) /\ Header(a, read, size)[1] \in Word
<1> DEFINE o == Offset(a)
           n == NumWords(size)
           p == IF Page(a) = 255 THEN 255 ELSE Page(a) - 1
<1>1. o \in 0 .. 127 /\ n \in 0 .. 127 /\ Page(a) \in 0 .. 255 /\ (Page(a) = 0 => o < 124)
  BY AddrParts, SizeParts
<1> HIDE DEF o, n
<1>2. CASE Page(a) = 0
  <2>1. Directed(DirectRead(o, n), read) \in Nat /\ Directed(DirectRead(o, n), read) < 65536
    BY <1>1, <1>2 DEF Directed, DirectRead
  <2>2. Directed(DirectRead(o, n), read) \in Word
    BY <2>1, WordIs
  <2>3. Header(a, read, size) = <<Directed(DirectRead(o, n), read)>>
    BY <1>2 DEF Header, o, n
  <2> QED BY <2>2, <2>3
<1>3. CASE Page(a) # 0
  <2>1. p \in Nat /\ p < 256
    BY <1>1, <1>3
  <2>2. SelectPage(p) \in Nat /\ SelectPage(p) < 65536
    BY <2>1 DEF SelectPage
  <2>3. Directed(PagedRead(o, n), read) \in Nat /\ Directed(PagedRead(o, n), read) < 65536
    BY <1>1 DEF Directed, PagedRead
  <2>4. SelectPage(p) \in Word /\ Directed(PagedRead(o, n), read) \in Word
    BY <2>2, <2>3, WordIs
  <2>5. Header(a, read, size) = <<SelectPage(p), Directed(PagedRead(o, n), read)>>
    BY <1>3 DEF Header, o, n
  <2> QED BY <2>4, <2>5
<1> QED BY <1>2, <1>3

\* The header of a write, and what comes of its words one by one.
Data(a) == [addr |-> a, read |-> FALSE, words |-> 1]
LEMMA WriteWords ==
  ASSUME NEW a \in Addrs
  PROVE  /\ WriteHeader(a) \in Seq(Word)
         /\ \/ /\ Len(WriteHeader(a)) = 1 /\ ~IsSelect(WriteHeader(a)[1])
               /\ \A p \in Nat : Access(p, WriteHeader(a)[1]) = Data(a)
            \/ /\ Len(WriteHeader(a)) = 2
               /\ IsSelect(WriteHeader(a)[1]) /\ ~IsSelect(WriteHeader(a)[2])
               /\ \A p \in Nat : Access(Selected(p, WriteHeader(a)[1]), WriteHeader(a)[2]) = Data(a)
<1>1. 2 \in Sizes /\ FALSE \in BOOLEAN /\ 2 \div 2 = 1
  BY DEF Sizes
<1>2. Of(a, FALSE, 2) = Data(a)
  BY <1>1, Zenon DEF Of, Data
<1>3. WriteHeader(a) \in Seq(Word)
  BY <1>1, HeaderWords DEF WriteHeader
<1> QED BY <1>1, <1>2, <1>3, HeaderIs, Zenon DEF WriteHeader

\* Two sequences one behind the other.
LEMMA Behind ==
  ASSUME NEW S, NEW h \in Seq(S), NEW v \in Seq(S), Len(v) = 1
  PROVE  /\ h \o v \in Seq(S) /\ Len(h \o v) = Len(h) + 1 /\ Len(h) \in Nat
         /\ \A k \in 1 .. Len(h) : (h \o v)[k] = h[k]
         /\ (h \o v)[Len(h) + 1] = v[1] /\ v[1] \in S
<1>1. Len(h) \in Nat
  OBVIOUS
<1>2. h \o v \in Seq(S) /\ Len(h \o v) = Len(h) + Len(v)
  BY ConcatProperties
<1>3. \A k \in 1 .. Len(h) + Len(v) : (h \o v)[k] = IF k <= Len(h) THEN h[k] ELSE v[k - Len(h)]
  BY ConcatProperties
<1>4. \A k \in 1 .. Len(h) : (h \o v)[k] = h[k]
  BY <1>1, <1>3
<1>5. (h \o v)[Len(h) + 1] = v[1]
  <2>1. PICK m \in Nat : m = Len(h)
    BY <1>1
  <2>2. m + 1 \in 1 .. m + 1 /\ ~(m + 1 <= m) /\ m + 1 - m = 1
    OBVIOUS
  <2>3. PICK n : n = m + 1
    OBVIOUS
  <2>4. n \in 1 .. Len(h) + Len(v) /\ ~(n <= Len(h)) /\ n - Len(h) = 1
    BY <2>1, <2>2, <2>3
  <2>5. (h \o v)[n] = IF n <= Len(h) THEN h[n] ELSE v[n - Len(h)]
    BY <1>3, <2>4, Zenon
  <2>6. (h \o v)[n] = v[1]
    BY <2>4, <2>5, Zenon
  <2> QED BY <2>1, <2>3, <2>6, Zenon
<1>6. v[1] \in S
  BY ElementOfSeq
<1> QED BY <1>1, <1>2, <1>4, <1>5, <1>6

\* The words of a write.
LEMMA FrameIs ==
  ASSUME NEW o \in Ops, Held(o), o.pc \in Writing
  PROVE  /\ Len(WriteHeader(o.reg)) \in 1 .. 2 /\ Len(Frame(o)) = Len(WriteHeader(o.reg)) + 1
         /\ \A k \in 1 .. Len(WriteHeader(o.reg)) : Frame(o)[k] = WriteHeader(o.reg)[k]
         /\ Frame(o)[Len(Frame(o))] = o.val[1] /\ o.val[1] \in Word
         /\ \A k \in 1 .. Len(Frame(o)) : Frame(o)[k] \in Word
<1>1. o.reg \in Addrs /\ o.val \in Seq(Word) /\ Len(o.val) = 1
  BY DEF Held, Ops
<1>2. PICK h \in Seq(Word) : h = WriteHeader(o.reg) /\ Len(h) \in 1 .. 2
  BY <1>1, WriteWords
<1>3. PICK v \in Seq(Word) : v = o.val /\ Len(v) = 1
  BY <1>1
<1>4. PICK f : f = h \o v
  OBVIOUS
<1>5. /\ f \in Seq(Word) /\ Len(f) = Len(h) + 1
      /\ \A k \in 1 .. Len(h) : f[k] = h[k]
      /\ f[Len(h) + 1] = v[1] /\ v[1] \in Word
  BY <1>2, <1>3, <1>4, Behind, Zenon
<1>6. \A k \in 1 .. Len(f) : f[k] \in Word
  BY <1>5
<1>7. Frame(o) = f
  BY <1>2, <1>3, <1>4 DEF Frame
<1> QED BY <1>2, <1>3, <1>5, <1>6, <1>7

LEMMA ReadWord ==
  ASSUME NEW a \in Addrs, NEW n \in 1 .. MaxWords
  PROVE  ReadHeader(a, n)[1] \in Word
<1>1. n \in Nat /\ 1 =< n /\ n =< 128
  BY RegConstantsOK
<1>2. 2 * n \in 2 .. 256 /\ (2 * n) % 2 = 0
  BY <1>1
<1>3. 2 * n \in Sizes /\ TRUE \in BOOLEAN
  BY <1>2 DEF Sizes
<1> QED BY <1>3, HeaderWords DEF ReadHeader

LEMMA SelectedPage ==
  ASSUME NEW p \in 0 .. 255, NEW w \in Word
  PROVE  Selected(p, w) \in 0 .. 255
<1>1. w \in Nat
  BY WordIs
<1>2. w % 256 \in 0 .. 255
  BY <1>1
<1> QED BY <1>2 DEF Selected

-----------------------------------------------------------------------------
(* The operations *)

LEMMA InitRight == Init => RegInv
<1> SUFFICES ASSUME Init PROVE RegInv
  OBVIOUS
<1>1. 0 \in Word
  BY WordIs
<1>2. NoOp \in Ops
  BY DEF NoOp, Ops, Pcs
<1>3. RegTypes
  <2>1. page \in 0 .. 255
    BY DEF Init
  <2>2. regs \in [Regs -> Word] /\ written \in [Regs -> Word]
    BY <1>1 DEF Init
  <2>3. /\ rwbuf \in [1 .. MaxWords -> Word] /\ buffer \in [1 .. 3 -> Word]
        /\ cmd \in [addr : Nat, read : BOOLEAN, words : Nat]
    BY <1>1 DEF Init, Idle
  <2>4. rwlen \in 0 .. LenMod - 1
    BY RegConstantsOK DEF Init
  <2>5. op \in [Users -> Ops] /\ want \in [Controls -> Nat] /\ mixed \in BOOLEAN
    BY <1>2 DEF Init
  <2> QED BY <2>1, <2>2, <2>3, <2>4, <2>5 DEF RegTypes
<1>4. OpsHeld /\ BufferRight /\ BusRight /\ DumpsRight
  BY DEF Init, OpsHeld, Held, BufferRight, BusRight, OnBus, DumpsRight, NoOp, InBuffer, Writing, Reading
<1>5. TakesRight /\ WritesLand /\ DumpKept
  BY RegConstantsOK DEF Init, TakesRight, WritesLand, DumpKept, NoOp
<1>6. ControlsHold
  <2> SUFFICES ASSUME NEW c \in Controls PROVE Field(regs[c.reg], c) = want[c]
    BY DEF ControlsHold
  <2>1. regs[c.reg] = 0 /\ want[c] = 0
    BY ControlParts DEF Init
  <2>2. Field(0, c) = c.low * ((0 \div First(c)) % c.values)
    BY FieldReads
  <2>3. 0 \div First(c) = 0 /\ 0 % c.values = 0 /\ c.low * 0 = 0
    <3>1. PICK s \in Nat, v \in Nat, l \in Nat :
            s = First(c) /\ v = c.values /\ l = c.low /\ s > 0 /\ v > 0
      BY ControlParts
    <3>2. 0 = s * 0 + 0 /\ 0 = v * 0 + 0 /\ l * 0 = 0
      BY <3>1
    <3>3. 0 \div s = 0 /\ 0 % v = 0
      BY <3>1
    <3> QED BY <3>1, <3>2, <3>3
  <2> QED BY <2>1, <2>2, <2>3
<1> QED BY <1>3, <1>4, <1>5, <1>6 DEF RegInv

\* What an operation holds that others may set off.
Same(p, o) ==
  /\ p.pc = o.pc /\ p.kind = o.kind /\ p.reg = o.reg /\ p.n = o.n /\ p.at = o.at /\ p.val = o.val
  /\ p.rest = o.rest /\ p.ctl = o.ctl
Unmoved(u) == \A w \in Users : w # u => Same(op'[w], op[w]) /\ (~op'[w].off => ~op[w].off)

\* What is in the buffer for the others, and on the bus, is as it was.
LEMMA BufferStays ==
  ASSUME RegInv, NEW u \in Users, NEW p, op'[u] = p, buffer' = buffer, Unmoved(u), InBuffer(p) = {}
  PROVE  BufferRight'
<1> SUFFICES ASSUME NEW w \in Users, ~op'[w].off, NEW k \in InBuffer(op'[w])
             PROVE  buffer'[k] = Frame(op'[w])[k]
  BY DEF BufferRight, InBuffer
<1>1. w # u
  OBVIOUS
<1>2. Same(op'[w], op[w]) /\ ~op[w].off
  BY <1>1 DEF Unmoved
<1>3. Frame(op'[w]) = Frame(op[w])
  BY <1>2 DEF Same, Frame
<1>4. InBuffer(op'[w]) = InBuffer(op[w])
  BY <1>2, <1>3 DEF Same, InBuffer
<1>5. buffer[k] = Frame(op[w])[k]
  BY <1>2, <1>4 DEF RegInv, BufferRight
<1> QED BY <1>3, <1>5

LEMMA BusStays ==
  ASSUME RegInv, NEW u \in Users, NEW p, op'[u] = p, cmd' = cmd, Unmoved(u),
         ~OnBus(op[u]), ~OnBus(p), page' = page \/ BusFree(u)
  PROVE  BusRight'
<1>1. \A w \in Users : OnBus(op'[w]) => w # u /\ OnBus(op[w])
  BY DEF Unmoved, Same, OnBus
<1>2. \A w \in Users : OnBus(op[w]) => OnBus(op'[w])
  BY DEF Unmoved, Same, OnBus
<1>3. \A v, w \in Users : OnBus(op'[v]) /\ OnBus(op'[w]) => v = w
  BY <1>1 DEF RegInv, BusRight
<1>4. (\A w \in Users : ~OnBus(op'[w])) => cmd' = Idle
  BY <1>2 DEF RegInv, BusRight
<1>5. ASSUME NEW w \in Users, OnBus(op'[w]), ~op'[w].off
      PROVE  /\ page' = page /\ OnBus(op[w]) /\ ~op[w].off
             /\ op'[w].reg = op[w].reg /\ op'[w].at = op[w].at
  BY <1>1, <1>5 DEF Unmoved, Same, BusFree
<1>6. ASSUME NEW w \in Users, OnBus(op'[w]), ~op'[w].off
      PROVE  LET o == op'[w]
                 h == WriteHeader(o.reg)
                 x == [addr |-> o.reg, read |-> FALSE, words |-> 1] IN
             IF o.at = Len(h) THEN cmd' = x ELSE cmd' = Idle /\ Access(page', h[2]) = x
  BY <1>5, <1>6 DEF RegInv, BusRight
<1> QED BY <1>3, <1>4, <1>6 DEF BusRight, OnBus

\* An operation that goes on without touching what the others use.
Quiet(o) == o \in Ops /\ Held(o) /\ InBuffer(o) = {} /\ o.pc \notin {"send", "len", "take"}

LEMMA Steady ==
  ASSUME RegInv, NEW u \in Users, NEW o, Quiet(o), op' = [op EXCEPT ![u] = o], op[u].pc # "send",
         page' \in 0 .. 255, page' = page \/ BusFree(u),
         UNCHANGED <<cmd, regs, buffer, rwbuf, rwlen, written, want, fresh, mixed>>
  PROVE  RegInv'
<1>1. \A w \in Users : op'[w] = IF w = u THEN o ELSE op[w]
  BY DEF RegInv, RegTypes
<1>2. RegTypes'
  BY DEF RegInv, RegTypes, Quiet
<1>3. OpsHeld'
  BY <1>1 DEF RegInv, OpsHeld, Quiet
<1>4. op'[u] = o /\ Unmoved(u)
  BY <1>1 DEF Unmoved, Same
<1>5. BufferRight'
  BY <1>4, BufferStays DEF Quiet
<1>6. BusRight'
  BY <1>4, BusStays DEF Quiet, OnBus
<1>7. DumpsRight'
  BY <1>1 DEF RegInv, DumpsRight, Quiet
<1>8. TakesRight'
  BY <1>1 DEF RegInv, TakesRight, Quiet
<1>9. WritesLand' /\ ControlsHold' /\ DumpKept'
  BY DEF RegInv, WritesLand, ControlsHold, DumpKept
<1> QED BY <1>2, <1>3, <1>5, <1>6, <1>7, <1>8, <1>9 DEF RegInv

LEMMA StutterRight ==
  ASSUME RegInv, UNCHANGED vars
  PROVE  RegInv'
BY DEF RegInv, vars, device, hist, RegTypes, OpsHeld, BufferRight, BusRight, BusFree, DumpsRight,
       TakesRight, WritesLand, ControlsHold, DumpKept

\* A write that begins.
LEMMA Starts ==
  ASSUME NEW o, o.pc = "fill", o.at = 0, NEW a \in Addrs, NEW v \in Word, o.reg = a, o.val = <<v>>
  PROVE  o.at < Len(Frame(o)) /\ InBuffer(o) = {} /\ Len(o.val) = 1
<1>1. PICK h \in Seq(Word) : h = WriteHeader(a) /\ Len(h) \in 1 .. 2
  BY WriteWords
<1>2. PICK w \in Seq(Word) : w = <<v>> /\ Len(w) = 1
  <2>1. <<v>> \in Seq(Word) /\ Len(<<v>>) = 1
    OBVIOUS
  <2> QED BY <2>1, Zenon
<1>3. Frame(o) = h \o w
  BY <1>1, <1>2 DEF Frame
<1>4. Len(h \o w) = Len(h) + 1
  BY <1>1, <1>2
<1>5. 0 < Len(Frame(o))
  BY <1>1, <1>3, <1>4
<1> QED BY <1>2, <1>5 DEF InBuffer

LEMMA RegWrRight ==
  ASSUME RegInv, NEW u \in Users, NEW r \in Regs, NEW v \in Vals, RegWr(u, r, v)
  PROVE  RegInv'
<1>0. PICK o : o = [NoOp EXCEPT !.pc = "fill", !.kind = "reg_wr", !.reg = r, !.val = <<v>>]
  OBVIOUS
<1>1. r \in Addrs /\ v \in Word
  BY RegConstantsOK
<1>2. o = [pc |-> "fill", kind |-> "reg_wr", reg |-> r, n |-> 0, at |-> 0, val |-> <<v>>, rest |-> <<>>,
           ctl |-> None, off |-> FALSE]
  BY <1>0 DEF NoOp
<1>3. op' = [op EXCEPT ![u] = o] /\ page' = page
  BY <1>0 DEF RegWr, Set, device
<1>4. o \in Ops
  BY <1>1, <1>2 DEF Ops, Pcs, Writing
<1>5. Quiet(o)
  BY <1>1, <1>2, <1>4, Starts DEF Quiet, Held, InBuffer, Writing, Reading
<1>6. page' \in 0 .. 255
  BY <1>3 DEF RegInv, RegTypes
<1>9. op[u].pc # "send" /\ UNCHANGED <<cmd, regs, buffer, rwbuf, rwlen, written, want, fresh, mixed>>
  BY DEF RegWr, Begin, NoOp, device, hist
<1> QED BY <1>3, <1>5, <1>6, <1>9, Steady

LEMMA CfgRecRight ==
  ASSUME RegInv, NEW u \in Users, NEW rec \in Records, CfgRec(u, rec)
  PROVE  RegInv'
<1>0. PICK o : o = [NoOp EXCEPT !.pc = NextLine(rec), !.kind = "cfgrec", !.rest = rec]
  OBVIOUS
<1>1. rec \in Seq(Lines)
  BY RegConstantsOK
<1>2. o = [pc |-> NextLine(rec), kind |-> "cfgrec", reg |-> None, n |-> 0, at |-> 0, val |-> <<>>, rest |-> rec,
           ctl |-> None, off |-> FALSE]
  BY <1>0 DEF NoOp
<1>3. op' = [op EXCEPT ![u] = o] /\ page' = page
  BY <1>0 DEF CfgRec, Set, device
<1>4. o \in Ops
  BY <1>1, <1>2 DEF Ops, Pcs, NextLine
<1>5. Quiet(o)
  BY <1>1, <1>2, <1>4 DEF Quiet, Held, InBuffer, Writing, Reading, NextLine
<1>6. page' \in 0 .. 255
  BY <1>3 DEF RegInv, RegTypes
<1>9. op[u].pc # "send" /\ UNCHANGED <<cmd, regs, buffer, rwbuf, rwlen, written, want, fresh, mixed>>
  BY DEF CfgRec, Begin, NoOp, device, hist
<1> QED BY <1>3, <1>5, <1>6, <1>9, Steady

LEMMA PutRight ==
  ASSUME RegInv, NEW u \in Users, NEW c \in Controls, NEW v \in Settings, Put(u, c, v)
  PROVE  RegInv'
<1>0. PICK o : o = [NoOp EXCEPT !.pc = "get", !.kind = "put", !.reg = c.reg, !.ctl = c, !.n = Masked(v, c)]
  OBVIOUS
<1>1. v \in Nat
  BY RegConstantsOK, WordIs
<1>2. Masked(v, c) \in Settable(c) /\ Masked(v, c) \in Nat
  <2>1. PICK l \in Nat, s \in Nat : l = c.low /\ s = c.values /\ l > 0 /\ s > 0
    BY ControlParts
  <2>2. v \div l \in Nat
    BY <1>1, <2>1, Divides
  <2>3. PICK q \in Nat : q = v \div l
    BY <2>2
  <2>4. q % s \in Nat /\ q % s < s
    BY <2>1, <2>3, Divides
  <2>5. PICK g \in Nat : g = q % s /\ g < s
    BY <2>4
  <2>6. Masked(v, c) = l * g /\ g \in 0 .. s - 1 /\ l * g \in Nat
    BY <2>1, <2>3, <2>5, Times DEF Masked, Bits
  <2> QED BY <2>1, <2>6 DEF Settable
<1>3. c.reg \in Regs /\ c.reg \in Addrs
  BY ControlParts, RegConstantsOK
<1>4. o = [pc |-> "get", kind |-> "put", reg |-> c.reg, n |-> Masked(v, c), at |-> 0, val |-> <<>>,
           rest |-> <<>>, ctl |-> c, off |-> FALSE]
  BY <1>0 DEF NoOp
<1>5. op' = [op EXCEPT ![u] = o] /\ page' = page
  BY <1>0 DEF Put, Set, device
<1>6. o \in Ops
  BY <1>2, <1>3, <1>4 DEF Ops, Pcs
<1>7. Quiet(o)
  BY <1>2, <1>3, <1>4, <1>6 DEF Quiet, Held, InBuffer, Writing, Reading
<1>8. page' \in 0 .. 255
  BY <1>5 DEF RegInv, RegTypes
<1>9. op[u].pc # "send" /\ UNCHANGED <<cmd, regs, buffer, rwbuf, rwlen, written, want, fresh, mixed>>
  BY DEF Put, Begin, NoOp, device, hist
<1> QED BY <1>5, <1>7, <1>8, <1>9, Steady

LEMMA OpAt ==
  ASSUME RegInv, NEW u \in Users
  PROVE  op[u] \in Ops /\ Held(op[u]) /\ page \in 0 .. 255
BY DEF RegInv, RegTypes, OpsHeld

LEMMA PeekWord ==
  ASSUME RegInv, NEW a
  PROVE  Peek(a) \in Word
<1>1. 0 \in Word
  BY WordIs
<1> QED BY <1>1 DEF RegInv, RegTypes, Peek

LEMMA FlagsAddr == FlagsReg \in Addrs
BY DEF FlagsReg, Addrs

\* The words a read returns are those of the registers from the one it names on.
LEMMA WordsRead ==
  ASSUME RegInv, NEW r \in Addrs, NEW n \in 1 .. MaxWords
  PROVE  /\ ReadWords(r, n) = [i \in 1 .. n |-> Peek(r + 2 * (i - 1))]
         /\ ReadWords(r, n) \in Seq(Word) /\ Len(ReadWords(r, n)) = n
<1>1. page \in 0 .. 255
  BY DEF RegInv, RegTypes
<1>2. Decoded(page, ReadHeader(r, n)).addr = r
  BY <1>1, ReadReaches
<1>3. ReadWords(r, n) = [i \in 1 .. n |-> Peek(r + 2 * (i - 1))]
  BY <1>2 DEF ReadWords
<1>4. n \in Nat
  BY RegConstantsOK
<1>5. \A a : Peek(a) \in Word
  BY PeekWord
<1>6. [i \in 1 .. n |-> Peek(r + 2 * (i - 1))] \in [1 .. n -> Word]
  BY <1>5
<1>7. PICK f : f = ReadWords(r, n)
  OBVIOUS
<1>8. f \in [1 .. n -> Word]
  BY <1>3, <1>6, <1>7
<1>9. f \in Seq(Word) /\ Len(f) = n
  BY <1>4, <1>8
<1> QED BY <1>3, <1>7, <1>9

LEMMA PageRead ==
  ASSUME RegInv, NEW u \in Users, NEW r \in Addrs, NEW n \in 1 .. MaxWords,
         AfterRead(u, r, n) \/ ReadFails(u, r, n)
  PROVE  page' \in 0 .. 255 /\ BusFree(u)
<1>1. page \in 0 .. 255
  BY DEF RegInv, RegTypes
<1>2. Selected(page, ReadHeader(r, n)[1]) \in 0 .. 255
  BY <1>1, ReadWord, SelectedPage
<1> QED BY <1>1, <1>2 DEF AfterRead, ReadFails

LEMMA NoOpQuiet == Quiet(NoOp)
<1>1. NoOp \in Ops
  BY DEF NoOp, Ops, Pcs
<1>2. NoOp.pc = "idle" /\ NoOp.at = 0
  BY DEF NoOp
<1> QED BY <1>1, <1>2 DEF Quiet, Held, InBuffer, Writing, Reading

LEMMA ReadRight ==
  ASSUME RegInv, NEW u \in Users, Read(u)
  PROVE  RegInv'
<1>1. PICK o \in Ops : o = op[u] /\ Held(o) /\ o.pc = "read"
  BY OpAt DEF Read
<1>2. o.reg \in Regs /\ o.reg \in Addrs /\ o.n \in 1 .. MaxWords /\ o.kind = "reg_rd"
  BY <1>1, RegConstantsOK DEF Held, Reading
<1>3. UNCHANGED <<cmd, regs, buffer, rwbuf, rwlen, written, want, fresh, mixed>>
  BY DEF Read, hist
<1>4. page' \in 0 .. 255 /\ BusFree(u) /\ op[u].pc # "send"
  BY <1>1, <1>2, PageRead DEF Read
<1>5. CASE op' = [op EXCEPT ![u] = NoOp]
  BY <1>3, <1>4, <1>5, NoOpQuiet, Steady
<1>6. CASE op' = [op EXCEPT ![u] = [o EXCEPT !.pc = "copy", !.val = ReadWords(o.reg, o.n),
                                             !.rest = [i \in 1 .. o.n |-> Peek(o.reg + 2 * (i - 1))]]]
  <2>1. PICK w : w = ReadWords(o.reg, o.n)
    OBVIOUS
  <2>2. w = [i \in 1 .. o.n |-> Peek(o.reg + 2 * (i - 1))] /\ w \in Seq(Word) /\ Len(w) = o.n
    BY <1>2, <2>1, WordsRead
  <2>3. PICK p : p = [o EXCEPT !.pc = "copy", !.val = w, !.rest = w]
    OBVIOUS
  <2>4. /\ p \in Ops /\ p.pc = "copy" /\ p.val = w /\ p.rest = w /\ p.kind = o.kind
        /\ p.reg = o.reg /\ p.n = o.n /\ p.at = o.at
    BY <1>1, <2>2, <2>3 DEF Ops, Pcs, Reading
  <2>5. Quiet(p)
    BY <1>1, <1>2, <2>2, <2>4 DEF Quiet, Held, InBuffer, Writing, Reading
  <2>6. op' = [op EXCEPT ![u] = p]
    BY <1>6, <2>1, <2>2, <2>3
  <2> QED BY <1>3, <1>4, <2>5, <2>6, Steady
<1> QED BY <1>1, <1>5, <1>6 DEF Read, Set

LEMMA OneWord ==
  ASSUME NEW v \in Word
  PROVE  \E q \in Seq(Word) : q = <<v>>
<1>1. <<v>> \in Seq(Word)
  OBVIOUS
<1> QED BY <1>1, Zenon

LEMMA AddrNat ==
  ASSUME NEW a \in Addrs
  PROVE  a \in Nat
<1>1. PICK p \in 0 .. 255, o \in 0 .. 127 : a = 256 * p + 2 * o
  <2>1. /\ Page(a) \in 0 .. 255 /\ Offset(a) \in 0 .. 127
        /\ a = 256 * Page(a) + 2 * Offset(a)
    BY AddrParts
  <2> QED BY <2>1, ZenonT(60)
<1> QED BY <1>1

LEMMA CfgLineRight ==
  ASSUME RegInv, NEW u \in Users, CfgLine(u)
  PROVE  RegInv'
<1>1. PICK o \in Ops : o = op[u] /\ Held(o) /\ o.pc = "line"
  BY OpAt DEF CfgLine
<1>2. o.kind = "cfgrec" /\ o.rest \in Seq(Lines) /\ o.rest # <<>>
  BY <1>1 DEF Held
<1>3. PICK line : line = o.rest[1]
  OBVIOUS
<1>4. line \in Lines /\ Tail(o.rest) \in Seq(Lines)
  BY <1>2, <1>3
<1>5. line.reg \in Addrs /\ line.val \in Word
  BY <1>4 DEF Lines
<1>6. PICK p : p = [o EXCEPT !.pc = "fill", !.reg = line.reg, !.val = <<line.val>>,
                             !.rest = Tail(o.rest)]
  OBVIOUS
<1>7. /\ p \in Ops /\ p.pc = "fill" /\ p.val = <<line.val>> /\ p.rest = Tail(o.rest)
      /\ p.kind = o.kind /\ p.reg = line.reg /\ p.at = 0
  <2>1. PICK v \in Seq(Word) : v = <<line.val>>
    BY <1>5, OneWord
  <2>2. p = [o EXCEPT !.pc = "fill", !.reg = line.reg, !.val = v, !.rest = Tail(o.rest)]
    BY <1>6, <2>1
  <2> QED BY <1>1, <1>4, <1>5, <2>1, <2>2 DEF Ops, Pcs, Writing, Held
<1>8. Quiet(p)
  BY <1>2, <1>4, <1>5, <1>7, Starts DEF Quiet, Held, InBuffer, Writing, Reading
<1>9. op' = [op EXCEPT ![u] = p]
  BY <1>1, <1>3, <1>6 DEF CfgLine, Set
<1>10. page' \in 0 .. 255 /\ page' = page /\ op[u].pc # "send"
  BY <1>1, OpAt DEF CfgLine, device
<1> QED BY <1>8, <1>9, <1>10, Steady DEF CfgLine, device, hist

LEMMA CfgRebootRight ==
  ASSUME RegInv, NEW u \in Users, CfgReboot(u)
  PROVE  RegInv'
<1>1. PICK o \in Ops : o = op[u] /\ Held(o) /\ o.pc = "reboot"
  BY OpAt DEF CfgReboot
<1>2. o.kind = "cfgrec" /\ o.rest \in Seq(Lines)
  BY <1>1 DEF Held
<1>3. AppReboot \in Word /\ FlagsReg \in Addrs
  BY WordIs, FlagsAddr DEF AppReboot
<1>4. PICK p : p = [o EXCEPT !.pc = "fill", !.kind = "restart", !.reg = FlagsReg, !.val = <<AppReboot>>]
  OBVIOUS
<1>5. /\ p \in Ops /\ p.pc = "fill" /\ p.val = <<AppReboot>> /\ p.rest = o.rest
      /\ p.kind = "restart" /\ p.reg = FlagsReg /\ p.at = 0
  <2>1. PICK v \in Seq(Word) : v = <<AppReboot>>
    BY <1>3, OneWord
  <2>2. p = [o EXCEPT !.pc = "fill", !.kind = "restart", !.reg = FlagsReg, !.val = v]
    BY <1>4, <2>1
  <2> QED BY <1>1, <1>3, <2>1, <2>2 DEF Ops, Pcs, Writing, Held
<1>6. Quiet(p)
  BY <1>2, <1>3, <1>5, Starts DEF Quiet, Held, InBuffer, Writing, Reading
<1>7. op' = [op EXCEPT ![u] = p]
  BY <1>1, <1>4 DEF CfgReboot, Set
<1>8. page' \in 0 .. 255 /\ page' = page /\ op[u].pc # "send"
  BY <1>1, OpAt DEF CfgReboot, device
<1> QED BY <1>6, <1>7, <1>8, Steady DEF CfgReboot, device, hist

LEMMA CfgPollRight ==
  ASSUME RegInv, NEW u \in Users, CfgPoll(u)
  PROVE  RegInv'
<1>1. PICK o \in Ops : o = op[u] /\ Held(o) /\ o.pc = "poll"
  BY OpAt DEF CfgPoll
<1>2. o.kind = "restart" /\ o.n \in Nat
  BY <1>1 DEF Held, Ops
<1>3. UNCHANGED <<cmd, regs, buffer, rwbuf, rwlen, written, want, fresh, mixed>>
  BY DEF CfgPoll, hist
<1>4. 1 \in 1 .. MaxWords
  BY RegConstantsOK
<1>5. page' \in 0 .. 255 /\ BusFree(u) /\ op[u].pc # "send"
  BY <1>1, <1>4, FlagsAddr, PageRead DEF CfgPoll
<1>6. CASE op' = [op EXCEPT ![u] = NoOp]
  BY <1>3, <1>5, <1>6, NoOpQuiet, Steady
<1>7. CASE op' = [op EXCEPT ![u] = [o EXCEPT !.n = @ + 1]]
  <2>1. PICK p : p = [o EXCEPT !.n = @ + 1]
    OBVIOUS
  <2>2. p \in Ops /\ p.pc = o.pc /\ p.rest = o.rest /\ p.kind = o.kind /\ p.at = o.at
    BY <1>1, <1>2, <2>1 DEF Ops
  <2>3. Quiet(p)
    BY <1>1, <1>2, <2>2 DEF Quiet, Held, InBuffer, Writing, Reading
  <2>4. op' = [op EXCEPT ![u] = p]
    BY <1>7, <2>1
  <2> QED BY <1>3, <1>5, <2>3, <2>4, Steady
<1> QED BY <1>1, <1>6, <1>7 DEF CfgPoll, Set

LEMMA PutReadsRight ==
  ASSUME RegInv, NEW u \in Users, PutReads(u)
  PROVE  RegInv'
<1>1. PICK o \in Ops : o = op[u] /\ Held(o) /\ o.pc = "get"
  BY OpAt DEF PutReads
<1>2. o.kind = "put" /\ o.ctl \in Controls /\ o.reg = o.ctl.reg /\ o.n \in Settable(o.ctl)
  BY <1>1 DEF Held
<1>3. o.reg \in Regs /\ o.reg \in Addrs
  BY <1>2, ControlParts, RegConstantsOK
<1>4. UNCHANGED <<cmd, regs, buffer, rwbuf, rwlen, written, fresh, mixed>>
  BY DEF PutReads
<1>5. 1 \in 1 .. MaxWords
  BY RegConstantsOK
<1>6. page' \in 0 .. 255 /\ BusFree(u) /\ op[u].pc # "send"
  BY <1>1, <1>3, <1>5, PageRead DEF PutReads
<1>7. PICK old : old = ReadWords(o.reg, 1)[1]
  OBVIOUS
<1>8. old = regs[o.reg] /\ old \in Word
  <2>1. ReadWords(o.reg, 1) = [i \in 1 .. 1 |-> Peek(o.reg + 2 * (i - 1))]
    BY <1>3, <1>5, WordsRead
  <2>2. o.reg \in Nat
    BY <1>3, AddrNat
  <2>3. o.reg + 2 * (1 - 1) = o.reg
    BY <2>2
  <2>4. old = Peek(o.reg)
    BY <1>7, <2>1, <2>3
  <2> QED BY <1>3, <2>4 DEF Peek, RegInv, RegTypes
<1>9. CASE op' = [op EXCEPT ![u] = NoOp] /\ want' = want
  BY <1>4, <1>6, <1>9, NoOpQuiet, Steady
<1>10. CASE /\ Field(old, o.ctl) = o.n /\ op' = [op EXCEPT ![u] = NoOp]
            /\ want' = [want EXCEPT ![o.ctl] = o.n]
  <2>1. want[o.ctl] = o.n
    BY <1>2, <1>8, <1>10 DEF RegInv, ControlsHold
  <2>2. want' = want
    BY <1>2, <1>10, <2>1 DEF RegInv, RegTypes
  <2> QED BY <1>9, <1>10, <2>2
<1>11. CASE /\ op' = [op EXCEPT ![u] = [o EXCEPT !.pc = "fill", !.val = <<Merged(old, o.ctl, o.n)>>,
                                                 !.rest = <<old>>]]
            /\ want' = want
  <2>1. PICK m \in Word : m = Merged(old, o.ctl, o.n)
    BY <1>2, <1>8, MergedWord
  <2>2. PICK v \in Seq(Word) : v = <<m>>
    BY <2>1, OneWord
  <2>3. PICK r \in Seq(Word) : r = <<old>>
    BY <1>8, OneWord
  <2>4. PICK p : p = [o EXCEPT !.pc = "fill", !.val = v, !.rest = r]
    OBVIOUS
  <2>5. /\ p \in Ops /\ p.pc = "fill" /\ p.val = <<m>> /\ p.kind = o.kind /\ p.reg = o.reg
        /\ p.ctl = o.ctl /\ p.n = o.n /\ p.rest = <<old>> /\ p.at = 0
    BY <1>1, <2>2, <2>3, <2>4 DEF Ops, Pcs, Writing, Held
  <2>6. p.at < Len(Frame(p)) /\ InBuffer(p) = {}
    BY <1>3, <2>1, <2>5, Starts
  <2>7. Held(p)
    BY <1>2, <1>3, <1>8, <2>1, <2>3, <2>5, <2>6 DEF Held, Writing, Reading
  <2>8. Quiet(p)
    BY <2>5, <2>6, <2>7 DEF Quiet
  <2>9. op' = [op EXCEPT ![u] = p]
    BY <1>11, <2>1, <2>2, <2>3, <2>4
  <2> QED BY <1>4, <1>6, <1>11, <2>8, <2>9, Steady
<1> QED BY <1>1, <1>7, <1>9, <1>10, <1>11 DEF PutReads, Set

\* The operations of the others, some of which are off from now on.
Marks(u, p, S) ==
  op' = [w \in Users |-> IF w = u THEN p ELSE IF w \in S THEN [op[w] EXCEPT !.off = TRUE] ELSE op[w]]

LEMMA OthersStay ==
  ASSUME RegInv, NEW u \in Users, NEW p \in Ops, Held(p), NEW S, Marks(u, p, S)
  PROVE  /\ op' \in [Users -> Ops] /\ OpsHeld' /\ op'[u] = p
         /\ Unmoved(u) /\ \A w \in Users : w # u /\ w \in S => op'[w].off
<1>1. \A w \in Users : op[w] \in Ops /\ Held(op[w])
  BY OpAt
<1>2. ASSUME NEW w \in Users, w # u
      PROVE  /\ op'[w] \in Ops /\ Held(op'[w]) /\ Same(op'[w], op[w])
             /\ (w \in S => op'[w].off) /\ (~op'[w].off => ~op[w].off)
  <2>1. PICK o \in Ops : o = op[w] /\ Held(o)
    BY <1>1
  <2>2. PICK q : q = [o EXCEPT !.off = TRUE]
    OBVIOUS
  <2>3. q \in Ops /\ Same(q, o) /\ q.off
    BY <2>1, <2>2 DEF Ops, Same
  <2>4. Held(q)
    <3>1. Frame(q) = Frame(o)
      BY <2>3 DEF Same, Frame
    <3> QED BY <2>1, <2>3, <3>1 DEF Held, Same
  <2>5. op'[w] = IF w \in S THEN q ELSE o
    BY <1>2, <2>1, <2>2 DEF Marks
  <2>6. Same(o, o)
    BY DEF Same
  <2> QED BY <2>1, <2>3, <2>4, <2>5, <2>6
<1>3. op'[u] = p
  BY DEF Marks
<1>4. op' \in [Users -> Ops]
  <2>1. op' = [w \in Users |-> op'[w]]
    BY DEF Marks
  <2>2. \A w \in Users : op'[w] \in Ops
    BY <1>2, <1>3
  <2> QED BY <2>1, <2>2
<1>5. OpsHeld'
  BY <1>2, <1>3 DEF OpsHeld
<1> QED BY <1>2, <1>3, <1>4, <1>5 DEF Unmoved

\* The place in a frame of two words or three.
LEMMA Places ==
  ASSUME NEW a \in 0 .. 2, NEW m \in 1 .. 2, a < m + 1
  PROVE  /\ a + 1 \in 1 .. m + 1 /\ a + 1 \in 1 .. 3 /\ m + 1 \in 1 .. 3 /\ a + 1 <= m + 1
         /\ a + 1 # m + 1 => a + 1 \in 0 .. 2 /\ a + 1 < m + 1 /\ (a + 1 = m \/ a + 1 < m)
         /\ a + 1 > 0 /\ a + 1 > a
         /\ \A j \in 1 .. a + 1 : j # a + 1 => j \in 1 .. a
OBVIOUS

\* A word of a write goes into the buffer.
LEMMA FillRight ==
  ASSUME RegInv, NEW u \in Users, Fill(u)
  PROVE  RegInv'
<1>1. PICK o \in Ops : o = op[u] /\ Held(o) /\ o.pc = "fill"
  BY OpAt DEF Fill
<1>2. PICK k, l \in 1 .. 3 : /\ k = o.at + 1 /\ l = Len(Frame(o)) /\ k <= l
                             /\ Frame(o)[k] \in Word
                             /\ k # l => k \in 0 .. 2 /\ k < l
                             /\ \A j \in 1 .. k : j # k => j \in 1 .. o.at
  <2>1. /\ Len(WriteHeader(o.reg)) \in 1 .. 2 /\ Len(Frame(o)) = Len(WriteHeader(o.reg)) + 1
        /\ \A i \in 1 .. Len(Frame(o)) : Frame(o)[i] \in Word
    BY <1>1, FrameIs DEF Writing
  <2>2. o.at \in 0 .. 2 /\ o.at < Len(Frame(o))
    BY <1>1 DEF Held, Writing, Ops
  <2>3. PICK m \in 1 .. 2 : m = Len(WriteHeader(o.reg))
    BY <2>1
  <2>4. PICK a \in 0 .. 2 : a = o.at
    BY <2>2
  <2>5. Len(Frame(o)) = m + 1 /\ a < m + 1
    BY <2>1, <2>2, <2>3, <2>4
  <2>6. /\ a + 1 \in 1 .. 3 /\ m + 1 \in 1 .. 3 /\ a + 1 <= m + 1 /\ a + 1 \in 1 .. m + 1
        /\ a + 1 # m + 1 => a + 1 \in 0 .. 2 /\ a + 1 < m + 1
        /\ a + 1 > 0 /\ a + 1 > a
        /\ \A j \in 1 .. a + 1 : j # a + 1 => j \in 1 .. a
    BY <2>5, Places
  <2>7. PICK k \in 1 .. 3, l \in 1 .. 3 : k = a + 1 /\ l = m + 1
    BY <2>6
  <2> QED BY <2>1, <2>4, <2>5, <2>6, <2>7, Zenon
<1>3. PICK p : p = IF k = l THEN [o EXCEPT !.pc = "send", !.at = 0] ELSE [o EXCEPT !.at = k]
  OBVIOUS
<1>4. /\ p \in Ops /\ p.kind = o.kind /\ p.reg = o.reg /\ p.n = o.n /\ p.val = o.val
      /\ p.rest = o.rest /\ p.ctl = o.ctl /\ p.off = o.off
      /\ k = l => p.pc = "send" /\ p.at = 0
      /\ k # l => p.pc = "fill" /\ p.at = k
  <2>1. CASE k = l
    <3>1. p = [o EXCEPT !.pc = "send", !.at = 0]
      BY <1>3, <2>1
    <3>2. 0 \in 0 .. 2
      OBVIOUS
    <3> QED BY <1>1, <2>1, <3>1, <3>2 DEF Ops, Pcs, Writing
  <2>2. CASE k # l
    <3>1. k \in 0 .. 2
      BY <1>2, <2>2, Zenon
    <3> QED BY <1>1, <1>3, <2>2, <3>1 DEF Ops, Pcs, Writing
  <2> QED BY <2>1, <2>2
<1>5. Frame(p) = Frame(o)
  BY <1>4 DEF Frame
<1>6. Held(p) /\ ~OnBus(p)
  <2>1. p.pc \in Writing /\ o.pc \in Writing /\ p.at < Len(Frame(p))
    BY <1>1, <1>2, <1>4, <1>5 DEF Writing
  <2>2. Held(p)
    BY <1>1, <1>4, <2>1 DEF Held, Writing, Reading
  <2> QED BY <1>4, <2>2 DEF OnBus
<1> DEFINE S == {w \in Users : k \in InBuffer(op[w]) /\ Frame(o)[k] # buffer[k]}
<1>7. Marks(u, p, S)
  BY <1>1, <1>2, <1>3 DEF Fill, Marks
<1>8. /\ op' \in [Users -> Ops] /\ OpsHeld' /\ op'[u] = p
      /\ Unmoved(u) /\ \A w \in Users : w # u /\ w \in S => op'[w].off
  BY <1>4, <1>6, <1>7, OthersStay
<1>9. buffer' = [buffer EXCEPT ![k] = Frame(o)[k]]
  BY <1>1, <1>2 DEF Fill
<1>10. buffer' \in [1 .. 3 -> Word] /\ buffer \in [1 .. 3 -> Word]
  BY <1>2, <1>9 DEF RegInv, RegTypes
<1>11. RegTypes'
  BY <1>8, <1>10 DEF RegInv, RegTypes, Fill, device, hist
<1>12. BufferRight'
  <2> SUFFICES ASSUME NEW w \in Users, ~op'[w].off, NEW j \in InBuffer(op'[w])
               PROVE  buffer'[j] = Frame(op'[w])[j]
    BY DEF BufferRight
  <2>1. CASE w = u
    <3>1. j \in 1 .. k
      <4>1. InBuffer(p) = 1 .. k
        BY <1>2, <1>4, <1>5 DEF InBuffer
      <4> QED BY <1>8, <2>1, <4>1
    <3>2. ~o.off /\ Frame(op'[w]) = Frame(o)
      BY <1>4, <1>5, <1>8, <2>1
    <3>3. CASE j = k
      BY <1>2, <1>9, <1>10, <3>2, <3>3
    <3>4. CASE j # k
      <4>1. j \in 1 .. o.at
        BY <1>2, <3>1, <3>4, Zenon
      <4>2. j \in InBuffer(op[u]) /\ ~op[u].off
        BY <1>1, <3>2, <4>1 DEF InBuffer
      <4>3. buffer[j] = Frame(o)[j]
        BY <1>1, <4>2 DEF RegInv, BufferRight
      <4>4. buffer'[j] = buffer[j]
        BY <1>9, <1>10, <3>4
      <4> QED BY <3>2, <4>3, <4>4
    <3> QED BY <3>3, <3>4
  <2>2. CASE w # u
    <3>1. Same(op'[w], op[w]) /\ ~op[w].off /\ w \notin S
      BY <1>8, <2>2 DEF Unmoved
    <3>2. Frame(op'[w]) = Frame(op[w])
      BY <3>1 DEF Same, Frame
    <3>3. InBuffer(op'[w]) = InBuffer(op[w])
      BY <3>1, <3>2 DEF Same, InBuffer
    <3>4. buffer[j] = Frame(op[w])[j]
      BY <3>1, <3>3 DEF RegInv, BufferRight
    <3>5. j = k => Frame(o)[k] = buffer[k]
      BY <3>1, <3>3
    <3>6. buffer'[j] = buffer[j]
      BY <1>2, <1>9, <1>10, <3>5
    <3> QED BY <3>2, <3>4, <3>6
  <2> QED BY <2>1, <2>2
<1>13. BusRight'
  <2>1. cmd' = cmd /\ page' = page /\ ~OnBus(op[u])
    BY <1>1 DEF Fill, device, OnBus
  <2> QED BY <1>6, <1>8, <2>1, BusStays
<1>14. DumpsRight'
  BY <1>4, <1>8 DEF RegInv, DumpsRight, Same, Unmoved, Fill
<1>15. TakesRight'
  BY <1>4, <1>8 DEF RegInv, TakesRight, Same, Unmoved, Fill, hist
<1>16. WritesLand' /\ ControlsHold' /\ DumpKept'
  BY DEF RegInv, WritesLand, ControlsHold, DumpKept, Fill, device, hist
<1> QED BY <1>8, <1>11, <1>12, <1>13, <1>14, <1>15, <1>16 DEF RegInv

LEMMA TakesStay ==
  ASSUME RegInv, NEW u \in Users, NEW p, op'[u] = p, mixed' = mixed, rwlen' = rwlen,
         Unmoved(u), p.pc # "take"
  PROVE  TakesRight'
BY DEF RegInv, TakesRight, Same, Unmoved

LEMMA Dumpless ==
  ASSUME RegInv, NEW u \in Users, NEW p, op'[u] = p, p.pc # "len",
         Unmoved(u), \A w \in Users : w # u /\ Asking(w) => op'[w].off
  PROVE  DumpsRight'
<1>1. \A w \in Users : op[w].pc = "len" => Asking(w)
  BY OpAt DEF Held, Reading, Asking
<1> QED BY <1>1 DEF DumpsRight, Same, Unmoved

LEMMA RegRdRight ==
  ASSUME RegInv, NEW u \in Users, NEW r \in Regs, NEW n \in 1 .. MaxWords, RegRd(u, r, n)
  PROVE  RegInv'
<1>1. PICK p : p = [NoOp EXCEPT !.pc = "read", !.kind = "reg_rd", !.reg = r, !.n = n]
  OBVIOUS
<1>2. p = [pc |-> "read", kind |-> "reg_rd", reg |-> r, n |-> n, at |-> 0, val |-> <<>>, rest |-> <<>>,
           ctl |-> None, off |-> FALSE]
  BY <1>1 DEF NoOp
<1>3. r \in Addrs /\ n \in Nat
  BY RegConstantsOK
<1>4. p \in Ops /\ p.pc = "read" /\ p.kind = "reg_rd"
  BY <1>2, <1>3 DEF Ops, Pcs, Reading
<1>5. Held(p)
  BY <1>2 DEF Held, Writing, Reading
<1>6. UNCHANGED <<page, cmd, regs, buffer, rwlen, written, want, mixed>> /\ fresh' = None
  BY DEF RegRd, device
<1>7. Marks(u, p, {w \in Users : Asking(w)})
  BY <1>1 DEF RegRd, Scrambled, Marks
<1>8. /\ op' \in [Users -> Ops] /\ OpsHeld' /\ op'[u] = p
      /\ Unmoved(u) /\ \A w \in Users : w # u /\ Asking(w) => op'[w].off
  BY <1>4, <1>5, <1>7, OthersStay
<1>9. RegTypes'
  <2>1. 0 \in Word
    BY WordIs
  <2>2. rwbuf' \in [1 .. MaxWords -> Word]
    BY <2>1 DEF RegRd, RegInv, RegTypes
  <2> QED BY <1>6, <1>8, <2>2 DEF RegInv, RegTypes
<1>10. BufferRight' /\ BusRight'
  <2>1. op[u].pc = "idle"
    BY DEF RegRd, Begin, NoOp
  <2>2. InBuffer(p) = {} /\ ~OnBus(p) /\ ~OnBus(op[u])
    BY <1>4, <2>1 DEF InBuffer, OnBus
  <2> QED BY <1>6, <1>8, <2>2, BufferStays, BusStays
<1>12. DumpsRight'
  BY <1>4, <1>8, Dumpless
<1>13. TakesRight'
  BY <1>4, <1>6, <1>8, TakesStay
<1>14. WritesLand' /\ ControlsHold' /\ DumpKept'
  BY <1>6 DEF RegInv, WritesLand, ControlsHold, DumpKept
<1> QED BY <1>8, <1>9, <1>10, <1>12, <1>13, <1>14 DEF RegInv

LEMMA CopyOutRight ==
  ASSUME RegInv, NEW u \in Users, CopyOut(u)
  PROVE  RegInv'
<1>1. PICK o \in Ops : o = op[u] /\ Held(o) /\ o.pc = "copy"
  BY OpAt DEF CopyOut
<1>2. /\ o.kind = "reg_rd" /\ o.n \in 1 .. MaxWords /\ o.val = o.rest
      /\ o.rest \in Seq(Word) /\ Len(o.rest) = o.n
  BY <1>1 DEF Held, Reading
<1>3. PICK p : p = [o EXCEPT !.pc = "len"]
  OBVIOUS
<1>4. /\ p \in Ops /\ p.pc = "len" /\ p.kind = o.kind /\ p.reg = o.reg /\ p.n = o.n
      /\ p.val = o.val /\ p.rest = o.rest /\ p.ctl = o.ctl /\ p.off = o.off /\ p.at = o.at
  BY <1>1, <1>3 DEF Ops, Pcs, Reading
<1>5. Held(p)
  BY <1>1, <1>2, <1>4 DEF Held, Writing, Reading
<1>6. UNCHANGED <<page, cmd, regs, buffer, rwlen, written, want, mixed>> /\ fresh' = None
  BY DEF CopyOut, device
<1>7. Marks(u, p, {w \in Users : Asking(w)})
  BY <1>1, <1>3 DEF CopyOut, Scrambled, Marks
<1>8. /\ op' \in [Users -> Ops] /\ OpsHeld' /\ op'[u] = p
      /\ Unmoved(u) /\ \A w \in Users : w # u /\ Asking(w) => op'[w].off
  BY <1>4, <1>5, <1>7, OthersStay
<1>9. rwbuf' = [i \in 1 .. MaxWords |-> IF i <= o.n THEN o.val[i] ELSE rwbuf[i]]
  BY <1>1 DEF CopyOut, Copied
<1>10. RegTypes'
  <2>1. \A i \in 1 .. MaxWords : i <= o.n => o.val[i] \in Word
    BY <1>2, RegConstantsOK
  <2>2. rwbuf' \in [1 .. MaxWords -> Word]
    BY <1>9, <2>1 DEF RegInv, RegTypes
  <2> QED BY <1>6, <1>8, <2>2 DEF RegInv, RegTypes
<1>11. BufferRight' /\ BusRight'
  BY <1>4, <1>6, <1>8, BufferStays, BusStays DEF InBuffer, OnBus, RegRd, CopyOut, Begin, NoOp
<1>13. DumpsRight'
  <2> SUFFICES ASSUME NEW w \in Users, op'[w].pc = "len", ~op'[w].off, NEW i \in 1 .. op'[w].n
               PROVE  rwbuf'[i] = op'[w].rest[i]
    BY DEF DumpsRight
  <2>1. w = u
    BY <1>8, OpAt DEF Unmoved, Same, Held, Reading, Asking
  <2>2. i \in 1 .. MaxWords /\ i <= o.n
    BY <1>2, <1>4, <1>8, <2>1, RegConstantsOK
  <2> QED BY <1>2, <1>4, <1>8, <1>9, <2>1, <2>2
<1>14. TakesRight'
  BY <1>4, <1>6, <1>8, TakesStay
<1>15. WritesLand' /\ ControlsHold' /\ DumpKept'
  BY <1>6 DEF RegInv, WritesLand, ControlsHold, DumpKept
<1> QED BY <1>8, <1>10, <1>11, <1>13, <1>14, <1>15 DEF RegInv

\* What the others are doing when one user's place changes.
LEMMA OneMoves ==
  ASSUME RegInv, NEW u \in Users, NEW p \in Ops, Held(p), op' = [op EXCEPT ![u] = p]
  PROVE  /\ op' \in [Users -> Ops] /\ OpsHeld' /\ op'[u] = p
         /\ Unmoved(u) /\ \A w \in Users : w # u => op'[w] = op[w]
<1>1. /\ op' \in [Users -> Ops] /\ op'[u] = p
      /\ \A w \in Users : w # u => op'[w] = op[w]
  BY DEF RegInv, RegTypes
<1>2. OpsHeld'
  BY <1>1 DEF RegInv, OpsHeld
<1> QED BY <1>1, <1>2 DEF Unmoved, Same

LEMMA SetLenRight ==
  ASSUME RegInv, NEW u \in Users, SetLen(u)
  PROVE  RegInv'
<1>1. PICK o \in Ops : o = op[u] /\ Held(o) /\ o.pc = "len"
  BY OpAt DEF SetLen
<1>2. o.n \in 1 .. MaxWords /\ o.rest \in Seq(Word) /\ Len(o.rest) = o.n
  BY <1>1 DEF Held, Reading
<1>3. NoOp \in Ops /\ Held(NoOp) /\ NoOp.pc = "idle"
  BY NoOpQuiet DEF Quiet, NoOp
<1>4. /\ op' \in [Users -> Ops] /\ OpsHeld' /\ op'[u] = NoOp
      /\ Unmoved(u) /\ \A w \in Users : w # u => op'[w] = op[w]
  BY <1>3, OneMoves DEF SetLen, Set
<1>5. /\ UNCHANGED <<page, cmd, regs, buffer, rwbuf, written, want>>
      /\ rwlen' = o.n /\ mixed' = Taking(u)
  BY <1>1 DEF SetLen, device
<1>6. RegTypes'
  <2>1. rwlen' \in 0 .. LenMod - 1
    BY <1>2, <1>5, RegConstantsOK
  <2>2. mixed' \in BOOLEAN
    BY <1>5 DEF Taking
  <2> QED BY <1>4, <1>5, <2>1, <2>2 DEF RegInv, RegTypes
<1>7. BufferRight' /\ BusRight'
  BY <1>1, <1>3, <1>4, <1>5, BufferStays, BusStays DEF InBuffer, OnBus, SetLen, Dump, Begin, NoOp, Take
<1>9. DumpsRight'
  BY <1>3, <1>4, <1>5 DEF RegInv, DumpsRight
<1>10. TakesRight'
  BY <1>2, <1>3, <1>4, <1>5, RegConstantsOK DEF TakesRight, Taking
<1>11. WritesLand' /\ ControlsHold'
  BY <1>5 DEF RegInv, WritesLand, ControlsHold
<1>12. DumpKept'
  <2> SUFFICES ASSUME fresh' # None
               PROVE  rwlen' = Len(fresh') /\ \A i \in 1 .. rwlen' : rwbuf'[i] = fresh'[i]
    BY DEF DumpKept
  <2>1. ~o.off /\ fresh' = o.rest
    BY <1>1 DEF SetLen, device
  <2>2. \A i \in 1 .. o.n : rwbuf[i] = o.rest[i]
    BY <1>1, <2>1 DEF RegInv, DumpsRight
  <2> QED BY <1>2, <1>5, <2>1, <2>2
<1> QED BY <1>4, <1>6, <1>7, <1>9, <1>10, <1>11, <1>12 DEF RegInv

LEMMA DumpRight ==
  ASSUME RegInv, NEW u \in Users, NEW size \in 1 .. MaxWords + 1, Dump(u, size)
  PROVE  RegInv'
<1>1. PICK n : n = Taken(size)
  OBVIOUS
<1>2. n \in Nat /\ n <= rwlen /\ n < LenMod
  BY <1>1, RegConstantsOK DEF Taken, RegInv, RegTypes
<1>3. PICK p : p = [NoOp EXCEPT !.pc = "take", !.kind = "dump", !.n = n]
  OBVIOUS
<1>4. p = [pc |-> "take", kind |-> "dump", reg |-> None, n |-> n, at |-> 0, val |-> <<>>, rest |-> <<>>,
           ctl |-> None, off |-> FALSE]
  BY <1>3 DEF NoOp
<1>5. p \in Ops /\ p.pc = "take" /\ p.n = n
  BY <1>2, <1>4 DEF Ops, Pcs
<1>6. Held(p)
  BY <1>2, <1>4 DEF Held, Writing, Reading
<1>7. /\ op' \in [Users -> Ops] /\ OpsHeld' /\ op'[u] = p
      /\ Unmoved(u) /\ \A w \in Users : w # u => op'[w] = op[w]
  BY <1>1, <1>3, <1>5, <1>6, OneMoves DEF Dump, Set
<1>8. /\ UNCHANGED <<page, cmd, regs, buffer, rwbuf, rwlen, written, want, fresh>>
      /\ mixed' = (mixed \/ Taking(u))
  BY DEF Dump, device
<1>9. RegTypes'
  BY <1>7, <1>8 DEF RegInv, RegTypes
<1>10. BufferRight' /\ BusRight'
  BY <1>5, <1>7, <1>8, BufferStays, BusStays DEF InBuffer, OnBus, SetLen, Dump, Begin, NoOp, Take
<1>12. DumpsRight'
  BY <1>5, <1>7, <1>8 DEF RegInv, DumpsRight
<1>13. TakesRight'
  BY <1>2, <1>5, <1>7, <1>8 DEF RegInv, TakesRight, Taking
<1>14. WritesLand' /\ ControlsHold' /\ DumpKept'
  BY <1>8 DEF RegInv, WritesLand, ControlsHold, DumpKept
<1> QED BY <1>7, <1>9, <1>10, <1>12, <1>13, <1>14 DEF RegInv

\* What is left of a dump, and that it is less by what was taken when there is that much.
LEMMA LeftIs ==
  ASSUME RegInv, NEW n \in Nat, n < LenMod
  PROVE  /\ Left(n) \in 0 .. LenMod - 1
         /\ n <= rwlen => Left(n) <= rwlen
<1>1. PICK a \in Nat : a = rwlen + LenMod - n
  BY RegConstantsOK DEF RegInv, RegTypes
<1>2. LenMod \in Nat /\ LenMod > 0 /\ rwlen \in Nat /\ rwlen < LenMod
  BY RegConstantsOK DEF RegInv, RegTypes
<1>3. a % LenMod \in Nat /\ a % LenMod < LenMod
  BY <1>2, Divides
<1>4. n <= rwlen => a % LenMod = rwlen - n
  <2> SUFFICES ASSUME n <= rwlen PROVE a % LenMod = rwlen - n
    OBVIOUS
  <2>1. PICK r \in Nat : r = rwlen - n /\ r < LenMod
    BY <1>2
  <2>2. a = LenMod * 1 + r
    BY <1>1, <1>2, <2>1
  <2> QED BY <1>2, <2>1, <2>2, Quotient
<1> QED BY <1>1, <1>2, <1>3, <1>4 DEF Left

LEMMA TakeRight ==
  ASSUME RegInv, NEW u \in Users, Take(u)
  PROVE  RegInv'
<1>1. PICK o \in Ops : o = op[u] /\ Held(o) /\ o.pc = "take"
  BY OpAt DEF Take
<1>2. o.n \in Nat /\ o.n < LenMod
  BY <1>1 DEF Held, Ops
<1>3. NoOp \in Ops /\ Held(NoOp) /\ NoOp.pc = "idle"
  BY NoOpQuiet DEF Quiet, NoOp
<1>4. /\ op' \in [Users -> Ops] /\ OpsHeld' /\ op'[u] = NoOp
      /\ Unmoved(u) /\ \A w \in Users : w # u => op'[w] = op[w]
  BY <1>3, OneMoves DEF Take, Set
<1>5. /\ UNCHANGED <<page, cmd, regs, buffer, rwbuf, written, want, mixed>>
      /\ rwlen' = Left(o.n) /\ fresh' = None
  BY <1>1 DEF Take, device
<1>6. rwlen' \in 0 .. LenMod - 1 /\ (o.n <= rwlen => rwlen' <= rwlen)
  BY <1>2, <1>5, LeftIs
<1>7. RegTypes'
  BY <1>4, <1>5, <1>6 DEF RegInv, RegTypes
<1>8. BufferRight' /\ BusRight'
  BY <1>1, <1>3, <1>4, <1>5, BufferStays, BusStays DEF InBuffer, OnBus, SetLen, Dump, Begin, NoOp, Take
<1>10. DumpsRight'
  BY <1>3, <1>4, <1>5 DEF RegInv, DumpsRight
<1>11. TakesRight'
  <2> SUFFICES ASSUME ~mixed
               PROVE  rwlen' <= MaxWords /\ \A w \in Users : op'[w].pc # "take"
    BY <1>5 DEF TakesRight
  <2>1. /\ rwlen <= MaxWords /\ o.n <= rwlen
        /\ \A w \in Users : op[w].pc = "take" => w = u
    BY <1>1 DEF RegInv, TakesRight
  <2>2. rwlen' \in Nat /\ rwlen \in Nat /\ MaxWords \in Nat
    BY <1>6, RegConstantsOK DEF RegInv, RegTypes
  <2>3. rwlen' <= MaxWords
    BY <1>6, <2>1, <2>2
  <2> QED BY <1>3, <1>4, <2>1, <2>3
<1>12. WritesLand' /\ ControlsHold' /\ DumpKept'
  BY <1>5 DEF RegInv, WritesLand, ControlsHold, DumpKept
<1> QED BY <1>4, <1>7, <1>8, <1>10, <1>11, <1>12 DEF RegInv

\* A write leaves its operation idle, or a configuration record between two of its writes.
LEMMA AfterWriteRight ==
  ASSUME NEW o \in Ops, Held(o), o.pc = "send", NEW ok
  PROVE  /\ AfterWrite(o, ok) \in Ops /\ Held(AfterWrite(o, ok))
         /\ AfterWrite(o, ok).pc \in {"idle", "line", "reboot", "poll"}
<1>1. NoOp \in Ops /\ Held(NoOp) /\ NoOp.pc = "idle"
  BY NoOpQuiet DEF Quiet, NoOp
<1>2. CASE o.kind = "cfgrec"
  <2>1. PICK p : p = [o EXCEPT !.pc = NextLine(o.rest), !.at = 0, !.off = FALSE]
    OBVIOUS
  <2>2. AfterWrite(o, ok) = p
    BY <1>2, <2>1 DEF AfterWrite
  <2>3. o.rest \in Seq(Lines)
    BY <1>2 DEF Held
  <2>4. p \in Ops /\ p.pc = NextLine(o.rest) /\ p.kind = "cfgrec" /\ p.rest = o.rest
         /\ p.at = 0
    <3>1. 0 \in 0 .. 2
      OBVIOUS
    <3> QED BY <1>2, <2>1, <3>1 DEF Ops, Pcs, NextLine
  <2>5. Held(p)
    BY <2>3, <2>4 DEF Held, Writing, Reading, NextLine
  <2> QED BY <2>2, <2>4, <2>5 DEF NextLine
<1>3. CASE o.kind = "restart" /\ ok
  <2>1. PICK p : p = [o EXCEPT !.pc = "poll", !.at = 0, !.off = FALSE]
    OBVIOUS
  <2>2. AfterWrite(o, ok) = p
    BY <1>3, <2>1 DEF AfterWrite
  <2>3. p \in Ops /\ p.pc = "poll" /\ p.kind = "restart" /\ p.at = 0
    <3>1. 0 \in 0 .. 2
      OBVIOUS
    <3> QED BY <1>3, <2>1, <3>1 DEF Ops, Pcs
  <2>4. Held(p)
    BY <2>3 DEF Held, Writing, Reading
  <2> QED BY <2>2, <2>3, <2>4
<1>4. CASE o.kind # "cfgrec" /\ ~(o.kind = "restart" /\ ok)
  BY <1>1, <1>4 DEF AfterWrite
<1> QED BY <1>2, <1>3, <1>4

LEMMA AccessType ==
  ASSUME NEW p \in 0 .. 255, NEW w \in Word
  PROVE  Access(p, w) \in [addr : Nat, read : BOOLEAN, words : Nat]
<1>1. w \in Nat /\ p \in Nat
  BY WordIs
<1>2. PICK b \in Nat : b = w % 32768
  BY <1>1, Divides
<1>3. b \div 256 \in Nat /\ b % 128 \in Nat /\ PageAddr(p) \in Nat
  BY <1>1, <1>2, Divides DEF PageAddr
<1> QED BY <1>2, <1>3 DEF Access

\* A word that is sent.
LEMMA SentType ==
  ASSUME RegInv, NEW w \in Word
  PROVE  /\ PageAfter(page, cmd, w) \in 0 .. 255
         /\ CommandAfter(page, cmd, w) \in [addr : Nat, read : BOOLEAN, words : Nat]
         /\ Stored(w) \in [Regs -> Word]
<1>1. page \in 0 .. 255 /\ cmd \in [addr : Nat, read : BOOLEAN, words : Nat] /\ regs \in [Regs -> Word]
  BY DEF RegInv, RegTypes
<1>2. PageAfter(page, cmd, w) \in 0 .. 255
  BY <1>1, SelectedPage DEF PageAfter
<1>3. CommandAfter(page, cmd, w) \in [addr : Nat, read : BOOLEAN, words : Nat]
  <2>1. CASE cmd.words > 0
    <3>1. cmd.addr + 2 \in Nat /\ cmd.words - 1 \in Nat
      BY <1>1, <2>1
    <3>2. CommandAfter(page, cmd, w) = [cmd EXCEPT !.addr = cmd.addr + 2, !.words = cmd.words - 1]
      BY <2>1 DEF CommandAfter
    <3> QED BY <1>1, <3>1, <3>2
  <2>2. CASE ~(cmd.words > 0)
    <3>1. Idle \in [addr : Nat, read : BOOLEAN, words : Nat]
      BY DEF Idle
    <3> QED BY <1>1, <2>2, <3>1, AccessType DEF CommandAfter
  <2> QED BY <2>1, <2>2
<1>4. Stored(w) \in [Regs -> Word]
  BY <1>1 DEF Stored
<1> QED BY <1>2, <1>3, <1>4

\* What the k-th word of a write does, whose header h has l words: the header makes the device
\* expect the data of its register, and the data is stored there.
OwnSent(o, k, h, l) ==
  /\ k \in 1 .. l + 1 /\ Len(Frame(o)) = l + 1 /\ l \in 1 .. 2
  /\ k = l + 1 => Stored(buffer[k]) =
       IF o.reg \in Regs THEN [regs EXCEPT ![o.reg] = o.val[1]] ELSE regs
  /\ k # l + 1 => Stored(buffer[k]) = regs
  /\ k = l => CommandAfter(page, cmd, buffer[k]) = Data(o.reg)
  /\ k < l => /\ CommandAfter(page, cmd, buffer[k]) = Idle
              /\ Access(PageAfter(page, cmd, buffer[k]), h[2]) = Data(o.reg)

\* The words of a write that is not off are its own.
LEMMA OwnWords ==
  ASSUME RegInv, NEW u \in Users, NEW o \in Ops, o = op[u], Held(o), o.pc = "send", BusFree(u),
         ~o.off, NEW k, k = o.at + 1, NEW h, h = WriteHeader(o.reg), NEW l, l = Len(h)
  PROVE  OwnSent(o, k, h, l)
<1>1. /\ l \in 1 .. 2 /\ Len(Frame(o)) = l + 1
      /\ \A i \in 1 .. l : Frame(o)[i] = h[i]
      /\ Frame(o)[l + 1] = o.val[1]
  BY FrameIs DEF Writing
<1>2. o.reg \in Addrs /\ o.at \in 0 .. 2 /\ o.at < l + 1 /\ page \in Nat
  BY <1>1 DEF Held, Writing, Ops, RegInv, RegTypes
<1>3. k \in 1 .. l + 1 /\ k \in o.at + 1 .. l + 1
  BY <1>1, <1>2
<1>4. buffer[k] = Frame(o)[k]
  <2>1. k \in InBuffer(op[u])
    BY <1>1, <1>3 DEF InBuffer
  <2> QED BY <2>1 DEF RegInv, BufferRight
<1>5. \/ l = 1 /\ ~IsSelect(h[1]) /\ Access(page, h[1]) = Data(o.reg)
      \/ /\ l = 2 /\ IsSelect(h[1]) /\ ~IsSelect(h[2])
         /\ Access(Selected(page, h[1]), h[2]) = Data(o.reg)
  BY <1>2, WriteWords, Zenon
<1>6. o.at = 0 => cmd = Idle
  <2> SUFFICES ASSUME o.at = 0 PROVE cmd = Idle
    OBVIOUS
  <2>1. \A w \in Users : ~OnBus(op[w])
    BY DEF BusFree, OnBus
  <2> QED BY <2>1 DEF RegInv, BusRight
<1>7. o.at > 0 => IF o.at = l THEN cmd = Data(o.reg) ELSE cmd = Idle /\ Access(page, h[2]) = Data(o.reg)
  BY DEF RegInv, BusRight, OnBus, Data
<1>8. Idle.words = 0 /\ Data(o.reg).words = 1 /\ ~Data(o.reg).read /\ Data(o.reg).addr = o.reg
  BY DEF Idle, Data
<1>9. CASE k = l + 1
  <2>1. cmd = Data(o.reg) /\ buffer[k] = o.val[1]
    <3>1. o.at = l /\ o.at > 0
      <4>1. PICK a \in 0 .. 2 : a = o.at
        BY <1>2
      <4>2. PICK m \in 1 .. 2 : m = l
        BY <1>1
      <4>3. a + 1 = m + 1
        BY <1>9, <4>1, <4>2
      <4>4. a = m /\ a > 0
        BY <4>3
      <4> QED BY <4>1, <4>2, <4>4
    <3> QED BY <1>1, <1>4, <1>7, <1>9, <3>1
  <2>2. cmd.words > 0 /\ ~cmd.read /\ cmd.addr = o.reg
    BY <1>8, <2>1
  <2>3. Stored(buffer[k]) = IF o.reg \in Regs THEN [regs EXCEPT ![o.reg] = o.val[1]] ELSE regs
    BY <2>1, <2>2 DEF Stored
  <2>4. k # l /\ ~(k < l)
    BY <1>1, <1>9
  <2> QED BY <1>1, <1>3, <1>9, <2>3, <2>4 DEF OwnSent
<1>10. CASE k # l + 1
  <2>1. cmd = Idle /\ buffer[k] = h[k] /\ k \in 1 .. l
    BY <1>1, <1>2, <1>3, <1>4, <1>6, <1>7, <1>10
  <2>2. Stored(buffer[k]) = regs
    BY <1>8, <2>1 DEF Stored
  <2>3. ASSUME k = l PROVE CommandAfter(page, cmd, buffer[k]) = Data(o.reg)
    <3>1. ~IsSelect(h[k]) /\ Access(page, h[k]) = Data(o.reg)
      <4>1. CASE l = 1
        BY <1>5, <2>3, <4>1
      <4>2. CASE l = 2
        <5>1. o.at > 0 /\ o.at # l
          BY <1>2, <2>3, <4>2
        <5> QED BY <1>5, <1>7, <2>3, <4>2, <5>1
      <4> QED BY <1>1, <4>1, <4>2
    <3> QED BY <1>8, <2>1, <3>1 DEF CommandAfter
  <2>4. ASSUME k < l
        PROVE  /\ CommandAfter(page, cmd, buffer[k]) = Idle
               /\ Access(PageAfter(page, cmd, buffer[k]), h[2]) = Data(o.reg)
    <3>1. k = 1 /\ l = 2
      BY <1>1, <2>1, <2>4
    <3>2. IsSelect(h[k]) /\ Access(Selected(page, h[k]), h[2]) = Data(o.reg)
      BY <1>5, <3>1
    <3> QED BY <1>8, <2>1, <3>2 DEF CommandAfter, PageAfter
  <2> QED BY <1>1, <1>3, <1>10, <2>2, <2>3, <2>4 DEF OwnSent
<1> QED BY <1>9, <1>10

\* What a word leaves in the registers, and in the history.
LEMMA HistoryRight ==
  ASSUME RegInv, NEW o \in Ops, Held(o), o.pc = "send", NEW last \in BOOLEAN,
         NEW new \in [Regs -> Word],
         ~o.off /\ last => new = IF o.reg \in Regs THEN [regs EXCEPT ![o.reg] = o.val[1]] ELSE regs,
         ~o.off /\ ~last => new = regs,
         regs' = new, written' = Wrote(o, last, new), want' = Wanted(o, last, new)
  PROVE  /\ written' \in [Regs -> Word] /\ want' \in [Controls -> Nat]
         /\ WritesLand' /\ ControlsHold'
<1>1. regs \in [Regs -> Word] /\ regs = written /\ want \in [Controls -> Nat]
  BY DEF RegInv, RegTypes, WritesLand
<1>2. written' = new
  <2>1. CASE o.off
    <3>1. written' = [r \in Regs |-> IF new[r] = regs[r] THEN written[r] ELSE new[r]]
      BY <2>1 DEF Wrote
    <3>2. written' = [r \in Regs |-> new[r]]
      BY <1>1, <3>1
    <3> QED BY <3>2
  <2>2. CASE ~o.off
    BY <1>1, <2>2 DEF Wrote
  <2> QED BY <2>1, <2>2
<1>3. ASSUME NEW c \in Controls
      PROVE  /\ c.reg \in Regs /\ Field(new[c.reg], c) \in Nat
             /\ Field(regs[c.reg], c) = want[c]
  <2>1. c.reg \in Regs
    BY ControlParts
  <2>2. new[c.reg] \in Nat
    BY <2>1, WordIs
  <2> QED BY <2>1, <2>2, FieldReads DEF RegInv, ControlsHold
<1>4. ASSUME NEW c \in Controls
      PROVE  Field(new[c.reg], c) =
               (IF Puts(o, last) /\ c = o.ctl THEN o.n
                ELSE IF new[c.reg] = regs[c.reg] \/ (Puts(o, last) /\ Current(o)) THEN want[c]
                ELSE Field(new[c.reg], c))
  <2>1. CASE new[c.reg] = regs[c.reg] /\ ~(Puts(o, last) /\ c = o.ctl)
    BY <1>3, <2>1
  <2>2. CASE ~Puts(o, last)
    BY <1>3, <2>2
  <2>3. CASE Puts(o, last)
    <3>1. /\ o.ctl \in Controls /\ o.reg = o.ctl.reg /\ o.n \in Settable(o.ctl)
          /\ o.rest \in Seq(Word) /\ Len(o.rest) = 1 /\ o.val[1] = Merged(o.rest[1], o.ctl, o.n)
      BY <2>3 DEF Held, Puts, Writing
    <3>2. o.reg \in Regs /\ o.rest[1] \in Word
      BY <1>3, <3>1
    <3>3. new = [regs EXCEPT ![o.reg] = o.val[1]]
      BY <2>3, <3>2 DEF Puts
    <3>4. new[o.reg] = Merged(o.rest[1], o.ctl, o.n)
      BY <1>1, <3>1, <3>2, <3>3
    <3>5. CASE c = o.ctl
      <4>1. Field(Merged(o.rest[1], o.ctl, o.n), o.ctl) = o.n
        BY <3>1, <3>2, FieldSet
      <4> QED BY <2>3, <3>1, <3>4, <3>5, <4>1
    <3>6. CASE c # o.ctl /\ c.reg = o.reg /\ Current(o)
      <4>1. Field(Merged(o.rest[1], o.ctl, o.n), c) = Field(o.rest[1], c)
        BY <3>1, <3>2, <3>6, FieldKept
      <4>2. Field(o.rest[1], c) = want[c]
        BY <1>3, <3>6 DEF Current
      <4> QED BY <2>3, <3>4, <3>6, <4>1, <4>2
    <3>7. CASE c # o.ctl /\ c.reg = o.reg /\ ~Current(o)
      BY <1>3, <3>7
    <3>8. CASE c.reg # o.reg
      <4>1. new[c.reg] = regs[c.reg]
        BY <1>1, <1>3, <3>3, <3>8
      <4>2. c # o.ctl
        BY <3>1, <3>8
      <4> QED BY <2>1, <4>1, <4>2
    <3> QED BY <3>5, <3>6, <3>7, <3>8
  <2> QED BY <2>2, <2>3
<1>5. want' = [c \in Controls |-> Field(new[c.reg], c)]
  <2>1. want' = [c \in Controls |->
                   IF Puts(o, last) /\ c = o.ctl THEN o.n
                   ELSE IF new[c.reg] = regs[c.reg] \/ (Puts(o, last) /\ Current(o)) THEN want[c]
                   ELSE Field(new[c.reg], c)]
    BY DEF Wanted
  <2> QED BY <1>4, <2>1
<1>6. want' \in [Controls -> Nat] /\ \A c \in Controls : Field(regs'[c.reg], c) = want'[c]
  BY <1>3, <1>5
<1> QED BY <1>2, <1>6 DEF WritesLand, ControlsHold

\* What a step of a write on the bus leaves to the other users.
LEMMA SendLeaves ==
  ASSUME RegInv, NEW u \in Users, op[u].pc = "send", BusFree(u), NEW p \in Ops, Held(p),
         op' = [op EXCEPT ![u] = p], p.pc \notin {"fill", "len", "take"},
         UNCHANGED <<buffer, rwbuf, rwlen, fresh, mixed>>,
         page' \in 0 .. 255, cmd' \in [addr : Nat, read : BOOLEAN, words : Nat],
         regs' \in [Regs -> Word], written' \in [Regs -> Word], want' \in [Controls -> Nat],
         WritesLand', ControlsHold',
         ~OnBus(p) => p.pc # "send" /\ cmd' = Idle,
         OnBus(p) => Frame(p) = Frame(op[u]) /\ p.at > op[u].at /\ p.off = op[u].off,
         OnBus(p) /\ ~p.off =>
           IF p.at = Len(WriteHeader(p.reg)) THEN cmd' = Data(p.reg)
           ELSE cmd' = Idle /\ Access(page', WriteHeader(p.reg)[2]) = Data(p.reg)
  PROVE  RegInv'
<1>1. /\ op' \in [Users -> Ops] /\ OpsHeld' /\ op'[u] = p
      /\ Unmoved(u) /\ \A w \in Users : w # u => op'[w] = op[w]
  BY OneMoves
<1>2. RegTypes'
  BY <1>1 DEF RegInv, RegTypes
<1>3. BufferRight'
  <2> SUFFICES ASSUME NEW w \in Users, ~op'[w].off, NEW k \in InBuffer(op'[w])
               PROVE  buffer'[k] = Frame(op'[w])[k]
    BY DEF BufferRight
  <2>1. CASE w # u
    BY <1>1, <2>1 DEF RegInv, BufferRight
  <2>2. CASE w = u
    <3>1. OnBus(p) /\ ~p.off
      BY <1>1, <2>2 DEF InBuffer, OnBus
    <3>2. Len(Frame(p)) \in Nat /\ op[u].at \in Nat /\ p.at \in Nat
      <4>1. p.pc \in Writing
        BY <3>1 DEF OnBus, Writing
      <4>2. Len(Frame(p)) \in Nat
        <5>1. PICK m \in 1 .. 2 : m = Len(WriteHeader(p.reg)) /\ Len(Frame(p)) = m + 1
          BY <4>1, FrameIs
        <5> QED BY <5>1
      <4>3. op[u] \in Ops
        BY OpAt
      <4> QED BY <4>2, <4>3 DEF Ops
    <3>3. k \in InBuffer(op[u])
      <4>1. k \in p.at + 1 .. Len(Frame(p))
        BY <1>1, <2>2, <3>1 DEF InBuffer, OnBus
      <4>2. k \in op[u].at + 1 .. Len(Frame(op[u]))
        BY <3>1, <3>2, <4>1
      <4> QED BY <4>2 DEF InBuffer
    <3>4. buffer[k] = Frame(op[u])[k]
      BY <3>1, <3>3 DEF RegInv, BufferRight
    <3> QED BY <1>1, <2>2, <3>1, <3>4
  <2> QED BY <2>1, <2>2
<1>4. BusRight'
  <2>1. \A w \in Users : OnBus(op'[w]) => w = u
    BY <1>1 DEF BusFree
  <2>2. (\A w \in Users : ~OnBus(op'[w])) => cmd' = Idle
    BY <1>1
  <2>3. ASSUME NEW w \in Users, OnBus(op'[w]), ~op'[w].off
        PROVE  LET o == op'[w]
                   h == WriteHeader(o.reg)
                   x == [addr |-> o.reg, read |-> FALSE, words |-> 1] IN
               IF o.at = Len(h) THEN cmd' = x ELSE cmd' = Idle /\ Access(page', h[2]) = x
    <3>1. op'[w] = p
      BY <1>1, <2>1, <2>3
    <3> QED BY <2>3, <3>1 DEF Data
  <2> QED BY <2>1, <2>2, <2>3 DEF BusRight, OnBus
<1>5. DumpsRight'
  BY <1>1 DEF RegInv, DumpsRight
<1>6. TakesRight'
  BY <1>1, TakesStay
<1>7. DumpKept'
  BY DEF RegInv, DumpKept
<1> QED BY <1>1, <1>2, <1>3, <1>4, <1>5, <1>6, <1>7 DEF RegInv

LEMMA SendRight ==
  ASSUME RegInv, NEW u \in Users, Send(u)
  PROVE  RegInv'
<1>1. PICK o \in Ops : o = op[u] /\ Held(o) /\ o.pc = "send" /\ BusFree(u)
  BY OpAt DEF Send
<1>2. PICK k, l \in 1 .. 3 : /\ k = o.at + 1 /\ l = Len(Frame(o)) /\ k > 0 /\ k > o.at
                             /\ k # l => k \in 0 .. 2 /\ k < l
  <2>1. Len(WriteHeader(o.reg)) \in 1 .. 2 /\ Len(Frame(o)) = Len(WriteHeader(o.reg)) + 1
    BY <1>1, FrameIs DEF Writing
  <2>2. o.at \in 0 .. 2 /\ o.at < Len(Frame(o))
    BY <1>1 DEF Held, Writing, Ops
  <2>3. PICK m \in 1 .. 2 : m = Len(WriteHeader(o.reg))
    BY <2>1
  <2>4. PICK a \in 0 .. 2 : a = o.at
    BY <2>2
  <2>5. Len(Frame(o)) = m + 1 /\ a < m + 1
    BY <2>1, <2>2, <2>3, <2>4
  <2>6. /\ a + 1 \in 1 .. 3 /\ m + 1 \in 1 .. 3 /\ a + 1 <= m + 1 /\ a + 1 \in 1 .. m + 1
        /\ a + 1 # m + 1 => a + 1 \in 0 .. 2 /\ a + 1 < m + 1
        /\ a + 1 > 0 /\ a + 1 > a
        /\ \A j \in 1 .. a + 1 : j # a + 1 => j \in 1 .. a
    BY <2>5, Places
  <2>7. PICK k \in 1 .. 3, l \in 1 .. 3 : k = a + 1 /\ l = m + 1
    BY <2>6
  <2> QED BY <2>1, <2>4, <2>5, <2>6, <2>7, Zenon
<1>3. PICK w \in Word : w = buffer[k]
  BY <1>2 DEF RegInv, RegTypes
<1>4. PICK last \in BOOLEAN : last = (k = l)
  OBVIOUS
<1>5. /\ page' = PageAfter(page, cmd, w) /\ regs' = Stored(w)
      /\ cmd' = IF last THEN Idle ELSE CommandAfter(page, cmd, w)
      /\ op' = [op EXCEPT ![u] = IF last THEN AfterWrite(o, TRUE) ELSE [o EXCEPT !.at = k]]
      /\ written' = Wrote(o, last, Stored(w)) /\ want' = Wanted(o, last, Stored(w))
      /\ UNCHANGED <<buffer, rwbuf, rwlen, fresh, mixed>>
  BY <1>1, <1>2, <1>3, <1>4 DEF Send, Set
<1>6. /\ page' \in 0 .. 255 /\ Stored(w) \in [Regs -> Word]
      /\ cmd' \in [addr : Nat, read : BOOLEAN, words : Nat]
  <2>1. Idle \in [addr : Nat, read : BOOLEAN, words : Nat]
    BY DEF Idle
  <2> QED BY <1>5, <2>1, SentType
<1>7. ASSUME ~o.off
      PROVE  /\ last => Stored(w) = IF o.reg \in Regs THEN [regs EXCEPT ![o.reg] = o.val[1]] ELSE regs
             /\ ~last => /\ Stored(w) = regs
                         /\ IF k = Len(WriteHeader(o.reg)) THEN cmd' = Data(o.reg)
                            ELSE cmd' = Idle /\ Access(page', WriteHeader(o.reg)[2]) = Data(o.reg)
  <2>1. PICK h : h = WriteHeader(o.reg)
    OBVIOUS
  <2>2. PICK m : m = Len(h)
    OBVIOUS
  <2>3. /\ k \in 1 .. m + 1 /\ l = m + 1 /\ m \in 1 .. 2
        /\ k = m + 1 => Stored(w) = IF o.reg \in Regs THEN [regs EXCEPT ![o.reg] = o.val[1]] ELSE regs
        /\ k # m + 1 => Stored(w) = regs
        /\ k = m => CommandAfter(page, cmd, w) = Data(o.reg)
        /\ k < m => /\ CommandAfter(page, cmd, w) = Idle
                    /\ Access(PageAfter(page, cmd, w), h[2]) = Data(o.reg)
    <3>1. o = op[u] /\ o.pc = "send" /\ Held(o) /\ BusFree(u) /\ ~o.off /\ k = o.at + 1
      BY <1>1, <1>2, <1>7
    <3>2. /\ k \in 1 .. m + 1 /\ Len(Frame(o)) = m + 1 /\ m \in 1 .. 2
          /\ k = m + 1 => Stored(buffer[k]) =
               IF o.reg \in Regs THEN [regs EXCEPT ![o.reg] = o.val[1]] ELSE regs
          /\ k # m + 1 => Stored(buffer[k]) = regs
          /\ k = m => CommandAfter(page, cmd, buffer[k]) = Data(o.reg)
          /\ k < m => /\ CommandAfter(page, cmd, buffer[k]) = Idle
                      /\ Access(PageAfter(page, cmd, buffer[k]), h[2]) = Data(o.reg)
      <4>1. OwnSent(o, k, h, m)
        BY <2>1, <2>2, <3>1, OwnWords
      <4> QED BY <4>1 DEF OwnSent
    <3> QED BY <1>2, <1>3, <3>2, Zenon
  <2>4. last = (k = m + 1) /\ (~last => k = m \/ k < m)
    <3>1. m \in Nat /\ k \in Nat /\ k <= m + 1
      BY <2>3
    <3>2. last = (k = m + 1)
      BY <1>4, <2>3
    <3>3. k # m + 1 => k = m \/ k < m
      BY <3>1
    <3> QED BY <3>2, <3>3, Zenon
  <2> QED BY <1>5, <2>1, <2>2, <2>3, <2>4
<1>8. /\ regs' \in [Regs -> Word] /\ written' \in [Regs -> Word] /\ want' \in [Controls -> Nat]
      /\ WritesLand' /\ ControlsHold'
  BY <1>1, <1>5, <1>6, <1>7, HistoryRight
<1>9. CASE last
  <2>1. PICK p \in Ops : p = AfterWrite(o, TRUE) /\ Held(p) /\ p.pc \in {"idle", "line", "reboot", "poll"}
    BY <1>1, AfterWriteRight
  <2>2. op' = [op EXCEPT ![u] = p] /\ cmd' = Idle /\ ~OnBus(p)
    BY <1>5, <1>9, <2>1 DEF OnBus
  <2> QED BY <1>1, <1>5, <1>6, <1>8, <2>1, <2>2, SendLeaves
<1>10. CASE ~last
  <2>1. PICK p : p = [o EXCEPT !.at = k]
    OBVIOUS
  <2>2. k \in 0 .. 2 /\ k < l /\ k > 0 /\ k > o.at
    BY <1>2, <1>4, <1>10
  <2>3. /\ p \in Ops /\ p.pc = "send" /\ p.kind = o.kind /\ p.reg = o.reg /\ p.n = o.n
        /\ p.val = o.val /\ p.rest = o.rest /\ p.ctl = o.ctl /\ p.off = o.off /\ p.at = k
    BY <1>1, <2>1, <2>2 DEF Ops
  <2>4. Frame(p) = Frame(o)
    BY <2>3 DEF Frame
  <2>5. Held(p) /\ OnBus(p)
    <3>1. p.at < Len(Frame(p)) /\ OnBus(p)
      BY <1>2, <2>2, <2>3, <2>4 DEF OnBus
    <3> QED BY <1>1, <2>3, <3>1 DEF Held, Writing, Reading
  <2>6. op' = [op EXCEPT ![u] = p]
    BY <1>5, <1>10, <2>1
  <2>7. ~p.off =>
          IF p.at = Len(WriteHeader(p.reg)) THEN cmd' = Data(p.reg)
          ELSE cmd' = Idle /\ Access(page', WriteHeader(p.reg)[2]) = Data(p.reg)
    BY <1>7, <1>10, <2>3
  <2> QED BY <1>1, <1>5, <1>6, <1>8, <2>2, <2>3, <2>4, <2>5, <2>6, <2>7, SendLeaves
<1> QED BY <1>9, <1>10

LEMMA SendFailsRight ==
  ASSUME RegInv, NEW u \in Users, SendFails(u)
  PROVE  RegInv'
<1>1. PICK o \in Ops : o = op[u] /\ Held(o) /\ o.pc = "send" /\ BusFree(u)
  BY OpAt DEF SendFails
<1>2. PICK p \in Ops : p = AfterWrite(o, FALSE) /\ Held(p) /\ p.pc \in {"idle", "line", "reboot", "poll"}
  BY <1>1, AfterWriteRight
<1>3. /\ op' = [op EXCEPT ![u] = p] /\ cmd' = Idle /\ ~OnBus(p)
      /\ UNCHANGED <<page, regs, buffer, rwbuf, rwlen, written, want, fresh, mixed>>
  BY <1>1, <1>2 DEF SendFails, Set, OnBus, hist
<1>4. /\ page' \in 0 .. 255 /\ cmd' \in [addr : Nat, read : BOOLEAN, words : Nat]
      /\ regs' \in [Regs -> Word] /\ written' \in [Regs -> Word] /\ want' \in [Controls -> Nat]
      /\ WritesLand' /\ ControlsHold'
  BY <1>3 DEF RegInv, RegTypes, WritesLand, ControlsHold, Idle
<1> QED BY <1>1, <1>2, <1>3, <1>4, SendLeaves

-----------------------------------------------------------------------------
LEMMA NextRight ==
  ASSUME RegInv, [Next]_vars
  PROVE  RegInv'
<1>1. CASE UNCHANGED vars
  BY <1>1, StutterRight
<1>2. CASE Next
  <2>1. PICK u \in Users : Step(u)
    BY <1>2 DEF Next
  <2>2. CASE Fill(u) \/ Send(u) \/ SendFails(u)
    BY <2>2, FillRight, SendRight, SendFailsRight
  <2>3. CASE Read(u) \/ CopyOut(u) \/ SetLen(u) \/ Take(u)
    BY <2>3, ReadRight, CopyOutRight, SetLenRight, TakeRight
  <2>4. CASE CfgLine(u) \/ CfgReboot(u) \/ CfgPoll(u) \/ PutReads(u)
    BY <2>4, CfgLineRight, CfgRebootRight, CfgPollRight, PutReadsRight
  <2>5. CASE \E r \in Regs, v \in Vals : RegWr(u, r, v)
    BY <2>5, RegWrRight
  <2>6. CASE \E r \in Regs, n \in 1 .. MaxWords : RegRd(u, r, n)
    BY <2>6, RegRdRight
  <2>7. CASE \E n \in 1 .. MaxWords + 1 : Dump(u, n)
    BY <2>7, DumpRight
  <2>8. CASE \E rec \in Records : CfgRec(u, rec)
    BY <2>8, CfgRecRight
  <2>9. CASE \E c \in Controls, v \in Settings : Put(u, c, v)
    BY <2>9, PutRight
  <2> QED BY <2>1, <2>2, <2>3, <2>4, <2>5, <2>6, <2>7, <2>8, <2>9 DEF Step
<1> QED BY <1>1, <1>2

-----------------------------------------------------------------------------
(* Theorems *)

\* The inductive invariant holds in every reachable state: while no other write has changed a word
\* of it, the words a write has put into the buffer are its header and its data, and the command
\* under way in the device is the one for its register (internal_hbi_write fills the buffer before
\* it takes the port lock).  Of a write that is off nothing is claimed.
THEOREM RegInductive == Spec => []RegInv
<1>1. Init => RegInv
  BY InitRight
<1>2. RegInv /\ [Next]_vars => RegInv'
  BY NextRight
<1> QED BY <1>1, <1>2, PTL DEF Spec

\* Every variable keeps its type, and the device always has a page of its own selected
\* (SSL_port_rw and SSL_port_write in hbi_ssl.c).
THEOREM RegTypesRight == Spec => []TypeOK
<1>1. RegInv => TypeOK
  <2> SUFFICES ASSUME RegInv PROVE TypeOK
    OBVIOUS
  <2>1. \A u \in Users : op[u].pc \in Pcs
    BY OpAt DEF Ops
  <2> QED BY <2>1 DEF RegInv, RegTypes, TypeOK, Pcs, Writing, Reading
<1> QED BY <1>1, RegInductive, PTL

\* Each register holds what the last write that returned success wrote to it, through whatever
\* pages others select and whichever transfers fail half way (internal_hbi_write in hbi_tw.c,
\* tw_hbi_tp_frame_hdr).  Exempt are the writes of which another one changed a word in the buffer
\* before it was sent: they count as written where and what the device took them for.
THEOREM WritesAlwaysLand == Spec => []WritesLand
<1>1. RegInv => WritesLand
  BY DEF RegInv
<1> QED BY <1>1, RegInductive, PTL

\* Every control has the value it was last put to, whatever other fields its register has
\* (zl380xx_control_write in zl380xx_codec.c).  Exempt are controls that were changed by a write of
\* the whole register, by a put that had read the register before it was last written, or by a
\* write, of any register, of which another one changed a word in the buffer: they count as set to
\* what that wrote.
THEOREM ControlsAlwaysHold == Spec => []ControlsHold
<1>1. RegInv => ControlsHold
  BY DEF RegInv
<1> QED BY <1>1, RegInductive, PTL

\* A dump that nobody interferes with is the words the registers had (hbi_proc_reg_rd and
\* hbi_proc_reg_rd_dump in hbi_k.c).
THEOREM DumpsKept == Spec => []DumpKept
<1>1. RegInv => DumpKept
  BY DEF RegInv
<1> QED BY <1>1, RegInductive, PTL

\* The length of a dump wraps below zero only when its words were taken by several users, or
\* while another request was being made (hbi_proc_reg_rd_dump).
THEOREM DumpsEnd == Spec => []DumpEnds
<1>1. RegInv => DumpEnds
  BY RegConstantsOK DEF RegInv, RegTypes, TakesRight, DumpEnds
<1> QED BY <1>1, RegInductive, PTL

=============================================================================
