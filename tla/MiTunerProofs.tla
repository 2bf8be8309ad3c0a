------------------------------ MODULE MiTunerProofs ------------------------------
(***************************************************************************)
(* Proofs about the Python tool and the MiTuner server.  IInv of           *)
(* MiTunerInv is inductive; the properties follow from it.                 *)
(*                                                                         *)
(* What a recursive function computes is shown without the induction       *)
(* theorems: the numbers for which it holds have no least number missing.  *)
(***************************************************************************)
EXTENDS MiTunerInv, WellFoundedInduction, SequenceTheorems, FiniteSetTheorems, TLAPS

-----------------------------------------------------------------------------
(* Numbers. *)

Less == {p \in Nat \X Nat : p[1] < p[2]}

\* The order of the naturals is well founded: what the two loops below are counted by.
LEMMA LessWF == IsWellFoundedOn(Less, Nat)
BY NatLessThanWellFounded DEF OpToRel, Less

\* A set of numbers that is not empty has a least one.
LEMMA Least ==
  ASSUME NEW T, T \subseteq Nat, T # {}
  PROVE  \E x \in T : \A y \in T : x <= y
<1>1. PICK x \in T : \A y \in T : ~(<<y, x>> \in Less)
  BY LessWF, WFMin
<1>2. ASSUME NEW y \in T PROVE x <= y
  <2>1. y \in Nat /\ x \in Nat
    OBVIOUS
  <2>2. <<y, x>> \in Nat \X Nat /\ <<y, x>>[1] = y /\ <<y, x>>[2] = x
    BY <2>1
  <2>3. y < x => <<y, x>> \in Less
    BY <2>2 DEF Less
  <2>4. ~(y < x)
    BY <1>1, <2>3, Zenon
  <2> QED BY <2>1, <2>4
<1> QED BY <1>2, Zenon

\* Numbers that go from one to the next without a gap are all there.
LEMMA NoGap ==
  ASSUME NEW S, 0 \in S, \A n \in Nat : n \in S => n + 1 \in S
  PROVE  Nat \subseteq S
<1>1. SUFFICES ASSUME Nat \ S # {} PROVE FALSE
  OBVIOUS
<1>2. PICK x \in Nat \ S : \A y \in Nat \ S : x <= y
  BY <1>1, Least
<1>3. x # 0 /\ x - 1 \in Nat
  OBVIOUS
<1>4. x - 1 \in S
  BY <1>2, <1>3
<1> QED BY <1>3, <1>4

\* The rest of a division goes round with its number: what LeftOver counts by.
LEMMA NextRest ==
  ASSUME NEW x \in Nat, NEW B \in Nat, B > 0
  PROVE  /\ x % B \in Nat /\ x % B < B /\ (x + 1) % B \in Nat
         /\ (x + 1) % B = IF x % B = B - 1 THEN 0 ELSE (x % B) + 1
<1> DEFINE d == x \div B
           e == (x + 1) \div B
           r == x % B
           s == (x + 1) % B
<1>1. d \in Int /\ e \in Int /\ r \in Nat /\ s \in Nat /\ r < B /\ s < B
  OBVIOUS
<1>2. x = B * d + r /\ x + 1 = B * e + s
  <2>1. r = x - B * d
    OBVIOUS
  <2>2. s = x + 1 - B * e
    OBVIOUS
  <2>3. B * d \in Int /\ B * e \in Int
    BY <1>1
  <2> HIDE DEF d, e, r, s
  <2> QED BY <2>1, <2>2, <2>3
<1> HIDE DEF d, e, r, s
<1>3. PICK P \in Int, Q \in Int : P = B * d /\ Q = B * e
  BY <1>1
<1>4. d <= e
  <2>1. SUFFICES ASSUME e <= d - 1 PROVE FALSE
    BY <1>1
  <2>2. B * e <= B * (d - 1)
    BY <1>1, <2>1
  <2>3. B * (d - 1) = B * d - B
    BY <1>1
  <2> QED BY <1>1, <1>2, <1>3, <2>2, <2>3
<1>5. e <= d + 1
  <2>1. SUFFICES ASSUME d + 2 <= e PROVE FALSE
    BY <1>1
  <2>2. B * (d + 2) <= B * e
    BY <1>1, <2>1
  <2>3. B * (d + 2) = B * d + B + B
    BY <1>1
  <2> QED BY <1>1, <1>2, <1>3, <2>2, <2>3
<1>6. e = d \/ e = d + 1
  BY <1>1, <1>4, <1>5
<1>7. B * (d + 1) = B * d + B
  BY <1>1
<1>8. s = IF r = B - 1 THEN 0 ELSE r + 1
  BY <1>1, <1>2, <1>3, <1>6, <1>7
<1> QED BY <1>1, <1>8 DEF r, s

-----------------------------------------------------------------------------
(* The stream of a client. *)

IsEnds(c, e, k) == e = [n \in 0 .. k |-> IF n = 0 THEN 0 ELSE e[n - 1] + Size(c, n)]

\* The positions up to any request can be summed.
LEMMA EndsExist ==
  ASSUME NEW c, NEW k \in Nat
  PROVE  \E e : IsEnds(c, e, k)
<1> DEFINE S == {m \in Nat : \E e : IsEnds(c, e, m)}
<1>1. 0 \in S
  <2>1. IsEnds(c, [n \in 0 .. 0 |-> 0], 0)
    BY DEF IsEnds
  <2> QED BY <2>1
<1>2. ASSUME NEW m \in Nat, m \in S PROVE m + 1 \in S
  <2>1. PICK e : IsEnds(c, e, m)
    BY <1>2
  <2> DEFINE f == [n \in 0 .. m + 1 |-> IF n = m + 1 THEN e[m] + Size(c, n) ELSE e[n]]
  <2>2. \A n \in 0 .. m : f[n] = e[n]
    OBVIOUS
  <2>3. ASSUME NEW n \in 0 .. m + 1 PROVE f[n] = IF n = 0 THEN 0 ELSE f[n - 1] + Size(c, n)
    <3>1. CASE n = m + 1
      <4>1. f[n] = e[m] + Size(c, n) /\ n # 0 /\ n - 1 = m
        BY <3>1
      <4>2. f[m] = e[m]
        BY <2>2
      <4> HIDE DEF f
      <4> QED BY <4>1, <4>2
    <3>2. CASE n \in 0 .. m
      <4>1. e[n] = IF n = 0 THEN 0 ELSE e[n - 1] + Size(c, n)
        BY <2>1, <3>2 DEF IsEnds
      <4>2. n # 0 => n - 1 \in 0 .. m
        BY <3>2
      <4>3. f[n] = e[n] /\ (n # 0 => f[n - 1] = e[n - 1])
        BY <2>2, <3>2, <4>2
      <4> HIDE DEF f
      <4> QED BY <4>1, <4>3
    <3> QED BY <3>1, <3>2
  <2>4. IsEnds(c, f, m + 1)
    <3>1. f = [n \in 0 .. m + 1 |-> f[n]]
      OBVIOUS
    <3> HIDE DEF f
    <3> QED BY <2>3, <3>1 DEF IsEnds
  <2> QED BY <2>4
<1>3. Nat \subseteq S
  <2> HIDE DEF S
  <2> QED BY <1>1, <1>2, NoGap
<1> QED BY <1>3

\* A request ends where the one before it ends and its own characters after that.
LEMMA EndStep ==
  ASSUME NEW c \in Clients
  PROVE  /\ Length(c) \in Nat /\ End(c, 0) = 0
         /\ \A k \in 1 .. Length(c) : Size(c, k) \in Nat /\ Size(c, k) > 0 /\ End(c, k) = End(c, k - 1) + Size(c, k)
<1>1. Length(c) \in Nat /\ \A k \in 1 .. Length(c) : Size(c, k) \in Nat /\ Size(c, k) > 0
  BY MiTunerOK DEF Length, Size
<1>2. PICK e : IsEnds(c, e, Length(c))
  BY <1>1, EndsExist
<1>3. IsEnds(c, Ends(c), Length(c))
  BY <1>2 DEF Ends, IsEnds
<1>4. Ends(c)[0] = 0
  BY <1>1, <1>3 DEF IsEnds
<1>5. ASSUME NEW k \in 1 .. Length(c) PROVE Ends(c)[k] = Ends(c)[k - 1] + Size(c, k)
  BY <1>1, <1>3 DEF IsEnds
<1> QED BY <1>1, <1>4, <1>5 DEF End

\* Later requests end later: an end is a position, and no two requests begin at one.
LEMMA EndGrows ==
  ASSUME NEW c \in Clients
  PROVE  /\ \A k \in 0 .. Length(c) : End(c, k) \in Nat
         /\ \A k \in 0 .. Length(c) : \A j \in 0 .. k : End(c, j) <= End(c, k)
         /\ \A k \in 0 .. Length(c) : \A j \in 0 .. k : j # k => End(c, j) < End(c, k)
<1> DEFINE Good(k) == /\ End(c, k) \in Nat
                      /\ \A j \in 0 .. k : End(c, j) \in Nat /\ (j # k => End(c, j) < End(c, k))
           S == {k \in Nat : k <= Length(c) => Good(k)}
<1>1. Length(c) \in Nat /\ End(c, 0) = 0
  BY EndStep
<1>2. 0 \in S
  BY <1>1
<1>3. ASSUME NEW k \in Nat, k \in S PROVE k + 1 \in S
  <2>1. SUFFICES ASSUME k + 1 <= Length(c) PROVE Good(k + 1)
    OBVIOUS
  <2>2. Good(k)
    BY <1>1, <1>3, <2>1
  <2>3. k + 1 \in 1 .. Length(c) /\ (k + 1) - 1 = k
    BY <1>1, <2>1
  <2>4. Size(c, k + 1) \in Nat /\ Size(c, k + 1) > 0 /\ End(c, k + 1) = End(c, k) + Size(c, k + 1)
    BY <2>3, EndStep
  <2>5. End(c, k + 1) \in Nat /\ End(c, k) < End(c, k + 1)
    BY <2>2, <2>4
  <2>6. ASSUME NEW j \in 0 .. k + 1 PROVE End(c, j) \in Nat /\ (j # k + 1 => End(c, j) < End(c, k + 1))
    <3>1. CASE j = k + 1
      BY <2>5, <3>1
    <3>2. CASE j = k
      BY <2>2, <2>5, <3>2
    <3>3. CASE j \in 0 .. k /\ j # k
      BY <2>2, <2>5, <3>3
    <3> QED BY <3>1, <3>2, <3>3
  <2> QED BY <2>5, <2>6
<1>4. Nat \subseteq S
  <2> HIDE DEF S
  <2> QED BY <1>2, <1>3, NoGap
<1>5. ASSUME NEW k \in 0 .. Length(c) PROVE Good(k)
  BY <1>1, <1>4
<1>6. ASSUME NEW k \in 0 .. Length(c), NEW j \in 0 .. k PROVE End(c, j) <= End(c, k)
  BY <1>5, <1>1
<1> QED BY <1>5, <1>6

\* A header that is taken where a request ends is the next request's.
LEMMA HeaderRight ==
  ASSUME NEW c \in Clients, NEW n \in Nat, n < Length(c)
  PROVE  HeaderAt(c, End(c, n)) = Request(c, n + 1)
<1>1. Length(c) \in Nat /\ n + 1 \in 1 .. Length(c) /\ (n + 1) - 1 = n
  BY EndStep
<1>2. ASSUME NEW k \in 1 .. Length(c), End(c, k - 1) = End(c, n) PROVE k = n + 1
  <2>1. k - 1 \in 0 .. Length(c) /\ n \in 0 .. Length(c)
    BY <1>1
  <2>2. End(c, n) \in Nat /\ End(c, k - 1) \in Nat
    BY <2>1, EndGrows
  <2>3. CASE k - 1 < n
    <3>1. k - 1 \in 0 .. n /\ k - 1 # n
      BY <2>3
    <3> QED BY <1>2, <2>1, <2>2, <3>1, EndGrows
  <2>4. CASE n < k - 1
    <3>1. n \in 0 .. k - 1 /\ n # k - 1
      BY <2>4
    <3> QED BY <1>2, <2>1, <2>2, <3>1, EndGrows
  <2> QED BY <1>1, <2>3, <2>4
<1>3. (CHOOSE k \in 1 .. Length(c) : End(c, k - 1) = End(c, n)) = n + 1
  BY <1>1, <1>2
<1> QED BY <1>1, <1>3 DEF HeaderAt, Request

-----------------------------------------------------------------------------
(* The loop of LoadConfigCr2. *)

IsCr2(record, s, k) == s = [n \in 0 .. k |-> IF n = 0 THEN Cr2Start ELSE Cr2Line(s[n - 1], record[n])]

\* The loop can be followed to any line.
LEMMA Cr2Exists ==
  ASSUME NEW record, NEW k \in Nat
  PROVE  \E s : IsCr2(record, s, k)
<1> DEFINE S == {m \in Nat : \E s : IsCr2(record, s, m)}
<1>1. 0 \in S
  <2>1. IsCr2(record, [n \in 0 .. 0 |-> Cr2Start], 0)
    BY DEF IsCr2
  <2> QED BY <2>1
<1>2. ASSUME NEW m \in Nat, m \in S PROVE m + 1 \in S
  <2>1. PICK s : IsCr2(record, s, m)
    BY <1>2
  <2> DEFINE f == [n \in 0 .. m + 1 |-> IF n = m + 1 THEN Cr2Line(s[m], record[n]) ELSE s[n]]
  <2>2. \A n \in 0 .. m : f[n] = s[n]
    OBVIOUS
  <2>3. ASSUME NEW n \in 0 .. m + 1
        PROVE  f[n] = IF n = 0 THEN Cr2Start ELSE Cr2Line(f[n - 1], record[n])
    <3>1. CASE n = m + 1
      <4>1. f[n] = Cr2Line(s[m], record[n]) /\ n # 0 /\ n - 1 = m
        BY <3>1
      <4>2. f[m] = s[m]
        BY <2>2
      <4> HIDE DEF f
      <4> QED BY <4>1, <4>2
    <3>2. CASE n \in 0 .. m
      <4>1. s[n] = IF n = 0 THEN Cr2Start ELSE Cr2Line(s[n - 1], record[n])
        BY <2>1, <3>2 DEF IsCr2
      <4>2. n # 0 => n - 1 \in 0 .. m
        BY <3>2
      <4>3. f[n] = s[n] /\ (n # 0 => f[n - 1] = s[n - 1])
        BY <2>2, <3>2, <4>2
      <4> HIDE DEF f
      <4> QED BY <4>1, <4>3
    <3> QED BY <3>1, <3>2
  <2>4. IsCr2(record, f, m + 1)
    <3>1. f = [n \in 0 .. m + 1 |-> f[n]]
      OBVIOUS
    <3> HIDE DEF f
    <3> QED BY <2>3, <3>1 DEF IsCr2
  <2> QED BY <2>4
<1>3. Nat \subseteq S
  <2> HIDE DEF S
  <2> QED BY <1>1, <1>2, NoGap
<1> QED BY <1>3

\* Each pass of the loop takes one line.
LEMMA Cr2Step ==
  ASSUME NEW record \in Seq(Lines)
  PROVE  /\ Cr2(record)[0] = Cr2Start
         /\ \A n \in 1 .. Len(record) : Cr2(record)[n] = Cr2Line(Cr2(record)[n - 1], record[n])
<1>1. Len(record) \in Nat
  OBVIOUS
<1>2. PICK s : IsCr2(record, s, Len(record))
  BY <1>1, Cr2Exists
<1>3. IsCr2(record, Cr2(record), Len(record))
  BY <1>2 DEF Cr2, IsCr2
<1>4. Cr2(record)[0] = Cr2Start
  BY <1>1, <1>3 DEF IsCr2
<1>5. ASSUME NEW n \in 1 .. Len(record)
      PROVE  Cr2(record)[n] = Cr2Line(Cr2(record)[n - 1], record[n])
  BY <1>1, <1>3 DEF IsCr2
<1> QED BY <1>4, <1>5

\* Where the run of consecutive addresses that a line belongs to starts.
IsHead(record, n, m) == m \in 1 .. n /\ Starts(record, m) /\ \A k \in m + 1 .. n : ~Starts(record, k)

\* A run has one first line.
LEMMA HeadUnique ==
  ASSUME NEW record, NEW n \in Nat, NEW m, IsHead(record, n, m)
  PROVE  RunHead(record, n) = m
<1>1. ASSUME NEW x \in 1 .. n, Starts(record, x), \A k \in x + 1 .. n : ~Starts(record, k)
      PROVE  x = m
  BY <1>1 DEF IsHead
<1>2. m \in 1 .. n /\ Starts(record, m) /\ \A k \in m + 1 .. n : ~Starts(record, k)
  BY DEF IsHead
<1>3. (CHOOSE x \in 1 .. n : Starts(record, x) /\ \A k \in x + 1 .. n : ~Starts(record, k)) = m
  BY <1>1, <1>2
<1> QED BY <1>3 DEF RunHead

\* Every line belongs to a run, which goes on to the next line or ends before it.
LEMMA HeadStep ==
  ASSUME NEW record, NEW n \in Nat
  PROVE  /\ Starts(record, n + 1) => RunHead(record, n + 1) = n + 1
         /\ n # 0 => IsHead(record, n, RunHead(record, n))
         /\ n # 0 /\ ~Starts(record, n + 1) => RunHead(record, n + 1) = RunHead(record, n)
<1> DEFINE S == {k \in Nat : k # 0 => \E m : IsHead(record, k, m)}
<1>1. ASSUME NEW k \in Nat, Starts(record, k + 1) PROVE IsHead(record, k + 1, k + 1)
  BY <1>1 DEF IsHead
<1>2. ASSUME NEW k \in Nat, NEW m, ~Starts(record, k + 1), IsHead(record, k, m) PROVE IsHead(record, k + 1, m)
  <2>1. m \in 1 .. k /\ Starts(record, m) /\ \A j \in m + 1 .. k : ~Starts(record, j)
    BY <1>2 DEF IsHead
  <2>2. \A j \in m + 1 .. k + 1 : j \in m + 1 .. k \/ j = k + 1
    BY <2>1
  <2>3. \A j \in m + 1 .. k + 1 : ~Starts(record, j)
    BY <1>2, <2>1, <2>2, Zenon
  <2> QED BY <2>1, <2>3 DEF IsHead
<1>3. 0 \in S
  OBVIOUS
<1>4. ASSUME NEW k \in Nat, k \in S PROVE k + 1 \in S
  <2>1. k = 0 => Starts(record, k + 1)
    BY DEF Starts
  <2>2. k # 0 => \E m : IsHead(record, k, m)
    BY <1>4
  <2>3. \E m : IsHead(record, k + 1, m)
    <3> HIDE DEF S
    <3> QED BY <1>1, <1>2, <2>1, <2>2
  <2>4. k + 1 \in Nat
    OBVIOUS
  <2> QED BY <2>3, <2>4
<1>5. Nat \subseteq S
  <2> HIDE DEF S
  <2> QED BY <1>3, <1>4, NoGap
<1>6. n # 0 => IsHead(record, n, RunHead(record, n))
  <2>1. SUFFICES ASSUME n # 0 PROVE IsHead(record, n, RunHead(record, n))
    OBVIOUS
  <2>2. PICK m : IsHead(record, n, m)
    BY <1>5, <2>1
  <2> QED BY <2>2, HeadUnique
<1>7. Starts(record, n + 1) => RunHead(record, n + 1) = n + 1
  <2>1. n + 1 \in Nat
    OBVIOUS
  <2> QED BY <1>1, <2>1, HeadUnique
<1>8. n # 0 /\ ~Starts(record, n + 1) => RunHead(record, n + 1) = RunHead(record, n)
  <2>1. n + 1 \in Nat
    OBVIOUS
  <2> QED BY <1>2, <1>6, <2>1, HeadUnique
<1> QED BY <1>6, <1>7, <1>8

\* What the buffer keeps after a line: one more than before, until it is full or a gap comes.
LEMMA LeftStep ==
  ASSUME NEW record, NEW n \in Nat
  PROVE  LET q == LeftOver(record, n)
             r == IF Starts(record, n + 1) THEN 0 ELSE q
         IN /\ q \in Nat /\ q <= n /\ q < BlockWords
            /\ r + 1 <= BlockWords
            /\ LeftOver(record, n + 1) = IF r + 1 = BlockWords THEN 0 ELSE r + 1
<1> DEFINE q == LeftOver(record, n)
           r == IF Starts(record, n + 1) THEN 0 ELSE q
           B == BlockWords
<1>1. B \in Nat /\ B > 0
  BY LoaderOK
<1>2. n = 0 => Starts(record, n + 1)
  BY DEF Starts
<1>3. 0 % B = 0
  BY <1>1
<1>4. q \in Nat /\ q < B
  <2>1. CASE n = 0
    BY <1>1, <2>1 DEF LeftOver
  <2>2. CASE n # 0
    <3>1. n - RunHead(record, n) + 1 \in Nat
      BY <2>2, HeadStep DEF IsHead
    <3> QED BY <1>1, <2>2, <3>1, NextRest DEF LeftOver
  <2> QED BY <2>1, <2>2
<1>5. q <= n
  <2>1. CASE n = 0
    BY <1>1, <2>1 DEF LeftOver
  <2>2. CASE n # 0
    <3> DEFINE x == n - RunHead(record, n) + 1
    <3>1. x \in Nat /\ x <= n
      BY <2>2, HeadStep DEF IsHead
    <3>2. q = x % B
      BY <2>2 DEF LeftOver
    <3> HIDE DEF x
    <3>3. x % B <= x
      BY <1>1, <3>1
    <3>4. x % B \in Nat
      BY <1>1, <3>1
    <3> QED BY <3>1, <3>2, <3>3, <3>4
  <2> QED BY <2>1, <2>2
<1>6. LeftOver(record, n + 1) = IF r + 1 = B THEN 0 ELSE r + 1
  <2>1. n + 1 # 0 /\ LeftOver(record, n + 1) = ((n + 1) - RunHead(record, n + 1) + 1) % B
    BY DEF LeftOver
  <2>2. CASE Starts(record, n + 1)
    <3>1. (n + 1) - RunHead(record, n + 1) + 1 = 0 + 1
      BY <2>2, HeadStep
    <3>2. (0 + 1) % B = IF 0 % B = B - 1 THEN 0 ELSE (0 % B) + 1
      BY <1>1, NextRest
    <3> QED BY <1>1, <1>3, <2>1, <2>2, <3>1, <3>2
  <2>3. CASE ~Starts(record, n + 1)
    <3> DEFINE x == n - RunHead(record, n) + 1
    <3>1. n # 0 /\ x \in Nat
      BY <1>2, <2>3, HeadStep DEF IsHead
    <3>2. (n + 1) - RunHead(record, n + 1) + 1 = x + 1
      BY <2>3, <3>1, HeadStep DEF IsHead
    <3>3. q = x % B
      BY <3>1 DEF LeftOver
    <3> HIDE DEF x
    <3>4. (x + 1) % B = IF x % B = B - 1 THEN 0 ELSE (x % B) + 1
      BY <1>1, <3>1, NextRest
    <3> HIDE DEF q
    <3> QED BY <1>1, <1>4, <2>1, <2>3, <3>2, <3>3, <3>4
  <2> QED BY <2>2, <2>3
<1>7. r + 1 <= B
  <2> HIDE DEF q
  <2> QED BY <1>1, <1>4
<1> QED BY <1>4, <1>5, <1>6, <1>7

\* A line has an address, which is not the one a block starts from.
LEMMA LineFields ==
  ASSUME NEW line \in Lines
  PROVE  line.reg \in Nat /\ line.reg # 0
BY DEF Lines

\* The last q of n lines are in the buffer, at consecutive addresses; those before them went out.
Pending(record, n, q, s) ==
  /\ s.cur \in Nat
  /\ s.cfg = SubSeq(record, 1, n - q)
  /\ s.buf = [i \in 1 .. q |-> record[n - q + i].val]
  /\ \A i \in 1 .. q : record[n - q + i].reg = s.cur + 2 * (i - 1)

LEMMA LenOf ==
  ASSUME NEW m \in Nat, NEW f, DOMAIN f = 1 .. m, f = [i \in 1 .. m |-> f[i]]
  PROVE  Len(f) = m
OBVIOUS

\* Shipping the buffer writes the lines it holds.
LEMMA ShipPending ==
  ASSUME NEW record \in Seq(Lines), NEW n \in 0 .. Len(record), NEW q \in 0 .. n, NEW s,
         Pending(record, n, q, s)
  PROVE  Ship(s) = SubSeq(record, 1, n)
<1> DEFINE out == [i \in 1 .. q |-> [reg |-> s.cur + 2 * (i - 1), val |-> s.buf[i]]]
<1>1. Len(record) \in Nat /\ n - q \in Nat
  OBVIOUS
<1>2. Len(s.buf) = q
  BY <1>1 DEF Pending
<1>3. Ship(s) = SubSeq(record, 1, n - q) \o out
  BY <1>2 DEF Ship, Pending
<1>4. ASSUME NEW i \in 1 .. q PROVE out[i] = record[n - q + i]
  <2>1. record[n - q + i] \in Lines
    BY <1>1
  <2>2. out[i] = [reg |-> record[n - q + i].reg, val |-> record[n - q + i].val]
    BY DEF Pending
  <2> HIDE DEF out
  <2> QED BY <2>1, <2>2 DEF Lines
<1>5. out = [i \in 1 .. q |-> record[n - q + i]]
  BY <1>4
<1> HIDE DEF out
<1>6. out \in Seq(Lines) /\ Len(out) = q
  <2>1. \A i \in 1 .. q : record[n - q + i] \in Lines
    BY <1>1
  <2> QED BY <1>5, <2>1
<1>7. SubSeq(record, 1, n - q) \in Seq(Lines) /\ Len(SubSeq(record, 1, n - q)) = n - q
  BY <1>1
<1>8. SubSeq(record, 1, n) \in Seq(Lines) /\ Len(SubSeq(record, 1, n)) = n
  BY <1>1
<1>9. ASSUME NEW i \in 1 .. n PROVE (SubSeq(record, 1, n - q) \o out)[i] = SubSeq(record, 1, n)[i]
  <2>1. SubSeq(record, 1, n)[i] = record[i]
    BY <1>1
  <2>2. CASE i <= n - q
    BY <1>1, <1>6, <1>7, <2>1, <2>2
  <2>3. CASE i > n - q
    <3>1. i - (n - q) \in 1 .. q /\ n - q + (i - (n - q)) = i
      BY <1>1, <2>3
    <3>2. out[i - (n - q)] = record[i]
      BY <1>5, <3>1
    <3>3. (SubSeq(record, 1, n - q) \o out)[i] = out[i - (n - q)]
      BY <1>1, <1>6, <1>7, <2>3, <3>1
    <3> QED BY <2>1, <3>2, <3>3
  <2>4. i <= n - q \/ i > n - q
    BY <1>1
  <2> QED BY <2>2, <2>3, <2>4
<1>10. Len(SubSeq(record, 1, n - q) \o out) = n /\ SubSeq(record, 1, n - q) \o out \in Seq(Lines)
  BY <1>1, <1>6, <1>7
<1>11. SubSeq(record, 1, n - q) \o out = SubSeq(record, 1, n)
  BY <1>8, <1>9, <1>10, SeqEqual
<1> QED BY <1>3, <1>11

Loop(record, n, s) ==
  /\ Pending(record, n, LeftOver(record, n), s)
  /\ s.prev = IF LeftOver(record, n) = 0 THEN 0 ELSE record[n].reg

\* A line starts a new buffer or is added to the one that is there.
LEMMA PendingOne ==
  ASSUME NEW record \in Seq(Lines), NEW n \in Nat, n < Len(record), NEW t,
         t.cfg = SubSeq(record, 1, n), t.buf = <<record[n + 1].val>>, t.cur = record[n + 1].reg
  PROVE  Pending(record, n + 1, 1, t)
<1>1. n + 1 - 1 = n /\ record[n + 1] \in Lines
  OBVIOUS
<1>2. record[n + 1].reg \in Nat
  BY <1>1, LineFields
<1>3. t.buf = [i \in 1 .. 1 |-> record[n + 1 - 1 + i].val]
  BY <1>1
<1>4. \A i \in 1 .. 1 : record[n + 1 - 1 + i].reg = t.cur + 2 * (i - 1)
  BY <1>1, <1>2
<1> QED BY <1>1, <1>2, <1>3, <1>4 DEF Pending

LEMMA PendingMore ==
  ASSUME NEW record \in Seq(Lines), NEW n \in Nat, n < Len(record), NEW q \in 1 .. n, NEW s, NEW t,
         Pending(record, n, q, s), record[n + 1].reg = record[n].reg + 2,
         t.cfg = s.cfg, t.cur = s.cur, t.buf = Append(s.buf, record[n + 1].val)
  PROVE  Pending(record, n + 1, q + 1, t)
<1>1. n + 1 - (q + 1) = n - q /\ n - q \in Nat /\ n - q + (q + 1) = n + 1 /\ n - q + q = n
  OBVIOUS
<1>2. s.buf = [i \in 1 .. q |-> record[n - q + i].val]
  BY DEF Pending
<1>5. s.cur \in Nat /\ \A i \in 1 .. q : record[n - q + i].reg = s.cur + 2 * (i - 1)
  BY DEF Pending
<1>3. Append(s.buf, record[n + 1].val) = [i \in 1 .. q + 1 |-> record[n - q + i].val]
  <2> DEFINE T == {record[n - q + i].val : i \in 1 .. q}
  <2>0. \A i \in 1 .. q : record[n - q + i].val \in T
    BY Zenon
  <2>3. q \in Nat
    OBVIOUS
  <2> HIDE DEF T
  <2>1. s.buf \in Seq(T) /\ Len(s.buf) = q
    BY <1>2, <2>0, <2>3
  <2>2. Append(s.buf, record[n + 1].val) = [i \in 1 .. q + 1 |-> IF i = q + 1 THEN record[n + 1].val ELSE s.buf[i]]
    BY <2>1
  <2>4. ASSUME NEW i \in 1 .. q + 1
        PROVE  (IF i = q + 1 THEN record[n + 1].val ELSE s.buf[i]) = record[n - q + i].val
    <3>1. CASE i = q + 1
      BY <1>1, <3>1
    <3>2. CASE i \in 1 .. q
      BY <1>2, <3>2
    <3> QED BY <3>1, <3>2
  <2> QED BY <2>2, <2>4
<1>4. ASSUME NEW i \in 1 .. q + 1 PROVE record[n - q + i].reg = s.cur + 2 * (i - 1)
  <2>1. CASE i = q + 1
    <3>1. record[n - q + q].reg = s.cur + 2 * (q - 1)
      BY <1>5
    <3>2. record[n - q + i].reg = record[n].reg + 2
      BY <1>1, <2>1
    <3>3. s.cur + 2 * (q - 1) + 2 = s.cur + 2 * ((q + 1) - 1)
      BY <1>5
    <3>4. record[n].reg = s.cur + 2 * (q - 1)
      BY <1>1, <3>1
    <3> QED BY <2>1, <3>2, <3>3, <3>4
  <2>2. CASE i \in 1 .. q
    BY <1>5, <2>2
  <2> QED BY <2>1, <2>2
<1>6. s.cfg = SubSeq(record, 1, n - q)
  BY DEF Pending
<1>7. PICK m, p : m = n + 1 /\ p = q + 1
  OBVIOUS
<1>8. m - p = n - q
  BY <1>7
<1>9. t.cfg = SubSeq(record, 1, m - p) /\ t.cur \in Nat
  BY <1>5, <1>6, <1>8
<1>10. t.buf = [i \in 1 .. p |-> record[m - p + i].val]
  BY <1>3, <1>7, <1>8
<1>11. \A i \in 1 .. p : record[m - p + i].reg = t.cur + 2 * (i - 1)
  BY <1>4, <1>7, <1>8
<1>12. Pending(record, m, p, t)
  BY <1>9, <1>10, <1>11, Zenon DEF Pending
<1> QED BY <1>7, <1>12

\* One pass of the loop: the buffer is as LeftOver says, before the line and after it.
LEMMA LoopStep ==
  ASSUME NEW record \in Seq(Lines), NEW n \in Nat, n < Len(record), NEW s, Loop(record, n, s)
  PROVE  Loop(record, n + 1, Cr2Line(s, record[n + 1]))
<1> DEFINE line == record[n + 1]
           q == LeftOver(record, n)
           r == IF Starts(record, n + 1) THEN 0 ELSE q
           cur  == IF s.prev = 0 THEN line.reg ELSE s.cur
           prev == IF s.prev = 0 THEN line.reg - 2 ELSE s.prev
           gap  == line.reg # prev + 2
           t == [prev |-> line.reg,
                 cur  |-> IF gap THEN line.reg ELSE cur,
                 buf  |-> Append(IF gap THEN <<>> ELSE s.buf, line.val),
                 cfg  |-> IF gap THEN Ship(s) ELSE s.cfg]
<1>1. Cr2Line(s, line) = IF Len(t.buf) = BlockWords THEN [t EXCEPT !.prev = 0, !.buf = <<>>, !.cfg = Ship(t)] ELSE t
  BY DEF Cr2Line
<1>2. line \in Lines /\ line.reg \in Nat /\ line.reg # 0
  <2>1. line \in Lines
    OBVIOUS
  <2> QED BY <2>1, LineFields
<1>3. /\ q \in Nat /\ q <= n /\ r + 1 <= BlockWords
      /\ LeftOver(record, n + 1) = IF r + 1 = BlockWords THEN 0 ELSE r + 1
  BY LeftStep
<1>4. Pending(record, n, q, s) /\ s.prev = IF q = 0 THEN 0 ELSE record[n].reg
  BY DEF Loop
<1>5. n \in 0 .. Len(record) /\ q \in 0 .. n /\ r \in 0 .. n /\ Len(record) \in Nat
  BY <1>3
<1>6. q # 0 => n # 0 /\ record[n].reg \in Nat /\ record[n].reg # 0
  <2>1. q # 0 => n \in 1 .. Len(record)
    BY <1>5
  <2>2. q # 0 => n # 0 /\ record[n] \in Lines
    BY <2>1
  <2> QED BY <2>2, LineFields
<1>7. gap = (q # 0 /\ Starts(record, n + 1))
  <2>1. (n + 1) - 1 = n /\ n + 1 # 1 <=> n # 0
    OBVIOUS
  <2>2. q # 0 => (Starts(record, n + 1) <=> line.reg # record[n].reg + 2)
    BY <1>6, <2>1 DEF Starts
  <2>3. q = 0 => ~gap
    BY <1>2, <1>4
  <2>4. q # 0 => prev = record[n].reg
    BY <1>4, <1>6
  <2> QED BY <2>2, <2>3, <2>4
<1>8. t.prev = line.reg /\ t.buf = Append(IF gap THEN <<>> ELSE s.buf, line.val)
      /\ t.cfg = (IF gap THEN Ship(s) ELSE s.cfg) /\ t.cur = (IF gap THEN line.reg ELSE cur)
  OBVIOUS
<1> HIDE DEF t, gap, prev
<1>9. Pending(record, n + 1, r + 1, t)
  <2>1. CASE q = 0
    <3>1. s.buf = <<>> /\ s.cfg = SubSeq(record, 1, n)
      BY <1>4, <2>1 DEF Pending
    <3>3. ~gap /\ cur = line.reg /\ r = 0
      BY <1>4, <1>7, <2>1
    <3>4. Append(<<>>, line.val) = <<line.val>>
      OBVIOUS
    <3>2. t.cur = line.reg /\ t.buf = <<line.val>> /\ t.cfg = SubSeq(record, 1, n) /\ r = 0
      BY <1>8, <3>1, <3>3, <3>4, Zenon
    <3> HIDE DEF q
    <3> QED BY <3>2, PendingOne
  <2>2. CASE q # 0 /\ Starts(record, n + 1)
    <3>3. gap /\ r = 0
      BY <1>7, <2>2
    <3>4. Append(<<>>, line.val) = <<line.val>>
      OBVIOUS
    <3>1. t.cur = line.reg /\ t.buf = <<line.val>> /\ t.cfg = Ship(s) /\ r = 0
      BY <1>8, <3>3, <3>4, Zenon
    <3>2. Ship(s) = SubSeq(record, 1, n)
      BY <1>4, <1>5, ShipPending
    <3> HIDE DEF q
    <3> QED BY <3>1, <3>2, PendingOne
  <2>3. CASE q # 0 /\ ~Starts(record, n + 1)
    <3>1. t.cur = s.cur /\ t.buf = Append(s.buf, line.val) /\ t.cfg = s.cfg /\ r = q
      BY <1>4, <1>6, <1>7, <1>8, <2>3
    <3>2. line.reg = record[n].reg + 2 /\ q \in 1 .. n
      <4>1. (n + 1) - 1 = n
        OBVIOUS
      <4> QED BY <1>5, <2>3, <4>1 DEF Starts
    <3> HIDE DEF q
    <3>3. Pending(record, n + 1, q + 1, t)
      BY <1>4, <3>1, <3>2, PendingMore
    <3> QED BY <3>1, <3>3
  <2> QED BY <2>1, <2>2, <2>3
<1>10. Len(t.buf) = r + 1
  <2> HIDE DEF q, r
  <2>1. t.buf = [i \in 1 .. r + 1 |-> record[n + 1 - (r + 1) + i].val] /\ r + 1 \in Nat
    BY <1>5, <1>9, SMTT(60) DEF Pending
  <2>2. DOMAIN t.buf = 1 .. r + 1 /\ t.buf = [i \in 1 .. r + 1 |-> t.buf[i]]
    BY <2>1, Zenon
  <2> QED BY <2>1, <2>2, LenOf
<1>11. CASE r + 1 = BlockWords
  <2>1. Ship(t) = SubSeq(record, 1, n + 1)
    <3>1. n + 1 \in 0 .. Len(record) /\ r + 1 \in 0 .. n + 1
      BY <1>5
    <3> HIDE DEF q, r
    <3> QED BY <1>9, <3>1, ShipPending
  <2> DEFINE u == [t EXCEPT !.prev = 0, !.buf = <<>>, !.cfg = Ship(t)]
  <2>2. u.prev = 0 /\ u.buf = <<>> /\ u.cfg = Ship(t) /\ u.cur = t.cur
    BY DEF t
  <2>3. t.cur \in Nat
    BY <1>9 DEF Pending
  <2> HIDE DEF u
  <2>4. Pending(record, n + 1, 0, u)
    <3>1. n + 1 - 0 = n + 1 /\ u.buf = [i \in 1 .. 0 |-> record[n + 1 - 0 + i].val]
      BY <2>2
    <3> QED BY <2>1, <2>2, <2>3, <3>1 DEF Pending
  <2>5. Loop(record, n + 1, u)
    BY <1>3, <1>11, <2>2, <2>4 DEF Loop
  <2> QED BY <1>1, <1>10, <1>11, <2>5 DEF u
<1>12. CASE r + 1 # BlockWords
  <2>1. LeftOver(record, n + 1) = r + 1 /\ r + 1 # 0
    BY <1>3, <1>5, <1>12
  <2>2. Loop(record, n + 1, t)
    <3> HIDE DEF q, r
    <3> QED BY <1>8, <1>9, <2>1 DEF Loop
  <2> QED BY <1>1, <1>10, <1>12, <2>2
<1> QED BY <1>11, <1>12

\* What LoadConfigCr2 has written at the end of a record is the record less what LeftOver says.
LEMMA LoadedIsWhole ==
  ASSUME NEW record \in Seq(Lines)
  PROVE  Cr2(record)[Len(record)].cfg = Whole(record)
<1> DEFINE S == {n \in Nat : n <= Len(record) => Loop(record, n, Cr2(record)[n])}
<1>1. Len(record) \in Nat
  OBVIOUS
<1>2. 0 \in S
  <2>1. LeftOver(record, 0) = 0
    BY DEF LeftOver
  <2>2. Cr2(record)[0] = Cr2Start
    BY Cr2Step
  <2>3. Pending(record, 0, 0, Cr2Start) /\ Cr2Start.prev = 0
    <3>1. Cr2Start.cfg = SubSeq(record, 1, 0 - 0)
      BY DEF Cr2Start
    <3>2. Cr2Start.buf = [i \in 1 .. 0 |-> record[0 - 0 + i].val]
      BY DEF Cr2Start
    <3> QED BY <3>1, <3>2 DEF Pending, Cr2Start
  <2>4. Loop(record, 0, Cr2Start)
    BY <2>1, <2>3 DEF Loop
  <2> QED BY <2>2, <2>4
<1>3. ASSUME NEW n \in Nat, n \in S PROVE n + 1 \in S
  <2>1. SUFFICES ASSUME n + 1 <= Len(record) PROVE Loop(record, n + 1, Cr2(record)[n + 1])
    OBVIOUS
  <2>2. n < Len(record) /\ n + 1 \in 1 .. Len(record) /\ (n + 1) - 1 = n
    BY <1>1, <2>1
  <2>3. Loop(record, n, Cr2(record)[n])
    BY <1>1, <1>3, <2>2
  <2>4. Cr2(record)[n + 1] = Cr2Line(Cr2(record)[n], record[n + 1])
    BY <2>2, Cr2Step
  <2>5. Loop(record, n + 1, Cr2Line(Cr2(record)[n], record[n + 1]))
    <3> HIDE DEF S
    <3> QED BY <2>2, <2>3, LoopStep
  <2> QED BY <2>4, <2>5
<1>4. Nat \subseteq S
  <2> HIDE DEF S
  <2> QED BY <1>2, <1>3, NoGap
<1>5. Loop(record, Len(record), Cr2(record)[Len(record)])
  BY <1>1, <1>4
<1> QED BY <1>5 DEF Loop, Pending, Whole

-----------------------------------------------------------------------------
(* The functions on the device. *)

\* A flash is erased, gets one more slot, or another configuration in one of its slots.
LEMMA FlashErased == FlashOK(<<>>)
BY LoaderOK DEF FlashOK

LEMMA FlashSaved ==
  ASSUME NEW f, FlashOK(f), Len(f) < MaxSlots, NEW fw, NEW cfg
  PROVE  LET g == Append(f, [fw |-> fw, cfg |-> cfg])
         IN /\ FlashOK(g) /\ Len(f) \in Nat /\ Len(g) = Len(f) + 1 /\ g[Len(g)] = [fw |-> fw, cfg |-> cfg]
<1> DEFINE x == [fw |-> fw, cfg |-> cfg]
           g == Append(f, x)
           T == {[fw |-> f[i].fw, cfg |-> f[i].cfg] : i \in DOMAIN f}
           U == {[fw |-> g[i].fw, cfg |-> g[i].cfg] : i \in DOMAIN g}
<1>1. f \in Seq(T) /\ Len(f) <= MaxSlots /\ MaxSlots \in Nat
  BY LoaderOK DEF FlashOK
<1> HIDE DEF T
<1>2. PICK n \in Nat : n = Len(f) /\ DOMAIN f = 1 .. n
  BY <1>1
<1>3. g = [i \in 1 .. n + 1 |-> IF i = n + 1 THEN x ELSE f[i]]
  BY <1>1, <1>2
<1>4. Len(g) = n + 1 /\ g[n + 1] = x /\ \A i \in 1 .. n : g[i] = f[i]
  BY <1>2, <1>3
<1>5. ASSUME NEW i \in 1 .. n + 1 PROVE g[i] = [fw |-> g[i].fw, cfg |-> g[i].cfg]
  <2>1. CASE i = n + 1
    BY <1>4, <2>1
  <2>2. CASE i \in 1 .. n
    <3>1. f[i] \in T
      BY <1>1, <1>2, <2>2
    <3>2. f[i] = [fw |-> f[i].fw, cfg |-> f[i].cfg]
      BY <3>1 DEF T
    <3>3. g[i] = f[i]
      BY <1>4, <2>2
    <3> QED BY <3>2, <3>3
  <2>3. i = n + 1 \/ i \in 1 .. n
    OBVIOUS
  <2> QED BY <2>1, <2>2, <2>3
<1>6. DOMAIN g = 1 .. n + 1
  BY <1>3
<1> HIDE DEF g, x
<1>7. \A i \in 1 .. n + 1 : g[i] \in U
  BY <1>5, <1>6
<1> HIDE DEF U
<1>8. g \in Seq(U)
  <2>1. g = [i \in 1 .. n + 1 |-> g[i]]
    BY <1>3, <1>6
  <2> QED BY <1>7, <2>1
<1>9. FlashOK(g)
  BY <1>1, <1>2, <1>4, <1>8 DEF FlashOK, U
<1> QED BY <1>2, <1>4, <1>9 DEF g, x

LEMMA FlashConfigured ==
  ASSUME NEW f, FlashOK(f), NEW i \in DOMAIN f, NEW cfg
  PROVE  LET g == [f EXCEPT ![i].cfg = cfg]
         IN /\ FlashOK(g) /\ Len(g) = Len(f) /\ Len(f) \in Nat /\ DOMAIN g = DOMAIN f /\ DOMAIN f = 1 .. Len(f)
            /\ g[i].cfg = cfg /\ \A j \in DOMAIN f : g[j].fw = f[j].fw
<1> DEFINE g == [f EXCEPT ![i].cfg = cfg]
           T == {[fw |-> f[j].fw, cfg |-> f[j].cfg] : j \in DOMAIN f}
           U == {[fw |-> g[j].fw, cfg |-> g[j].cfg] : j \in DOMAIN g}
<1>1. f \in Seq(T) /\ Len(f) <= MaxSlots
  BY DEF FlashOK
<1> HIDE DEF T
<1>2. PICK n \in Nat : n = Len(f) /\ DOMAIN f = 1 .. n
  BY <1>1
<1>3. ASSUME NEW j \in 1 .. n PROVE f[j] = [fw |-> f[j].fw, cfg |-> f[j].cfg]
  <2>1. f[j] \in T
    BY <1>1, <1>2
  <2> QED BY <2>1 DEF T
<1>4. DOMAIN g = 1 .. n /\ g[i] = [f[i] EXCEPT !.cfg = cfg] /\ \A j \in 1 .. n : j # i => g[j] = f[j]
  BY <1>2
<1>5. g[i] = [fw |-> f[i].fw, cfg |-> cfg]
  <2>1. PICK a, b : f[i] = [fw |-> a, cfg |-> b]
    BY <1>2, <1>3
  <2>2. [f[i] EXCEPT !.cfg = cfg] = [fw |-> a, cfg |-> cfg] /\ f[i].fw = a
    BY <2>1
  <2> HIDE DEF g
  <2> QED BY <1>4, <2>2
<1>6. g = [j \in 1 .. n |-> g[j]]
  BY <1>2
<1> HIDE DEF g
<1>7. ASSUME NEW j \in 1 .. n PROVE g[j] = [fw |-> g[j].fw, cfg |-> g[j].cfg] /\ g[j].fw = f[j].fw
  BY <1>3, <1>4, <1>5
<1>8. \A j \in 1 .. n : g[j] \in U
  BY <1>4, <1>7
<1> HIDE DEF U
<1>9. g \in Seq(U) /\ Len(g) = n
  BY <1>6, <1>8
<1>10. FlashOK(g)
  BY <1>1, <1>2, <1>9 DEF FlashOK, U
<1> QED BY <1>2, <1>4, <1>5, <1>7, <1>9, <1>10 DEF g

LEMMA FlashSlots ==
  ASSUME NEW f, FlashOK(f)
  PROVE  Len(f) \in Nat /\ DOMAIN f = 1 .. Len(f) /\ (Len(f) = 0 => f = <<>>)
<1> DEFINE T == {[fw |-> f[i].fw, cfg |-> f[i].cfg] : i \in DOMAIN f}
<1>1. f \in Seq(T)
  BY DEF FlashOK
<1> HIDE DEF T
<1> QED BY <1>1

\* A device whose memory, configuration or flash changes, and whose firmware does not start by it.
LEMMA DeviceChanged ==
  ASSUME NEW d, DeviceOK(d), NEW running \in BOOLEAN, NEW inited \in BOOLEAN, NEW ram, NEW cfg, NEW flash,
         FlashOK(flash), running => ram \notin {None, Partial}
  PROVE  DeviceOK([running |-> running, inited |-> inited, ram |-> ram, cfg |-> cfg, flash |-> flash])
BY DEF DeviceOK

Fields(d) == d = [running |-> d.running, inited |-> d.inited, ram |-> d.ram, cfg |-> d.cfg, flash |-> d.flash]

LEMMA Changes ==
  ASSUME NEW d, Fields(d)
  PROVE  /\ \A v : [d EXCEPT !.ram = v] = [running |-> d.running, inited |-> d.inited, ram |-> v, cfg |-> d.cfg, flash |-> d.flash]
         /\ \A v : [d EXCEPT !.cfg = v] = [running |-> d.running, inited |-> d.inited, ram |-> d.ram, cfg |-> v, flash |-> d.flash]
         /\ \A v : [d EXCEPT !.flash = v] = [running |-> d.running, inited |-> d.inited, ram |-> d.ram, cfg |-> d.cfg, flash |-> v]
         /\ \A v : [d EXCEPT !.running = v] = [running |-> v, inited |-> d.inited, ram |-> d.ram, cfg |-> d.cfg, flash |-> d.flash]
         /\ \A v : [d EXCEPT !.inited = v] = [running |-> d.running, inited |-> v, ram |-> d.ram, cfg |-> d.cfg, flash |-> d.flash]
<1>1. PICK a, b, c, e, f : d = [running |-> a, inited |-> b, ram |-> c, cfg |-> e, flash |-> f]
  BY DEF Fields
<1>2. d.running = a /\ d.inited = b /\ d.ram = c /\ d.cfg = e /\ d.flash = f
  BY <1>1
<1>3. ASSUME NEW v
      PROVE  [d EXCEPT !.ram = v]
             = [running |-> d.running, inited |-> d.inited, ram |-> v, cfg |-> d.cfg, flash |-> d.flash]
  BY <1>1, <1>2
<1>4. ASSUME NEW v
      PROVE  [d EXCEPT !.cfg = v]
             = [running |-> d.running, inited |-> d.inited, ram |-> d.ram, cfg |-> v, flash |-> d.flash]
  BY <1>1, <1>2
<1>5. ASSUME NEW v
      PROVE  [d EXCEPT !.flash = v]
             = [running |-> d.running, inited |-> d.inited, ram |-> d.ram, cfg |-> d.cfg, flash |-> v]
  BY <1>1, <1>2
<1>6. ASSUME NEW v
      PROVE  [d EXCEPT !.running = v]
             = [running |-> v, inited |-> d.inited, ram |-> d.ram, cfg |-> d.cfg, flash |-> d.flash]
  BY <1>1, <1>2
<1>7. ASSUME NEW v
      PROVE  [d EXCEPT !.inited = v]
             = [running |-> d.running, inited |-> v, ram |-> d.ram, cfg |-> d.cfg, flash |-> d.flash]
  BY <1>1, <1>2
<1> QED BY <1>3, <1>4, <1>5, <1>6, <1>7, Zenon

Result(r) == DeviceOK(r.dev) /\ r.ok \in BOOLEAN

\* The two ways a function returns.
LEMMA Returns ==
  ASSUME NEW d
  PROVE  Ok(d).dev = d /\ Ok(d).ok = TRUE /\ Err(d).dev = d /\ Err(d).ok = FALSE
BY DEF Ok, Err

LEMMA Returned ==
  ASSUME NEW d, DeviceOK(d)
  PROVE  Result(Ok(d)) /\ Result(Err(d))
BY Returns DEF Result

\* A command is carried out only when it is possible, and ends well only then.
LEMMA CommandResults ==
  ASSUME NEW d, DeviceOK(d), NEW possible \in BOOLEAN, NEW e, possible => DeviceOK(e)
  PROVE  \A r \in Command(d, possible, e) : Result(r) /\ (r.ok => possible /\ r.dev = e)
BY Returns, ZenonT(60) DEF Command, Result

\* However it ends, the command was carried out or it was not.
LEMMA CommandEither ==
  ASSUME NEW d, NEW possible, NEW e, NEW r \in Command(d, possible, e)
  PROVE  r.dev = d \/ r.dev = e
BY Returns, Zenon DEF Command

\* Stopping the firmware leaves no image to run.
LEMMA StopResults ==
  ASSUME NEW d, DeviceOK(d)
  PROVE  \A r \in StopFirmware(d) : Result(r) /\ r.dev.ram \in {d.ram, None}
<1> DEFINE boot == [d EXCEPT !.running = FALSE, !.inited = FALSE, !.ram = None]
<1>1. Fields(d)
  BY DEF DeviceOK, Fields
<1>2. boot = [running |-> FALSE, inited |-> FALSE, ram |-> None, cfg |-> d.cfg, flash |-> d.flash]
  <2>1. PICK off : off = FALSE
    OBVIOUS
  <2>2. PICK g : g = [d EXCEPT !.running = off]
    OBVIOUS
  <2>3. PICK h : h = [g EXCEPT !.inited = off]
    OBVIOUS
  <2>4. PICK a, b, c, f, x : d = [running |-> a, inited |-> b, ram |-> c, cfg |-> f, flash |-> x]
    BY <1>1 DEF Fields
  <2>5. boot = [d EXCEPT !.running = off, !.inited = off, !.ram = None]
    BY <2>1
  <2>6. [d EXCEPT !.running = off, !.inited = off, !.ram = None] = [h EXCEPT !.ram = None]
    BY <2>2, <2>3, <2>4
  <2>7. g = [running |-> off, inited |-> b, ram |-> c, cfg |-> f, flash |-> x]
    BY <2>2, <2>4
  <2>8. h = [running |-> off, inited |-> off, ram |-> c, cfg |-> f, flash |-> x]
    BY <2>3, <2>7
  <2>9. [h EXCEPT !.ram = None] = [running |-> off, inited |-> off, ram |-> None, cfg |-> f, flash |-> x]
    BY <2>8
  <2>10. d.cfg = f /\ d.flash = x
    BY <2>4
  <2> HIDE DEF boot
  <2>11. boot = [running |-> off, inited |-> off, ram |-> None, cfg |-> d.cfg, flash |-> d.flash]
    BY <2>5, <2>6, <2>9, <2>10
  <2> QED BY <2>1, <2>11
<1>3. DeviceOK(boot)
  <2>1. FlashOK(d.flash)
    BY DEF DeviceOK
  <2> HIDE DEF boot
  <2> QED BY <1>2, <2>1, DeviceChanged
<1>4. StopFirmware(d) = {Ok(boot), Err(boot), Err(d)}
  BY DEF StopFirmware
<1>5. boot.ram = None
  BY <1>2
<1> HIDE DEF boot
<1> QED BY <1>3, <1>4, <1>5, Returns DEF Result

\* Firmware starts only from a whole image, and nothing else changes.
LEMMA StartResults ==
  ASSUME NEW d, DeviceOK(d)
  PROVE  \A r \in StartFirmware(d) :
           Result(r) /\ r.dev.ram = d.ram /\ r.dev.cfg = d.cfg /\ r.dev.flash = d.flash
<1> DEFINE up == [d EXCEPT !.running = TRUE]
<1>1. Fields(d) /\ FlashOK(d.flash) /\ d.inited \in BOOLEAN
  BY DEF DeviceOK, Fields
<1>2. up = [running |-> TRUE, inited |-> d.inited, ram |-> d.ram, cfg |-> d.cfg, flash |-> d.flash]
  BY <1>1, Changes
<1>3. up.ram = d.ram /\ up.cfg = d.cfg /\ up.flash = d.flash
  BY <1>2
<1>4. d.ram \notin {None, Partial} => DeviceOK(up)
  <2> HIDE DEF up
  <2> QED BY <1>1, <1>2, DeviceChanged
<1>5. StartFirmware(d) = {Ok(d), Err(d)} \cup (IF d.ram \in {None, Partial} THEN {} ELSE {Ok(up), Err(up)})
  BY DEF StartFirmware
<1> HIDE DEF up
<1>6. ASSUME NEW r \in StartFirmware(d)
      PROVE  r = Ok(d) \/ r = Err(d) \/ (d.ram \notin {None, Partial} /\ (r = Ok(up) \/ r = Err(up)))
  BY <1>5
<1>7. Result(Ok(d)) /\ Ok(d).dev = d /\ Result(Err(d)) /\ Err(d).dev = d
  BY Returns, Returned, Zenon
<1>8. d.ram \notin {None, Partial} =>
        Result(Ok(up)) /\ Ok(up).dev = up /\ Result(Err(up)) /\ Err(up).dev = up
  BY <1>4, Returns, Returned, Zenon
<1> QED BY <1>3, <1>6, <1>7, <1>8, ZenonT(60)

LEMMA InitResults ==
  ASSUME NEW d, DeviceOK(d), NEW skip \in BOOLEAN
  PROVE  \A r \in InitFlash(d, skip) :
           /\ Result(r) /\ r.dev.running = d.running /\ (r.ok => ~d.running)
           /\ r.dev.flash = d.flash /\ r.dev.ram = d.ram
<1> DEFINE e == [d EXCEPT !.inited = TRUE]
<1>1. Fields(d) /\ FlashOK(d.flash) /\ d.running \in BOOLEAN /\ (d.running => d.ram \notin {None, Partial})
  BY DEF DeviceOK, Fields
<1>2. e = [running |-> d.running, inited |-> TRUE, ram |-> d.ram, cfg |-> d.cfg, flash |-> d.flash]
  BY <1>1, Changes
<1>3. e.running = d.running /\ e.flash = d.flash /\ e.ram = d.ram
  BY <1>2
<1>4. DeviceOK(e)
  <2> HIDE DEF e
  <2> QED BY <1>1, <1>2, DeviceChanged
<1>5. InitFlash(d, skip) = IF d.running THEN {Err(d)} ELSE {Ok(e), Err(d)} \cup (IF skip THEN {Ok(d)} ELSE {})
  BY DEF InitFlash
<1> HIDE DEF e
<1>6. ASSUME NEW r \in InitFlash(d, skip)
      PROVE  r = Err(d) \/ (~d.running /\ (r = Ok(e) \/ r = Ok(d)))
  BY <1>5
<1> QED BY <1>3, <1>4, <1>6, Returns, Returned, ZenonT(60)

\* An image is loaded whole or not at all, and never under firmware that runs.
LEMMA LoadResults ==
  ASSUME NEW d, DeviceOK(d), NEW image
  PROVE  \A r \in LoadFirmware(d, image) :
           /\ Result(r) /\ r.dev.flash = d.flash /\ (r.ok => r.dev.ram = image)
           /\ ~r.ok => r.dev.ram \in {d.ram, Partial}
<1> DEFINE e(x) == [d EXCEPT !.ram = x]
<1>1. Fields(d) /\ FlashOK(d.flash) /\ d.running \in BOOLEAN /\ d.inited \in BOOLEAN
  BY DEF DeviceOK, Fields
<1>2. \A x : e(x) = [running |-> d.running, inited |-> d.inited, ram |-> x, cfg |-> d.cfg, flash |-> d.flash]
  BY <1>1, Changes
<1>3. \A x : e(x).ram = x /\ e(x).flash = d.flash
  BY <1>2
<1>4. ~d.running => \A x : DeviceOK(e(x))
  <2> HIDE DEF e
  <2> QED BY <1>1, <1>2, DeviceChanged
<1>5. LoadFirmware(d, image) = IF d.running THEN {Err(d)} ELSE {Ok(e(image)), Err(d), Err(e(Partial))}
  BY DEF LoadFirmware
<1> HIDE DEF e
<1>6. ASSUME NEW r \in LoadFirmware(d, image)
      PROVE  r = Err(d) \/ (~d.running /\ (r = Ok(e(image)) \/ r = Err(e(Partial))))
  BY <1>5
<1>7. e(image).ram = image /\ e(image).flash = d.flash /\ e(Partial).flash = d.flash /\ e(Partial).ram = Partial
  BY <1>3
<1>8. ~d.running => DeviceOK(e(image)) /\ DeviceOK(e(Partial))
  BY <1>4
<1>9. PICK whole, broken : whole = e(image) /\ broken = e(Partial)
  OBVIOUS
<1>10. ASSUME NEW r \in LoadFirmware(d, image)
       PROVE  r = Err(d) \/ (~d.running /\ (r = Ok(whole) \/ r = Err(broken)))
  BY <1>6, <1>9
<1> QED BY <1>7, <1>8, <1>9, <1>10, Returns, Returned, ZenonT(60)

\* A firmware that is saved is the last slot, with the image and the configuration of the device.
LEMMA SaveResults ==
  ASSUME NEW d, DeviceOK(d)
  PROVE  \A r \in SaveFirmwareToFlash(d) :
           /\ Result(r) /\ r.dev.ram = d.ram
           /\ r.ok => /\ Len(d.flash) \in Nat /\ Len(r.dev.flash) = Len(d.flash) + 1
                      /\ Len(r.dev.flash) <= MaxSlots /\ r.dev.flash[Len(r.dev.flash)].fw = d.ram
<1> DEFINE slotted == Append(d.flash, [fw |-> d.ram, cfg |-> d.cfg])
           e == [d EXCEPT !.flash = Append(@, [fw |-> d.ram, cfg |-> d.cfg])]
           possible == d.inited /\ ~d.running /\ d.ram \notin {None, Partial} /\ Len(d.flash) < MaxSlots
<1>1. Fields(d) /\ FlashOK(d.flash) /\ d.running \in BOOLEAN /\ d.inited \in BOOLEAN
  BY DEF DeviceOK, Fields
<1>2. e = [running |-> d.running, inited |-> d.inited, ram |-> d.ram, cfg |-> d.cfg, flash |-> slotted]
  <2>1. e = [d EXCEPT !.flash = slotted]
    OBVIOUS
  <2> HIDE DEF e, slotted
  <2> QED BY <1>1, <2>1, Changes
<1>3. e.ram = d.ram /\ e.flash = slotted
  BY <1>2
<1>4. Len(d.flash) < MaxSlots => /\ FlashOK(slotted) /\ Len(d.flash) \in Nat /\ Len(slotted) = Len(d.flash) + 1
                                 /\ slotted[Len(slotted)] = [fw |-> d.ram, cfg |-> d.cfg]
  BY <1>1, FlashSaved
<1> HIDE DEF slotted
<1>5. possible => DeviceOK(e)
  <2> HIDE DEF e
  <2> QED BY <1>1, <1>2, <1>4, DeviceChanged
<1>6. SaveFirmwareToFlash(d) = Command(d, possible, e)
  BY DEF SaveFirmwareToFlash
<1>7. possible \in BOOLEAN
  OBVIOUS
<1>8. possible => Len(slotted) <= MaxSlots /\ slotted[Len(slotted)].fw = d.ram
  BY <1>4 DEF FlashOK
<1> HIDE DEF e
<1>9. ASSUME NEW r \in Command(d, possible, e)
      PROVE  Result(r) /\ (r.ok => possible /\ r.dev = e) /\ (r.dev = d \/ r.dev = e)
  <2> HIDE DEF possible
  <2> QED BY <1>5, <1>7, <1>9, CommandResults, CommandEither
<1> QED BY <1>3, <1>4, <1>6, <1>8, <1>9

\* A configuration goes to a slot that has firmware, and leaves that firmware alone.
LEMMA SaveConfigResults ==
  ASSUME NEW d, DeviceOK(d), NEW i
  PROVE  \A r \in SaveConfigToFlash(d, i) :
           /\ Result(r) /\ r.dev.ram = d.ram
           /\ r.ok => /\ r.dev.cfg = d.cfg /\ Len(r.dev.flash) = Len(d.flash)
                      /\ i \in DOMAIN d.flash /\ r.dev.flash[i].cfg = d.cfg
                      /\ \A j \in DOMAIN d.flash : r.dev.flash[j].fw = d.flash[j].fw
<1> DEFINE slotted == [d.flash EXCEPT ![i].cfg = d.cfg]
           e == [d EXCEPT !.flash[i].cfg = d.cfg]
           possible == (d.running \/ d.inited) /\ i \in DOMAIN d.flash
<1>1. Fields(d) /\ FlashOK(d.flash) /\ d.running \in BOOLEAN /\ d.inited \in BOOLEAN
      /\ (d.running => d.ram \notin {None, Partial})
  BY DEF DeviceOK, Fields
<1>2. e = [running |-> d.running, inited |-> d.inited, ram |-> d.ram, cfg |-> d.cfg, flash |-> slotted]
  <2>1. e = [d EXCEPT !.flash = slotted]
    OBVIOUS
  <2> HIDE DEF e, slotted
  <2> QED BY <1>1, <2>1, Changes
<1>3. e.ram = d.ram /\ e.cfg = d.cfg /\ e.flash = slotted
  BY <1>2
<1>4. i \in DOMAIN d.flash => /\ FlashOK(slotted) /\ Len(slotted) = Len(d.flash) /\ slotted[i].cfg = d.cfg
                              /\ \A j \in DOMAIN d.flash : slotted[j].fw = d.flash[j].fw
  BY <1>1, FlashConfigured, ZenonT(60)
<1> HIDE DEF slotted
<1>5. possible => DeviceOK(e)
  <2> HIDE DEF e
  <2> QED BY <1>1, <1>2, <1>4, DeviceChanged
<1>6. SaveConfigToFlash(d, i) = Command(d, possible, e)
  BY DEF SaveConfigToFlash
<1>7. possible \in BOOLEAN
  OBVIOUS
<1> HIDE DEF e
<1>9. ASSUME NEW r \in Command(d, possible, e)
      PROVE  Result(r) /\ (r.ok => possible /\ r.dev = e) /\ (r.dev = d \/ r.dev = e)
  <2> HIDE DEF possible
  <2> QED BY <1>5, <1>7, <1>9, CommandResults, CommandEither
<1> QED BY <1>3, <1>4, <1>6, <1>9

LEMMA EraseResults ==
  ASSUME NEW d, DeviceOK(d)
  PROVE  \A r \in EraseFlash(d) : Result(r) /\ r.dev.ram = d.ram /\ (r.ok => r.dev.flash = <<>>)
<1> DEFINE Erased(e) == [e EXCEPT !.flash = <<>>]
           First == InitFlash(d, FALSE)
<1>1. ASSUME NEW e, DeviceOK(e) PROVE DeviceOK(Erased(e)) /\ Erased(e).flash = <<>> /\ Erased(e).ram = e.ram
  <2>1. Fields(e) /\ e.running \in BOOLEAN /\ e.inited \in BOOLEAN /\ (e.running => e.ram \notin {None, Partial})
    BY <1>1 DEF DeviceOK, Fields
  <2>2. Erased(e) = [running |-> e.running, inited |-> e.inited, ram |-> e.ram, cfg |-> e.cfg, flash |-> <<>>]
    BY <2>1, Changes
  <2>3. Erased(e).flash = <<>> /\ Erased(e).ram = e.ram
    BY <2>2
  <2>4. DeviceOK(Erased(e))
    <3> HIDE DEF Erased
    <3> QED BY <2>1, <2>2, FlashErased, DeviceChanged
  <2> QED BY <2>3, <2>4
<1>2. EraseFlash(d) = IF d.running THEN {Err(d)}
        ELSE {r \in First : ~r.ok} \cup UNION {Command(r.dev, TRUE, Erased(r.dev)) : r \in {x \in First : x.ok}}
  BY DEF EraseFlash, Then
<1>3. \A r \in First : Result(r) /\ r.dev.ram = d.ram
  BY InitResults
<1> HIDE DEF Erased, First
<1>4. ASSUME NEW x \in First, NEW r \in Command(x.dev, TRUE, Erased(x.dev))
      PROVE  Result(r) /\ r.dev.ram = d.ram /\ (r.ok => r.dev.flash = <<>>)
  <2>1. DeviceOK(x.dev) /\ x.dev.ram = d.ram
    BY <1>3 DEF Result
  <2>2. Result(r) /\ (r.ok => r.dev = Erased(x.dev)) /\ (r.dev = x.dev \/ r.dev = Erased(x.dev))
    <3>1. Result(r) /\ (r.ok => r.dev = Erased(x.dev))
      BY <1>1, <1>4, <2>1, CommandResults
    <3>2. r.dev = x.dev \/ r.dev = Erased(x.dev)
      BY <1>4, CommandEither, Zenon
    <3> QED BY <3>1, <3>2
  <2> QED BY <1>1, <2>1, <2>2
<1>5. Result(Err(d)) /\ ~Err(d).ok /\ Err(d).dev = d
  BY Returns DEF Result
<1> QED BY <1>2, <1>3, <1>4, <1>5

LEMMA FromFlashResults ==
  ASSUME NEW d, DeviceOK(d), NEW i
  PROVE  \A r \in LoadFirmwareFromFlash(d, i) :
           /\ Result(r)
           /\ r.ok => /\ i \in DOMAIN d.flash /\ r.dev.flash = d.flash
                      /\ r.dev.ram = d.flash[i].fw /\ r.dev.cfg = d.flash[i].cfg
<1> DEFINE e == [d EXCEPT !.ram = d.flash[i].fw, !.cfg = d.flash[i].cfg]
<1>1. Fields(d) /\ FlashOK(d.flash) /\ d.running \in BOOLEAN /\ d.inited \in BOOLEAN
  BY DEF DeviceOK, Fields
<1>2. e = [running |-> d.running, inited |-> d.inited, ram |-> d.flash[i].fw, cfg |-> d.flash[i].cfg,
           flash |-> d.flash]
  <2>1. PICK fw, cfg : fw = d.flash[i].fw /\ cfg = d.flash[i].cfg
    OBVIOUS
  <2>2. PICK g : g = [d EXCEPT !.ram = fw]
    OBVIOUS
  <2>3. PICK a, b, c, f, x : d = [running |-> a, inited |-> b, ram |-> c, cfg |-> f, flash |-> x]
    BY <1>1 DEF Fields
  <2>4. e = [d EXCEPT !.ram = fw, !.cfg = cfg]
    BY <2>1
  <2>5. [d EXCEPT !.ram = fw, !.cfg = cfg] = [g EXCEPT !.cfg = cfg]
    BY <2>2, <2>3
  <2>6. g = [running |-> a, inited |-> b, ram |-> fw, cfg |-> f, flash |-> x]
    BY <2>2, <2>3
  <2>7. [g EXCEPT !.cfg = cfg] = [running |-> a, inited |-> b, ram |-> fw, cfg |-> cfg, flash |-> x]
    BY <2>6
  <2>8. d.running = a /\ d.inited = b /\ d.flash = x
    BY <2>3
  <2> HIDE DEF e
  <2> QED BY <2>1, <2>4, <2>5, <2>7, <2>8
<1>3. ~d.running => DeviceOK(e)
  <2> HIDE DEF e
  <2> QED BY <1>1, <1>2, DeviceChanged
<1>4. LoadFirmwareFromFlash(d, i) = IF d.running THEN {Err(d)}
        ELSE IF d.inited /\ i \in DOMAIN d.flash THEN Command(d, TRUE, e) ELSE {Err(d)}
  BY DEF LoadFirmwareFromFlash
<1> HIDE DEF e
<1>5. ~d.running => \A r \in Command(d, TRUE, e) : Result(r) /\ (r.ok => r.dev = e)
  BY <1>3, CommandResults
<1>6. ASSUME NEW r \in LoadFirmwareFromFlash(d, i)
      PROVE  r = Err(d) \/ (~d.running /\ i \in DOMAIN d.flash /\ r \in Command(d, TRUE, e))
  BY <1>4
<1>7. e.flash = d.flash /\ e.ram = d.flash[i].fw /\ e.cfg = d.flash[i].cfg
  BY <1>2
<1>8. Result(Err(d)) /\ ~Err(d).ok
  BY Returned, Returns
<1> QED BY <1>5, <1>6, <1>7, <1>8

\* The lines of a record that were written, and nothing else.
LEMMA ConfigResults ==
  ASSUME NEW d, DeviceOK(d), NEW record \in Seq(Lines)
  PROVE  LET e == LoadConfigCr2(d, record)
         IN DeviceOK(e) /\ e.cfg = Whole(record) /\ e.ram = d.ram /\ e.flash = d.flash
<1> DEFINE e == LoadConfigCr2(d, record)
<1>1. Fields(d) /\ FlashOK(d.flash) /\ d.running \in BOOLEAN /\ d.inited \in BOOLEAN
      /\ (d.running => d.ram \notin {None, Partial})
  BY DEF DeviceOK, Fields
<1>2. e = [running |-> d.running, inited |-> d.inited, ram |-> d.ram, cfg |-> Whole(record), flash |-> d.flash]
  BY <1>1, LoadedIsWhole, Changes DEF LoadConfigCr2
<1>3. e.cfg = Whole(record) /\ e.ram = d.ram /\ e.flash = d.flash
  BY <1>2
<1>4. DeviceOK(e)
  <2> HIDE DEF e
  <2> QED BY <1>1, <1>2, DeviceChanged
<1> QED BY <1>3, <1>4

-----------------------------------------------------------------------------
(* The tool. *)

\* A job that has begun, with the arguments it was given.
ToolState ==
  ToolTypes /\ args \in Jobs /\ ArgumentsChecked /\ FlashWritten /\ ImageRead /\ ImageLoaded
  /\ ConfigLoaded /\ ConfigSaved /\ SlotUnset

LEMMA JobArguments ==
  ASSUME args \in Jobs
  PROVE  /\ args # None /\ args.erase \in BOOLEAN /\ args.save \in BOOLEAN /\ args.cr2 \in BOOLEAN
         /\ args.index # None /\ (config_record_buf = None \/ config_record_buf \in Seq(Lines))
BY LoaderOK DEF config_record_buf, Content

\* What is read of the files does not change while the arguments do not.
LEMMA FilesStay ==
  ASSUME UNCHANGED args
  PROVE  UNCHANGED <<firmware_buf, config_record_buf, Rebooting, Saving>>
BY DEF firmware_buf, config_record_buf, Content, Rebooting, Saving

\* A tool whose try block is left claims nothing more.
LEMMA ToolFails ==
  ASSUME ToolState, UNCHANGED <<args, slot>>, DeviceOK(dev'), fw_running' \in BOOLEAN, pc' \in {"error", "crash"},
         pc' = "crash" => args.save /\ config_record_buf # None /\ firmware_buf = None /\ ~fw_running'
  PROVE  ToolState'
<1>1. pc' \in Stages /\ pc' \notin AfterOpen
  BY DEF Stages, AfterOpen, AfterStop, AfterRead, AfterErase, AfterLoad, AfterSave, AfterConfig, AfterSaveConfig
<1>2. pc' \notin AfterStop /\ pc' \notin AfterRead /\ pc' \notin AfterErase /\ pc' \notin AfterLoad /\ pc' \notin AfterSave
      /\ pc' \notin AfterConfig /\ pc' \notin AfterSaveConfig /\ pc' \notin {"load", "save"}
  BY <1>1 DEF AfterOpen, AfterStop, AfterRead, AfterErase, AfterLoad, AfterSave, AfterConfig
<1>3. ToolTypes'
  BY <1>1 DEF ToolState, ToolTypes
<1>4. ArgumentsChecked'
  BY <1>1, <1>2, FilesStay DEF ToolState, ArgumentsChecked
<1>5. FlashWritten' /\ ImageRead' /\ ImageLoaded' /\ ConfigLoaded' /\ ConfigSaved' /\ SlotUnset'
  BY <1>1, <1>2, FilesStay DEF FlashWritten, ImageRead, ImageLoaded, ConfigLoaded, ConfigSaved, SlotUnset
<1>6. args' \in Jobs
  BY DEF ToolState
<1> QED BY <1>3, <1>4, <1>5, <1>6 DEF ToolState

\* What each stage comes after.
LEMMA StageOrder ==
  /\ "open" \notin AfterOpen /\ "stop" \in AfterOpen /\ "stop" \notin AfterStop
  /\ {"init", "fromflash", "erase"} \subseteq AfterStop /\ "erase" \in AfterRead
  /\ \A s \in {"open", "stop", "init", "fromflash"} : s \notin AfterRead
  /\ AfterErase \subseteq AfterRead /\ "crash" \notin AfterOpen
  /\ \A s \in {"open", "stop", "init", "fromflash", "erase"} : s \notin AfterErase /\ s \notin {"load", "save"}
  /\ AfterStop \subseteq AfterOpen /\ AfterErase \subseteq AfterStop /\ AfterLoad \subseteq AfterErase
  /\ AfterSave \subseteq AfterLoad /\ AfterConfig \subseteq AfterSave /\ AfterSaveConfig \subseteq AfterConfig
  /\ "load" \in AfterErase \ AfterLoad /\ "save" \in AfterLoad \ AfterSave /\ "config" \in AfterSave \ AfterConfig
  /\ "savecfg" \in AfterConfig \ AfterSaveConfig /\ {"reset", "start", "done"} = AfterSaveConfig
  /\ \A s \in AfterSave : s \notin {"load", "save"}
  /\ AfterOpen \subseteq Stages
BY DEF AfterOpen, AfterStop, AfterRead, AfterErase, AfterLoad, AfterSave, AfterConfig, AfterSaveConfig, Stages

\* Before the image is saved nothing is claimed of what comes after.
LEMMA EarlyStage ==
  ASSUME pc' \in {"stop", "init", "fromflash", "erase"}, UNCHANGED <<args, slot>>, ToolState,
         DeviceOK(dev'), fw_running' \in BOOLEAN,
         firmware_buf = None => IF config_record_buf = None THEN ~args.save ELSE ~args.erase,
         pc' # "stop" /\ Rebooting => ~fw_running', pc' = "erase" => ImageRead'
  PROVE  ToolState'
<1>1. pc' \in AfterOpen /\ (pc' \in AfterStop <=> pc' # "stop") /\ pc' \in Stages
  BY StageOrder
<1>2. pc' \notin AfterErase /\ pc' \notin {"load", "save"} /\ (pc' # "erase" => pc' \notin AfterRead) /\ pc' # "crash"
  BY StageOrder
<1>3. pc' \notin AfterLoad /\ pc' \notin AfterSave /\ pc' \notin AfterConfig /\ pc' \notin AfterSaveConfig
  BY <1>2, StageOrder
<1>4. ToolTypes' /\ args' \in Jobs
  BY <1>1 DEF ToolState, ToolTypes
<1>5. ArgumentsChecked'
  BY <1>1, FilesStay DEF ToolState, ArgumentsChecked
<1>6. FlashWritten' /\ ImageRead' /\ ImageLoaded' /\ ConfigLoaded' /\ ConfigSaved' /\ SlotUnset'
  BY <1>2, <1>3 DEF FlashWritten, ImageRead, ImageLoaded, ConfigLoaded, ConfigSaved, SlotUnset
<1> QED BY <1>4, <1>5, <1>6 DEF ToolState

LEMMA OpenStep ==
  ASSUME ToolState, Open
  PROVE  ToolState'
<1>1. UNCHANGED <<args, slot, dev>> /\ DeviceOK(dev')
  BY DEF Open, ToolState, ToolTypes
<1>2. CASE firmware_buf = None /\ (IF config_record_buf = None THEN args.save ELSE args.erase)
  <2>1. pc' = "error" /\ fw_running' \in BOOLEAN
    BY <1>2 DEF Open, ToolState, ToolTypes
  <2> QED BY <1>1, <2>1, ToolFails
<1>3. CASE ~(firmware_buf = None /\ (IF config_record_buf = None THEN args.save ELSE args.erase))
  <2>1. pc' = "stop" /\ fw_running' \in BOOLEAN
    BY <1>3 DEF Open, ToolState, ToolTypes, DeviceOK
  <2> QED BY <1>1, <1>3, <2>1, EarlyStage
<1> QED BY <1>2, <1>3

\* A stage ends in the next one, or the error leaves the try block.
LEMMA StageEnds ==
  ASSUME NEW from, NEW to, NEW STATE wanted, NEW STATE results, Stage(from, to, wanted, results)
  PROVE  /\ pc = from /\ args' = args
         /\ \/ wanted /\ \E r \in results : r.ok /\ dev' = r.dev /\ pc' = to
            \/ wanted /\ \E r \in results : ~r.ok /\ dev' = r.dev /\ pc' = "error"
            \/ ~wanted /\ dev' = dev /\ pc' = to
BY DEF Stage

LEMMA StopStep ==
  ASSUME ToolState, Stop
  PROVE  ToolState'
<1>1. pc = "stop" /\ UNCHANGED <<args, slot>> /\ fw_running' = (fw_running /\ (~Rebooting \/ pc' = "error"))
  BY DEF Stop, Stage
<1>2. DeviceOK(dev) /\ fw_running \in BOOLEAN /\ fw_running' \in BOOLEAN
  BY <1>1 DEF ToolState, ToolTypes
<1>3. firmware_buf = None => IF config_record_buf = None THEN ~args.save ELSE ~args.erase
  BY <1>1, StageOrder DEF ToolState, ArgumentsChecked
<1>4. DeviceOK(dev') /\ (pc' = "init" \/ pc' = "error")
  BY <1>2, StopResults DEF Stop, Stage, Result
<1>5. CASE pc' = "error"
  BY <1>1, <1>2, <1>4, <1>5, ToolFails
<1>6. CASE pc' = "init"
  <2>1. Rebooting => ~fw_running'
    BY <1>1, <1>6
  <2> QED BY <1>1, <1>2, <1>3, <1>4, <1>6, <2>1, EarlyStage
<1> QED BY <1>4, <1>5, <1>6

LEMMA PrepareStep ==
  ASSUME ToolState, Prepare
  PROVE  ToolState'
<1>1. pc = "init" /\ UNCHANGED <<args, slot, fw_running>>
  BY DEF Prepare, Stage
<1>2. DeviceOK(dev) /\ fw_running \in BOOLEAN
  BY DEF ToolState, ToolTypes
<1>3. (firmware_buf = None => IF config_record_buf = None THEN ~args.save ELSE ~args.erase) /\ (Rebooting => ~fw_running)
  BY <1>1, StageOrder DEF ToolState, ArgumentsChecked
<1>4. DeviceOK(dev') /\ (pc' = "fromflash" \/ pc' = "error")
  BY <1>2, InitResults DEF Prepare, Stage, Result
<1>5. CASE pc' = "error"
  BY <1>1, <1>2, <1>4, <1>5, ToolFails
<1>6. CASE pc' = "fromflash"
  BY <1>1, <1>2, <1>3, <1>4, <1>6, EarlyStage
<1> QED BY <1>4, <1>5, <1>6

LEMMA FromFlashStep ==
  ASSUME ToolState, FromFlash
  PROVE  ToolState'
<1>1. pc = "fromflash" /\ UNCHANGED <<args, slot, fw_running>>
  BY DEF FromFlash, Stage
<1>2. DeviceOK(dev) /\ fw_running \in BOOLEAN
  BY DEF ToolState, ToolTypes
<1>3. (firmware_buf = None => IF config_record_buf = None THEN ~args.save ELSE ~args.erase) /\ (Rebooting => ~fw_running)
  BY <1>1, StageOrder DEF ToolState, ArgumentsChecked
<1>4. DeviceOK(dev') /\ (pc' = "erase" \/ pc' = "error")
  <2>1. \A r \in IF firmware_buf # None \/ args.erase THEN {Err(dev)} ELSE LoadFirmwareFromFlash(dev, args.from) : Result(r)
    BY <1>2, FromFlashResults, Returned
  <2> QED BY <1>2, <2>1 DEF FromFlash, Stage, Result
<1>5. CASE pc' = "error"
  BY <1>1, <1>2, <1>4, <1>5, ToolFails
<1>6. CASE pc' = "erase"
  <2>1. ImageRead'
    <3>1. SUFFICES ASSUME args.from # 0
                   PROVE  /\ firmware_buf = None /\ ~args.erase
                          /\ args.from \in DOMAIN dev'.flash /\ dev'.ram = dev'.flash[args.from].fw
                          /\ dev'.cfg = dev'.flash[args.from].cfg
      BY <1>1, FilesStay DEF ImageRead
    <3>2. PICK r \in (IF firmware_buf # None \/ args.erase THEN {Err(dev)} ELSE LoadFirmwareFromFlash(dev, args.from)) :
            dev' = r.dev /\ r.ok
      BY <1>6, <3>1 DEF FromFlash, Stage
    <3>3. ~Err(dev).ok
      BY Returns
    <3>4. firmware_buf = None /\ ~args.erase /\ r \in LoadFirmwareFromFlash(dev, args.from)
      BY <3>2, <3>3
    <3> QED BY <1>2, <3>2, <3>4, FromFlashResults
  <2> QED BY <1>1, <1>2, <1>3, <1>4, <1>6, <2>1, EarlyStage
<1> QED BY <1>4, <1>5, <1>6

\* After the erase the arguments stay checked; what is on the device is each stage's own claim.
LEMMA LateStage ==
  ASSUME ToolState, pc \in AfterStop, pc' \in AfterErase, UNCHANGED <<args, fw_running>>, DeviceOK(dev'),
         slot' \in 1 .. MaxSlots \cup {None}, firmware_buf = None => slot' = None,
         FlashWritten', ImageRead', ImageLoaded', ConfigLoaded', ConfigSaved'
  PROVE  ToolState'
<1>1. pc \in AfterOpen /\ pc' \in AfterStop /\ pc' \in AfterOpen /\ pc' \in Stages
  BY StageOrder
<1>2. ToolTypes' /\ args' \in Jobs
  BY <1>1 DEF ToolState, ToolTypes
<1>3. ArgumentsChecked'
  BY <1>1, FilesStay DEF ToolState, ArgumentsChecked
<1>4. SlotUnset'
  BY <1>1, StageOrder DEF SlotUnset
<1> QED BY <1>2, <1>3, <1>4 DEF ToolState

\* What the state before a stage says, and what its results leave to be shown.
LEMMA Known ==
  ASSUME ToolState
  PROVE  /\ DeviceOK(dev) /\ fw_running \in BOOLEAN /\ slot \in 1 .. MaxSlots \cup {None} /\ args \in Jobs
         /\ firmware_buf = None => slot = None
BY DEF ToolState, ToolTypes, ArgumentsChecked

LEMMA EraseStep ==
  ASSUME ToolState, Erase
  PROVE  ToolState'
<1>1. pc = "erase" /\ UNCHANGED <<args, slot, fw_running>>
  BY DEF Erase, Stage
<1>2. \A r \in EraseFlash(dev) : Result(r) /\ (r.ok => r.dev.flash = <<>>)
  BY Known, EraseResults
<1>3. DeviceOK(dev') /\ (pc' = "error" \/ (pc' = "load" /\ (args.erase => dev'.flash = <<>>)))
  BY <1>2, Known DEF Erase, Stage, Result
<1>4. CASE pc' = "error"
  BY <1>1, <1>3, <1>4, Known, ToolFails
<1>5. CASE pc' = "load" /\ (args.erase => dev'.flash = <<>>)
  <2>1. pc \in AfterStop /\ pc' \in AfterErase /\ pc' \notin AfterLoad
    BY <1>1, <1>5, StageOrder
  <2>2. pc' \notin AfterSave /\ pc' \notin AfterConfig /\ pc' \notin AfterSaveConfig
    BY <2>1, StageOrder
  <2>3. FlashWritten'
    BY <1>1, <1>5, <2>2 DEF FlashWritten
  <2>4. ImageLoaded' /\ ConfigLoaded' /\ ConfigSaved'
    BY <2>1, <2>2 DEF ImageLoaded, ConfigLoaded, ConfigSaved
  <2>5. ImageRead'
    <3>1. args.from # 0 => ~args.erase /\ ImageRead
      BY <1>1, StageOrder DEF ToolState, ImageRead
    <3>2. args.from # 0 => dev' = dev
      BY <3>1 DEF Erase, Stage
    <3> QED BY <1>1, <2>2, <3>1, <3>2, FilesStay, StageOrder DEF ImageRead
  <2> QED BY <1>1, <1>3, <2>1, <2>3, <2>4, <2>5, Known, FilesStay, LateStage
<1> QED BY <1>3, <1>4, <1>5

LEMMA LoadStep ==
  ASSUME ToolState, Load
  PROVE  ToolState'
<1>1. pc = "load" /\ UNCHANGED <<args, slot, fw_running>>
  BY DEF Load, Stage
<1>2. \A r \in LoadFirmware(dev, firmware_buf) : Result(r) /\ r.dev.flash = dev.flash /\ (r.ok => r.dev.ram = firmware_buf)
  BY Known, LoadResults
<1>3. /\ DeviceOK(dev') /\ dev'.flash = dev.flash
      /\ pc' = "error" \/ (pc' = "save" /\ (firmware_buf # None => dev'.ram = firmware_buf))
  BY <1>2, Known DEF Load, Stage, Result
<1>4. CASE pc' = "error"
  BY <1>1, <1>3, <1>4, Known, ToolFails
<1>5. CASE pc' = "save" /\ (firmware_buf # None => dev'.ram = firmware_buf)
  <2>1. pc \in AfterStop /\ pc' \in AfterErase /\ pc' \notin AfterSave
    BY <1>1, <1>5, StageOrder
  <2>2. pc' \notin AfterConfig /\ pc' \notin AfterSaveConfig
    BY <2>1, StageOrder
  <2>3. FlashWritten'
    BY <1>1, <1>3, <1>5, <2>1, FilesStay DEF FlashWritten, ToolState
  <2>4. ImageLoaded' /\ ConfigLoaded' /\ ConfigSaved'
    BY <1>1, <1>5, <2>2, FilesStay DEF ImageLoaded, ConfigLoaded, ConfigSaved
  <2>5. ImageRead'
    <3>1. args.from # 0 => firmware_buf = None /\ ImageRead
      BY <1>1, StageOrder DEF ToolState, ImageRead
    <3>2. args.from # 0 => dev' = dev
      BY <3>1 DEF Load, Stage
    <3> QED BY <1>1, <2>2, <3>1, <3>2, FilesStay, StageOrder DEF ImageRead
  <2> QED BY <1>1, <1>3, <2>1, <2>3, <2>4, <2>5, Known, FilesStay, LateStage
<1> QED BY <1>3, <1>4, <1>5

LEMMA SaveStep ==
  ASSUME ToolState, Save
  PROVE  ToolState'
<1>1. pc = "save" /\ UNCHANGED <<args, fw_running>>
      /\ slot' = IF firmware_buf # None /\ args.save /\ pc' = "config" THEN Len(dev'.flash) ELSE slot
  BY DEF Save, Stage
<1>2. \A r \in SaveFirmwareToFlash(dev) :
        /\ Result(r)
        /\ r.ok => /\ r.dev.ram = dev.ram /\ Len(dev.flash) \in Nat /\ Len(r.dev.flash) = Len(dev.flash) + 1
                   /\ Len(r.dev.flash) <= MaxSlots /\ r.dev.flash[Len(r.dev.flash)].fw = dev.ram
  BY Known, SaveResults
<1>3. args.save \in BOOLEAN
  BY Known, JobArguments
<1>4. \/ DeviceOK(dev') /\ pc' = "error"
      \/ ~Saving /\ dev' = dev /\ pc' = "config"
      \/ /\ Saving /\ DeviceOK(dev') /\ pc' = "config" /\ dev'.ram = dev.ram
         /\ Len(dev.flash) \in Nat /\ Len(dev'.flash) = Len(dev.flash) + 1
         /\ Len(dev'.flash) <= MaxSlots /\ dev'.flash[Len(dev'.flash)].fw = dev.ram
  BY <1>2, <1>3 DEF Save, Stage, Saving, Result
<1>5. /\ args.erase => dev.flash = <<>>
      /\ firmware_buf # None => dev.ram = firmware_buf
  BY <1>1, StageOrder DEF ToolState, FlashWritten, ImageLoaded
<1>6. UNCHANGED <<Saving, firmware_buf, config_record_buf>>
  BY <1>1, FilesStay
<1>7. args.from # 0 => firmware_buf = None /\ ~Saving /\ ImageRead
  BY <1>1, StageOrder DEF ToolState, ImageRead, Saving
<1>8. CASE DeviceOK(dev') /\ pc' = "error"
  <2>1. slot' = slot
    BY <1>1, <1>8
  <2> QED BY <1>1, <1>8, <2>1, Known, ToolFails
<1>9. CASE ~Saving /\ dev' = dev /\ pc' = "config"
  <2>1. pc \in AfterStop /\ pc' \in AfterErase /\ pc' \notin AfterConfig /\ pc' \notin {"load", "save"}
    BY <1>1, <1>9, StageOrder
  <2>2. pc' \notin AfterSaveConfig /\ slot' = slot
    BY <1>1, <1>9, <2>1, StageOrder DEF Saving
  <2>3. FlashWritten'
    BY <1>1, <1>5, <1>6, <1>9, <2>1 DEF FlashWritten
  <2>4. ImageLoaded' /\ ConfigLoaded' /\ ConfigSaved'
    BY <1>1, <1>5, <1>6, <1>9, <2>1, <2>2 DEF ImageLoaded, ConfigLoaded, ConfigSaved
  <2>5. DeviceOK(dev')
    BY <1>9, Known
  <2>6. ImageRead'
    BY <1>1, <1>6, <1>9, <1>7, <2>1, StageOrder DEF ImageRead
  <2> QED BY <1>1, <1>6, <2>1, <2>2, <2>3, <2>4, <2>5, <2>6, Known, LateStage
<1>10. CASE /\ Saving /\ DeviceOK(dev') /\ pc' = "config" /\ dev'.ram = dev.ram
           /\ Len(dev.flash) \in Nat /\ Len(dev'.flash) = Len(dev.flash) + 1
           /\ Len(dev'.flash) <= MaxSlots /\ dev'.flash[Len(dev'.flash)].fw = dev.ram
  <2>1. pc \in AfterStop /\ pc' \in AfterErase /\ pc' \notin AfterConfig /\ pc' \notin {"load", "save"}
    BY <1>1, <1>10, StageOrder
  <2>2. pc' \notin AfterSaveConfig /\ slot' = Len(dev'.flash) /\ firmware_buf # None
    BY <1>1, <1>10, <2>1, StageOrder DEF Saving
  <2>3. FlashWritten'
    <3>1. args.erase => slot' = 1
      BY <1>5, <1>10, <2>2
    <3> QED BY <1>1, <1>5, <1>6, <1>10, <2>1, <2>2, <3>1 DEF FlashWritten
  <2>4. ImageLoaded' /\ ConfigLoaded' /\ ConfigSaved'
    BY <1>1, <1>5, <1>6, <1>10, <2>1, <2>2 DEF ImageLoaded, ConfigLoaded, ConfigSaved
  <2>5. slot' \in 1 .. MaxSlots
    BY <1>10, <2>2, LoaderOK
  <2>6. ImageRead'
    BY <1>1, <1>10, <1>7 DEF ImageRead
  <2> QED BY <1>1, <1>6, <1>10, <2>1, <2>2, <2>3, <2>4, <2>5, <2>6, Known, LateStage
<1> QED BY <1>4, <1>8, <1>9, <1>10

\* Once the image is saved nothing writes the flash but the configuration of one slot.
FlashKept ==
  /\ dev'.ram = dev.ram /\ (dev.flash = <<>> => dev'.flash = <<>>) /\ Len(dev'.flash) = Len(dev.flash)
  /\ \A j \in 1 .. Len(dev.flash) : dev'.flash[j].fw = dev.flash[j].fw

LEMMA FlashStays ==
  ASSUME ToolState, pc \in AfterSave, pc' \in AfterSave, UNCHANGED <<args, slot>>, FlashKept
  PROVE  FlashWritten' /\ ImageLoaded'
<1>1. pc \in AfterLoad /\ pc' \in AfterLoad /\ pc' \notin {"load", "save"}
  BY StageOrder
<1>2. UNCHANGED <<Saving, firmware_buf, config_record_buf>>
  BY FilesStay
<1>3. Len(dev.flash) \in Nat
  BY DEF ToolState, ToolTypes, DeviceOK, FlashOK
<1>4. FlashWritten'
  BY <1>1, <1>2, <1>3 DEF FlashWritten, FlashKept, ToolState
<1>5. ImageLoaded'
  BY <1>1, <1>2 DEF ImageLoaded, FlashKept, ToolState
<1> QED BY <1>4, <1>5

LEMMA ConfigStep ==
  ASSUME ToolState, Config
  PROVE  ToolState'
<1>1. pc = "config" /\ UNCHANGED <<args, slot, fw_running>>
  BY DEF Config, Stage
<1>2. config_record_buf # None => config_record_buf \in Seq(Lines)
  BY Known, JobArguments
<1>3. \/ pc' = "error" /\ dev' = dev
      \/ pc' = "savecfg" /\ IF config_record_buf # None THEN args.cr2 /\ dev' = LoadConfigCr2(dev, config_record_buf)
                                                       ELSE dev' = dev
  <2>1. Stage("config", "savecfg", config_record_buf # None,
              IF args.cr2 THEN {Ok(LoadConfigCr2(dev, config_record_buf))} ELSE {Err(dev)})
    BY DEF Config
  <2>2. CASE config_record_buf = None
    BY <2>1, <2>2 DEF Stage
  <2>3. CASE config_record_buf # None /\ args.cr2
    <3>1. PICK x \in {Ok(LoadConfigCr2(dev, config_record_buf))} : dev' = x.dev /\ pc' = IF x.ok THEN "savecfg" ELSE "error"
      BY <2>1, <2>3 DEF Stage
    <3>2. x.ok /\ x.dev = LoadConfigCr2(dev, config_record_buf)
      BY <3>1, Returns
    <3> QED BY <2>3, <3>1, <3>2
  <2>4. CASE config_record_buf # None /\ ~args.cr2
    <3>1. PICK x \in {Err(dev)} : dev' = x.dev /\ pc' = IF x.ok THEN "savecfg" ELSE "error"
      BY <2>1, <2>4 DEF Stage
    <3>2. ~x.ok /\ x.dev = dev
      BY <3>1, Returns
    <3> QED BY <3>1, <3>2
  <2> QED BY <2>2, <2>3, <2>4, Known, JobArguments
<1>4. CASE pc' = "error" /\ dev' = dev
  BY <1>1, <1>4, Known, ToolFails
<1>5. SUFFICES ASSUME pc' = "savecfg",
                      IF config_record_buf # None THEN args.cr2 /\ dev' = LoadConfigCr2(dev, config_record_buf)
                                                  ELSE dev' = dev
               PROVE  ToolState'
  BY <1>3, <1>4
<1>6. /\ DeviceOK(dev') /\ dev'.ram = dev.ram /\ dev'.flash = dev.flash
      /\ config_record_buf # None => args.cr2 /\ dev'.cfg = Whole(config_record_buf)
      /\ config_record_buf = None => dev'.cfg = dev.cfg
  BY <1>2, <1>5, Known, ConfigResults
<1>7. pc \in AfterSave /\ pc' \in AfterSave /\ pc \in AfterStop /\ pc' \in AfterErase /\ pc' \notin AfterSaveConfig
  BY <1>1, <1>5, StageOrder
<1>8. FlashWritten' /\ ImageLoaded'
  BY <1>1, <1>6, <1>7, FlashStays DEF FlashKept
<1>9. ConfigLoaded' /\ ConfigSaved'
  BY <1>1, <1>6, <1>7, FilesStay DEF ConfigLoaded, ConfigSaved
<1>10. ImageRead'
  <2>1. pc \in AfterRead /\ pc \notin AfterConfig /\ ImageRead
    BY <1>1, StageOrder DEF ToolState
  <2>2. UNCHANGED <<args, firmware_buf, config_record_buf>>
    BY <1>1, FilesStay
  <2>3. (pc' \notin AfterConfig \/ config_record_buf = None) => config_record_buf = None
    BY <1>5, StageOrder
  <2> QED BY <1>6, <2>1, <2>2, <2>3 DEF ImageRead
<1> QED BY <1>1, <1>6, <1>7, <1>8, <1>9, <1>10, Known, FilesStay, LateStage

LEMMA SaveConfigStep ==
  ASSUME ToolState, SaveConfig
  PROVE  ToolState'
<1>1. pc = "savecfg" /\ UNCHANGED <<args, slot, fw_running>>
  BY DEF SaveConfig, Stage
<1>2. CASE config_record_buf # None /\ args.save /\ SlotOf = None
  <2>1. pc' = "crash" /\ dev' = dev
    BY <1>2 DEF SaveConfig
  <2>2. ~fw_running /\ slot = None
    BY <1>2, Known, JobArguments DEF SlotOf
  <2>3. firmware_buf = None
    <3>1. Saving => slot = Len(dev.flash)
      BY <1>1, StageOrder DEF ToolState, FlashWritten
    <3>2. Len(dev.flash) \in Nat
      BY Known, FlashSlots DEF DeviceOK
    <3> QED BY <1>2, <2>2, <3>1, <3>2, LoaderOK DEF Saving
  <2> QED BY <1>1, <1>2, <2>1, <2>2, <2>3, Known, ToolFails
<1>3. CASE ~(config_record_buf # None /\ args.save /\ SlotOf = None)
  <2>1. \A r \in SaveConfigToFlash(dev, SlotOf) :
          /\ Result(r)
          /\ r.ok => /\ r.dev.ram = dev.ram /\ r.dev.cfg = dev.cfg /\ Len(r.dev.flash) = Len(dev.flash)
                     /\ SlotOf \in DOMAIN dev.flash /\ r.dev.flash[SlotOf].cfg = dev.cfg
                     /\ \A j \in DOMAIN dev.flash : r.dev.flash[j].fw = dev.flash[j].fw
    BY Known, SaveConfigResults
  <2>2. Stage("savecfg", "reset", config_record_buf # None /\ args.save, SaveConfigToFlash(dev, SlotOf))
    BY <1>3 DEF SaveConfig
  <2>3. \/ DeviceOK(dev') /\ pc' = "error"
        \/ ~(config_record_buf # None /\ args.save) /\ dev' = dev /\ pc' = "reset"
        \/ /\ config_record_buf # None /\ args.save /\ DeviceOK(dev') /\ pc' = "reset"
           /\ dev'.ram = dev.ram /\ dev'.cfg = dev.cfg /\ Len(dev'.flash) = Len(dev.flash)
           /\ SlotOf \in DOMAIN dev.flash /\ dev'.flash[SlotOf].cfg = dev.cfg
           /\ \A j \in DOMAIN dev.flash : dev'.flash[j].fw = dev.flash[j].fw
    BY <2>1, <2>2 DEF Stage, Result
  <2>4. CASE DeviceOK(dev') /\ pc' = "error"
    BY <1>1, <2>4, Known, ToolFails
  <2>5. CASE pc' = "reset"
    <3>1. pc \in AfterSave /\ pc \in AfterConfig /\ pc' \in AfterSave /\ pc \in AfterStop /\ pc' \in AfterErase
          /\ pc \in AfterOpen
      BY <1>1, <2>5, StageOrder
    <3>2. DeviceOK(dev') /\ dev'.cfg = dev.cfg
      BY <2>3, <2>5, Known
    <3>3. /\ Len(dev.flash) \in Nat /\ DOMAIN dev.flash = 1 .. Len(dev.flash)
          /\ Len(dev'.flash) = 0 => dev'.flash = <<>>
      BY <3>2, Known, FlashSlots DEF DeviceOK
    <3>4. FlashKept
      BY <2>3, <2>5, <3>3 DEF FlashKept
    <3>5. FlashWritten' /\ ImageLoaded'
      BY <1>1, <3>1, <3>4, FlashStays
    <3>6. ConfigLoaded'
      BY <1>1, <3>1, <3>2, FilesStay DEF ConfigLoaded, ToolState
    <3>7. ConfigSaved'
      <4>1. SUFFICES ASSUME config_record_buf # None, args.save
                     PROVE  /\ firmware_buf = None => fw_running
                            /\ dev'.flash[IF firmware_buf # None THEN slot ELSE args.index].cfg = Whole(config_record_buf)
        BY <1>1, FilesStay DEF ConfigSaved
      <4>2. SlotOf = IF firmware_buf # None THEN slot ELSE args.index
        <5>1. pc \in AfterStop /\ Rebooting => ~fw_running
          BY DEF ToolState, ArgumentsChecked
        <5>2. firmware_buf # None => ~fw_running
          BY <3>1, <5>1 DEF Rebooting
        <5> QED BY <1>3, <4>1, <5>2, Known DEF SlotOf
      <4>4. firmware_buf = None => fw_running
        BY <1>3, <4>1, Known DEF SlotOf
      <4>3. dev.cfg = Whole(config_record_buf)
        BY <3>1, <4>1 DEF ToolState, ConfigLoaded
      <4> QED BY <2>3, <2>5, <4>1, <4>2, <4>3, <4>4
    <3>8. ImageRead'
      <4>1. SUFFICES ASSUME args.from # 0
                     PROVE  /\ firmware_buf = None /\ ~args.erase
                            /\ args.from \in DOMAIN dev'.flash /\ dev'.ram = dev'.flash[args.from].fw
                            /\ config_record_buf = None => dev'.cfg = dev'.flash[args.from].cfg
        <5>1. pc' \in AfterConfig
          BY <2>5, StageOrder
        <5>2. UNCHANGED <<args, firmware_buf, config_record_buf>>
          BY <1>1, FilesStay
        <5> QED BY <5>1, <5>2 DEF ImageRead
      <4>2. ImageRead /\ pc \in AfterRead /\ firmware_buf = None /\ slot = None
        BY <4>1, <3>1, StageOrder DEF ToolState, ImageRead, ArgumentsChecked
      <4>3. ~fw_running
        BY <3>1, <4>1 DEF ToolState, ArgumentsChecked, Rebooting
      <4>4. dev' = dev
        BY <1>3, <2>2, <2>5, <4>2, <4>3 DEF Stage, SlotOf
      <4> QED BY <4>1, <4>2, <4>4 DEF ImageRead
    <3> QED BY <1>1, <3>1, <3>2, <3>5, <3>6, <3>7, <3>8, Known, FilesStay, LateStage
  <2> QED BY <2>3, <2>4, <2>5
<1> QED BY <1>2, <1>3

LEMMA SteadyStep ==
  ASSUME ToolState, pc \in AfterSaveConfig, pc' \in AfterSaveConfig \cup {"error"},
         UNCHANGED <<args, slot, fw_running>>, DeviceOK(dev'),
         dev'.ram = dev.ram, dev'.cfg = dev.cfg, dev'.flash = dev.flash
  PROVE  ToolState'
<1>1. CASE pc' = "error"
  BY <1>1, Known, ToolFails
<1>2. CASE pc' \in AfterSaveConfig
  <2>1. pc \in AfterSave /\ pc \in AfterConfig /\ pc' \in AfterSave /\ pc \in AfterStop /\ pc' \in AfterErase
    BY <1>2, StageOrder
  <2>2. FlashWritten' /\ ImageLoaded'
    BY <2>1, FlashStays DEF FlashKept
  <2>3. ConfigLoaded' /\ ConfigSaved'
    BY <2>1, FilesStay DEF ConfigLoaded, ConfigSaved, ToolState
  <2>4. ImageRead'
    <3>1. pc \in AfterRead /\ pc' \in AfterConfig /\ ImageRead
      BY <1>2, <2>1, StageOrder DEF ToolState
    <3>2. UNCHANGED <<args, firmware_buf, config_record_buf>>
      BY FilesStay
    <3> QED BY <2>1, <3>1, <3>2 DEF ImageRead
  <2> QED BY <2>1, <2>2, <2>3, <2>4, Known, FilesStay, LateStage
<1> QED BY <1>1, <1>2

LEMMA SoftResetStep ==
  ASSUME ToolState, SoftReset
  PROVE  ToolState'
<1>1. pc = "reset" /\ UNCHANGED <<args, slot, fw_running>>
  BY DEF SoftReset, Stage
<1>2. dev' = dev /\ pc' \in {"start", "error"}
  <2>1. \A r \in Command(dev, TRUE, dev) : r.dev = dev
    BY Returns DEF Command
  <2> QED BY <2>1 DEF SoftReset, Stage
<1>3. pc \in AfterSaveConfig /\ pc' \in AfterSaveConfig \cup {"error"}
  BY <1>1, <1>2, StageOrder
<1> QED BY <1>1, <1>2, <1>3, Known, SteadyStep

LEMMA StartStep ==
  ASSUME ToolState, Start
  PROVE  ToolState'
<1>1. pc = "start" /\ UNCHANGED <<args, slot, fw_running>>
  BY DEF Start, Stage
<1>2. \A r \in StartFirmware(dev) : Result(r) /\ r.dev.ram = dev.ram /\ r.dev.cfg = dev.cfg /\ r.dev.flash = dev.flash
  BY Known, StartResults
<1>3. DeviceOK(dev') /\ dev'.ram = dev.ram /\ dev'.cfg = dev.cfg /\ dev'.flash = dev.flash /\ pc' \in {"done", "error"}
  BY <1>2, Known DEF Start, Stage, Result
<1>4. pc \in AfterSaveConfig /\ pc' \in AfterSaveConfig \cup {"error"}
  BY <1>1, <1>3, StageOrder
<1> QED BY <1>1, <1>3, <1>4, SteadyStep

\* Every stage of the tool keeps what the stages before it did.
LEMMA ToolStep ==
  ASSUME ToolState, ToolNext
  PROVE  ToolState' /\ UNCHANGED args
<1>1. ToolState'
  BY OpenStep, StopStep, PrepareStep, FromFlashStep, EraseStep, LoadStep, SaveStep, ConfigStep, SaveConfigStep,
     SoftResetStep, StartStep DEF ToolNext
<1>2. UNCHANGED args
  BY DEF ToolNext, Open, Stop, Prepare, FromFlash, Erase, Load, Save, Config, SaveConfig, SoftReset, Start, Stage
<1> QED BY <1>1, <1>2

\* At the end of the try block that is all it was asked for.
LEMMA DoneFollows == ToolTypes /\ ToolInv => DoneAsAsked
<1>1. SUFFICES ASSUME ToolTypes, ToolInv, args # None PROVE
        /\ pc = "done" =>
             /\ firmware_buf # None => dev.ram = firmware_buf
             /\ config_record_buf # None => args.cr2 /\ dev.cfg = Whole(config_record_buf)
             /\ (args.save /\ firmware_buf # None) =>
                  /\ dev.flash[Len(dev.flash)].fw = firmware_buf
                  /\ config_record_buf # None => dev.flash[Len(dev.flash)].cfg = Whole(config_record_buf)
                  /\ args.erase => Len(dev.flash) = 1
             /\ (args.save /\ firmware_buf = None) =>
                  fw_running /\ dev.flash[args.index].cfg = Whole(config_record_buf)
             /\ args.from # 0 =>
                  /\ args.from \in DOMAIN dev.flash /\ dev.ram = dev.flash[args.from].fw
                  /\ config_record_buf = None => dev.cfg = dev.flash[args.from].cfg
             /\ (args.erase /\ ~args.save) => dev.flash = <<>>
        /\ pc = "crash" => args.save /\ config_record_buf # None /\ firmware_buf = None /\ ~fw_running
  BY DEF DoneAsAsked
<1>2. /\ ArgumentsChecked /\ FlashWritten /\ ImageRead /\ ImageLoaded /\ ConfigLoaded /\ ConfigSaved
      /\ pc = "crash" => args.save /\ config_record_buf # None /\ firmware_buf = None /\ ~fw_running
  BY <1>1 DEF ToolInv, SlotUnset
<1>3. SUFFICES ASSUME pc = "done" PROVE
        /\ firmware_buf # None => dev.ram = firmware_buf
        /\ config_record_buf # None => args.cr2 /\ dev.cfg = Whole(config_record_buf)
        /\ (args.save /\ firmware_buf # None) =>
             /\ dev.flash[Len(dev.flash)].fw = firmware_buf
             /\ config_record_buf # None => dev.flash[Len(dev.flash)].cfg = Whole(config_record_buf)
             /\ args.erase => Len(dev.flash) = 1
        /\ (args.save /\ firmware_buf = None) =>
             fw_running /\ dev.flash[args.index].cfg = Whole(config_record_buf)
        /\ args.from # 0 =>
             /\ args.from \in DOMAIN dev.flash /\ dev.ram = dev.flash[args.from].fw
             /\ config_record_buf = None => dev.cfg = dev.flash[args.from].cfg
        /\ (args.erase /\ ~args.save) => dev.flash = <<>>
  BY <1>2
<1>4. /\ pc \in AfterOpen /\ pc \in AfterRead /\ pc \in AfterLoad /\ pc \in AfterSave /\ pc \in AfterConfig
      /\ pc \in AfterSaveConfig
  BY <1>3, StageOrder
<1>5. /\ firmware_buf # None => dev.ram = firmware_buf
      /\ config_record_buf # None => args.cr2 /\ dev.cfg = Whole(config_record_buf)
  BY <1>2, <1>4 DEF ImageLoaded, ConfigLoaded
<1>6. args.save /\ firmware_buf # None =>
        /\ slot = Len(dev.flash) /\ dev.flash[slot].fw = firmware_buf /\ (args.erase => slot = 1)
  BY <1>2, <1>4 DEF FlashWritten, Saving
<1>7. config_record_buf # None /\ args.save =>
        /\ firmware_buf = None => fw_running
        /\ dev.flash[IF firmware_buf # None THEN slot ELSE args.index].cfg = Whole(config_record_buf)
  BY <1>2, <1>4 DEF ConfigSaved
<1>8. args.save /\ firmware_buf = None => config_record_buf # None
  BY <1>2, <1>4 DEF ArgumentsChecked
<1>9. args.from # 0 =>
        /\ args.from \in DOMAIN dev.flash /\ dev.ram = dev.flash[args.from].fw
        /\ config_record_buf = None => dev.cfg = dev.flash[args.from].cfg
  BY <1>2, <1>4 DEF ImageRead
<1>10. (args.erase /\ ~args.save) => dev.flash = <<>>
  BY <1>2, <1>4 DEF FlashWritten, Saving
<1> QED BY <1>5, <1>6, <1>7, <1>8, <1>9, <1>10

-----------------------------------------------------------------------------
(* What a request does. *)

\* What may become of the image in the device, by the type of the request.
Types == {"RD", "BR", "HR", "WR", "BW", "FA", "FB", "FC", "ER", "SF", "SC", "LF"}
ImageRight(type, x, file) ==
  /\ type \in {"RD", "BR", "HR", "WR", "BW", "FA", "FB"} => x.ok
  /\ type \notin Types => ~x.ok
  /\ type \in {"WR", "BW"} => x.dev.ram \in {dev.ram, None}
  /\ type = "FC" => IF x.ok THEN x.dev.ram = file ELSE x.dev.ram \in {dev.ram, Partial}
  /\ type \notin {"WR", "BW", "FC", "LF"} => x.dev.ram = dev.ram

ParseOK(c, h, r) ==
  LET piece == [client |-> c, k |-> h.k]
  IN /\ DeviceOK(r.dev) /\ r.ok \in BOOLEAN
     /\ r.file = IF h.type \in {"FA", "FB", "FC"} THEN FileWith(h.type, piece) ELSE s3File
     /\ ImageRight(h.type, r, r.file)

\* An answer carries the device and the file the request left.
LEMMA AnswersOf ==
  ASSUME NEW file, NEW results, \A x \in results : Result(x)
  PROVE  \A r \in Answers(file, results) :
           r.file = file /\ DeviceOK(r.dev) /\ r.ok \in BOOLEAN /\ \E x \in results : r.dev = x.dev /\ r.ok = x.ok
BY DEF Answers, Result

LEMMA StoredResults ==
  ASSUME DeviceOK(dev)
  PROVE  /\ \A r \in Then(InitFlash(dev, FALSE), SaveFirmwareToFlash) : Result(r) /\ r.dev.ram = dev.ram
         /\ \A r \in Then(InitFlash(dev, FALSE), LAMBDA e : LoadFirmwareFromFlash(e, 1)) : Result(r)
         /\ \A r \in SaveConfig2Flash(1) : Result(r) /\ r.dev.ram = dev.ram
         /\ \A r \in RegisterWrite : Result(r) /\ r.ok /\ r.dev.ram \in {dev.ram, None}
<1> DEFINE First == InitFlash(dev, FALSE)
<1>1. \A r \in First : Result(r) /\ r.dev.ram = dev.ram
  BY InitResults
<1>2. \A x \in First : DeviceOK(x.dev)
  BY <1>1 DEF Result
<1> HIDE DEF First
<1>3. \A r \in Then(First, SaveFirmwareToFlash) : Result(r) /\ r.dev.ram = dev.ram
  <2>1. \A x \in First : \A r \in SaveFirmwareToFlash(x.dev) : Result(r) /\ r.dev.ram = dev.ram
    BY <1>1, <1>2, SaveResults
  <2> QED BY <1>1, <2>1 DEF Then
<1>4. \A r \in Then(First, LAMBDA e : LoadFirmwareFromFlash(e, 1)) : Result(r)
  <2>1. \A x \in First : \A r \in LoadFirmwareFromFlash(x.dev, 1) : Result(r)
    BY <1>2, FromFlashResults
  <2> QED BY <1>1, <2>1 DEF Then
<1>5. \A r \in Then(First, LAMBDA e : SaveConfigToFlash(e, 1)) : Result(r) /\ r.dev.ram = dev.ram
  <2>1. \A x \in First : \A r \in SaveConfigToFlash(x.dev, 1) : Result(r) /\ r.dev.ram = dev.ram
    BY <1>1, <1>2, SaveConfigResults
  <2> QED BY <1>1, <2>1 DEF Then
<1>6. \A r \in SaveConfig2Flash(1) : Result(r) /\ r.dev.ram = dev.ram
  <2>1. \A r \in SaveConfigToFlash(dev, 1) : Result(r) /\ r.dev.ram = dev.ram
    BY SaveConfigResults
  <2> QED BY <1>5, <2>1 DEF SaveConfig2Flash, First
<1>7. \A r \in RegisterWrite : Result(r) /\ r.ok /\ r.dev.ram \in {dev.ram, None}
  <2>1. \A r \in {Ok(dev)} \cup StopFirmware(dev) \cup StartFirmware(dev) :
          Result(r) /\ r.dev.ram \in {dev.ram, None}
    BY Returned, Returns, StopResults, StartResults
  <2> QED BY <2>1 DEF RegisterWrite
<1> QED BY <1>3, <1>4, <1>6, <1>7 DEF First

\* Whatever the request, the device it leaves is one, with the image the type says; the file is
\* only touched by those that build it.
LEMMA ParseResults ==
  ASSUME DeviceOK(dev), NEW c, NEW h, NEW r \in ParseCmd(c, h)
  PROVE  ParseOK(c, h, r)
<1> DEFINE piece == [client |-> c, k |-> h.k]
           file == IF h.type \in {"FA", "FB", "FC"} THEN FileWith(h.type, piece) ELSE s3File
           Fits(x) == Result(x) /\ ImageRight(h.type, x, file)
<1>1. \E results : r \in Answers(file, results) /\ \A x \in results : Fits(x)
  <2>1. CASE h.type \in {"FA", "FB"}
    <3>1. r \in Answers(file, {Ok(dev)})
      BY <2>1 DEF ParseCmd, FirmwareLoading
    <3>2. Fits(Ok(dev))
      BY <2>1, Returned, Returns DEF ImageRight, Types
    <3> QED BY <3>1, <3>2
  <2>2. CASE h.type = "FC"
    <3>1. r \in Answers(file, {Err(dev)} \cup LoadFirmware(dev, file))
      BY <2>2 DEF ParseCmd, FirmwareLoading
    <3> HIDE DEF file
    <3>2. \A x \in {Err(dev)} \cup LoadFirmware(dev, file) :
            Result(x) /\ IF x.ok THEN x.dev.ram = file ELSE x.dev.ram \in {dev.ram, Partial}
      <4>1. ASSUME NEW x \in LoadFirmware(dev, file)
            PROVE  Result(x) /\ IF x.ok THEN x.dev.ram = file ELSE x.dev.ram \in {dev.ram, Partial}
        BY LoadResults
      <4>2. Result(Err(dev)) /\ ~Err(dev).ok /\ Err(dev).dev.ram = dev.ram
        BY Returned, Returns
      <4> QED BY <4>1, <4>2
    <3>3. \A x \in {Err(dev)} \cup LoadFirmware(dev, file) : Fits(x)
      BY <2>2, <3>2 DEF ImageRight, Types
    <3> QED BY <3>1, <3>3
  <2>3. CASE h.type \in {"RD", "BR", "HR"}
    <3>1. r \in Answers(file, {Ok(dev)})
      BY <2>3 DEF ParseCmd
    <3>2. Fits(Ok(dev))
      BY <2>3, Returned, Returns DEF ImageRight, Types
    <3> QED BY <3>1, <3>2
  <2>4. CASE h.type \in {"WR", "BW"}
    <3>1. r \in Answers(file, RegisterWrite)
      BY <2>4 DEF ParseCmd
    <3>2. \A x \in RegisterWrite : Fits(x)
      BY <2>4, StoredResults DEF ImageRight, Types
    <3> QED BY <3>1, <3>2
  <2>5. CASE h.type = "ER"
    <3>1. r \in Answers(file, EraseFlash(dev))
      BY <2>5 DEF ParseCmd
    <3>2. \A x \in EraseFlash(dev) : Fits(x)
      BY <2>5, EraseResults DEF ImageRight, Types
    <3> QED BY <3>1, <3>2
  <2>6. CASE h.type = "SF"
    <3>1. r \in Answers(file, Then(InitFlash(dev, FALSE), SaveFirmwareToFlash))
      BY <2>6 DEF ParseCmd
    <3>2. \A x \in Then(InitFlash(dev, FALSE), SaveFirmwareToFlash) : Fits(x)
      BY <2>6, StoredResults DEF ImageRight, Types
    <3> QED BY <3>1, <3>2
  <2>7. CASE h.type = "SC"
    <3>1. r \in Answers(file, SaveConfig2Flash(1))
      BY <2>7 DEF ParseCmd
    <3>2. \A x \in SaveConfig2Flash(1) : Fits(x)
      BY <2>7, StoredResults DEF ImageRight, Types
    <3> QED BY <3>1, <3>2
  <2>8. CASE h.type = "LF"
    <3>1. r \in Answers(file, Then(InitFlash(dev, FALSE), LAMBDA e : LoadFirmwareFromFlash(e, 1)))
      BY <2>8 DEF ParseCmd
    <3>2. \A x \in Then(InitFlash(dev, FALSE), LAMBDA e : LoadFirmwareFromFlash(e, 1)) : Fits(x)
      BY <2>8, StoredResults DEF ImageRight, Types
    <3> QED BY <3>1, <3>2
  <2>9. CASE h.type \notin Types
    <3>1. r \in Answers(file, {Err(dev)})
      BY <2>9 DEF ParseCmd, Types
    <3>2. Fits(Err(dev))
      BY <2>9, Returned, Returns DEF ImageRight, Types
    <3> QED BY <3>1, <3>2
  <2> QED BY <2>1, <2>2, <2>3, <2>4, <2>5, <2>6, <2>7, <2>8, <2>9 DEF Types
<1>2. r.file = file /\ DeviceOK(r.dev) /\ r.ok \in BOOLEAN /\ ImageRight(h.type, r, file)
  <2>1. PICK results : r \in Answers(file, results) /\ \A x \in results : Fits(x)
    BY <1>1
  <2>2. PICK x \in results : r.dev = x.dev /\ r.ok = x.ok /\ r.file = file
    BY <2>1, AnswersOf
  <2>3. Result(x) /\ ImageRight(h.type, x, file)
    BY <2>1, <2>2
  <2> HIDE DEF file
  <2> QED BY <2>2, <2>3 DEF Result, ImageRight
<1> QED BY <1>2 DEF ParseOK

-----------------------------------------------------------------------------
(* The file a client has begun. *)

\* A request that is no part of a file leaves it as it was; an FA starts one; FB and FC add to it.
LEMMA PartsStep ==
  ASSUME NEW c, NEW n \in Nat
  PROVE  LET type == Scripts[c][n + 1].type
         IN /\ HasBegun(c, n + 1) <=> HasBegun(c, n) \/ type = "FA"
            /\ type = "FA" => Parts(c, n + 1) = {n + 1}
            /\ type \in {"FB", "FC"} => Parts(c, n + 1) = Parts(c, n) \cup {n + 1}
            /\ type \notin {"FA", "FB", "FC"} => Parts(c, n + 1) = Parts(c, n)
            /\ Parts(c, n) \subseteq 1 .. n
<1> DEFINE type == Scripts[c][n + 1].type
           Part(m, k) == /\ Scripts[c][m].type \in {"FA", "FB", "FC"}
                         /\ \A j \in m + 1 .. k : Scripts[c][j].type # "FA"
<1>1. \A m : m \in 1 .. n + 1 <=> m \in 1 .. n \/ m = n + 1
  OBVIOUS
<1>2. HasBegun(c, n + 1) <=> HasBegun(c, n) \/ type = "FA"
  BY <1>1 DEF HasBegun
<1>3. \A k : \A m : m \in Parts(c, k) <=> m \in 1 .. k /\ Part(m, k)
  BY DEF Parts
<1>4. ASSUME NEW m \in 1 .. n PROVE Part(m, n + 1) <=> Part(m, n) /\ type # "FA"
  <2>1. \A j : j \in m + 1 .. n + 1 <=> j \in m + 1 .. n \/ j = n + 1
    OBVIOUS
  <2> QED BY <2>1
<1>5. Part(n + 1, n + 1) <=> type \in {"FA", "FB", "FC"}
  <2>1. \A j : ~(j \in (n + 1) + 1 .. n + 1)
    OBVIOUS
  <2> QED BY <2>1
<1>6. \A m : m \in Parts(c, n + 1) <=>
        (m \in 1 .. n /\ Part(m, n) /\ type # "FA") \/ (m = n + 1 /\ type \in {"FA", "FB", "FC"})
  <2> HIDE DEF Part, type
  <2> QED BY <1>1, <1>3, <1>4, <1>5
<1>7. \A m : m \in Parts(c, n + 1) <=>
        (m \in Parts(c, n) /\ type # "FA") \/ (m = n + 1 /\ type \in {"FA", "FB", "FC"})
  <2> HIDE DEF Part, type
  <2> QED BY <1>3, <1>6
<1> HIDE DEF Part
<1>8. Parts(c, n) \subseteq 1 .. n
  BY <1>3
<1>9. type = "FA" => Parts(c, n + 1) = {n + 1}
  BY <1>7
<1>10. type \in {"FB", "FC"} => Parts(c, n + 1) = Parts(c, n) \cup {n + 1}
  BY <1>7
<1>11. type \notin {"FA", "FB", "FC"} => Parts(c, n + 1) = Parts(c, n)
  BY <1>7
<1> QED BY <1>2, <1>8, <1>9, <1>10, <1>11

\* The file after the request holds the parts of the file after the request.
LEMMA FileStep ==
  ASSUME NEW c \in Clients, NEW n \in Nat, NEW h, h.k = n + 1, h.type = Scripts[c][n + 1].type, ~Raises(h),
         s3File \in File \cup {None}, HasBegun(c, n) => s3File # None /\ Holds(s3File, c, n),
         NEW r, ParseOK(c, h, r)
  PROVE  /\ r.file \in File \cup {None}
         /\ HasBegun(c, n + 1) => r.file # None /\ Holds(r.file, c, n + 1)
<1> DEFINE piece == [client |-> c, k |-> h.k]
<1>1. piece \in [client : Clients, k : Nat] /\ piece.client = c /\ piece.k = n + 1
  OBVIOUS
<1> HIDE DEF piece
<1>2. r.file = IF h.type \in {"FA", "FB", "FC"} THEN FileWith(h.type, piece) ELSE s3File
  BY DEF ParseOK, piece
<1>3. None \notin File
  BY MiTunerOK DEF File
<1>4. CASE h.type = "FA"
  <2>1. r.file = <<piece>>
    BY <1>2, <1>4 DEF FileWith
  <2>2. <<piece>> \in File
    BY <1>1 DEF File
  <2>3. Parts(c, n + 1) = {n + 1}
    BY <1>4, PartsStep, ZenonT(60)
  <2>4. DOMAIN <<piece>> = {1} /\ <<piece>>[1] = piece
    OBVIOUS
  <2>5. Holds(<<piece>>, c, n + 1)
    BY <1>1, <2>3, <2>4 DEF Holds
  <2> QED BY <1>3, <2>1, <2>2, <2>5
<1>5. CASE h.type \in {"FB", "FC"}
  <2>1. s3File \in File /\ r.file = Append(s3File, piece)
    BY <1>2, <1>5 DEF FileWith, Raises
  <2>2. PICK m \in Nat : m = Len(s3File) /\ DOMAIN s3File = 1 .. m
    BY <2>1 DEF File
  <2>3. Append(s3File, piece) \in File
    BY <1>1, <2>1 DEF File
  <2>4. DOMAIN Append(s3File, piece) = 1 .. m + 1 /\ Append(s3File, piece)[m + 1] = piece
        /\ \A i \in 1 .. m : Append(s3File, piece)[i] = s3File[i]
    BY <2>1, <2>2 DEF File
  <2>5. ASSUME HasBegun(c, n + 1) PROVE Holds(Append(s3File, piece), c, n + 1)
    <3> DEFINE f == Append(s3File, piece)
    <3>1. Holds(s3File, c, n) /\ Parts(c, n + 1) = Parts(c, n) \cup {n + 1} /\ Parts(c, n) \subseteq 1 .. n
      BY <1>5, <2>5, PartsStep
    <3>2. /\ \A i \in 1 .. m : s3File[i].client = c
          /\ {s3File[i].k : i \in 1 .. m} = Parts(c, n)
          /\ \A i, j \in 1 .. m : i < j => s3File[i].k < s3File[j].k
      BY <2>2, <3>1 DEF Holds
    <3>3. \A i \in 1 .. m : s3File[i].k \in 1 .. n
      BY <3>1, <3>2
    <3>4. DOMAIN f = 1 .. m + 1 /\ f[m + 1] = piece /\ \A i \in 1 .. m : f[i] = s3File[i]
      BY <2>4
    <3> HIDE DEF f
    <3>5. \A i \in 1 .. m + 1 : i \in 1 .. m \/ i = m + 1
      OBVIOUS
    <3>6. \A i \in 1 .. m + 1 : f[i].client = c
      BY <1>1, <3>2, <3>4, <3>5
    <3>7. {f[i].k : i \in 1 .. m + 1} = Parts(c, n) \cup {n + 1}
      <4>1. \A i \in 1 .. m : f[i].k = s3File[i].k
        BY <3>4
      <4>2. f[m + 1].k = n + 1 /\ m + 1 \in 1 .. m + 1 /\ \A i \in 1 .. m : i \in 1 .. m + 1
        BY <1>1, <3>4
      <4>3. \A x : x \in Parts(c, n) <=> \E i \in 1 .. m : x = s3File[i].k
        BY <3>2
      <4>4. \A x : x \in {f[i].k : i \in 1 .. m + 1} <=> x \in Parts(c, n) \/ x = n + 1
        BY <3>5, <4>1, <4>2, <4>3
      <4> QED BY <4>4
    <3>8. ASSUME NEW i \in 1 .. m + 1, NEW j \in 1 .. m + 1, i < j PROVE f[i].k < f[j].k
      <4>1. i \in 1 .. m
        BY <3>8
      <4>2. CASE j = m + 1
        BY <1>1, <3>3, <3>4, <4>1, <4>2
      <4>3. CASE j \in 1 .. m
        BY <3>2, <3>4, <3>8, <4>1, <4>3
      <4> QED BY <3>5, <4>2, <4>3
    <3>9. Holds(f, c, n + 1)
      BY <3>1, <3>4, <3>6, <3>7, <3>8 DEF Holds
    <3> QED BY <3>9 DEF f
  <2> QED BY <1>3, <2>1, <2>3, <2>5
<1>6. CASE h.type \notin {"FA", "FB", "FC"}
  <2>1. Parts(c, n + 1) = Parts(c, n) /\ (HasBegun(c, n + 1) <=> HasBegun(c, n)) /\ r.file = s3File
    BY <1>2, <1>6, PartsStep
  <2> QED BY <2>1 DEF Holds
<1> QED BY <1>4, <1>5, <1>6

-----------------------------------------------------------------------------
(* The clients. *)

Client == [st : {"new", "open", "eof", "reset"}, sent : Nat, answers : Seq(Answer), unread : Nat]

LEMMA ClientFields ==
  ASSUME NEW x \in Client
  PROVE  /\ x.st \in {"new", "open", "eof", "reset"} /\ x.sent \in Nat /\ x.unread \in Nat /\ x.answers \in Seq(Answer)
         /\ \A v \in {"new", "open", "eof", "reset"} : [x EXCEPT !.st = v] \in Client
         /\ \A v \in Nat : [x EXCEPT !.sent = v] \in Client /\ [x EXCEPT !.unread = v] \in Client
BY DEF Client

\* What a step may do to a client that is not being answered.
Moves(x, y) ==
  /\ x \in Client /\ y \in Client /\ y.answers = x.answers /\ x.st # "new" /\ y.st # "new"
  /\ (y.st = "open" => x.st = "open") /\ y.sent >= x.sent /\ y.unread <= x.unread

\* One client moved and the server did not: everything it has taken is still there.
LEMMA ClientMoves ==
  ASSUME ToolTypes, ToolInv, ServerInv, NEW c \in Clients, NEW y, Moves(cl[c], y), y.sent <= End(c, Length(c)),
         cl' = [cl EXCEPT ![c] = y],
         UNCHANGED <<dev, tool, srv, queue, peer, got, used, waitType, header, s3File>>
  PROVE  IInv'
<1>1. cl \in [Clients -> Client] /\ cl' \in [Clients -> Client] /\ cl'[c] = y /\ \A d \in Clients : d # c => cl'[d] = cl[d]
  BY DEF ServerInv, ServerTypes, Moves, Client
<1>2. \A d \in Clients : /\ cl'[d].answers = cl[d].answers /\ (cl'[d].st = "new" <=> cl[d].st = "new")
                         /\ (cl'[d].st = "open" => cl[d].st = "open") /\ cl'[d].sent >= cl[d].sent
                         /\ cl'[d].unread <= cl[d].unread /\ cl[d].sent \in Nat /\ cl'[d].sent \in Nat
                         /\ cl'[d].unread \in Nat /\ cl[d].unread \in Nat /\ Len(cl[d].answers) \in Nat
                         /\ (d # c => cl'[d].sent = cl[d].sent)
  <2> SUFFICES ASSUME NEW d \in Clients
               PROVE  /\ cl'[d].answers = cl[d].answers /\ (cl'[d].st = "new" <=> cl[d].st = "new")
                      /\ (cl'[d].st = "open" => cl[d].st = "open") /\ cl'[d].sent >= cl[d].sent
                      /\ cl'[d].unread <= cl[d].unread /\ cl[d].sent \in Nat /\ cl'[d].sent \in Nat
                      /\ cl'[d].unread \in Nat /\ cl[d].unread \in Nat /\ Len(cl[d].answers) \in Nat
                      /\ (d # c => cl'[d].sent = cl[d].sent)
    OBVIOUS
  <2>1. cl[d] \in Client /\ cl'[d] \in Client
    BY <1>1
  <2>2. /\ cl[d].sent \in Nat /\ cl[d].unread \in Nat /\ cl[d].answers \in Seq(Answer)
        /\ cl'[d].sent \in Nat /\ cl'[d].unread \in Nat
    BY <2>1, ClientFields
  <2>3. CASE d = c
    BY <1>1, <2>2, <2>3 DEF Moves
  <2>4. CASE d # c
    BY <1>1, <2>2, <2>4
  <2> QED BY <2>3, <2>4
<1>3. ToolTypes' /\ ToolInv'
  BY FilesStay DEF ToolTypes, ToolInv, tool, ArgumentsChecked, FlashWritten, ImageRead, ImageLoaded, ConfigLoaded,
                   ConfigSaved, SlotUnset
<1>4. ServerTypes'
  <2>1. peer # None => got <= cl'[peer].sent
    BY <1>2 DEF ServerInv, ServerTypes
  <2> QED BY <1>1, <2>1 DEF ServerInv, ServerTypes, Client, tool
<1>5. Queued'
  BY <1>2 DEF ServerInv, Queued
<1>6. Answered'
  <2> SUFFICES ASSUME NEW d \in Clients PROVE AnsweredOf(d)'
    BY DEF Answered
  <2>1. AnsweredOf(d)
    BY DEF ServerInv, Answered
  <2>2. d = c => cl'[d].sent <= End(d, Length(d))
    BY <1>1
  <2>3. Length(d) \in Nat /\ End(d, Length(d)) \in Nat /\ \A i \in 0 .. Length(d) : End(d, i) \in Nat
    BY EndStep, EndGrows
  <2>4. \A i \in DOMAIN cl[d].answers : cl[d].answers[i].k = i /\ End(d, i) <= cl'[d].sent
    <3> SUFFICES ASSUME NEW i \in DOMAIN cl[d].answers PROVE cl[d].answers[i].k = i /\ End(d, i) <= cl'[d].sent
      OBVIOUS
    <3>1. cl[d].answers[i].k = i /\ End(d, i) <= cl[d].sent /\ Len(cl[d].answers) <= Length(d)
      BY <2>1 DEF AnsweredOf
    <3>2. cl[d].answers \in Seq(Answer)
      BY <1>1, ClientFields
    <3>3. i \in 0 .. Length(d)
      BY <2>3, <3>1, <3>2
    <3> QED BY <1>2, <2>3, <3>1, <3>3
  <2>5. (cl'[d].st = "new" => d # peer' /\ cl'[d].answers = <<>>)
    BY <1>2, <2>1 DEF AnsweredOf
  <2>6. Len(cl'[d].answers) <= Length(d) /\ cl'[d].sent <= End(d, Length(d)) /\ cl'[d].unread <= Len(cl'[d].answers)
    BY <1>2, <2>1, <2>2, <2>3 DEF AnsweredOf
  <2> QED BY <1>2, <2>4, <2>5, <2>6 DEF AnsweredOf
<1>7. peer # None => cl'[peer].answers = cl[peer].answers /\ (cl'[peer].st = "open" => cl[peer].st = "open")
  BY <1>2 DEF ServerInv, ServerTypes
<1>8. srv = "recv" => peer # None
  BY DEF ServerInv, ServerTypes
<1>9. Serving'
  <2> SUFFICES ASSUME srv = "recv" PROVE \E n \in 0 .. Length(peer) : Taken(n)'
    BY DEF Serving
  <2>1. PICK n \in 0 .. Length(peer) : Taken(n)
    BY DEF ServerInv, Serving
  <2>2. Taken(n)'
    BY <1>7, <1>8, <2>1 DEF Taken
  <2> QED BY <2>2
<1>10. FileLoaded'
  BY <1>7, <1>8 DEF ServerInv, FileLoaded
<1> QED BY <1>3, <1>4, <1>5, <1>6, <1>9, <1>10 DEF IInv, ServerInv

\* A client may send up to the end of its script.
LEMMA MaySendBound ==
  ASSUME ServerInv, NEW c \in Clients
  PROVE  MaySend(c) \in Nat /\ MaySend(c) <= End(c, Length(c))
<1>1. Length(c) \in Nat /\ End(c, Length(c)) \in Nat
  BY EndStep, EndGrows
<1>2. cl[c].sent \in Nat /\ cl[c].sent <= End(c, Length(c)) /\ Len(cl[c].answers) \in Nat
  <2>1. cl[c] \in Client
    BY DEF ServerInv, ServerTypes, Client
  <2>2. cl[c].sent \in Nat /\ cl[c].answers \in Seq(Answer)
    BY <2>1, ClientFields
  <2> QED BY <2>2 DEF ServerInv, Answered, AnsweredOf
<1> DEFINE k == Len(cl[c].answers) + 1
           m == IF k > Length(c) THEN Length(c) ELSE k
<1>3. m \in 0 .. Length(c)
  BY <1>1, <1>2
<1>4. MaySend(c) = End(c, Length(c)) \/ MaySend(c) = End(c, m) \/ MaySend(c) = cl[c].sent
  BY DEF MaySend
<1> HIDE DEF m
<1>5. End(c, m) \in Nat /\ End(c, m) <= End(c, Length(c))
  <2>1. Length(c) \in 0 .. Length(c)
    BY <1>1
  <2> QED BY <1>3, <2>1, EndGrows
<1> QED BY <1>1, <1>2, <1>4, <1>5

LEMMA ReadLeaveSendStep ==
  ASSUME ToolTypes, ToolInv, ServerInv, NEW c \in Clients,
         ReadAnswer(c) \/ Leave(c) \/ \E n \in 1 .. MaySend(c) - cl[c].sent : Send(c, n)
  PROVE  IInv'
<1>1. cl[c] \in Client /\ cl \in [Clients -> Client]
  BY DEF ServerInv, ServerTypes, Client
<1>2. cl[c].sent \in Nat /\ cl[c].unread \in Nat /\ cl[c].sent <= End(c, Length(c)) /\ End(c, Length(c)) \in Nat
  <2>1. cl[c].sent \in Nat /\ cl[c].unread \in Nat
    BY <1>1, ClientFields
  <2>2. End(c, Length(c)) \in Nat
    BY EndStep, EndGrows
  <2> QED BY <2>1, <2>2 DEF ServerInv, Answered, AnsweredOf
<1>3. CASE ReadAnswer(c)
  <2> DEFINE y == [cl[c] EXCEPT !.unread = cl[c].unread - 1]
  <2>1. cl[c].st = "open" /\ cl[c].unread > 0 /\ cl' = [cl EXCEPT ![c] = y]
        /\ UNCHANGED <<dev, tool, srv, queue, peer, got, used, waitType, header, s3File>>
    BY <1>3, <1>1 DEF ReadAnswer
  <2>2. cl[c].unread - 1 \in Nat
    BY <1>2, <2>1
  <2>3. y \in Client
    BY <1>1, <2>2, ClientFields
  <2>4. y.answers = cl[c].answers /\ y.st = cl[c].st /\ y.sent = cl[c].sent /\ y.unread = cl[c].unread - 1
    BY <1>1 DEF Client
  <2> HIDE DEF y
  <2>5. Moves(cl[c], y) /\ y.sent <= End(c, Length(c))
    BY <1>1, <1>2, <2>1, <2>3, <2>4 DEF Moves
  <2> QED BY <2>1, <2>5, ClientMoves
<1>4. CASE Leave(c)
  <2> DEFINE v == IF cl[c].unread > 0 THEN "reset" ELSE "eof"
             y == [cl[c] EXCEPT !.st = v]
  <2>1. cl[c].st = "open" /\ cl' = [cl EXCEPT ![c] = y]
        /\ UNCHANGED <<dev, tool, srv, queue, peer, got, used, waitType, header, s3File>>
    BY <1>4, <1>1 DEF Leave
  <2>2. v \in {"reset", "eof"}
    OBVIOUS
  <2> HIDE DEF v
  <2>3. y \in Client
    BY <1>1, <2>2, ClientFields
  <2>4. y.answers = cl[c].answers /\ y.st = v /\ y.sent = cl[c].sent /\ y.unread = cl[c].unread
    BY <1>1 DEF Client
  <2> HIDE DEF y
  <2>5. Moves(cl[c], y) /\ y.sent <= End(c, Length(c))
    BY <1>1, <1>2, <2>1, <2>2, <2>3, <2>4 DEF Moves
  <2> QED BY <2>1, <2>5, ClientMoves
<1>5. CASE \E n \in 1 .. MaySend(c) - cl[c].sent : Send(c, n)
  <2>1. PICK n \in 1 .. MaySend(c) - cl[c].sent : Send(c, n)
    BY <1>5
  <2> DEFINE y == [cl[c] EXCEPT !.sent = cl[c].sent + n]
  <2>2. cl[c].st = "open" /\ cl' = [cl EXCEPT ![c] = y] /\ cl[c].sent + n <= MaySend(c)
        /\ UNCHANGED <<dev, tool, srv, queue, peer, got, used, waitType, header, s3File>>
    BY <2>1, <1>1 DEF Send
  <2>3. MaySend(c) \in Nat /\ MaySend(c) <= End(c, Length(c))
    BY MaySendBound
  <2>4. n \in Nat /\ n > 0 /\ cl[c].sent + n \in Nat
    BY <1>2, <2>3
  <2>5. y \in Client
    BY <1>1, <2>4, ClientFields
  <2>6. y.answers = cl[c].answers /\ y.st = cl[c].st /\ y.sent = cl[c].sent + n /\ y.unread = cl[c].unread
    BY <1>1 DEF Client
  <2> HIDE DEF y
  <2>7. Moves(cl[c], y) /\ y.sent <= End(c, Length(c))
    BY <1>1, <1>2, <2>2, <2>3, <2>4, <2>5, <2>6 DEF Moves
  <2> QED BY <2>2, <2>7, ClientMoves
<1> QED BY <1>3, <1>4, <1>5

\* What is known of the clients and of the queue while the server is up.
LEMMA ClientsKnown ==
  ASSUME ServerInv, NEW c \in Clients
  PROVE  /\ cl \in [Clients -> Client] /\ cl[c] \in Client /\ cl[c].sent \in Nat /\ cl[c].unread \in Nat
         /\ cl[c].answers \in Seq(Answer) /\ Len(cl[c].answers) \in Nat /\ AnsweredOf(c)
         /\ Length(c) \in Nat /\ End(c, Length(c)) \in Nat
<1>1. cl \in [Clients -> Client] /\ cl[c] \in Client
  BY DEF ServerInv, ServerTypes, Client
<1>2. cl[c].sent \in Nat /\ cl[c].unread \in Nat /\ cl[c].answers \in Seq(Answer)
  BY <1>1, ClientFields
<1>3. Length(c) \in Nat /\ End(c, Length(c)) \in Nat
  BY EndStep, EndGrows
<1> QED BY <1>1, <1>2, <1>3 DEF ServerInv, Answered

LEMMA ToolIdle ==
  ASSUME ToolTypes, ToolInv, UNCHANGED tool, DeviceOK(dev'), args = None
  PROVE  ToolTypes' /\ ToolInv'
BY DEF ToolTypes, ToolInv, tool

LEMMA ServerUp ==
  ASSUME ServerInv, srv # "off"
  PROVE  args = None
BY DEF ServerInv, ServerTypes

LEMMA ConnectStep ==
  ASSUME ToolTypes, ToolInv, ServerInv, NEW c \in Clients, Connect(c)
  PROVE  IInv'
<1>1. /\ srv \in {"accept", "recv"} /\ cl[c].st = "new" /\ Len(queue) < Backlog
      /\ cl' = [cl EXCEPT ![c].st = "open"] /\ queue' = Append(queue, c)
      /\ UNCHANGED <<dev, tool, srv, peer, got, used, waitType, header, s3File>>
  BY DEF Connect
<1>2. AnsweredOf(c) /\ cl \in [Clients -> Client] /\ cl[c] \in Client
  BY ClientsKnown
<1>3. c # peer /\ cl[c].answers = <<>>
  BY <1>1, <1>2 DEF AnsweredOf
<1> DEFINE y == [cl[c] EXCEPT !.st = "open"]
<1>4. y \in Client /\ y.st = "open" /\ y.answers = cl[c].answers /\ y.sent = cl[c].sent /\ y.unread = cl[c].unread
  <2>1. y \in Client
    BY <1>2, ClientFields
  <2> QED BY <1>2, <2>1 DEF Client
<1>5. cl' = [cl EXCEPT ![c] = y]
  BY <1>1, <1>2
<1> HIDE DEF y
<1>6. cl' \in [Clients -> Client] /\ cl'[c] = y /\ \A d \in Clients : d # c => cl'[d] = cl[d]
  BY <1>2, <1>4, <1>5
<1>7. \A d \in Clients : /\ cl'[d].answers = cl[d].answers /\ cl'[d].sent = cl[d].sent /\ cl'[d].unread = cl[d].unread
                         /\ (cl'[d].st = "new" => cl[d].st = "new")
  BY <1>4, <1>6
<1>8. DeviceOK(dev') /\ args = None
  BY <1>1, ServerUp DEF ToolTypes
<1>9. ToolTypes' /\ ToolInv'
  BY <1>1, <1>8, ToolIdle
<1>10. ServerTypes'
  <2>1. peer # None => got <= cl'[peer].sent
    BY <1>7 DEF ServerInv, ServerTypes
  <2> QED BY <1>1, <1>6, <2>1 DEF ServerInv, ServerTypes, Client, tool
<1>11. Queued'
  <2>1. queue \in Seq(Clients) /\ \A i \in DOMAIN queue : /\ cl[queue[i]].st # "new" /\ cl[queue[i]].answers = <<>>
          /\ queue[i] # peer /\ \A j \in DOMAIN queue : queue[i] = queue[j] => i = j
    BY DEF ServerInv, Queued
  <2>2. PICK n \in Nat : n = Len(queue) /\ DOMAIN queue = 1 .. n
    BY <2>1
  <2>3. /\ queue' \in Seq(Clients) /\ Len(queue') = n + 1 /\ DOMAIN queue' = 1 .. n + 1
        /\ queue'[n + 1] = c /\ \A i \in 1 .. n : queue'[i] = queue[i] /\ queue[i] \in Clients
    BY <1>1, <2>1, <2>2
  <2>4. \A i \in 1 .. n + 1 : i \in 1 .. n \/ i = n + 1
    OBVIOUS
  <2>5. \A i \in 1 .. n : queue[i] # c
    BY <1>1, <2>1, <2>2
  <2>6. Len(queue') <= Backlog
    BY <1>1, <2>2, <2>3, MiTunerOK
  <2>7. ASSUME NEW i \in 1 .. n + 1
        PROVE  cl'[queue'[i]].st # "new" /\ cl'[queue'[i]].answers = <<>> /\ queue'[i] # peer
    <3>1. CASE i = n + 1
      BY <1>3, <1>4, <1>6, <2>3, <3>1
    <3>2. CASE i \in 1 .. n
      BY <1>7, <2>1, <2>2, <2>3, <3>2
    <3> QED BY <2>4, <3>1, <3>2
  <2>8. ASSUME NEW i \in 1 .. n + 1, NEW j \in 1 .. n + 1, queue'[i] = queue'[j] PROVE i = j
    BY <2>1, <2>2, <2>3, <2>4, <2>5, <2>8
  <2> QED BY <1>1, <2>3, <2>6, <2>7, <2>8 DEF Queued
<1>12. Answered'
  <2> SUFFICES ASSUME NEW d \in Clients PROVE AnsweredOf(d)'
    BY DEF Answered
  <2>1. AnsweredOf(d)
    BY ClientsKnown
  <2> QED BY <1>1, <1>7, <2>1 DEF AnsweredOf
<1>13. srv = "recv" => peer \in Clients /\ cl'[peer] = cl[peer]
  BY <1>3, <1>6 DEF ServerInv, ServerTypes
<1>14. Serving'
  <2> SUFFICES ASSUME srv = "recv" PROVE \E n \in 0 .. Length(peer) : Taken(n)'
    BY <1>1 DEF Serving
  <2>1. PICK n \in 0 .. Length(peer) : Taken(n)
    BY DEF ServerInv, Serving
  <2>2. Taken(n)'
    BY <1>1, <1>13, <2>1 DEF Taken
  <2> QED BY <2>2
<1>15. FileLoaded'
  BY <1>1, <1>13 DEF ServerInv, FileLoaded
<1> QED BY <1>9, <1>10, <1>11, <1>12, <1>14, <1>15 DEF IInv, ServerInv

-----------------------------------------------------------------------------
(* The server. *)

LEMMA AcceptStep ==
  ASSUME ToolTypes, ToolInv, ServerInv, Accept
  PROVE  IInv'
<1>1. /\ srv = "accept" /\ queue # <<>> /\ srv' = "recv" /\ peer' = Head(queue) /\ queue' = Tail(queue)
      /\ got' = 0 /\ used' = 0 /\ waitType' = "header" /\ UNCHANGED <<dev, tool, cl, s3File>>
  BY DEF Accept
<1>2. queue \in Seq(Clients) /\ Len(queue) <= Backlog /\ \A i \in DOMAIN queue :
        /\ cl[queue[i]].st # "new" /\ cl[queue[i]].answers = <<>>
        /\ \A j \in DOMAIN queue : queue[i] = queue[j] => i = j
  BY DEF ServerInv, Queued
<1>3. PICK n \in Nat : n = Len(queue) /\ DOMAIN queue = 1 .. n /\ n > 0
  BY <1>1, <1>2
<1>4. /\ peer' = queue[1] /\ peer' \in Clients /\ 1 \in DOMAIN queue
      /\ queue' \in Seq(Clients) /\ Len(queue') = n - 1 /\ DOMAIN queue' = 1 .. n - 1
      /\ \A i \in 1 .. n - 1 : queue'[i] = queue[i + 1] /\ i + 1 \in DOMAIN queue
  BY <1>1, <1>2, <1>3
<1>5. cl[peer'].st # "new" /\ cl[peer'].answers = <<>> /\ cl[peer'].sent \in Nat
  BY <1>2, <1>4, ClientsKnown
<1>6. DeviceOK(dev') /\ args = None /\ None \notin Clients
  BY <1>1, ServerUp, MiTunerOK DEF ToolTypes
<1>7. ToolTypes' /\ ToolInv'
  BY <1>1, <1>6, ToolIdle
<1>8. ServerTypes'
  <2>1. 0 <= cl[peer'].sent
    BY <1>5
  <2> QED BY <1>1, <1>4, <1>6, <2>1 DEF ServerInv, ServerTypes, tool
<1>9. Queued'
  <2>1. Len(queue') <= Backlog
    BY <1>2, <1>3, <1>4, MiTunerOK
  <2>2. ASSUME NEW i \in 1 .. n - 1
        PROVE  cl[queue'[i]].st # "new" /\ cl[queue'[i]].answers = <<>> /\ queue'[i] # peer'
    BY <1>2, <1>4
  <2>3. ASSUME NEW i \in 1 .. n - 1, NEW j \in 1 .. n - 1, queue'[i] = queue'[j] PROVE i = j
    <3>1. i + 1 = j + 1
      BY <1>2, <1>4, <2>3
    <3> QED BY <3>1
  <2> QED BY <1>1, <1>4, <2>1, <2>2, <2>3 DEF Queued
<1>10. Answered'
  <2> SUFFICES ASSUME NEW d \in Clients PROVE AnsweredOf(d)'
    BY DEF Answered
  <2>1. AnsweredOf(d)
    BY ClientsKnown
  <2> QED BY <1>1, <1>5, <2>1 DEF AnsweredOf
<1>11. Serving'
  <2>1. Len(cl[peer'].answers) = 0
    BY <1>5
  <2>2. ~HasBegun(peer', 0)
    BY DEF HasBegun
  <2>3. End(peer', 0) = 0 /\ Length(peer') \in Nat
    BY <1>4, EndStep
  <2>4. Taken(0)'
    BY <1>1, <2>1, <2>2, <2>3 DEF Taken
  <2> QED BY <2>3, <2>4 DEF Serving
<1>12. FileLoaded'
  BY <1>1, <1>5 DEF FileLoaded
<1> QED BY <1>7, <1>8, <1>9, <1>10, <1>11, <1>12 DEF IInv, ServerInv

LEMMA ClosedStep ==
  ASSUME ToolTypes, ToolInv, ServerInv, Closed \/ ShutDown
  PROVE  IInv'
<1>1. /\ srv = "recv" /\ UNCHANGED <<dev, tool, cl, queue, s3File>>
      /\ \/ srv' = "accept" /\ peer' = None /\ got' = 0 /\ used' = 0 /\ waitType' = "header"
         \/ srv' = "down" /\ UNCHANGED <<peer, got, used, waitType>>
  BY DEF Closed, ShutDown
<1>2. DeviceOK(dev') /\ args = None /\ None \notin Clients
  BY <1>1, ServerUp, MiTunerOK DEF ToolTypes
<1>3. ToolTypes' /\ ToolInv'
  BY <1>1, <1>2, ToolIdle
<1>4. ServerTypes'
  BY <1>1, <1>2 DEF ServerInv, ServerTypes, tool
<1>5. Queued'
  <2>1. queue \in Seq(Clients) /\ \A i \in DOMAIN queue : queue[i] # peer
    BY DEF ServerInv, Queued
  <2>2. \A i \in DOMAIN queue : queue[i] # peer'
    BY <1>1, <1>2, <2>1
  <2> QED BY <1>1, <2>2 DEF ServerInv, Queued
<1>6. Answered'
  <2> SUFFICES ASSUME NEW d \in Clients PROVE AnsweredOf(d)'
    BY DEF Answered
  <2>1. AnsweredOf(d)
    BY ClientsKnown
  <2> QED BY <1>1, <1>2, <2>1 DEF AnsweredOf
<1>7. Serving' /\ FileLoaded'
  BY <1>1 DEF Serving, FileLoaded
<1> QED BY <1>3, <1>4, <1>5, <1>6, <1>7 DEF IInv, ServerInv

\* What is taken from the message once more of it has come: the header of the next request is
\* where the last one ended, and its command follows.
Comes(n, g, p) ==
  /\ p.used \in Nat /\ p.used <= g /\ p.wait \in {"header", "cmd"}
  /\ p.wait = "header" => p.used = End(peer, n)
  /\ p.wait = "cmd" => n < Length(peer) /\ p.used = End(peer, n) + HEADER_SZ /\ p.header = Request(peer, n + 1)

LEMMA HeaderComes ==
  ASSUME ServerInv, srv = "recv", NEW n \in 0 .. Length(peer), Taken(n), NEW g \in Nat, used <= g,
         g <= cl[peer].sent
  PROVE  Comes(n, g, Header(g))
<1>1. peer \in Clients /\ used \in Nat /\ waitType \in {"header", "cmd"}
  BY DEF ServerInv, ServerTypes
<1>2. Length(peer) \in Nat /\ End(peer, Length(peer)) \in Nat /\ cl[peer].sent \in Nat
      /\ cl[peer].sent <= End(peer, Length(peer))
  BY <1>1, ClientsKnown DEF AnsweredOf
<1>3. End(peer, n) \in Nat /\ HEADER_SZ \in Nat /\ HEADER_SZ > 0
  BY <1>1, EndGrows, MiTunerOK
<1>4. CASE waitType = "header" /\ g - used >= HEADER_SZ
  <2>1. used = End(peer, n)
    BY <1>4 DEF Taken
  <2>2. End(peer, n) < End(peer, Length(peer))
    BY <1>1, <1>2, <1>3, <1>4, <2>1
  <2>3. n < Length(peer) /\ n \in Nat
    BY <1>2, <2>2
  <2>4. HeaderAt(peer, used) = Request(peer, n + 1)
    BY <1>1, <2>1, <2>3, HeaderRight
  <2>5. Header(g) = [wait |-> "cmd", header |-> HeaderAt(peer, used), used |-> used + HEADER_SZ]
    BY <1>4 DEF Header
  <2>6. used + HEADER_SZ <= g /\ used + HEADER_SZ \in Nat
    BY <1>1, <1>3, <1>4
  <2> QED BY <2>1, <2>3, <2>4, <2>5, <2>6 DEF Comes
<1>5. CASE ~(waitType = "header" /\ g - used >= HEADER_SZ)
  <2>1. Header(g) = [wait |-> waitType, header |-> header, used |-> used]
    BY <1>5 DEF Header
  <2> QED BY <1>1, <2>1 DEF Comes, Taken
<1> QED BY <1>4, <1>5

\* The answer goes to a client that is there; one that is gone gets none.
LEMMA SentStep ==
  ASSUME ServerInv, NEW c \in Clients, NEW a \in Answer, cl' \in Sent(c, a)
  PROVE  /\ cl' \in [Clients -> Client] /\ \A d \in Clients : d # c => cl'[d] = cl[d]
         /\ cl'[c].sent = cl[c].sent /\ (cl[c].st # "new" => cl'[c].st # "new")
         /\ \/ /\ cl[c].st = "open" /\ cl'[c].st = "open" /\ cl'[c].answers = Append(cl[c].answers, a)
               /\ cl'[c].unread = cl[c].unread + 1
            \/ /\ cl[c].st # "open" /\ cl'[c].st # "open" /\ cl'[c].answers = cl[c].answers
               /\ cl'[c].unread = cl[c].unread
<1>1. cl \in [Clients -> Client] /\ cl[c] \in Client /\ cl[c].unread \in Nat /\ cl[c].answers \in Seq(Answer)
  BY ClientsKnown
<1>2. CASE cl[c].st = "open"
  <2> DEFINE more == Append(cl[c].answers, a)
             one == [cl[c] EXCEPT !.answers = more]
             y == [one EXCEPT !.unread = cl[c].unread + 1]
  <2>1. cl' = [cl EXCEPT ![c] = y]
    <3>1. cl' = [cl EXCEPT ![c].answers = Append(@, a), ![c].unread = @ + 1]
      BY <1>2 DEF Sent
    <3>2. \A d \in Clients : d # c => cl'[d] = cl[d]
      BY <1>1, <3>1
    <3>3. cl'[c] = y
      BY <1>1, <3>1 DEF Client
    <3>4. cl' = [d \in Clients |-> cl'[d]]
      BY <1>1, <3>1
    <3> HIDE DEF y
    <3> QED BY <1>1, <3>2, <3>3, <3>4
  <2>2. more \in Seq(Answer) /\ cl[c].unread + 1 \in Nat
    BY <1>1
  <2> HIDE DEF more
  <2>3. one \in Client /\ one.st = "open" /\ one.answers = more /\ one.sent = cl[c].sent
    BY <1>1, <1>2, <2>2 DEF Client
  <2> HIDE DEF one
  <2>4. y \in Client /\ y.st = "open" /\ y.answers = more /\ y.sent = cl[c].sent /\ y.unread = cl[c].unread + 1
    BY <2>2, <2>3 DEF Client
  <2> HIDE DEF y
  <2>5. cl' \in [Clients -> Client] /\ cl'[c] = y /\ \A d \in Clients : d # c => cl'[d] = cl[d]
    BY <1>1, <2>1, <2>4
  <2> QED BY <1>2, <2>4, <2>5 DEF more
<1>3. CASE cl[c].st # "open" /\ cl' = cl
  BY <1>1, <1>3
<1>4. CASE cl[c].st # "open" /\ cl' = [cl EXCEPT ![c].st = "reset"]
  <2> DEFINE y == [cl[c] EXCEPT !.st = "reset"]
  <2>1. cl' = [cl EXCEPT ![c] = y]
    BY <1>1, <1>4
  <2>2. y \in Client
    BY <1>1, ClientFields
  <2>3. y.st = "reset" /\ y.answers = cl[c].answers /\ y.sent = cl[c].sent /\ y.unread = cl[c].unread
    BY <1>1 DEF Client
  <2> HIDE DEF y
  <2>4. cl' \in [Clients -> Client] /\ cl'[c] = y /\ \A d \in Clients : d # c => cl'[d] = cl[d]
    BY <1>1, <2>1, <2>2
  <2> QED BY <1>4, <2>3, <2>4
<1> QED BY <1>2, <1>3, <1>4 DEF Sent

\* One more request is answered: the next one of that client, which it has wholly sent.
LEMMA AnswerStep ==
  ASSUME ServerInv, srv = "recv", NEW n \in Nat, n < Length(peer), Taken(n),
         NEW ok \in BOOLEAN, cl' \in Sent(peer, [k |-> n + 1, ok |-> ok]), UNCHANGED <<srv, peer, queue>>,
         End(peer, n + 1) <= cl[peer].sent
  PROVE  /\ cl' \in [Clients -> Client] /\ cl'[peer].sent = cl[peer].sent /\ Queued' /\ Answered'
         /\ cl'[peer].st = "open" => /\ Len(cl'[peer].answers) = n + 1
                                     /\ cl'[peer].answers[n + 1] = [k |-> n + 1, ok |-> ok]
<1> DEFINE a == [k |-> n + 1, ok |-> ok]
<1>1. peer \in Clients /\ a \in Answer
  BY DEF ServerInv, ServerTypes, Answer
<1>2. a.k = n + 1
  OBVIOUS
<1> HIDE DEF a
<1>3. AnsweredOf(peer) /\ cl[peer].st # "new" /\ cl[peer].answers \in Seq(Answer) /\ cl[peer].unread \in Nat
      /\ Length(peer) \in Nat
  BY <1>1, ClientsKnown DEF AnsweredOf
<1>4. /\ cl' \in [Clients -> Client] /\ \A d \in Clients : d # peer => cl'[d] = cl[d]
      /\ cl'[peer].sent = cl[peer].sent /\ cl'[peer].st # "new"
      /\ \/ /\ cl[peer].st = "open" /\ cl'[peer].st = "open" /\ cl'[peer].answers = Append(cl[peer].answers, a)
            /\ cl'[peer].unread = cl[peer].unread + 1
         \/ /\ cl[peer].st # "open" /\ cl'[peer].st # "open" /\ cl'[peer].answers = cl[peer].answers
            /\ cl'[peer].unread = cl[peer].unread
  BY <1>1, <1>3, SentStep DEF a
<1>5. cl[peer].st = "open" => Len(cl[peer].answers) = n
  BY DEF Taken
<1>6. cl'[peer].st = "open" => /\ Len(cl'[peer].answers) = n + 1 /\ cl'[peer].answers[n + 1] = a
                               /\ DOMAIN cl'[peer].answers = 1 .. n + 1 /\ DOMAIN cl[peer].answers = 1 .. n
                               /\ \A i \in 1 .. n : cl'[peer].answers[i] = cl[peer].answers[i]
  BY <1>1, <1>3, <1>4, <1>5
<1>7. Queued'
  <2>1. \A i \in DOMAIN queue : /\ cl[queue[i]].st # "new" /\ cl[queue[i]].answers = <<>>
          /\ queue[i] \in Clients /\ queue[i] # peer
    BY DEF ServerInv, Queued
  <2>2. \A i \in DOMAIN queue : cl'[queue[i]] = cl[queue[i]]
    BY <1>4, <2>1
  <2> QED BY <2>1, <2>2 DEF ServerInv, Queued
<1>8. Answered'
  <2> SUFFICES ASSUME NEW d \in Clients PROVE AnsweredOf(d)'
    BY DEF Answered
  <2>1. AnsweredOf(d)
    BY ClientsKnown
  <2>2. CASE d # peer
    BY <1>4, <2>1, <2>2 DEF AnsweredOf
  <2>3. CASE d = peer /\ cl[peer].st # "open"
    BY <1>4, <2>1, <2>3 DEF AnsweredOf
  <2>4. CASE d = peer /\ cl[peer].st = "open"
    <3>1. cl'[peer].st = "open" /\ cl'[peer].unread = cl[peer].unread + 1 /\ cl[peer].unread <= n
      BY <1>3, <1>4, <1>5, <2>4 DEF AnsweredOf
    <3>2. Len(cl'[peer].answers) <= Length(peer) /\ cl'[peer].unread <= Len(cl'[peer].answers)
      BY <1>3, <1>6, <3>1
    <3>3. \A i \in 1 .. n + 1 : i \in 1 .. n \/ i = n + 1
      OBVIOUS
    <3>4. \A i \in DOMAIN cl'[peer].answers : cl'[peer].answers[i].k = i /\ End(peer, i) <= cl'[peer].sent
      BY <1>2, <1>3, <1>4, <1>6, <3>1, <3>3 DEF AnsweredOf
    <3>5. cl'[peer].sent <= End(peer, Length(peer))
      BY <1>3, <1>4 DEF AnsweredOf
    <3> QED BY <1>4, <2>4, <3>2, <3>4, <3>5 DEF AnsweredOf
  <2> QED BY <2>2, <2>3, <2>4
<1> QED BY <1>4, <1>6, <1>7, <1>8 DEF a

\* One recv: the message it makes, what is taken from it, and what becomes of that.
Receives(n, g, p) ==
  /\ srv = "recv" /\ UNCHANGED <<tool, queue, peer>> /\ got' = g /\ header' = p.header
  /\ g \in Nat /\ used <= g /\ g <= cl[peer].sent /\ Taken(n) /\ Comes(n, g, p)
  /\ CmdReady(p, g) => /\ n \in Nat /\ n < Length(peer) /\ p.header = Request(peer, n + 1)
                        /\ Cut(p) = End(peer, n + 1) /\ Cut(p) \in Nat /\ Cut(p) <= g
NotYet(p)    == used' = p.used /\ waitType' = p.wait /\ UNCHANGED <<dev, cl, s3File, srv>>
Stops(p, g)  == CmdReady(p, g) /\ used' = Cut(p) /\ waitType' = p.wait /\ srv' = "down" /\ UNCHANGED <<dev, cl, s3File>>
Parses(p, g) ==
  /\ CmdReady(p, g) /\ ~Raises(p.header) /\ used' = Cut(p) /\ waitType' = "header" /\ UNCHANGED srv
  /\ \E r \in ParseCmd(peer, p.header) :
       dev' = r.dev /\ s3File' = r.file /\ cl' \in Sent(peer, [k |-> p.header.k, ok |-> r.ok])

LEMMA RecvTakes ==
  ASSUME ServerInv, Recv
  PROVE  /\ peer \in Clients /\ Length(peer) \in Nat
         /\ \E g, p : /\ \E n \in 0 .. Length(peer) : Receives(n, g, p)
                      /\ NotYet(p) \/ Stops(p, g) \/ Parses(p, g)
<1> DEFINE g == got + (IF Incoming > BUFFER_SZ THEN BUFFER_SZ ELSE Incoming)
           p == Header(g)
<1>1. srv = "recv" /\ Incoming > 0 /\ UNCHANGED <<tool, queue, peer>> /\ got' = g /\ header' = p.header
  BY DEF Recv
<1>2. NotYet(p) \/ Stops(p, g) \/ Parses(p, g)
  BY DEF Recv, NotYet, Stops, Parses
<1>3. peer \in Clients /\ got \in Nat /\ used \in Nat /\ used <= got /\ got <= cl[peer].sent
  BY <1>1 DEF ServerInv, ServerTypes
<1>4. cl[peer].sent \in Nat /\ Length(peer) \in Nat
  BY <1>3, ClientsKnown
<1>5. g \in Nat /\ used <= g /\ g <= cl[peer].sent
  BY <1>1, <1>3, <1>4, MiTunerOK DEF Incoming
<1>6. PICK n \in 0 .. Length(peer) : Taken(n)
  BY <1>1 DEF ServerInv, Serving
<1> HIDE DEF g, p
<1>7. Comes(n, g, p)
  BY <1>1, <1>5, <1>6, HeaderComes DEF p
<1>8. ASSUME CmdReady(p, g)
      PROVE  /\ n \in Nat /\ n < Length(peer) /\ p.header = Request(peer, n + 1)
             /\ Cut(p) = End(peer, n + 1) /\ Cut(p) \in Nat /\ Cut(p) <= g
  <2>1. /\ p.wait = "cmd" /\ g - p.used >= p.header.len /\ n < Length(peer) /\ n \in Nat
        /\ p.used = End(peer, n) + HEADER_SZ /\ p.header = Request(peer, n + 1) /\ p.used \in Nat /\ p.used <= g
    BY <1>7, <1>8 DEF CmdReady, Comes
  <2>2. n + 1 \in 1 .. Length(peer) /\ (n + 1) - 1 = n /\ n \in 0 .. Length(peer)
    BY <1>4, <2>1
  <2>3. p.header.len = Scripts[peer][n + 1].len /\ Scripts[peer][n + 1].len \in Nat /\ HEADER_SZ \in Nat
    BY <1>3, <2>1, <2>2, MiTunerOK DEF Request, Length
  <2>4. End(peer, n + 1) = End(peer, n) + Size(peer, n + 1) /\ End(peer, n) \in Nat
    BY <1>3, <2>2, EndStep, EndGrows
  <2>5. Cut(p) = End(peer, n + 1)
    BY <2>1, <2>3, <2>4 DEF Cut, Size
  <2>6. Cut(p) \in Nat /\ Cut(p) <= g
    BY <1>5, <2>1, <2>3 DEF Cut
  <2> QED BY <2>1, <2>5, <2>6
<1>9. Receives(n, g, p)
  BY <1>1, <1>5, <1>6, <1>7, <1>8 DEF Receives
<1> QED BY <1>2, <1>3, <1>4, <1>9

LEMMA RecvStep ==
  ASSUME ToolTypes, ToolInv, ServerInv, Recv
  PROVE  IInv'
<1>1. PICK g, p : /\ \E n \in 0 .. Length(peer) : Receives(n, g, p)
                  /\ NotYet(p) \/ Stops(p, g) \/ Parses(p, g)
  BY RecvTakes
<1>2. PICK n \in 0 .. Length(peer) : Receives(n, g, p)
  BY <1>1
<1>3. srv = "recv" /\ UNCHANGED <<tool, queue, peer>> /\ got' = g /\ header' = p.header
  BY <1>2 DEF Receives
<1>4. peer \in Clients /\ got \in Nat /\ used \in Nat /\ used <= got /\ got <= cl[peer].sent
      /\ s3File \in File \cup {None} /\ args = None
  BY <1>3, ServerUp DEF ServerInv, ServerTypes
<1>5. cl[peer].sent \in Nat /\ cl \in [Clients -> Client] /\ Length(peer) \in Nat
  BY <1>4, ClientsKnown
<1>6. g \in Nat /\ used <= g /\ g <= cl[peer].sent
  BY <1>2 DEF Receives
<1>7. Taken(n) /\ Comes(n, g, p)
  BY <1>2 DEF Receives
<1>8. CmdReady(p, g) =>
        /\ n \in Nat /\ n < Length(peer) /\ p.header = Request(peer, n + 1)
        /\ Cut(p) = End(peer, n + 1) /\ Cut(p) \in Nat /\ Cut(p) <= g
  BY <1>2 DEF Receives
<1>9. CASE NotYet(p)
  <2> USE <1>9 DEF NotYet
  <2>1. ToolTypes' /\ ToolInv'
    BY <1>3, <1>4, <1>9, ToolIdle DEF ToolTypes
  <2>2. ServerTypes'
    BY <1>3, <1>4, <1>6, <1>7, <1>9 DEF ServerInv, ServerTypes, Comes, tool
  <2>3. Queued' /\ Answered' /\ FileLoaded'
    <3>1. Queued'
      BY <1>3, <1>9 DEF ServerInv, Queued
    <3>2. Answered'
      BY <1>3, <1>9 DEF ServerInv, Answered, AnsweredOf
    <3>3. FileLoaded'
      BY <1>3, <1>9 DEF ServerInv, FileLoaded
    <3> QED BY <3>1, <3>2, <3>3
  <2>4. Taken(n)'
    BY <1>3, <1>7, <1>9 DEF Taken, Comes
  <2>5. Serving'
    BY <1>3, <1>9, <2>4 DEF Serving
  <2> QED BY <2>1, <2>2, <2>3, <2>5 DEF IInv, ServerInv
<1>10. CASE Stops(p, g)
  <2> USE <1>10 DEF Stops
  <2>1. ToolTypes' /\ ToolInv'
    BY <1>3, <1>4, <1>10, ToolIdle DEF ToolTypes
  <2>2. ServerTypes'
    BY <1>3, <1>4, <1>6, <1>7, <1>8, <1>10 DEF ServerInv, ServerTypes, Comes, tool
  <2>3. Queued' /\ Answered'
    BY <1>3, <1>10 DEF ServerInv, Queued, Answered, AnsweredOf
  <2>4. Serving' /\ FileLoaded'
    BY <1>10 DEF Serving, FileLoaded
  <2> QED BY <2>1, <2>2, <2>3, <2>4 DEF IInv, ServerInv
<1>11. CASE Parses(p, g)
  <2> USE <1>11 DEF Parses
  <2>1. PICK r \in ParseCmd(peer, p.header) :
          dev' = r.dev /\ s3File' = r.file /\ cl' \in Sent(peer, [k |-> p.header.k, ok |-> r.ok])
    BY <1>11
  <2>2. /\ n \in Nat /\ n < Length(peer) /\ p.header = Request(peer, n + 1)
        /\ used' = End(peer, n + 1) /\ used' \in Nat /\ used' <= g
    BY <1>8, <1>11
  <2>3. p.header.k = n + 1 /\ p.header.type = Scripts[peer][n + 1].type
    BY <2>2 DEF Request
  <2>4. ParseOK(peer, p.header, r)
    BY <2>1, ParseResults DEF ToolTypes
  <2>5. DeviceOK(dev') /\ r.ok \in BOOLEAN
    BY <2>1, <2>4 DEF ParseOK
  <2>6. ToolTypes' /\ ToolInv'
    BY <1>3, <1>4, <2>5, ToolIdle
  <2>7. HasBegun(peer, n) => s3File # None /\ Holds(s3File, peer, n)
    BY <1>7 DEF Taken
  <2>8. /\ s3File' \in File \cup {None}
        /\ HasBegun(peer, n + 1) => s3File' # None /\ Holds(s3File', peer, n + 1)
    BY <1>4, <1>11, <2>1, <2>2, <2>3, <2>4, <2>7, FileStep
  <2>9. cl' \in Sent(peer, [k |-> n + 1, ok |-> r.ok])
    BY <2>1, <2>3
  <2>10. End(peer, n + 1) <= cl[peer].sent
    BY <1>5, <1>6, <2>2
  <2>11. /\ cl' \in [Clients -> Client] /\ cl'[peer].sent = cl[peer].sent /\ Queued' /\ Answered'
         /\ cl'[peer].st = "open" => /\ Len(cl'[peer].answers) = n + 1
                                     /\ cl'[peer].answers[n + 1] = [k |-> n + 1, ok |-> r.ok]
    BY <1>3, <1>7, <1>11, <2>2, <2>5, <2>9, <2>10, AnswerStep
  <2>12. ServerTypes'
    BY <1>3, <1>4, <1>6, <1>11, <2>2, <2>8, <2>11 DEF ServerInv, ServerTypes, Client, tool
  <2>13. Serving'
    <3>1. Taken(n + 1)'
      BY <1>3, <1>11, <2>2, <2>8, <2>11 DEF Taken
    <3>2. n + 1 \in 0 .. Length(peer)
      BY <1>5, <2>2
    <3> QED BY <1>3, <1>11, <3>1, <3>2 DEF Serving
  <2>14. FileLoaded'
    <3>1. p.header.type = "FC" /\ r.ok => dev'.ram = s3File'
      BY <2>1, <2>4 DEF ParseOK, ImageRight
    <3> QED BY <1>3, <2>3, <2>11, <3>1 DEF FileLoaded
  <2> QED BY <2>6, <2>8, <2>11, <2>12, <2>13, <2>14 DEF IInv, ServerInv
<1> QED BY <1>1, <1>9, <1>10, <1>11

-----------------------------------------------------------------------------
(* The theorems. *)

\* The tool's stages leave the server, which is off, as it is.
LEMMA ToolOff ==
  ASSUME ToolInv, ServerInv, Tool
  PROVE  /\ args # None /\ ToolNext /\ srv = "off"
         /\ UNCHANGED <<cl, srv, queue, peer, got, used, waitType, header, s3File>>
<1>1. ToolNext /\ UNCHANGED server
  BY DEF Tool
<1>2. pc # "done"
  BY <1>1 DEF ToolNext, Open, Stop, Prepare, FromFlash, Erase, Load, Save, Config, SaveConfig, SoftReset, Start, Stage
<1>3. args # None
  BY <1>2 DEF ToolInv
<1> QED BY <1>1, <1>3 DEF server, ServerInv, ServerTypes

LEMMA ToolAlone ==
  ASSUME ToolTypes, ToolInv, ServerInv, Tool
  PROVE  IInv'
<1>1. ToolNext
  BY ToolOff
<1>2. args # None
  BY ToolOff
<1>3. ToolState
  BY <1>2 DEF ToolInv, ToolState
<1>4. ToolState' /\ UNCHANGED args
  BY <1>1, <1>3, ToolStep
<1>5. ToolTypes' /\ ToolInv'
  BY <1>2, <1>4 DEF ToolState, ToolInv
<1>6. srv = "off" /\ UNCHANGED <<cl, srv, queue, peer, got, used, waitType, header, s3File>>
  BY ToolOff
<1>7. ServerTypes'
  BY <1>4, <1>6 DEF ServerInv, ServerTypes
<1>8. Queued' /\ Answered'
  BY <1>6 DEF ServerInv, Queued, Answered, AnsweredOf
<1>9. Serving' /\ FileLoaded'
  BY <1>6 DEF Serving, FileLoaded
<1> QED BY <1>5, <1>7, <1>8, <1>9 DEF IInv, ServerInv

\* The first state: no connection, and a tool that has not begun or is not there.
LEMMA InitIInv == Init => IInv
<1> SUFFICES ASSUME Init PROVE IInv
  OBVIOUS
<1>1. /\ dev \in Devices /\ args \in Jobs \cup {None} /\ pc = (IF args = None THEN "done" ELSE "open")
      /\ fw_running = FALSE /\ slot = None
  BY DEF Init, ToolInit
<1>2. /\ cl = [c \in Clients |-> [st |-> "new", sent |-> 0, answers |-> <<>>, unread |-> 0]]
      /\ srv = (IF args = None THEN "accept" ELSE "off") /\ queue = <<>> /\ peer = None /\ got = 0 /\ used = 0
      /\ waitType = "header" /\ s3File = None
  BY DEF Init
<1>3. ToolTypes
  BY <1>1, LoaderOK DEF ToolTypes, Stages
<1>4. ToolInv
  <2>1. CASE args = None
    BY <1>1, <2>1 DEF ToolInv
  <2>2. CASE args # None
    <3>1. pc = "open" /\ args \in Jobs
      BY <1>1, <2>2
    <3>2. pc \notin AfterOpen /\ pc \notin AfterStop /\ pc \notin {"load", "save"}
      BY <3>1, StageOrder
    <3>3. /\ pc \notin AfterRead /\ pc \notin AfterLoad /\ pc \notin AfterSave
          /\ pc \notin AfterConfig /\ pc \notin AfterSaveConfig
      BY <3>1, StageOrder
    <3>4. ArgumentsChecked /\ FlashWritten
      BY <1>1, <3>2, <3>3 DEF ArgumentsChecked, FlashWritten
    <3>5. ImageRead /\ ImageLoaded /\ ConfigLoaded /\ ConfigSaved /\ SlotUnset
      BY <3>1, <3>3 DEF ImageRead, ImageLoaded, ConfigLoaded, ConfigSaved, SlotUnset
    <3> QED BY <2>2, <3>1, <3>4, <3>5 DEF ToolInv
  <2> QED BY <2>1, <2>2
<1>5. ServerTypes
  <2>1. <<>> \in Seq(Answer)
    OBVIOUS
  <2>2. [st |-> "new", sent |-> 0, answers |-> <<>>, unread |-> 0]
          \in [st : {"new", "open", "eof", "reset"}, sent : Nat, answers : Seq(Answer), unread : Nat]
    BY <2>1
  <2>3. cl \in [Clients -> [st : {"new", "open", "eof", "reset"}, sent : Nat, answers : Seq(Answer), unread : Nat]]
    BY <1>2, <2>2
  <2> QED BY <1>2, <2>3 DEF ServerTypes
<1>6. Queued
  BY <1>2, MiTunerOK DEF Queued
<1>7. Answered
  <2> SUFFICES ASSUME NEW c \in Clients PROVE AnsweredOf(c)
    BY DEF Answered
  <2>1. cl[c].sent = 0 /\ cl[c].answers = <<>> /\ cl[c].unread = 0
    BY <1>2
  <2>2. Length(c) \in Nat /\ End(c, Length(c)) \in Nat
    BY EndStep, EndGrows
  <2>3. c # peer
    BY <1>2, MiTunerOK
  <2>4. Len(<<>>) = 0 /\ DOMAIN <<>> = {}
    OBVIOUS
  <2> QED BY <2>1, <2>2, <2>3, <2>4 DEF AnsweredOf
<1>8. Serving /\ FileLoaded
  BY <1>2 DEF Serving, FileLoaded
<1> QED BY <1>3, <1>4, <1>5, <1>6, <1>7, <1>8 DEF IInv, ServerInv

\* Every step of the tool, the clients and the server keeps the invariant.
LEMMA NextIInv == IInv /\ [Next]_vars => IInv'
<1> SUFFICES ASSUME IInv, [Next]_vars PROVE IInv'
  OBVIOUS
<1>1. ToolTypes /\ ToolInv /\ ServerInv
  BY DEF IInv
<1>2. CASE Tool
  BY <1>1, <1>2, ToolAlone
<1>3. CASE ServerNext
  BY <1>1, <1>3, AcceptStep, RecvStep, ClosedStep DEF ServerNext
<1>4. CASE ClientNext
  BY <1>1, <1>4, ConnectStep, ReadLeaveSendStep DEF ClientNext
<1>5. CASE UNCHANGED vars
  <2>1. UNCHANGED <<dev, args, pc, fw_running, slot>>
        /\ UNCHANGED <<cl, srv, queue, peer, got, used, waitType, header, s3File>>
    BY <1>5 DEF vars
  <2>2. ToolTypes' /\ ToolInv'
    BY <1>1, <2>1, FilesStay
    DEF ToolTypes, ToolInv, ArgumentsChecked, FlashWritten, ImageRead, ImageLoaded, ConfigLoaded, ConfigSaved, SlotUnset
  <2>3. ServerTypes' /\ Queued' /\ Answered'
    BY <1>1, <2>1 DEF ServerInv, ServerTypes, Queued, Answered, AnsweredOf
  <2>4. Serving' /\ FileLoaded'
    BY <1>1, <2>1 DEF ServerInv, Serving, Taken, FileLoaded
  <2> QED BY <2>2, <2>3, <2>4 DEF IInv, ServerInv
<1> QED BY <1>2, <1>3, <1>4, <1>5 DEF Next

\* IInv holds in every state: how far the tool and the server have come is always accounted for.
THEOREM MiTunerInductive == Spec => []IInv
<1>1. Init => IInv
  BY InitIInv
<1>2. IInv /\ [Next]_vars => IInv'
  BY NextIInv
<1> QED BY <1>1, <1>2, PTL DEF Spec

\* Every variable keeps its type, whatever the jobs, the scripts and the sizes: firmware never runs
\* from a piece of an image, and the server takes no byte before it has come.
THEOREM TypesRight == Spec => []TypeOK
<1>1. IInv => TypeOK
  <2> SUFFICES ASSUME IInv PROVE TypeOK
    OBVIOUS
  <2>1. \A c \in Clients : cl[c].st \in {"new", "open", "eof", "reset"} /\ cl[c].unread <= Len(cl[c].answers)
    <3> SUFFICES ASSUME NEW c \in Clients
                 PROVE  cl[c].st \in {"new", "open", "eof", "reset"} /\ cl[c].unread <= Len(cl[c].answers)
      OBVIOUS
    <3>1. cl[c] \in Client /\ AnsweredOf(c)
      BY ClientsKnown DEF IInv
    <3> QED BY <3>1, ClientFields DEF AnsweredOf
  <2> QED BY <2>1 DEF IInv, ToolTypes, ServerInv, ServerTypes, Queued, TypeOK
<1> QED BY <1>1, MiTunerInductive, PTL

\* However TCP cuts the stream, and whoever else connects, a client gets one answer to each request,
\* in their order, and only when it has sent the whole of it (the receive loop of the server).
THEOREM AnswersAlwaysInOrder == Spec => []AnswersInOrder
<1>1. IInv => AnswersInOrder
  BY DEF IInv, ServerInv, Answered, AnsweredOf, AnswersInOrder
<1> QED BY <1>1, MiTunerInductive, PTL

\* An image that was answered OK is the one this client sent: FirmwareLoading keeps the pieces in
\* one attribute for every connection, and an FA is enough to keep them apart.
THEOREM AlwaysLoadsWhatWasSent == Spec => []LoadsWhatWasSent
<1>1. IInv => LoadsWhatWasSent
  <2> SUFFICES ASSUME IInv, srv = "recv", cl[peer].st = "open", cl[peer].answers # <<>>,
                      cl[peer].answers[Len(cl[peer].answers)].ok,
                      Scripts[peer][Len(cl[peer].answers)].type = "FC", HasBegun(peer, Len(cl[peer].answers))
               PROVE  Holds(dev.ram, peer, Len(cl[peer].answers))
    BY DEF LoadsWhatWasSent
  <2>1. dev.ram = s3File
    BY DEF IInv, ServerInv, FileLoaded
  <2>2. PICK n \in 0 .. Length(peer) : Taken(n)
    BY DEF IInv, ServerInv, Serving
  <2>3. n = Len(cl[peer].answers)
    BY <2>2 DEF Taken
  <2>4. Holds(s3File, peer, n)
    BY <2>2, <2>3 DEF Taken
  <2> QED BY <2>1, <2>3, <2>4
<1> QED BY <1>1, MiTunerInductive, PTL

\* A tool that ends without an error has done all it was asked, whatever the arguments and the
\* device it found: the image, the configuration record, the slot and the erase (Main).
THEOREM DoneIsAsAsked == Spec => []DoneAsAsked
<1>1. IInv => DoneAsAsked
  BY DoneFollows DEF IInv
<1> QED BY <1>1, MiTunerInductive, PTL

-----------------------------------------------------------------------------
(* What the server's steps are to the sessions. *)

\* Up to the end of a request, as many requests end as its number says.
LEMMA EndsCounted ==
  ASSUME NEW c \in Clients, NEW n \in 0 .. Length(c)
  PROVE  Cardinality({k \in 1 .. Length(c) : Ends(c)[k] <= End(c, n)}) = n
<1>1. Length(c) \in Nat /\ n \in Nat /\ n <= Length(c)
  BY EndStep
<1>2. ASSUME NEW k \in 1 .. Length(c) PROVE End(c, k) <= End(c, n) <=> k <= n
  <2>1. k \in 0 .. Length(c) /\ End(c, k) \in Nat /\ End(c, n) \in Nat
    BY <1>1, EndGrows
  <2>2. CASE k <= n
    <3>1. k \in 0 .. n
      BY <2>1, <2>2
    <3> QED BY <2>2, <3>1, EndGrows
  <2>3. CASE n < k
    <3>1. n \in 0 .. k /\ n # k
      BY <1>1, <2>3
    <3>2. End(c, n) < End(c, k)
      BY <2>1, <3>1, EndGrows
    <3> QED BY <2>1, <2>3, <3>2
  <2> QED BY <1>1, <2>2, <2>3
<1>3. {k \in 1 .. Length(c) : Ends(c)[k] <= End(c, n)} = 1 .. n
  BY <1>1, <1>2 DEF End
<1>4. Cardinality(1 .. n) = n
  <2>1. n \in Nat /\ n \in Int /\ 1 \in Int
    BY <1>1
  <2>2. Cardinality(1 .. n) = IF 1 > n THEN 0 ELSE n - 1 + 1
    BY <2>1, FS_Interval
  <2> QED BY <2>1, <2>2
<1> QED BY <1>3, <1>4

\* Where the request that is awaited begins says how many were carried out.
LEMMA CarriedAt ==
  ASSUME srv = "recv", peer \in Clients, NEW n \in 0 .. Length(peer), Begun = End(peer, n)
  PROVE  Carried = n
BY EndsCounted DEF Carried

LEMMA CarriedNext ==
  ASSUME srv' = "recv", peer' \in Clients, NEW n \in 0 .. Length(peer'), Begun' = End(peer', n)
  PROVE  Carried' = n
BY EndsCounted DEF Carried

LEMMA InSession ==
  ASSUME ServerInv, srv = "recv", NEW n \in 0 .. Length(peer), Taken(n)
  PROVE  /\ peer \in Clients /\ Session = peer /\ Session # None /\ Mode = "up"
         /\ Carried = n /\ End(peer, n) \in Nat
<1>1. peer \in Clients /\ peer # None /\ waitType \in {"header", "cmd"}
  BY MiTunerOK DEF ServerInv, ServerTypes
<1>2. End(peer, n) \in Nat /\ HEADER_SZ \in Nat
  BY <1>1, EndGrows, MiTunerOK
<1>3. Begun = End(peer, n)
  BY <1>1, <1>2 DEF Taken, Begun
<1> QED BY <1>1, <1>2, <1>3, CarriedAt DEF Session, Mode

\* Steps that leave the server's place, or the answers, as they are.
LEMMA ServerStays ==
  ASSUME UNCHANGED <<srv, peer, used, waitType>>
  PROVE  UNCHANGED <<Mode, Session, Carried>>
BY DEF Mode, Session, Carried, Begun

LEMMA GivenStays ==
  ASSUME \A d \in Clients : cl'[d].answers = cl[d].answers
  PROVE  UNCHANGED Given
BY DEF Given

LEMMA GivenOf ==
  ASSUME NEW c \in Clients
  PROVE  Given[c] = cl[c].answers /\ Given'[c] = cl'[c].answers
BY DEF Given

LEMMA ConnectSession ==
  ASSUME ServerInv, NEW c \in Clients, Connect(c)
  PROVE  Service!Next
<1>1. /\ srv \in {"accept", "recv"} /\ cl[c].st = "new" /\ queue' = Append(queue, c)
      /\ cl' = [cl EXCEPT ![c].st = "open"]
      /\ UNCHANGED <<dev, tool, srv, peer, got, used, waitType, header, s3File>>
  BY DEF Connect
<1>2. AnsweredOf(c) /\ cl \in [Clients -> Client] /\ None \notin Clients
  BY ClientsKnown, MiTunerOK
<1>3. UNCHANGED <<Mode, Session, Carried>> /\ UNCHANGED <<s3File, dev.ram>> /\ Mode = "up"
  BY <1>1, ServerStays DEF Mode
<1>4. UNCHANGED Given
  <2>1. \A d \in Clients : cl'[d].answers = cl[d].answers
    BY <1>1, <1>2 DEF Client
  <2> QED BY <2>1, GivenStays
<1>5. c # Session /\ Given[c] = <<>>
  BY <1>1, <1>2, GivenOf DEF AnsweredOf, Session
<1>6. \A i \in DOMAIN queue : queue[i] # c
  BY <1>1 DEF ServerInv, Queued
<1>7. Service!Join(c)
  BY <1>1, <1>3, <1>4, <1>5, <1>6 DEF Service!Join
<1> QED BY <1>7 DEF Service!Next

\* A client that reads, sends or leaves does nothing to its session.
LEMMA ClientSession ==
  ASSUME ServerInv, NEW c \in Clients, ReadAnswer(c) \/ Leave(c) \/ \E n : Send(c, n)
  PROVE  UNCHANGED Service!sessionVars
<1>1. UNCHANGED <<dev, tool, srv, queue, peer, got, used, waitType, header, s3File>>
  BY DEF ReadAnswer, Leave, Send
<1>2. cl \in [Clients -> Client]
  BY ClientsKnown
<1>3. \A d \in Clients : cl'[d].answers = cl[d].answers
  <2>1. CASE ReadAnswer(c)
    BY <1>2, <2>1 DEF ReadAnswer, Client
  <2>2. CASE Leave(c)
    <3>1. PICK st : cl' = [cl EXCEPT ![c].st = st]
      BY <2>2 DEF Leave
    <3> QED BY <1>2, <3>1 DEF Client
  <2>3. ASSUME NEW n, Send(c, n) PROVE \A d \in Clients : cl'[d].answers = cl[d].answers
    BY <1>2, <2>3 DEF Send, Client
  <2> QED BY <2>1, <2>2, <2>3
<1>4. UNCHANGED <<Mode, Session, Carried>> /\ UNCHANGED Given /\ UNCHANGED <<queue, s3File, dev.ram>>
  BY <1>1, <1>3, ServerStays, GivenStays
<1> QED BY <1>4 DEF Service!sessionVars

LEMMA AcceptSession ==
  ASSUME ServerInv, Accept
  PROVE  Service!Next
<1>1. /\ srv = "accept" /\ queue # <<>> /\ srv' = "recv" /\ peer' = Head(queue) /\ queue' = Tail(queue)
      /\ used' = 0 /\ waitType' = "header" /\ UNCHANGED <<dev, tool, cl, s3File>>
  BY DEF Accept
<1>2. peer' \in Clients
  BY <1>1 DEF ServerInv, Queued
<1>3. Mode = "up" /\ Mode' = "up" /\ Session = None /\ Session' = Head(queue)
  BY <1>1 DEF Mode, Session
<1>4. Carried' = 0
  <2>1. Begun' = 0 /\ End(peer', 0) = 0 /\ 0 \in 0 .. Length(peer')
    BY <1>1, <1>2, EndStep DEF Begun
  <2> QED BY <1>1, <1>2, <2>1, CarriedNext
<1>5. UNCHANGED Given /\ UNCHANGED <<s3File, dev.ram>>
  BY <1>1, GivenStays
<1>6. Service!Begin
  BY <1>1, <1>3, <1>4, <1>5 DEF Service!Begin
<1> QED BY <1>6 DEF Service!Next

\* The client closed, or the server ends: by a reset connection, or by a request it does not catch.
LEMMA SessionEnds ==
  ASSUME ServerInv, srv = "recv", srv' \in {"accept", "down"}, UNCHANGED <<queue, cl, s3File, dev>>
  PROVE  Service!Next
<1>1. Session # None /\ Mode = "up"
  BY MiTunerOK DEF ServerInv, ServerTypes, Session, Mode
<1>2. Session' = None /\ Carried' = 0 /\ UNCHANGED Given
  BY GivenStays DEF Session, Carried
<1>3. CASE srv' = "accept"
  <2>1. Mode' = "up"
    BY <1>3 DEF Mode
  <2>2. Service!End
    BY <1>1, <1>2, <2>1 DEF Service!End
  <2> QED BY <2>2 DEF Service!Next
<1>4. CASE srv' = "down"
  <2>1. Mode' = "down"
    BY <1>4 DEF Mode
  <2>2. Service!ShutDown
    BY <1>1, <1>2, <2>1 DEF Service!ShutDown
  <2> QED BY <2>2 DEF Service!Next
<1> QED BY <1>3, <1>4

\* A request that was parsed is carried out in the session, with its answer.
LEMMA RequestCarried ==
  ASSUME ToolTypes, ServerInv, NEW g, NEW p, NEW n \in 0 .. Length(peer), Receives(n, g, p), Parses(p, g)
  PROVE  Service!Next
<1>1. /\ srv = "recv" /\ Taken(n) /\ UNCHANGED <<tool, queue, peer>> /\ UNCHANGED srv /\ used' = Cut(p)
      /\ waitType' = "header" /\ ~Raises(p.header)
      /\ n \in Nat /\ n < Length(peer) /\ p.header = Request(peer, n + 1) /\ Cut(p) = End(peer, n + 1)
  BY DEF Receives, Parses
<1>2. /\ peer \in Clients /\ Session = peer /\ Session # None /\ Mode = "up" /\ Carried = n
  BY <1>1, InSession
<1>3. Length(peer) \in Nat
  BY <1>2, EndStep
<1>4. PICK r \in ParseCmd(peer, p.header) :
        dev' = r.dev /\ s3File' = r.file /\ cl' \in Sent(peer, [k |-> p.header.k, ok |-> r.ok])
  BY DEF Parses
<1> DEFINE type == Scripts[peer][n + 1].type
           piece == [client |-> peer, k |-> n + 1]
           answer == [k |-> n + 1, ok |-> r.ok]
<1>5. p.header.k = n + 1 /\ p.header.type = type
  BY <1>1 DEF Request
<1>6. ParseOK(peer, p.header, r)
  BY <1>4, ParseResults DEF ToolTypes
<1>7. r.ok \in BOOLEAN /\ ImageRight(type, r, s3File')
  BY <1>4, <1>5, <1>6 DEF ParseOK
<1>8. s3File' = Service!FileAfter(type, piece)
  <2>1. s3File' = IF type \in {"FA", "FB", "FC"} THEN FileWith(type, piece) ELSE s3File
    BY <1>4, <1>5, <1>6 DEF ParseOK
  <2> HIDE DEF type, piece
  <2> QED BY <2>1 DEF FileWith, Service!FileAfter
<1>9. type \in {"FB", "FC"} => s3File # None
  BY <1>1, <1>5 DEF Raises
<1>10. Service!May(type, r.ok)
  <2>1. dev'.ram = r.dev.ram
    BY <1>4
  <2> HIDE DEF type
  <2> QED BY <1>7, <2>1
    DEF Service!May, Service!Reads, Service!Writes, Service!Pieces, Service!Types, ImageRight, Types
<1>11. Service!Answered(answer)
  <2>1. answer \in Answer
    BY <1>1, <1>7 DEF Answer
  <2>2. cl' \in Sent(peer, answer)
    BY <1>4, <1>5
  <2> HIDE DEF answer
  <2>3. /\ \A d \in Clients : d # peer => cl'[d] = cl[d]
        /\ \/ cl[peer].st = "open" /\ cl'[peer].answers = Append(cl[peer].answers, answer)
           \/ cl'[peer].answers = cl[peer].answers
    BY <1>2, <2>1, <2>2, SentStep
  <2>4. CASE cl[peer].st = "open" /\ cl'[peer].answers = Append(cl[peer].answers, answer)
    <3>1. Len(Given[Session]) = Carried
      BY <1>1, <1>2, <2>4, GivenOf DEF Taken
    <3>2. Given' = [Given EXCEPT ![Session] = Append(Given[Session], answer)]
      BY <1>2, <2>3, <2>4 DEF Given
    <3> QED BY <3>1, <3>2 DEF Service!Answered
  <2>5. CASE cl'[peer].answers = cl[peer].answers
    <3>1. UNCHANGED Given
      BY <2>3, <2>5, GivenStays
    <3> QED BY <3>1 DEF Service!Answered
  <2> QED BY <2>3, <2>4, <2>5
<1>12. UNCHANGED <<Mode, queue, Session>>
  BY <1>1 DEF Mode, Session
<1>13. Carried' = n + 1 /\ n + 1 <= Len(Scripts[peer])
  <2>1. n + 1 \in 0 .. Length(peer')
    BY <1>1, <1>3
  <2>2. Begun' = End(peer', n + 1)
    BY <1>1 DEF Begun
  <2> QED BY <1>1, <1>2, <2>1, <2>2, CarriedNext DEF Length
<1>14. Service!CarryOut
  <2>1. type = Scripts[Session][Carried + 1].type /\ piece = [client |-> Session, k |-> Carried + 1]
        /\ answer = [k |-> Carried + 1, ok |-> r.ok] /\ Carried' = Carried + 1
        /\ Carried + 1 <= Len(Scripts[Session]) /\ Session # None
    BY <1>2, <1>13
  <2> HIDE DEF type, piece, answer
  <2> QED BY <1>7, <1>8, <1>9, <1>10, <1>11, <1>12, <2>1 DEF Service!CarryOut
<1> QED BY <1>14 DEF Service!Next

\* A recv carries out a request, or only takes more of the message, or is the server's last.
LEMMA RecvSession ==
  ASSUME ToolTypes, ServerInv, Recv
  PROVE  Service!Next \/ UNCHANGED Service!sessionVars
<1>1. PICK g, p : /\ \E n \in 0 .. Length(peer) : Receives(n, g, p)
                  /\ NotYet(p) \/ Stops(p, g) \/ Parses(p, g)
  BY RecvTakes
<1>2. PICK n \in 0 .. Length(peer) : Receives(n, g, p)
  BY <1>1
<1>3. srv = "recv" /\ Taken(n) /\ Comes(n, g, p) /\ UNCHANGED <<tool, queue, peer>>
  BY <1>2 DEF Receives
<1>4. peer \in Clients /\ Carried = n /\ End(peer, n) \in Nat /\ HEADER_SZ \in Nat
  BY <1>3, InSession, MiTunerOK
<1>5. CASE NotYet(p)
  <2>1. used' = p.used /\ waitType' = p.wait /\ UNCHANGED <<dev, cl, s3File, srv>>
    BY <1>5 DEF NotYet
  <2>2. Begun' = End(peer, n)
    BY <1>3, <1>4, <2>1 DEF Comes, Begun
  <2>3. Carried' = n
    BY <1>3, <1>4, <2>1, <2>2, CarriedNext
  <2>4. UNCHANGED <<Mode, Session>> /\ UNCHANGED Given
    BY <1>3, <2>1, GivenStays DEF Mode, Session
  <2> QED BY <1>3, <1>4, <2>1, <2>3, <2>4 DEF Service!sessionVars
<1>6. CASE Stops(p, g)
  BY <1>3, <1>6, SessionEnds DEF Stops
<1>7. CASE Parses(p, g)
  BY <1>2, <1>7, RequestCarried
<1> QED BY <1>1, <1>5, <1>6, <1>7

LEMMA ToolSession ==
  ASSUME ToolTypes, ToolInv, ServerInv, Tool
  PROVE  Service!Next
<1>1. srv = "off" /\ UNCHANGED <<cl, srv, queue, peer, used, waitType, s3File>>
  BY ToolOff
<1>2. UNCHANGED <<Mode, Session, Carried>> /\ UNCHANGED Given /\ Mode = "off"
  BY <1>1, ServerStays, GivenStays DEF Mode
<1>3. Service!Tool
  BY <1>1, <1>2 DEF Service!Tool
<1> QED BY <1>3 DEF Service!Next

LEMMA StepSession ==
  ASSUME IInv, [Next]_vars
  PROVE  Service!Next \/ UNCHANGED Service!sessionVars
<1>1. ToolTypes /\ ToolInv /\ ServerInv
  BY DEF IInv
<1>2. CASE Tool
  BY <1>1, <1>2, ToolSession
<1>3. CASE ServerNext
  <2>1. CASE Closed \/ ShutDown
    <3>1. srv = "recv" /\ srv' \in {"accept", "down"} /\ UNCHANGED <<queue, cl, s3File, dev>>
      BY <2>1 DEF Closed, ShutDown
    <3> QED BY <1>1, <3>1, SessionEnds
  <2> QED BY <1>1, <1>3, <2>1, AcceptSession, RecvSession DEF ServerNext
<1>4. CASE ClientNext
  BY <1>1, <1>4, ConnectSession, ClientSession DEF ClientNext
<1>5. CASE UNCHANGED vars
  <2>1. UNCHANGED <<srv, peer, used, waitType>> /\ UNCHANGED <<queue, cl, s3File, dev>>
    BY <1>5 DEF vars
  <2>2. UNCHANGED <<Mode, Session, Carried>> /\ UNCHANGED Given
    BY <2>1, ServerStays, GivenStays
  <2> QED BY <2>1, <2>2 DEF Service!sessionVars
<1> QED BY <1>2, <1>3, <1>4, <1>5 DEF Next

\* Bytes, pieces and buffers do not show: the receive loop serves sessions, one after the other,
\* and carries out each client's requests whole, in order and with what their types allow.
THEOREM SessionsImplemented == Spec => ImplementsSessions
<1>1. Init => Service!Init
  <2> SUFFICES ASSUME Init PROVE Service!Init
    OBVIOUS
  <2>1. /\ cl = [c \in Clients |-> [st |-> "new", sent |-> 0, answers |-> <<>>, unread |-> 0]]
        /\ srv \in {"accept", "off"} /\ queue = <<>> /\ s3File = None
    BY DEF Init
  <2>2. Mode \in {"off", "up"} /\ Session = None /\ Carried = 0
    BY <2>1 DEF Mode, Session, Carried
  <2>3. Given = [c \in Clients |-> <<>>]
    BY <2>1 DEF Given
  <2> QED BY <2>1, <2>2, <2>3 DEF Service!Init
<1>2. IInv /\ [Next]_vars => [Service!Next]_(Service!sessionVars)
  BY StepSession
<1> QED BY <1>1, <1>2, MiTunerInductive, PTL DEF Spec, ImplementsSessions, Service!Spec

=============================================================================
