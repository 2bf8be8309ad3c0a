---------------------------- MODULE HbiKernelProofs ----------------------------
(***************************************************************************)
(* For every number of devices, users per device, files and failures: the  *)
(* safety properties of HbiKernel, under the steps of HbiUser.  The proofs *)
(* go by the inductive invariant KInv of HbiUserInv.                       *)
(***************************************************************************)
EXTENDS HbiUserInv, TLAPS, FiniteSetTheorems, SequenceTheorems, WellFoundedInduction

-----------------------------------------------------------------------------
(* Sequences as lists *)

\* The elements of a sequence are its values.
LEMMA Elements ==
  ASSUME NEW S, NEW q \in Seq(S), NEW x
  PROVE  x \in ToSet(q) <=> \E k \in 1 .. Len(q) : q[k] = x
BY DEF ToSet

\* A sequence of values of S has no other elements.
LEMMA ElementsIn ==
  ASSUME NEW S, NEW q \in Seq(S)
  PROVE  ToSet(q) \subseteq S
BY Elements, ElementOfSeq

\* An element put in front of a list that does not have it.
LEMMA PushedFront ==
  ASSUME NEW S, NEW q \in Seq(S), NEW x \in S, Distinct(q), x \notin ToSet(q)
  PROVE  /\ <<x>> \o q \in Seq(S) /\ Len(<<x>> \o q) = Len(q) + 1
         /\ Distinct(<<x>> \o q) /\ ToSet(<<x>> \o q) = {x} \cup ToSet(q)
<1>1. PICK r : r = <<x>> \o q
  OBVIOUS
<1>2. <<x>> \in Seq(S) /\ Len(<<x>>) = 1 /\ <<x>>[1] = x
  OBVIOUS
<1>3. /\ r \in Seq(S) /\ Len(r) = Len(q) + 1
      /\ \A i \in 1 .. Len(q) + 1 : r[i] = IF i <= 1 THEN x ELSE q[i - 1]
  <2>1. /\ r \in Seq(S) /\ Len(r) = Len(<<x>>) + Len(q)
        /\ \A i \in 1 .. Len(<<x>>) + Len(q) :
             r[i] = IF i <= Len(<<x>>) THEN <<x>>[i] ELSE q[i - Len(<<x>>)]
    BY <1>1, <1>2, ConcatProperties
  <2>2. Len(q) \in Nat
    BY LenProperties
  <2>3. QED
    BY <1>2, <2>1, <2>2
<1>4. Len(q) \in Nat
  BY LenProperties
<1>5. \A i \in 1 .. Len(q) : q[i] # x
  BY Elements
<1>6. Distinct(r)
  <2>1. SUFFICES ASSUME NEW j \in 1 .. Len(q) + 1, NEW k \in 1 .. Len(q) + 1, r[j] = r[k]
                 PROVE  j = k
    BY <1>3 DEF Distinct
  <2>2. CASE j = 1 \/ k = 1
    BY <1>3, <1>4, <1>5, <2>1, <2>2
  <2>3. CASE j # 1 /\ k # 1
    <3>1. j - 1 \in 1 .. Len(q) /\ k - 1 \in 1 .. Len(q) /\ q[j - 1] = q[k - 1]
      BY <1>3, <1>4, <2>1, <2>3
    <3>2. j - 1 = k - 1
      BY <3>1 DEF Distinct
    <3>3. QED
      BY <1>4, <3>2
  <2>4. QED
    BY <2>2, <2>3
<1>7. ASSUME NEW y
      PROVE  y \in ToSet(r) <=> y = x \/ y \in ToSet(q)
  <2>1. y \in ToSet(r) <=> \E i \in 1 .. Len(q) + 1 : r[i] = y
    BY <1>3, Elements
  <2>2. y \in ToSet(q) <=> \E i \in 1 .. Len(q) : q[i] = y
    BY Elements
  <2>3. ASSUME NEW i \in 1 .. Len(q), q[i] = y
        PROVE  i + 1 \in 1 .. Len(q) + 1 /\ r[i + 1] = y
    BY <1>3, <1>4, <2>3
  <2>4. ASSUME NEW i \in 1 .. Len(q) + 1, r[i] = y, y # x
        PROVE  i - 1 \in 1 .. Len(q) /\ q[i - 1] = y
    BY <1>3, <1>4, <2>4
  <2>5. 1 \in 1 .. Len(q) + 1 /\ r[1] = x
    BY <1>3, <1>4
  <2>6. QED
    BY <2>1, <2>2, <2>3, <2>4, <2>5
<1>8. QED
  BY <1>1, <1>3, <1>6, <1>7

\* The head of a list and the rest of it.
LEMMA TakenFromFront ==
  ASSUME NEW S, NEW q \in Seq(S), Distinct(q), q # <<>>
  PROVE  /\ Head(q) \in S /\ Tail(q) \in Seq(S) /\ Distinct(Tail(q))
         /\ Head(q) \notin ToSet(Tail(q)) /\ ToSet(q) = {Head(q)} \cup ToSet(Tail(q))
<1>1. PICK r, x : r = Tail(q) /\ x = Head(q)
  OBVIOUS
<1>2. Len(q) \in Nat \ {0}
  BY EmptySeq
<1>3. /\ r \in Seq(S) /\ Len(r) = Len(q) - 1 /\ x \in S /\ x = q[1]
      /\ \A i \in 1 .. Len(q) - 1 : r[i] = q[i + 1]
  BY <1>1, HeadTailProperties
<1>4. Distinct(r)
  <2>1. SUFFICES ASSUME NEW j \in 1 .. Len(q) - 1, NEW k \in 1 .. Len(q) - 1, r[j] = r[k]
                 PROVE  j = k
    BY <1>3 DEF Distinct
  <2>2. j + 1 \in 1 .. Len(q) /\ k + 1 \in 1 .. Len(q) /\ q[j + 1] = q[k + 1]
    BY <1>2, <1>3, <2>1
  <2>3. j + 1 = k + 1
    BY <2>2 DEF Distinct
  <2>4. QED
    BY <1>2, <2>3
<1>5. x \notin ToSet(r)
  <2>1. SUFFICES ASSUME NEW i \in 1 .. Len(q) - 1, r[i] = x
                 PROVE  FALSE
    BY <1>3, Elements
  <2>2. i + 1 \in 1 .. Len(q) /\ 1 \in 1 .. Len(q) /\ q[i + 1] = q[1]
    BY <1>2, <1>3, <2>1
  <2>3. i + 1 = 1
    BY <2>2 DEF Distinct
  <2>4. QED
    BY <1>2, <2>3
<1>6. ASSUME NEW y
      PROVE  y \in ToSet(q) <=> y = x \/ y \in ToSet(r)
  <2>1. y \in ToSet(r) <=> \E i \in 1 .. Len(q) - 1 : r[i] = y
    BY <1>3, Elements
  <2>2. y \in ToSet(q) <=> \E i \in 1 .. Len(q) : q[i] = y
    BY Elements
  <2>3. ASSUME NEW i \in 1 .. Len(q), q[i] = y, y # x
        PROVE  i - 1 \in 1 .. Len(q) - 1 /\ r[i - 1] = y
    BY <1>2, <1>3, <2>3
  <2>4. ASSUME NEW i \in 1 .. Len(q) - 1, r[i] = y
        PROVE  i + 1 \in 1 .. Len(q) /\ q[i + 1] = y
    BY <1>2, <1>3, <2>4
  <2>5. 1 \in 1 .. Len(q) /\ q[1] = x
    BY <1>2, <1>3
  <2>6. QED
    BY <2>1, <2>2, <2>3, <2>4, <2>5
<1>7. QED
  BY <1>1, <1>3, <1>4, <1>5, <1>6

\* A list without its k-th element.
LEMMA TakenOff ==
  ASSUME NEW S, NEW q \in Seq(S), Distinct(q), NEW k \in 1 .. Len(q)
  PROVE  /\ RemoveAt(q, k) \in Seq(S) /\ Distinct(RemoveAt(q, k))
         /\ ToSet(RemoveAt(q, k)) = ToSet(q) \ {q[k]}
<1>1. Len(q) \in Nat /\ k \in Nat /\ 1 <= k /\ k <= Len(q)
  BY LenProperties
<1>2. \A i \in 1 .. Len(q) : q[i] \in S
  BY ElementOfSeq
<1>3. PICK a, b, r : a = SubSeq(q, 1, k - 1) /\ b = SubSeq(q, k + 1, Len(q)) /\ r = RemoveAt(q, k)
  OBVIOUS
<1>4. /\ a \in Seq(S) /\ Len(a) = k - 1
      /\ \A i \in 1 .. k - 1 : a[i] = q[i]
  <2>1. 1 \in Int /\ k - 1 \in Int /\ \A i \in 1 .. k - 1 : q[i] \in S
    BY <1>1, <1>2
  <2>2. /\ a \in Seq(S) /\ Len(a) = IF 1 <= k - 1 THEN k - 1 - 1 + 1 ELSE 0
        /\ \A i \in 1 .. k - 1 - 1 + 1 : a[i] = q[1 + i - 1]
    BY <1>3, <2>1, SubSeqProperties
  <2>3. QED
    BY <1>1, <2>2
<1>5. /\ b \in Seq(S) /\ Len(b) = Len(q) - k
      /\ \A i \in 1 .. Len(q) - k : b[i] = q[k + i]
  <2>1. k + 1 \in Int /\ Len(q) \in Int /\ \A i \in k + 1 .. Len(q) : q[i] \in S
    BY <1>1, <1>2
  <2>2. /\ b \in Seq(S) /\ Len(b) = IF k + 1 <= Len(q) THEN Len(q) - (k + 1) + 1 ELSE 0
        /\ \A i \in 1 .. Len(q) - (k + 1) + 1 : b[i] = q[k + 1 + i - 1]
    BY <1>3, <2>1, SubSeqProperties
  <2>3. QED
    BY <1>1, <2>2
<1>6. /\ r \in Seq(S) /\ Len(r) = Len(q) - 1
      /\ \A i \in 1 .. Len(q) - 1 : r[i] = IF i < k THEN q[i] ELSE q[i + 1]
  <2>1. r = a \o b
    BY <1>3 DEF RemoveAt
  <2>2. /\ r \in Seq(S) /\ Len(r) = Len(a) + Len(b)
        /\ \A i \in 1 .. Len(a) + Len(b) : r[i] = IF i <= Len(a) THEN a[i] ELSE b[i - Len(a)]
    BY <1>4, <1>5, <2>1, ConcatProperties, ZenonT(60)
  <2>3. ASSUME NEW i \in 1 .. Len(q) - 1
        PROVE  r[i] = IF i < k THEN q[i] ELSE q[i + 1]
    <3>1. CASE i < k
      <4>1. i \in 1 .. k - 1 /\ i \in 1 .. Len(a) + Len(b) /\ i <= Len(a)
        <5>1. Len(a) = k - 1 /\ Len(a) + Len(b) = Len(q) - 1
          BY <1>1, <1>4, <1>5
        <5>2. i \in 1 .. k - 1
          BY <1>1, <3>1
        <5>3. i <= k - 1
          BY <5>2
        <5>4. QED
          BY <5>1, <5>2, <5>3, Zenon
      <4>2. r[i] = a[i]
        BY <2>2, <4>1, Zenon
      <4>3. a[i] = q[i]
        BY <1>4, <4>1, Zenon
      <4>4. QED
        BY <3>1, <4>2, <4>3, Zenon
    <3>2. CASE ~(i < k)
      <4>1. r[i] = b[i - (k - 1)] /\ i - (k - 1) \in 1 .. Len(q) - k
        <5>1. Len(a) + Len(b) = Len(q) - 1 /\ ~(i <= Len(a))
          BY <1>1, <1>4, <1>5, <3>2
        <5>2. r[i] = b[i - Len(a)]
          BY <2>2, <5>1
        <5>3. i - (k - 1) \in 1 .. Len(q) - k
          BY <1>1, <3>2
        <5>4. QED
          BY <1>4, <5>2, <5>3
      <4>2. b[i - (k - 1)] = q[k + (i - (k - 1))] /\ k + (i - (k - 1)) = i + 1
        BY <1>1, <1>5, <4>1
      <4>3. QED
        BY <3>2, <4>1, <4>2
    <3>3. QED
      BY <3>1, <3>2
  <2>4. QED
    BY <1>1, <1>4, <1>5, <2>2, <2>3
\* Where an element of the shorter list was.
<1> DEFINE Was(i) == IF i < k THEN i ELSE i + 1
<1>7. ASSUME NEW i \in 1 .. Len(q) - 1
      PROVE  Was(i) \in 1 .. Len(q) /\ Was(i) # k /\ r[i] = q[Was(i)]
  BY <1>1, <1>6
<1>8. Distinct(r)
  <2>1. SUFFICES ASSUME NEW i \in 1 .. Len(q) - 1, NEW j \in 1 .. Len(q) - 1, r[i] = r[j]
                 PROVE  i = j
    BY <1>6 DEF Distinct
  <2>2. Was(i) \in 1 .. Len(q) /\ Was(j) \in 1 .. Len(q) /\ q[Was(i)] = q[Was(j)]
    BY <1>7, <2>1
  <2>3. Was(i) = Was(j)
    BY <2>2 DEF Distinct
  <2>4. QED
    BY <1>1, <2>3
<1>9. ASSUME NEW y
      PROVE  y \in ToSet(r) <=> y \in ToSet(q) /\ y # q[k]
  <2>1. y \in ToSet(r) <=> \E i \in 1 .. Len(q) - 1 : r[i] = y
    BY <1>6, Elements
  <2>2. y \in ToSet(q) <=> \E i \in 1 .. Len(q) : q[i] = y
    BY Elements
  <2>3. ASSUME NEW i \in 1 .. Len(q) - 1, r[i] = y
        PROVE  y # q[k]
    <3>1. Was(i) \in 1 .. Len(q) /\ Was(i) # k /\ y = q[Was(i)]
      BY <1>7, <2>3
    <3>2. QED
      BY <3>1 DEF Distinct
  <2>4. ASSUME NEW i \in 1 .. Len(q), q[i] = y, y # q[k]
        PROVE  \E j \in 1 .. Len(q) - 1 : r[j] = y
    <3>1. CASE i < k
      BY <1>1, <1>6, <2>4, <3>1
    <3>2. CASE i > k
      <4>1. i - 1 \in 1 .. Len(q) - 1 /\ ~(i - 1 < k) /\ i - 1 + 1 = i
        BY <1>1, <3>2
      <4>2. r[i - 1] = q[i]
        BY <1>6, <4>1
      <4>3. QED
        BY <2>4, <4>1, <4>2
    <3>3. QED
      BY <1>1, <2>4, <3>1, <3>2
  <2>5. QED
    BY <1>7, <2>1, <2>2, <2>3, <2>4
<1>10. QED
  BY <1>3, <1>6, <1>8, <1>9

\* A list has as many elements as it is long.
LEMMA ListCounts ==
  ASSUME NEW S, NEW q \in Seq(S), Distinct(q)
  PROVE  IsFiniteSet(ToSet(q)) /\ Cardinality(ToSet(q)) = Len(q)
<1>1. Len(q) \in Nat /\ DOMAIN q = 1 .. Len(q) /\ q \in [1 .. Len(q) -> S]
  BY LenProperties
<1>2. \A x : x \in ToSet(q) <=> \E k \in 1 .. Len(q) : q[k] = x
  BY Elements
<1>3. q \in [1 .. Len(q) -> ToSet(q)]
  BY <1>1, <1>2
<1>4. q \in Bijection(1 .. Len(q), ToSet(q))
  BY <1>2, <1>3, Zenon DEF Bijection, Injection, Surjection, IsInjective, Distinct
<1>5. ExistsBijection(1 .. Len(q), ToSet(q))
  BY <1>4 DEF ExistsBijection
<1>6. QED
  BY <1>1, <1>5, FS_CountingElements, FS_NatBijection

-----------------------------------------------------------------------------
(* The constants *)

LEMMA Constants ==
  /\ NumDevs \in Nat \ {0} /\ MaxUsers \in Nat \ {0}
  /\ Ids = Minors /\ CodecDev \in Ids
  /\ Ids \subseteq Nat /\ Handles \subseteq Nat /\ Structs \subseteq Nat
  /\ None \notin Ids /\ None \notin Handles /\ None \notin Structs /\ None # 0 /\ 0 \notin Structs
  /\ Gone \notin Structs /\ Gone # 0
  /\ IsFiniteSet(Minors) /\ Cardinality(Minors) = NumDevs /\ IsFiniteSet(Handles)
<1>1. NumDevs \in Nat \ {0} /\ MaxUsers \in Nat \ {0} /\ CodecDev \in 0 .. NumDevs - 1
  BY KernelConstantsOK
<1>2. NumDevs * MaxUsers \in Nat
  BY <1>1
<1>3. Ids = Minors /\ CodecDev \in Ids
  BY <1>1 DEF Ids, Minors
<1>4. Ids \subseteq Nat /\ Structs \subseteq Nat /\ 0 \notin Structs
  BY <1>1 DEF Ids, Structs
<1>5. Handles \subseteq Nat
  BY <1>2 DEF Handles
<1>6. None \notin Ids /\ None \notin Handles /\ None \notin Structs /\ None # 0
  <2>1. None \notin Nat
    BY KernelConstantsOK
  <2>2. 0 \in Nat
    OBVIOUS
  <2>3. QED
    BY <1>4, <1>5, <2>1, <2>2
<1>7. 0 \in Int /\ NumDevs - 1 \in Int /\ NumDevs * MaxUsers - 1 \in Int
  BY <1>1, <1>2
<1>8. IsFiniteSet(0 .. NumDevs - 1)
      /\ Cardinality(0 .. NumDevs - 1) = IF 0 > NumDevs - 1 THEN 0 ELSE NumDevs - 1 - 0 + 1
  BY <1>7, FS_Interval
<1>9. IsFiniteSet(0 .. NumDevs * MaxUsers - 1)
  BY <1>7, FS_Interval
<1>10. IsFiniteSet(Minors) /\ Cardinality(Minors) = NumDevs /\ IsFiniteSet(Handles)
  BY <1>1, <1>8, <1>9 DEF Minors, Handles
<1>11. Gone \notin Structs /\ Gone # 0
  BY <1>1 DEF Gone, Structs
<1>12. QED
  BY <1>1, <1>3, <1>4, <1>5, <1>6, <1>10, <1>11

\* None is none of the names.
LEMMA Names == None \notin {"up", "err", "freed", "load", "unload", "proc"}
BY KernelConstantsOK

\* A set of numbers that is not empty has a least element.
LEMMA LeastIn ==
  ASSUME NEW S, S \subseteq Nat, S # {}
  PROVE  Least(S) \in S
<1>1. PICK R : R = OpToRel(<, Nat)
  OBVIOUS
<1>2. \E x \in S : \A y \in S : ~(<<y, x>> \in R)
  <2>1. IsWellFoundedOn(R, Nat)
    BY <1>1, NatLessThanWellFounded
  <2>2. QED
    BY <2>1, WFMin
<1>3. \E x \in S : \A y \in S : x <= y
  <2>1. PICK x \in S : \A y \in S : ~(<<y, x>> \in R)
    BY <1>2
  <2>2. ASSUME NEW y \in S
        PROVE  x <= y
    <3>1. x \in Nat /\ y \in Nat
      BY <2>1, <2>2
    <3>2. y < x => <<y, x>> \in R
      BY <1>1, <3>1 DEF OpToRel
    <3>3. QED
      BY <2>1, <2>2, <3>1, <3>2
  <2>3. QED
    BY <2>2
<1>4. QED
  BY <1>3 DEF Least

-----------------------------------------------------------------------------
(* The handles of the HBI driver and its count *)

UserTable == [Handles -> Ids \cup {None}]

LEMMA UsedFinite ==
  ASSUME NEW us
  PROVE  Used(us) \subseteq Handles /\ IsFiniteSet(Used(us)) /\ Cardinality(Used(us)) \in Nat
<1>1. Used(us) \subseteq Handles
  BY DEF Used
<1>2. QED
  BY <1>1, Constants, FS_Subset, FS_CardinalityType

\* One more handle in use.
LEMMA UsedMore ==
  ASSUME NEW us \in UserTable, NEW h \in Handles, us[h] = None, NEW id \in Ids
  PROVE  /\ [us EXCEPT ![h] = id] \in UserTable
         /\ Used([us EXCEPT ![h] = id]) = Used(us) \cup {h}
         /\ Cardinality(Used([us EXCEPT ![h] = id])) = Cardinality(Used(us)) + 1
<1>1. PICK vs : vs = [us EXCEPT ![h] = id]
  OBVIOUS
<1>2. vs \in UserTable /\ vs[h] = id /\ \A g \in Handles \ {h} : vs[g] = us[g]
  BY <1>1 DEF UserTable
<1>3. Used(vs) = Used(us) \cup {h} /\ h \notin Used(us)
  BY <1>2, Constants DEF Used
<1>4. Cardinality(Used(us) \cup {h}) = Cardinality(Used(us)) + 1
  BY <1>3, UsedFinite, FS_AddElement
<1>5. QED
  BY <1>1, <1>2, <1>3, <1>4

\* One handle less.
LEMMA UsedLess ==
  ASSUME NEW us \in UserTable, NEW h \in Handles
  PROVE  /\ [us EXCEPT ![h] = None] \in UserTable
         /\ Used([us EXCEPT ![h] = None]) = Used(us) \ {h}
         /\ Cardinality(Used([us EXCEPT ![h] = None]))
              = IF us[h] = None THEN Cardinality(Used(us)) ELSE Cardinality(Used(us)) - 1
<1>1. PICK vs : vs = [us EXCEPT ![h] = None]
  OBVIOUS
<1>2. vs \in UserTable /\ vs[h] = None /\ \A g \in Handles \ {h} : vs[g] = us[g]
  BY <1>1 DEF UserTable
<1>3. Used(vs) = Used(us) \ {h} /\ (h \in Used(us) <=> us[h] # None)
  BY <1>2 DEF Used
<1>4. Cardinality(Used(us) \ {h})
        = IF h \in Used(us) THEN Cardinality(Used(us)) - 1 ELSE Cardinality(Used(us))
  BY UsedFinite, FS_RemoveElement
<1>5. QED
  BY <1>1, <1>2, <1>3, <1>4

\* HBI_open gives a handle that is not in use.
LEMMA NewHandleFree ==
  ASSUME NEW id, RoomFor(id), users \in UserTable
  PROVE  NewHandle \in Handles /\ users[NewHandle] = None
<1>1. Used(users) \subseteq Handles /\ Handles \ Used(users) # {}
  BY DEF RoomFor, Used
<1>2. NewHandle \in Handles \ Used(users)
  BY <1>1, Constants, LeastIn DEF NewHandle
<1>3. QED
  BY <1>2 DEF Used

\* HBI_term takes at most one.
LEMMA TermCounts ==
  ASSUME NEW us, NEW c \in Nat
  PROVE  /\ TermCount(us, c) \in Nat /\ TermCount(us, c) <= c /\ c <= TermCount(us, c) + 1
         /\ c > 1 \/ (c = 1 /\ Used(us) = {}) => TermCount(us, c) = c - 1
BY DEF TermCount

\* What is left when one handle and one count are gone.
LEMMA OneLess ==
  ASSUME NEW n \in Nat, NEW c \in Nat, NEW d \in Nat, n + 1 <= c, c <= d + 1
  PROVE  n + 0 <= d
OBVIOUS

-----------------------------------------------------------------------------
(* Steps that move the operation on and change nothing else *)

\* The places where a structure, its file or its handle is behind the list.
HalfWay == {"node", "list", "unlist", "destroy"}

LEMMA Moves ==
  ASSUME KInv, UNCHANGED <<priv, drvTable, fileVars, codec, histVars>>,
         op.pc \notin HalfWay, op'.pc \notin HalfWay, op' \in OpRec,
         mod' \in {"out", "loading", "in", "oops"}, mod' = "out" <=> mod = "out",
         op'.pc = "close" => op'.s \in Listed
  PROVE  KTypes' /\ Shape' /\ Owned' /\ FilesRight' /\ Enough' /\ UnloadReleases'
<1>1. KTypes'
  BY DEF KInv, KTypes, priv, drvTable, fileVars, histVars
<1>2. /\ Allocated' = Allocated /\ Listed' = Listed /\ Unlisted' = Unlisted
      /\ Noded' = Noded /\ Held' = Held /\ Loose' = Loose
  BY DEF priv, histVars, HalfWay, Allocated, Listed, Unlisted, Noded, Held, Closing, Loose
<1>3. Shape'
  BY <1>2 DEF KInv, Shape, priv, HalfWay
<1>4. Kept' = Kept
  BY <1>2 DEF Kept, InUse, fileVars
<1>5. Owned'
  BY <1>2, <1>4 DEF KInv, Owned, priv, drvTable, fileVars, histVars
<1>6. FilesRight'
  BY <1>2 DEF KInv, FilesRight, priv, fileVars
<1>7. Enough'
  BY <1>2 DEF KInv, Enough, CodecInits, drvTable, histVars
<1>8. UnloadReleases'
  BY <1>2 DEF KInv, UnloadReleases, priv, drvTable, histVars
<1>9. QED
  BY <1>1, <1>3, <1>5, <1>6, <1>7, <1>8

\* The fields of the operation.
LEMMA OpFields ==
  ASSUME op \in OpRec
  PROVE  /\ op.pc \in OpPcs /\ op.by \in {None, "load", "unload", "proc"} /\ op.i \in 0 .. NumDevs
         /\ op.s \in Structs \cup {0} /\ op.todo \in Seq(Structs)
         /\ NoOp.pc = "none" /\ NoOp.by = None /\ NoOp.i = 0 /\ NoOp.s = 0 /\ NoOp.todo = <<>>
         /\ NoOp \in OpRec
<1>1. <<>> \in Seq(Structs) /\ 0 \in 0 .. NumDevs
  BY Constants
<1>2. QED
  BY <1>1 DEF OpRec, OpPcs, NoOp

LEMMA LoadNextKeeps == KInv /\ mod # "oops" /\ LoadNext => KInv'
<1> SUFFICES ASSUME KInv, mod # "oops", LoadNext
             PROVE  KInv'
  OBVIOUS
<1> USE DEF KInv
<1>1. op \in OpRec /\ mod \in {"out", "loading", "in", "oops"}
  BY DEF KTypes
<1>2. mod = "loading" /\ op.pc = "next" /\ op.by = "load"
  BY DEF LoadNext, Phases
<1>3. \/ mod' = "in" /\ op' = NoOp
      \/ /\ mod' = mod /\ op'.pc = "open" /\ op'.by = op.by /\ op'.i = op.i /\ op'.s = op.s
         /\ op'.todo = op.todo /\ op' \in OpRec /\ op'.i \in Ids
  BY <1>1, OpFields, Constants DEF LoadNext, OpRec, OpPcs, Ids
<1>4. /\ KTypes' /\ Shape' /\ Owned' /\ FilesRight' /\ Enough' /\ UnloadReleases'
  BY <1>1, <1>2, <1>3, OpFields, Moves DEF LoadNext, HalfWay
<1>5. Phases'
  BY <1>1, <1>2, <1>3, OpFields, Names DEF LoadNext, Phases, priv, fileVars, histVars
<1>6. ToDo' /\ Clears'
  BY <1>1, <1>2, <1>3, OpFields, Names DEF ToDo, Clears
<1>7. QED
  BY <1>4, <1>5, <1>6

LEMMA UnloadKeeps == KInv /\ Unload => KInv'
<1> SUFFICES ASSUME KInv, Unload
             PROVE  KInv'
  OBVIOUS
<1> USE DEF KInv
<1>1. op \in OpRec /\ list \in Seq(Structs) /\ op = NoOp /\ mod = "in" /\ UNCHANGED mod
  BY DEF KTypes, Unload
<1>2. /\ op'.pc = "exit" /\ op'.by = "unload" /\ op'.todo = list /\ op' \in OpRec
  BY <1>1, OpFields DEF Unload, OpRec, OpPcs, NoOp
<1>3. /\ KTypes' /\ Shape' /\ Owned' /\ FilesRight' /\ Enough' /\ UnloadReleases'
  BY <1>1, <1>2, OpFields, Moves DEF Unload, HalfWay
<1>4. Phases'
  BY <1>1, <1>2, OpFields, Names DEF Unload, Phases, priv, fileVars, histVars
<1>5. ToDo' /\ Clears'
  BY <1>1, <1>2 DEF Unload, ToDo, Clears, Shape, Listed, priv, histVars
<1>6. QED
  BY <1>3, <1>4, <1>5

LEMMA ExitNextKeeps == KInv /\ mod # "oops" /\ ExitNext => KInv'
<1> SUFFICES ASSUME KInv, mod # "oops", ExitNext
             PROVE  KInv'
  OBVIOUS
<1> USE DEF KInv
<1>1. op \in OpRec /\ op.todo \in Seq(Structs) /\ op.pc = "exit" /\ UNCHANGED mod
  BY OpFields DEF KTypes, ExitNext
<1>2. op.by \in {"load", "unload"}
  BY <1>1 DEF Phases
<1>3. mod \in {"out", "loading", "in", "oops"}
  BY DEF KTypes
<1>4. UNCHANGED <<priv, drvTable, fileVars, codec, histVars>>
  BY DEF ExitNext
<1>5. CASE op.todo = <<>>
  <2>1. /\ op'.pc = "term" /\ op'.by = op.by /\ op'.i = op.i /\ op'.todo = op.todo /\ op' \in OpRec
    BY <1>1, <1>5 DEF ExitNext, ToClose, OpRec, OpPcs
  <2>2. /\ KTypes' /\ Shape' /\ Owned' /\ FilesRight' /\ Enough' /\ UnloadReleases'
    BY <1>1, <1>3, <1>4, <2>1, Moves DEF HalfWay
  <2>3. Phases'
    BY <1>1, <1>2, <1>4, <2>1, Names DEF Phases, priv, fileVars, histVars
  <2>4. ToSet(op.todo) = {}
    <3>1. Len(op.todo) = 0
      BY <1>5, EmptySeq
    <3>2. QED
      BY <1>1, <3>1, Elements
  <2>5. ToDo' /\ Clears'
    BY <1>1, <1>2, <1>4, <2>1, <2>4 DEF ToDo, Clears, Listed, priv, histVars
  <2>6. QED
    BY <2>2, <2>3, <2>5
<1>6. CASE op.todo # <<>>
  <2>1. PICK x, r : x = Head(op.todo) /\ r = Tail(op.todo)
    OBVIOUS
  <2>2. Distinct(op.todo) /\ ToSet(op.todo) \subseteq Listed
    BY <1>1 DEF ToDo
  <2>3. /\ x \in Structs /\ r \in Seq(Structs) /\ Distinct(r) /\ x \notin ToSet(r)
        /\ ToSet(op.todo) = {x} \cup ToSet(r)
    BY <1>1, <1>6, <2>1, <2>2, TakenFromFront
  <2>4. /\ op'.pc = "close" /\ op'.by = op.by /\ op'.i = op.i /\ op'.todo = r /\ op'.s = x
        /\ op' \in OpRec
    BY <1>1, <1>6, <2>1, <2>3 DEF ExitNext, ToClose, OpRec, OpPcs
  <2>5. /\ KTypes' /\ Shape' /\ Owned' /\ FilesRight' /\ Enough' /\ UnloadReleases'
    BY <1>1, <1>3, <1>4, <2>2, <2>3, <2>4, Moves DEF HalfWay
  <2>6. Phases'
    BY <1>1, <1>2, <1>4, <2>4, Names DEF Phases, priv, fileVars, histVars
  <2>7. ToDo' /\ Clears'
    BY <1>1, <1>2, <1>4, <2>2, <2>3, <2>4 DEF ToDo, Clears, Listed, priv, histVars
  <2>8. QED
    BY <2>5, <2>6, <2>7
<1>7. QED
  BY <1>5, <1>6

LEMMA ProcOpenKeeps == ASSUME KInv, NEW id \in Ids, ProcOpen(id) PROVE KInv'
<1> USE DEF KInv
<1>1. op \in OpRec /\ op = NoOp /\ mod = "in" /\ UNCHANGED mod
  BY DEF KTypes, ProcOpen
<1>2. /\ op'.pc = "open" /\ op'.by = "proc" /\ op'.i = id /\ op'.todo = <<>> /\ op' \in OpRec
  <2>1. id \in 0 .. NumDevs
    BY Constants DEF Ids
  <2>2. QED
    BY <1>1, <2>1, OpFields DEF ProcOpen, OpRec, OpPcs, NoOp
<1>3. /\ KTypes' /\ Shape' /\ Owned' /\ FilesRight' /\ Enough' /\ UnloadReleases'
  BY <1>1, <1>2, OpFields, Moves DEF ProcOpen, HalfWay
<1>4. Phases'
  BY <1>1, <1>2, OpFields, Names DEF ProcOpen, Phases, priv, fileVars, histVars
<1>5. ToDo' /\ Clears'
  BY <1>2 DEF ToDo, Clears
<1>6. QED
  BY <1>3, <1>4, <1>5

LEMMA ProcCloseKeeps == ASSUME KInv, NEW id \in Ids, ProcClose(id) PROVE KInv'
<1> USE DEF KInv
<1>1. op \in OpRec /\ op = NoOp /\ mod = "in" /\ UNCHANGED mod /\ list \in Seq(Structs)
  BY DEF KTypes, ProcClose
<1>2. PICK k \in 1 .. Len(list) : op' = [NoOp EXCEPT !.pc = "close", !.by = "proc", !.s = list[k]]
  BY DEF ProcClose
<1>3. list[k] \in Structs /\ list[k] \in Listed
  BY <1>1, Elements, ElementOfSeq DEF Listed
<1>4. /\ op'.pc = "close" /\ op'.by = "proc" /\ op'.s = list[k] /\ op'.todo = <<>> /\ op' \in OpRec
  BY <1>1, <1>2, <1>3, OpFields DEF OpRec, OpPcs, NoOp
<1>5. /\ KTypes' /\ Shape' /\ Owned' /\ FilesRight' /\ Enough' /\ UnloadReleases'
  BY <1>1, <1>3, <1>4, OpFields, Moves DEF ProcClose, HalfWay
<1>6. Phases'
  BY <1>1, <1>4, OpFields, Names DEF ProcClose, Phases, priv, fileVars, histVars
<1>7. ToSet(<<>>) = {} /\ Distinct(<<>>)
  <2>1. PICK q : q = <<>>
    OBVIOUS
  <2>2. Len(q) = 0 /\ q \in Seq(Structs)
    BY <2>1, EmptySeq
  <2>3. 1 .. Len(q) = {}
    BY <2>2
  <2>4. ToSet(q) = {} /\ Distinct(q)
    BY <2>2, <2>3, Elements DEF Distinct
  <2>5. QED
    BY <2>1, <2>4
<1>8. ToDo' /\ Clears'
  BY <1>4, <1>7 DEF ToDo, Clears
<1>9. QED
  BY <1>5, <1>6, <1>8

\* Freed memory is used: the driver is where it was.
LEMMA OopsKeeps ==
  ASSUME KInv, Oops
  PROVE  KInv'
<1> USE DEF KInv
<1>1. mod' = "oops" /\ UNCHANGED <<priv, drvTable, op, fileVars, codec, histVars>>
  BY DEF Oops
<1>2. KTypes'
  BY <1>1 DEF KTypes, priv, drvTable, fileVars, histVars
<1>3. Phases'
  BY <1>1 DEF Phases, priv, fileVars, histVars
<1>4. /\ Allocated' = Allocated /\ Listed' = Listed /\ Unlisted' = Unlisted
      /\ Noded' = Noded /\ Held' = Held /\ Loose' = Loose
  BY <1>1 DEF priv, histVars, Allocated, Listed, Unlisted, Noded, Held, Closing, Loose
<1>5. Shape' /\ ToDo'
  BY <1>1, <1>4 DEF Shape, ToDo, priv
<1>6. Kept' = Kept
  BY <1>1, <1>4 DEF Kept, InUse, fileVars
<1>7. Owned'
  BY <1>1, <1>4, <1>6 DEF Owned, priv, drvTable, fileVars, histVars
<1>8. FilesRight'
  BY <1>1, <1>4 DEF FilesRight, priv, fileVars
<1>9. Enough' /\ Clears' /\ UnloadReleases'
  BY <1>1, <1>4 DEF Enough, CodecInits, Clears, UnloadReleases, drvTable, histVars
<1>10. QED
  BY <1>2, <1>3, <1>5, <1>7, <1>8, <1>9

-----------------------------------------------------------------------------
(* Files are opened and closed *)

LEMMA IoCloseKeeps == ASSUME KInv, mod # "oops", NEW f \in Files, IoClose(f) PROVE KInv'
<1> USE DEF KInv
<1>1. /\ files' = [files EXCEPT ![f] = 0] /\ named' = [named EXCEPT ![f] = None]
      /\ cut' = cut \ {f} /\ UNCHANGED <<mod, priv, drvTable, op, codec, histVars>>
      /\ files[f] \in Structs
  BY DEF IoClose
<1>2. /\ files \in [Files -> Structs \cup {0, Gone}] /\ cut \subseteq {g \in Files : files[g] # 0}
  BY DEF KTypes
<1>3. KTypes'
  BY <1>1, <1>2 DEF KTypes, priv, drvTable, histVars
<1>4. Phases'
  BY <1>1, <1>2 DEF Phases, priv, histVars
<1>5. /\ Allocated' = Allocated /\ Listed' = Listed /\ Unlisted' = Unlisted
      /\ Noded' = Noded /\ Held' = Held /\ Loose' = Loose
  BY <1>1 DEF priv, histVars, Allocated, Listed, Unlisted, Noded, Held, Closing, Loose
<1>6. Shape' /\ ToDo'
  BY <1>1, <1>5 DEF Shape, ToDo, priv
<1>7. Kept' \subseteq Kept
  <2>1. \A s \in Held : s # 0
    BY Constants DEF Held, Allocated
  <2>2. ASSUME NEW s \in Held, NEW g \in Files \ (cut \ {f}), files'[g] = s
        PROVE  g \in Files \ cut /\ files[g] = s
    BY <1>1, <1>2, <2>1, <2>2
  <2>3. QED
    BY <1>1, <1>5, <2>2 DEF Kept, InUse
<1>8. Owned'
  BY <1>1, <1>5, <1>7 DEF Owned, priv, drvTable, histVars
<1>9. FilesRight'
  BY <1>1, <1>2, <1>5 DEF FilesRight, priv, KTypes
<1>10. Enough' /\ Clears' /\ UnloadReleases'
  BY <1>1, <1>5 DEF Enough, CodecInits, Clears, UnloadReleases, priv, drvTable, histVars
<1>11. QED
  BY <1>3, <1>4, <1>6, <1>8, <1>9, <1>10

LEMMA IoOpenKeeps == ASSUME KInv, NEW f \in Files, NEW id \in Ids, IoOpen(f, id) PROVE KInv'
<1> USE DEF KInv
<1>1. PICK m, s :
        /\ m \in Minors /\ s \in ByNumber(m) /\ nodes[m] = id
        /\ files' = [files EXCEPT ![f] = s] /\ named' = [named EXCEPT ![f] = id]
        /\ cut' = IF op.pc = "unlist" /\ op.s = s THEN cut \cup {f} ELSE cut
  BY DEF IoOpen
<1>2. /\ UNCHANGED <<mod, priv, drvTable, op, codec, histVars>>
      /\ mod \in {"loading", "in"} /\ chrdev = "up" /\ files[f] = 0
  BY DEF IoOpen
<1>3. /\ files \in [Files -> Structs \cup {0, Gone}] /\ named \in [Files -> Ids \cup {None}]
      /\ cut \subseteq {g \in Files : files[g] # 0} /\ list \in Seq(Structs)
  BY DEF KTypes
<1>4. s \in Listed /\ s \in Structs /\ devs[s].minor = m
  BY <1>1, <1>3, ElementsIn DEF ByNumber, Listed
<1>5. s \in Noded /\ devs[s].id = id
  BY <1>1, <1>4 DEF Shape, Noded, Unlisted
<1>6. KTypes'
  BY <1>1, <1>2, <1>3, <1>4, Constants DEF KTypes, priv, drvTable, histVars
<1>7. Phases'
  BY <1>2 DEF Phases, priv, histVars
<1>8. /\ Allocated' = Allocated /\ Listed' = Listed /\ Unlisted' = Unlisted
      /\ Noded' = Noded /\ Held' = Held /\ Loose' = Loose /\ ~Loose
  BY <1>2 DEF priv, histVars, Allocated, Listed, Unlisted, Noded, Held, Closing, Loose
<1>9. Shape' /\ ToDo'
  BY <1>2, <1>8 DEF Shape, ToDo, priv
<1>10. Kept' = Held /\ Kept = Held
  BY <1>8 DEF Kept
<1>11. Owned'
  BY <1>2, <1>8, <1>10 DEF Owned, priv, drvTable, histVars
<1>12. FilesRight'
  <2>1. s \in Held \/ f \in cut'
    BY <1>1, <1>4, <1>8 DEF Held, Closing, Shape, Unlisted
  <2>2. SUFFICES ASSUME NEW g \in Files, files'[g] # 0, g \notin cut'
                 PROVE  /\ files'[g] \in Structs /\ files'[g] \in Listed /\ files'[g] \in Held
                        /\ devs[files'[g]].id = named'[g]
    BY <1>2, <1>8 DEF FilesRight, priv
  <2>3. CASE g = f
    BY <1>1, <1>3, <1>4, <1>5, <2>1, <2>2, <2>3
  <2>4. CASE g # f
    BY <1>1, <1>3, <2>2, <2>4 DEF FilesRight
  <2>5. QED
    BY <2>3, <2>4
<1>13. Enough' /\ Clears' /\ UnloadReleases'
  BY <1>2, <1>8 DEF Enough, CodecInits, Clears, UnloadReleases, priv, drvTable, histVars
<1>14. QED
  BY <1>6, <1>7, <1>9, <1>11, <1>12, <1>13

-----------------------------------------------------------------------------
(* The parts of internal_hbi_open and internal_hbi_close that keep the handles *)

\* How internal_hbi_open and internal_hbi_close return to who called them.
LEMMA OpenDoneDoes ==
  ASSUME op \in OpRec, op.by \in {"load", "proc"}, op.i \in Ids, OpenDone
  PROVE  /\ op' \in OpRec
         /\ \/ op.by = "proc" /\ op' = NoOp
            \/ op.by = "load" /\ op'.pc = "next" /\ op'.by = "load"
<1>1. op.i + 1 \in 0 .. NumDevs
  BY Constants DEF Ids
<1>2. QED
  BY <1>1, OpFields DEF OpenDone, OpRec, OpPcs

LEMMA OpenFailsDoes ==
  ASSUME op \in OpRec, list \in Seq(Structs), failedLoad \in BOOLEAN,
         op.by \in {"load", "proc"}, OpenFails
  PROVE  /\ op' \in OpRec
         /\ \/ op.by = "proc" /\ op' = NoOp /\ failedLoad' = failedLoad
            \/ /\ op.by = "load" /\ op'.pc = "exit" /\ op'.by = "load" /\ op'.i = op.i
               /\ op'.todo = list /\ failedLoad' = TRUE
<1>1. CASE op.by = "proc"
  <2>1. op' = NoOp /\ failedLoad' = (failedLoad \/ FALSE)
    BY <1>1 DEF OpenFails
  <2>2. QED
    BY <1>1, <2>1, OpFields
<1>2. CASE op.by = "load"
  <2>1. op' = [op EXCEPT !.pc = "exit", !.todo = list] /\ failedLoad' = TRUE
    BY <1>2 DEF OpenFails
  <2>2. QED
    BY <1>2, <2>1 DEF OpRec, OpPcs
<1>3. QED
  BY <1>1, <1>2

LEMMA CloseReturnsDoes ==
  ASSUME op \in OpRec, op.by \in {"load", "unload", "proc"}, CloseReturns
  PROVE  /\ op' \in OpRec
         /\ \/ op.by = "proc" /\ op' = NoOp
            \/ /\ op.by \in {"load", "unload"} /\ op'.pc = "exit" /\ op'.by = op.by
               /\ op'.i = op.i /\ op'.todo = op.todo
BY OpFields, Names DEF CloseReturns, OpRec, OpPcs

LEMMA AddToListKeeps == KInv /\ AddToList => KInv'
<1> SUFFICES ASSUME KInv, AddToList
             PROVE  KInv'
  OBVIOUS
<1> USE DEF KInv
<1>1. /\ op \in OpRec /\ op.pc = "list" /\ list \in Seq(Structs) /\ list' = <<op.s>> \o list
      /\ UNCHANGED <<mod, chrdev, cls, minors, devs, nodes, drvTable, fileVars, codec, histVars>>
  BY DEF KTypes, AddToList
<1>2. op.by \in {"load", "proc"} /\ op.i \in Ids /\ mod # "out"
  BY <1>1, OpFields DEF Phases
<1>3. /\ op' \in OpRec
      /\ \/ op.by = "proc" /\ op' = NoOp
         \/ op.by = "load" /\ op'.pc = "next" /\ op'.by = "load"
  BY <1>1, <1>2, OpenDoneDoes DEF AddToList
<1>4. op'.pc \in {"none", "next"}
  BY <1>1, <1>3, OpFields
<1>5. op.s \in Allocated /\ op.s \in Structs /\ op.s \notin Listed /\ Distinct(list)
  BY <1>1 DEF Shape, Unlisted, Allocated
<1>6. list' \in Seq(Structs) /\ Distinct(list') /\ Listed' = {op.s} \cup Listed
  BY <1>1, <1>5, PushedFront DEF Listed
<1>7. KTypes'
  BY <1>1, <1>3, <1>6 DEF KTypes, drvTable, fileVars, histVars
<1>8. Phases'
  BY <1>1, <1>2, <1>3, OpFields, Names DEF Phases, fileVars, histVars
<1>9. /\ Allocated' = Allocated /\ Unlisted' = {} /\ Noded' = Allocated /\ Noded = Allocated
      /\ Held' = Held /\ Loose' = Loose
  BY <1>1, <1>4 DEF histVars, Allocated, Unlisted, Noded, Held, Closing, Loose
<1>10. Shape'
  <2>1. Allocated' = Listed'
    BY <1>1, <1>6, <1>9 DEF Shape, Unlisted
  <2>2. QED
    BY <1>1, <1>4, <1>6, <1>9, <2>1 DEF Shape
<1>11. ToDo' /\ Clears'
  BY <1>4 DEF ToDo, Clears
<1>12. Kept' = Kept
  BY <1>1, <1>9 DEF Kept, InUse, fileVars
<1>13. Owned'
  BY <1>1, <1>9, <1>12 DEF Owned, drvTable, fileVars, histVars
<1>14. FilesRight'
  BY <1>1, <1>6, <1>9 DEF FilesRight, fileVars
<1>15. Enough' /\ UnloadReleases'
  BY <1>1, <1>2, <1>9 DEF Enough, CodecInits, UnloadReleases, drvTable, histVars
<1>16. QED
  BY <1>7, <1>8, <1>10, <1>11, <1>13, <1>14, <1>15

LEMMA TakeOffListKeeps == KInv /\ TakeOffList => KInv'
<1> SUFFICES ASSUME KInv, TakeOffList
             PROVE  KInv'
  OBVIOUS
<1> USE DEF KInv
<1>1. /\ op \in OpRec /\ op.pc = "unlist" /\ list \in Seq(Structs)
      /\ UNCHANGED <<mod, chrdev, cls, minors, devs, nodes, drvTable, fileVars, codec, histVars>>
  BY DEF KTypes, TakeOffList
<1>2. op.by # None /\ mod # "out"
  BY <1>1, OpFields DEF Phases
<1>3. /\ op' \in OpRec /\ op'.pc = "destroy" /\ op'.by = op.by /\ op'.i = op.i /\ op'.s = op.s
      /\ op'.todo = op.todo
  BY <1>1 DEF TakeOffList, OpRec, OpPcs
<1>4. PICK k \in 1 .. Len(list) : list[k] = op.s /\ list' = RemoveAt(list, k)
  BY DEF TakeOffList
<1>5. Distinct(list) /\ op.s \in Listed
  BY <1>1 DEF Shape
<1>6. list' \in Seq(Structs) /\ Distinct(list') /\ Listed' = Listed \ {op.s}
  BY <1>1, <1>4, <1>5, TakenOff DEF Listed
<1>7. KTypes'
  BY <1>1, <1>3, <1>6 DEF KTypes, drvTable, fileVars, histVars
<1>8. Phases'
  BY <1>1, <1>2, <1>3, Names DEF Phases, fileVars, histVars
<1>9. /\ Allocated' = Allocated /\ Unlisted' = {op.s} /\ Unlisted = {} /\ Noded' = Noded
      /\ Held' = Held /\ Loose' = Loose /\ op.s \notin Held
  BY <1>1, <1>3 DEF histVars, Allocated, Unlisted, Noded, Held, Closing, Loose
<1>10. Shape'
  BY <1>1, <1>3, <1>5, <1>6, <1>9 DEF Shape
<1>11. ToDo' /\ Clears'
  BY <1>1, <1>3, <1>6 DEF ToDo, Clears, histVars
<1>12. Kept' = Kept
  BY <1>1, <1>9 DEF Kept, InUse, fileVars
<1>13. Owned'
  BY <1>1, <1>9, <1>12 DEF Owned, drvTable, fileVars, histVars
<1>14. FilesRight'
  BY <1>1, <1>6, <1>9 DEF FilesRight, fileVars
<1>15. Enough' /\ UnloadReleases'
  BY <1>1, <1>2, <1>9 DEF Enough, CodecInits, UnloadReleases, drvTable, histVars
<1>16. QED
  BY <1>7, <1>8, <1>10, <1>11, <1>13, <1>14, <1>15

LEMMA DestroyNodeKeeps == KInv /\ DestroyNode => KInv'
<1> SUFFICES ASSUME KInv, DestroyNode
             PROVE  KInv'
  OBVIOUS
<1> USE DEF KInv
<1>1. PICK s, m : s = op.s /\ m = devs[s].minor
  OBVIOUS
<1>2. /\ op \in OpRec /\ op.pc = "destroy"
      /\ nodes' = [nodes EXCEPT ![m] = None] /\ minors' = minors \ {m}
      /\ devs' = [devs EXCEPT ![s] = FreeMem] /\ CloseReturns
      /\ UNCHANGED <<mod, chrdev, cls, list, drvTable, fileVars, codec, histVars>>
  BY <1>1 DEF KTypes, DestroyNode
<1>3. /\ devs \in [Structs -> {FreeMem} \cup Taken] /\ nodes \in [Minors -> Ids \cup {None}]
      /\ minors \subseteq Minors
  BY DEF KTypes
<1>4. op.by \in {"load", "unload", "proc"} /\ mod # "out"
  BY <1>2, OpFields DEF Phases
<1>5. /\ op' \in OpRec
      /\ \/ op.by = "proc" /\ op' = NoOp
         \/ /\ op.by \in {"load", "unload"} /\ op'.pc = "exit" /\ op'.by = op.by
            /\ op'.i = op.i /\ op'.todo = op.todo
  BY <1>2, <1>4, CloseReturnsDoes
<1>6. op'.pc \in {"none", "exit"}
  BY <1>2, <1>5, OpFields
<1>7. s \in Allocated /\ s \in Structs /\ s \notin Listed /\ s \in Noded /\ m \in Minors
  BY <1>1, <1>2 DEF Shape, Unlisted, Allocated, Noded
<1>8. devs'[s] = FreeMem /\ \A t \in Structs \ {s} : devs'[t] = devs[t]
  BY <1>2, <1>3, <1>7
<1>9. /\ Allocated' = Allocated \ {s} /\ Unlisted' = {} /\ Listed' = Listed /\ Loose' = Loose
      /\ Noded' = Noded \ {s} /\ Held' = Held /\ s \notin Held
  <2>1. Allocated' = Allocated \ {s}
    BY <1>7, <1>8 DEF Allocated
  <2>2. QED
    BY <1>1, <1>2, <1>6, <2>1 DEF histVars, Listed, Unlisted, Noded, Held, Closing, Loose
<1>10. Allocated = Listed \cup {s} /\ Held \subseteq Structs \ {s} /\ Noded \subseteq Structs
  BY <1>1, <1>2, <1>7 DEF Shape, Unlisted, Held, Closing, Noded, Allocated
<1>11. KTypes'
  BY <1>2, <1>3, <1>5, <1>7 DEF KTypes, drvTable, fileVars, histVars
<1>12. Phases'
  BY <1>2, <1>4, <1>5, OpFields, Names DEF Phases, fileVars, histVars
<1>13. Shape'
  <2>1. Distinct(list') /\ Allocated' = Listed' /\ op'.pc \notin {"close", "unlist", "node"}
    BY <1>2, <1>6, <1>7, <1>9, <1>10 DEF Shape
  <2>2. ASSUME NEW t \in Noded'
        PROVE  /\ devs'[t] = devs[t] /\ devs[t].minor # m
               /\ devs'[t].minor \in Minors /\ nodes'[devs'[t].minor] = devs'[t].id
    <3>1. t \in Noded /\ t # s /\ devs'[t] = devs[t]
      BY <1>8, <1>9, <1>10, <2>2
    <3>2. /\ devs[t].minor \in Minors /\ nodes[devs[t].minor] = devs[t].id
          /\ devs[t].minor # devs[s].minor
      BY <1>7, <3>1 DEF Shape
    <3>3. QED
      BY <1>1, <1>2, <1>3, <3>1, <3>2
  <2>3. \A t, u \in Noded' : devs'[t].minor = devs'[u].minor => t = u
    <3>1. SUFFICES ASSUME NEW t \in Noded', NEW u \in Noded', devs'[t].minor = devs'[u].minor
                   PROVE  t = u
      OBVIOUS
    <3>2. t \in Noded /\ u \in Noded /\ devs[t].minor = devs[u].minor
      BY <1>9, <2>2, <3>1
    <3>3. QED
      BY <3>2 DEF Shape
  <2>4. minors' = {n \in Minors : nodes'[n] # None}
    BY <1>2, <1>3, <1>7 DEF Shape
  <2>5. ASSUME NEW n \in minors'
        PROVE  \E t \in Noded' : devs'[t].minor = n
    <3>1. n \in minors /\ n # m
      BY <1>2, <2>5
    <3>2. PICK t \in Noded : devs[t].minor = n
      BY <3>1 DEF Shape
    <3>3. t # s /\ t \in Noded'
      BY <1>1, <1>9, <3>1, <3>2
    <3>4. QED
      BY <2>2, <3>2, <3>3
  <2>6. QED
    BY <1>9, <2>1, <2>2, <2>3, <2>4, <2>5 DEF Shape
<1>14. ToDo' /\ Clears'
  BY <1>2, <1>5, <1>6, <1>9, OpFields, Names DEF ToDo, Clears, histVars
<1>15. Kept' = Kept /\ Kept \subseteq Held
  BY <1>2, <1>9 DEF Kept, InUse, fileVars
<1>16. \A t \in Held : devs'[t] = devs[t]
  BY <1>8, <1>10
<1>17. Owned'
  BY <1>2, <1>9, <1>15, <1>16 DEF Owned, drvTable, fileVars, histVars
<1>18. FilesRight'
  BY <1>2, <1>9, <1>16 DEF FilesRight, fileVars
<1>19. Enough' /\ UnloadReleases'
  BY <1>2, <1>4, <1>9 DEF Enough, CodecInits, UnloadReleases, drvTable, histVars
<1>20. QED
  BY <1>11, <1>12, <1>13, <1>14, <1>17, <1>18, <1>19

-----------------------------------------------------------------------------
(* internal_hbi_open *)

\* The count that HBI_close, ending in HBI_term, leaves.
LEMMA CloseCounts ==
  ASSUME NEW us \in UserTable, NEW h \in Handles, us[h] # None, NEW c \in Nat, NEW k \in {0, 1},
         NEW vs, vs = [us EXCEPT ![h] = None]
  PROVE  /\ Cardinality(Used(us)) + k <= c =>
              /\ Cardinality(Used(vs)) + k <= TermCount(vs, c)
              /\ TermOK(vs, c)
         /\ c <= Cardinality(Used(us)) + k + 1 =>
              TermCount(vs, c) <= Cardinality(Used(vs)) + k + 1
<1>1. PICK n, m : n = Cardinality(Used(us)) /\ m = Cardinality(Used(vs))
  OBVIOUS
<1>2. n \in Nat /\ m \in Nat /\ m = n - 1 /\ (m = 0 <=> Used(vs) = {})
  <2>1. n \in Nat /\ m \in Nat /\ IsFiniteSet(Used(vs))
    BY <1>1, UsedFinite
  <2>2. m = n - 1
    BY <1>1, UsedLess
  <2>3. m = 0 <=> Used(vs) = {}
    BY <1>1, <2>1, FS_EmptySet
  <2>4. QED
    BY <2>1, <2>2, <2>3
<1>3. k \in Nat /\ k <= 1
  OBVIOUS
<1>4. n + k <= c => m + k <= TermCount(vs, c) /\ TermOK(vs, c)
  <2>1. n + k <= c => c > 1 \/ (c = 1 /\ m = 0 /\ k = 0)
    BY <1>2, <1>3
  <2>2. CASE c > 1
    BY <1>2, <1>3, <2>2 DEF TermCount, TermOK
  <2>3. CASE c = 1 /\ m = 0 /\ k = 0
    <3>1. Used(vs) = {}
      BY <1>2, <2>3
    <3>2. TermCount(vs, c) = c - 1
      BY <2>3, <3>1, TermCounts
    <3>3. TermOK(vs, c)
      BY <3>1 DEF TermOK
    <3>4. QED
      BY <2>3, <3>2, <3>3
  <2>4. QED
    BY <2>1, <2>2, <2>3
<1>5. c <= n + k + 1 => TermCount(vs, c) <= m + k + 1
  BY <1>2, <1>3 DEF TermCount
<1>6. QED
  BY <1>1, <1>4, <1>5

\* What the typing of KInv says of a structure that is taken.
LEMMA TakenFields ==
  ASSUME KTypes, NEW s \in Allocated
  PROVE  /\ s \in Structs /\ devs[s] \in Taken /\ devs[s].id \in Ids /\ devs[s].handle \in Handles
         /\ devs[s].minor \in Minors \cup {None} /\ devs[s].id # None /\ devs[s].handle # None
<1>1. s \in Structs /\ devs[s] \in Taken
  BY DEF KTypes, Allocated
<1>2. QED
  BY <1>1, Constants DEF Taken

\* internal_hbi_open returns before it has a structure.
LEMMA OpenFailsKeeps ==
  ASSUME KInv, op.pc = "open", OpenFails, UNCHANGED <<mod, priv, users, fileVars, codec, refused, abandoned>>,
         \/ UNCHANGED <<init_count, failed>>
         \/ init_count' = init_count + 1 /\ failed' = failed + 1
  PROVE  KInv'
<1> USE DEF KInv
<1>1. op \in OpRec /\ list \in Seq(Structs) /\ failedLoad \in BOOLEAN /\ failed \in Nat
  BY DEF KTypes
<1>2. op.by \in {"load", "proc"} /\ op.i \in Ids /\ mod # "out"
  BY <1>1, OpFields DEF Phases
<1>3. /\ op' \in OpRec
      /\ \/ op.by = "proc" /\ op' = NoOp /\ failedLoad' = failedLoad
         \/ /\ op.by = "load" /\ op'.pc = "exit" /\ op'.by = "load" /\ op'.i = op.i
            /\ op'.todo = list /\ failedLoad' = TRUE
  BY <1>1, <1>2, OpenFailsDoes
<1>4. op'.pc \in {"none", "exit"}
  BY <1>1, <1>3, OpFields
<1>5. KTypes'
  <2>1. failed' \in Nat /\ init_count' \in Nat
    BY <1>1 DEF KTypes
  <2>2. failedLoad' \in BOOLEAN /\ op' \in OpRec
    BY <1>1, <1>3
  <2>3. QED
    BY <2>1, <2>2 DEF KTypes, priv, fileVars
<1>6. Phases'
  BY <1>1, <1>2, <1>3, OpFields, Names DEF Phases, priv, fileVars
<1>7. /\ Allocated' = Allocated /\ Listed' = Listed /\ Unlisted' = Unlisted
      /\ Noded' = Noded /\ Held' = Held /\ Loose' = Loose
  BY <1>4 DEF priv, Allocated, Listed, Unlisted, Noded, Held, Closing, Loose
<1>8. Shape'
  BY <1>4, <1>7 DEF Shape, priv
<1>9. ToDo' /\ Clears'
  BY <1>1, <1>3, <1>4, <1>7, OpFields, Names DEF ToDo, Clears, Shape, Listed
<1>10. Kept' = Kept
  BY <1>7 DEF Kept, InUse, fileVars
<1>11. Owned'
  BY <1>7, <1>10 DEF Owned, priv, fileVars
<1>12. FilesRight'
  BY <1>7 DEF FilesRight, priv, fileVars
<1>13. Enough' /\ UnloadReleases'
  <2>1. Cardinality(Used(users)) \in Nat /\ init_count \in Nat /\ CodecInits \in Nat
    BY UsedFinite DEF KTypes, CodecInits
  <2>2. CodecInits' = CodecInits /\ UNCHANGED <<users, mod, refused>>
    BY DEF CodecInits
  <2>3. Enough'
    BY <1>1, <1>7, <2>1, <2>2 DEF Enough
  <2>4. QED
    BY <1>2, <2>2, <2>3 DEF UnloadReleases
<1>14. QED
  BY <1>5, <1>6, <1>8, <1>9, <1>11, <1>12, <1>13

\* A structure and a handle for a device.
LEMMA OpensKeeps ==
  ASSUME KInv, op.pc = "open", NEW s \in Structs, devs[s] = FreeMem, RoomFor(op.i),
         NEW h, h = NewHandle,
         users' = [users EXCEPT ![h] = op.i], init_count' = init_count + 1,
         devs' = [devs EXCEPT ![s] = [id |-> op.i, handle |-> h, minor |-> None]],
         op' = [op EXCEPT !.pc = "node", !.s = s],
         UNCHANGED <<mod, chrdev, cls, minors, list, nodes, fileVars, codec, histVars>>
  PROVE  KInv'
<1> USE DEF KInv
<1>1. /\ op \in OpRec /\ users \in UserTable /\ devs \in [Structs -> {FreeMem} \cup Taken]
      /\ init_count \in Nat
  BY DEF KTypes, UserTable
<1>2. op.by \in {"load", "proc"} /\ op.i \in Ids /\ mod # "out"
  BY <1>1, OpFields DEF Phases
<1>3. h \in Handles /\ users[h] = None
  BY <1>1, NewHandleFree
<1>4. /\ op' \in OpRec /\ op'.pc = "node" /\ op'.s = s /\ op'.by = op.by /\ op'.i = op.i
      /\ op'.todo = op.todo
  BY <1>1 DEF OpRec, OpPcs
<1>5. /\ devs'[s] = [id |-> op.i, handle |-> h, minor |-> None]
      /\ \A t \in Structs \ {s} : devs'[t] = devs[t]
      /\ devs'[s] \in Taken /\ devs'[s] # FreeMem /\ devs'[s].id = op.i /\ devs'[s].handle = h
  <2>1. devs'[s] = [id |-> op.i, handle |-> h, minor |-> None]
        /\ \A t \in Structs \ {s} : devs'[t] = devs[t]
    BY <1>1
  <2>2. devs'[s].id = op.i /\ devs'[s].handle = h /\ devs'[s] \in Taken
    BY <1>2, <1>3, <2>1 DEF Taken
  <2>3. devs'[s] # FreeMem
    BY <1>2, <2>2, Constants DEF FreeMem
  <2>4. QED
    BY <2>1, <2>2, <2>3
<1>6. /\ s \notin Allocated /\ Allocated' = Allocated \cup {s} /\ Listed' = Listed
      /\ Listed = Allocated /\ Unlisted' = {s} /\ Noded = Allocated /\ Noded' = Allocated
      /\ Held = Allocated /\ Held' = Allocated \cup {s} /\ Loose' = Loose
  <2>1. s \notin Allocated /\ Allocated' = Allocated \cup {s}
    BY <1>5 DEF Allocated
  <2>2. QED
    BY <1>4, <2>1 DEF Shape, histVars, Listed, Unlisted, Noded, Held, Closing, Loose
<1>7. \A t \in Allocated : devs'[t] = devs[t]
  BY <1>5, <1>6 DEF Allocated
<1>8. /\ users' \in UserTable /\ users'[h] = op.i /\ \A g \in Handles \ {h} : users'[g] = users[g]
      /\ Used(users') = Used(users) \cup {h}
      /\ Cardinality(Used(users')) = Cardinality(Used(users)) + 1
  <2>1. users' \in UserTable /\ Used(users') = Used(users) \cup {h}
        /\ Cardinality(Used(users')) = Cardinality(Used(users)) + 1
    BY <1>1, <1>2, <1>3, UsedMore
  <2>2. QED
    BY <1>1, <1>3, <2>1 DEF UserTable
<1>9. KTypes'
  <2>1. devs' \in [Structs -> {FreeMem} \cup Taken]
    BY <1>1, <1>5
  <2>2. QED
    BY <1>1, <1>4, <1>8, <2>1 DEF KTypes, UserTable, fileVars, histVars
<1>10. Phases'
  BY <1>2, <1>4 DEF Phases, fileVars, histVars
<1>11. Shape'
  BY <1>4, <1>5, <1>6, <1>7 DEF Shape
<1>12. ToDo' /\ Clears'
  BY <1>4 DEF ToDo, Clears
<1>13. \A t \in Allocated : t \in Kept' => t \in Kept
  BY <1>6 DEF Kept, InUse, fileVars
<1>14. s \in Kept' => ~Loose
  <2>1. \A f \in Files \ cut : files[f] # s
    BY <1>6, Constants DEF FilesRight
  <2>2. QED
    BY <1>6, <2>1 DEF Kept, InUse, fileVars
<1>15. Owned'
  <2>1. \A t \in Kept : devs[t].handle \in Handles /\ devs[t].handle # h
    BY <1>3, TakenFields, <1>6 DEF Owned, Kept
  <2>2. ASSUME NEW t \in Kept'
        PROVE  /\ users'[devs'[t].handle] = devs'[t].id
               /\ devs'[t].handle # codec'
               /\ \A u \in Held' : devs'[t].handle = devs'[u].handle => t = u
    <3>1. CASE t \in Allocated
      <4>1. t \in Kept /\ devs'[t] = devs[t]
        BY <1>7, <1>13, <2>2, <3>1
      <4>2. QED
        BY <1>5, <1>6, <1>7, <1>8, <2>1, <4>1 DEF Owned
    <3>2. CASE t = s
      <4>1. ~Loose /\ Kept = Allocated
        BY <1>6, <1>14, <2>2, <3>2 DEF Kept
      <4>2. h # codec
        BY <1>3, <4>1, Constants DEF Owned
      <4>3. QED
        BY <1>5, <1>6, <1>7, <1>8, <2>1, <3>2, <4>1, <4>2
    <3>3. QED
      BY <1>6, <2>2, <3>1, <3>2 DEF Kept
  <2>3. ASSUME ~Loose
        PROVE  /\ codec' # None => users'[codec'] = CodecDev
               /\ abandoned' \subseteq Used(users') /\ codec' \notin abandoned'
               /\ \A t \in Held' : devs'[t].handle \notin abandoned'
               /\ Used(users') = {devs'[t].handle : t \in Held'} \cup ({codec'} \ {None})
                                   \cup abandoned'
    <3>1. h \notin abandoned /\ h \notin Used(users)
      BY <1>3, <2>3 DEF Owned, Used
    <3>2. codec # None => codec # h /\ codec \in Handles /\ users[codec] = CodecDev
      BY <1>3, <2>3, Constants DEF Owned, KTypes
    <3>3. {devs'[t].handle : t \in Held'} = {devs[t].handle : t \in Held} \cup {h}
      BY <1>5, <1>6, <1>7
    <3>4. \A t \in Held' : devs'[t].handle \notin abandoned
      BY <1>5, <1>6, <1>7, <2>3, <3>1 DEF Owned
    <3>5. abandoned' = abandoned /\ codec' = codec
      BY DEF histVars
    <3>6. QED
      BY <1>8, <2>3, <3>2, <3>3, <3>4, <3>5, ZenonT(60) DEF Owned
  <2>4. QED
    BY <1>6, <2>2, <2>3 DEF Owned, histVars
<1>16. FilesRight'
  BY <1>6, <1>7 DEF FilesRight, fileVars
<1>17. Enough' /\ UnloadReleases'
  <2>1. Cardinality(Used(users)) \in Nat /\ CodecInits \in Nat /\ CodecInits' = CodecInits
    BY UsedFinite DEF CodecInits
  <2>2. PICK n, k : n = Cardinality(Used(users)) /\ k = CodecInits
    OBVIOUS
  <2>3. /\ Cardinality(Used(users')) = n + 1 /\ CodecInits' = k /\ n \in Nat /\ k \in Nat
        /\ failed' = failed /\ refused' = refused /\ mod' = mod
    BY <1>8, <2>1, <2>2 DEF histVars
  <2>4. /\ ~Loose => n + k <= init_count
        /\ failed = 0 => init_count <= n + k + 1
        /\ refused => failed > 0
    BY <2>2 DEF Enough
  <2>5. Enough'
    BY <1>1, <1>6, <2>3, <2>4 DEF Enough
  <2>6. QED
    BY <1>2, <2>5 DEF UnloadReleases
<1>18. QED
  BY <1>9, <1>10, <1>11, <1>12, <1>15, <1>16, <1>17

LEMMA OpenDeviceKeeps == KInv /\ OpenDevice => KInv'
<1> SUFFICES ASSUME KInv, OpenDevice
             PROVE  KInv'
  OBVIOUS
<1>1. /\ op.pc = "open"
      /\ UNCHANGED <<mod, chrdev, cls, minors, list, nodes, fileVars, codec>>
  BY DEF OpenDevice
<1>2. CASE /\ \E s \in Structs : devs[s] = FreeMem
           /\ DriverOpens(op.i)
           /\ LET s == Least({x \in Structs : devs[x] = FreeMem}) IN
                /\ devs' = [devs EXCEPT ![s] = [id |-> op.i, handle |-> NewHandle, minor |-> None]]
                /\ op' = [op EXCEPT !.pc = "node", !.s = s]
           /\ UNCHANGED histVars
  <2>1. PICK s : s = Least({x \in Structs : devs[x] = FreeMem})
    OBVIOUS
  <2>2. PICK h : h = NewHandle
    OBVIOUS
  <2>3. s \in {x \in Structs : devs[x] = FreeMem}
    <3>1. {x \in Structs : devs[x] = FreeMem} # {} /\ {x \in Structs : devs[x] = FreeMem} \subseteq Nat
      BY <1>2, Constants
    <3>2. QED
      BY <2>1, <3>1, LeastIn
  <2>4. /\ RoomFor(op.i) /\ users' = [users EXCEPT ![h] = op.i] /\ init_count' = init_count + 1
        /\ devs' = [devs EXCEPT ![s] = [id |-> op.i, handle |-> h, minor |-> None]]
        /\ op' = [op EXCEPT !.pc = "node", !.s = s]
    BY <1>2, <2>1, <2>2 DEF DriverOpens
  <2>5. QED
    BY <1>1, <1>2, <2>2, <2>3, <2>4, OpensKeeps
<1>3. CASE DriverRefuses /\ OpenFails /\ UNCHANGED <<devs, refused, abandoned>>
  BY <1>1, <1>3, OpenFailsKeeps DEF DriverRefuses, Fails, priv
<1>4. CASE OpenFails /\ UNCHANGED <<devs, drvTable, refused, failed, abandoned>>
  BY <1>1, <1>4, OpenFailsKeeps DEF drvTable, priv
<1>5. QED
  BY <1>2, <1>3, <1>4 DEF OpenDevice

\* HBI_close frees the handle of structure s, and nothing else.
LEMMA ClosedHandle ==
  ASSUME KInv, NEW s \in Held, NEW h, h = devs[s].handle, users' = [users EXCEPT ![h] = None],
         UNCHANGED <<codec, abandoned, refused, chrdev>>,
         Held' \subseteq Held, ~Loose => Held' = Held \ {s}, Kept' \subseteq Kept \ {s},
         \A t \in Held' : devs'[t] = devs[t]
  PROVE  Owned' /\ users' \in UserTable
<1> USE DEF KInv
<1>1. s \in Allocated /\ Held \subseteq Allocated
  BY DEF Held
<1>3. h \in Handles /\ users \in UserTable
  BY <1>1, TakenFields DEF KTypes, UserTable
<1>4. /\ users' \in UserTable /\ Used(users') = Used(users) \ {h}
      /\ \A g \in Handles \ {h} : users'[g] = users[g]
  <2>1. users' \in UserTable /\ Used(users') = Used(users) \ {h}
    BY <1>3, UsedLess
  <2>2. QED
    BY <1>3, <2>1 DEF UserTable
<1>5. Loose' = Loose
  BY DEF Loose
<1>6. \A t \in Kept' : t \in Kept /\ t # s /\ devs'[t] = devs[t] /\ t \in Held'
  BY DEF Kept
<1>7. \A t \in Kept' : devs[t].handle \in Handles /\ devs[t].handle # h
  <2>1. SUFFICES ASSUME NEW t \in Kept'
                 PROVE  devs[t].handle \in Handles /\ devs[t].handle # h
    OBVIOUS
  <2>2. t \in Kept /\ t # s /\ t \in Allocated
    BY <1>1, <1>6, <2>1 DEF Kept
  <2>3. devs[t].handle \in Handles
    BY <2>2, TakenFields
  <2>4. QED
    BY <2>2, <2>3 DEF Owned
<1>8. ASSUME NEW t \in Kept'
      PROVE  /\ users'[devs'[t].handle] = devs'[t].id
             /\ devs'[t].handle # codec'
             /\ \A u \in Held' : devs'[t].handle = devs'[u].handle => t = u
  BY <1>4, <1>6, <1>7, <1>8 DEF Owned
<1>9. ASSUME ~Loose
      PROVE  /\ codec' # None => users'[codec'] = CodecDev
             /\ abandoned' \subseteq Used(users') /\ codec' \notin abandoned'
             /\ \A t \in Held' : devs'[t].handle \notin abandoned'
             /\ Used(users') = {devs'[t].handle : t \in Held'} \cup ({codec'} \ {None})
                                 \cup abandoned'
  <2>1. Kept = Held /\ Held' = Held \ {s}
    BY <1>9 DEF Kept
  <2>2. h # codec /\ h \notin abandoned
    BY <1>9, <2>1 DEF Owned
  <2>3. {devs'[t].handle : t \in Held'} = {devs[t].handle : t \in Held} \ {h}
    BY <2>1 DEF Owned
  <2>4. codec # None => codec \in Handles
    BY DEF KTypes
  <2>5. codec' # None => users'[codec'] = CodecDev
    BY <1>4, <1>9, <2>2, <2>4 DEF Owned
  <2>6. abandoned' \subseteq Used(users') /\ codec' \notin abandoned'
    BY <1>4, <1>9, <2>2 DEF Owned
  <2>7. \A t \in Held' : devs'[t].handle \notin abandoned'
    BY <1>9 DEF Owned
  <2>8. Used(users) = {devs[t].handle : t \in Held} \cup ({codec} \ {None}) \cup abandoned
    BY <1>9 DEF Owned
  <2>9. Used(users') = {devs'[t].handle : t \in Held'} \cup ({codec} \ {None}) \cup abandoned
    BY <1>4, <2>2, <2>3, <2>8
  <2>10. QED
    BY <2>5, <2>6, <2>7, <2>9
<1>10. abandoned' # {} => refused'
  BY DEF Owned
<1>11. QED
  BY <1>4, <1>5, <1>8, <1>9, <1>10 DEF Owned

\* What becomes of the count.
LEMMA ClosedCount ==
  ASSUME KInv, NEW s \in Held, NEW h, h = devs[s].handle, DriverCloses(h),
         UNCHANGED <<codec, chrdev>>, mod' # "out", mod # "out"
  PROVE  /\ Enough' /\ init_count' \in Nat
         /\ ~Loose => users[h] = devs[s].id /\ ClosesWell(h)
<1> USE DEF KInv
<1>1. s \in Allocated /\ h \in Handles /\ devs[s].id # None
  BY TakenFields DEF Held
<1>2. users \in UserTable /\ init_count \in Nat /\ codec \in Handles \cup {None}
  BY DEF KTypes, UserTable
<1>3. PICK vs : vs = [users EXCEPT ![h] = None]
  OBVIOUS
<1>4. /\ users' = vs /\ init_count' = TermCount(vs, init_count)
      /\ UNCHANGED <<refused, failed>>
  BY <1>3 DEF DriverCloses
<1>5. CodecInits \in {0, 1} /\ CodecInits' = CodecInits /\ Loose' = Loose
  BY <1>4 DEF CodecInits, Loose
<1>6. ~Loose => users[h] = devs[s].id
  BY DEF Owned, Kept
<1>7. Loose => failed > 0
  BY DEF Loose, Enough
<1>8. CASE users[h] # None
  <2>1. /\ Cardinality(Used(users)) + CodecInits <= init_count =>
             /\ Cardinality(Used(vs)) + CodecInits <= TermCount(vs, init_count)
             /\ TermOK(vs, init_count)
        /\ init_count <= Cardinality(Used(users)) + CodecInits + 1 =>
             TermCount(vs, init_count) <= Cardinality(Used(vs)) + CodecInits + 1
    BY <1>1, <1>2, <1>3, <1>5, <1>8, CloseCounts
  <2>2. Enough'
    BY <1>4, <1>5, <2>1 DEF Enough
  <2>3. ~Loose => ClosesWell(h)
    BY <1>3, <2>1 DEF Enough, ClosesWell
  <2>4. QED
    BY <1>2, <1>4, <1>6, <2>2, <2>3, TermCounts
<1>9. CASE users[h] = None
  <2>1. Loose
    BY <1>1, <1>6, <1>9
  <2>2. failed' > 0
    BY <1>4, <1>7, <2>1
  <2>3. failed' # 0
    BY <1>4, <2>2 DEF KTypes
  <2>4. QED
    BY <1>2, <1>4, <1>5, <2>1, <2>2, <2>3, TermCounts DEF Enough
<1>10. QED
  BY <1>8, <1>9

LEMMA CreatesKeeps ==
  ASSUME KInv, op.pc = "node", NEW s, s = op.s, NEW m \in Minors \ minors,
         nodes' = [nodes EXCEPT ![m] = IF @ = None THEN op.i ELSE @],
         minors' = minors \cup {m}, devs' = [devs EXCEPT ![s].minor = m],
         op' = [op EXCEPT !.pc = "list"],
         UNCHANGED <<mod, chrdev, cls, list, drvTable, fileVars, codec, histVars>>
  PROVE  KInv'
<1> USE DEF KInv
<1>1. /\ op \in OpRec /\ nodes \in [Minors -> Ids \cup {None}] /\ minors \subseteq Minors
      /\ devs \in [Structs -> {FreeMem} \cup Taken]
  BY DEF KTypes
<1>2. op.by \in {"load", "proc"} /\ op.i \in Ids /\ mod # "out"
  BY <1>1, OpFields DEF Phases
<1>3. /\ op' \in OpRec /\ op'.pc = "list" /\ op'.s = s /\ op'.by = op.by /\ op'.i = op.i
      /\ op'.todo = op.todo
  BY <1>1 DEF OpRec, OpPcs
<1>4. s \in Allocated /\ s \notin Listed /\ devs[s].id = op.i
  BY DEF Shape, Unlisted
<1>5. /\ devs[s] \in Taken /\ s \in Structs
  BY <1>4, TakenFields
<1>6. /\ \A t \in Structs \ {s} : devs'[t] = devs[t]
      /\ devs'[s] \in Taken /\ devs'[s].minor = m /\ devs'[s].id = devs[s].id
      /\ devs'[s].handle = devs[s].handle /\ devs'[s] # FreeMem
  <2>1. \A t \in Structs \ {s} : devs'[t] = devs[t]
    BY <1>1, <1>5
  <2>2. devs'[s] = [devs[s] EXCEPT !.minor = m]
    BY <1>1, <1>5
  <2>3. /\ devs'[s] \in Taken /\ devs'[s].minor = m /\ devs'[s].id = devs[s].id
        /\ devs'[s].handle = devs[s].handle
    BY <1>5, <2>2 DEF Taken
  <2>4. devs'[s] # FreeMem
    BY <1>2, <1>4, <2>3, Constants DEF FreeMem
  <2>5. QED
    BY <2>1, <2>3, <2>4
<1>7. /\ Allocated' = Allocated /\ Listed' = Listed /\ Unlisted' = {s} /\ Unlisted = {s}
      /\ Noded = Allocated \ {s} /\ Noded' = Allocated
      /\ Held = Allocated /\ Held' = Allocated /\ Loose' = Loose
  <2>1. Allocated' = Allocated
    BY <1>4, <1>6 DEF Allocated
  <2>2. QED
    BY <1>3, <2>1 DEF histVars, Listed, Unlisted, Noded, Held, Closing, Loose
<1>8. \A t \in Allocated : devs'[t].handle = devs[t].handle /\ devs'[t].id = devs[t].id
  BY <1>6 DEF Allocated
<1>9. nodes[m] = None
  BY <1>1 DEF Shape
<1>10. nodes'[m] = op.i /\ (\A n \in Minors \ {m} : nodes'[n] = nodes[n])
       /\ nodes' \in [Minors -> Ids \cup {None}]
  BY <1>1, <1>2, <1>9
<1>11. KTypes'
  <2>1. devs' \in [Structs -> {FreeMem} \cup Taken]
    BY <1>1, <1>6
  <2>2. QED
    BY <1>1, <1>3, <1>10, <2>1 DEF KTypes, drvTable, fileVars, histVars
<1>12. Phases'
  BY <1>2, <1>3 DEF Phases, fileVars, histVars
<1>13. Shape'
  <2>1. ASSUME NEW t \in Allocated \ {s}
        PROVE  /\ devs'[t] = devs[t] /\ devs[t].minor \in Minors \ {m}
               /\ nodes'[devs'[t].minor] = devs'[t].id
    <3>1. /\ devs[t].minor \in Minors /\ nodes[devs[t].minor] = devs[t].id
          /\ devs'[t] = devs[t]
      BY <1>6, <1>7, <2>1 DEF Shape, Allocated
    <3>2. devs[t].id # None
      BY <2>1, TakenFields
    <3>3. QED
      BY <1>9, <1>10, <3>1, <3>2
  <2>2. \A t, u \in Allocated : devs'[t].minor = devs'[u].minor => t = u
    <3>1. SUFFICES ASSUME NEW t \in Allocated, NEW u \in Allocated, devs'[t].minor = devs'[u].minor
                   PROVE  t = u
      OBVIOUS
    <3>2. CASE t = s \/ u = s
      BY <1>6, <2>1, <3>1, <3>2
    <3>3. CASE t # s /\ u # s
      <4>1. t \in Noded /\ u \in Noded /\ devs[t].minor = devs[u].minor
        BY <1>7, <2>1, <3>1, <3>3
      <4>2. QED
        BY <4>1 DEF Shape
    <3>4. QED
      BY <3>2, <3>3
  <2>3. minors' = {n \in Minors : nodes'[n] # None}
    BY <1>1, <1>2, <1>10, Constants DEF Shape
  <2>4. ASSUME NEW n \in minors'
        PROVE  \E t \in Allocated : devs'[t].minor = n
    <3>1. CASE n = m
      BY <1>4, <1>6, <3>1
    <3>2. CASE n # m
      <4>1. PICK t \in Noded : devs[t].minor = n
        BY <2>4, <3>2 DEF Shape
      <4>2. QED
        BY <1>7, <2>1, <4>1
    <3>3. QED
      BY <3>1, <3>2
  <2>5. /\ Distinct(list') /\ Allocated' = Listed' \cup Unlisted' /\ Listed' \cap Unlisted' = {}
        /\ op'.pc \notin {"close", "unlist", "node"}
    BY <1>3, <1>7 DEF Shape
  <2>6. devs'[s].minor \in Minors /\ nodes'[devs'[s].minor] = devs'[s].id
    BY <1>4, <1>6, <1>10
  <2>7. \A t \in Noded' : devs'[t].minor \in Minors /\ nodes'[devs'[t].minor] = devs'[t].id
    BY <1>7, <2>1, <2>6
  <2>8. QED
    BY <1>7, <2>2, <2>3, <2>4, <2>5, <2>7 DEF Shape
<1>14. ToDo' /\ Clears'
  BY <1>3 DEF ToDo, Clears
<1>15. Kept' = Kept /\ Kept \subseteq Held
  BY <1>7 DEF Kept, InUse, fileVars
<1>16. Owned'
  BY <1>7, <1>8, <1>15 DEF Owned, drvTable, histVars
<1>17. FilesRight'
  BY <1>7, <1>8 DEF FilesRight, fileVars
<1>18. Enough' /\ UnloadReleases'
  BY <1>2, <1>7 DEF Enough, CodecInits, UnloadReleases, drvTable, histVars
<1>19. QED
  BY <1>11, <1>12, <1>13, <1>14, <1>16, <1>17, <1>18

\* The device file cannot be created: the handle is closed again, or left behind.
LEMMA UndoKeeps ==
  ASSUME KInv, op.pc = "node", NEW s, s = op.s, Undo(s), OpenFails,
         devs' = [devs EXCEPT ![s] = FreeMem],
         UNCHANGED <<nodes, minors, mod, chrdev, cls, list, fileVars, codec>>
  PROVE  KInv'
<1> USE DEF KInv
<1>1. /\ op \in OpRec /\ devs \in [Structs -> {FreeMem} \cup Taken] /\ list \in Seq(Structs)
      /\ failedLoad \in BOOLEAN /\ users \in UserTable /\ failed \in Nat /\ init_count \in Nat
      /\ abandoned \subseteq Handles /\ refused \in BOOLEAN
  BY DEF KTypes, UserTable
<1>2. op.by \in {"load", "proc"} /\ op.i \in Ids /\ mod # "out"
  BY <1>1, OpFields DEF Phases
<1>3. /\ op' \in OpRec
      /\ \/ op.by = "proc" /\ op' = NoOp /\ failedLoad' = failedLoad
         \/ /\ op.by = "load" /\ op'.pc = "exit" /\ op'.by = "load" /\ op'.i = op.i
            /\ op'.todo = list /\ failedLoad' = TRUE
  BY <1>1, <1>2, OpenFailsDoes
<1>4. op'.pc \in {"none", "exit"}
  BY <1>1, <1>3, OpFields
<1>5. s \in Allocated /\ s \notin Listed /\ s \in Structs
  BY DEF Shape, Unlisted, Allocated
<1>6. PICK h : h = devs[s].handle
  OBVIOUS
<1>7. h \in Handles /\ h # None
  BY <1>5, <1>6, TakenFields
<1>8. devs'[s] = FreeMem /\ \A t \in Structs \ {s} : devs'[t] = devs[t]
  BY <1>1, <1>5
<1>9. /\ Allocated' = Allocated \ {s} /\ Unlisted' = {} /\ Unlisted = {s} /\ Listed' = Listed
      /\ Noded' = Noded /\ Noded = Allocated \ {s}
      /\ Held = Allocated /\ Held' = Allocated \ {s} /\ Allocated \subseteq Structs
  <2>1. Allocated' = Allocated \ {s}
    BY <1>5, <1>8 DEF Allocated
  <2>2. QED
    BY <1>4, <1>5, <2>1 DEF Listed, Unlisted, Noded, Held, Closing, Allocated
<1>10. \A t \in Held' : devs'[t] = devs[t]
  BY <1>8, <1>9
<1>11. Phases'
  BY <1>2, <1>3, OpFields, <1>1, Names DEF Phases, fileVars
<1>12. Shape'
  <2>1. \A t \in Noded : devs'[t] = devs[t]
    BY <1>8, <1>9
  <2>2. Allocated' = Listed' \cup Unlisted' /\ op'.pc \notin {"close", "unlist", "node"}
    BY <1>4, <1>5, <1>9 DEF Shape
  <2>3. QED
    BY <1>9, <2>1, <2>2 DEF Shape
<1>13. ToDo' /\ Clears'
  BY <1>1, <1>3, <1>4, <1>9, OpFields, Names DEF ToDo, Clears, Shape, Listed
<1>14. FilesRight'
  BY <1>5, <1>9, <1>10 DEF FilesRight, fileVars
<1>15. UnloadReleases'
  BY <1>2 DEF UnloadReleases
<1>16. s \in Held
  BY <1>5, <1>9
<1>17. devs' \in [Structs -> {FreeMem} \cup Taken] /\ failedLoad' \in BOOLEAN
  BY <1>1, <1>3
<1>18. CASE DriverCloses(h) /\ UNCHANGED abandoned
  <2>1. users' = [users EXCEPT ![h] = None] /\ UNCHANGED <<refused, failed>>
    BY <1>18 DEF DriverCloses
  <2>2. Kept' \subseteq Kept \ {s}
    BY <1>9, <2>1 DEF Kept, InUse, Loose, fileVars
  <2>3. Held' \subseteq Held /\ Held' = Held \ {s}
    BY <1>9
  <2>4. Owned' /\ users' \in UserTable
    BY <1>6, <1>10, <1>16, <1>18, <2>1, <2>2, <2>3, ClosedHandle
  <2>5. Enough' /\ init_count' \in Nat
    BY <1>2, <1>6, <1>16, <1>18, ClosedCount
  <2>6. KTypes'
    BY <1>1, <1>3, <1>17, <1>18, <2>1, <2>4, <2>5 DEF KTypes, UserTable, fileVars
  <2>7. QED
    BY <1>11, <1>12, <1>13, <1>14, <1>15, <2>4, <2>5, <2>6
<1>19. CASE DriverKeeps(h) /\ abandoned' = abandoned \cup {h}
  <2>1. /\ refused' = TRUE /\ failed' = failed + 1 /\ UNCHANGED <<users, init_count>>
    BY <1>19 DEF DriverKeeps, Fails, drvTable
  <2>2. KTypes'
    BY <1>1, <1>3, <1>7, <1>17, <1>19, <2>1 DEF KTypes, fileVars
  <2>3. ~Loose' => ~Loose
    BY <2>1 DEF Loose
  <2>4. Kept' \subseteq Kept \ {s} /\ Kept \subseteq Held
    BY <1>9, <2>3 DEF Kept, InUse, fileVars
  <2>5. Owned'
    <3>1. ASSUME NEW t \in Kept'
          PROVE  /\ users'[devs'[t].handle] = devs'[t].id
                 /\ devs'[t].handle # codec'
                 /\ \A u \in Held' : devs'[t].handle = devs'[u].handle => t = u
      <4>1. t \in Kept /\ t \in Held' /\ devs'[t] = devs[t]
        BY <1>10, <2>4, <3>1 DEF Kept
      <4>2. QED
        BY <1>9, <1>10, <2>1, <4>1 DEF Owned
    <3>2. ASSUME ~Loose'
          PROVE  /\ codec' # None => users'[codec'] = CodecDev
                 /\ abandoned' \subseteq Used(users') /\ codec' \notin abandoned'
                 /\ \A t \in Held' : devs'[t].handle \notin abandoned'
                 /\ Used(users') = {devs'[t].handle : t \in Held'} \cup ({codec'} \ {None})
                                     \cup abandoned'
      <4>1. ~Loose /\ Kept = Held
        BY <2>3, <3>2 DEF Kept
      <4>2. codec # None => users[codec] = CodecDev
        BY <4>1 DEF Owned
      <4>3. h \in Used(users) /\ h # codec
        <5>1. users[h] = devs[s].id /\ devs[s].id # None
          BY <1>5, <1>6, <1>16, <4>1, TakenFields DEF Owned
        <5>2. QED
          BY <1>6, <1>7, <1>16, <4>1, <5>1 DEF Owned, Used
      <4>4. abandoned' \subseteq Used(users) /\ codec \notin abandoned'
        BY <1>19, <4>1, <4>3 DEF Owned
      <4>5. \A t \in Held' : devs[t].handle # h
        BY <1>6, <1>9, <1>16, <4>1 DEF Owned
      <4>6. \A t \in Held' : devs'[t].handle \notin abandoned'
        BY <1>9, <1>10, <1>19, <4>1, <4>5 DEF Owned
      <4>7. {devs[t].handle : t \in Held} = {devs'[t].handle : t \in Held'} \cup {h}
        BY <1>6, <1>9, <1>10, <1>16
      <4>8. Used(users) = {devs[t].handle : t \in Held} \cup ({codec} \ {None}) \cup abandoned
        BY <4>1 DEF Owned
      <4>9. Used(users) = {devs'[t].handle : t \in Held'} \cup ({codec} \ {None}) \cup abandoned'
        BY <1>19, <4>7, <4>8
      <4>10. QED
        BY <2>1, <4>2, <4>4, <4>6, <4>9
    <3>3. QED
      BY <2>1, <3>1, <3>2 DEF Owned
  <2>6. Enough'
    <3>1. failed' > 0 /\ failed' # 0
      BY <1>1, <2>1
    <3>2. CodecInits' = CodecInits
      BY DEF CodecInits
    <3>3. QED
      BY <1>2, <2>1, <2>3, <3>1, <3>2 DEF Enough
  <2>7. QED
    BY <1>11, <1>12, <1>13, <1>14, <1>15, <2>2, <2>5, <2>6
<1>20. QED
  BY <1>6, <1>18, <1>19 DEF Undo

LEMMA CreateNodeKeeps == KInv /\ CreateNode => KInv'
<1> SUFFICES ASSUME KInv, CreateNode
             PROVE  KInv'
  OBVIOUS
<1>1. op.pc = "node" /\ UNCHANGED <<chrdev, cls, list, fileVars, codec>>
  BY DEF CreateNode
<1>2. PICK s, n : s = op.s /\ n = Least(Minors \ minors)
  OBVIOUS
<1>3. CASE /\ minors # Minors
           /\ nodes' = [nodes EXCEPT ![n] = IF @ = None THEN op.i ELSE @]
           /\ minors' = minors \cup {n}
           /\ devs' = [devs EXCEPT ![s].minor = n]
           /\ op' = [op EXCEPT !.pc = "list"]
           /\ UNCHANGED <<drvTable, histVars, mod>>
  <2>1. Minors \ minors # {} /\ Minors \ minors \subseteq Nat
    BY <1>3, Constants DEF KInv, KTypes
  <2>2. n \in Minors \ minors
    BY <1>2, <2>1, LeastIn
  <2>3. QED
    BY <1>1, <1>2, <1>3, <2>2, CreatesKeeps
<1>4. CASE Undo(s) /\ devs' = [devs EXCEPT ![s] = FreeMem] /\ OpenFails
           /\ UNCHANGED <<nodes, minors, mod>>
  BY <1>1, <1>2, <1>4, UndoKeeps
<1>5. QED
  BY <1>2, <1>3, <1>4 DEF CreateNode

-----------------------------------------------------------------------------
(* internal_hbi_close *)

\* What the steps of CloseDevice have in common.
LEMMA CloseFrame ==
  ASSUME KInv, op.pc = "close", NEW s, s = op.s, op' \in OpRec,
         op'.pc \in {"none", "exit", "unlist"}, cut \subseteq cut', cut' \subseteq cut \cup FilesOn(s),
         \/ op' = NoOp /\ op.by = "proc"
         \/ /\ op'.by = op.by /\ op'.i = op.i /\ op'.todo = op.todo /\ op'.s = s
            /\ op'.pc = "exit" => op.by \in {"load", "unload"}
            /\ op'.pc \in {"exit", "unlist"},
         UNCHANGED <<mod, priv, files, named, codec, failedLoad, abandoned>>
  PROVE  /\ Phases' /\ Shape' /\ ToDo' /\ UnloadReleases'
         /\ cut' \subseteq {f \in Files : files'[f] # 0}
         /\ s \in Held /\ Held = Allocated
         /\ Held' = IF op'.pc = "unlist" THEN Held \ {s} ELSE Held
<1> USE DEF KInv
<1>1. op \in OpRec /\ op.by \in {"load", "unload", "proc"} /\ mod # "out"
  BY OpFields DEF KTypes, Phases
<1>2. s \in Listed /\ s \in Allocated /\ s \in Structs /\ s # 0
  BY Constants DEF Shape, Allocated
<1>3. cut' \subseteq {f \in Files : files'[f] # 0}
  BY <1>2 DEF KTypes, FilesOn
<1>4. Phases'
  BY <1>1, OpFields, Names DEF Phases, priv
<1>5. NoOp.pc = "none"
  BY <1>1, OpFields
<1>6. /\ Allocated' = Allocated /\ Listed' = Listed /\ Unlisted' = Unlisted /\ Noded' = Noded
      /\ Held = Allocated /\ Held' = IF op'.pc = "unlist" THEN Held \ {s} ELSE Held
  BY <1>5 DEF priv, Allocated, Listed, Unlisted, Noded, Held, Closing
<1>7. Shape'
  BY <1>2, <1>5, <1>6 DEF Shape, priv
<1>8. ToDo'
  BY <1>5, <1>6 DEF ToDo
<1>9. QED
  BY <1>1, <1>2, <1>3, <1>4, <1>6, <1>7, <1>8 DEF UnloadReleases

LEMMA CloseDeviceKeeps == KInv /\ CloseDevice => KInv'
<1> SUFFICES ASSUME KInv, CloseDevice
             PROVE  KInv'
  OBVIOUS
<1> USE DEF KInv
<1>1. PICK s, h : s = op.s /\ h = devs[s].handle
  OBVIOUS
<1>2. PICK ok \in BOOLEAN :
        /\ IF ok THEN DriverCloses(h) ELSE DriverKeeps(h)
        /\ IF ok /\ ClosesWell(h) THEN op' = [op EXCEPT !.pc = "unlist"] ELSE CloseReturns
        /\ cut' = IF ok THEN cut \cup FilesOn(s) ELSE cut
  BY <1>1 DEF CloseDevice
<1>3. op.pc = "close" /\ UNCHANGED <<mod, priv, files, named, codec, failedLoad, abandoned>>
  BY DEF CloseDevice
<1>4. /\ op \in OpRec /\ op.by \in {"load", "unload", "proc"} /\ mod # "out" /\ failed \in Nat
  BY <1>3, OpFields DEF KTypes, Phases
<1>5. CloseReturns =>
        /\ op' \in OpRec /\ op'.pc \in {"none", "exit"}
        /\ \/ op' = NoOp /\ op.by = "proc"
           \/ /\ op'.by = op.by /\ op'.i = op.i /\ op'.todo = op.todo /\ op'.s = s
              /\ op.by \in {"load", "unload"} /\ op'.pc = "exit"
  BY <1>1, <1>4, OpFields, Names DEF CloseReturns, OpRec, OpPcs
<1>6. op' = [op EXCEPT !.pc = "unlist"] =>
        /\ op' \in OpRec /\ op'.pc = "unlist" /\ op'.by = op.by /\ op'.i = op.i
        /\ op'.todo = op.todo /\ op'.s = s
  BY <1>1, <1>4 DEF OpRec, OpPcs
<1>7. /\ op' \in OpRec /\ op'.pc \in {"none", "exit", "unlist"}
      /\ op'.pc = "unlist" <=> ok /\ ClosesWell(h)
      /\ \/ op' = NoOp /\ op.by = "proc"
         \/ /\ op'.by = op.by /\ op'.i = op.i /\ op'.todo = op.todo /\ op'.s = s
            /\ op'.pc = "exit" => op.by \in {"load", "unload"}
            /\ op'.pc \in {"exit", "unlist"}
  <2>1. CASE ok /\ ClosesWell(h)
    BY <1>2, <1>6, <2>1
  <2>2. CASE ~(ok /\ ClosesWell(h))
    BY <1>2, <1>5, <2>2
  <2>3. QED
    BY <2>1, <2>2
<1>8. cut \subseteq cut' /\ cut' \subseteq cut \cup FilesOn(s)
  BY <1>2
<1>9. /\ Phases' /\ Shape' /\ ToDo' /\ UnloadReleases'
      /\ cut' \subseteq {f \in Files : files'[f] # 0}
      /\ s \in Held /\ Held = Allocated
      /\ Held' = IF op'.pc = "unlist" THEN Held \ {s} ELSE Held
  BY <1>1, <1>3, <1>7, <1>8, CloseFrame
<1>10. Listed' = Listed /\ \A t \in Held' : devs'[t] = devs[t]
  BY <1>3 DEF Listed, priv
<1>11. \A t : InUse(t)' => InUse(t)
  BY <1>3, <1>8 DEF InUse
<1>12. FilesRight'
  <2>1. ASSUME NEW f \in Files, files[f] # 0, f \notin cut'
        PROVE  /\ files[f] \in Structs /\ files[f] \in Listed /\ files[f] \in Held'
               /\ devs[files[f]].id = named[f]
    <3>1. /\ files[f] \in Structs /\ files[f] \in Listed /\ files[f] \in Held
          /\ devs[files[f]].id = named[f]
      BY <1>8, <2>1 DEF FilesRight
    <3>2. op'.pc = "unlist" => files[f] # s
      BY <1>2, <1>7, <2>1 DEF FilesOn
    <3>3. QED
      BY <1>9, <3>1, <3>2
  <2>2. QED
    BY <1>3, <1>10, <2>1 DEF FilesRight, priv
<1>13. CASE ok
  <2>1. DriverCloses(h) /\ users' = [users EXCEPT ![h] = None] /\ UNCHANGED <<refused, failed>>
    BY <1>2, <1>13 DEF DriverCloses
  <2>2. UNCHANGED <<codec, chrdev, mod>>
    BY <1>3 DEF priv
  <2>3. Enough' /\ init_count' \in Nat /\ (~Loose => ClosesWell(h))
    BY <1>1, <1>4, <1>9, <2>1, <2>2, ClosedCount
  <2>4. ~Loose => Held' = Held \ {s}
    BY <1>7, <1>9, <1>13, <2>3
  <2>5. Loose' = Loose
    BY <2>1, <2>2 DEF Loose
  <2>6. ~InUse(s)'
    BY <1>2, <1>3, <1>13 DEF InUse, FilesOn
  <2>7. Kept' \subseteq Kept \ {s}
    BY <1>9, <1>11, <2>4, <2>5, <2>6 DEF Kept
  <2>8. Held' \subseteq Held
    BY <1>9
  <2>9. Owned' /\ users' \in UserTable
    BY <1>1, <1>3, <1>9, <1>10, <2>1, <2>2, <2>4, <2>7, <2>8, ClosedHandle
  <2>10. KTypes'
    BY <1>3, <1>7, <1>9, <2>1, <2>3, <2>9 DEF KTypes, UserTable, priv
  <2>11. Clears'
    <3>1. ~Loose => op'.pc = "unlist"
      BY <1>7, <1>13, <2>3
    <3>2. ASSUME ~refused', op'.by \in {"load", "unload"}
          PROVE  /\ op'.pc = "unlist" /\ op.by \in {"load", "unload"} /\ ~refused
                 /\ op'.s = op.s /\ op'.todo = op.todo
      BY <1>1, <1>4, <1>7, <2>1, <3>1, <3>2, OpFields, Names DEF Loose
    <3>3. QED
      BY <1>3, <1>10, <3>2 DEF Clears
  <2>12. QED
    BY <1>9, <1>12, <2>3, <2>9, <2>10, <2>11
<1>14. CASE ~ok
  <2>1. /\ refused' = TRUE /\ failed' = failed + 1 /\ UNCHANGED <<users, init_count>>
        /\ cut' = cut
    BY <1>2, <1>14 DEF DriverKeeps, Fails, drvTable
  <2>2. KTypes'
    BY <1>3, <1>4, <1>7, <2>1 DEF KTypes, priv
  <2>3. ~Loose' => ~Loose
    BY <1>3, <2>1 DEF Loose, priv
  <2>4. Held' = Held
    BY <1>7, <1>9, <1>14
  <2>5. Kept' \subseteq Kept
    BY <1>11, <2>3, <2>4 DEF Kept
  <2>6. Owned'
    BY <1>3, <1>10, <2>1, <2>3, <2>4, <2>5 DEF Owned, priv
  <2>7. Enough'
    <3>1. failed' > 0 /\ failed' # 0 /\ CodecInits' = CodecInits
      BY <1>3, <1>4, <2>1 DEF CodecInits
    <3>2. QED
      BY <1>3, <2>1, <2>3, <3>1 DEF Enough
  <2>8. Clears'
    BY <2>1 DEF Clears
  <2>9. QED
    BY <1>9, <1>12, <2>2, <2>6, <2>7, <2>8
<1>15. QED
  BY <1>13, <1>14

-----------------------------------------------------------------------------
(* The module is loaded, and taken down *)

\* A driver with no structures, files or handles.
LEMMA EmptyKernel ==
  /\ Distinct(<<>>) /\ <<>> \in Seq(Structs) /\ ToSet(<<>>) = {}
  /\ [h \in Handles |-> None] \in UserTable /\ Used([h \in Handles |-> None]) = {}
  /\ Cardinality({}) = 0
<1>1. PICK q : q = <<>>
  OBVIOUS
<1>2. Len(q) = 0 /\ q \in Seq(Structs)
  BY <1>1, EmptySeq
<1>3. 1 .. Len(q) = {}
  BY <1>2
<1>4. ToSet(q) = {} /\ Distinct(q)
  BY <1>2, <1>3, Elements DEF Distinct
<1>5. Cardinality({}) = 0
  BY FS_EmptySet
<1>6. QED
  BY <1>1, <1>2, <1>4, <1>5 DEF Used, UserTable

LEMMA KInit == Init => KInv
<1> SUFFICES ASSUME Init
             PROVE  KInv
  OBVIOUS
<1> USE DEF Init
<1>1. /\ NoOp \in OpRec /\ NoOp.pc = "none" /\ NoOp.by = None /\ NoOp.todo = <<>>
  BY EmptyKernel, Constants DEF OpRec, OpPcs, NoOp
<1>2. KTypes
  BY <1>1, EmptyKernel DEF KTypes, UserTable
<1>3. Phases
  BY <1>1, Names DEF Phases
<1>4. Allocated = {} /\ Listed = {} /\ Unlisted = {} /\ Noded = {} /\ Held = {} /\ ~Loose
  BY <1>1, EmptyKernel DEF Allocated, Listed, Unlisted, Noded, Held, Loose
<1>5. Shape /\ ToDo
  BY <1>1, <1>4, EmptyKernel DEF Shape, ToDo
<1>6. Used(users) = {} /\ CodecInits = 0
  BY EmptyKernel DEF CodecInits
<1>7. Owned
  BY <1>4, <1>6 DEF Owned, Kept
<1>8. FilesRight /\ Clears
  BY <1>1, Names DEF FilesRight, Clears
<1>9. Enough /\ UnloadReleases
  <2>1. Cardinality(Used(users)) = 0
    BY <1>6, EmptyKernel
  <2>2. Enough
    BY <1>6, <2>1 DEF Enough
  <2>3. UnloadReleases
    BY <1>4, <1>6, Names DEF UnloadReleases
  <2>4. QED
    BY <2>2, <2>3
<1>10. QED
  BY <1>2, <1>3, <1>5, <1>7, <1>8, <1>9 DEF KInv

LEMMA LoadKeeps == KInv /\ Load => KInv'
<1> SUFFICES ASSUME KInv, Load
             PROVE  KInv'
  OBVIOUS
<1> USE DEF KInv
<1>1. /\ mod = "out" /\ Allocated = {} /\ \A m \in Minors : nodes[m] = None
      /\ mod' = "loading" /\ chrdev' = "up" /\ cls' \in {"up", "err"}
      /\ minors' = {} /\ list' = <<>> /\ users' = [h \in Handles |-> None]
      /\ failed' \in {0, 1} /\ init_count' = 1 - failed'
      /\ op' = [NoOp EXCEPT !.pc = "next", !.by = "load"]
      /\ failedLoad' = FALSE /\ refused' = FALSE /\ abandoned' = {}
      /\ UNCHANGED <<devs, nodes, fileVars, codec>>
  BY DEF Load
<1>2. op \in OpRec /\ op = NoOp /\ codec = None /\ \A f \in Files : files[f] \in {0, Gone}
  BY <1>1 DEF KTypes, Phases
<1>3. op' \in OpRec /\ op'.pc = "next" /\ op'.by = "load"
  BY <1>1, <1>2, OpFields DEF OpRec, OpPcs, NoOp
<1>4. init_count' \in Nat /\ failed' \in Nat /\ (failed' = 0 => init_count' = 1)
  BY <1>1
<1>5. KTypes'
  BY <1>1, <1>3, <1>4, EmptyKernel DEF KTypes, UserTable, fileVars
<1>6. Phases'
  BY <1>1, <1>2, <1>3, Names DEF Phases, fileVars
<1>7. Allocated' = {} /\ Listed' = {} /\ Unlisted' = {} /\ Noded' = {} /\ Held' = {} /\ ~Loose'
  BY <1>1, <1>3, EmptyKernel DEF Allocated, Listed, Unlisted, Noded, Held, Loose
<1>8. Shape' /\ ToDo' /\ Clears'
  BY <1>1, <1>3, <1>7, EmptyKernel DEF Shape, ToDo, Clears
<1>9. Used(users') = {} /\ CodecInits' = 0
  BY <1>1, <1>2, EmptyKernel DEF CodecInits
<1>10. Owned'
  BY <1>1, <1>2, <1>7, <1>9 DEF Owned, Kept
<1>11. FilesRight'
  <2>1. Listed = {}
    BY <1>1 DEF Shape
  <2>2. UNCHANGED <<files, named, cut>>
    BY <1>1 DEF fileVars
  <2>3. QED
    BY <2>1, <2>2 DEF FilesRight
<1>12. Enough' /\ UnloadReleases'
  <2>1. Cardinality(Used(users')) = 0
    BY <1>9, EmptyKernel
  <2>2. QED
    BY <1>1, <1>4, <1>9, <2>1 DEF Enough, UnloadReleases
<1>13. QED
  BY <1>5, <1>6, <1>8, <1>10, <1>11, <1>12

LEMMA ExitTermKeeps == KInv /\ mod # "oops" /\ ExitTerm => KInv'
<1> SUFFICES ASSUME KInv, mod # "oops", ExitTerm
             PROVE  KInv'
  OBVIOUS
<1> USE DEF KInv
<1>1. /\ op.pc = "term" /\ ExitReturns
      /\ init_count' = TermCount(users, init_count)
      /\ IF TermOK(users, init_count)
           THEN chrdev' = "freed" /\ cls' = IF cls = "err" THEN "err" ELSE "freed"
           ELSE UNCHANGED <<chrdev, cls>>
      /\ IF mod' = "out" THEN Stranded ELSE UNCHANGED fileVars
      /\ UNCHANGED <<minors, list, devs, nodes, users, codec, histVars>>
  BY DEF ExitTerm
<1>2. /\ op \in OpRec /\ mod \in {"out", "loading", "in", "oops"} /\ init_count \in Nat
      /\ chrdev \in {None, "up", "freed"} /\ cls \in {None, "up", "err", "freed"}
  BY DEF KTypes
<1>3. /\ op.by \in {"load", "unload"} /\ codec = None /\ mod # "out"
      /\ op.by = "load" => mod = "loading" /\ failedLoad /\ op.i \in Ids
      /\ op.by = "unload" => mod = "in"
  BY <1>1, <1>2, OpFields, Names DEF Phases
<1>4. /\ op' \in OpRec
      /\ \/ op.by = "load" /\ op'.pc = "next" /\ op'.by = "load" /\ mod' = "loading"
         \/ op.by = "unload" /\ op' = NoOp /\ mod' = "out"
  <2>1. CASE op.by = "load"
    <3>1. op.i + 1 \in 0 .. NumDevs
      BY <1>3, <2>1, Constants DEF Ids
    <3>2. QED
      BY <1>1, <1>2, <1>3, <2>1, <3>1 DEF ExitReturns, OpRec, OpPcs
  <2>2. CASE op.by = "unload"
    BY <1>1, <1>2, <2>2, OpFields DEF ExitReturns
  <2>3. QED
    BY <1>3, <2>1, <2>2
<1>5. op'.pc \in {"none", "next"}
  BY <1>2, <1>4, OpFields
<1>6. init_count' \in Nat /\ init_count' <= init_count
  BY <1>1, <1>2, TermCounts
<1>7. chrdev' \in {chrdev, "freed"} /\ cls' \in {cls, "freed"}
  BY <1>1, <1>2
<1>21. /\ files' \in [Files -> Structs \cup {0, Gone}] /\ named' \in [Files -> Ids \cup {None}]
       /\ cut' \subseteq {f \in Files : files'[f] # 0}
       /\ mod' = "out" => \A f \in Files : files'[f] \in {0, Gone}
       /\ \A f \in Files : files'[f] # 0 /\ f \notin cut' => UNCHANGED <<files, named, cut>>
  <2>1. CASE mod' = "out"
    BY <1>1, <2>1, Constants DEF Stranded, KTypes
  <2>2. CASE mod' # "out"
    BY <1>1, <2>2 DEF fileVars, KTypes
  <2>3. QED
    BY <2>1, <2>2
<1>8. KTypes'
  BY <1>1, <1>2, <1>4, <1>6, <1>7, <1>21 DEF KTypes, histVars
<1>9. Phases'
  BY <1>1, <1>2, <1>3, <1>4, <1>21, OpFields, Names DEF Phases, histVars
<1>10. /\ Allocated' = Allocated /\ Listed' = Listed /\ Unlisted' = {} /\ Unlisted = {}
       /\ Noded' = Noded /\ Held' = Held /\ Held = Allocated
  BY <1>1, <1>5 DEF Allocated, Listed, Unlisted, Noded, Held, Closing
<1>11. Shape' /\ ToDo'
  BY <1>1, <1>5, <1>10 DEF Shape, ToDo
<1>12. Clears'
  BY <1>5 DEF Clears
<1>13. ~Loose' => ~Loose
  BY <1>1, <1>7 DEF Loose, histVars
<1>14. Kept' \subseteq Kept
  <2>1. \A s \in Held : s # 0
    BY Constants DEF Held, Allocated
  <2>2. \A s \in Held : InUse(s)' => InUse(s)
    BY <1>21, <2>1 DEF InUse
  <2>3. QED
    BY <1>10, <1>13, <2>2 DEF Kept
<1>15. Owned'
  BY <1>1, <1>10, <1>13, <1>14 DEF Owned, histVars
<1>16. FilesRight'
  BY <1>1, <1>10, <1>21 DEF FilesRight
<1>17. ~refused => Listed = {} /\ Allocated = {} /\ Used(users) = {}
  <2>1. SUFFICES ASSUME ~refused
                 PROVE  Listed = {} /\ Allocated = {} /\ Used(users) = {}
    OBVIOUS
  <2>2. Listed = {} /\ Allocated = {} /\ Held = {}
    BY <1>1, <1>3, <1>10, <2>1 DEF Clears, Shape
  <2>3. abandoned = {} /\ ~Loose
    BY <2>1 DEF Owned, Loose
  <2>4. Used(users) = {}
    BY <1>3, <2>2, <2>3 DEF Owned
  <2>5. QED
    BY <2>2, <2>4
<1>18. Enough'
  <2>1. CodecInits' = 0 /\ CodecInits = 0
    BY <1>1, <1>3 DEF CodecInits
  <2>2. PICK n : n = Cardinality(Used(users))
    OBVIOUS
  <2>3. n \in Nat /\ (Used(users) = {} => n = 0)
    BY <2>2, UsedFinite, EmptyKernel
  <2>4. ~Loose' => n <= init_count'
    <3>1. CASE ~refused
      BY <1>6, <1>17, <2>3, <3>1
    <3>2. CASE refused
      <4>1. SUFFICES ASSUME ~Loose'
                     PROVE  n <= init_count'
        OBVIOUS
      <4>2. chrdev' # "freed"
        BY <1>1, <3>2, <4>1 DEF Loose, histVars
      <4>3. ~TermOK(users, init_count)
        BY <1>1, <4>2
      <4>4. init_count = 1 /\ Used(users) # {} /\ init_count' = init_count
        BY <1>1, <4>3 DEF TermOK, TermCount
      <4>5. n <= init_count
        BY <1>2, <1>3, <1>13, <2>1, <2>2, <2>3, <4>1 DEF Enough
      <4>6. QED
        BY <4>4, <4>5
    <3>3. QED
      BY <3>1, <3>2
  <2>5. failed = 0 => init_count' <= n + 0 + 1
    BY <1>2, <1>6, <2>1, <2>2, <2>3 DEF Enough
  <2>6. refused => failed > 0
    BY DEF Enough
  <2>7. Cardinality(Used(users')) = n /\ failed' = failed /\ refused' = refused
    BY <1>1, <2>2 DEF histVars
  <2>8. QED
    BY <1>2, <1>6, <2>1, <2>3, <2>4, <2>5, <2>6, <2>7 DEF Enough
<1>19. UnloadReleases'
  <2>1. SUFFICES ASSUME mod' = "out", ~refused'
                 PROVE  /\ Allocated' = {} /\ Used(users') = {} /\ minors' = {}
                        /\ \A m \in Minors : nodes'[m] = None
                        /\ chrdev' # "up" /\ cls' # "up"
                        /\ failed' = 0 => init_count' = 0
    BY DEF UnloadReleases
  <2>2. ~refused /\ failed' = failed
    BY <1>1, <2>1 DEF histVars
  <2>3. Allocated' = {} /\ Used(users') = {} /\ Noded = {}
    BY <1>1, <1>10, <1>17, <2>2 DEF Noded
  <2>4. minors = {} /\ \A m \in Minors : nodes[m] = None
    BY <2>3 DEF Shape
  <2>5. TermOK(users, init_count)
    BY <1>17, <2>2 DEF TermOK
  <2>6. failed = 0 => init_count' = 0
    <3>1. failed = 0 => init_count <= 0 + 0 + 1
      BY <1>3, <1>17, <2>2, EmptyKernel DEF Enough, CodecInits
    <3>2. Used(users) = {}
      BY <1>17, <2>2
    <3>3. QED
      BY <1>1, <1>2, <3>1, <3>2 DEF TermCount
  <2>7. QED
    BY <1>1, <2>2, <2>3, <2>4, <2>5, <2>6
<1>20. QED
  BY <1>8, <1>9, <1>11, <1>12, <1>15, <1>16, <1>18, <1>19

-----------------------------------------------------------------------------
(* The codec *)

\* What the codec's steps leave alone.
LEMMA CodecFrame ==
  ASSUME KInv, UNCHANGED <<mod, priv, op, fileVars, failedLoad>>
  PROVE  /\ Shape' /\ ToDo' /\ FilesRight' /\ Listed' = Listed /\ Held' = Held
         /\ \A t : InUse(t)' = InUse(t)
<1> USE DEF KInv
<1>1. /\ Allocated' = Allocated /\ Listed' = Listed /\ Unlisted' = Unlisted
      /\ Noded' = Noded /\ Held' = Held
  BY DEF priv, Allocated, Listed, Unlisted, Noded, Held, Closing
<1>2. Shape' /\ ToDo'
  BY <1>1 DEF Shape, ToDo, priv
<1>3. FilesRight'
  BY <1>1 DEF FilesRight, priv, fileVars
<1>4. \A t : InUse(t)' = InUse(t)
  BY DEF InUse, fileVars
<1>5. QED
  BY <1>1, <1>2, <1>3, <1>4

LEMMA CodecProbeKeeps == KInv /\ CodecProbe => KInv'
<1> SUFFICES ASSUME KInv, CodecProbe
             PROVE  KInv'
  OBVIOUS
<1> USE DEF KInv
<1>1. /\ mod = "in" /\ op.by # "unload" /\ codec = None
      /\ UNCHANGED <<mod, priv, op, fileVars, failedLoad, refused, abandoned>>
  BY DEF CodecProbe
<1>2. /\ op \in OpRec /\ users \in UserTable /\ init_count \in Nat /\ failed \in Nat
  BY DEF KTypes, UserTable
<1>3. op.by # "load"
  BY <1>1 DEF Phases
<1>4. /\ Shape' /\ ToDo' /\ FilesRight' /\ Listed' = Listed /\ Held' = Held
      /\ \A t : InUse(t)' = InUse(t)
  BY <1>1, CodecFrame
<1>5. Loose' = Loose /\ Kept' = Kept /\ \A t \in Held : devs'[t] = devs[t]
  BY <1>1, <1>4 DEF Loose, Kept, priv
<1>6. Phases' /\ Clears' /\ UnloadReleases'
  BY <1>1, <1>3 DEF Phases, Clears, UnloadReleases, priv, fileVars
<1>7. PICK n : n = Cardinality(Used(users))
  OBVIOUS
<1>8. /\ n \in Nat /\ CodecInits = 0
      /\ ~Loose => n + 0 <= init_count
      /\ failed = 0 => init_count <= n + 0 + 1
      /\ refused => failed > 0
  BY <1>1, <1>7, UsedFinite DEF Enough, CodecInits
<1>9. PICK h : h = NewHandle
  OBVIOUS
<1>10. CASE /\ RoomFor(CodecDev)
            /\ codec' = h
            /\ users' = [users EXCEPT ![h] = CodecDev]
            /\ init_count' = init_count + 2
            /\ UNCHANGED failed
  <2>1. h \in Handles /\ users[h] = None /\ h # None
    BY <1>2, <1>9, <1>10, NewHandleFree, Constants
  <2>2. /\ users' \in UserTable /\ users'[h] = CodecDev
        /\ \A g \in Handles \ {h} : users'[g] = users[g]
        /\ Used(users') = Used(users) \cup {h} /\ Cardinality(Used(users')) = n + 1
    <3>1. /\ users' \in UserTable /\ Used(users') = Used(users) \cup {h}
          /\ Cardinality(Used(users')) = n + 1
      BY <1>2, <1>7, <1>10, <2>1, Constants, UsedMore
    <3>2. QED
      BY <1>2, <1>10, <2>1, <3>1 DEF UserTable
  <2>3. KTypes'
    BY <1>1, <1>2, <1>10, <2>1, <2>2 DEF KTypes, UserTable, priv, fileVars
  <2>4. Owned'
    <3>1. ASSUME NEW t \in Kept'
          PROVE  /\ users'[devs'[t].handle] = devs'[t].id
                 /\ devs'[t].handle # codec'
                 /\ \A u \in Held' : devs'[t].handle = devs'[u].handle => t = u
      <4>1. t \in Kept /\ t \in Held /\ t \in Allocated
        BY <1>5, <3>1 DEF Kept, Held
      <4>2. devs[t].handle \in Handles /\ devs[t].id # None /\ users[devs[t].handle] = devs[t].id
        BY <4>1, TakenFields DEF Owned
      <4>3. devs[t].handle # h
        BY <2>1, <4>2
      <4>4. QED
        BY <1>4, <1>5, <1>10, <2>2, <4>1, <4>2, <4>3 DEF Owned
    <3>2. ASSUME ~Loose
          PROVE  /\ codec' # None => users'[codec'] = CodecDev
                 /\ abandoned' \subseteq Used(users') /\ codec' \notin abandoned'
                 /\ \A t \in Held' : devs'[t].handle \notin abandoned'
                 /\ Used(users') = {devs'[t].handle : t \in Held'} \cup ({codec'} \ {None})
                                     \cup abandoned'
      <4>1. abandoned \subseteq Used(users) /\ abandoned' = abandoned
        BY <1>1, <3>2 DEF Owned
      <4>2. h \notin Used(users)
        BY <2>1 DEF Used
      <4>3. {devs'[t].handle : t \in Held'} = {devs[t].handle : t \in Held}
        BY <1>4, <1>5
      <4>4. Used(users) = {devs[t].handle : t \in Held} \cup abandoned
        BY <1>1, <3>2 DEF Owned
      <4>5. Used(users') = {devs'[t].handle : t \in Held'} \cup ({codec'} \ {None}) \cup abandoned'
        BY <1>10, <2>1, <2>2, <4>1, <4>3, <4>4
      <4>6. \A t \in Held' : devs'[t].handle \notin abandoned'
        BY <1>4, <1>5, <3>2, <4>1 DEF Owned
      <4>7. QED
        BY <1>10, <2>2, <4>1, <4>2, <4>5, <4>6
    <3>3. QED
      BY <1>1, <1>5, <3>1, <3>2 DEF Owned
  <2>5. Enough'
    <3>1. CodecInits' = 1
      BY <1>10, <2>1 DEF CodecInits
    <3>2. QED
      BY <1>1, <1>2, <1>5, <1>8, <1>10, <2>2, <3>1 DEF Enough
  <2>6. QED
    BY <1>4, <1>6, <2>3, <2>4, <2>5
<1>11. CASE /\ failed' = failed + 1
            /\ init_count' = TermCount(users, init_count + 2)
            /\ UNCHANGED <<codec, users>>
  <2>1. init_count + 2 \in Nat
    BY <1>2
  <2>2. init_count' \in Nat /\ init_count + 1 <= init_count'
    BY <1>2, <1>11, <2>1, TermCounts
  <2>3. KTypes'
    BY <1>1, <1>2, <1>11, <2>2 DEF KTypes, priv, fileVars
  <2>4. Owned'
    <3>1. Kept' = Kept /\ Kept \subseteq Held
      BY <1>1, <1>4 DEF Kept, Loose, priv
    <3>2. {devs'[t].handle : t \in Held'} = {devs[t].handle : t \in Held}
      BY <1>4, <1>5
    <3>3. /\ codec' = codec /\ users' = users /\ abandoned' = abandoned /\ refused' = refused
          /\ Loose' = Loose
      BY <1>1, <1>11 DEF Loose, priv
    <3>4. \A t \in Kept' :
            /\ users'[devs'[t].handle] = devs'[t].id
            /\ devs'[t].handle # codec'
            /\ \A x \in Held' : devs'[t].handle = devs'[x].handle => t = x
      BY <1>4, <1>5, <3>1, <3>3 DEF Owned
    <3>5. \A t \in Held' : ~Loose' => devs'[t].handle \notin abandoned'
      BY <1>4, <1>5, <3>3 DEF Owned
    <3>6. ~Loose' => Used(users') = {devs'[t].handle : t \in Held'} \cup ({codec'} \ {None})
                                      \cup abandoned'
      BY <3>2, <3>3 DEF Owned
    <3>7. ~Loose' => /\ codec' # None => users'[codec'] = CodecDev
                     /\ abandoned' \subseteq Used(users') /\ codec' \notin abandoned'
      BY <3>3 DEF Owned
    <3>8. abandoned' # {} => refused'
      BY <3>3 DEF Owned
    <3>9. QED
      BY <3>4, <3>5, <3>6, <3>7, <3>8 DEF Owned
  <2>5. Enough'
    <3>1. CodecInits' = 0 /\ Cardinality(Used(users')) = n /\ failed' # 0 /\ failed' > 0
      BY <1>1, <1>2, <1>7, <1>11 DEF CodecInits
    <3>2. QED
      BY <1>1, <1>2, <1>5, <1>8, <2>2, <3>1 DEF Enough
  <2>6. QED
    BY <1>4, <1>6, <2>3, <2>4, <2>5
<1>12. QED
  BY <1>9, <1>10, <1>11 DEF CodecProbe, Fails

LEMMA CodecRemoveKeeps == KInv /\ CodecRemove => KInv'
<1> SUFFICES ASSUME KInv, CodecRemove
             PROVE  KInv'
  OBVIOUS
<1> USE DEF KInv
<1>1. codec # None /\ codec' = None /\ UNCHANGED <<mod, priv, op, fileVars, failedLoad>>
  BY DEF CodecRemove
<1>2. /\ op \in OpRec /\ users \in UserTable /\ init_count \in Nat /\ failed \in Nat
      /\ codec \in Handles /\ abandoned \subseteq Handles
  BY <1>1 DEF KTypes, UserTable
<1>3. mod # "out" /\ op.by \notin {"load", "unload"}
  BY <1>1 DEF Phases
<1>4. /\ Shape' /\ ToDo' /\ FilesRight' /\ Listed' = Listed /\ Held' = Held
      /\ \A t : InUse(t)' = InUse(t)
  BY <1>1, CodecFrame
<1>5. \A t \in Held : devs'[t] = devs[t] /\ devs[t].handle # None
  BY <1>1, TakenFields DEF priv, Held
<1>6. Phases' /\ Clears' /\ UnloadReleases'
  BY <1>1, <1>3 DEF Phases, Clears, UnloadReleases, priv, fileVars
<1>7. PICK n : n = Cardinality(Used(users))
  OBVIOUS
<1>8. /\ n \in Nat /\ CodecInits = 1 /\ CodecInits' = 0
      /\ ~Loose => n + 1 <= init_count
      /\ failed = 0 => init_count <= n + 1 + 1
      /\ refused => failed > 0
  BY <1>1, <1>3, <1>7, UsedFinite DEF Enough, CodecInits
<1>9. PICK us : us = [users EXCEPT ![codec] = None]
  OBVIOUS
<1>10. CASE /\ users' = us
            /\ init_count' = TermCount(us, TermCount(us, init_count))
            /\ UNCHANGED <<refused, failed, abandoned>>
  <2>1. /\ us \in UserTable /\ Used(us) = Used(users) \ {codec}
        /\ Cardinality(Used(us)) = IF users[codec] = None THEN n ELSE n - 1
        /\ \A g \in Handles \ {codec} : us[g] = users[g]
    <3>1. /\ us \in UserTable /\ Used(us) = Used(users) \ {codec}
          /\ Cardinality(Used(us)) = IF users[codec] = None THEN n ELSE n - 1
      BY <1>2, <1>7, <1>9, UsedLess
    <3>2. QED
      BY <1>2, <1>9, <3>1 DEF UserTable
  <2>2. Loose' = Loose /\ Kept' = Kept
    BY <1>1, <1>4, <1>10 DEF Loose, Kept, priv
  <2>3. PICK c : c = TermCount(us, init_count)
    OBVIOUS
  <2>4. /\ c \in Nat /\ c <= init_count /\ init_count <= c + 1
        /\ init_count > 1 => c = init_count - 1
    BY <1>2, <2>3, TermCounts
  <2>5. /\ init_count' \in Nat /\ init_count' <= c /\ c <= init_count' + 1
        /\ c > 1 => init_count' = c - 1
    BY <1>10, <2>3, <2>4, TermCounts
  <2>6. KTypes'
    BY <1>1, <1>2, <1>10, <2>1, <2>5 DEF KTypes, UserTable, priv, fileVars
  <2>7. Owned'
    <3>1. ASSUME NEW t \in Kept'
          PROVE  /\ users'[devs'[t].handle] = devs'[t].id
                 /\ devs'[t].handle # codec'
                 /\ \A u \in Held' : devs'[t].handle = devs'[u].handle => t = u
      <4>1. t \in Kept /\ t \in Held /\ t \in Allocated
        BY <2>2, <3>1 DEF Kept, Held
      <4>2. /\ devs[t].handle \in Handles /\ devs[t].handle # codec
            /\ users[devs[t].handle] = devs[t].id
        BY <4>1, TakenFields DEF Owned
      <4>3. QED
        BY <1>1, <1>4, <1>5, <1>10, <2>1, <4>1, <4>2 DEF Owned
    <3>2. ASSUME ~Loose
          PROVE  /\ codec' # None => users'[codec'] = CodecDev
                 /\ abandoned' \subseteq Used(users') /\ codec' \notin abandoned'
                 /\ \A t \in Held' : devs'[t].handle \notin abandoned'
                 /\ Used(users') = {devs'[t].handle : t \in Held'} \cup ({codec'} \ {None})
                                     \cup abandoned'
      <4>1. /\ abandoned \subseteq Used(users) /\ abandoned' = abandoned /\ codec \notin abandoned
            /\ None \notin abandoned
        BY <1>2, <1>10, <3>2, Constants DEF Owned
      <4>2. \A t \in Held : devs[t].handle # codec
        BY <3>2 DEF Owned, Kept
      <4>3. {devs'[t].handle : t \in Held'} = {devs[t].handle : t \in Held}
        BY <1>4, <1>5
      <4>4. Used(users) = {devs[t].handle : t \in Held} \cup ({codec} \ {None}) \cup abandoned
        BY <3>2 DEF Owned
      <4>5. Used(users') = {devs'[t].handle : t \in Held'} \cup ({codec'} \ {None}) \cup abandoned'
        BY <1>1, <1>10, <2>1, <4>1, <4>2, <4>3, <4>4
      <4>6. \A t \in Held' : devs'[t].handle \notin abandoned'
        BY <1>4, <1>5, <3>2, <4>1 DEF Owned
      <4>7. QED
        BY <1>1, <1>10, <2>1, <4>1, <4>5, <4>6
    <3>3. QED
      BY <1>10, <2>2, <3>1, <3>2 DEF Owned
  <2>8. Enough'
    <3>1. PICK m : m = Cardinality(Used(us))
      OBVIOUS
    <3>2. m \in Nat /\ (m = 0 <=> Used(us) = {})
      BY <3>1, UsedFinite, FS_EmptySet
    <3>3. Loose => failed # 0
      BY <1>2, <1>8 DEF Loose
    <3>4. ~Loose => m = n - 1
      BY <1>1, <1>2, <2>1, <3>1, Constants DEF Owned
    <3>5. ~Loose => m + 0 <= init_count'
      <4>1. SUFFICES ASSUME ~Loose
                     PROVE  m <= init_count'
        BY <3>2
      <4>2. c = init_count - 1 /\ m + 1 <= c
        BY <1>2, <1>8, <2>4, <3>2, <3>4, <4>1
      <4>3. QED
        BY <2>4, <2>5, <3>2, <4>2
    <3>6. failed = 0 => init_count' <= m + 0 + 1
      BY <1>2, <1>8, <2>4, <2>5, <3>2, <3>3, <3>4
    <3>7. QED
      BY <1>1, <1>8, <1>10, <2>2, <3>1, <3>5, <3>6 DEF Enough
  <2>9. QED
    BY <1>4, <1>6, <2>6, <2>7, <2>8
<1>11. CASE /\ failed' = failed + 1
            /\ init_count' = TermCount(users, init_count)
            /\ refused' = TRUE /\ abandoned' = abandoned \cup {codec} /\ UNCHANGED users
  <2>1. ~Loose' => ~Loose
    BY <1>1, <1>11 DEF Loose, priv
  <2>2. Kept' \subseteq Kept
    BY <1>4, <2>1 DEF Kept
  <2>3. init_count' \in Nat /\ init_count <= init_count' + 1
    BY <1>2, <1>11, TermCounts
  <2>4. KTypes'
    BY <1>1, <1>2, <1>11, <2>3 DEF KTypes, priv, fileVars
  <2>5. Owned'
    <3>1. \A t \in Kept' : t \in Kept /\ t \in Held /\ t \in Held' /\ devs'[t] = devs[t]
      BY <1>4, <1>5, <2>2 DEF Kept
    <3>2. ASSUME ~Loose'
          PROVE  /\ codec' # None => users'[codec'] = CodecDev
                 /\ abandoned' \subseteq Used(users') /\ codec' \notin abandoned'
                 /\ \A t \in Held' : devs'[t].handle \notin abandoned'
                 /\ Used(users') = {devs'[t].handle : t \in Held'} \cup ({codec'} \ {None})
                                     \cup abandoned'
      <4>1. ~Loose /\ Kept = Held /\ None \notin abandoned
        BY <1>2, <2>1, <3>2, Constants DEF Kept
      <4>2. codec \in Used(users)
        BY <1>1, <1>2, <4>1, Constants DEF Owned, Used
      <4>3. {devs'[t].handle : t \in Held'} = {devs[t].handle : t \in Held}
        BY <1>4, <1>5
      <4>4. Used(users) = {devs[t].handle : t \in Held} \cup ({codec} \ {None}) \cup abandoned
        BY <4>1 DEF Owned
      <4>5. Used(users') = {devs'[t].handle : t \in Held'} \cup ({codec'} \ {None}) \cup abandoned'
        BY <1>1, <1>11, <4>3, <4>4
      <4>6. \A t \in Held' : devs'[t].handle \notin abandoned'
        BY <1>4, <1>5, <1>11, <4>1 DEF Owned
      <4>7. abandoned' \subseteq Used(users') /\ codec' \notin abandoned'
        BY <1>1, <1>2, <1>11, <4>1, <4>2 DEF Owned
      <4>8. QED
        BY <1>1, <4>5, <4>6, <4>7
    <3>3. QED
      BY <1>1, <1>4, <1>5, <1>11, <3>1, <3>2 DEF Owned
  <2>6. Enough'
    <3>1. Cardinality(Used(users')) = n /\ failed' # 0 /\ failed' > 0
      BY <1>2, <1>7, <1>11
    <3>2. ASSUME ~Loose'
          PROVE  n + 0 <= init_count'
      <4>1. n + 1 <= init_count
        BY <1>8, <2>1, <3>2
      <4>2. /\ n \in Nat /\ init_count \in Nat /\ init_count' \in Nat
            /\ init_count <= init_count' + 1
        BY <1>2, <1>8, <2>3
      <4>3. QED
        BY <4>1, <4>2, OneLess
    <3>3. QED
      BY <1>8, <3>1, <3>2 DEF Enough
  <2>7. QED
    BY <1>4, <1>6, <2>4, <2>5, <2>6
<1>12. QED
  BY <1>9, <1>10, <1>11 DEF CodecRemove, Fails

-----------------------------------------------------------------------------
(* The invariant *)

LEMMA StillKeeps == KInv /\ UNCHANGED kVars => KInv'
<1> SUFFICES ASSUME KInv, UNCHANGED kVars
             PROVE  KInv'
  OBVIOUS
<1>1. /\ UNCHANGED <<mod, chrdev, cls, minors, list, devs, nodes, users, init_count, op>>
      /\ UNCHANGED <<files, named, cut, codec, failedLoad, refused, failed, abandoned>>
  BY DEF kVars, priv, drvTable, fileVars, histVars
<1>2. /\ Allocated' = Allocated /\ Listed' = Listed /\ Unlisted' = Unlisted /\ Noded' = Noded
      /\ Held' = Held /\ Kept' = Kept /\ Loose' = Loose /\ CodecInits' = CodecInits
  BY <1>1 DEF Allocated, Listed, Unlisted, Noded, Closing, Held, Kept, InUse, Loose, CodecInits
<1>3. KTypes'
  BY <1>1 DEF KInv, KTypes
<1>4. Phases'
  BY <1>1 DEF KInv, Phases
<1>5. Shape' /\ ToDo' /\ FilesRight'
  BY <1>1, <1>2 DEF KInv, Shape, ToDo, FilesRight
<1>6. Owned' /\ Enough'
  BY <1>1, <1>2 DEF KInv, Owned, Enough
<1>7. Clears' /\ UnloadReleases'
  BY <1>1, <1>2 DEF KInv, Clears, UnloadReleases
<1>8. QED
  BY <1>3, <1>4, <1>5, <1>6, <1>7 DEF KInv

LEMMA ControlKeeps == KInv /\ ControlStep => KInv'
<1> SUFFICES ASSUME KInv, ControlStep
             PROVE  KInv'
  OBVIOUS
<1>1. mod # "oops"
  BY DEF ControlStep
<1>2. CASE OpenDevice \/ CreateNode \/ AddToList
  BY <1>2, OpenDeviceKeeps, CreateNodeKeeps, AddToListKeeps
<1>3. CASE CloseDevice \/ TakeOffList \/ DestroyNode
  BY <1>3, CloseDeviceKeeps, TakeOffListKeeps, DestroyNodeKeeps
<1>4. CASE Load \/ LoadNext \/ Unload \/ ExitNext \/ ExitTerm \/ UseFreed \/ UseRemoved
  BY <1>1, <1>4, LoadKeeps, LoadNextKeeps, UnloadKeeps, ExitNextKeeps, ExitTermKeeps,
     OopsKeeps DEF UseFreed, UseRemoved
<1>5. CASE \E id \in Ids : ProcOpen(id) \/ ProcClose(id)
  BY <1>5, ProcOpenKeeps, ProcCloseKeeps
<1>6. CASE CodecProbe \/ CodecRemove
  BY <1>6, CodecProbeKeeps, CodecRemoveKeeps
<1>7. QED
  BY <1>2, <1>3, <1>4, <1>5, <1>6 DEF ControlStep

\* A step of a process opens a file, closes one, uses one whose structure is free, or leaves the
\* kernel driver as it is.
LEMMA ProcDoes ==
  ASSUME NEW p, ProcStep(p)
  PROVE  \/ \E f \in Files : IoClose(f)
         \/ \E f \in Files, id \in Ids : IoOpen(f, id)
         \/ UseFreedDev(p)
         \/ UNCHANGED kVars
<1>1. CASE LibInit(p) \/ LibTerm(p)
  BY <1>1 DEF LibInit, LibTerm
<1>2. CASE \E f \in Files : LibClose(p, f)
  BY <1>2 DEF LibClose
<1>3. CASE \E f \in Files, id \in Ids : LibOpen(p, f, id)
  BY <1>3 DEF LibOpen
<1>4. CASE \E f \in Files : \E m \in May[p] : CallDriver(p, f, m[1], m[2]) \/ Copy(p, f, m[1], m[2])
  BY <1>4 DEF CallDriver, Copy
<1>5. CASE Command(p)
  BY <1>5 DEF Command
<1>6. CASE UseFreedDev(p)
  BY <1>6
<1>7. QED
  BY <1>1, <1>2, <1>3, <1>4, <1>5, <1>6 DEF ProcStep

\* The lists, structures, minor numbers, device files, handles and counts of the kernel driver
\* fit together in every state, half way through an operation and after any failure too.
THEOREM KernelInductive == Spec => []KInv
<1>1. UInit => KInv
  BY KInit DEF UInit
<1>2. KInv /\ [Next]_vars => KInv'
  <2> SUFFICES ASSUME KInv, [Next]_vars
               PROVE  KInv'
    OBVIOUS
  <2>1. CASE Return \/ UNCHANGED vars
    BY <2>1, StillKeeps DEF Return, vars
  <2>2. CASE ControlStep
    BY <2>2, ControlKeeps
  <2>3. CASE mod # "oops" /\ \E p \in Procs : ProcStep(p)
    <3>1. PICK p \in Procs : ProcStep(p)
      BY <2>3
    <3>2. CASE \E f \in Files : IoClose(f)
      BY <2>3, <3>2, IoCloseKeeps
    <3>3. CASE \E f \in Files, id \in Ids : IoOpen(f, id)
      BY <3>3, IoOpenKeeps
    <3>4. CASE UseFreedDev(p)
      BY <3>4, OopsKeeps DEF UseFreedDev
    <3>5. CASE UNCHANGED kVars
      BY <3>5, StillKeeps
    <3>6. QED
      BY <3>1, <3>2, <3>3, <3>4, <3>5, ProcDoes
  <2>4. QED
    BY <2>1, <2>2, <2>3 DEF Next
<1>3. QED
  BY <1>1, <1>2, PTL DEF Spec

\* The HBI driver keeps a count of its initialisation for every handle.
THEOREM CountsEnough == Spec => []HandlesCounted
<1>1. KInv => HandlesCounted
  <2> SUFFICES ASSUME KInv, ~Loose
               PROVE  Cardinality(Used(users)) <= init_count
    BY DEF HandlesCounted
  <2>1. PICK n : n = Cardinality(Used(users))
    OBVIOUS
  <2>2. n \in Nat /\ CodecInits \in {0, 1} /\ n + CodecInits <= init_count /\ init_count \in Nat
    BY <2>1, UsedFinite DEF KInv, KTypes, UserTable, Enough, CodecInits
  <2>3. QED
    BY <2>1, <2>2
<1>2. QED
  BY <1>1, KernelInductive, PTL

\* A file stays on the device it was opened for until that device is closed, whatever is opened
\* and closed meanwhile and however minor numbers, structures and handles are used again.
THEOREM FilesKeepDevice == Spec => []FileReachesDevice
<1>1. KInv => FileReachesDevice
  <2> SUFFICES ASSUME KInv, NEW f \in Files, files[f] # 0, f \notin cut
               PROVE  /\ files[f] # Gone /\ devs[files[f]] # FreeMem
                      /\ devs[files[f]].id = named[f] /\ users[devs[files[f]].handle] = named[f]
    BY DEF FileReachesDevice
  <2>1. files[f] # Gone /\ files[f] \in Held /\ devs[files[f]].id = named[f]
    BY Constants DEF KInv, FilesRight
  <2>2. files[f] \in Kept
    BY <2>1 DEF Kept, InUse
  <2>3. QED
    BY <2>1, <2>2 DEF KInv, Owned, Held, Allocated
<1>2. QED
  BY <1>1, KernelInductive, PTL

\* The module that goes leaves nothing behind, unless HBI_close refused to close a device.
THEOREM UnloadClean == Spec => []UnloadReleases
BY KernelInductive, PTL DEF KInv

\* A step that uses freed memory: after a load that failed half way, through what a removed
\* module left, or through a file that was cut.
LEMMA OopsOf ==
  ASSUME KInv, mod # "oops", UseFreed \/ UseRemoved \/ \E p \in Procs : UseFreedDev(p)
  PROVE  OopsExplained'
<1>1. mod' = "oops" /\ UNCHANGED <<priv, op, fileVars, histVars>>
  BY DEF UseFreed, UseRemoved, UseFreedDev, Oops
<1>2. \A f : Dead(f)' = Dead(f)
  BY <1>1 DEF Dead, priv, fileVars
<1>3. /\ UNCHANGED <<chrdev, op, cut, failedLoad, refused>>
      /\ op \in OpRec /\ mod \in {"out", "loading", "in", "oops"}
      /\ files \in [Files -> Structs \cup {0, Gone}]
  BY <1>1 DEF priv, fileVars, histVars, KInv, KTypes
<1>4. CASE UseFreed
  <2>1. op.pc \in {"node", "destroy", "term"} /\ (cls = "freed" \/ chrdev = "freed")
    BY <1>4 DEF UseFreed
  <2>2. mod # "out"
    BY <1>3, <2>1, OpFields DEF KInv, Phases
  <2>3. failedLoad
    BY <1>3, <2>1, <2>2, OpFields DEF KInv, Phases
  <2>4. QED
    BY <1>3, <2>3 DEF OopsExplained
<1>5. CASE UseRemoved
  <2>1. mod = "out" /\ chrdev = "up"
    BY <1>5 DEF UseRemoved
  <2>2. op = NoOp /\ refused
    BY <2>1 DEF KInv, Phases, UnloadReleases
  <2>3. QED
    BY <1>3, <2>1, <2>2 DEF OopsExplained
<1>6. CASE \E p \in Procs : UseFreedDev(p)
  <2>1. PICK f \in Files : Dead(f)
    BY <1>6 DEF UseFreedDev
  <2>2. f \in cut
    BY <1>3, <2>1, Constants DEF KInv, FilesRight, Held, Allocated, Dead
  <2>3. QED
    BY <1>2, <1>3, <2>1, <2>2 DEF OopsExplained
<1>7. QED
  BY <1>4, <1>5, <1>6

\* Every other step leaves the driver working.
LEMMA NoOops ==
  ASSUME mod # "oops", ControlStep, ~UseFreed, ~UseRemoved
  PROVE  mod' # "oops"
<1>1. CASE OpenDevice \/ CreateNode \/ AddToList \/ CloseDevice \/ TakeOffList \/ DestroyNode
  BY <1>1 DEF OpenDevice, CreateNode, AddToList, CloseDevice, TakeOffList, DestroyNode
<1>2. CASE Load \/ LoadNext \/ Unload \/ ExitNext \/ ExitTerm
  BY <1>2 DEF Load, LoadNext, Unload, ExitNext, ExitTerm, ExitReturns
<1>3. CASE \E id \in Ids : ProcOpen(id) \/ ProcClose(id)
  BY <1>3 DEF ProcOpen, ProcClose
<1>4. CASE CodecProbe \/ CodecRemove
  BY <1>4 DEF CodecProbe, CodecRemove
<1>5. QED
  BY <1>1, <1>2, <1>3, <1>4 DEF ControlStep

\* Freed memory is used only after a load that failed half way, through a file that is left
\* without its device or its driver, or through what a module left that could not close a device.
THEOREM OopsesExplained == Spec => []OopsExplained
<1>1. UInit => OopsExplained
  BY DEF UInit, Init, OopsExplained
<1>2. KInv /\ OopsExplained /\ [Next]_vars => OopsExplained'
  <2> SUFFICES ASSUME KInv, OopsExplained, [Next]_vars
               PROVE  OopsExplained'
    OBVIOUS
  <2>1. CASE UNCHANGED kVars
    <3>1. UNCHANGED <<mod, chrdev, devs, op, files, cut, failedLoad, refused>>
      BY <2>1 DEF kVars, priv, fileVars, histVars
    <3>2. QED
      BY <3>1 DEF OopsExplained, Dead
  <2>2. CASE ControlStep
    <3>1. mod # "oops"
      BY <2>2 DEF ControlStep
    <3>2. QED
      BY <2>2, <3>1, OopsOf, NoOops DEF OopsExplained
  <2>3. CASE mod # "oops" /\ \E p \in Procs : ProcStep(p)
    <3>1. PICK p \in Procs : ProcStep(p)
      BY <2>3
    <3>2. CASE (\E f \in Files : IoClose(f)) \/ \E f \in Files, id \in Ids : IoOpen(f, id)
      BY <2>3, <3>2 DEF IoClose, IoOpen, OopsExplained
    <3>3. CASE UseFreedDev(p)
      BY <2>3, <3>3, OopsOf
    <3>4. QED
      BY <2>1, <3>1, <3>2, <3>3, ProcDoes
  <2>4. QED
    BY <2>1, <2>2, <2>3 DEF Next, Return, vars
<1>3. QED
  BY <1>1, <1>2, KernelInductive, PTL DEF Spec

-----------------------------------------------------------------------------
(* Nothing leaks *)

\* As many values as elements, if no two elements have the same.
LEMMA AsMany ==
  ASSUME NEW S, IsFiniteSet(S), NEW g, \A s, t \in S : g[s] = g[t] => s = t
  PROVE  IsFiniteSet({g[s] : s \in S}) /\ Cardinality({g[s] : s \in S}) = Cardinality(S)
<1>1. PICK T : T = {g[s] : s \in S}
  OBVIOUS
<1>2. PICK b : b = [s \in S |-> g[s]]
  OBVIOUS
<1>3. b \in Bijection(S, T)
  <2>1. b \in [S -> T] /\ \A t \in T : \E s \in S : b[s] = t
    BY <1>1, <1>2
  <2>2. \A s, t \in S : b[s] = b[t] => s = t
    BY <1>2
  <2>3. QED
    BY <2>1, <2>2 DEF Bijection, Injection, Surjection, IsInjective
<1>4. ExistsBijection(S, T)
  BY <1>3 DEF ExistsBijection
<1>5. QED
  BY <1>1, <1>4, FS_Bijection, FS_SameCardinalityBij

\* When no operation is under way the list, the structures, the handles, the minor numbers and
\* the device files correspond one to one, whatever failed on the way.
THEOREM Leakless == Spec => []NothingLeaks
<1>1. KInv => NothingLeaks
  <2> SUFFICES ASSUME KInv, Settled, ~Loose
               PROVE  NothingLeaks
    BY DEF NothingLeaks
  <2> USE DEF KInv
  <2>1. /\ mod = "in" /\ op.pc = "none" /\ op = NoOp /\ list \in Seq(Structs) /\ Distinct(list)
        /\ codec \in Handles \cup {None} /\ abandoned \subseteq Handles
    BY DEF Settled, NoOp, KTypes, Shape
  <2>2. Allocated = Listed /\ Noded = Listed /\ Held = Listed /\ Kept = Listed
    BY <2>1 DEF Shape, Unlisted, Noded, Closing, Held, Kept
  <2>3. IsFiniteSet(Listed) /\ Cardinality(Listed) = Len(list)
    BY <2>1, ListCounts DEF Listed
  <2>4. \A s \in Listed : users[devs[s].handle] = devs[s].id /\ nodes[devs[s].minor] = devs[s].id
    BY <2>2 DEF Owned, Shape
  <2>5. Used(users) = {devs[s].handle : s \in Listed} \cup ({codec} \ {None}) \cup abandoned
    BY <2>2 DEF Owned
  <2>6. minors = {devs[s].minor : s \in Listed}
    <3>1. \A s \in Listed : devs[s].minor \in minors
      <4>1. SUFFICES ASSUME NEW s \in Listed
                     PROVE  devs[s].minor \in minors
        OBVIOUS
      <4>2. devs[s].minor \in Minors /\ nodes[devs[s].minor] = devs[s].id /\ devs[s].id # None
        BY <2>2, TakenFields DEF Shape
      <4>3. QED
        BY <4>2 DEF Shape
    <3>2. \A m \in minors : \E s \in Listed : devs[s].minor = m
      BY <2>2 DEF Shape
    <3>3. QED
      BY <3>1, <3>2
  <2>7. minors = {m \in Minors : nodes[m] # None}
    BY DEF Shape
  <2>8. Cardinality(minors) = Len(list)
    <3>1. PICK g : g = [s \in Listed |-> devs[s].minor]
      OBVIOUS
    <3>2. /\ minors = {g[s] : s \in Listed}
          /\ \A s, t \in Listed : g[s] = g[t] => s = t
      BY <2>2, <2>6, <3>1 DEF Shape
    <3>3. QED
      BY <2>3, <3>2, AsMany
  <2>9. Cardinality(Used(users) \ abandoned) = Len(list) + (IF codec = None THEN 0 ELSE 1)
    <3>1. PICK g : g = [s \in Listed |-> devs[s].handle]
      OBVIOUS
    <3>2. PICK H : H = {g[s] : s \in Listed}
      OBVIOUS
    <3>3. /\ H = {devs[s].handle : s \in Listed}
          /\ \A s, t \in Listed : g[s] = g[t] => s = t
      BY <2>2, <3>1, <3>2 DEF Owned
    <3>4. IsFiniteSet(H) /\ Cardinality(H) = Len(list)
      BY <2>3, <3>2, <3>3, AsMany
    <3>5. codec \notin H
      BY <2>2, <3>3 DEF Owned
    <3>6. codec \notin abandoned /\ \A s \in Listed : devs[s].handle \notin abandoned
      BY <2>2 DEF Owned
    <3>7. Used(users) \ abandoned = H \cup ({codec} \ {None})
      BY <2>5, <3>3, <3>6
    <3>8. CASE codec = None
      <4>1. Used(users) \ abandoned = H
        BY <3>7, <3>8
      <4>2. Len(list) = Len(list) + 0
        BY <2>1, LenProperties
      <4>3. Cardinality(Used(users) \ abandoned) = Len(list)
        BY <3>4, <4>1
      <4>4. QED
        BY <3>8, <4>2, <4>3, Zenon
    <3>9. CASE codec # None
      <4>1. Used(users) \ abandoned = H \cup {codec}
        BY <3>7, <3>9
      <4>2. Cardinality(H \cup {codec}) = Cardinality(H) + 1
        BY <3>4, <3>5, FS_AddElement
      <4>3. QED
        BY <3>4, <3>9, <4>1, <4>2
    <3>10. QED
      BY <3>8, <3>9
  <2>10. QED
    BY <2>2, <2>3, <2>4, <2>5, <2>6, <2>7, <2>8, <2>9 DEF NothingLeaks
<1>2. QED
  BY <1>1, KernelInductive, PTL

=============================================================================
