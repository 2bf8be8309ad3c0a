------------------------------ MODULE TwHostProofs ------------------------------
(***************************************************************************)
(* The host side of the mailbox (TwHost): for every number of threads the  *)
(* registers keep their widths and every call the order of its accesses;   *)
(* and for a device with one user, whatever fails on the bus and whenever  *)
(* the device hangs, a call that succeeds has had its command carried out. *)
(***************************************************************************)
EXTENDS TwHostInv, TLAPS, SequenceTheorems

-----------------------------------------------------------------------------
(* Accesses and sequences of them *)

\* What an access is made of.
LEMMA TaskParts ==
  ASSUME NEW a \in Tasks
  PROVE  /\ a[1] \in Labels
         /\ a[1] \in {"cmd", "result"} => a[2] \in Commands
         /\ a[1] = "notice" => a[2] \in Notices
         /\ a[1] = "mode" => a[2] \in {"boot", "start", "save_cfg"}
         /\ a = <<a[1], a[2]>>
<1>1. CASE \E l \in {"cmd", "result"}, c \in Commands : a = <<l, c>>
  BY <1>1 DEF Labels
<1>2. CASE \E f \in Notices : a = <<"notice", f>>
  BY <1>2 DEF Labels
<1>3. CASE \E m \in {"boot", "start", "save_cfg"} : a = <<"mode", m>>
  BY <1>3 DEF Labels
<1>4. CASE \E l \in Plain : a = <<l, "none">>
  BY <1>4 DEF Labels, Plain
<1>5. QED
  BY <1>1, <1>2, <1>3, <1>4 DEF Tasks

\* The accesses there are.
LEMMA TasksAre ==
  /\ \A c \in Commands : <<"cmd", c>> \in Tasks /\ <<"result", c>> \in Tasks
  /\ \A f \in Notices : <<"notice", f>> \in Tasks
  /\ \A m \in {"boot", "start", "save_cfg"} : <<"mode", m>> \in Tasks
  /\ \A l \in Plain : <<l, "none">> \in Tasks
BY DEF Tasks

LEMMA PairParts == \A a, b : <<a, b>>[1] = a /\ <<a, b>>[2] = b
OBVIOUS

\* An access and what comes behind it.
LEMMA Ahead ==
  ASSUME NEW s \in Seq(Tasks), s # <<>>
  PROVE  /\ Head(s) = s[1] /\ s[1] \in Tasks /\ Len(s) \in Nat /\ Len(s) >= 1
         /\ Tail(s) \in Seq(Tasks) /\ Len(Tail(s)) = Len(s) - 1
         /\ \A i \in 1 .. Len(s) - 1 : Tail(s)[i] = s[i + 1]
         /\ Tail(s) = <<>> <=> Len(s) = 1
<1>1. Len(s) \in Nat /\ Len(s) >= 1
  BY EmptySeq
<1>2. s[1] \in Tasks
  BY <1>1, ElementOfSeq
<1>3. Head(s) = s[1]
  BY DEF Head
<1>4. /\ Tail(s) \in Seq(Tasks) /\ Len(Tail(s)) = Len(s) - 1
      /\ \A i \in 1 .. Len(Tail(s)) : Tail(s)[i] = s[i + 1]
  BY HeadTailProperties
<1>5. Tail(s) = <<>> <=> Len(s) = 1
  <2>1. PICK r : r = Tail(s)
    OBVIOUS
  <2>2. r \in Seq(Tasks) /\ Len(r) = Len(s) - 1
    BY <1>4, <2>1
  <2>3. r = <<>> <=> Len(r) = 0
    BY <2>2, EmptySeq
  <2>4. QED
    BY <1>1, <2>1, <2>2, <2>3
<1>6. QED
  BY <1>1, <1>2, <1>3, <1>4, <1>5

\* The place of an access in a part of a call.
LEMMA Window ==
  ASSUME NEW op, NEW s \in Seq(Tasks), NEW k \in Seq(Tasks), NEW n \in Nat, Len(s) = n + Len(k),
         \A j \in 1 .. Len(k) : s[n + j] = k[j], NEW i \in 1 .. Len(k)
  PROVE  OrderedAt(op, s, n + i) <=> OrderedAt(op, k, i)
<1>1. PICK L : L = Len(k)
  OBVIOUS
<1>2. L \in Nat /\ Len(s) = n + L /\ i \in 1 .. L
  BY <1>1
<1>3. /\ s[n + i] = k[i]
      /\ i + 1 <= L => s[(n + i) + 1] = k[i + 1]
      /\ i + 2 <= L => s[(n + i) + 2] = k[i + 2]
      /\ i + 3 <= L => s[(n + i) + 3] = k[i + 3]
  <2>1. \A d \in {0, 1, 2, 3} : i + d <= L => s[n + (i + d)] = k[i + d]
    BY <1>1, <1>2
  <2>2. n + (i + 1) = (n + i) + 1 /\ n + (i + 2) = (n + i) + 2 /\ n + (i + 3) = (n + i) + 3
        /\ i + 0 = i
    BY <1>2
  <2>3. QED
    BY <1>2, <2>1, <2>2
<1>4. /\ n + i = Len(s) <=> i = Len(k)
      /\ \A d \in {1, 2, 3} : ((n + i) + d <= Len(s) <=> i + d <= Len(k))
                               /\ ((n + i) + d = Len(s) <=> i + d = Len(k))
  <2>1. n + i = n + L <=> i = L
    BY <1>2
  <2>2. \A d \in Nat : ((n + i) + d <= n + L <=> i + d <= L) /\ ((n + i) + d = n + L <=> i + d = L)
    BY <1>2
  <2>3. QED
    BY <1>1, <1>2, <2>1, <2>2
<1>5. i # Len(k) => s[(n + i) + 1] = k[i + 1]
  BY <1>1, <1>2, <1>3
<1>6. s[n + i][1] = "cmd" => (CommandAt(op, s, n + i) <=> CommandAt(op, k, i))
  <2>1. (n + i) + 3 <= Len(s) => s[(n + i) + 2] = k[i + 2] /\ s[(n + i) + 3] = k[i + 3]
    BY <1>1, <1>2, <1>3
  <2>2. (n + i) + 2 = Len(s) => s[(n + i) + 2] = k[i + 2]
    BY <1>1, <1>2, <1>3
  <2>3. QED
    BY <1>3, <1>4, <2>1, <2>2 DEF CommandAt
<1>7. (n + i) + 2 <= Len(s) => s[(n + i) + 1] = k[i + 1] /\ s[(n + i) + 2] = k[i + 2]
  BY <1>1, <1>2, <1>3
<1>8. (IF n + i = Len(s) THEN Ends(op, s[n + i][1]) ELSE Follows(op, s[n + i][1], s[n + i + 1][1]))
      <=> (IF i = Len(k) THEN Ends(op, k[i][1]) ELSE Follows(op, k[i][1], k[i + 1][1]))
  BY <1>3, <1>4, <1>5
<1>9. ((n + i + 1 <= Len(s) /\ s[n + i + 1][1] = "cmd") =>
         IF Unwaited(op, s[n + i + 1][2])
         THEN s[n + i] = <<"result", "FLASH_INIT">> /\ s[n + i + 1][2] = "IMG_CFG_SAVE"
         ELSE s[n + i][1] = "mbox")
      <=> ((i + 1 <= Len(k) /\ k[i + 1][1] = "cmd") =>
             IF Unwaited(op, k[i + 1][2])
             THEN k[i] = <<"result", "FLASH_INIT">> /\ k[i + 1][2] = "IMG_CFG_SAVE"
             ELSE k[i][1] = "mbox")
  <2>1. n + i + 1 = (n + i) + 1 /\ (n + i + 1 <= Len(s) <=> i + 1 <= Len(k))
    BY <1>1, <1>2
  <2>2. i + 1 <= Len(k) => s[n + i + 1] = k[i + 1]
    BY <1>1, <1>3, <2>1
  <2>3. QED
    BY <1>3, <2>1, <2>2
<1>10. ((n + i + 2 <= Len(s) /\ s[n + i + 1][1] = "mbox" /\ NeedsParam(s[n + i + 2]))
          => s[n + i][1] = "param")
       <=> ((i + 2 <= Len(k) /\ k[i + 1][1] = "mbox" /\ NeedsParam(k[i + 2])) => k[i][1] = "param")
  BY <1>3, <1>4, <1>7
<1>11. /\ (s[n + i] = <<"mode", "save_cfg">> => op = "save_cfg" /\ n + i = Len(s))
          <=> (k[i] = <<"mode", "save_cfg">> => op = "save_cfg" /\ i = Len(k))
       /\ s[n + i] = k[i]
  BY <1>3, <1>4
<1>12. QED
  BY <1>6, <1>8, <1>9, <1>10, <1>11, ZenonT(60) DEF OrderedAt

\* What is left of a call is in order.
LEMMA TailOrdered ==
  ASSUME NEW op, NEW s \in Seq(Tasks), s # <<>>, Ordered(op, s)
  PROVE  /\ Tail(s) \in Seq(Tasks) /\ Ordered(op, Tail(s))
         /\ \A i \in 1 .. Len(Tail(s)) : Tail(s)[i][1] \in {"mode", "reset"} =>
              Tail(s)[i] = <<"mode", "save_cfg">>
<1>1. PICK k, L : k = Tail(s) /\ L = Len(k)
  OBVIOUS
<1>2. k \in Seq(Tasks) /\ L \in Nat /\ Len(s) = 1 + L /\ \A i \in 1 .. L : s[1 + i] = k[i]
  <2>1. L = Len(s) - 1 /\ Len(s) \in Nat /\ Len(s) >= 1
    BY <1>1, Ahead
  <2>2. \A i \in 1 .. L : k[i] = s[i + 1] /\ 1 + i = i + 1
    BY <1>1, <2>1, Ahead
  <2>3. QED
    BY <1>1, <2>1, <2>2, Ahead
<1>3. \A i \in 1 .. L : 1 + i \in 1 .. Len(s) /\ 1 + i \in 2 .. Len(s)
  BY <1>2
<1>4. \A i \in 1 .. L : OrderedAt(op, k, i)
  <2>1. \A i \in 1 .. L : OrderedAt(op, s, 1 + i)
    BY <1>3 DEF Ordered
  <2>2. \A i \in 1 .. L : OrderedAt(op, s, 1 + i) <=> OrderedAt(op, k, i)
    BY <1>1, <1>2, Window
  <2>3. QED
    BY <2>1, <2>2
<1>5. \A i \in 1 .. L : k[i][1] \in {"mode", "reset"} => k[i] = <<"mode", "save_cfg">>
  BY <1>2, <1>3 DEF Ordered, BootsFirst
<1>6. BootsFirst(k)
  BY <1>1, <1>2, <1>5 DEF BootsFirst
<1>7. QED
  BY <1>1, <1>2, <1>4, <1>5, <1>6 DEF Ordered

\* An access in front of a sequence of them.
LEMMA Front ==
  ASSUME NEW a \in Tasks, NEW k \in Seq(Tasks)
  PROVE  /\ <<a>> \o k \in Seq(Tasks) /\ Len(<<a>> \o k) = 1 + Len(k) /\ (<<a>> \o k)[1] = a
         /\ \A i \in 1 .. Len(k) : (<<a>> \o k)[1 + i] = k[i]
         /\ <<a>> \o k # <<>>
<1>1. PICK b : b = <<a>>
  OBVIOUS
<1>2. b \in Seq(Tasks) /\ Len(b) = 1 /\ b[1] = a
  BY <1>1
<1>3. PICK s, L : s = b \o k /\ L = Len(k)
  OBVIOUS
<1>4. L \in Nat
  BY <1>3
<1>5. /\ s \in Seq(Tasks) /\ Len(s) = 1 + L
      /\ \A i \in 1 .. 1 + L : s[i] = IF i <= 1 THEN b[i] ELSE k[i - 1]
  <2>1. /\ s \in Seq(Tasks) /\ Len(s) = Len(b) + Len(k)
        /\ \A i \in 1 .. Len(b) + Len(k) : s[i] = IF i <= Len(b) THEN b[i] ELSE k[i - Len(b)]
    BY <1>2, <1>3, ConcatProperties
  <2>2. QED
    BY <1>2, <1>3, <2>1
<1>6. s[1] = a
  BY <1>2, <1>4, <1>5
<1>7. \A i \in 1 .. L : s[1 + i] = k[i]
  <2>1. SUFFICES ASSUME NEW i \in 1 .. L
                 PROVE  s[1 + i] = k[i]
    OBVIOUS
  <2>2. 1 + i \in 1 .. 1 + L /\ ~(1 + i <= 1) /\ (1 + i) - 1 = i
    BY <1>4
  <2>3. QED
    BY <1>5, <2>2
<1>8. s # <<>>
  BY <1>4, <1>5, EmptySeq
<1>9. QED
  BY <1>1, <1>3, <1>5, <1>6, <1>7, <1>8

LEMMA FrontOrdered ==
  ASSUME NEW op, NEW a \in Tasks, NEW k \in Seq(Tasks), Ordered(op, k), a[1] # "cmd",
         IF k = <<>> THEN Ends(op, a[1]) ELSE Follows(op, a[1], k[1][1]),
         Len(k) >= 2 /\ k[1][1] = "mbox" /\ NeedsParam(k[2]) => a[1] = "param",
         k # <<>> /\ k[1][1] \in {"mode", "reset"} => k[1] = <<"mode", "save_cfg">>,
         a = <<"mode", "save_cfg">> => op = "save_cfg" /\ k = <<>>,
         op = "save_cfg" /\ a[1] = "mode" => a[2] = "save_cfg",
         k # <<>> => k[1][1] # "cmd"
  PROVE  Ordered(op, <<a>> \o k)
<1>1. PICK s, L : s = <<a>> \o k /\ L = Len(k)
  OBVIOUS
<1>2. /\ L \in Nat /\ s \in Seq(Tasks) /\ Len(s) = 1 + L /\ s[1] = a
      /\ \A i \in 1 .. L : s[1 + i] = k[i]
  BY <1>1, Front
<1>3. k = <<>> <=> L = 0
  BY <1>1, EmptySeq
<1>4. OrderedAt(op, s, 1)
  <2>1. L >= 1 => s[1 + 1] = k[1]
    BY <1>2
  <2>2. L >= 2 => s[1 + 2] = k[2]
    BY <1>2
  <2>3. IF 1 = Len(s) THEN Ends(op, s[1][1]) ELSE Follows(op, s[1][1], s[1 + 1][1])
    BY <1>2, <1>3, <2>1
  <2>4. (1 + 2 <= Len(s) /\ s[1 + 1][1] = "mbox" /\ NeedsParam(s[1 + 2])) => s[1][1] = "param"
    BY <1>1, <1>2, <2>1, <2>2
  <2>5. s[1] = <<"mode", "save_cfg">> => op = "save_cfg" /\ 1 = Len(s)
    BY <1>2, <1>3
  <2>6. ~(1 + 1 <= Len(s) /\ s[1 + 1][1] = "cmd")
    BY <1>2, <1>3, <2>1
  <2>7. QED
    BY <1>2, <2>3, <2>4, <2>5, <2>6 DEF OrderedAt
<1>5. \A i \in 1 .. L : OrderedAt(op, s, 1 + i)
  <2>1. \A i \in 1 .. L : OrderedAt(op, s, 1 + i) <=> OrderedAt(op, k, i)
    BY <1>1, <1>2, Window, ZenonT(60)
  <2>2. QED
    BY <1>1, <2>1 DEF Ordered
<1>6. \A i \in 1 .. L : k[i][1] \in {"mode", "reset"} => k[i] = <<"mode", "save_cfg">>
  <2>1. \A i \in 2 .. L : k[i][1] \in {"mode", "reset"} => k[i] = <<"mode", "save_cfg">>
    BY <1>1 DEF Ordered, BootsFirst
  <2>2. \A i \in 1 .. L : i = 1 \/ i \in 2 .. L
    BY <1>2
  <2>3. QED
    BY <1>2, <1>3, <2>1, <2>2
<1>7. \A i \in 1 .. Len(s) : i = 1 \/ \E j \in 1 .. L : i = 1 + j
  <2>1. \A i \in 1 .. Len(s) : i = 1 \/ (i - 1 \in 1 .. L /\ i = 1 + (i - 1))
    BY <1>2
  <2>2. QED
    BY <2>1
<1>8. BootsFirst(s)
  <2>1. \A i \in 2 .. Len(s) : i - 1 \in 1 .. L /\ i = 1 + (i - 1)
    BY <1>2
  <2>2. QED
    BY <1>2, <1>6, <2>1 DEF BootsFirst
<1>9. QED
  BY <1>1, <1>4, <1>5, <1>7, <1>8 DEF Ordered

\* A command in front of a sequence of accesses.
LEMMA CommandParts ==
  ASSUME NEW c \in Commands
  PROVE  /\ Command(c) \in Seq(Tasks) /\ Len(Command(c)) = 5
         /\ Command(c)[1] = <<"mbox", "none">> /\ Command(c)[2] = <<"cmd", c>>
         /\ Command(c)[3] = <<"notice", "HOST_CMD">> /\ Command(c)[4] = <<"wait", "none">>
         /\ Command(c)[5] = <<"result", c>>
<1>1. /\ <<"mbox", "none">> \in Tasks /\ <<"cmd", c>> \in Tasks
      /\ <<"notice", "HOST_CMD">> \in Tasks /\ <<"wait", "none">> \in Tasks
      /\ <<"result", c>> \in Tasks
  BY TasksAre DEF Plain, Notices
<1>2. PICK m, n, o, w, r : /\ m = <<"mbox", "none">> /\ n = <<"cmd", c>>
                           /\ o = <<"notice", "HOST_CMD">> /\ w = <<"wait", "none">>
                           /\ r = <<"result", c>>
  OBVIOUS
<1>3. m \in Tasks /\ n \in Tasks /\ o \in Tasks /\ w \in Tasks /\ r \in Tasks
  BY <1>1, <1>2
<1>4. PICK a, b : a = <<m, n, o, w>> /\ b = <<r>>
  OBVIOUS
<1>5. /\ a \in Seq(Tasks) /\ b \in Seq(Tasks) /\ Len(a) = 4 /\ Len(b) = 1
      /\ a[1] = m /\ a[2] = n /\ a[3] = o /\ a[4] = w /\ b[1] = r
  BY <1>3, <1>4
<1>6. PICK s : s = a \o b
  OBVIOUS
<1>7. /\ s \in Seq(Tasks) /\ Len(s) = Len(a) + Len(b)
      /\ \A i \in 1 .. Len(a) + Len(b) : s[i] = IF i <= Len(a) THEN a[i] ELSE b[i - Len(a)]
  BY <1>5, <1>6, ConcatProperties
<1>8. /\ s \in Seq(Tasks) /\ Len(s) = 5
      /\ s[1] = m /\ s[2] = n /\ s[3] = o /\ s[4] = w /\ s[5] = r
  BY <1>5, <1>7
<1>9. Command(c) = s
  BY <1>2, <1>4, <1>6 DEF Command, WrCmd
<1>10. QED
  BY <1>2, <1>8, <1>9

\* The same, and what comes behind it.
LEMMA CommandThen ==
  ASSUME NEW c \in Commands, NEW k \in Seq(Tasks)
  PROVE  /\ Command(c) \o k \in Seq(Tasks) /\ Len(Command(c) \o k) = 5 + Len(k)
         /\ (Command(c) \o k)[1] = <<"mbox", "none">> /\ (Command(c) \o k)[2] = <<"cmd", c>>
         /\ (Command(c) \o k)[3] = <<"notice", "HOST_CMD">>
         /\ (Command(c) \o k)[4] = <<"wait", "none">>
         /\ (Command(c) \o k)[5] = <<"result", c>>
         /\ \A i \in 1 .. Len(k) : (Command(c) \o k)[5 + i] = k[i]
<1>1. PICK a, L : a = Command(c) /\ L = Len(k)
  OBVIOUS
<1>2. /\ a \in Seq(Tasks) /\ Len(a) = 5 /\ L \in Nat
      /\ a[1] = <<"mbox", "none">> /\ a[2] = <<"cmd", c>>
      /\ a[3] = <<"notice", "HOST_CMD">> /\ a[4] = <<"wait", "none">> /\ a[5] = <<"result", c>>
  BY <1>1, CommandParts
<1>3. PICK s : s = a \o k
  OBVIOUS
<1>4. /\ s \in Seq(Tasks) /\ Len(s) = Len(a) + Len(k)
      /\ \A i \in 1 .. Len(a) + Len(k) : s[i] = IF i <= Len(a) THEN a[i] ELSE k[i - Len(a)]
  BY <1>2, <1>3, ConcatProperties
<1>5. Len(s) = 5 + L /\ \A i \in 1 .. 5 + L : s[i] = IF i <= 5 THEN a[i] ELSE k[i - 5]
  BY <1>1, <1>2, <1>4
<1>6. s[1] = a[1] /\ s[2] = a[2] /\ s[3] = a[3] /\ s[4] = a[4] /\ s[5] = a[5]
  BY <1>2, <1>5
<1>7. \A i \in 1 .. L : s[5 + i] = k[i]
  <2>1. SUFFICES ASSUME NEW i \in 1 .. L
                 PROVE  s[5 + i] = k[i]
    OBVIOUS
  <2>2. 5 + i \in 1 .. 5 + L /\ ~(5 + i <= 5) /\ (5 + i) - 5 = i
    BY <1>2
  <2>3. QED
    BY <1>5, <2>2
<1>8. QED
  BY <1>1, <1>2, <1>3, <1>4, <1>5, <1>6, <1>7

LEMMA CommandOrdered ==
  ASSUME NEW op, NEW c \in Commands, ~Unwaited(op, c), NEW k \in Seq(Tasks), Ordered(op, k),
         k # <<>> => Follows(op, "result", k[1][1]),
         k # <<>> /\ k[1][1] = "cmd" => /\ c = "FLASH_INIT" /\ Unwaited(op, k[1][2])
                                       /\ k[1][2] = "IMG_CFG_SAVE"
  PROVE  Ordered(op, Command(c) \o k)
<1>1. PICK s, L : s = Command(c) \o k /\ L = Len(k)
  OBVIOUS
<1>2. /\ s \in Seq(Tasks) /\ Len(s) = 5 + L /\ L \in Nat
      /\ s[1] = <<"mbox", "none">> /\ s[2] = <<"cmd", c>> /\ s[3] = <<"notice", "HOST_CMD">>
      /\ s[4] = <<"wait", "none">> /\ s[5] = <<"result", c>>
      /\ \A i \in 1 .. L : s[5 + i] = k[i]
  <2>1. L \in Nat
    BY <1>1
  <2>2. /\ s \in Seq(Tasks) /\ Len(s) = 5 + Len(k)
        /\ \A i \in 1 .. Len(k) : s[5 + i] = k[i]
    BY <1>1, CommandThen
  <2>3. /\ s[1] = <<"mbox", "none">> /\ s[2] = <<"cmd", c>> /\ s[3] = <<"notice", "HOST_CMD">>
        /\ s[4] = <<"wait", "none">> /\ s[5] = <<"result", c>>
    BY <1>1, CommandThen
  <2>4. QED
    BY <1>1, <2>1, <2>2, <2>3
<1>3. /\ s[1][1] = "mbox" /\ s[2][1] = "cmd" /\ s[3][1] = "notice" /\ s[4][1] = "wait"
      /\ s[5][1] = "result" /\ s[2][2] = c
  BY <1>2
<1>4. k = <<>> <=> L = 0
  BY <1>1, EmptySeq
<1>5. L >= 1 => s[6] = k[1] /\ k[1][1] \notin {"mbox", "mode", "reset"}
  <2>1. L >= 1 => s[5 + 1] = k[1]
    BY <1>2
  <2>2. L >= 1 => k[1][1] \notin {"mbox", "mode", "reset"}
    BY <1>4 DEF Follows
  <2>3. QED
    BY <2>1, <2>2
<1>6. OrderedAt(op, s, 1)
  BY <1>2, <1>3 DEF OrderedAt, Follows
<1>7. OrderedAt(op, s, 2)
  <2>1. CommandAt(op, s, 2)
    BY <1>2, <1>3 DEF CommandAt
  <2>2. QED
    BY <1>2, <1>3, <2>1 DEF OrderedAt, Follows
<1>8. OrderedAt(op, s, 3)
  BY <1>2, <1>3 DEF OrderedAt, Follows
<1>9. OrderedAt(op, s, 4)
  BY <1>2, <1>3, <1>5 DEF OrderedAt, Follows
<1>10. OrderedAt(op, s, 5)
  <2>1. (5 + 1 <= Len(s) /\ s[5 + 1][1] = "cmd") =>
          /\ s[5] = <<"result", "FLASH_INIT">> /\ Unwaited(op, s[5 + 1][2])
          /\ s[5 + 1][2] = "IMG_CFG_SAVE"
    BY <1>2, <1>4, <1>5
  <2>2. QED
    BY <1>2, <1>3, <1>4, <1>5, <2>1 DEF OrderedAt, Ends
<1>11. \A i \in 1 .. L : OrderedAt(op, s, 5 + i)
  <2>1. \A i \in 1 .. L : OrderedAt(op, s, 5 + i) <=> OrderedAt(op, k, i)
    <3>0. PICK n : n = 5
      OBVIOUS
    <3>1. n \in Nat /\ Len(s) = n + Len(k) /\ \A j \in 1 .. Len(k) : s[n + j] = k[j]
      BY <1>1, <1>2, <3>0
    <3>2. s \in Seq(Tasks)
      BY <1>2
    <3>3. \A i \in 1 .. Len(k) : OrderedAt(op, s, n + i) <=> OrderedAt(op, k, i)
      BY <3>1, <3>2, Window
    <3>4. QED
      BY <1>1, <3>0, <3>3
  <2>2. QED
    BY <1>1, <2>1 DEF Ordered
<1>12. \A i \in 1 .. L : k[i][1] \in {"mode", "reset"} => k[i] = <<"mode", "save_cfg">>
  <2>1. \A i \in 2 .. L : k[i][1] \in {"mode", "reset"} => k[i] = <<"mode", "save_cfg">>
    BY <1>1 DEF Ordered, BootsFirst
  <2>2. \A i \in 1 .. L : i = 1 \/ i \in 2 .. L
    BY <1>2
  <2>3. QED
    BY <1>2, <1>5, <2>1, <2>2
<1>13. \A i \in 1 .. Len(s) : i \in {1, 2, 3, 4, 5} \/ \E j \in 1 .. L : i = 5 + j
  <2>1. \A i \in 1 .. Len(s) : i \in {1, 2, 3, 4, 5} \/ (i - 5 \in 1 .. L /\ i = 5 + (i - 5))
    BY <1>2
  <2>2. QED
    BY <2>1
<1>14. BootsFirst(s)
  <2>1. SUFFICES ASSUME NEW i \in 2 .. Len(s), s[i][1] \in {"mode", "reset"}
                 PROVE  s[i] = <<"mode", "save_cfg">>
    BY DEF BootsFirst
  <2>2. i \in 1 .. Len(s) /\ i # 1
    BY <1>2
  <2>3. i \notin {2, 3, 4, 5}
    BY <1>3, <2>1
  <2>4. PICK j \in 1 .. L : i = 5 + j
    BY <1>13, <2>2, <2>3
  <2>5. QED
    BY <1>2, <1>12, <2>1, <2>4
<1>15. \A i \in 1 .. Len(s) : OrderedAt(op, s, i)
  BY <1>6, <1>7, <1>8, <1>9, <1>10, <1>11, <1>13
<1>16. QED
  BY <1>1, <1>14, <1>15 DEF Ordered

-----------------------------------------------------------------------------
(* The calls *)

Has(s, a) == \E i \in 1 .. Len(s) : s[i] = a

LEMMA FrontHas ==
  ASSUME NEW a \in Tasks, NEW k \in Seq(Tasks), NEW b, Has(k, b)
  PROVE  Has(<<a>> \o k, b)
<1>1. PICK s, L : s = <<a>> \o k /\ L = Len(k)
  OBVIOUS
<1>2. L \in Nat /\ Len(s) = 1 + L /\ \A i \in 1 .. L : s[1 + i] = k[i]
  BY <1>1, Front
<1>3. PICK i \in 1 .. L : k[i] = b
  BY <1>1 DEF Has
<1>4. 1 + i \in 1 .. Len(s) /\ s[1 + i] = b
  BY <1>2, <1>3
<1>5. QED
  BY <1>1, <1>4 DEF Has

LEMMA CommandHas ==
  ASSUME NEW c \in Commands, NEW k \in Seq(Tasks)
  PROVE  /\ Has(Command(c) \o k, <<"result", c>>)
         /\ \A b : Has(k, b) => Has(Command(c) \o k, b)
<1>1. PICK s, L : s = Command(c) \o k /\ L = Len(k)
  OBVIOUS
<1>2. Len(s) = 5 + L /\ s[5] = <<"result", c>>
  BY <1>1, CommandThen
<1>3. \A i \in 1 .. L : s[5 + i] = k[i]
  BY <1>1, CommandThen
<1>4. L \in Nat
  BY <1>1
<1>5. Has(s, <<"result", c>>)
  <2>1. 5 \in 1 .. Len(s)
    BY <1>2, <1>4
  <2>2. QED
    BY <1>2, <2>1 DEF Has
<1>6. ASSUME NEW b, Has(k, b)
      PROVE  Has(s, b)
  <2>1. PICK i \in 1 .. L : k[i] = b
    BY <1>1, <1>6 DEF Has
  <2>2. 5 + i \in 1 .. Len(s) /\ s[5 + i] = b
    BY <1>2, <1>3, <1>4, <2>1
  <2>3. QED
    BY <2>2 DEF Has
<1>7. QED
  BY <1>1, <1>5, <1>6

\* How a call begins.
Opens(op, s) ==
  /\ s \in Seq(Tasks) /\ s # <<>> /\ Ordered(op, s)
  /\ s[1][1] \in {"mbox", "mode", "data", "count", "access", "por"}
  /\ s[1][1] = "mbox" => ~NeedsParam(s[2])
  /\ s[1][1] = "data" => op # "boot_write"
  /\ s[1][1] = "mode" => op # "save_cfg"

LEMMA NothingOrdered == ASSUME NEW op PROVE <<>> \in Seq(Tasks) /\ Ordered(op, <<>>)
<1>1. Len(<<>>) = 0 /\ <<>> \in Seq(Tasks)
  BY EmptySeq
<1>2. QED
  BY <1>1 DEF Ordered, BootsFirst

\* A command and nothing behind it.
LEMMA CommandOnly ==
  ASSUME NEW op, NEW c \in Commands, ~Unwaited(op, c)
  PROVE  /\ Ordered(op, Command(c)) /\ Command(c) # <<>> /\ Has(Command(c), <<"result", c>>)
<1>1. Command(c) \o <<>> = Command(c)
  BY CommandParts, ConcatEmptySeq
<1>2. Ordered(op, Command(c) \o <<>>)
  BY NothingOrdered, CommandOrdered
<1>3. Has(Command(c) \o <<>>, <<"result", c>>)
  BY NothingOrdered, CommandHas
<1>4. Command(c) # <<>>
  BY CommandParts, EmptySeq
<1>5. QED
  BY <1>1, <1>2, <1>3, <1>4

\* Single accesses.
LEMMA Singles ==
  ASSUME NEW a \in Tasks
  PROVE  <<a>> \in Seq(Tasks) /\ Len(<<a>>) = 1 /\ <<a>>[1] = a /\ <<a>> # <<>>
OBVIOUS

LEMMA SingleOrdered ==
  ASSUME NEW op, NEW a \in Tasks, a[1] \in {"access", "data", "por"}
  PROVE  Ordered(op, <<a>>)
<1>1. PICK s : s = <<a>>
  OBVIOUS
<1>2. Len(s) = 1 /\ s[1] = a
  BY <1>1, Singles
<1>3. a # <<"mode", "save_cfg">>
  BY PairParts
<1>4. OrderedAt(op, s, 1)
  BY <1>2, <1>3 DEF OrderedAt, Ends
<1>5. BootsFirst(s)
  BY <1>2 DEF BootsFirst
<1>6. QED
  BY <1>1, <1>2, <1>4, <1>5 DEF Ordered

LEMMA LoadEraseOpens ==
  ASSUME NEW op, op # "save_cfg", NEW c \in OwnParam
  PROVE  Opens(op, LoadErase(c)) /\ Has(LoadErase(c), <<"result", c>>)
<1>1. c \in Commands /\ "FLASH_INIT" \in Commands /\ \A x : ~Unwaited(op, x)
  BY DEF Commands, Unwaited, WithParam, OwnParam
<1>2. PICK k : k = Command(c)
  OBVIOUS
<1>3. /\ k \in Seq(Tasks) /\ k # <<>> /\ Ordered(op, k) /\ Len(k) >= 2 /\ Has(k, <<"result", c>>)
      /\ k[1] = <<"mbox", "none">> /\ k[2] = <<"cmd", c>>
  <2>1. /\ k \in Seq(Tasks) /\ Len(k) = 5 /\ k[1] = <<"mbox", "none">> /\ k[2] = <<"cmd", c>>
    BY <1>1, <1>2, CommandParts
  <2>2. k # <<>> /\ Ordered(op, k) /\ Has(k, <<"result", c>>)
    BY <1>1, <1>2, CommandOnly
  <2>3. QED
    BY <2>1, <2>2
<1>4. PICK a, b : a = <<"param", "none">> /\ b = <<"mode", "boot">>
  OBVIOUS
<1>5. /\ a \in Tasks /\ b \in Tasks /\ a[1] = "param" /\ b[1] = "mode" /\ b[2] = "boot"
      /\ a # <<"mode", "save_cfg">> /\ b # <<"mode", "save_cfg">>
  BY <1>4, TasksAre DEF Plain
<1>6. PICK l : l = <<a>> \o k
  OBVIOUS
<1>7. /\ l \in Seq(Tasks) /\ l # <<>> /\ l[1] = a /\ Ordered(op, l) /\ Has(l, <<"result", c>>)
  <2>1. k[1][1] = "mbox"
    BY <1>3
  <2>2. Follows(op, a[1], k[1][1])
    BY <1>5, <2>1 DEF Follows
  <2>3. Ordered(op, l)
    BY <1>3, <1>5, <1>6, <2>1, <2>2, FrontOrdered
  <2>4. QED
    BY <1>3, <1>5, <1>6, <2>3, Front, FrontHas
<1>8. PICK m : m = InitFlash \o l
  OBVIOUS
<1>9. /\ m \in Seq(Tasks) /\ m # <<>> /\ Ordered(op, m) /\ Has(m, <<"result", c>>)
      /\ m[1] = <<"mbox", "none">> /\ m[2] = <<"cmd", "FLASH_INIT">>
  <2>1. Follows(op, "result", l[1][1]) /\ l[1][1] # "cmd"
    BY <1>5, <1>7 DEF Follows
  <2>2. Ordered(op, m)
    BY <1>1, <1>7, <1>8, <2>1, CommandOrdered DEF InitFlash
  <2>3. Has(m, <<"result", c>>)
    BY <1>1, <1>7, <1>8, CommandHas DEF InitFlash
  <2>4. /\ m \in Seq(Tasks) /\ Len(m) = 5 + Len(l)
        /\ m[1] = <<"mbox", "none">> /\ m[2] = <<"cmd", "FLASH_INIT">>
    BY <1>1, <1>7, <1>8, CommandThen DEF InitFlash
  <2>5. m # <<>>
    BY <1>7, <2>4, EmptySeq
  <2>6. QED
    BY <2>2, <2>3, <2>4, <2>5
<1>10. PICK s : s = <<b>> \o m
  OBVIOUS
<1>11. /\ s \in Seq(Tasks) /\ s # <<>> /\ s[1] = b /\ Ordered(op, s) /\ Has(s, <<"result", c>>)
  <2>1. m[1][1] = "mbox" /\ m[2][1] = "cmd" /\ m[2][2] = "FLASH_INIT"
    BY <1>9
  <2>2. ~NeedsParam(m[2])
    BY <2>1 DEF NeedsParam, OwnParam, WithParam
  <2>3. Follows(op, b[1], m[1][1])
    BY <1>5, <2>1 DEF Follows
  <2>4. Ordered(op, s)
    BY <1>5, <1>9, <1>10, <2>1, <2>2, <2>3, FrontOrdered
  <2>5. QED
    BY <1>5, <1>9, <1>10, <2>4, Front, FrontHas
<1>12. LoadErase(c) = s
  BY <1>2, <1>4, <1>6, <1>8, <1>10 DEF LoadErase, ToBoot
<1>13. QED
  BY <1>5, <1>11, <1>12 DEF Opens

LEMMA SaveOpens == Opens("save", Save) /\ Has(Save, <<"result", "IMG_CFG_SAVE">>)
<1>1. /\ "IMG_CFG_SAVE" \in Commands /\ "FLASH_INIT" \in Commands
      /\ \A x : ~Unwaited("save", x)
  BY DEF Commands, Unwaited, WithParam
<1>2. PICK a, b : a = <<"access", "none">> /\ b = <<"mode", "boot">>
  OBVIOUS
<1>3. /\ a \in Tasks /\ b \in Tasks /\ a[1] = "access" /\ b[1] = "mode" /\ b[2] = "boot"
      /\ a # <<"mode", "save_cfg">> /\ b # <<"mode", "save_cfg">>
  BY <1>2, TasksAre DEF Plain
<1>4. PICK e : e = <<a>>
  OBVIOUS
<1>5. e \in Seq(Tasks) /\ e # <<>> /\ e[1] = a /\ Ordered("save", e)
  BY <1>3, <1>4, Singles, SingleOrdered
<1>6. PICK k : k = Command("IMG_CFG_SAVE") \o e
  OBVIOUS
<1>7. /\ k \in Seq(Tasks) /\ Len(k) = 5 + Len(e)
      /\ k[1] = <<"mbox", "none">> /\ k[2] = <<"cmd", "IMG_CFG_SAVE">>
  BY <1>1, <1>5, <1>6, CommandThen
<1>8. k # <<>> /\ Ordered("save", k) /\ Has(k, <<"result", "IMG_CFG_SAVE">>)
  <2>1. Follows("save", "result", e[1][1]) /\ e[1][1] # "cmd"
    BY <1>3, <1>5 DEF Follows
  <2>2. Ordered("save", k)
    BY <1>1, <1>5, <1>6, <2>1, CommandOrdered
  <2>3. Has(k, <<"result", "IMG_CFG_SAVE">>)
    BY <1>1, <1>5, <1>6, CommandHas
  <2>4. k # <<>>
    BY <1>5, <1>7, EmptySeq
  <2>5. QED
    BY <2>2, <2>3, <2>4
<1>9. PICK l : l = <<a>> \o k
  OBVIOUS
<1>10. l \in Seq(Tasks) /\ l # <<>> /\ l[1] = a /\ Ordered("save", l)
        /\ Has(l, <<"result", "IMG_CFG_SAVE">>)
  <2>1. k[1][1] = "mbox" /\ k[2][1] = "cmd" /\ k[2][2] = "IMG_CFG_SAVE"
    BY <1>7
  <2>2. ~NeedsParam(k[2])
    BY <2>1 DEF NeedsParam, OwnParam, WithParam
  <2>3. Follows("save", a[1], k[1][1])
    BY <1>3, <2>1 DEF Follows
  <2>4. Ordered("save", l)
    BY <1>3, <1>7, <1>8, <1>9, <2>1, <2>2, <2>3, FrontOrdered
  <2>5. QED
    BY <1>3, <1>7, <1>8, <1>9, <2>4, Front, FrontHas
<1>11. PICK m : m = InitFlash \o l
  OBVIOUS
<1>12. /\ m \in Seq(Tasks) /\ m # <<>> /\ Ordered("save", m)
       /\ Has(m, <<"result", "IMG_CFG_SAVE">>)
       /\ m[1] = <<"mbox", "none">> /\ m[2] = <<"cmd", "FLASH_INIT">>
  <2>1. Follows("save", "result", l[1][1]) /\ l[1][1] # "cmd"
    BY <1>3, <1>10 DEF Follows
  <2>2. Ordered("save", m)
    BY <1>1, <1>10, <1>11, <2>1, CommandOrdered DEF InitFlash
  <2>3. Has(m, <<"result", "IMG_CFG_SAVE">>)
    BY <1>1, <1>10, <1>11, CommandHas DEF InitFlash
  <2>4. /\ m \in Seq(Tasks) /\ Len(m) = 5 + Len(l)
        /\ m[1] = <<"mbox", "none">> /\ m[2] = <<"cmd", "FLASH_INIT">>
    BY <1>1, <1>10, <1>11, CommandThen DEF InitFlash
  <2>5. m # <<>>
    BY <1>10, <2>4, EmptySeq
  <2>6. QED
    BY <2>2, <2>3, <2>4, <2>5
<1>13. PICK s : s = <<b>> \o m
  OBVIOUS
<1>14. /\ s \in Seq(Tasks) /\ s # <<>> /\ s[1] = b /\ Ordered("save", s)
       /\ Has(s, <<"result", "IMG_CFG_SAVE">>)
  <2>1. m[1][1] = "mbox" /\ m[2][1] = "cmd" /\ m[2][2] = "FLASH_INIT"
    BY <1>12
  <2>2. ~NeedsParam(m[2])
    BY <2>1 DEF NeedsParam, OwnParam, WithParam
  <2>3. Follows("save", b[1], m[1][1])
    BY <1>3, <2>1 DEF Follows
  <2>4. Ordered("save", s)
    BY <1>3, <1>12, <1>13, <2>1, <2>2, <2>3, FrontOrdered
  <2>5. QED
    BY <1>3, <1>12, <1>13, <2>4, Front, FrontHas
<1>15. Save = s
  BY <1>2, <1>4, <1>6, <1>9, <1>11, <1>13 DEF Save, ToBoot
<1>16. QED
  BY <1>3, <1>14, <1>15 DEF Opens

LEMMA StartOpens == Opens("start", Start) /\ Has(Start, <<"result", "FWR_GO">>)
<1>1. "FWR_GO" \in Commands /\ \A x : ~Unwaited("start", x)
  BY DEF Commands, Unwaited, WithParam
<1>2. PICK k, b : k = Command("FWR_GO") /\ b = <<"mode", "start">>
  OBVIOUS
<1>3. /\ b \in Tasks /\ b[1] = "mode" /\ b[2] = "start" /\ b # <<"mode", "save_cfg">>
  BY <1>2, TasksAre
<1>4. /\ k \in Seq(Tasks) /\ Len(k) = 5 /\ k[1] = <<"mbox", "none">> /\ k[2] = <<"cmd", "FWR_GO">>
  BY <1>1, <1>2, CommandParts
<1>5. k # <<>> /\ Ordered("start", k) /\ Has(k, <<"result", "FWR_GO">>)
  BY <1>1, <1>2, CommandOnly
<1>6. k[1][1] = "mbox" /\ k[2][1] = "cmd" /\ k[2][2] = "FWR_GO"
  BY <1>4
<1>7. ~NeedsParam(k[2]) /\ Follows("start", b[1], k[1][1])
  BY <1>3, <1>6 DEF NeedsParam, OwnParam, WithParam, Follows
<1>8. PICK s : s = <<b>> \o k
  OBVIOUS
<1>9. Ordered("start", s)
  BY <1>3, <1>4, <1>5, <1>6, <1>7, <1>8, FrontOrdered
<1>10. s \in Seq(Tasks) /\ s # <<>> /\ s[1] = b /\ Has(s, <<"result", "FWR_GO">>)
  BY <1>3, <1>4, <1>5, <1>8, Front, FrontHas
<1>11. Start = s
  BY <1>2, <1>8 DEF Start
<1>12. QED
  BY <1>3, <1>9, <1>10, <1>11 DEF Opens

LEMMA ConcludeOpens == Opens("conclude", Conclude) /\ Has(Conclude, <<"result", "HOST_LOAD_CMP">>)
<1>1. "HOST_LOAD_CMP" \in Commands /\ \A x : ~Unwaited("conclude", x)
  BY DEF Commands, Unwaited, WithParam
<1>2. PICK k : k = Command("HOST_LOAD_CMP")
  OBVIOUS
<1>3. /\ k \in Seq(Tasks) /\ k[1] = <<"mbox", "none">> /\ k[2] = <<"cmd", "HOST_LOAD_CMP">>
  BY <1>1, <1>2, CommandParts
<1>4. k # <<>> /\ Ordered("conclude", k) /\ Has(k, <<"result", "HOST_LOAD_CMP">>)
  BY <1>1, <1>2, CommandOnly
<1>5. k[1][1] = "mbox" /\ k[2][1] = "cmd" /\ k[2][2] = "HOST_LOAD_CMP"
  BY <1>3
<1>6. ~NeedsParam(k[2])
  BY <1>5 DEF NeedsParam, OwnParam, WithParam
<1>7. Opens("conclude", k)
  BY <1>3, <1>4, <1>5, <1>6 DEF Opens
<1>8. QED
  BY <1>2, <1>4, <1>7 DEF Conclude

\* Calls of one access.
LEMMA SingleOpens ==
  ASSUME NEW op, NEW l \in {"access", "data", "por"}, l = "data" => op # "boot_write"
  PROVE  Opens(op, << <<l, "none">> >>)
<1>1. PICK a : a = <<l, "none">>
  OBVIOUS
<1>2. a \in Tasks /\ a[1] = l
  BY <1>1, TasksAre DEF Plain
<1>3. PICK s : s = <<a>>
  OBVIOUS
<1>4. s \in Seq(Tasks) /\ s # <<>> /\ s[1] = a /\ Ordered(op, s)
  BY <1>2, <1>3, Singles, SingleOrdered
<1>5. Opens(op, s)
  BY <1>2, <1>4 DEF Opens
<1>6. QED
  BY <1>1, <1>3, <1>5

LEMMA BootWriteOpens == Opens("boot_write", BootWrite)
<1>1. PICK a, b : a = <<"data", "none">> /\ b = <<"mode", "boot">>
  OBVIOUS
<1>2. /\ a \in Tasks /\ b \in Tasks /\ a[1] = "data" /\ b[1] = "mode" /\ b[2] = "boot"
      /\ b # <<"mode", "save_cfg">> /\ a # <<"mode", "save_cfg">>
  BY <1>1, TasksAre DEF Plain
<1>3. PICK k, s : k = <<a>> /\ s = <<b>> \o k
  OBVIOUS
<1>4. k \in Seq(Tasks) /\ k # <<>> /\ k[1] = a /\ Len(k) = 1 /\ Ordered("boot_write", k)
  BY <1>2, <1>3, Singles, SingleOrdered
<1>5. Follows("boot_write", b[1], k[1][1])
  BY <1>2, <1>4 DEF Follows
<1>6. Ordered("boot_write", s)
  BY <1>2, <1>3, <1>4, <1>5, FrontOrdered
<1>7. s \in Seq(Tasks) /\ s # <<>> /\ s[1] = b
  BY <1>2, <1>3, <1>4, Front
<1>8. BootWrite = s
  BY <1>1, <1>3 DEF BootWrite, ToBoot
<1>9. QED
  BY <1>2, <1>6, <1>7, <1>8 DEF Opens

LEMMA SleepOpens == Opens("sleep", Sleep)
<1>1. PICK a, b, c : /\ a = <<"mbox", "none">> /\ b = <<"cmd", "APP_SLEEP">>
                     /\ c = <<"notice", "APP_HOST_CMD">>
  OBVIOUS
<1>2. /\ a \in Tasks /\ b \in Tasks /\ c \in Tasks
      /\ a[1] = "mbox" /\ b[1] = "cmd" /\ b[2] = "APP_SLEEP" /\ c[1] = "notice"
      /\ a # <<"mode", "save_cfg">> /\ b # <<"mode", "save_cfg">> /\ c # <<"mode", "save_cfg">>
  BY <1>1, TasksAre DEF Plain, Commands, AppCommands, Notices
<1>3. PICK s : s = <<a, b, c>>
  OBVIOUS
<1>4. s \in Seq(Tasks) /\ Len(s) = 3 /\ s[1] = a /\ s[2] = b /\ s[3] = c /\ s # <<>>
  BY <1>2, <1>3
<1>5. OrderedAt("sleep", s, 1)
  BY <1>2, <1>4 DEF OrderedAt, Follows, Unwaited
<1>6. OrderedAt("sleep", s, 2)
  <2>1. CommandAt("sleep", s, 2)
    BY <1>2, <1>4 DEF CommandAt
  <2>2. QED
    BY <1>2, <1>4, <2>1 DEF OrderedAt, Follows
<1>7. OrderedAt("sleep", s, 3)
  BY <1>2, <1>4 DEF OrderedAt, Ends
<1>8. BootsFirst(s)
  <2>1. \A i \in 2 .. Len(s) : i = 2 \/ i = 3
    BY <1>4
  <2>2. QED
    BY <1>2, <1>4, <2>1 DEF BootsFirst
<1>9. \A i \in 1 .. Len(s) : OrderedAt("sleep", s, i)
  <2>1. \A i \in 1 .. Len(s) : i = 1 \/ i = 2 \/ i = 3
    BY <1>4
  <2>2. QED
    BY <1>5, <1>6, <1>7, <2>1
<1>10. ~NeedsParam(s[2])
  BY <1>2, <1>4 DEF NeedsParam, OwnParam, WithParam
<1>11. Opens("sleep", s)
  BY <1>2, <1>4, <1>8, <1>9, <1>10 DEF Opens, Ordered
<1>12. QED
  BY <1>1, <1>3, <1>11 DEF Sleep

LEMMA SaveCfgOpens == Opens("save_cfg", SaveCfg) /\ Has(SaveCfg, <<"mode", "save_cfg">>)
<1>1. PICK a, b, c, d, e : /\ a = <<"count", "none">> /\ b = <<"access", "none">>
                           /\ c = <<"param", "none">> /\ d = <<"mbox", "none">>
                           /\ e = <<"mode", "save_cfg">>
  OBVIOUS
<1>2. /\ a \in Tasks /\ b \in Tasks /\ c \in Tasks /\ d \in Tasks /\ e \in Tasks
      /\ a[1] = "count" /\ b[1] = "access" /\ c[1] = "param" /\ d[1] = "mbox"
      /\ e[1] = "mode" /\ e[2] = "save_cfg"
      /\ a # <<"mode", "save_cfg">> /\ b # <<"mode", "save_cfg">> /\ c # <<"mode", "save_cfg">>
      /\ d # <<"mode", "save_cfg">>
  BY <1>1, TasksAre DEF Plain
<1>3. PICK s : s = <<a, b, c, d, e>>
  OBVIOUS
<1>4. /\ s \in Seq(Tasks) /\ Len(s) = 5 /\ s # <<>>
      /\ s[1] = a /\ s[2] = b /\ s[3] = c /\ s[4] = d /\ s[5] = e
  BY <1>2, <1>3
<1>5. OrderedAt("save_cfg", s, 1)
  BY <1>2, <1>4 DEF OrderedAt, Follows
<1>6. OrderedAt("save_cfg", s, 2)
  BY <1>2, <1>4 DEF OrderedAt, Follows
<1>7. OrderedAt("save_cfg", s, 3)
  BY <1>2, <1>4 DEF OrderedAt, Follows
<1>8. OrderedAt("save_cfg", s, 4)
  BY <1>2, <1>4 DEF OrderedAt, Follows
<1>9. OrderedAt("save_cfg", s, 5)
  BY <1>2, <1>4 DEF OrderedAt, Ends
<1>10. \A i \in 1 .. Len(s) : i = 1 \/ i = 2 \/ i = 3 \/ i = 4 \/ i = 5
  BY <1>4
<1>11. BootsFirst(s)
  <2>1. \A i \in 2 .. Len(s) : i = 2 \/ i = 3 \/ i = 4 \/ i = 5
    BY <1>4
  <2>2. QED
    BY <1>1, <1>2, <1>4, <2>1 DEF BootsFirst
<1>12. \A i \in 1 .. Len(s) : OrderedAt("save_cfg", s, i)
  BY <1>5, <1>6, <1>7, <1>8, <1>9, <1>10
<1>13. Opens("save_cfg", s)
  BY <1>2, <1>4, <1>11, <1>12 DEF Opens, Ordered
<1>14. Has(s, <<"mode", "save_cfg">>)
  <2>1. 5 \in 1 .. Len(s) /\ s[5] = <<"mode", "save_cfg">>
    BY <1>1, <1>4
  <2>2. QED
    BY <2>1 DEF Has
<1>15. QED
  BY <1>1, <1>3, <1>13, <1>14 DEF SaveCfg

\* The last command of tw_save_cfg_to_flash, for whose end it does not wait.
LEMMA SaveCfgLast ==
  ASSUME NEW c \in {"IMG_CFG_SAVE", "APP_SAVE_CFG"}, NEW f \in Notices,
         NEW s, s = << <<"cmd", c>>, <<"notice", f>>, <<"result", c>> >>
  PROVE  /\ s \in Seq(Tasks) /\ Len(s) = 3 /\ s # <<>> /\ Ordered("save_cfg", s)
         /\ s[1] = <<"cmd", c>> /\ s[3] = <<"result", c>> /\ Has(s, <<"result", c>>)
<1>1. PICK a, b, d : a = <<"cmd", c>> /\ b = <<"notice", f>> /\ d = <<"result", c>>
  OBVIOUS
<1>2. /\ a \in Tasks /\ b \in Tasks /\ d \in Tasks
      /\ a[1] = "cmd" /\ a[2] = c /\ b[1] = "notice" /\ d[1] = "result"
      /\ a # <<"mode", "save_cfg">> /\ b # <<"mode", "save_cfg">> /\ d # <<"mode", "save_cfg">>
  BY <1>1, TasksAre DEF Commands, AppCommands, WithParam
<1>3. s = <<a, b, d>>
  BY <1>1
<1>4. s \in Seq(Tasks) /\ Len(s) = 3 /\ s # <<>> /\ s[1] = a /\ s[2] = b /\ s[3] = d
  BY <1>2, <1>3
<1>5. OrderedAt("save_cfg", s, 1)
  <2>1. Unwaited("save_cfg", c)
    BY DEF Unwaited
  <2>2. CommandAt("save_cfg", s, 1)
    BY <1>1, <1>2, <1>4, <2>1 DEF CommandAt
  <2>3. QED
    BY <1>2, <1>4, <2>2 DEF OrderedAt, Follows
<1>6. OrderedAt("save_cfg", s, 2)
  BY <1>2, <1>4 DEF OrderedAt, Follows
<1>7. OrderedAt("save_cfg", s, 3)
  BY <1>2, <1>4 DEF OrderedAt, Ends
<1>8. BootsFirst(s)
  <2>1. \A i \in 2 .. Len(s) : i = 2 \/ i = 3
    BY <1>4
  <2>2. QED
    BY <1>2, <1>4, <2>1 DEF BootsFirst
<1>9. \A i \in 1 .. Len(s) : OrderedAt("save_cfg", s, i)
  <2>1. \A i \in 1 .. Len(s) : i = 1 \/ i = 2 \/ i = 3
    BY <1>4
  <2>2. QED
    BY <1>5, <1>6, <1>7, <2>1
<1>10. Has(s, <<"result", c>>)
  <2>1. 3 \in 1 .. Len(s) /\ s[3] = <<"result", c>>
    BY <1>1, <1>4
  <2>2. QED
    BY <2>1 DEF Has
<1>11. QED
  BY <1>1, <1>4, <1>8, <1>9, <1>10 DEF Ordered

LEMMA SaveCfgAppOpens ==
  /\ SaveCfgApp \in Seq(Tasks) /\ SaveCfgApp # <<>> /\ Ordered("save_cfg", SaveCfgApp)
  /\ SaveCfgApp[1] = <<"cmd", "APP_SAVE_CFG">> /\ Has(SaveCfgApp, <<"result", "APP_SAVE_CFG">>)
<1>1. PICK s : s = << <<"cmd", "APP_SAVE_CFG">>, <<"notice", "APP_HOST_CMD">>,
                      <<"result", "APP_SAVE_CFG">> >>
  OBVIOUS
<1>2. "APP_HOST_CMD" \in Notices
  BY DEF Notices
<1>3. /\ s \in Seq(Tasks) /\ s # <<>> /\ Ordered("save_cfg", s)
      /\ s[1] = <<"cmd", "APP_SAVE_CFG">> /\ Has(s, <<"result", "APP_SAVE_CFG">>)
  BY <1>1, <1>2, SaveCfgLast
<1>4. QED
  BY <1>1, <1>3 DEF SaveCfgApp

LEMMA SaveCfgBootOpens ==
  /\ SaveCfgBoot \in Seq(Tasks) /\ SaveCfgBoot # <<>> /\ Ordered("save_cfg", SaveCfgBoot)
  /\ SaveCfgBoot[1] = <<"mbox", "none">> /\ SaveCfgBoot[2] = <<"cmd", "FLASH_INIT">>
  /\ Has(SaveCfgBoot, <<"result", "IMG_CFG_SAVE">>)
<1>1. PICK k : k = << <<"cmd", "IMG_CFG_SAVE">>, <<"notice", "HOST_CMD">>,
                      <<"result", "IMG_CFG_SAVE">> >>
  OBVIOUS
<1>2. "HOST_CMD" \in Notices
  BY DEF Notices
<1>3. /\ k \in Seq(Tasks) /\ k # <<>> /\ Ordered("save_cfg", k)
      /\ k[1] = <<"cmd", "IMG_CFG_SAVE">> /\ Has(k, <<"result", "IMG_CFG_SAVE">>)
  BY <1>1, <1>2, SaveCfgLast
<1>4. PICK s : s = Command("FLASH_INIT") \o k
  OBVIOUS
<1>5. "FLASH_INIT" \in Commands /\ ~Unwaited("save_cfg", "FLASH_INIT")
  BY DEF Commands, Unwaited, WithParam
<1>6. k[1][1] = "cmd"
  BY <1>3
<1>7. Ordered("save_cfg", s)
  <2>1. Follows("save_cfg", "result", k[1][1])
    BY <1>6 DEF Follows
  <2>2. k[1][2] = "IMG_CFG_SAVE" /\ Unwaited("save_cfg", k[1][2])
    BY <1>3 DEF Unwaited
  <2>3. QED
    BY <1>3, <1>4, <1>5, <2>1, <2>2, CommandOrdered
<1>8. /\ s \in Seq(Tasks) /\ Len(s) = 5 + Len(k)
      /\ s[1] = <<"mbox", "none">> /\ s[2] = <<"cmd", "FLASH_INIT">>
  BY <1>3, <1>4, <1>5, CommandThen
<1>9. s # <<>>
  BY <1>3, <1>8, EmptySeq
<1>10. Has(s, <<"result", "IMG_CFG_SAVE">>)
  BY <1>3, <1>4, <1>5, CommandHas
<1>11. SaveCfgBoot = s
  BY <1>1, <1>4 DEF SaveCfgBoot, InitFlash
<1>12. QED
  BY <1>7, <1>8, <1>9, <1>10, <1>11

\* The reset to the boot ROM, in the place of the mode that was read.
LEMMA ResetOrdered ==
  ASSUME NEW op, NEW s \in Seq(Tasks), s # <<>>, Ordered(op, s), s[1] = <<"mode", "boot">>
  PROVE  /\ <<"reset", "none">> \in Tasks
         /\ Ordered(op, << <<"reset", "none">> >> \o Tail(s))
         /\ op # "save_cfg" /\ Tail(s) # <<>>
<1>1. PICK k, a : k = Tail(s) /\ a = <<"reset", "none">>
  OBVIOUS
<1>2. /\ a \in Tasks /\ a[1] = "reset" /\ a # <<"mode", "save_cfg">>
      /\ s[1][1] = "mode" /\ s[1][2] = "boot" /\ s[1] # <<"mode", "save_cfg">>
  BY <1>1, TasksAre DEF Plain
<1>3. PICK L : L = Len(k)
  OBVIOUS
<1>4. /\ k \in Seq(Tasks) /\ Ordered(op, k) /\ L \in Nat /\ Len(s) = 1 + L
      /\ \A i \in 1 .. L : k[i] = s[i + 1]
      /\ k = <<>> <=> L = 0
      /\ \A i \in 1 .. L : k[i][1] \in {"mode", "reset"} => k[i] = <<"mode", "save_cfg">>
  <2>1. /\ k \in Seq(Tasks) /\ Len(s) \in Nat /\ Len(s) >= 1 /\ L = Len(s) - 1
        /\ \A i \in 1 .. Len(s) - 1 : k[i] = s[i + 1]
        /\ k = <<>> <=> Len(s) = 1
    BY <1>1, <1>3, Ahead
  <2>2. L \in Nat /\ Len(s) = 1 + L /\ Len(s) - 1 = L
    BY <2>1
  <2>3. Ordered(op, k)
    BY <1>1, TailOrdered
  <2>4. \A i \in 1 .. L : k[i][1] \in {"mode", "reset"} => k[i] = <<"mode", "save_cfg">>
    BY <1>1, <1>3, TailOrdered
  <2>5. QED
    BY <2>1, <2>2, <2>3, <2>4
<1>5. OrderedAt(op, s, 1)
  BY <1>4 DEF Ordered
<1>6. op # "save_cfg"
  BY <1>2, <1>5 DEF OrderedAt
<1>7. L # 0 /\ Follows(op, "mode", k[1][1])
  <2>1. L # 0
    BY <1>2, <1>4, <1>5, <1>6 DEF OrderedAt, Ends
  <2>2. k[1] = s[1 + 1]
    BY <1>4, <2>1
  <2>3. QED
    BY <1>2, <1>4, <1>5, <2>1, <2>2 DEF OrderedAt
<1>8. Follows(op, a[1], k[1][1]) /\ k[1][1] # "cmd"
  BY <1>2, <1>6, <1>7 DEF Follows
<1>9. ~(L >= 2 /\ k[1][1] = "mbox" /\ NeedsParam(k[2]))
  <2>1. L >= 2 => k[1] = s[1 + 1] /\ k[2] = s[1 + 2]
    BY <1>4
  <2>2. L >= 2 => 1 + 2 <= Len(s)
    BY <1>4
  <2>3. QED
    BY <1>2, <1>5, <2>1, <2>2 DEF OrderedAt
<1>10. k[1][1] \in {"mode", "reset"} => k[1] = <<"mode", "save_cfg">>
  BY <1>4, <1>7
<1>11. Ordered(op, <<a>> \o k)
  BY <1>2, <1>3, <1>4, <1>6, <1>7, <1>8, <1>9, <1>10, FrontOrdered
<1>12. QED
  BY <1>1, <1>2, <1>4, <1>6, <1>7, <1>11

\* How every call begins.
LEMMA ProgOpens == \A op \in Operations : Opens(op, Prog(op))
<1>1. /\ Opens("load", Prog("load")) /\ Opens("erase", Prog("erase"))
      /\ Opens("erase_all", Prog("erase_all"))
  <2>1. \A c \in {"IMG_CFG_LOAD", "IMG_CFG_ERASE", "ERASE_FLASH_INIT"} : c \in OwnParam
    BY DEF OwnParam, WithParam
  <2>2. /\ Opens("load", LoadErase("IMG_CFG_LOAD")) /\ Opens("erase", LoadErase("IMG_CFG_ERASE"))
        /\ Opens("erase_all", LoadErase("ERASE_FLASH_INIT"))
    BY <2>1, LoadEraseOpens
  <2>3. QED
    BY <2>2 DEF Prog
<1>2. /\ Opens("save", Prog("save")) /\ Opens("start", Prog("start"))
      /\ Opens("conclude", Prog("conclude")) /\ Opens("save_cfg", Prog("save_cfg"))
  BY SaveOpens, StartOpens, ConcludeOpens, SaveCfgOpens DEF Prog
<1>3. /\ Opens("boot_write", Prog("boot_write")) /\ Opens("sleep", Prog("sleep"))
  BY BootWriteOpens, SleepOpens DEF Prog
<1>4. /\ Opens("config_write", Prog("config_write")) /\ Opens("wake", Prog("wake"))
      /\ Opens("reset", Prog("reset"))
  BY SingleOpens DEF Prog, Wake
<1>5. QED
  BY <1>1, <1>2, <1>3, <1>4 DEF Operations

-----------------------------------------------------------------------------
(* The registers *)

\* A word and its bytes.
LEMMA BytesOf ==
  ASSUME NEW v \in Int, 0 <= v, v <= 65535
  PROVE  \E h, l \in Int : /\ h = v \div 256 /\ l = v % 256 /\ v = 256 * h + l
                           /\ 0 <= h /\ h <= 255 /\ 0 <= l /\ l <= 255
<1>1. v \div 256 \in Int /\ v % 256 \in Int
  OBVIOUS
<1>2. v = 256 * (v \div 256) + (v % 256) /\ 0 <= v % 256 /\ v % 256 <= 255
  OBVIOUS
<1>3. PICK h \in Int, l \in Int : h = v \div 256 /\ l = v % 256
  BY <1>1
<1>4. v = 256 * h + l /\ 0 <= l /\ l <= 255
  BY <1>2, <1>3
<1>5. 0 <= h /\ h <= 255
  BY <1>4
<1>6. QED
  BY <1>3, <1>4, <1>5

LEMMA BytesAre ==
  ASSUME NEW h \in Int, NEW l \in Int, NEW w \in Int, w = 256 * h + l,
         0 <= h, h <= 255, 0 <= l, l <= 255
  PROVE  w \div 256 = h /\ w % 256 = l /\ 0 <= w /\ w <= 65535
OBVIOUS

LEMMA WordIs == \A v : v \in Word <=> v \in Int /\ 0 <= v /\ v <= 65535
<1>1. PICK n \in Int : n = 256 * 256 - 1
  OBVIOUS
<1>2. n = 65535
  BY <1>1
<1>3. Word = 0 .. n
  BY <1>1 DEF Word
<1>4. \A v : v \in 0 .. n <=> v \in Int /\ 0 <= v /\ v <= n
  OBVIOUS
<1>5. \A v : v \in Word <=> v \in Int /\ 0 <= v /\ v <= n
  BY <1>3, <1>4
<1>6. QED
  BY <1>2, <1>5

\* HBI_VAL keeps the width, and undoes itself.
LEMMA ValWord == \A v \in Word : Val(v) \in Word /\ Val(Val(v)) = v
<1>1. SUFFICES ASSUME NEW v \in Word
               PROVE  Val(v) \in Word /\ Val(Val(v)) = v
  OBVIOUS
<1>2. CASE ~Mismatch
  BY <1>2 DEF Val
<1>3. CASE Mismatch
  <2>1. PICK h \in Int, l \in Int : /\ h = v \div 256 /\ l = v % 256 /\ v = 256 * h + l
                                    /\ 0 <= h /\ h <= 255 /\ 0 <= l /\ l <= 255
    BY WordIs, BytesOf
  <2>2. PICK w \in Int : w = 256 * l + h
    BY <2>1
  <2>3. w \div 256 = l /\ w % 256 = h /\ w \in Word
    BY <2>1, <2>2, WordIs, BytesAre
  <2>4. Val(v) = l * 256 + h
    BY <1>3, <2>1 DEF Val
  <2>5. Val(w) = h * 256 + l
    BY <1>3, <2>3 DEF Val
  <2>6. Val(v) = w /\ Val(w) = v
    BY <2>1, <2>2, <2>4, <2>5
  <2>7. QED
    BY <2>3, <2>6
<1>4. QED
  BY <1>2, <1>3

\* The values the code names are words.
LEMMA Words ==
  /\ {SUCCESS, BAD_IMAGE, FLASH_FULL, NO_FLASH, COMMAND_ERROR, APP_IS_RUNNING, INCOMPAT_APP,
      FLASH_INIT_OK, FLASH_UNRECOG, BOOT_SIGNATURE, ERASE_ALL, BUS_ERROR} \subseteq Word
  /\ 0 .. 14 \subseteq Word
<1>1. \A w \in Nat : w <= 65535 => w \in Word
  BY WordIs
<1>2. {SUCCESS, BAD_IMAGE, FLASH_FULL, NO_FLASH, COMMAND_ERROR, APP_IS_RUNNING, INCOMPAT_APP}
        \subseteq Word
  BY <1>1 DEF SUCCESS, BAD_IMAGE, FLASH_FULL, NO_FLASH, COMMAND_ERROR, APP_IS_RUNNING, INCOMPAT_APP
<1>3. {FLASH_INIT_OK, FLASH_UNRECOG, BOOT_SIGNATURE, ERASE_ALL, BUS_ERROR} \subseteq Word
  BY <1>1 DEF FLASH_INIT_OK, FLASH_UNRECOG, BOOT_SIGNATURE, ERASE_ALL, BUS_ERROR
<1>4. 0 .. 14 \subseteq Word
  BY <1>1
<1>5. QED
  BY <1>2, <1>3, <1>4

LEMMA ParamWord ==
  ASSUME NEW c \in [op : Ops \cup {"none"}, image : Images \cup {0}]
  PROVE  ParamOf(c) \in Word /\ c.image \in Word
<1>1. c.image \in Word
  <2>1. c.image \in Images \/ c.image = 0
    OBVIOUS
  <2>2. Images \subseteq 0 .. 14 /\ 0 \in 0 .. 14
    BY TwConstantsOK
  <2>3. QED
    BY <2>1, <2>2, Words
<1>2. ERASE_ALL \in Word
  BY Words
<1>3. QED
  BY <1>1, <1>2, ValWord DEF ParamOf

LEMMA FailureWords == \A c : Failures(c) \subseteq Word /\ Success(c) \in Word
BY Words DEF Failures, Success

LEMMA StatusKnown == \A op, c, v : StatusOf(op, c, v) \in Statuses \ {"none"}
<1>1. \A v : FlashInitStatus(v) \in Statuses \ {"none"}
  BY DEF FlashInitStatus, Statuses
<1>2. \A v, ok : EraseStatus(v, ok) \in Statuses \ {"none"}
  BY DEF EraseStatus, Statuses
<1>3. \A v : SaveStatus(v) \in Statuses \ {"none"}
  BY DEF SaveStatus, Statuses
<1>4. {"SUCCESS", "INCOMPAT_APP", "COMMAND_ERR"} \subseteq Statuses \ {"none"}
  BY DEF Statuses
<1>5. QED
  BY <1>1, <1>2, <1>3, <1>4 DEF StatusOf

-----------------------------------------------------------------------------
(* Any number of threads *)

\* A call that goes on with accesses in order, or is over with SUCCESS.
LEMMA GoOnKeeps ==
  ASSUME TwInv, NEW t \in Threads, todo[t] # <<>>, NEW rest \in Seq(Tasks),
         Ordered(call[t].op, rest), GoOn(t, rest), call' = call
  PROVE  CallsRight' /\ DOMAIN todo' = Threads /\ res' \in [Threads -> Statuses]
<1>1. res[t] = "none" /\ res \in [Threads -> Statuses] /\ DOMAIN todo = Threads
  BY DEF TwInv, TwTypes, CallsRight
<1>2. todo' = [todo EXCEPT ![t] = rest]
  BY DEF GoOn, Return
<1>3. res' = [res EXCEPT ![t] = IF rest = <<>> THEN "SUCCESS" ELSE "none"]
  <2>1. [res EXCEPT ![t] = "none"] = res
    BY <1>1
  <2>2. QED
    BY <2>1 DEF GoOn, Return
<1>4. todo'[t] = rest /\ \A u \in Threads : u # t => todo'[u] = todo[u] /\ res'[u] = res[u]
  BY <1>1, <1>2, <1>3
<1>5. rest # <<>> => res'[t] = "none"
  BY <1>1, <1>3
<1>6. /\ call[t].op \in Ops
      /\ call[t].op \in TakesImage => call[t].image # 0
  BY DEF TwInv, CallsRight
<1>7. CallsRight'
  <2>1. SUFFICES ASSUME NEW u \in Threads
                 PROVE  /\ todo'[u] \in Seq(Tasks) /\ Ordered(call[u].op, todo'[u])
                        /\ todo'[u] # <<>> =>
                             /\ res'[u] = "none" /\ call[u].op \in Ops
                             /\ call[u].op \in TakesImage => call[u].image # 0
    BY DEF CallsRight
  <2>2. CASE u = t
    BY <1>4, <1>5, <1>6, <2>2
  <2>3. CASE u # t
    BY <1>4, <2>3 DEF TwInv, CallsRight
  <2>4. QED
    BY <2>2, <2>3
<1>8. {"SUCCESS", "none"} \subseteq Statuses
  BY DEF Statuses
<1>9. QED
  BY <1>1, <1>2, <1>3, <1>7, <1>8

LEMMA ReturnKeeps ==
  ASSUME TwInv, NEW t \in Threads, NEW status \in Statuses, Return(t, status), call' = call
  PROVE  CallsRight' /\ DOMAIN todo' = Threads /\ res' \in [Threads -> Statuses]
<1>1. res \in [Threads -> Statuses] /\ DOMAIN todo = Threads
  BY DEF TwInv, TwTypes
<1>2. /\ DOMAIN todo' = Threads /\ res' \in [Threads -> Statuses]
      /\ todo'[t] = <<>> /\ \A u \in Threads : u # t => todo'[u] = todo[u] /\ res'[u] = res[u]
  BY <1>1 DEF Return
<1>3. CallsRight'
  <2>1. SUFFICES ASSUME NEW u \in Threads
                 PROVE  /\ todo'[u] \in Seq(Tasks) /\ Ordered(call[u].op, todo'[u])
                        /\ todo'[u] # <<>> =>
                             /\ res'[u] = "none" /\ call[u].op \in Ops
                             /\ call[u].op \in TakesImage => call[u].image # 0
    BY DEF CallsRight
  <2>2. CASE u = t
    BY <1>2, <2>2, NothingOrdered
  <2>3. CASE u # t
    BY <1>2, <2>3 DEF TwInv, CallsRight
  <2>4. QED
    BY <2>2, <2>3
<1>4. QED
  BY <1>2, <1>3

\* The access a call is at.
LEMMA AtHead ==
  ASSUME TwInv, NEW t \in Threads, todo[t] # <<>>
  PROVE  /\ todo[t] \in Seq(Tasks) /\ Ordered(call[t].op, todo[t])
         /\ Head(todo[t]) = todo[t][1] /\ Arg(t) = todo[t][1][2] /\ todo[t][1] \in Tasks
         /\ \A l : AtStep(t, l) <=> todo[t][1][1] = l
<1>1. todo[t] \in Seq(Tasks) /\ Ordered(call[t].op, todo[t])
  BY DEF TwInv, CallsRight
<1>2. Head(todo[t]) = todo[t][1] /\ todo[t][1] \in Tasks
  BY <1>1, Ahead
<1>3. QED
  BY <1>1, <1>2 DEF Arg, AtStep

LEMMA TailKeeps ==
  ASSUME TwInv, NEW t \in Threads, todo[t] # <<>>, GoOn(t, Tail(todo[t])), call' = call
  PROVE  CallsRight' /\ DOMAIN todo' = Threads /\ res' \in [Threads -> Statuses]
<1>1. Tail(todo[t]) \in Seq(Tasks) /\ Ordered(call[t].op, Tail(todo[t]))
  BY AtHead, TailOrdered
<1>2. QED
  BY <1>1, GoOnKeeps

LEMMA ModeKeeps ==
  ASSUME TwInv, NEW t \in Threads, AtStep(t, "mode"), NEW boot \in BOOLEAN, AfterMode(t, boot),
         call' = call
  PROVE  CallsRight' /\ DOMAIN todo' = Threads /\ res' \in [Threads -> Statuses]
<1>1. todo[t] # <<>>
  BY DEF AtStep
<1>2. PICK s, op : s = todo[t] /\ op = call[t].op
  OBVIOUS
<1>3. /\ s \in Seq(Tasks) /\ s # <<>> /\ Ordered(op, s) /\ s[1] \in Tasks /\ s[1][1] = "mode"
      /\ Arg(t) = s[1][2]
  BY <1>1, <1>2, AtHead
<1>4. Arg(t) \in {"boot", "start", "save_cfg"} /\ s[1] = <<"mode", Arg(t)>>
  BY <1>3, TaskParts
<1>5. CASE Arg(t) = "start"
  <2>1. GoOn(t, Tail(todo[t])) \/ Return(t, "INVALID_STATE")
    BY <1>5 DEF AfterMode
  <2>2. "INVALID_STATE" \in Statuses
    BY DEF Statuses
  <2>3. QED
    BY <1>1, <2>1, <2>2, TailKeeps, ReturnKeeps
<1>6. CASE Arg(t) = "save_cfg"
  <2>1. op = "save_cfg"
    <3>1. Len(s) >= 1
      BY <1>3, Ahead
    <3>2. OrderedAt(op, s, 1)
      BY <1>3, <3>1 DEF Ordered
    <3>3. QED
      BY <1>4, <1>6, <3>2 DEF OrderedAt
  <2>2. GoOn(t, IF boot THEN SaveCfgBoot ELSE SaveCfgApp)
    BY <1>6 DEF AfterMode
  <2>3. PICK k : k = IF boot THEN SaveCfgBoot ELSE SaveCfgApp
    OBVIOUS
  <2>4. k \in Seq(Tasks) /\ Ordered(op, k) /\ GoOn(t, k)
    BY <2>1, <2>2, <2>3, SaveCfgBootOpens, SaveCfgAppOpens
  <2>5. QED
    BY <1>1, <1>2, <2>4, GoOnKeeps
<1>7. CASE Arg(t) = "boot"
  <2>1. GoOn(t, IF boot THEN Tail(todo[t]) ELSE << <<"reset", "none">> >> \o Tail(todo[t]))
    BY <1>7 DEF AfterMode
  <2>2. PICK k : k = << <<"reset", "none">> >> \o Tail(s)
    OBVIOUS
  <2>3. k \in Seq(Tasks) /\ Ordered(op, k)
    <3>1. <<"reset", "none">> \in Tasks /\ Ordered(op, k) /\ Tail(s) \in Seq(Tasks)
      BY <1>3, <1>4, <1>7, <2>2, ResetOrdered, Ahead
    <3>2. QED
      BY <2>2, <3>1, Front
  <2>4. GoOn(t, Tail(todo[t])) \/ GoOn(t, k)
    BY <1>2, <2>1, <2>2
  <2>5. QED
    BY <1>1, <1>2, <2>3, <2>4, GoOnKeeps, TailKeeps
<1>8. QED
  BY <1>4, <1>5, <1>6, <1>7

LEMMA ResultKeeps ==
  ASSUME TwInv, NEW t \in Threads, todo[t] # <<>>, NEW v, Answered(t, v), call' = call
  PROVE  CallsRight' /\ DOMAIN todo' = Threads /\ res' \in [Threads -> Statuses]
<1>1. PICK status : status = StatusOf(call[t].op, Arg(t), v)
  OBVIOUS
<1>2. status \in Statuses
  BY <1>1, StatusKnown
<1>3. GoOn(t, Tail(todo[t])) \/ Return(t, status)
  BY <1>1 DEF Answered
<1>4. QED
  BY <1>2, <1>3, TailKeeps, ReturnKeeps

\* The registers the host does not touch in a step.
LEMMA CallKept ==
  ASSUME TwInv, UNCHANGED <<devVars, call>>, DOMAIN todo' = Threads,
         res' \in [Threads -> Statuses], CallsRight',
         misread' \in [Threads -> BOOLEAN], UNCHANGED <<clean, did>>
  PROVE  TwInv'
BY DEF TwInv, TwTypes, devVars

LEMMA InitTw == Init => TwInv
<1>1. SUFFICES ASSUME Init
               PROVE  TwInv
  OBVIOUS
<1>2. TwTypes
  <2>1. /\ flags = {} /\ cmdReg = "IDLE" /\ param \in Word /\ mode \in {"boot", "app"}
        /\ busy = {} /\ hung \in BOOLEAN
    <3>1. 0 \in Word
      BY WordIs
    <3>2. QED
      BY <1>1, <3>1 DEF Init
  <2>2. /\ call \in [Threads -> [op : Ops \cup {"none"}, image : Images \cup {0}]]
        /\ DOMAIN todo = Threads
    BY <1>1 DEF Init
  <2>3. res \in [Threads -> Statuses]
    BY <1>1 DEF Init, Statuses
  <2>4. /\ misread \in [Threads -> BOOLEAN] /\ clean \in [Threads -> BOOLEAN]
        /\ did \in [Threads -> SUBSET (Commands \X Word)]
    BY <1>1 DEF Init
  <2>5. QED
    BY <2>1, <2>2, <2>3, <2>4 DEF TwTypes
<1>3. CallsRight
  <2>1. \A t \in Threads : todo[t] = <<>>
    BY <1>1 DEF Init
  <2>2. QED
    BY <2>1, NothingOrdered DEF CallsRight
<1>4. QED
  BY <1>2, <1>3 DEF TwInv

LEMMA CallTwKeeps ==
  ASSUME TwInv, NEW t \in Threads, NEW op \in Ops, NEW image \in Images, CallTw(t, op, image)
  PROVE  TwInv'
<1>1. /\ DOMAIN todo = Threads /\ res \in [Threads -> Statuses]
      /\ misread \in [Threads -> BOOLEAN] /\ clean \in [Threads -> BOOLEAN]
      /\ did \in [Threads -> SUBSET (Commands \X Word)]
      /\ call \in [Threads -> [op : Ops \cup {"none"}, image : Images \cup {0}]]
  BY DEF TwInv, TwTypes
<1>2. /\ call' = [call EXCEPT ![t] = [op |-> op, image |-> image]]
      /\ did' = [did EXCEPT ![t] = {}]
      /\ misread' = [misread EXCEPT ![t] = FALSE]
      /\ clean' = [clean EXCEPT ![t] = flags = {} /\ busy = {}]
      /\ UNCHANGED devVars
  BY DEF CallTw
<1>3. PICK s, r : /\ todo' = [todo EXCEPT ![t] = s] /\ res' = [res EXCEPT ![t] = r]
                  /\ \/ s = <<>> /\ r = "INVALID_ARG"
                     \/ s = Prog(op) /\ r = "none" /\ (op \in TakesImage => image # 0)
  <2>1. CASE op \in TakesImage /\ image = 0
    BY <2>1 DEF CallTw, Return
  <2>2. CASE ~(op \in TakesImage /\ image = 0)
    BY <2>2 DEF CallTw
  <2>3. QED
    BY <2>1, <2>2
<1>4. s \in Seq(Tasks) /\ Ordered(op, s) /\ r \in Statuses
  <2>1. op \in Operations
    BY TwConstantsOK
  <2>2. Prog(op) \in Seq(Tasks) /\ Ordered(op, Prog(op))
    BY <2>1, ProgOpens DEF Opens
  <2>3. {"INVALID_ARG", "none"} \subseteq Statuses
    BY DEF Statuses
  <2>4. QED
    BY <1>3, <2>2, <2>3, NothingOrdered
<1>5. /\ call'[t] = [op |-> op, image |-> image] /\ todo'[t] = s /\ res'[t] = r
      /\ \A u \in Threads : u # t => todo'[u] = todo[u] /\ res'[u] = res[u] /\ call'[u] = call[u]
  BY <1>1, <1>2, <1>3
<1>6. CallsRight'
  <2>1. SUFFICES ASSUME NEW u \in Threads
                 PROVE  /\ todo'[u] \in Seq(Tasks) /\ Ordered(call'[u].op, todo'[u])
                        /\ todo'[u] # <<>> =>
                             /\ res'[u] = "none" /\ call'[u].op \in Ops
                             /\ call'[u].op \in TakesImage => call'[u].image # 0
    BY DEF CallsRight
  <2>2. CASE u = t
    <3>1. call'[u].op = op /\ call'[u].image = image
      BY <1>5, <2>2
    <3>2. s # <<>> => r = "none" /\ (op \in TakesImage => image # 0)
      BY <1>3
    <3>3. QED
      BY <1>4, <1>5, <2>2, <3>1, <3>2
  <2>3. CASE u # t
    BY <1>5, <2>3 DEF TwInv, CallsRight
  <2>4. QED
    BY <2>2, <2>3
<1>7. TwTypes'
  <2>1. call' \in [Threads -> [op : Ops \cup {"none"}, image : Images \cup {0}]]
    BY <1>1, <1>2
  <2>2. DOMAIN todo' = Threads /\ res' \in [Threads -> Statuses]
    BY <1>1, <1>3, <1>4
  <2>3. misread' \in [Threads -> BOOLEAN]
    BY <1>1, <1>2
  <2>4. clean' \in [Threads -> BOOLEAN]
    <3>1. PICK b \in BOOLEAN : b = (flags = {} /\ busy = {})
      OBVIOUS
    <3>2. clean' = [clean EXCEPT ![t] = b]
      BY <1>2, <3>1
    <3>3. QED
      BY <1>1, <3>2
  <2>5. did' \in [Threads -> SUBSET (Commands \X Word)]
    BY <1>1, <1>2
  <2>6. QED
    BY <1>2, <2>1, <2>2, <2>3, <2>4, <2>5 DEF TwInv, TwTypes, devVars
<1>8. QED
  BY <1>6, <1>7 DEF TwInv

\* The accesses a call makes.
LEMMA AccessKeeps ==
  ASSUME TwInv, NEW t \in Threads, Step(t)
  PROVE  TwInv'
<1>1. TwTypes /\ "RESOURCE_ERR" \in Statuses /\ "INTERNAL_ERR" \in Statuses
      /\ "INVALID_ARG" \in Statuses
  BY DEF TwInv, Statuses
<1>2. CASE Mbox(t)
  <2>1. todo[t] # <<>> /\ call' = call /\ (GoOn(t, Tail(todo[t])) \/ Return(t, "RESOURCE_ERR"))
    BY <1>2 DEF Mbox, AtStep
  <2>2. CallsRight' /\ DOMAIN todo' = Threads /\ res' \in [Threads -> Statuses]
    BY <1>1, <2>1, TailKeeps, ReturnKeeps
  <2>3. QED
    BY <1>1, <1>2, <2>2, CallKept DEF Mbox, histVars, TwTypes
<1>3. CASE Cmd(t)
  <2>1. todo[t] # <<>> /\ call' = call /\ GoOn(t, Tail(todo[t])) /\ cmdReg' = Arg(t)
    BY <1>3 DEF Cmd, AtStep
  <2>2. CallsRight' /\ DOMAIN todo' = Threads /\ res' \in [Threads -> Statuses]
    BY <2>1, TailKeeps
  <2>3. cmdReg' \in Commands
    <3>1. todo[t][1] \in Tasks /\ todo[t][1][1] = "cmd" /\ Arg(t) = todo[t][1][2]
      BY <1>3, <2>1, AtHead DEF Cmd
    <3>2. QED
      BY <2>1, <3>1, TaskParts
  <2>4. UNCHANGED <<flags, param, mode, busy, hung, call, misread, clean, did>>
    BY <1>3 DEF Cmd, histVars
  <2>5. QED
    BY <1>1, <2>2, <2>3, <2>4 DEF TwInv, TwTypes
<1>4. CASE Notice(t)
  <2>1. todo[t] # <<>> /\ call' = call /\ GoOn(t, Tail(todo[t])) /\ flags' = {Arg(t)}
    BY <1>4 DEF Notice, AtStep
  <2>2. CallsRight' /\ DOMAIN todo' = Threads /\ res' \in [Threads -> Statuses]
    BY <2>1, TailKeeps
  <2>3. flags' \subseteq Notices
    <3>1. todo[t][1] \in Tasks /\ todo[t][1][1] = "notice" /\ Arg(t) = todo[t][1][2]
      BY <1>4, <2>1, AtHead DEF Notice
    <3>2. QED
      BY <2>1, <3>1, TaskParts
  <2>4. UNCHANGED <<cmdReg, param, mode, busy, hung, call, misread, clean, did>>
    BY <1>4 DEF Notice, histVars
  <2>5. QED
    BY <1>1, <2>2, <2>3, <2>4 DEF TwInv, TwTypes
<1>5. CASE Wait(t)
  <2>1. todo[t] # <<>> /\ call' = call /\ (GoOn(t, Tail(todo[t])) \/ Return(t, "RESOURCE_ERR"))
    BY <1>5 DEF Wait, AtStep
  <2>2. CallsRight' /\ DOMAIN todo' = Threads /\ res' \in [Threads -> Statuses]
    BY <1>1, <2>1, TailKeeps, ReturnKeeps
  <2>3. QED
    BY <1>1, <1>5, <2>2, CallKept DEF Wait, histVars, TwTypes
<1>6. CASE Param(t)
  <2>1. todo[t] # <<>> /\ call' = call /\ GoOn(t, Tail(todo[t])) /\ param' = ParamOf(call[t])
    BY <1>6 DEF Param, AtStep
  <2>2. CallsRight' /\ DOMAIN todo' = Threads /\ res' \in [Threads -> Statuses]
    BY <2>1, TailKeeps
  <2>3. param' \in Word
    <3>1. call[t] \in [op : Ops \cup {"none"}, image : Images \cup {0}]
      BY <1>1 DEF TwTypes
    <3>2. QED
      BY <2>1, <3>1, ParamWord
  <2>4. UNCHANGED <<flags, cmdReg, mode, busy, hung, call, misread, clean, did>>
    BY <1>6 DEF Param, histVars
  <2>5. QED
    BY <1>1, <2>2, <2>3, <2>4 DEF TwInv, TwTypes
<1>7. CASE Result(t)
  <2>1. todo[t] # <<>> /\ call' = call /\ Answered(t, param)
    BY <1>7 DEF Result, AtStep
  <2>2. CallsRight' /\ DOMAIN todo' = Threads /\ res' \in [Threads -> Statuses]
    BY <2>1, ResultKeeps
  <2>3. QED
    BY <1>1, <1>7, <2>2, CallKept DEF Result, histVars, TwTypes
<1>8. CASE Mode(t)
  <2>1. AtStep(t, "mode") /\ call' = call /\ AfterMode(t, mode = "boot")
    BY <1>8 DEF Mode
  <2>2. CallsRight' /\ DOMAIN todo' = Threads /\ res' \in [Threads -> Statuses]
    <3>1. PICK b \in BOOLEAN : b = (mode = "boot")
      OBVIOUS
    <3>2. AfterMode(t, b)
      BY <2>1, <3>1
    <3>3. QED
      BY <2>1, <3>2, ModeKeeps
  <2>3. misread' \in [Threads -> BOOLEAN]
    BY <1>1, <1>8 DEF Mode, TwTypes
  <2>4. QED
    BY <1>8, <2>2, <2>3, CallKept DEF Mode
<1>9. CASE Reset(t)
  <2>1. /\ todo[t] # <<>> /\ call' = call
        /\ GoOn(t, Tail(todo[t])) \/ Return(t, "INTERNAL_ERR")
    BY <1>9 DEF Reset, AtStep
  <2>2. CallsRight' /\ DOMAIN todo' = Threads /\ res' \in [Threads -> Statuses]
    BY <1>1, <2>1, TailKeeps, ReturnKeeps
  <2>3. param' \in Word
    <3>1. param' = BOOT_SIGNATURE \/ param' = 0
      BY <1>9 DEF Reset
    <3>2. QED
      BY <3>1, Words
  <2>4. flags' = {} /\ cmdReg' = "IDLE" /\ busy' = {} /\ mode' = "boot" /\ hung' \in BOOLEAN
    BY <1>9 DEF Reset, Cleared
  <2>5. clean' \in [Threads -> BOOLEAN] /\ UNCHANGED <<call, misread, did>>
    BY <1>9 DEF Reset
  <2>6. QED
    BY <1>1, <2>2, <2>3, <2>4, <2>5 DEF TwInv, TwTypes
<1>10. CASE PowerOnReset(t)
  <2>1. todo[t] # <<>> /\ call' = call /\ GoOn(t, Tail(todo[t]))
    BY <1>10 DEF PowerOnReset, AtStep
  <2>2. CallsRight' /\ DOMAIN todo' = Threads /\ res' \in [Threads -> Statuses]
    BY <2>1, TailKeeps
  <2>3. param' \in Word
    BY <1>10, Words DEF PowerOnReset
  <2>4. /\ flags' = {} /\ cmdReg' = "IDLE" /\ busy' = {} /\ mode' \in {"boot", "app"}
        /\ hung' = FALSE /\ UNCHANGED <<call, misread, clean, did>>
    BY <1>10 DEF PowerOnReset, Cleared, histVars
  <2>5. QED
    BY <1>1, <2>2, <2>3, <2>4 DEF TwInv, TwTypes
<1>11. CASE Data(t)
  <2>1. todo[t] # <<>> /\ call' = call /\ GoOn(t, Tail(todo[t]))
    BY <1>11 DEF Data, AtStep
  <2>2. CallsRight' /\ DOMAIN todo' = Threads /\ res' \in [Threads -> Statuses]
    BY <2>1, TailKeeps
  <2>3. QED
    BY <1>1, <1>11, <2>2, CallKept DEF Data, histVars, TwTypes
<1>12. CASE Count(t)
  <2>1. todo[t] # <<>> /\ call' = call /\ (GoOn(t, Tail(todo[t])) \/ Return(t, "INVALID_ARG"))
    BY <1>12 DEF Count, AtStep
  <2>2. CallsRight' /\ DOMAIN todo' = Threads /\ res' \in [Threads -> Statuses]
    BY <1>1, <2>1, TailKeeps, ReturnKeeps
  <2>3. QED
    BY <1>1, <1>12, <2>2, CallKept DEF Count, histVars, TwTypes
<1>13. QED
  BY <1>2, <1>3, <1>4, <1>5, <1>6, <1>7, <1>8, <1>9, <1>10, <1>11, <1>12 DEF Step

LEMMA BusErrorKeeps ==
  ASSUME TwInv, NEW t \in Threads, BusError(t)
  PROVE  TwInv'
<1>1. /\ todo[t] # <<>> /\ UNCHANGED <<devVars, call, clean, did>>
      /\ misread' = [misread EXCEPT ![t] = @ \/ AtStep(t, "mode")]
  BY DEF BusError
<1>2. \/ AtStep(t, "mode") /\ AfterMode(t, TRUE)
      \/ Answered(t, BUS_ERROR)
      \/ Return(t, "INTERNAL_ERR")
  BY DEF BusError
<1>3. "INTERNAL_ERR" \in Statuses /\ misread \in [Threads -> BOOLEAN]
  BY DEF TwInv, TwTypes, Statuses
<1>4. CallsRight' /\ DOMAIN todo' = Threads /\ res' \in [Threads -> Statuses]
  <2>1. call' = call
    BY <1>1
  <2>2. QED
    BY <1>1, <1>2, <1>3, <2>1, ModeKeeps, ResultKeeps, ReturnKeeps
<1>5. misread' \in [Threads -> BOOLEAN]
  <2>1. PICK b \in BOOLEAN : b = (misread[t] \/ AtStep(t, "mode"))
    OBVIOUS
  <2>2. misread' = [misread EXCEPT ![t] = b]
    BY <1>1, <2>1
  <2>3. QED
    BY <1>3, <2>2
<1>6. QED
  BY <1>1, <1>4, <1>5, CallKept

\* The device.
LEMMA DeviceKeeps ==
  ASSUME TwInv, Device
  PROVE  TwInv'
<1>1. TwTypes /\ CallsRight
  BY DEF TwInv
<1>2. UNCHANGED <<call, todo, res, misread, clean>>
  BY DEF Device, DevTake, DevFinish, DevHang, histVars
<1>3. CallsRight'
  BY <1>1, <1>2 DEF CallsRight
<1>4. CASE DevTake
  <2>1. flags' = {} /\ UNCHANGED <<cmdReg, param, mode, hung, did>>
    BY <1>4 DEF DevTake, histVars
  <2>2. busy' \subseteq [cmd : Commands, param : Word]
    <3>1. cmdReg = "IDLE" => busy' = {}
      BY <1>4 DEF DevTake
    <3>2. cmdReg # "IDLE" => busy' = {[cmd |-> cmdReg, param |-> param]}
      BY <1>4 DEF DevTake
    <3>3. cmdReg # "IDLE" => cmdReg \in Commands
      BY <1>1 DEF TwTypes
    <3>4. param \in Word
      BY <1>1 DEF TwTypes
    <3>5. QED
      BY <3>1, <3>2, <3>3, <3>4
  <2>3. QED
    BY <1>1, <1>2, <1>3, <2>1, <2>2 DEF TwInv, TwTypes
<1>5. CASE DevFinish
  <2>1. /\ busy' = {} /\ cmdReg' = "IDLE" /\ UNCHANGED <<flags, hung>>
    BY <1>5 DEF DevFinish
  <2>2. PICK b \in busy :
          \/ /\ param' = Val(Success(b.cmd))
             /\ mode' = IF b.cmd = "FWR_GO" THEN "app" ELSE mode
             /\ did' = [t \in Threads |->
                  did[t] \cup {<<b.cmd, IF b.cmd \in WithParam THEN b.param ELSE 0>>}]
          \/ /\ param' \in {Val(v) : v \in Failures(b.cmd)}
             /\ UNCHANGED <<mode, did>>
    BY <1>5 DEF DevFinish
  <2>3. b.cmd \in Commands /\ b.param \in Word
    BY <1>1 DEF TwTypes
  <2>4. param' \in Word
    BY <2>2, FailureWords, ValWord
  <2>5. mode' \in {"boot", "app"}
    BY <1>1, <2>2 DEF TwTypes
  <2>6. did' \in [Threads -> SUBSET (Commands \X Word)]
    <3>1. PICK p : p = IF b.cmd \in WithParam THEN b.param ELSE 0
      OBVIOUS
    <3>2. p \in Word
      BY <2>3, <3>1, Words
    <3>3. did \in [Threads -> SUBSET (Commands \X Word)]
      BY <1>1 DEF TwTypes
    <3>4. CASE did' = did
      BY <3>3, <3>4
    <3>5. CASE did' = [t \in Threads |-> did[t] \cup {<<b.cmd, p>>}]
      BY <2>3, <3>2, <3>3, <3>5
    <3>6. QED
      BY <2>2, <3>1, <3>4, <3>5
  <2>7. QED
    BY <1>1, <1>2, <1>3, <2>1, <2>4, <2>5, <2>6 DEF TwInv, TwTypes
<1>6. CASE DevHang
  <2>1. hung' = TRUE /\ UNCHANGED <<flags, cmdReg, param, mode, busy, did>>
    BY <1>6 DEF DevHang, histVars
  <2>2. QED
    BY <1>1, <1>2, <1>3, <2>1 DEF TwInv, TwTypes
<1>7. QED
  BY <1>4, <1>5, <1>6 DEF Device

\* Registers keep their widths and calls their order, however many threads there are, whatever
\* fails and whenever the device hangs.
THEOREM TwInductive == Spec => []TwInv
<1>1. TwInv /\ [Next]_twVars => TwInv'
  <2>1. SUFFICES ASSUME TwInv, [Next]_twVars
                 PROVE  TwInv'
    OBVIOUS
  <2>2. CASE Next
    BY <2>1, <2>2, CallTwKeeps, AccessKeeps, BusErrorKeeps, DeviceKeeps DEF Next
  <2>3. CASE UNCHANGED twVars
    <3>1. UNCHANGED <<flags, cmdReg, param, mode, busy, hung, call, todo, res, misread, clean, did>>
      BY <2>3 DEF twVars, devVars, histVars
    <3>2. TwTypes'
      BY <2>1, <3>1 DEF TwInv, TwTypes
    <3>3. CallsRight'
      BY <2>1, <3>1 DEF TwInv, CallsRight
    <3>4. QED
      BY <3>2, <3>3 DEF TwInv
  <2>4. QED
    BY <2>1, <2>2, <2>3
<1>2. QED
  BY <1>1, InitTw, PTL DEF Spec

\* TypeOK: every register keeps its width, and every thread a known access to make.
THEOREM TwTypesRight == Spec => []TypeOK
<1>1. TwInv => TypeOK
  <2>1. SUFFICES ASSUME TwInv
                 PROVE  TypeOK
    OBVIOUS
  <2>2. \A t \in Threads : \A i \in DOMAIN todo[t] : todo[t][i][1] \in Labels
    <3>1. SUFFICES ASSUME NEW t \in Threads, NEW i \in DOMAIN todo[t]
                   PROVE  todo[t][i][1] \in Labels
      OBVIOUS
    <3>2. todo[t] \in Seq(Tasks)
      BY <2>1 DEF TwInv, CallsRight
    <3>3. PICK s : s = todo[t]
      OBVIOUS
    <3>4. s \in Seq(Tasks) /\ i \in 1 .. Len(s)
      BY <3>2, <3>3
    <3>5. s[i] \in Tasks
      BY <3>4, ElementOfSeq
    <3>6. QED
      BY <3>3, <3>5, TaskParts
  <2>3. QED
    BY <2>1, <2>2 DEF TwInv, TwTypes, TypeOK, Notices
<1>2. QED
  BY <1>1, TwInductive, PTL

-----------------------------------------------------------------------------
(* A device with one user *)

\* The places of what is left.
Shifted(s, k, L) ==
  /\ L \in Nat /\ Len(s) = 1 + L /\ (k = <<>> <=> L = 0)
  /\ L >= 1 => k[1] = s[2]
  /\ L >= 2 => k[2] = s[3]
  /\ L >= 3 => k[3] = s[4]

LEMMA Places ==
  ASSUME NEW s \in Seq(Tasks), s # <<>>
  PROVE  Shifted(s, Tail(s), Len(Tail(s)))
<1>0. PICK k, L : k = Tail(s) /\ L = Len(k)
  OBVIOUS
<1>1. PICK n : n = Len(s)
  OBVIOUS
<1>2. /\ k \in Seq(Tasks) /\ n \in Nat /\ n >= 1 /\ L = n - 1
      /\ \A i \in 1 .. n - 1 : k[i] = s[i + 1]
      /\ k = <<>> <=> n = 1
  BY <1>0, <1>1, Ahead
<1>3. L \in Nat /\ n = 1 + L /\ n - 1 = L
  BY <1>2
<1>4. \A i \in 1 .. L : k[i] = s[i + 1]
  BY <1>2, <1>3
<1>5. /\ L >= 1 => k[1] = s[1 + 1]
      /\ L >= 2 => k[2] = s[2 + 1]
  BY <1>3, <1>4
<1>6. L >= 3 => k[3] = s[3 + 1]
  BY <1>3, <1>4
<1>7. s[1 + 1] = s[2] /\ s[2 + 1] = s[3] /\ s[3 + 1] = s[4]
  <2>1. 1 + 1 = 2 /\ 2 + 1 = 3 /\ 3 + 1 = 4
    OBVIOUS
  <2>2. QED
    BY <2>1
<1>8. k = <<>> <=> L = 0
  BY <1>2, <1>3
<1>9. QED
  BY <1>0, <1>1, <1>3, <1>5, <1>6, <1>7, <1>8 DEF Shifted

\* The access a call is at, and the one behind it.
Joined(op, s, k) ==
  /\ s \in Seq(Tasks) /\ k \in Seq(Tasks) /\ s[1] \in Tasks /\ OrderedAt(op, s, 1)
  /\ k # <<>> =>
       /\ k[1] = s[2] /\ k[1] \in Tasks /\ Follows(op, s[1][1], k[1][1])
       /\ Len(k) = 1 => Ends(op, k[1][1])
       /\ k[1][1] \in {"mode", "reset"} => k[1] = <<"mode", "save_cfg">> /\ op = "save_cfg"
       /\ k[1][1] = "cmd" => IF Unwaited(op, k[1][2])
                             THEN s[1] = <<"result", "FLASH_INIT">> /\ k[1][2] = "IMG_CFG_SAVE"
                             ELSE s[1][1] = "mbox"
       /\ k[1][1] = "mbox" /\ NeedsParam(k[2]) => s[1][1] = "param"

LEMMA Behind ==
  ASSUME TwInv, NEW t \in Threads, todo[t] # <<>>
  PROVE  Joined(call[t].op, todo[t], Tail(todo[t]))
<1>1. PICK s, k, op, L : s = todo[t] /\ k = Tail(s) /\ op = call[t].op /\ L = Len(k)
  OBVIOUS
<1>2. s \in Seq(Tasks) /\ s # <<>> /\ Ordered(op, s) /\ s[1] \in Tasks
  BY <1>1, AtHead
<1>3. /\ L \in Nat /\ Len(s) = 1 + L /\ (k = <<>> <=> L = 0)
      /\ L >= 1 => k[1] = s[2]
      /\ L >= 2 => k[2] = s[3]
  BY <1>1, <1>2, Places DEF Shifted
<1>4. k \in Seq(Tasks) /\ Ordered(op, k)
  BY <1>1, <1>2, TailOrdered
<1>5. OrderedAt(op, s, 1)
  BY <1>2, <1>3 DEF Ordered
<1>6. ASSUME k # <<>>
      PROVE  /\ k[1] = s[2] /\ k[1] \in Tasks /\ Follows(op, s[1][1], k[1][1])
             /\ L = 1 => Ends(op, k[1][1])
             /\ k[1][1] \in {"mode", "reset"} => k[1] = <<"mode", "save_cfg">> /\ op = "save_cfg"
             /\ k[1][1] = "cmd" => IF Unwaited(op, k[1][2])
                                   THEN s[1] = <<"result", "FLASH_INIT">> /\ k[1][2] = "IMG_CFG_SAVE"
                                   ELSE s[1][1] = "mbox"
             /\ k[1][1] = "mbox" /\ NeedsParam(k[2]) => s[1][1] = "param"
  <2>1. L >= 1 /\ 1 \in 1 .. L /\ k[1] = s[2]
    BY <1>3, <1>6
  <2>2. k[1] \in Tasks
    BY <1>1, <1>4, <2>1, ElementOfSeq
  <2>3. OrderedAt(op, k, 1)
    BY <1>1, <1>4, <2>1 DEF Ordered
  <2>4. Len(s) # 1 /\ 1 + 1 <= Len(s) /\ s[1 + 1] = k[1]
    BY <1>3, <2>1
  <2>5. Follows(op, s[1][1], k[1][1])
    BY <1>5, <2>4 DEF OrderedAt
  <2>6. L = 1 => Ends(op, k[1][1])
    BY <1>1, <2>3 DEF OrderedAt
  <2>7. k[1][1] \in {"mode", "reset"} => k[1] = <<"mode", "save_cfg">>
    BY <1>1, <1>2, <2>1, TailOrdered
  <2>8. k[1] = <<"mode", "save_cfg">> => op = "save_cfg"
    BY <2>3 DEF OrderedAt
  <2>9. k[1][1] = "cmd" => IF Unwaited(op, k[1][2])
                           THEN s[1] = <<"result", "FLASH_INIT">> /\ k[1][2] = "IMG_CFG_SAVE"
                           ELSE s[1][1] = "mbox"
    BY <1>5, <2>4 DEF OrderedAt
  <2>10. k[1][1] = "mbox" /\ NeedsParam(k[2]) => s[1][1] = "param"
    <3>1. SUFFICES ASSUME k[1][1] = "mbox", NeedsParam(k[2])
                   PROVE  s[1][1] = "param"
      OBVIOUS
    <3>2. L >= 2
      BY <1>3, <2>1, <2>6, <3>1 DEF Ends
    <3>3. 1 + 2 <= Len(s) /\ s[1 + 2] = k[2]
      BY <1>3, <3>2
    <3>4. QED
      BY <1>5, <2>4, <3>1, <3>3 DEF OrderedAt
  <2>11. QED
    BY <2>1, <2>2, <2>5, <2>6, <2>7, <2>8, <2>9, <2>10
<1>7. QED
  BY <1>1, <1>2, <1>4, <1>5, <1>6 DEF Joined

\* Where a step leaves its call.
LEMMA Goes ==
  ASSUME TwInv, NEW t \in Threads, todo[t] # <<>>, NEW rest, GoOn(t, rest)
  PROVE  todo'[t] = rest /\ (res'[t] = "SUCCESS" => rest = <<>>)
<1>1. res[t] = "none" /\ DOMAIN todo = Threads /\ res \in [Threads -> Statuses]
  BY DEF TwInv, TwTypes, CallsRight
<1>2. QED
  BY <1>1 DEF GoOn, Return

LEMMA Stops ==
  ASSUME TwInv, NEW t \in Threads, NEW status, Return(t, status)
  PROVE  todo'[t] = <<>> /\ res'[t] = status
<1>1. DOMAIN todo = Threads /\ res \in [Threads -> Statuses]
  BY DEF TwInv, TwTypes
<1>2. QED
  BY <1>1 DEF Return

OneInv(t) == Tidy(t) /\ Acquired(t) /\ Promised(t) /\ Booted(t) /\ Succeeded(t)

\* A call that is over without SUCCESS owes nothing.
LEMMA GivesUp ==
  ASSUME TwInv, NEW t \in Threads, NEW status, status # "SUCCESS", Return(t, status)
  PROVE  OneInv(t)'
<1>1. todo'[t] = <<>> /\ res'[t] # "SUCCESS"
  BY Stops
<1>2. QED
  BY <1>1 DEF OneInv, Tidy, Acquired, Promised, Booted, Uploading, AtStep, Succeeded

\* What was asked goes on being awaited, or has been done.
LEMMA PromiseMoves ==
  ASSUME TwInv, NEW t \in Threads, todo[t] # <<>>, GoOn(t, Tail(todo[t])), call' = call,
         Promised(t), did[t] \subseteq did'[t],
         clean'[t] => clean[t] \/ todo[t][1][1] \in {"mode", "reset"},
         clean'[t] /\ call[t].op \in Commanding /\ Awaited(t, todo[t][1]) => Achieved(t)'
  PROVE  Promised(t)' /\ Succeeded(t)'
<1>1. PICK s, k, L : s = todo[t] /\ k = Tail(s) /\ L = Len(k)
  OBVIOUS
<1>2. todo'[t] = k /\ (res'[t] = "SUCCESS" => k = <<>>)
  BY <1>1, Goes
<1>3. /\ s \in Seq(Tasks) /\ s # <<>> /\ k \in Seq(Tasks) /\ L \in Nat /\ Len(s) = 1 + L
      /\ (k = <<>> <=> L = 0)
      /\ k # <<>> => (k[1][1] \in {"mode", "reset"} => k[1] = <<"mode", "save_cfg">>)
  <2>1. PICK op : op = call[t].op
    OBVIOUS
  <2>2. /\ s \in Seq(Tasks) /\ k \in Seq(Tasks)
        /\ k # <<>> => (k[1][1] \in {"mode", "reset"} => k[1] = <<"mode", "save_cfg">>)
    BY <1>1, <2>1, Behind DEF Joined
  <2>3. Len(s) \in Nat /\ Len(s) >= 1 /\ L = Len(s) - 1 /\ (k = <<>> <=> Len(s) = 1)
    BY <1>1, <2>2, Ahead
  <2>4. L \in Nat /\ Len(s) = 1 + L /\ (k = <<>> <=> L = 0)
    BY <2>3
  <2>5. s # <<>>
    BY <1>1
  <2>6. QED
    BY <2>2, <2>4, <2>5
<1>4. \A i \in 1 .. L : k[i] = s[i + 1]
  <2>1. Len(s) - 1 = L
    BY <1>3
  <2>2. QED
    BY <1>1, <1>3, <2>1, Ahead
<1>5. Achieved(t) => Achieved(t)'
  BY DEF Achieved
<1>6. ASSUME clean'[t], call[t].op \in Commanding
      PROVE  Achieved(t)' \/ \E i \in 1 .. L : Awaited(t, k[i])
  <2>1. Achieved(t) \/ \E i \in 1 .. Len(s) : Awaited(t, s[i])
    BY <1>1, <1>6 DEF Promised
  <2>2. Awaited(t, s[1]) => Achieved(t)'
    BY <1>1, <1>6
  <2>3. \A i \in 1 .. Len(s) : i = 1 \/ (i - 1 \in 1 .. L /\ (i - 1) + 1 = i)
    BY <1>3
  <2>4. \A i \in 1 .. Len(s) : Awaited(t, s[i]) =>
          Achieved(t)' \/ \E j \in 1 .. L : Awaited(t, k[j])
    <3>1. SUFFICES ASSUME NEW i \in 1 .. Len(s), Awaited(t, s[i]), i # 1
                   PROVE  \E j \in 1 .. L : Awaited(t, k[j])
      BY <2>2
    <3>2. PICK j \in 1 .. L : j + 1 = i
      BY <2>3, <3>1
    <3>3. k[j] = s[i]
      BY <1>4, <3>2
    <3>4. QED
      BY <3>1, <3>3
  <2>5. QED
    BY <1>5, <2>1, <2>4
<1>7. \A a : Awaited(t, a) => Awaited(t, a)'
  BY DEF Awaited
<1>8. Promised(t)'
  <2>1. SUFFICES ASSUME k # <<>>, call[t].op \in Commanding, clean'[t] \/ k[1][1] \in {"mode", "reset"}
                 PROVE  Achieved(t)' \/ \E i \in 1 .. L : Awaited(t, k[i])'
    BY <1>1, <1>2 DEF Promised
  <2>2. CASE clean'[t]
    BY <1>6, <1>7, <2>1, <2>2
  <2>3. CASE k[1][1] \in {"mode", "reset"}
    <3>1. Awaited(t, k[1])
      BY <1>3, <2>1, <2>3 DEF Awaited
    <3>2. 1 \in 1 .. L
      BY <1>3, <2>1
    <3>3. QED
      BY <1>7, <3>1, <3>2
  <2>4. QED
    BY <2>1, <2>2, <2>3
<1>9. Succeeded(t)'
  <2>1. SUFFICES ASSUME res'[t] = "SUCCESS", clean'[t], call[t].op \in Commanding
                 PROVE  Achieved(t)'
    BY DEF Succeeded
  <2>2. L = 0
    BY <1>2, <1>3, <2>1
  <2>3. ~ \E i \in 1 .. L : Awaited(t, k[i])
    BY <2>2
  <2>4. QED
    BY <1>6, <2>1, <2>3
<1>10. QED
  BY <1>8, <1>9

\* Most accesses ask nothing of the registers but that no command is outstanding.
LEMMA CalmTidy ==
  ASSUME NEW t, NEW k, todo'[t] = k, clean'[t] => Quiet',
         k # <<>> => /\ k[1][1] \notin {"wait", "result", "notice", "cmd"}
                     /\ k[1][1] = "mbox" => ~NeedsParam(k[2])
                     /\ k[1][1] = "mode" => call'[t].op # "save_cfg"
  PROVE  Tidy(t)' /\ Acquired(t)'
BY DEF Tidy, Acquired

\* What a status of SUCCESS says of the response, and which responses never give it.
LEMMA StatusSays == \A op, c, v : StatusOf(op, c, v) = "SUCCESS" => Val(v) = Success(c)
<1>1. \A v : FlashInitStatus(v) = "SUCCESS" => Val(v) = FLASH_INIT_OK
  BY DEF FlashInitStatus
<1>2. \A v, ok : EraseStatus(v, ok) = "SUCCESS" => Val(v) = ok
  BY DEF EraseStatus
<1>3. \A v : SaveStatus(v) = "SUCCESS" => Val(v) = SUCCESS
  BY DEF SaveStatus
<1>4. SUFFICES ASSUME NEW op, NEW c, NEW v, StatusOf(op, c, v) = "SUCCESS"
               PROVE  Val(v) = Success(c)
  OBVIOUS
<1>5. CASE c = "FLASH_INIT"
  BY <1>1, <1>4, <1>5 DEF StatusOf, Success
<1>6. CASE c = "IMG_CFG_ERASE"
  BY <1>2, <1>4, <1>6 DEF StatusOf, Success
<1>7. CASE c = "ERASE_FLASH_INIT"
  BY <1>2, <1>4, <1>7 DEF StatusOf, Success
<1>8. CASE c \notin {"FLASH_INIT", "IMG_CFG_ERASE", "ERASE_FLASH_INIT"}
  <2>1. Val(v) = SUCCESS
    BY <1>3, <1>4, <1>8 DEF StatusOf
  <2>2. QED
    BY <1>8, <2>1 DEF Success
<1>9. QED
  BY <1>5, <1>6, <1>7, <1>8

LEMMA FailureShows == \A c : \A v \in Failures(c) : Val(Val(v)) # Success(c)
<1>1. SUFFICES ASSUME NEW c, NEW v \in Failures(c)
               PROVE  Val(Val(v)) # Success(c)
  OBVIOUS
<1>2. Val(Val(v)) = v
  BY FailureWords, ValWord
<1>3. v # Success(c)
  BY DEF Failures, Success, SUCCESS, BAD_IMAGE, FLASH_FULL, COMMAND_ERROR, APP_IS_RUNNING,
         INCOMPAT_APP, FLASH_INIT_OK, FLASH_UNRECOG
<1>4. QED
  BY <1>2, <1>3

LEMMA BusErrorShows == \A op, c : StatusOf(op, c, BUS_ERROR) # "SUCCESS"
<1>1. \A c : Success(c) = 0 \/ Success(c) = 24576
  BY DEF Success, SUCCESS, FLASH_INIT_OK
<1>2. Val(1) = 1 \/ Val(1) = 256
  <2>1. 1 = 256 * 0 + 1
    OBVIOUS
  <2>2. 1 \div 256 = 0 /\ 1 % 256 = 1
    BY <2>1, BytesAre
  <2>3. QED
    BY <2>2 DEF Val
<1>3. \A c : Val(BUS_ERROR) # Success(c)
  BY <1>1, <1>2 DEF BUS_ERROR
<1>4. QED
  BY <1>3, StatusSays

LEMMA ImageShows ==
  ASSUME TwInv, NEW t \in Threads, todo[t] # <<>>, call[t].op = "save_cfg"
  PROVE  Val(ParamOf(call[t])) # SUCCESS
<1>1. PICK c : c = call[t]
  OBVIOUS
<1>2. c \in [op : Ops \cup {"none"}, image : Images \cup {0}] /\ c.op = "save_cfg"
  BY <1>1 DEF TwInv, TwTypes
<1>3. c.image # 0
  BY <1>1, <1>2 DEF TwInv, CallsRight, TakesImage
<1>4. ParamOf(c) = Val(c.image)
  BY <1>2 DEF ParamOf
<1>5. Val(Val(c.image)) = c.image
  BY <1>2, ParamWord, ValWord
<1>6. QED
  BY <1>1, <1>3, <1>4, <1>5 DEF SUCCESS

\* What is asked of the device is done when it has done the command the call is about.
LEMMA DoneAsked ==
  ASSUME NEW t, NEW c, CommandFor(call[t], c), Did(t, c), DOMAIN call[t] = {"op", "image"},
         did[t] \subseteq Commands \X Word
  PROVE  Achieved(t)
<1>1. PICK e \in did[t] : e[1] = c /\ (c \in OwnParam => e[2] = ParamOf(call[t]))
  BY DEF Did
<1>2. e = <<e[1], e[2]>>
  BY <1>1
<1>3. Asked(call[t], e)
  BY <1>1, <1>2 DEF CommandFor, Asked, OwnParam, WithParam, ParamOf
<1>4. QED
  BY <1>1, <1>3 DEF Achieved

\* When an access is one that is awaited.
LEMMA AwaitedIs ==
  ASSUME NEW t, NEW c, c = call[t]
  PROVE  /\ Awaited(t, <<"mode", "save_cfg">>)
         /\ \A a : Awaited(t, <<"result", a>>) <=> CommandFor(c, a)
         /\ \A a \in Tasks : Awaited(t, a) => a[1] = "result" \/ a = <<"mode", "save_cfg">>
<1>1. \A a : <<"result", a>>[1] = "result" /\ <<"result", a>>[2] = a
  BY PairParts
<1>2. \A a : <<"result", a>> # <<"mode", "save_cfg">>
  OBVIOUS
<1>3. QED
  BY <1>1, <1>2 DEF Awaited

\* Every call that asks something of the device awaits it from the beginning.
LEMMA ProgHas ==
  ASSUME NEW op \in Operations
  PROVE  /\ op = "load" => Has(Prog(op), <<"result", "IMG_CFG_LOAD">>)
         /\ op = "erase" => Has(Prog(op), <<"result", "IMG_CFG_ERASE">>)
         /\ op = "erase_all" => Has(Prog(op), <<"result", "ERASE_FLASH_INIT">>)
         /\ op = "save" => Has(Prog(op), <<"result", "IMG_CFG_SAVE">>)
         /\ op = "save_cfg" => Has(Prog(op), <<"mode", "save_cfg">>)
         /\ op = "start" => Has(Prog(op), <<"result", "FWR_GO">>)
         /\ op = "conclude" => Has(Prog(op), <<"result", "HOST_LOAD_CMP">>)
<1>1. /\ Prog("load") = LoadErase("IMG_CFG_LOAD") /\ Prog("erase") = LoadErase("IMG_CFG_ERASE")
      /\ Prog("erase_all") = LoadErase("ERASE_FLASH_INIT") /\ Prog("save") = Save
      /\ Prog("save_cfg") = SaveCfg /\ Prog("start") = Start /\ Prog("conclude") = Conclude
  BY DEF Prog
<1>2. \A c \in {"IMG_CFG_LOAD", "IMG_CFG_ERASE", "ERASE_FLASH_INIT"} :
        Has(LoadErase(c), <<"result", c>>)
  <2>1. SUFFICES ASSUME NEW c \in {"IMG_CFG_LOAD", "IMG_CFG_ERASE", "ERASE_FLASH_INIT"}
                 PROVE  Has(LoadErase(c), <<"result", c>>)
    OBVIOUS
  <2>2. c \in OwnParam /\ "load" # "save_cfg"
    BY DEF OwnParam, WithParam
  <2>3. QED
    BY <2>2, LoadEraseOpens
<1>3. QED
  BY <1>1, <1>2, SaveOpens, SaveCfgOpens, StartOpens, ConcludeOpens

LEMMA CallTwSerial ==
  ASSUME TwInv, NEW t \in Threads, NEW op \in Ops, NEW image \in Images, CallTw(t, op, image)
  PROVE  OneInv(t)'
<1>1. /\ DOMAIN todo = Threads /\ res \in [Threads -> Statuses] /\ clean \in [Threads -> BOOLEAN]
      /\ call \in [Threads -> [op : Ops \cup {"none"}, image : Images \cup {0}]]
  BY DEF TwInv, TwTypes
<1>2. PICK c : c = [op |-> op, image |-> image]
  OBVIOUS
<1>3. call'[t] = c /\ c.op = op
  BY <1>1, <1>2 DEF CallTw
<1>4. clean'[t] => Quiet'
  <2>1. clean'[t] = (flags = {} /\ busy = {}) /\ flags' = flags /\ busy' = busy
    BY <1>1 DEF CallTw, devVars
  <2>2. QED
    BY <2>1 DEF Quiet
<1>5. CASE op \in TakesImage /\ image = 0
  <2>1. Return(t, "INVALID_ARG")
    BY <1>5 DEF CallTw
  <2>2. QED
    BY <2>1, GivesUp
<1>6. CASE ~(op \in TakesImage /\ image = 0)
  <2>1. PICK s : s = Prog(op)
    OBVIOUS
  <2>2. todo'[t] = s /\ res'[t] = "none"
    BY <1>1, <1>6, <2>1 DEF CallTw
  <2>3. op \in Operations
    BY TwConstantsOK
  <2>4. Opens(op, s)
    BY <2>1, <2>3, ProgOpens
  <2>5. /\ s # <<>> /\ s[1][1] \in {"mbox", "mode", "data", "count", "access", "por"}
        /\ s[1][1] = "mbox" => ~NeedsParam(s[2])
        /\ s[1][1] = "data" => op # "boot_write"
        /\ s[1][1] = "mode" => op # "save_cfg"
        /\ s \in Seq(Tasks)
    BY <2>4 DEF Opens
  <2>6. Tidy(t)' /\ Acquired(t)'
    BY <1>3, <1>4, <2>2, <2>5, CalmTidy
  <2>7. Booted(t)'
    <3>1. Head(s) = s[1]
      BY <2>5, Ahead
    <3>2. ~(Head(todo'[t])[1] = "data" /\ call'[t].op = "boot_write")
      BY <1>3, <2>2, <2>5, <3>1
    <3>3. QED
      BY <3>2 DEF Booted, Uploading, AtStep
  <2>8. Succeeded(t)'
    BY <2>2 DEF Succeeded
  <2>9. c.op \in Commanding => \E i \in 1 .. Len(s) : Awaited(t, s[i])'
    <3>1. SUFFICES ASSUME c.op \in Commanding
                   PROVE  \E i \in 1 .. Len(s) : Awaited(t, s[i])'
      OBVIOUS
    <3>2. SUFFICES ASSUME NEW a, Has(s, <<"result", a>>), CommandFor(c, a)
                   PROVE  \E i \in 1 .. Len(s) : Awaited(t, s[i])'
      <4>1. op # "save_cfg" => \E a : Has(s, <<"result", a>>) /\ CommandFor(c, a)
        BY <1>3, <2>1, <2>3, <3>1, ProgHas DEF Commanding, CommandFor
      <4>2. CASE op = "save_cfg"
        <5>1. PICK i \in 1 .. Len(s) : s[i] = <<"mode", "save_cfg">>
          BY <2>1, <2>3, <4>2, ProgHas DEF Has
        <5>2. Awaited(t, s[i])'
          BY <5>1 DEF Awaited
        <5>3. QED
          BY <5>2
      <4>3. QED
        BY <4>1, <4>2
    <3>3. PICK i \in 1 .. Len(s) : s[i] = <<"result", a>>
      BY <3>2 DEF Has
    <3>4. s[i][1] = "result" /\ s[i][2] = a
      BY <3>3
    <3>5. Awaited(t, s[i])'
      BY <1>3, <3>2, <3>4 DEF Awaited
    <3>6. QED
      BY <3>5
  <2>10. Promised(t)'
    BY <1>3, <2>2, <2>9 DEF Promised
  <2>11. QED
    BY <2>6, <2>7, <2>8, <2>10 DEF OneInv
<1>7. QED
  BY <1>5, <1>6

\* An access nothing is awaited of.
LEMMA PromiseCalm ==
  ASSUME TwInv, NEW t \in Threads, todo[t] # <<>>, GoOn(t, Tail(todo[t])), call' = call,
         Promised(t), did[t] \subseteq did'[t],
         clean'[t] => clean[t] \/ todo[t][1][1] \in {"mode", "reset"},
         todo[t][1][1] # "result", todo[t][1] # <<"mode", "save_cfg">>
  PROVE  Promised(t)' /\ Succeeded(t)'
<1>1. ~Awaited(t, todo[t][1])
  BY DEF Awaited
<1>2. QED
  BY <1>1, PromiseMoves

\* Blocks are not what comes next.
LEMMA NoUpload ==
  ASSUME NEW t, NEW k \in Seq(Tasks), todo'[t] = k, k # <<>> => k[1][1] # "data"
  PROVE  Booted(t)'
<1>1. k # <<>> => Head(k) = k[1]
  BY Ahead
<1>2. QED
  BY <1>1 DEF Booted, Uploading, AtStep

LEMMA MboxSerial ==
  ASSUME TwInv, NEW t \in Threads, OneInv(t), Mbox(t)
  PROVE  OneInv(t)'
<1>1. /\ todo[t] # <<>> /\ UNCHANGED <<devVars, call, histVars>>
      /\ IF MailboxFree THEN GoOn(t, Tail(todo[t])) ELSE Return(t, "RESOURCE_ERR")
  BY DEF Mbox, AtStep
<1>2. CASE ~MailboxFree
  BY <1>1, <1>2, GivesUp
<1>3. CASE MailboxFree
  <2>1. PICK s, k, op : s = todo[t] /\ k = Tail(s) /\ op = call[t].op
    OBVIOUS
  <2>2. /\ s # <<>> /\ s[1][1] = "mbox" /\ k \in Seq(Tasks)
        /\ k # <<>> => k[1] = s[2] /\ Follows(op, s[1][1], k[1][1])
        /\ k # <<>> /\ k[1][1] = "cmd" => ~Unwaited(op, k[1][2])
    <3>1. s[1][1] = "mbox"
      BY <1>1, <2>1, AtHead DEF Mbox
    <3>2. /\ k \in Seq(Tasks)
          /\ k # <<>> => k[1] = s[2] /\ Follows(op, s[1][1], k[1][1])
      BY <1>1, <2>1, Behind DEF Joined
    <3>3. k # <<>> /\ k[1][1] = "cmd" => ~Unwaited(op, k[1][2])
      <4>1. k # <<>> /\ k[1][1] = "cmd" =>
              IF Unwaited(op, k[1][2])
              THEN s[1] = <<"result", "FLASH_INIT">> /\ k[1][2] = "IMG_CFG_SAVE"
              ELSE s[1][1] = "mbox"
        BY <1>1, <2>1, Behind DEF Joined
      <4>2. QED
        BY <3>1, <4>1
    <3>4. QED
      BY <1>1, <2>1, <3>1, <3>2, <3>3
  <2>3. todo'[t] = k
    BY <1>1, <1>3, <2>1, Goes
  <2>4. k # <<>> => k[1][1] \in {"cmd", "mode"}
    BY <2>2 DEF Follows
  <2>5. Tidy(t)'
    <3>1. SUFFICES ASSUME k # <<>>, clean[t]
                   PROVE  Tidy(t)'
      BY <1>1, <2>3 DEF Tidy, histVars
    <3>2. Quiet /\ (NeedsParam(s[2]) => param = ParamOf(call[t]))
      BY <2>1, <2>2, <3>1 DEF OneInv, Tidy
    <3>3. Quiet' /\ param' = param /\ call' = call
      BY <1>1, <3>2 DEF Quiet, devVars
    <3>4. k[1][1] = "mode" => param' = ParamOf(call'[t])
      BY <2>2, <3>1, <3>2, <3>3 DEF NeedsParam
    <3>5. k[1][1] = "cmd" /\ k[1][2] \in OwnParam => param' = ParamOf(call'[t])
      BY <2>2, <3>1, <3>2, <3>3 DEF NeedsParam
    <3>6. k[1][1] = "cmd" => ~Unwaited(call'[t].op, k[1][2])
      BY <2>1, <2>2, <3>1, <3>3
    <3>7. QED
      BY <2>3, <2>4, <3>1, <3>3, <3>4, <3>5, <3>6 DEF Tidy
  <2>6. Acquired(t)'
    BY <1>1, <1>3 DEF Acquired, MailboxFree, devVars
  <2>7. Promised(t)' /\ Succeeded(t)'
    <3>1. s[1][1] # "result" /\ s[1] # <<"mode", "save_cfg">>
      BY <2>2, PairParts
    <3>2. did[t] \subseteq did'[t] /\ (clean'[t] => clean[t]) /\ call' = call
      BY <1>1 DEF histVars
    <3>3. QED
      BY <1>1, <1>3, <2>1, <3>1, <3>2, PromiseCalm DEF OneInv
  <2>8. Booted(t)'
    BY <2>2, <2>3, <2>4, NoUpload
  <2>9. QED
    BY <2>5, <2>6, <2>7, <2>8 DEF OneInv
<1>4. QED
  BY <1>2, <1>3

LEMMA CmdSerial ==
  ASSUME TwInv, NEW t \in Threads, OneInv(t), Cmd(t)
  PROVE  OneInv(t)'
<1>1. /\ todo[t] # <<>> /\ UNCHANGED <<flags, param, mode, busy, hung, call, misread, clean, did>>
      /\ cmdReg' = Arg(t) /\ GoOn(t, Tail(todo[t]))
  BY DEF Cmd, AtStep, histVars
<1>2. PICK s, k, op, c : s = todo[t] /\ k = Tail(s) /\ op = call[t].op /\ c = s[1][2]
  OBVIOUS
<1>3. /\ s[1][1] = "cmd" /\ cmdReg' = c /\ c \in Commands
  <2>1. s[1][1] = "cmd" /\ Arg(t) = s[1][2] /\ s[1] \in Tasks
    BY <1>1, <1>2, AtHead DEF Cmd
  <2>2. QED
    BY <1>1, <1>2, <2>1, TaskParts
<1>4. s \in Seq(Tasks) /\ s # <<>> /\ k \in Seq(Tasks) /\ OrderedAt(op, s, 1)
  BY <1>1, <1>2, Behind DEF Joined
<1>5. k # <<>> => k[1] = s[2] /\ Follows(op, s[1][1], k[1][1])
  BY <1>1, <1>2, Behind DEF Joined
<1>6. todo'[t] = k
  BY <1>1, <1>2, Goes
<1>7. k # <<>> => k[1][1] = "notice"
  BY <1>3, <1>5 DEF Follows
<1>8. Len(k) > 1 => \/ ~Unwaited(op, c) /\ k[2][1] = "wait" /\ k[3] = <<"result", c>>
                    \/ Unwaited(op, c) /\ k[2] = <<"result", c>>
  <2>1. CommandAt(op, s, 1)
    BY <1>3, <1>4 DEF OrderedAt
  <2>2. PICK L : L = Len(k)
    OBVIOUS
  <2>3. /\ L \in Nat /\ Len(s) = 1 + L /\ (L >= 2 => k[2] = s[3]) /\ (L >= 3 => k[3] = s[4])
    BY <1>2, <1>4, <2>2, Places DEF Shifted
  <2>4. /\ 1 + 3 <= Len(s) => L >= 3
        /\ 1 + 1 = Len(s) => L = 1
        /\ L > 1 => L >= 2
        /\ 1 + 2 = 3 /\ 1 + 3 = 4
    BY <2>3
  <2>5. \/ ~Unwaited(op, c) /\ L >= 3 /\ s[3][1] = "wait" /\ s[4] = <<"result", c>>
        \/ Unwaited(op, c) /\ s[3] = <<"result", c>>
        \/ L = 1
    BY <1>2, <2>1, <2>4 DEF CommandAt
  <2>6. L > 1 => L # 1
    BY <2>3
  <2>7. QED
    BY <2>2, <2>3, <2>4, <2>5, <2>6
<1>9. Tidy(t)'
  <2>1. SUFFICES ASSUME k # <<>>, clean[t]
                 PROVE  Tidy(t)'
    BY <1>1, <1>6 DEF Tidy
  <2>2. Quiet /\ (c \in OwnParam => param = ParamOf(call[t]))
        /\ (Unwaited(op, c) => Val(param) # SUCCESS)
    BY <1>1, <1>2, <1>3, <2>1 DEF OneInv, Tidy
  <2>3. Quiet' /\ param' = param /\ call' = call
    BY <1>1, <2>2 DEF Quiet
  <2>4. cmdReg' \in OwnParam => param' = ParamOf(call'[t])
    BY <1>3, <2>2, <2>3
  <2>5. Len(k) > 1 => \/ ~Unwaited(op, cmdReg') /\ k[2][1] = "wait" /\ k[3] = <<"result", cmdReg'>>
                      \/ Unwaited(op, cmdReg') /\ k[2] = <<"result", cmdReg'>>
                           /\ Val(param') # SUCCESS
    BY <1>3, <1>8, <2>2, <2>3
  <2>6. QED
    BY <1>2, <1>3, <1>6, <1>7, <2>1, <2>3, <2>4, <2>5 DEF Tidy
<1>10. Acquired(t)'
  BY <1>6, <1>7 DEF Acquired
<1>11. Promised(t)' /\ Succeeded(t)'
  <2>1. s[1][1] # "result" /\ s[1] # <<"mode", "save_cfg">>
    BY <1>3, PairParts
  <2>2. did[t] \subseteq did'[t] /\ (clean'[t] => clean[t]) /\ call' = call
    BY <1>1
  <2>3. QED
    BY <1>1, <1>2, <2>1, <2>2, PromiseCalm DEF OneInv
<1>12. Booted(t)'
  BY <1>4, <1>6, <1>7, NoUpload
<1>13. QED
  BY <1>9, <1>10, <1>11, <1>12 DEF OneInv

LEMMA NoticeSerial ==
  ASSUME TwInv, NEW t \in Threads, OneInv(t), Notice(t)
  PROVE  OneInv(t)'
<1>1. /\ todo[t] # <<>> /\ UNCHANGED <<cmdReg, param, mode, busy, hung, call, misread, clean, did>>
      /\ flags' = {Arg(t)} /\ GoOn(t, Tail(todo[t]))
  BY DEF Notice, AtStep, histVars
<1>2. PICK s, k, op : s = todo[t] /\ k = Tail(s) /\ op = call[t].op
  OBVIOUS
<1>3. s[1][1] = "notice"
  BY <1>1, <1>2, AtHead DEF Notice
<1>4. s \in Seq(Tasks) /\ s # <<>> /\ k \in Seq(Tasks)
  BY <1>1, <1>2, Behind DEF Joined
<1>5. k # <<>> => /\ k[1] = s[2] /\ Follows(op, s[1][1], k[1][1])
                  /\ Len(k) = 1 => Ends(op, k[1][1])
  BY <1>1, <1>2, Behind DEF Joined
<1>6. todo'[t] = k
  BY <1>1, <1>2, Goes
<1>7. k # <<>> => k[1][1] \in {"wait", "result"}
  BY <1>3, <1>5 DEF Follows
<1>8. PICK L : L = Len(k)
  OBVIOUS
<1>9. L \in Nat /\ Len(s) = 1 + L /\ (k = <<>> <=> L = 0) /\ (L >= 2 => k[2] = s[3])
  BY <1>2, <1>4, <1>8, Places DEF Shifted
<1>10. Tidy(t)'
  <2>1. SUFFICES ASSUME k # <<>>, clean[t]
                 PROVE  Tidy(t)'
    BY <1>1, <1>6 DEF Tidy
  <2>2. PICK c : c = cmdReg
    OBVIOUS
  <2>3. Len(s) > 1
    BY <1>9, <2>1
  <2>4. /\ Quiet /\ c \in Commands /\ (c \in OwnParam => param = ParamOf(call[t]))
        /\ \/ ~Unwaited(op, c) /\ s[2][1] = "wait" /\ s[3] = <<"result", c>>
           \/ Unwaited(op, c) /\ s[2] = <<"result", c>> /\ Val(param) # SUCCESS
    BY <1>1, <1>2, <1>3, <2>1, <2>2, <2>3 DEF OneInv, Tidy
  <2>5. Pending(t, c)' /\ flags' # {}
    <3>1. flags' # {} /\ busy' = {}
      BY <1>1, <2>4 DEF Quiet
    <3>2. ~Quiet' /\ cmdReg' = c
      BY <1>1, <2>2, <3>1 DEF Quiet
    <3>3. c \in OwnParam => param' = ParamOf(call'[t])
      BY <1>1, <2>4
    <3>4. QED
      BY <3>1, <3>2, <3>3 DEF Pending
  <2>6. CASE ~Unwaited(op, c)
    <3>1. k[1][1] = "wait" /\ s[3] = <<"result", c>>
      BY <1>5, <2>1, <2>4, <2>6
    <3>2. L # 1
      BY <1>5, <1>8, <2>1, <3>1 DEF Ends
    <3>3. k[2] = <<"result", c>>
      BY <1>9, <2>1, <3>1, <3>2
    <3>4. k[2][2] = c
      BY <3>3
    <3>5. ~Unwaited(call'[t].op, c)
      BY <1>1, <1>2, <2>6
    <3>6. QED
      BY <1>6, <2>1, <2>5, <3>1, <3>4, <3>5 DEF Tidy
  <2>7. CASE Unwaited(op, c)
    <3>1. k[1] = <<"result", c>> /\ Val(param') # SUCCESS
      BY <1>1, <1>5, <2>1, <2>4, <2>7
    <3>2. k[1][1] = "result" /\ k[1][2] = c
      BY <3>1
    <3>3. Unwaited(call'[t].op, c)
      BY <1>1, <1>2, <2>7
    <3>4. QED
      BY <1>6, <2>1, <2>5, <3>1, <3>2, <3>3 DEF Tidy
  <2>8. QED
    BY <2>6, <2>7
<1>11. Acquired(t)'
  BY <1>6, <1>7 DEF Acquired
<1>12. Promised(t)' /\ Succeeded(t)'
  <2>1. s[1][1] # "result" /\ s[1] # <<"mode", "save_cfg">>
    BY <1>3, PairParts
  <2>2. did[t] \subseteq did'[t] /\ (clean'[t] => clean[t]) /\ call' = call
    BY <1>1
  <2>3. QED
    BY <1>1, <1>2, <2>1, <2>2, PromiseCalm DEF OneInv
<1>13. Booted(t)'
  BY <1>4, <1>6, <1>7, NoUpload
<1>14. QED
  BY <1>10, <1>11, <1>12, <1>13 DEF OneInv

LEMMA WaitSerial ==
  ASSUME TwInv, NEW t \in Threads, OneInv(t), Wait(t)
  PROVE  OneInv(t)'
<1>1. /\ todo[t] # <<>> /\ UNCHANGED <<devVars, call, histVars>>
      /\ IF cmdReg = "IDLE" THEN GoOn(t, Tail(todo[t])) ELSE Return(t, "RESOURCE_ERR")
  BY DEF Wait, AtStep
<1>2. CASE cmdReg # "IDLE"
  BY <1>1, <1>2, GivesUp
<1>3. CASE cmdReg = "IDLE"
  <2>1. PICK s, k, op : s = todo[t] /\ k = Tail(s) /\ op = call[t].op
    OBVIOUS
  <2>2. s[1][1] = "wait"
    BY <1>1, <2>1, AtHead DEF Wait
  <2>3. k \in Seq(Tasks)
    BY <1>1, <2>1, Behind DEF Joined
  <2>4. k # <<>> => k[1] = s[2] /\ k[1] \in Tasks /\ Follows(op, s[1][1], k[1][1])
    BY <1>1, <2>1, Behind DEF Joined
  <2>5. todo'[t] = k
    BY <1>1, <1>3, <2>1, Goes
  <2>6. k # <<>> => k[1][1] = "result" /\ k[1][2] \in Commands
    <3>1. k # <<>> => k[1][1] = "result"
      BY <2>2, <2>4 DEF Follows
    <3>2. QED
      BY <2>4, <3>1, TaskParts
  <2>7. Tidy(t)'
    <3>1. SUFFICES ASSUME k # <<>>, clean[t]
                   PROVE  Tidy(t)'
      BY <1>1, <2>5 DEF Tidy, histVars
    <3>2. PICK c : c = k[1][2]
      OBVIOUS
    <3>3. Pending(t, c) /\ ~Unwaited(op, c)
      <4>1. s[2][2] = c
        BY <2>4, <3>1, <3>2
      <4>2. QED
        BY <1>1, <2>1, <2>2, <3>1, <4>1 DEF OneInv, Tidy
    <3>4. Quiet /\ Told(t, c)
      <4>1. c # "IDLE"
        BY <2>6, <3>1, <3>2 DEF Commands, AppCommands, WithParam
      <4>2. QED
        BY <1>3, <3>3, <4>1 DEF Pending
    <3>5. Quiet' /\ Told(t, c)'
      BY <1>1, <3>4 DEF Quiet, Told, Did, devVars, histVars
    <3>6. ~Unwaited(call'[t].op, c)
      BY <1>1, <2>1, <3>3
    <3>7. QED
      BY <2>5, <2>6, <3>1, <3>2, <3>5, <3>6 DEF Tidy
  <2>8. Acquired(t)'
    BY <2>5, <2>6 DEF Acquired
  <2>9. Promised(t)' /\ Succeeded(t)'
    <3>1. s[1][1] # "result" /\ s[1] # <<"mode", "save_cfg">>
      BY <2>2, PairParts
    <3>2. did[t] \subseteq did'[t] /\ (clean'[t] => clean[t]) /\ call' = call
      BY <1>1 DEF histVars
    <3>3. QED
      BY <1>1, <1>3, <2>1, <3>1, <3>2, PromiseCalm DEF OneInv
  <2>10. Booted(t)'
    BY <2>3, <2>5, <2>6, NoUpload
  <2>11. QED
    BY <2>7, <2>8, <2>9, <2>10 DEF OneInv
<1>4. QED
  BY <1>2, <1>3

LEMMA ParamSerial ==
  ASSUME TwInv, NEW t \in Threads, OneInv(t), Param(t)
  PROVE  OneInv(t)'
<1>1. /\ todo[t] # <<>> /\ UNCHANGED <<flags, cmdReg, mode, busy, hung, call, misread, clean, did>>
      /\ param' = ParamOf(call[t]) /\ GoOn(t, Tail(todo[t]))
  BY DEF Param, AtStep, histVars
<1>2. PICK s, k, op : s = todo[t] /\ k = Tail(s) /\ op = call[t].op
  OBVIOUS
<1>3. s[1][1] = "param"
  BY <1>1, <1>2, AtHead DEF Param
<1>4. k \in Seq(Tasks)
  BY <1>1, <1>2, Behind DEF Joined
<1>5. k # <<>> => k[1] = s[2] /\ Follows(op, s[1][1], k[1][1])
  BY <1>1, <1>2, Behind DEF Joined
<1>6. todo'[t] = k
  BY <1>1, <1>2, Goes
<1>7. k # <<>> => k[1][1] = "mbox"
  BY <1>3, <1>5 DEF Follows
<1>8. Tidy(t)'
  <2>1. SUFFICES ASSUME k # <<>>, clean[t]
                 PROVE  Tidy(t)'
    BY <1>1, <1>6 DEF Tidy
  <2>2. Quiet
    BY <1>1, <1>2, <1>3, <2>1 DEF OneInv, Tidy
  <2>3. Quiet' /\ param' = ParamOf(call'[t])
    BY <1>1, <2>2 DEF Quiet
  <2>4. QED
    BY <1>6, <1>7, <2>1, <2>3 DEF Tidy
<1>9. Acquired(t)'
  BY <1>6, <1>7 DEF Acquired
<1>10. Promised(t)' /\ Succeeded(t)'
  <2>1. s[1][1] # "result" /\ s[1] # <<"mode", "save_cfg">>
    BY <1>3, PairParts
  <2>2. did[t] \subseteq did'[t] /\ (clean'[t] => clean[t]) /\ call' = call
    BY <1>1
  <2>3. QED
    BY <1>1, <1>2, <2>1, <2>2, PromiseCalm DEF OneInv
<1>11. Booted(t)'
  BY <1>4, <1>6, <1>7, NoUpload
<1>12. QED
  BY <1>8, <1>9, <1>10, <1>11 DEF OneInv

\* An access that leaves the mailbox alone.
LEMMA AccessSerial ==
  ASSUME TwInv, NEW t \in Threads, OneInv(t), todo[t] # <<>>,
         todo[t][1][1] \in {"data", "access", "count"},
         GoOn(t, Tail(todo[t])), UNCHANGED <<devVars, call, histVars>>
  PROVE  OneInv(t)'
<1>1. PICK s, k, op : s = todo[t] /\ k = Tail(s) /\ op = call[t].op
  OBVIOUS
<1>2. s[1][1] \in {"data", "access", "count"}
  BY <1>1
<1>3. k \in Seq(Tasks)
  BY <1>1, Behind DEF Joined
<1>4. k # <<>> => /\ Follows(op, s[1][1], k[1][1])
                  /\ k[1][1] = "mbox" /\ NeedsParam(k[2]) => s[1][1] = "param"
  BY <1>1, Behind DEF Joined
<1>5. todo'[t] = k
  BY <1>1, Goes
<1>6. k # <<>> => k[1][1] \in {"mbox", "param", "access"}
  BY <1>2, <1>4 DEF Follows
<1>7. Tidy(t)' /\ Acquired(t)'
  <2>1. clean'[t] => Quiet'
    <3>1. clean[t] => Quiet
      BY <1>1, <1>2 DEF OneInv, Tidy
    <3>2. QED
      BY <3>1 DEF Quiet, devVars, histVars
  <2>2. k # <<>> => (k[1][1] = "mbox" => ~NeedsParam(k[2]))
    BY <1>2, <1>4
  <2>3. QED
    BY <1>5, <1>6, <2>1, <2>2, CalmTidy
<1>8. Promised(t)' /\ Succeeded(t)'
  <2>1. s[1][1] # "result" /\ s[1] # <<"mode", "save_cfg">>
    BY <1>2, PairParts
  <2>2. did[t] \subseteq did'[t] /\ (clean'[t] => clean[t]) /\ call' = call
    BY DEF histVars
  <2>3. QED
    BY <1>1, <2>1, <2>2, PromiseCalm DEF OneInv
<1>9. Booted(t)'
  BY <1>3, <1>5, <1>6, NoUpload
<1>10. QED
  BY <1>7, <1>8, <1>9 DEF OneInv

LEMMA DataSerial ==
  ASSUME TwInv, NEW t \in Threads, OneInv(t), Data(t)
  PROVE  OneInv(t)'
<1>1. todo[t] # <<>> /\ GoOn(t, Tail(todo[t])) /\ UNCHANGED <<devVars, call, histVars>>
  BY DEF Data, AtStep
<1>2. todo[t][1][1] \in {"data", "access", "count"}
  BY <1>1, AtHead DEF Data
<1>3. QED
  BY <1>1, <1>2, AccessSerial

LEMMA CountSerial ==
  ASSUME TwInv, NEW t \in Threads, OneInv(t), Count(t)
  PROVE  OneInv(t)'
<1>1. /\ todo[t] # <<>> /\ UNCHANGED <<devVars, call, histVars>>
      /\ GoOn(t, Tail(todo[t])) \/ Return(t, "INVALID_ARG")
  BY DEF Count, AtStep
<1>2. todo[t][1][1] \in {"data", "access", "count"}
  BY <1>1, AtHead DEF Count
<1>3. QED
  BY <1>1, <1>2, AccessSerial, GivesUp

LEMMA PowerOnResetSerial ==
  ASSUME TwInv, NEW t \in Threads, OneInv(t), PowerOnReset(t)
  PROVE  OneInv(t)'
<1>1. /\ todo[t] # <<>> /\ GoOn(t, Tail(todo[t])) /\ UNCHANGED <<call, misread, clean, did>>
  BY DEF PowerOnReset, AtStep, histVars
<1>2. PICK s, k, op : s = todo[t] /\ k = Tail(s) /\ op = call[t].op
  OBVIOUS
<1>3. s[1][1] = "por"
  BY <1>1, <1>2, AtHead DEF PowerOnReset
<1>4. k # <<>> => Follows(op, s[1][1], k[1][1])
  BY <1>1, <1>2, Behind DEF Joined
<1>5. k = <<>>
  BY <1>3, <1>4 DEF Follows
<1>6. todo'[t] = <<>>
  BY <1>1, <1>2, <1>5, Goes
<1>7. Promised(t)' /\ Succeeded(t)'
  <2>1. s[1][1] # "result" /\ s[1] # <<"mode", "save_cfg">>
    BY <1>3, PairParts
  <2>2. did[t] \subseteq did'[t] /\ (clean'[t] => clean[t]) /\ call' = call
    BY <1>1
  <2>3. QED
    BY <1>1, <1>2, <2>1, <2>2, PromiseCalm DEF OneInv
<1>8. QED
  BY <1>6, <1>7 DEF OneInv, Tidy, Acquired, Booted, Uploading, AtStep

LEMMA ResetSerial ==
  ASSUME TwInv, NEW t \in Threads, OneInv(t), Reset(t)
  PROVE  OneInv(t)'
<1>1. /\ todo[t] # <<>> /\ UNCHANGED <<call, misread, did>>
      /\ flags' = {} /\ busy' = {} /\ mode' = "boot"
      /\ GoOn(t, Tail(todo[t])) \/ Return(t, "INTERNAL_ERR")
  BY DEF Reset, AtStep, Cleared
<1>2. CASE Return(t, "INTERNAL_ERR")
  BY <1>2, GivesUp
<1>3. CASE GoOn(t, Tail(todo[t]))
  <2>1. PICK s, k, op : s = todo[t] /\ k = Tail(s) /\ op = call[t].op
    OBVIOUS
  <2>2. s[1][1] = "reset"
    BY <1>1, <2>1, AtHead DEF Reset
  <2>3. k # <<>> => /\ Follows(op, s[1][1], k[1][1])
                    /\ k[1][1] = "mbox" /\ NeedsParam(k[2]) => s[1][1] = "param"
    BY <1>1, <2>1, Behind DEF Joined
  <2>4. todo'[t] = k
    BY <1>1, <1>3, <2>1, Goes
  <2>5. k # <<>> => k[1][1] \in {"mbox", "data"}
    BY <2>2, <2>3 DEF Follows
  <2>6. Tidy(t)' /\ Acquired(t)'
    <3>1. Quiet'
      BY <1>1 DEF Quiet
    <3>2. k # <<>> => (k[1][1] = "mbox" => ~NeedsParam(k[2]))
      BY <2>2, <2>3
    <3>3. QED
      BY <2>4, <2>5, <3>1, <3>2, CalmTidy
  <2>7. Promised(t)' /\ Succeeded(t)'
    <3>1. s[1][1] # "result" /\ s[1] # <<"mode", "save_cfg">> /\ s[1][1] \in {"mode", "reset"}
      BY <2>2, PairParts
    <3>2. did[t] \subseteq did'[t] /\ call' = call
      BY <1>1
    <3>3. QED
      BY <1>1, <1>3, <2>1, <3>1, <3>2, PromiseCalm DEF OneInv
  <2>8. Booted(t)'
    BY <1>1 DEF Booted
  <2>9. QED
    BY <2>6, <2>7, <2>8 DEF OneInv
<1>4. QED
  BY <1>1, <1>2, <1>3

LEMMA ResultSerial ==
  ASSUME TwInv, NEW t \in Threads, OneInv(t), Result(t)
  PROVE  OneInv(t)'
<1>1. /\ todo[t] # <<>> /\ UNCHANGED <<devVars, call, histVars>> /\ Answered(t, param)
  BY DEF Result, AtStep
<1>2. PICK s, k, op, c : s = todo[t] /\ k = Tail(s) /\ op = call[t].op /\ c = s[1][2]
  OBVIOUS
<1>3. s[1] = <<"result", c>> /\ s[1][1] = "result" /\ c \in Commands /\ Arg(t) = c
  <2>1. s[1][1] = "result" /\ Arg(t) = s[1][2] /\ s[1] \in Tasks
    BY <1>1, <1>2, AtHead DEF Result
  <2>2. QED
    BY <1>2, <2>1, TaskParts
<1>4. CASE StatusOf(op, c, param) # "SUCCESS"
  <2>1. PICK status : status = StatusOf(op, c, param)
    OBVIOUS
  <2>2. status # "SUCCESS" /\ Return(t, status)
    BY <1>1, <1>2, <1>3, <1>4, <2>1 DEF Answered
  <2>3. QED
    BY <2>2, GivesUp
<1>5. CASE StatusOf(op, c, param) = "SUCCESS"
  <2>1. GoOn(t, Tail(todo[t]))
    BY <1>1, <1>2, <1>3, <1>5 DEF Answered
  <2>2. Val(param) = Success(c)
    BY <1>5, StatusSays
  <2>3. clean[t] => Quiet /\ Did(t, c)
    <3>1. SUFFICES ASSUME clean[t]
                   PROVE  Quiet /\ Did(t, c)
      OBVIOUS
    <3>2. IF Unwaited(op, c) THEN Pending(t, c) /\ (~Quiet => Val(param) # SUCCESS)
                             ELSE Quiet /\ Told(t, c)
      BY <1>1, <1>2, <1>3, <3>1 DEF OneInv, Tidy
    <3>3. Unwaited(op, c) => Success(c) = SUCCESS
      BY DEF Unwaited, Success
    <3>4. Quiet /\ Told(t, c)
      BY <2>2, <3>2, <3>3 DEF Pending
    <3>5. QED
      BY <2>2, <3>4 DEF Told
  <2>4. k \in Seq(Tasks)
    BY <1>1, <1>2, Behind DEF Joined
  <2>5. k # <<>> => /\ Follows(op, s[1][1], k[1][1])
                    /\ k[1][1] = "cmd" =>
                         IF Unwaited(op, k[1][2])
                           THEN s[1] = <<"result", "FLASH_INIT">> /\ k[1][2] = "IMG_CFG_SAVE"
                           ELSE s[1][1] = "mbox"
    BY <1>1, <1>2, Behind DEF Joined
  <2>6. todo'[t] = k
    BY <1>2, <2>1, Goes, <1>1
  <2>7. k # <<>> => k[1][1] \in {"param", "access", "cmd"}
    BY <1>3, <2>5 DEF Follows
  <2>8. clean'[t] => Quiet'
    BY <1>1, <2>3 DEF Quiet, devVars, histVars
  <2>9. Tidy(t)' /\ Acquired(t)'
    <3>1. CASE k # <<>> /\ k[1][1] = "cmd"
      <4>1. Unwaited(op, k[1][2]) /\ c = "FLASH_INIT" /\ k[1][2] = "IMG_CFG_SAVE"
        BY <1>3, <2>5, <3>1
      <4>2. op = "save_cfg" /\ k[1][2] \notin OwnParam
        BY <4>1 DEF Unwaited, OwnParam, WithParam
      <4>3. Val(param) # SUCCESS
        BY <2>2, <4>1 DEF Success, FLASH_INIT_OK, SUCCESS
      <4>4. Val(param') # SUCCESS /\ call'[t].op = "save_cfg"
        BY <1>1, <1>2, <4>2, <4>3 DEF devVars
      <4>5. Tidy(t)'
        BY <2>6, <2>8, <3>1, <4>2, <4>4 DEF Tidy
      <4>6. Acquired(t)'
        BY <4>4 DEF Acquired
      <4>7. QED
        BY <4>5, <4>6
    <3>2. CASE ~(k # <<>> /\ k[1][1] = "cmd")
      BY <2>6, <2>7, <2>8, <3>2, CalmTidy
    <3>3. QED
      BY <3>1, <3>2
  <2>10. Promised(t)' /\ Succeeded(t)'
    <3>1. did' = did /\ call' = call /\ (clean'[t] => clean[t])
      BY <1>1 DEF histVars
    <3>2. clean'[t] /\ Awaited(t, todo[t][1]) => Achieved(t)'
      <4>1. Awaited(t, todo[t][1]) => CommandFor(call[t], c)
        BY <1>2, <1>3, AwaitedIs
      <4>2. DOMAIN call[t] = {"op", "image"} /\ did[t] \subseteq Commands \X Word
        BY DEF TwInv, TwTypes
      <4>3. Did(t, c) /\ CommandFor(call[t], c) => Achieved(t)
        BY <4>2, DoneAsked
      <4>4. Achieved(t) => Achieved(t)'
        BY <3>1 DEF Achieved
      <4>5. QED
        BY <2>3, <3>1, <4>1, <4>3, <4>4
    <3>3. QED
      BY <1>1, <2>1, <3>1, <3>2, PromiseMoves DEF OneInv
  <2>11. Booted(t)'
    BY <2>4, <2>6, <2>7, NoUpload
  <2>12. QED
    BY <2>9, <2>10, <2>11 DEF OneInv
<1>6. QED
  BY <1>4, <1>5

\* What a call does with the mode it has read, or taken a failed read for.
LEMMA AfterModeSerial ==
  ASSUME TwInv, NEW t \in Threads, OneInv(t), AtStep(t, "mode"), NEW boot \in BOOLEAN,
         AfterMode(t, boot), UNCHANGED <<devVars, call, clean, did>>,
         boot => misread'[t] \/ mode = "boot"
  PROVE  OneInv(t)'
<1>1. todo[t] # <<>>
  BY DEF AtStep
<1>2. PICK s, k, op : s = todo[t] /\ k = Tail(s) /\ op = call[t].op
  OBVIOUS
<1>3. /\ s[1] = <<"mode", s[1][2]>> /\ s[1][1] = "mode" /\ Arg(t) = s[1][2]
      /\ s[1][2] \in {"boot", "start", "save_cfg"}
  <2>1. s[1][1] = "mode" /\ Arg(t) = s[1][2] /\ s[1] \in Tasks
    BY <1>1, <1>2, AtHead
  <2>2. QED
    BY <2>1, TaskParts
<1>4. s \in Seq(Tasks) /\ s # <<>> /\ Ordered(op, s) /\ OrderedAt(op, s, 1) /\ k \in Seq(Tasks)
  BY <1>1, <1>2, AtHead, Behind DEF Joined
<1>5. clean'[t] => Quiet'
  <2>1. clean[t] => Quiet
    BY <1>1, <1>2, <1>3 DEF OneInv, Tidy
  <2>2. QED
    BY <2>1 DEF Quiet, devVars
<1>6. ASSUME GoOn(t, Tail(todo[t])), boot, s[1][2] # "save_cfg"
      PROVE  OneInv(t)'
  <2>1. k # <<>> => /\ Follows(op, s[1][1], k[1][1])
                    /\ k[1][1] = "mbox" /\ NeedsParam(k[2]) => s[1][1] = "param"
    BY <1>1, <1>2, Behind DEF Joined
  <2>2. todo'[t] = k
    BY <1>1, <1>2, <1>6, Goes
  <2>3. k # <<>> => k[1][1] \in {"mbox", "data"} /\ (k[1][1] = "mbox" => ~NeedsParam(k[2]))
    BY <1>3, <2>1 DEF Follows
  <2>4. Tidy(t)' /\ Acquired(t)'
    BY <1>5, <2>2, <2>3, CalmTidy
  <2>5. Promised(t)' /\ Succeeded(t)'
    <3>1. todo[t][1][1] # "result" /\ todo[t][1] # <<"mode", "save_cfg">>
      BY <1>2, <1>3, <1>6, PairParts
    <3>2. did[t] \subseteq did'[t] /\ (clean'[t] => clean[t]) /\ call' = call
      OBVIOUS
    <3>3. QED
      BY <1>1, <1>6, <3>1, <3>2, PromiseCalm DEF OneInv
  <2>6. Booted(t)'
    BY <1>6 DEF Booted, devVars
  <2>7. QED
    BY <2>4, <2>5, <2>6 DEF OneInv
<1>7. CASE s[1][2] = "start"
  <2>1. CASE boot
    <3>1. GoOn(t, Tail(todo[t]))
      BY <1>3, <1>7, <2>1 DEF AfterMode
    <3>2. QED
      BY <1>6, <1>7, <2>1, <3>1
  <2>2. CASE ~boot
    <3>1. Return(t, "INVALID_STATE")
      BY <1>3, <1>7, <2>2 DEF AfterMode
    <3>2. QED
      BY <3>1, GivesUp
  <2>3. QED
    BY <2>1, <2>2
<1>8. CASE s[1][2] = "boot"
  <2>1. CASE boot
    <3>1. GoOn(t, Tail(todo[t]))
      BY <1>3, <1>8, <2>1 DEF AfterMode
    <3>2. QED
      BY <1>6, <1>8, <2>1, <3>1
  <2>2. CASE ~boot
    <3>1. PICK a, r : a = <<"reset", "none">> /\ r = <<a>> \o k
      OBVIOUS
    <3>2. GoOn(t, r)
      BY <1>2, <1>3, <1>8, <2>2, <3>1 DEF AfterMode
    <3>3. a \in Tasks /\ a[1] = "reset"
      BY <3>1, TasksAre DEF Plain
    <3>4. r \in Seq(Tasks) /\ r # <<>> /\ r[1] = a
      BY <1>4, <3>1, <3>3, Front
    <3>5. todo'[t] = r /\ res'[t] # "SUCCESS"
      BY <1>1, <3>2, <3>4, Goes
    <3>6. Tidy(t)' /\ Acquired(t)'
      BY <1>5, <3>3, <3>4, <3>5, CalmTidy
    <3>7. Succeeded(t)'
      BY <3>5 DEF Succeeded
    <3>8. Booted(t)'
      BY <3>3, <3>4, <3>5, NoUpload
    <3>9. Promised(t)'
      <4>1. SUFFICES ASSUME call[t].op \in Commanding
                     PROVE  Achieved(t)' \/ \E i \in 1 .. Len(r) : Awaited(t, r[i])'
        BY <3>5 DEF Promised
      <4>2. Achieved(t) \/ \E i \in 1 .. Len(s) : Awaited(t, s[i])
        BY <1>1, <1>2, <1>3, <4>1 DEF OneInv, Promised
      <4>3. Achieved(t) => Achieved(t)'
        BY DEF Achieved
      <4>4. ASSUME NEW i \in 1 .. Len(s), Awaited(t, s[i])
            PROVE  \E j \in 1 .. Len(r) : r[j] = s[i]
        <5>1. PICK L : L = Len(k)
          OBVIOUS
        <5>2. L \in Nat /\ Len(s) = 1 + L
          BY <1>2, <1>4, <5>1, Places DEF Shifted
        <5>3. i # 1
          BY <1>3, <1>8, <4>4, PairParts DEF Awaited
        <5>4. PICK m \in 1 .. L : i = m + 1
          <6>1. i - 1 \in 1 .. L /\ i = (i - 1) + 1
            BY <5>2, <5>3
          <6>2. QED
            BY <6>1
        <5>5. k[m] = s[i]
          <6>1. Len(s) - 1 = L
            BY <5>2
          <6>2. \A j \in 1 .. L : k[j] = s[j + 1]
            BY <1>2, <1>4, <6>1, Ahead
          <6>3. QED
            BY <5>4, <6>2
        <5>6. Has(k, s[i])
          BY <5>1, <5>5 DEF Has
        <5>7. Has(r, s[i])
          BY <1>4, <3>1, <3>3, <5>6, FrontHas
        <5>8. QED
          BY <5>7 DEF Has
      <4>5. \A b : Awaited(t, b) => Awaited(t, b)'
        BY DEF Awaited
      <4>6. QED
        BY <4>2, <4>3, <4>4, <4>5
    <3>10. QED
      BY <3>6, <3>7, <3>8, <3>9 DEF OneInv
  <2>3. QED
    BY <2>1, <2>2
<1>9. CASE s[1][2] = "save_cfg"
  <2>1. op = "save_cfg"
    BY <1>3, <1>4, <1>9 DEF OrderedAt
  <2>2. PICK r : r = IF boot THEN SaveCfgBoot ELSE SaveCfgApp
    OBVIOUS
  <2>3. GoOn(t, r)
    BY <1>3, <1>9, <2>2 DEF AfterMode
  <2>4. /\ r \in Seq(Tasks) /\ r # <<>>
        /\ \/ r[1] = <<"mbox", "none">> /\ r[2] = <<"cmd", "FLASH_INIT">>
                /\ Has(r, <<"result", "IMG_CFG_SAVE">>)
           \/ r[1] = <<"cmd", "APP_SAVE_CFG">> /\ Has(r, <<"result", "APP_SAVE_CFG">>)
    BY <2>2, SaveCfgBootOpens, SaveCfgAppOpens
  <2>5. todo'[t] = r /\ res'[t] # "SUCCESS"
    BY <1>1, <2>3, <2>4, Goes
  <2>6. call'[t].op = "save_cfg" /\ param' = param
    BY <1>2, <2>1 DEF devVars
  <2>7. Tidy(t)'
    <3>1. CASE r[1] = <<"mbox", "none">> /\ r[2] = <<"cmd", "FLASH_INIT">>
      <4>1. r[1][1] = "mbox" /\ r[2][1] = "cmd" /\ r[2][2] = "FLASH_INIT"
        BY <3>1
      <4>2. ~NeedsParam(r[2])
        BY <4>1 DEF NeedsParam, OwnParam, WithParam
      <4>3. QED
        BY <1>5, <2>5, <4>1, <4>2, CalmTidy
    <3>2. CASE r[1] = <<"cmd", "APP_SAVE_CFG">>
      <4>1. r[1][1] = "cmd" /\ r[1][2] = "APP_SAVE_CFG"
        BY <3>2
      <4>2. clean[t] => Val(param) # SUCCESS /\ param = ParamOf(call[t])
        <5>1. clean[t] => param = ParamOf(call[t])
          BY <1>1, <1>2, <1>3, <2>1 DEF OneInv, Tidy
        <5>2. Val(ParamOf(call[t])) # SUCCESS
          BY <1>1, <1>2, <2>1, ImageShows
        <5>3. QED
          BY <5>1, <5>2
      <4>3. clean'[t] => Val(param') # SUCCESS /\ param' = ParamOf(call'[t])
        BY <2>6, <4>2
      <4>4. QED
        BY <1>5, <2>5, <4>1, <4>3 DEF Tidy
    <3>3. QED
      BY <2>4, <3>1, <3>2
  <2>8. Acquired(t)'
    BY <2>6 DEF Acquired
  <2>9. Booted(t)'
    BY <2>6 DEF Booted, Uploading
  <2>10. Succeeded(t)'
    BY <2>5 DEF Succeeded
  <2>11. Promised(t)'
    <3>1. SUFFICES ASSUME call[t].op \in Commanding
                   PROVE  \E i \in 1 .. Len(r) : Awaited(t, r[i])'
      BY <2>5 DEF Promised
    <3>2. \A a \in {"IMG_CFG_SAVE", "APP_SAVE_CFG"} : CommandFor(call[t], a)
      BY <1>2, <2>1 DEF CommandFor
    <3>3. PICK a \in {"IMG_CFG_SAVE", "APP_SAVE_CFG"} : Has(r, <<"result", a>>)
      BY <2>4
    <3>4. PICK i \in 1 .. Len(r) : r[i] = <<"result", a>>
      BY <3>3 DEF Has
    <3>5. r[i][1] = "result" /\ r[i][2] = a
      BY <3>4
    <3>6. Awaited(t, r[i])'
      BY <3>2, <3>5 DEF Awaited
    <3>7. QED
      BY <3>6
  <2>12. QED
    BY <2>7, <2>8, <2>9, <2>10, <2>11 DEF OneInv
<1>10. QED
  BY <1>3, <1>7, <1>8, <1>9

LEMMA ModeSerial ==
  ASSUME TwInv, NEW t \in Threads, OneInv(t), Mode(t)
  PROVE  OneInv(t)'
<1>1. PICK b \in BOOLEAN : b = (mode = "boot")
  OBVIOUS
<1>2. AtStep(t, "mode") /\ AfterMode(t, b) /\ UNCHANGED <<devVars, call, clean, did>>
  BY <1>1 DEF Mode
<1>3. QED
  BY <1>1, <1>2, AfterModeSerial

LEMMA BusErrorSerial ==
  ASSUME TwInv, NEW t \in Threads, OneInv(t), BusError(t)
  PROVE  OneInv(t)'
<1>1. /\ todo[t] # <<>> /\ UNCHANGED <<devVars, call, clean, did>>
      /\ misread' = [misread EXCEPT ![t] = @ \/ AtStep(t, "mode")]
  BY DEF BusError
<1>2. CASE AtStep(t, "mode")
  <2>1. AfterMode(t, TRUE)
    <3>1. ~AtStep(t, "result")
      BY <1>2 DEF AtStep
    <3>2. QED
      BY <1>2, <3>1, Zenon DEF BusError
  <2>2. misread'[t]
    <3>1. misread \in [Threads -> BOOLEAN]
      BY DEF TwInv, TwTypes
    <3>2. QED
      BY <1>1, <1>2, <3>1
  <2>3. QED
    BY <1>1, <1>2, <2>1, <2>2, AfterModeSerial
<1>3. CASE AtStep(t, "result") /\ ~AtStep(t, "mode")
  <2>1. PICK status : status = StatusOf(call[t].op, Arg(t), BUS_ERROR)
    OBVIOUS
  <2>2. status # "SUCCESS"
    BY <2>1, BusErrorShows
  <2>3. Return(t, status)
    BY <1>3, <2>1, <2>2 DEF BusError, Answered
  <2>4. QED
    BY <2>2, <2>3, GivesUp
<1>4. CASE ~AtStep(t, "result") /\ ~AtStep(t, "mode")
  <2>1. Return(t, "INTERNAL_ERR")
    BY <1>4 DEF BusError
  <2>2. QED
    BY <2>1, GivesUp
<1>5. QED
  BY <1>2, <1>3, <1>4

\* The device, which takes the command and answers it.
LEMMA DeviceSerial ==
  ASSUME TwInv, NEW t \in Threads, OneInv(t), Device
  PROVE  OneInv(t)'
<1>1. UNCHANGED <<call, todo, res, misread, clean>>
  BY DEF Device, DevTake, DevFinish, DevHang, histVars
<1>2. PICK s, op : s = todo[t] /\ op = call[t].op
  OBVIOUS
<1>3. flags' \subseteq flags /\ did[t] \subseteq did'[t]
  <2>1. CASE DevTake
    BY <2>1 DEF DevTake, histVars
  <2>2. CASE DevFinish
    BY <2>2 DEF DevFinish
  <2>3. CASE DevHang
    BY <2>3 DEF DevHang, histVars
  <2>4. QED
    BY <2>1, <2>2, <2>3 DEF Device
<1>4. Acquired(t)'
  BY <1>1, <1>3 DEF OneInv, Acquired
<1>5. Achieved(t) => Achieved(t)'
  BY <1>1, <1>3 DEF Achieved
<1>6. Promised(t)'
  <2>1. \A a : Awaited(t, a) => Awaited(t, a)'
    BY <1>1 DEF Awaited
  <2>2. QED
    BY <1>1, <1>5, <2>1 DEF OneInv, Promised
<1>7. Succeeded(t)'
  BY <1>1, <1>5 DEF OneInv, Succeeded
<1>8. CASE ~(s # <<>> /\ clean[t])
  <2>1. Tidy(t)'
    BY <1>1, <1>2, <1>8 DEF Tidy
  <2>2. Booted(t)'
    BY <1>1, <1>2, <1>8 DEF Booted, Uploading, AtStep
  <2>3. QED
    BY <1>4, <1>6, <1>7, <2>1, <2>2 DEF OneInv
<1>9. CASE s # <<>> /\ clean[t] /\ Quiet
  <2>1. UNCHANGED <<flags, cmdReg, param, mode, busy, did>>
    BY <1>9 DEF Device, DevTake, DevFinish, DevHang, Quiet, histVars
  <2>2. Tidy(t)'
    BY <1>1, <2>1 DEF OneInv, Tidy, Quiet, Pending, Told, Did
  <2>3. Booted(t)'
    BY <1>1, <2>1 DEF OneInv, Booted, Uploading, AtStep, Arg
  <2>4. QED
    BY <1>4, <1>6, <1>7, <2>2, <2>3 DEF OneInv
<1>10. CASE s # <<>> /\ clean[t] /\ ~Quiet
  <2>1. s[1] \in Tasks /\ Head(s) = s[1]
    BY <1>2, <1>10, AtHead
  <2>2. s[1][1] \in {"wait", "result"}
    BY <1>2, <1>10 DEF OneInv, Tidy
  <2>3. PICK c : c = IF s[1][1] = "wait" THEN s[2][2] ELSE s[1][2]
    OBVIOUS
  <2>4. /\ Pending(t, c)
        /\ s[1][1] = "wait" => ~Unwaited(op, c)
        /\ s[1][1] = "result" => Unwaited(op, c) /\ Val(param) # SUCCESS
    <3>1. CASE s[1][1] = "wait"
      BY <1>2, <1>10, <2>3, <3>1 DEF OneInv, Tidy
    <3>2. CASE s[1][1] = "result"
      BY <1>2, <1>10, <2>3, <3>2 DEF OneInv, Tidy
    <3>3. QED
      BY <2>2, <3>1, <3>2
  <2>5. /\ cmdReg = c
        /\ flags # {} => busy = {} /\ (c \in OwnParam => param = ParamOf(call[t]))
        /\ \A b \in busy : b.cmd = c /\ (c \in OwnParam => b.param = ParamOf(call[t]))
    BY <1>10, <2>4 DEF Pending
  <2>6. Pending(t, c)' /\ (~Quiet' => param' = param)
    <3>1. CASE DevTake
      <4>1. /\ flags # {} /\ busy = {} /\ flags' = {}
            /\ busy' = IF cmdReg = "IDLE" THEN {} ELSE {[cmd |-> cmdReg, param |-> param]}
            /\ UNCHANGED <<cmdReg, param, did>>
        BY <3>1 DEF DevTake, histVars
      <4>2. c # "IDLE"
        <5>1. s[1][1] = "wait" => c = s[2][2] /\ s[2] \in Tasks /\ s[2][1] = "result"
          <6>1. SUFFICES ASSUME s[1][1] = "wait"
                         PROVE  c = s[2][2] /\ s[2] \in Tasks /\ s[2][1] = "result"
            OBVIOUS
          <6>2. PICK k : k = Tail(s)
            OBVIOUS
          <6>3. k # <<>>
            <7>1. OrderedAt(op, s, 1) /\ s \in Seq(Tasks)
              BY <1>2, <1>10, Behind DEF Joined
            <7>2. Len(s) # 1
              BY <6>1, <7>1 DEF OrderedAt, Ends
            <7>3. QED
              BY <1>10, <6>2, <7>1, <7>2, Ahead
          <6>4. k[1] = s[2] /\ k[1] \in Tasks /\ Follows(op, s[1][1], k[1][1])
            BY <1>2, <1>10, <6>2, <6>3, Behind DEF Joined
          <6>5. QED
            BY <2>3, <6>1, <6>4 DEF Follows
        <5>2. c \in Commands
          BY <2>1, <2>2, <2>3, <5>1, TaskParts
        <5>3. QED
          BY <5>2 DEF Commands, AppCommands, WithParam
      <4>3. busy' = {[cmd |-> c, param |-> param]}
        BY <2>5, <4>1, <4>2
      <4>4. ~Quiet' /\ cmdReg' = c
        BY <2>5, <4>1, <4>3 DEF Quiet
      <4>5. \A b \in busy' : b.cmd = c /\ (c \in OwnParam => b.param = ParamOf(call[t]))
        BY <2>5, <4>1, <4>3
      <4>6. QED
        BY <1>1, <4>1, <4>4, <4>5 DEF Pending
    <3>2. CASE DevFinish
      <4>1. busy' = {} /\ cmdReg' = "IDLE" /\ flags' = flags
        BY <3>2 DEF DevFinish
      <4>2. PICK b \in busy :
              \/ /\ param' = Val(Success(b.cmd))
                 /\ did' = [u \in Threads |->
                      did[u] \cup {<<b.cmd, IF b.cmd \in WithParam THEN b.param ELSE 0>>}]
              \/ param' \in {Val(v) : v \in Failures(b.cmd)}
        BY <3>2 DEF DevFinish
      <4>3. b.cmd = c /\ (c \in OwnParam => b.param = ParamOf(call[t]))
        BY <2>5
      <4>4. Quiet'
        BY <2>5, <4>1 DEF Quiet
      <4>5. Told(t, c)'
        <5>1. CASE did' = [u \in Threads |->
                     did[u] \cup {<<b.cmd, IF b.cmd \in WithParam THEN b.param ELSE 0>>}]
          <6>1. PICK e : e = <<b.cmd, IF b.cmd \in WithParam THEN b.param ELSE 0>>
            OBVIOUS
          <6>2. e \in did'[t] /\ e[1] = c
            BY <4>3, <5>1, <6>1
          <6>3. c \in OwnParam => e[2] = ParamOf(call'[t])
            BY <1>1, <4>3, <6>1 DEF OwnParam
          <6>4. QED
            BY <6>2, <6>3 DEF Told, Did
        <5>2. CASE param' \in {Val(v) : v \in Failures(b.cmd)}
          <6>1. Val(param') # Success(c)
            BY <4>3, <5>2, FailureShows
          <6>2. QED
            BY <6>1 DEF Told
        <5>3. QED
          BY <4>2, <5>1, <5>2
      <4>6. flags' = {}
        BY <4>4 DEF Quiet
      <4>7. QED
        BY <4>1, <4>4, <4>5, <4>6 DEF Pending
    <3>3. CASE DevHang
      <4>1. UNCHANGED <<flags, cmdReg, param, busy, did>>
        BY <3>3 DEF DevHang, histVars
      <4>2. QED
        BY <1>1, <2>4, <4>1 DEF Pending, Quiet, Told, Did
    <3>4. QED
      BY <3>1, <3>2, <3>3 DEF Device
  <2>7. Tidy(t)'
    <3>1. CASE s[1][1] = "wait"
      BY <1>1, <1>2, <2>3, <2>4, <2>6, <3>1 DEF Tidy
    <3>2. CASE s[1][1] = "result"
      <4>1. ~Quiet' => Val(param') # SUCCESS
        BY <2>4, <2>6, <3>2
      <4>2. QED
        BY <1>1, <1>2, <2>3, <2>4, <2>6, <3>2, <4>1 DEF Tidy
    <3>3. QED
      BY <2>2, <3>1, <3>2
  <2>8. Booted(t)'
    BY <1>1, <1>2, <2>1, <2>2 DEF Booted, Uploading, AtStep
  <2>9. QED
    BY <1>4, <1>6, <1>7, <2>7, <2>8 DEF OneInv
<1>11. QED
  BY <1>8, <1>9, <1>10

LEMMA InitSerial == Init => SerialInv
<1>1. SUFFICES ASSUME Init, NEW t \in Threads
               PROVE  OneInv(t)
  BY DEF SerialInv, OneInv
<1>2. todo[t] = <<>> /\ res[t] # "SUCCESS"
  BY <1>1 DEF Init
<1>3. QED
  BY <1>2 DEF OneInv, Tidy, Acquired, Promised, Booted, Uploading, AtStep, Succeeded

\* A device with one user, however the bus and the device fail: what a call asked of the device is
\* still to be answered or has been done, and the registers hold what the access it is at needs.
THEOREM SerialInductive == ASSUME NEW t, Threads = {t} PROVE Spec => [](TwInv /\ SerialInv)
<1>1. TwInv /\ SerialInv /\ [Next]_twVars => SerialInv'
  <2>1. SUFFICES ASSUME TwInv, SerialInv, [Next]_twVars
                 PROVE  SerialInv'
    OBVIOUS
  <2>2. t \in Threads /\ OneInv(t)
    BY <2>1 DEF SerialInv, OneInv
  <2>3. SUFFICES OneInv(t)'
    BY DEF SerialInv, OneInv
  <2>4. CASE \E op \in Ops, image \in Images : CallTw(t, op, image)
    BY <2>1, <2>2, <2>4, CallTwSerial
  <2>5. CASE Step(t)
    <3>1. CASE Mbox(t)
      BY <2>1, <2>2, <3>1, MboxSerial
    <3>2. CASE Cmd(t)
      BY <2>1, <2>2, <3>2, CmdSerial
    <3>3. CASE Notice(t)
      BY <2>1, <2>2, <3>3, NoticeSerial
    <3>4. CASE Wait(t)
      BY <2>1, <2>2, <3>4, WaitSerial
    <3>5. CASE Param(t)
      BY <2>1, <2>2, <3>5, ParamSerial
    <3>6. CASE Result(t)
      BY <2>1, <2>2, <3>6, ResultSerial
    <3>7. CASE Mode(t)
      BY <2>1, <2>2, <3>7, ModeSerial
    <3>8. CASE Reset(t)
      BY <2>1, <2>2, <3>8, ResetSerial
    <3>9. CASE PowerOnReset(t)
      BY <2>1, <2>2, <3>9, PowerOnResetSerial
    <3>10. CASE Data(t)
      BY <2>1, <2>2, <3>10, DataSerial
    <3>11. CASE Count(t)
      BY <2>1, <2>2, <3>11, CountSerial
    <3>12. QED
      BY <2>5, <3>1, <3>2, <3>3, <3>4, <3>5, <3>6, <3>7, <3>8, <3>9, <3>10, <3>11 DEF Step
  <2>6. CASE BusError(t)
    BY <2>1, <2>2, <2>6, BusErrorSerial
  <2>7. CASE Device
    BY <2>1, <2>2, <2>7, DeviceSerial
  <2>8. CASE UNCHANGED twVars
    BY <2>2, <2>8 DEF OneInv, Tidy, Quiet, Pending, Told, Did, Acquired, Promised, Achieved,
                      Awaited, Booted, Uploading, AtStep, Succeeded, twVars, devVars, histVars
  <2>9. QED
    BY <2>1, <2>4, <2>5, <2>6, <2>7, <2>8 DEF Next
<1>2. QED
  BY <1>1, InitSerial, TwInductive, PTL DEF Spec

\* SuccessMeansDone: a call that found no command outstanding, or reset the device, returns SUCCESS
\* only if the device did what was asked with the image number that was passed, but for the number
\* of a save_cfg in boot mode.
THEOREM SuccessIsDone == ASSUME NEW t, Threads = {t} PROVE Spec => []SuccessMeansDone
<1>1. SerialInv => SuccessMeansDone
  BY DEF SerialInv, Succeeded, Achieved, SuccessMeansDone
<1>2. QED
  BY <1>1, SerialInductive, PTL

\* UploadInBootMode: blocks of an image are sent only to a device in boot mode.
THEOREM UploadsInBootMode == ASSUME NEW t, Threads = {t} PROVE Spec => []UploadInBootMode
<1>1. SerialInv => UploadInBootMode
  BY DEF SerialInv, Booted, UploadInBootMode
<1>2. QED
  BY <1>1, SerialInductive, PTL

\* NoticeRespected: outside save_cfg no command is written over one the boot ROM was noticed of.
THEOREM NoticesRespected == ASSUME NEW user, Threads = {user} PROVE Spec => NoticeRespected
<1>1. TwInv /\ SerialInv =>
        \A t \in Threads : AtStep(t, "cmd") /\ call[t].op # "save_cfg" => "HOST_CMD" \notin flags
  <2>1. SUFFICES ASSUME TwInv, SerialInv, NEW t \in Threads, AtStep(t, "cmd"),
                        call[t].op # "save_cfg"
                 PROVE  "HOST_CMD" \notin flags
    OBVIOUS
  <2>2. todo[t] # <<>>
    BY <2>1 DEF AtStep
  <2>3. todo[t][1][1] = "cmd"
    BY <2>1, <2>2, AtHead
  <2>4. QED
    BY <2>1, <2>2, <2>3 DEF SerialInv, Acquired
<1>2. TwInv /\ SerialInv /\ [Next]_twVars =>
        [\A t \in Threads : AtStep(t, "cmd") /\ call[t].op # "save_cfg" /\ cmdReg' = Arg(t)
           => cmdReg' = cmdReg \/ "HOST_CMD" \notin flags]_twVars
  BY <1>1
<1>3. Spec => [](TwInv /\ SerialInv)
  BY SerialInductive
<1>4. QED
  BY <1>2, <1>3, PTL DEF Spec, NoticeRespected

=============================================================================
