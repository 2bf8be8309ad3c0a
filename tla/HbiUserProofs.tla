----------------------------- MODULE HbiUserProofs -----------------------------
(***************************************************************************)
(* For every number of processes, files, blocks and image numbers: what    *)
(* the processes of HbiUser get from the library and the ioctls.  The      *)
(* proofs go by the inductive invariant UInv of HbiUserInv, which stands   *)
(* on KInv.                                                                *)
(***************************************************************************)
EXTENDS HbiKernelProofs

-----------------------------------------------------------------------------
(* The commands and their data *)

\* The driver's switch takes each ioctl back to the command the library was called for.
LEMMA SwitchRight == \A c \in Calls : DriverCall[Ioctl[c]] = c
BY DEF Calls, Ioctl, DriverCall

LEMMA UploadCalls == Upload \subseteq Calls
BY DEF Upload, Calls, Ioctl

\* An image number of two bytes arrives as it was sent.
LEMMA ImageArrives ==
  ASSUME NEW n \in Nat, n < 256 * 256
  PROVE  OnDevice(Bytes(n)) = n
<1>1. PICK q, r : q = n \div 256 /\ r = n % 256
  OBVIOUS
<1>2. q \in Nat /\ r \in Nat
  BY <1>1
<1>3. n = q * 256 + r
  BY <1>1
<1>4. q < 256
  BY <1>2, <1>3
<1>5. q % 256 = q
  BY <1>2, <1>4
<1>6. Bytes(n) = <<q, r>>
  BY <1>1, <1>5 DEF Bytes
<1>7. QED
  BY <1>3, <1>6 DEF OnDevice

\* After a step no call is returning.
LEMMA NoneReturns ==
  ASSUME ret' = NoRet
  PROVE  Returned' /\ CommandAsAsked'
BY UserConstantsOK DEF NoRet, Returned, CommandAsAsked

\* An ioctl that fails.
LEMMA RefusedRight ==
  ASSUME NEW f, NEW r, r \notin {"NOT_INIT", "BAD_HANDLE", "SUCCESS"}, Result(f, r)
  PROVE  Returned' /\ CommandAsAsked'
BY DEF Result, NoRet, Returned, CommandAsAsked

\* What the HBI driver does with a command on an open file, if the data it is given are the
\* caller's.
LEMMA CarriedRight ==
  ASSUME KInv, NEW f \in Files, files[f] # 0, NEW c \in Calls, NEW arg, Carried(f, c, arg, arg),
         UNCHANGED kVars
  PROVE  Returned' /\ CommandAsAsked'
<1>1. cut' = cut /\ named' = named
  BY DEF kVars, fileVars
<1>2. PICK s : s = files[f]
  OBVIOUS
<1>3. f \notin cut => devs[s] # FreeMem /\ users[devs[s].handle] = named[f] /\ named[f] # None
  <2>1. SUFFICES ASSUME f \notin cut
                 PROVE  devs[s] # FreeMem /\ users[devs[s].handle] = named[f] /\ named[f] # None
    OBVIOUS
  <2>2. s \in Held /\ devs[s].id = named[f]
    BY <1>2, <2>1 DEF KInv, FilesRight
  <2>3. s \in Kept /\ s \in Allocated
    BY <1>2, <2>1, <2>2 DEF Kept, InUse, Held
  <2>4. users[devs[s].handle] = devs[s].id /\ devs[s].id # None
    BY <2>3, TakenFields DEF KInv, Owned
  <2>5. QED
    BY <2>2, <2>3, <2>4 DEF Allocated
<1>4. CASE Result(f, "BAD_HANDLE") /\ (devs[s] = FreeMem \/ users[devs[s].handle] = None)
  <2>1. f \in cut
    BY <1>3, <1>4
  <2>2. ret'.f = f /\ ret'.res = "BAD_HANDLE"
    BY <1>4 DEF Result, NoRet
  <2>3. QED
    BY <1>1, <2>1, <2>2 DEF Returned, CommandAsAsked
<1>5. CASE /\ ret' = [f |-> f, cmd |-> c, arg |-> arg, res |-> "SUCCESS",
                      got |-> [cmd |-> DriverCall[Ioctl[c]], arg |-> arg,
                               dev |-> users[devs[s].handle]]]
  <2>1. DriverCall[Ioctl[c]] = c
    BY SwitchRight
  <2>2. /\ ret'.f = f /\ ret'.cmd = c /\ ret'.arg = arg /\ ret'.res = "SUCCESS"
        /\ ret'.got = [cmd |-> c, arg |-> arg, dev |-> users[devs[s].handle]]
    BY <1>5, <2>1
  <2>3. QED
    BY <1>1, <1>3, <2>2 DEF Returned, CommandAsAsked
<1>6. CASE Result(f, "COMMAND_ERR")
  BY <1>6, RefusedRight
<1>7. QED
  BY <1>2, <1>4, <1>5, <1>6 DEF Carried

-----------------------------------------------------------------------------
(* Steps that leave the files, the counts and the uploads as they are *)

LEMMA UserFrame ==
  ASSUME UInv, UNCHANGED <<files, libVars, hbi_buf, call>>
  PROVE  UTypes' /\ CountsRight' /\ UploadsRight'
<1>1. UNCHANGED <<files, up, initCnt, inits, lost, hbi_buf, call>>
  BY DEF libVars
<1>2. UTypes'
  BY <1>1 DEF UInv, UTypes
<1>3. CountsRight'
  BY <1>1 DEF UInv, CountsRight, FilesOf
<1>4. UploadsRight'
  BY <1>1 DEF UInv, UploadsRight, Idle
<1>5. QED
  BY <1>2, <1>3, <1>4

\* The kernel driver's own steps open and close no file: one that is open stays with its device,
\* or is left without its driver.
LEMMA ControlFiles ==
  ASSUME KInv, ControlStep
  PROVE  \A f \in Files : files'[f] = files[f] \/ (files[f] # 0 /\ files'[f] = Gone)
<1>1. OpenDevice \/ CreateNode \/ AddToList => UNCHANGED files
  BY DEF OpenDevice, CreateNode, AddToList, fileVars
<1>2. CloseDevice \/ TakeOffList \/ DestroyNode => UNCHANGED files
  BY DEF CloseDevice, TakeOffList, DestroyNode, fileVars
<1>3. Load \/ LoadNext \/ Unload \/ ExitNext \/ UseFreed \/ UseRemoved => UNCHANGED files
  BY DEF Load, LoadNext, Unload, ExitNext, UseFreed, UseRemoved, Oops, fileVars
<1>4. \A id \in Ids : ProcOpen(id) \/ ProcClose(id) => UNCHANGED files
  BY DEF ProcOpen, ProcClose, fileVars
<1>5. CodecProbe \/ CodecRemove => UNCHANGED files
  BY DEF CodecProbe, CodecRemove, fileVars
<1>6. CASE ExitTerm
  BY <1>6 DEF ExitTerm, Stranded, fileVars
<1>7. QED
  BY <1>1, <1>2, <1>3, <1>4, <1>5, <1>6 DEF ControlStep

\* A file that is left without its driver disturbs no count and no upload.
LEMMA StrandedFrame ==
  ASSUME UInv, KInv, UNCHANGED <<libVars, hbi_buf, call>>,
         \A f \in Files : files'[f] = files[f] \/ (files[f] # 0 /\ files'[f] = Gone)
  PROVE  UTypes' /\ CountsRight' /\ UploadsRight'
<1>1. UNCHANGED <<up, initCnt, inits, lost, hbi_buf, call>>
  BY DEF libVars
<1>2. UTypes'
  BY <1>1 DEF UInv, UTypes
<1>3. \A f \in Files : files'[f] # 0 <=> files[f] # 0
  BY Constants
<1>4. \A p \in Procs : FilesOf(p)' = FilesOf(p)
  BY <1>3 DEF FilesOf
<1>5. CountsRight'
  BY <1>1, <1>4 DEF UInv, CountsRight
<1>6. \A p \in Procs : ~Idle(p) => call[p].f \in Files
  BY DEF UInv, UTypes, Idle
<1>7. UploadsRight'
  <2>1. SUFFICES ASSUME NEW p \in Procs, ~Idle(p)
                 PROVE  /\ Owner[call[p].f] = p /\ files'[call[p].f] # 0
                        /\ files'[call[p].f] # Gone =>
                             /\ hbi_buf[files'[call[p].f]] = call[p].arg
                             /\ \A q \in Procs \ {p} : ~Idle(q) =>
                                  files'[call[q].f] # files'[call[p].f]
    BY <1>1 DEF UploadsRight, Idle
  <2>2. Owner[call[p].f] = p /\ files'[call[p].f] # 0
    BY <1>3, <1>6, <2>1 DEF UInv, UploadsRight
  <2>3. ASSUME files'[call[p].f] # Gone
        PROVE  /\ hbi_buf[files'[call[p].f]] = call[p].arg
               /\ \A q \in Procs \ {p} : ~Idle(q) => files'[call[q].f] # files'[call[p].f]
    <3>1. files'[call[p].f] = files[call[p].f]
      BY <1>6, <2>1, <2>3
    <3>2. /\ hbi_buf[files[call[p].f]] = call[p].arg
          /\ \A q \in Procs \ {p} : ~Idle(q) => files[call[q].f] # files[call[p].f]
      BY <2>1, <2>3, <3>1 DEF UInv, UploadsRight
    <3>3. QED
      BY <1>6, <2>3, <3>1, <3>2
  <2>4. QED
    BY <2>2, <2>3
<1>8. QED
  BY <1>2, <1>5, <1>7

\* A process that has a file open has the library up.
LEMMA OpenMeansUp ==
  ASSUME UInv, NEW p \in Procs, NEW f \in FilesOf(p)
  PROVE  up[p]
<1>1. PICK n : n = Cardinality(FilesOf(p))
  OBVIOUS
<1>2. IsFiniteSet(FilesOf(p)) /\ initCnt[p] = inits[p] + lost[p] + n /\ (up[p] <=> initCnt[p] # 0)
  BY <1>1 DEF UInv, CountsRight
<1>3. n \in Nat /\ n # 0
  BY <1>1, <1>2, FS_CardinalityType, FS_EmptySet
<1>4. inits[p] \in Nat /\ lost[p] \in Nat
  BY DEF UInv, UTypes
<1>5. QED
  BY <1>2, <1>3, <1>4

-----------------------------------------------------------------------------
(* HBI_init, HBI_term, HBI_open and HBI_close of the library *)

LEMMA UInvParts ==
  ASSUME UInv, NEW p \in Procs
  PROVE  /\ up \in [Procs -> BOOLEAN] /\ initCnt \in [Procs -> Nat]
         /\ inits \in [Procs -> Nat] /\ lost \in [Procs -> Nat]
         /\ IsFiniteSet(FilesOf(p)) /\ Cardinality(FilesOf(p)) \in Nat
         /\ initCnt[p] = inits[p] + lost[p] + Cardinality(FilesOf(p))
         /\ (up[p] <=> initCnt[p] # 0)
BY FS_CardinalityType DEF UInv, UTypes, CountsRight

\* The counts of a process, and of no other, change by one.
LEMMA CountMoves ==
  ASSUME UInv, NEW p \in Procs, NEW n \in Nat, NEW b \in BOOLEAN,
         initCnt' = [initCnt EXCEPT ![p] = n], up' = [up EXCEPT ![p] = b],
         b <=> n # 0,
         inits' \in [Procs -> Nat], lost' \in [Procs -> Nat],
         IsFiniteSet(FilesOf(p)'), n = inits'[p] + lost'[p] + Cardinality(FilesOf(p)'),
         \A q \in Procs \ {p} :
           FilesOf(q)' = FilesOf(q) /\ inits'[q] = inits[q] /\ lost'[q] = lost[q]
  PROVE  /\ CountsRight' /\ up' \in [Procs -> BOOLEAN] /\ initCnt' \in [Procs -> Nat]
<1>1. up' \in [Procs -> BOOLEAN] /\ initCnt' \in [Procs -> Nat]
  BY DEF UInv, UTypes
<1>2. initCnt'[p] = n /\ up'[p] = b
  BY DEF UInv, UTypes
<1>3. \A q \in Procs \ {p} : initCnt'[q] = initCnt[q] /\ up'[q] = up[q]
  BY DEF UInv, UTypes
<1>4. ASSUME NEW q \in Procs
      PROVE  /\ IsFiniteSet(FilesOf(q)')
             /\ initCnt'[q] = inits'[q] + lost'[q] + Cardinality(FilesOf(q)')
             /\ (up'[q] <=> initCnt'[q] # 0)
  <2>1. CASE q = p
    BY <1>2, <2>1
  <2>2. CASE q # p
    BY <1>3, <2>2 DEF UInv, CountsRight
  <2>3. QED
    BY <2>1, <2>2
<1>5. QED
  BY <1>1, <1>4 DEF CountsRight

LEMMA LibInitKeeps == ASSUME UInv, NEW p \in Procs, ret = NoRet, LibInit(p) PROVE UInv'
<1>1. /\ initCnt' = [initCnt EXCEPT ![p] = @ + 1] /\ up' = [up EXCEPT ![p] = TRUE]
      /\ inits' = [inits EXCEPT ![p] = @ + 1]
      /\ UNCHANGED <<files, hbi_buf, call, ret, lost>>
  BY DEF LibInit, Counted, kVars, fileVars
<1>2. PICK c, i, l, k : c = initCnt[p] /\ i = inits[p] /\ l = lost[p] /\ k = Cardinality(FilesOf(p))
  OBVIOUS
<1>3. c \in Nat /\ i \in Nat /\ l \in Nat /\ k \in Nat /\ c = i + l + k
  BY <1>2, UInvParts
<1>4. c + 1 \in Nat /\ c + 1 # 0 /\ c + 1 = (i + 1) + l + k
  BY <1>3
<1>5. \A q \in Procs : FilesOf(q)' = FilesOf(q)
  BY <1>1 DEF FilesOf
<1>6. inits' \in [Procs -> Nat] /\ inits'[p] = i + 1 /\ \A q \in Procs \ {p} : inits'[q] = inits[q]
  BY <1>1, <1>2, <1>3 DEF UInv, UTypes
<1>7. initCnt' = [initCnt EXCEPT ![p] = c + 1]
  BY <1>1, <1>2
<1>8. /\ lost' \in [Procs -> Nat] /\ lost'[p] = l /\ IsFiniteSet(FilesOf(p)')
      /\ Cardinality(FilesOf(p)') = k /\ \A q \in Procs : lost'[q] = lost[q]
  BY <1>1, <1>2, <1>5, UInvParts
<1>9. /\ CountsRight' /\ up' \in [Procs -> BOOLEAN] /\ initCnt' \in [Procs -> Nat]
  BY <1>1, <1>4, <1>5, <1>6, <1>7, <1>8, CountMoves
<1>10. UTypes' /\ UploadsRight'
  BY <1>1, <1>6, <1>9 DEF UInv, UTypes, UploadsRight, Idle
<1>11. QED
  BY <1>1, <1>9, <1>10, NoneReturns DEF UInv

LEMMA LibTermKeeps == ASSUME UInv, NEW p \in Procs, ret = NoRet, LibTerm(p) PROVE UInv'
<1>1. /\ Uncounted(p) /\ inits[p] > 0 /\ inits' = [inits EXCEPT ![p] = @ - 1]
      /\ UNCHANGED <<files, hbi_buf, call, ret, lost>>
  BY DEF LibTerm, kVars, fileVars
<1>2. PICK c, i, l, k : c = initCnt[p] /\ i = inits[p] /\ l = lost[p] /\ k = Cardinality(FilesOf(p))
  OBVIOUS
<1>3. /\ c \in Nat /\ i \in Nat /\ l \in Nat /\ k \in Nat /\ c = i + l + k /\ i > 0
      /\ (up[p] <=> c # 0)
  BY <1>1, <1>2, UInvParts
<1>4. c # 0 /\ c - 1 \in Nat /\ i - 1 \in Nat /\ (c - 1 # 0 <=> c # 1) /\ c - 1 = (i - 1) + l + k
  BY <1>3
<1>5. \A q \in Procs : FilesOf(q)' = FilesOf(q)
  BY <1>1 DEF FilesOf
<1>6. inits' \in [Procs -> Nat] /\ inits'[p] = i - 1 /\ \A q \in Procs \ {p} : inits'[q] = inits[q]
  BY <1>1, <1>2, <1>4 DEF UInv, UTypes
<1>7. initCnt' = [initCnt EXCEPT ![p] = c - 1] /\ up' = [up EXCEPT ![p] = (c # 1)]
  BY <1>1, <1>2, <1>3, <1>4 DEF Uncounted
<1>8. /\ lost' \in [Procs -> Nat] /\ lost'[p] = l /\ IsFiniteSet(FilesOf(p)')
      /\ Cardinality(FilesOf(p)') = k /\ \A q \in Procs : lost'[q] = lost[q]
  BY <1>1, <1>2, <1>5, UInvParts
<1>9. /\ CountsRight' /\ up' \in [Procs -> BOOLEAN] /\ initCnt' \in [Procs -> Nat]
  <2>1. (c # 1) \in BOOLEAN /\ ((c # 1) <=> c - 1 # 0)
    BY <1>4
  <2>2. c - 1 = inits'[p] + lost'[p] + Cardinality(FilesOf(p)')
    BY <1>4, <1>6, <1>8
  <2>3. QED
    BY <1>4, <1>5, <1>6, <1>7, <1>8, <2>1, <2>2, CountMoves
<1>10. UTypes' /\ UploadsRight'
  BY <1>1, <1>6, <1>9 DEF UInv, UTypes, UploadsRight, Idle
<1>11. QED
  BY <1>1, <1>9, <1>10, NoneReturns DEF UInv

\* An open that fails keeps its count.
LEMMA LibOpenMisses ==
  ASSUME UInv, NEW p \in Procs, ret = NoRet, Counted(p),
         lost' = [lost EXCEPT ![p] = @ + 1], UNCHANGED <<files, hbi_buf, call, ret, inits>>
  PROVE  UInv'
<1>1. /\ initCnt' = [initCnt EXCEPT ![p] = @ + 1] /\ up' = [up EXCEPT ![p] = TRUE]
  BY DEF Counted
<1>2. PICK c, i, l, k : c = initCnt[p] /\ i = inits[p] /\ l = lost[p] /\ k = Cardinality(FilesOf(p))
  OBVIOUS
<1>3. c \in Nat /\ i \in Nat /\ l \in Nat /\ k \in Nat /\ c = i + l + k
  BY <1>2, UInvParts
<1>4. c + 1 \in Nat /\ c + 1 # 0 /\ c + 1 = i + (l + 1) + k
  BY <1>3
<1>5. \A q \in Procs : FilesOf(q)' = FilesOf(q)
  BY DEF FilesOf
<1>6. lost' \in [Procs -> Nat] /\ lost'[p] = l + 1 /\ \A q \in Procs \ {p} : lost'[q] = lost[q]
  BY <1>2, <1>3 DEF UInv, UTypes
<1>7. initCnt' = [initCnt EXCEPT ![p] = c + 1]
  BY <1>1, <1>2
<1>8. /\ inits' \in [Procs -> Nat] /\ inits'[p] = i /\ IsFiniteSet(FilesOf(p)')
      /\ Cardinality(FilesOf(p)') = k /\ \A q \in Procs : inits'[q] = inits[q]
  BY <1>2, <1>5, UInvParts
<1>9. /\ CountsRight' /\ up' \in [Procs -> BOOLEAN] /\ initCnt' \in [Procs -> Nat]
  BY <1>1, <1>4, <1>5, <1>6, <1>7, <1>8, CountMoves
<1>10. UTypes' /\ UploadsRight'
  BY <1>6, <1>9 DEF UInv, UTypes, UploadsRight, Idle
<1>11. QED
  BY <1>9, <1>10, NoneReturns DEF UInv

\* The uploads of the other processes are on files of their own.
LEMMA OtherUploads ==
  ASSUME UInv, NEW p \in Procs, NEW f \in Files, Owner[f] = p, Idle(p), NEW s,
         files \in [Files -> Structs \cup {0, Gone}], files' = [files EXCEPT ![f] = s],
         UNCHANGED <<hbi_buf, call>>
  PROVE  UploadsRight'
<1>1. \A q \in Procs : ~Idle(q) =>
        call[q].f \in Files /\ call[q].f # f /\ files'[call[q].f] = files[call[q].f]
  BY DEF UInv, UTypes, UploadsRight, Idle
<1>2. QED
  BY <1>1 DEF UInv, UploadsRight, Idle

\* One file more, or one less.
LEMMA FileCounts ==
  ASSUME KInv, UInv, NEW p \in Procs, NEW f \in Files, Owner[f] = p, NEW s,
         files' = [files EXCEPT ![f] = s]
  PROVE  /\ \A q \in Procs \ {p} : FilesOf(q)' = FilesOf(q)
         /\ IsFiniteSet(FilesOf(p)')
         /\ files[f] = 0 /\ s # 0 => Cardinality(FilesOf(p)') = Cardinality(FilesOf(p)) + 1
         /\ files[f] # 0 /\ s = 0 => Cardinality(FilesOf(p)') = Cardinality(FilesOf(p)) - 1
<1>1. files \in [Files -> Structs \cup {0, Gone}]
  BY DEF KInv, KTypes
<1>2. /\ files'[f] = s /\ \A g \in Files \ {f} : files'[g] = files[g]
  BY <1>1
<1>3. \A q \in Procs \ {p} : FilesOf(q)' = FilesOf(q)
  BY <1>2 DEF FilesOf
<1>4. s # 0 => FilesOf(p)' = FilesOf(p) \cup {f}
  BY <1>2 DEF FilesOf
<1>5. s = 0 => FilesOf(p)' = FilesOf(p) \ {f}
  BY <1>2 DEF FilesOf
<1>6. f \in FilesOf(p) <=> files[f] # 0
  BY DEF FilesOf
<1>7. PICK F : F = FilesOf(p)
  OBVIOUS
<1>8. IsFiniteSet(F)
  BY <1>7, UInvParts
<1>9. IsFiniteSet(F \cup {f}) /\ Cardinality(F \cup {f}) =
        IF f \in F THEN Cardinality(F) ELSE Cardinality(F) + 1
  BY <1>8, FS_AddElement
<1>10. IsFiniteSet(F \ {f}) /\ Cardinality(F \ {f}) =
        IF f \in F THEN Cardinality(F) - 1 ELSE Cardinality(F)
  BY <1>8, FS_RemoveElement
<1>11. CASE s = 0
  BY <1>3, <1>5, <1>6, <1>7, <1>10, <1>11
<1>12. CASE s # 0
  BY <1>3, <1>4, <1>6, <1>7, <1>9, <1>12
<1>13. QED
  BY <1>11, <1>12

LEMMA LibOpenKeeps ==
  ASSUME KInv, UInv, NEW p \in Procs, NEW f \in Files, NEW id \in Ids, ret = NoRet,
         LibOpen(p, f, id)
  PROVE  UInv'
<1>1. /\ initCnt' = [initCnt EXCEPT ![p] = @ + 1] /\ up' = [up EXCEPT ![p] = TRUE]
      /\ Idle(p) /\ Owner[f] = p /\ files[f] = 0
      /\ UNCHANGED <<hbi_buf, call, ret, inits>>
  BY DEF LibOpen, Counted
<1>2. CASE lost' = [lost EXCEPT ![p] = @ + 1] /\ UNCHANGED kVars
  BY <1>1, <1>2, LibOpenMisses DEF Counted, kVars, fileVars
<1>3. CASE IoOpen(f, id) /\ UNCHANGED lost
  <2>1. PICK s : s \in Listed /\ files' = [files EXCEPT ![f] = s]
    BY <1>3 DEF IoOpen, ByNumber, Listed
  <2>2. s \in Structs /\ s # 0
    BY <2>1, Constants, ElementsIn DEF KInv, KTypes, Listed, Structs
  <2>3. PICK c, i, l, k : c = initCnt[p] /\ i = inits[p] /\ l = lost[p]
                            /\ k = Cardinality(FilesOf(p))
    OBVIOUS
  <2>4. c \in Nat /\ i \in Nat /\ l \in Nat /\ k \in Nat /\ c = i + l + k
    BY <2>3, UInvParts
  <2>5. c + 1 \in Nat /\ c + 1 # 0 /\ c + 1 = i + l + (k + 1)
    BY <2>4
  <2>6. /\ \A q \in Procs \ {p} : FilesOf(q)' = FilesOf(q)
        /\ IsFiniteSet(FilesOf(p)') /\ Cardinality(FilesOf(p)') = k + 1
    BY <1>1, <2>1, <2>2, <2>3, FileCounts, ZenonT(60)
  <2>7. /\ inits' \in [Procs -> Nat] /\ inits'[p] = i /\ lost' \in [Procs -> Nat] /\ lost'[p] = l
        /\ \A q \in Procs : inits'[q] = inits[q] /\ lost'[q] = lost[q]
    <3>1. inits' = inits /\ lost' = lost
      BY <1>1, <1>3
    <3>2. inits \in [Procs -> Nat] /\ lost \in [Procs -> Nat]
      BY DEF UInv, UTypes
    <3>3. QED
      BY <2>3, <3>1, <3>2
  <2>8. initCnt' = [initCnt EXCEPT ![p] = c + 1]
    BY <1>1, <2>3
  <2>9. /\ CountsRight' /\ up' \in [Procs -> BOOLEAN] /\ initCnt' \in [Procs -> Nat]
    BY <1>1, <2>5, <2>6, <2>7, <2>8, CountMoves, ZenonT(60)
  <2>10. UploadsRight'
    BY <1>1, <2>1, OtherUploads DEF KInv, KTypes
  <2>11. UTypes'
    BY <1>1, <2>7, <2>9 DEF UInv, UTypes
  <2>12. QED
    BY <1>1, <2>9, <2>10, <2>11, NoneReturns DEF UInv
<1>4. QED
  BY <1>2, <1>3 DEF LibOpen

LEMMA LibCloseKeeps ==
  ASSUME KInv, UInv, NEW p \in Procs, NEW f \in Files, ret = NoRet, LibClose(p, f)
  PROVE  UInv'
<1>1. /\ Idle(p) /\ Owner[f] = p /\ files[f] # 0 /\ UNCHANGED <<hbi_buf, call, inits, lost>>
  BY DEF LibClose
<1>2. up[p]
  BY <1>1, OpenMeansUp DEF FilesOf
<1>3. IoClose(f) /\ Uncounted(p) /\ UNCHANGED ret
  BY <1>2 DEF LibClose
<1>4. files' = [files EXCEPT ![f] = 0]
  BY <1>3 DEF IoClose
<1>5. PICK c, i, l, k : c = initCnt[p] /\ i = inits[p] /\ l = lost[p]
                          /\ k = Cardinality(FilesOf(p))
  OBVIOUS
<1>6. /\ c \in Nat /\ i \in Nat /\ l \in Nat /\ k \in Nat /\ c = i + l + k
      /\ (up[p] <=> c # 0)
  BY <1>5, UInvParts
<1>7. c - 1 \in Nat /\ (c - 1 # 0 <=> c # 1) /\ c - 1 = i + l + (k - 1)
  BY <1>2, <1>6
<1>8. /\ \A q \in Procs \ {p} : FilesOf(q)' = FilesOf(q)
      /\ IsFiniteSet(FilesOf(p)') /\ Cardinality(FilesOf(p)') = k - 1
  BY <1>1, <1>4, <1>5, FileCounts
<1>9. /\ inits' \in [Procs -> Nat] /\ inits'[p] = i /\ lost' \in [Procs -> Nat] /\ lost'[p] = l
      /\ \A q \in Procs : inits'[q] = inits[q] /\ lost'[q] = lost[q]
  BY <1>1, <1>5, UInvParts
<1>10. initCnt' = [initCnt EXCEPT ![p] = c - 1] /\ up' = [up EXCEPT ![p] = (c # 1)]
  BY <1>2, <1>3, <1>5 DEF Uncounted
<1>11. /\ CountsRight' /\ up' \in [Procs -> BOOLEAN] /\ initCnt' \in [Procs -> Nat]
  <2>1. (c # 1) \in BOOLEAN /\ ((c # 1) <=> c - 1 # 0)
    BY <1>7
  <2>2. c - 1 = inits'[p] + lost'[p] + Cardinality(FilesOf(p)')
    BY <1>7, <1>8, <1>9
  <2>3. QED
    BY <1>7, <1>8, <1>9, <1>10, <2>1, <2>2, CountMoves
<1>12. UploadsRight'
  BY <1>1, <1>4, OtherUploads DEF KInv, KTypes
<1>13. UTypes'
  BY <1>1, <1>9, <1>11 DEF UInv, UTypes
<1>14. QED
  BY <1>3, <1>11, <1>12, <1>13, NoneReturns DEF UInv

-----------------------------------------------------------------------------
(* The calls that reach a device *)

\* The arguments a process calls with.
LEMMA MayArguments ==
  ASSUME NEW p \in Procs, NEW m \in May[p]
  PROVE  m[1] \in Calls /\ m[2] \in ArgsOf(m[1])
BY UserConstantsOK

LEMMA Arguments ==
  ASSUME NEW c, NEW a \in ArgsOf(c)
  PROVE  /\ c \in Upload => a \in Blocks
         /\ c \in ByImage => a \in Nat /\ OnDevice(Bytes(a)) = a
         /\ c \notin Upload \cup ByImage => a = None
<1>1. c \in Upload => a \in Blocks
  BY DEF ArgsOf
<1>2. c \notin Upload \cup ByImage => a = None
  BY DEF ArgsOf
<1>3. ASSUME c \in ByImage
      PROVE  a \in Nat /\ OnDevice(Bytes(a)) = a
  <2>1. a \in ImageNums
    BY <1>3 DEF ArgsOf, ByImage, Upload
  <2>2. a \in Nat /\ a < 256 * 256
    BY <2>1, UserConstantsOK
  <2>3. QED
    BY <2>2, ImageArrives
<1>4. QED
  BY <1>1, <1>2, <1>3

LEMMA CallDriverKeeps ==
  ASSUME KInv, UInv, NEW p \in Procs, NEW f \in Files, NEW c \in Calls, NEW a \in ArgsOf(c),
         CallDriver(p, f, c, a)
  PROVE  UInv'
<1>1. /\ Owner[f] = p /\ files[f] # 0 /\ c \notin Upload
      /\ UNCHANGED <<kVars, hbi_buf, call, libVars>>
  BY Constants DEF CallDriver, MayCall
<1>2. up[p]
  BY <1>1, OpenMeansUp DEF FilesOf
<1>3. (IF c \in ByImage THEN OnDevice(Bytes(a)) ELSE None) = a
  BY <1>1, Arguments
<1>4. Carried(f, c, a, a)
  BY <1>2, <1>3 DEF CallDriver
<1>5. Returned' /\ CommandAsAsked'
  BY <1>1, <1>4, CarriedRight
<1>6. QED
  BY <1>1, <1>5, UserFrame DEF UInv, kVars, fileVars

LEMMA CopyKeeps ==
  ASSUME KInv, UInv, NEW p \in Procs, NEW f \in Files, NEW c, NEW a \in ArgsOf(c),
         ret = NoRet, Copy(p, f, c, a)
  PROVE  UInv'
<1>1. /\ Idle(p) /\ Owner[f] = p /\ files[f] # 0 /\ files[f] \in Structs /\ files[f] # Gone
      /\ c \in Upload /\ a \in Blocks
      /\ \A q \in Procs : ~Idle(q) => files[call[q].f] # files[f]
      /\ UNCHANGED <<kVars, libVars>>
  BY Arguments, Constants DEF Copy, MayCall
<1>2. up[p]
  BY <1>1, OpenMeansUp DEF FilesOf
<1>3. UNCHANGED <<files, up, initCnt, inits, lost>>
  BY <1>1 DEF kVars, fileVars, libVars
<1>4. CASE Result(f, "RESOURCE_ERR") /\ UNCHANGED <<hbi_buf, call>>
  <2>1. Returned' /\ CommandAsAsked'
    BY <1>4, RefusedRight
  <2>2. QED
    BY <1>1, <1>3, <1>4, <2>1, UserFrame DEF UInv
<1>5. CASE /\ hbi_buf' = [hbi_buf EXCEPT ![BufOf(files[f])] = a]
           /\ call' = [call EXCEPT ![p] = [f |-> f, cmd |-> c, arg |-> a]]
           /\ UNCHANGED ret
  <2>1. files[f] \in Structs /\ hbi_buf' = [hbi_buf EXCEPT ![files[f]] = a]
    BY <1>1, <1>5 DEF KInv, KTypes, BufOf
  <2>2. UTypes'
    <3>1. hbi_buf' \in [Structs -> Blocks \cup {None}]
      BY <1>1, <2>1 DEF UInv, UTypes
    <3>2. PICK r : r = [f |-> f, cmd |-> c, arg |-> a]
      OBVIOUS
    <3>3. r \in [f : Files, cmd : Upload, arg : Blocks]
      BY <1>1, <3>2
    <3>4. call' \in [Procs -> {NoCall} \cup [f : Files, cmd : Upload, arg : Blocks]]
      BY <1>5, <3>2, <3>3 DEF UInv, UTypes
    <3>5. QED
      BY <1>3, <3>1, <3>4 DEF UInv, UTypes
  <2>3. /\ hbi_buf'[files[f]] = a /\ \A s \in Structs \ {files[f]} : hbi_buf'[s] = hbi_buf[s]
    BY <2>1 DEF UInv, UTypes
  <2>4. /\ call'[p] = [f |-> f, cmd |-> c, arg |-> a]
        /\ \A q \in Procs \ {p} : call'[q] = call[q] /\ (Idle(q)' <=> Idle(q))
    BY <1>5 DEF UInv, UTypes, Idle
  <2>5. call'[p].f = f /\ call'[p].arg = a
    BY <2>4
  <2>6. \A q \in Procs \ {p} : ~Idle(q) =>
          /\ call[q].f \in Files
          /\ files[call[q].f] # Gone => files[call[q].f] \in Structs \ {files[f]}
    BY <1>1 DEF KInv, KTypes, UInv, UTypes, UploadsRight, Idle
  <2>7. UploadsRight'
    <3>1. SUFFICES ASSUME NEW q \in Procs, ~Idle(q)'
                   PROVE  /\ Owner[call'[q].f] = q /\ files[call'[q].f] # 0
                          /\ files[call'[q].f] # Gone =>
                               /\ hbi_buf'[files[call'[q].f]] = call'[q].arg
                               /\ \A r \in Procs \ {q} : ~Idle(r)' =>
                                    files[call'[r].f] # files[call'[q].f]
      BY <1>3 DEF UploadsRight
    <3>2. CASE q = p
      BY <1>1, <2>3, <2>4, <2>5, <2>6, <3>2
    <3>3. CASE q # p
      <4>1. /\ call'[q] = call[q] /\ ~Idle(q)
        BY <2>4, <3>1, <3>3
      <4>2. /\ Owner[call[q].f] = q /\ files[call[q].f] # 0
            /\ files[call[q].f] # Gone => hbi_buf'[files[call[q].f]] = call[q].arg
        BY <2>3, <2>6, <3>3, <4>1 DEF UInv, UploadsRight
      <4>3. files[call[q].f] # Gone =>
              \A r \in Procs \ {q} : ~Idle(r)' => files[call'[r].f] # files[call[q].f]
        BY <1>1, <2>4, <2>5, <3>3, <4>1 DEF UInv, UploadsRight
      <4>4. QED
        BY <4>1, <4>2, <4>3
    <3>4. QED
      BY <3>2, <3>3
  <2>8. CountsRight'
    BY <1>3 DEF UInv, CountsRight, FilesOf
  <2>9. QED
    BY <1>5, <2>2, <2>7, <2>8, NoneReturns DEF UInv
<1>6. QED
  BY <1>2, <1>4, <1>5 DEF Copy

LEMMA CommandKeeps == ASSUME KInv, UInv, NEW p \in Procs, Command(p) PROVE UInv'
<1>1. PICK f, c, a : f = call[p].f /\ c = call[p].cmd /\ a = call[p].arg
  OBVIOUS
<1>2. /\ ~Idle(p) /\ files[f] # Gone /\ Carried(f, c, a, hbi_buf[files[f]])
      /\ hbi_buf' = [hbi_buf EXCEPT ![files[f]] = None]
      /\ call' = [call EXCEPT ![p] = NoCall] /\ UNCHANGED <<kVars, libVars>>
  BY <1>1 DEF Command, BufOf
<1>3. f \in Files /\ c \in Calls /\ files[f] # 0 /\ hbi_buf[files[f]] = a
  BY <1>1, <1>2, UploadCalls DEF UInv, UTypes, UploadsRight, Idle
<1>4. Returned' /\ CommandAsAsked'
  BY <1>2, <1>3, CarriedRight
<1>5. UNCHANGED <<files, up, initCnt, inits, lost>>
  BY <1>2 DEF kVars, fileVars, libVars
<1>6. UTypes'
  BY <1>2, <1>5 DEF UInv, UTypes
<1>7. CountsRight'
  BY <1>5 DEF UInv, CountsRight, FilesOf
<1>8. /\ Idle(p)' /\ \A q \in Procs \ {p} : call'[q] = call[q] /\ (Idle(q)' <=> Idle(q))
  BY <1>2 DEF UInv, UTypes, Idle
<1>9. \A q \in Procs \ {p} : ~Idle(q) /\ files[call[q].f] # Gone =>
        hbi_buf'[files[call[q].f]] = call[q].arg
  <2>1. SUFFICES ASSUME NEW q \in Procs \ {p}, ~Idle(q), files[call[q].f] # Gone
                 PROVE  hbi_buf'[files[call[q].f]] = call[q].arg
    OBVIOUS
  <2>2. /\ call[q].f \in Files /\ files[call[q].f] # 0 /\ files[call[q].f] # files[f]
        /\ hbi_buf[files[call[q].f]] = call[q].arg
    BY <1>1, <1>2, <2>1 DEF UInv, UTypes, UploadsRight, Idle
  <2>3. files[call[q].f] \in Structs
    BY <2>1, <2>2 DEF KInv, KTypes
  <2>4. QED
    BY <1>2, <2>2, <2>3 DEF UInv, UTypes
<1>10. UploadsRight'
  BY <1>5, <1>8, <1>9 DEF UInv, UploadsRight
<1>11. QED
  BY <1>4, <1>6, <1>7, <1>10 DEF UInv

-----------------------------------------------------------------------------
(* The invariant, and what the processes get *)

LEMMA UserInit == UInit => UInv
<1> SUFFICES ASSUME UInit
             PROVE  UInv
  OBVIOUS
<1>1. \A p \in Procs : FilesOf(p) = {} /\ Idle(p)
  BY DEF UInit, Init, FilesOf, Idle
<1>2. UTypes
  BY DEF UInit, UTypes
<1>3. CountsRight
  <2>1. SUFFICES ASSUME NEW p \in Procs
                 PROVE  /\ IsFiniteSet({}) /\ initCnt[p] = inits[p] + lost[p] + Cardinality({})
                        /\ (up[p] <=> initCnt[p] # 0)
    BY <1>1, Zenon DEF CountsRight
  <2>2. IsFiniteSet({}) /\ Cardinality({}) = 0
    BY FS_EmptySet
  <2>3. initCnt[p] = 0 /\ inits[p] = 0 /\ lost[p] = 0 /\ up[p] = FALSE
    BY DEF UInit
  <2>4. QED
    BY <2>2, <2>3
<1>4. UploadsRight
  BY <1>1 DEF UploadsRight
<1>5. Returned /\ CommandAsAsked
  BY UserConstantsOK DEF UInit, NoRet, Returned, CommandAsAsked
<1>6. QED
  BY <1>2, <1>3, <1>4, <1>5 DEF UInv

LEMMA ProcKeeps == ASSUME KInv, UInv, NEW p \in Procs, ret = NoRet, ProcStep(p) PROVE UInv'
<1>1. CASE LibInit(p) \/ LibTerm(p)
  BY <1>1, LibInitKeeps, LibTermKeeps
<1>2. CASE \E f \in Files : LibClose(p, f)
  BY <1>2, LibCloseKeeps
<1>3. CASE \E f \in Files, id \in Ids : LibOpen(p, f, id)
  BY <1>3, LibOpenKeeps
<1>4. CASE \E f \in Files : \E m \in May[p] : CallDriver(p, f, m[1], m[2]) \/ Copy(p, f, m[1], m[2])
  <2>1. PICK f \in Files, m \in May[p] : CallDriver(p, f, m[1], m[2]) \/ Copy(p, f, m[1], m[2])
    BY <1>4
  <2>2. PICK c, a : c = m[1] /\ a = m[2]
    OBVIOUS
  <2>3. c \in Calls /\ a \in ArgsOf(c)
    BY <2>2, MayArguments
  <2>4. CallDriver(p, f, c, a) \/ Copy(p, f, c, a)
    BY <2>1, <2>2
  <2>5. QED
    BY <2>3, <2>4, CallDriverKeeps, CopyKeeps
<1>5. CASE Command(p)
  BY <1>5, CommandKeeps
<1>6. CASE UseFreedDev(p)
  <2>1. UNCHANGED <<files, libVars, hbi_buf, call, ret>>
    BY <1>6 DEF UseFreedDev, Oops, fileVars, uVars
  <2>2. QED
    BY <2>1, UserFrame, NoneReturns DEF UInv
<1>7. QED
  BY <1>1, <1>2, <1>3, <1>4, <1>5, <1>6 DEF ProcStep

\* Between its copy and its command an upload has the device's buffer for itself, on a file its
\* process still has open, and the library's count is that of the opens and of the calls of
\* HBI_init that were not taken back: whatever the other processes and the kernel driver do.
THEOREM UserInductive == Spec => []UInv
<1>1. UInit => UInv
  BY UserInit
<1>2. KInv /\ UInv /\ [Next]_vars => UInv'
  <2> SUFFICES ASSUME KInv, UInv, [Next]_vars
               PROVE  UInv'
    OBVIOUS
  <2>1. CASE UNCHANGED vars
    <3>1. UNCHANGED <<files, cut, named, libVars, hbi_buf, call, ret>>
      BY <2>1 DEF vars, kVars, fileVars, uVars
    <3>2. Returned' /\ CommandAsAsked'
      BY <3>1 DEF UInv, Returned, CommandAsAsked
    <3>3. QED
      BY <3>1, <3>2, UserFrame DEF UInv
  <2>2. CASE Return
    <3>1. UNCHANGED <<files, libVars, hbi_buf, call>> /\ ret' = NoRet
      BY <2>2 DEF Return, kVars, fileVars
    <3>2. QED
      BY <3>1, UserFrame, NoneReturns DEF UInv
  <2>3. CASE ret = NoRet /\ ControlStep /\ UNCHANGED uVars
    <3>1. UNCHANGED <<libVars, hbi_buf, call>> /\ ret' = NoRet
      BY <2>3 DEF uVars
    <3>2. QED
      BY <2>3, <3>1, ControlFiles, StrandedFrame, NoneReturns DEF UInv
  <2>4. CASE ret = NoRet /\ mod # "oops" /\ \E p \in Procs : ProcStep(p)
    BY <2>4, ProcKeeps
  <2>5. QED
    BY <2>1, <2>2, <2>3, <2>4 DEF Next
<1>3. QED
  BY <1>1, <1>2, KernelInductive, PTL DEF Spec

\* A call that returns SUCCESS was carried out as that command, with the caller's own data or
\* image number, on the device the file was opened for, however many processes upload at once.
THEOREM CommandsAsAsked == Spec => []CommandAsAsked
<1>1. UInv => CommandAsAsked
  BY DEF UInv
<1>2. QED
  BY <1>1, UserInductive, PTL

\* A process that takes back no more calls of HBI_init than it made finds the library up and
\* its handle alive for as long as it has the file open and nobody closes its device.
THEOREM UsersAreServed == Spec => []UsersServed
<1>1. UInv => UsersServed
  <2> SUFFICES ASSUME UInv
               PROVE  UsersServed
    OBVIOUS
  <2>1. \A p \in Procs : FilesOf(p) # {} => up[p]
    BY OpenMeansUp
  <2>2. QED
    BY <2>1 DEF UInv, Returned, UsersServed
<1>2. QED
  BY <1>1, UserInductive, PTL

\* No more devices are listed than there are minor numbers.
LEMMA ListFits == KInv => Len(list) <= NumDevs
<1> SUFFICES ASSUME KInv
             PROVE  Len(list) <= NumDevs
  OBVIOUS
<1>1. list \in Seq(Structs) /\ Distinct(list) /\ Listed \subseteq Noded
  BY DEF KInv, KTypes, Shape, Noded, Unlisted
<1>2. PICK g : g = [s \in Listed |-> devs[s].minor]
  OBVIOUS
<1>3. PICK M : M = {g[s] : s \in Listed}
  OBVIOUS
<1>4. M \subseteq Minors /\ \A s, t \in Listed : g[s] = g[t] => s = t
  BY <1>1, <1>2, <1>3 DEF KInv, Shape
<1>5. IsFiniteSet(Listed) /\ Cardinality(Listed) = Len(list)
  BY <1>1, ListCounts DEF Listed
<1>6. Cardinality(M) = Cardinality(Listed)
  BY <1>3, <1>4, <1>5, AsMany
<1>7. IsFiniteSet(Minors) /\ Cardinality(Minors) = NumDevs
  <2>1. NumDevs \in Nat \ {0} /\ 0 \in Int /\ NumDevs - 1 \in Int
    BY Constants
  <2>2. IsFiniteSet(0 .. NumDevs - 1) /\ Cardinality(0 .. NumDevs - 1) =
          IF 0 > NumDevs - 1 THEN 0 ELSE (NumDevs - 1) - 0 + 1
    BY <2>1, FS_Interval
  <2>3. QED
    BY <2>1, <2>2 DEF Minors
<1>8. Cardinality(M) <= Cardinality(Minors)
  BY <1>4, <1>7, FS_Subset
<1>9. QED
  BY <1>5, <1>6, <1>7, <1>8

\* Every variable keeps its type, and the list its length.
THEOREM TypesRight == Spec => []TypeOK
<1>1. KInv /\ UInv => TypeOK
  <2> SUFFICES ASSUME KInv, UInv
               PROVE  TypeOK
    OBVIOUS
  <2>1. op.pc \in OpPcs
    BY DEF KInv, KTypes, OpRec
  <2>2. \A p \in Procs : Idle(p) \/ (call[p].cmd \in Upload /\ files[call[p].f] # 0)
    BY DEF UInv, UTypes, UploadsRight, Idle
  <2>3. QED
    BY <2>1, <2>2, ListFits DEF KInv, KTypes, Taken, OpPcs, UInv, UTypes, TypeOK
<1>2. QED
  BY <1>1, KernelInductive, UserInductive, PTL

=============================================================================
