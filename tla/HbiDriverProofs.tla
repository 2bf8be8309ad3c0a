---------------------------- MODULE HbiDriverProofs ----------------------------
(***************************************************************************)
(* For every number of threads, devices and users per device: the type     *)
(* invariant of HbiDriver, the agreement of its counters with its tables,  *)
(* and the driver staying up while anything uses it.  The proofs go by the *)
(* inductive invariant IInv of HbiDriverInv.                               *)
(***************************************************************************)
EXTENDS HbiDriverInv, TLAPS, FiniteSetTheorems

-----------------------------------------------------------------------------
(* The constants and the sets that are counted *)

LEMMA SlotFacts ==
  /\ MaxInst \in Nat
  /\ NoDev \notin DevSlots /\ NoPort = NoDev /\ InvalidId = MaxInst /\ MaxInst \notin InstSlots
  /\ IsFiniteSet(DevSlots) /\ Cardinality(DevSlots) = MaxDevs
  /\ IsFiniteSet(InstSlots) /\ Cardinality(InstSlots) = MaxInst
<1>1. MaxDevs \in Nat \ {0} /\ MaxInstPerDev \in Nat \ {0}
  BY ConstantsOK
<1>2. MaxInst \in Nat
  BY <1>1 DEF MaxInst
<1>3. IsFiniteSet(DevSlots) /\ Cardinality(DevSlots) = MaxDevs
  BY <1>1, FS_Interval DEF DevSlots
<1>4. IsFiniteSet(InstSlots) /\ Cardinality(InstSlots) = MaxInst
  <2>1. 0 \in Int /\ MaxInst - 1 \in Int
    BY <1>2
  <2>2. IsFiniteSet(0 .. MaxInst - 1)
        /\ Cardinality(0 .. MaxInst - 1) = IF 0 > MaxInst - 1 THEN 0 ELSE MaxInst - 1 - 0 + 1
    BY <2>1, FS_Interval
  <2>3. QED
    BY <1>2, <2>2 DEF InstSlots
<1>5. NoDev \notin DevSlots /\ NoPort = NoDev /\ InvalidId = MaxInst /\ MaxInst \notin InstSlots
  BY <1>1, <1>2 DEF NoDev, NoPort, InvalidId, DevSlots, InstSlots
<1>6. QED
  BY <1>2, <1>3, <1>4, <1>5

LEMMA CountedSets ==
  /\ IsFiniteSet(UsedInsts) /\ Cardinality(UsedInsts) \in 0 .. MaxInst
  /\ IsFiniteSet(UsedDevs) /\ Cardinality(UsedDevs) \in 0 .. MaxDevs
  /\ IsFiniteSet(Busy) /\ Cardinality(Busy) \in Nat
  /\ \A d : IsFiniteSet(UsersOf(d)) /\ Cardinality(UsersOf(d)) \in Nat
<1>1. UsedInsts \subseteq InstSlots /\ UsedDevs \subseteq DevSlots /\ Busy \subseteq Threads
  BY DEF UsedInsts, UsedDevs, Busy
<1>2. IsFiniteSet(UsedInsts) /\ Cardinality(UsedInsts) \in 0 .. MaxInst
  BY <1>1, SlotFacts, FS_Subset, FS_CardinalityType
<1>3. IsFiniteSet(UsedDevs) /\ Cardinality(UsedDevs) \in 0 .. MaxDevs
  BY <1>1, SlotFacts, FS_Subset, FS_CardinalityType
<1>4. IsFiniteSet(Busy) /\ Cardinality(Busy) \in Nat
  BY <1>1, ConstantsOK, FS_Subset, FS_CardinalityType
<1>5. ASSUME NEW d
      PROVE  IsFiniteSet(UsersOf(d)) /\ Cardinality(UsersOf(d)) \in Nat
  <2>1. UsersOf(d) \subseteq UsedInsts
    BY DEF UsersOf
  <2>2. QED
    BY <2>1, <1>2, FS_Subset, FS_CardinalityType
<1>6. QED
  BY <1>2, <1>3, <1>4, <1>5

\* The index a scan stops at is one of the set, or the end.
LEMMA FirstIn ==
  ASSUME NEW S, NEW none, NEW s \in First(S, none)
  PROVE  s \in S \/ (S = {} /\ s = none)
BY DEF First

-----------------------------------------------------------------------------
(* Steps that change no table and no counter *)

\* A thread moves to place x with call y, taking or releasing locks; the tables stay.
LEMMA LocalStep ==
  ASSUME IInv, NEW t \in Threads, NEW x \in Labels, NEW y \in CallRec,
         pc' = [pc EXCEPT ![t] = x], loc' = [loc EXCEPT ![t] = y],
         res' \in [Threads -> Statuses],
         UNCHANGED <<drvVars, sslVars, histVars>>,
         lock' \in Threads \cup {NoThread},
         dev_locks' \in [DeviceIds -> Threads \cup {NoThread}],
         \A u \in Threads \ {t} : pc[u] \in CritLabels => Sole \/ lock' = u,
         x \in CritLabels => Sole \/ (cfg_lock /\ lock' = t),
         Placed(x, y), FoundStill(x, y), Stands(x, y),
         pc[t] # "term_final", x # "term_final",
         Counted(x, y) => Counted(pc[t], loc[t]),
         Exclusive(y) => \A u \in Threads \ {t} : pc[u] = "idle",
         x = "idle" \/ \A u \in Threads \ {t} : ~Exclusive(loc[u])
  PROVE  IInv'
<1>1. /\ pc \in [Threads -> Labels] /\ loc \in [Threads -> CallRec]
      /\ pc'[t] = x /\ loc'[t] = y
      /\ \A u \in Threads \ {t} : pc'[u] = pc[u] /\ loc'[u] = loc[u]
  BY DEF IInv, TypeOK
<1>2. /\ UNCHANGED <<bInitialized, init_count, cfg_lock, num_opened_dev, num_instances>>
      /\ UNCHANGED <<dev_list, inst_list, ssl_inited, ssl_dev, owned, loaded>>
  BY DEF drvVars, sslVars, histVars
<1>3. UsedInsts' = UsedInsts /\ UsedDevs' = UsedDevs /\ \A d : UsersOf(d)' = UsersOf(d)
  BY <1>2 DEF UsedInsts, UsedDevs, UsersOf
<1>4. Busy' \subseteq Busy
  BY <1>1 DEF Busy
<1>5. Cardinality(Busy') \in Nat /\ Cardinality(Busy') <= Cardinality(Busy)
  BY <1>4, CountedSets, FS_Subset, FS_CardinalityType
<1>6. TypeOK'
  <2>1. pc' \in [Threads -> Labels] /\ loc' \in [Threads -> CallRec]
    BY <1>1
  <2>2. QED
    BY <1>2, <2>1 DEF IInv, TypeOK
<1>7. CallsPlaced'
  BY <1>1 DEF IInv, CallsPlaced, Placed
<1>8. LoadsAlone'
  BY <1>1 DEF IInv, LoadsAlone, Exclusive
<1>9. LockHeld'
  BY <1>1, <1>2 DEF IInv, LockHeld
<1>10. EntriesOK' /\ CountsAgree'
  <2>1. EntriesOK'
    BY <1>2 DEF IInv, EntriesOK
  <2>2. CountsAgree'
    BY <1>2, <1>3 DEF IInv, CountsAgree
  <2>3. QED
    BY <2>1, <2>2
<1>11. CritOK'
  BY <1>1, <1>2 DEF IInv, CritOK, FoundStill
<1>12. InitCovers'
  <2>1. init_count \in Nat /\ loaded \in Nat /\ Cardinality(UsedInsts) \in Nat
    BY CountedSets DEF IInv, TypeOK
  <2>2. Busy' # {} => Busy # {}
    BY <1>4
  <2>3. QED
    BY <1>2, <1>3, <1>5, <2>1, <2>2, CountedSets DEF IInv, InitCovers, Up
<1>13. UpLocked'
  BY <1>1, <1>2, <1>3 DEF IInv, UpLocked
<1>14. AllStand'
  BY <1>1, <1>2, <1>3, <1>4 DEF IInv, AllStand, Stands, Up
<1>15. QED
  BY <1>6, <1>7, <1>8, <1>9, <1>10, <1>11, <1>12, <1>13, <1>14 DEF IInv

\* The types of what a step reads, and what other threads do while t is in a call.
LEMMA Here ==
  ASSUME IInv, NEW t \in Threads
  PROVE  /\ pc[t] \in Labels /\ loc[t] \in CallRec
         /\ pc \in [Threads -> Labels] /\ loc \in [Threads -> CallRec]
         /\ res \in [Threads -> Statuses]
         /\ lock \in Threads \cup {NoThread}
         /\ dev_locks \in [DeviceIds -> Threads \cup {NoThread}]
         /\ Placed(pc[t], loc[t]) /\ FoundStill(pc[t], loc[t]) /\ Stands(pc[t], loc[t])
         /\ pc[t] # "idle" => \A u \in Threads \ {t} : ~Exclusive(loc[u])
         /\ Exclusive(loc[t]) => \A u \in Threads \ {t} : pc[u] = "idle"
         /\ \A u \in Threads : pc[u] \in CritLabels => Sole \/ (cfg_lock /\ lock = u)
         /\ NoCall \in CallRec
<1>1. NoCall \in CallRec
  BY SlotFacts DEF NoCall, CallRec, Clients
<1>2. QED
  BY <1>1 DEF IInv, TypeOK, CallsPlaced, CritOK, AllStand, LoadsAlone, LockHeld

\* A call returns: its thread may have held the driver lock and may release it.
LEMMA ReturnStep ==
  ASSUME IInv, NEW t \in Threads, NEW status \in Statuses, Return(t, status),
         UNCHANGED <<drvVars, sslVars, histVars>>,
         lock' \in Threads \cup {NoThread},
         dev_locks' \in [DeviceIds -> Threads \cup {NoThread}],
         \A u \in Threads \ {t} : pc[u] \in CritLabels => Sole \/ lock' = u,
         pc[t] # "term_final"
  PROVE  IInv'
<1>1. "idle" \in Labels
  BY DEF Labels
<1>2. Placed("idle", NoCall) /\ FoundStill("idle", NoCall) /\ Stands("idle", NoCall)
  BY DEF Placed, FoundStill, Stands, NoCall, OpenLabels, TermLabels
<1>3. ~Counted("idle", NoCall) /\ ~Exclusive(NoCall) /\ "idle" \notin CritLabels
  BY DEF Counted, Exclusive, NoCall, OpenLabels, TermLabels, CritLabels
<1>4. res' \in [Threads -> Statuses]
  BY Here DEF Return
<1>5. QED
  BY <1>1, <1>2, <1>3, <1>4, Here, LocalStep DEF Return

\* A thread goes from one place of its call to another outside the locked stretches.
LEMMA GotoStep ==
  ASSUME IInv, NEW t \in Threads, NEW x \in Labels, Goto(t, x), UNCHANGED loc,
         UNCHANGED <<drvVars, sslVars, lockVars, histVars>>,
         pc[t] \notin {"idle", "term_final"}, x \notin {"idle", "term_final"},
         x \notin CritLabels, Placed(x, loc[t]), Stands(x, loc[t]),
         Counted(x, loc[t]) => Counted(pc[t], loc[t])
  PROVE  IInv'
<1>1. loc' = [loc EXCEPT ![t] = loc[t]]
  BY Here
<1>2. FoundStill(x, loc[t])
  BY DEF FoundStill, CritLabels
<1>3. QED
  BY <1>1, <1>2, Here, LocalStep DEF Goto, lockVars, CritLabels

LEMMA CallStep ==
  ASSUME IInv, NEW t \in Threads, NEW x \in Labels, NEW y \in CallRec, Start(t, y, x),
         UNCHANGED <<drvVars, sslVars, lockVars, histVars>>,
         x \notin CritLabels, x \notin {"idle", "term_final"}, Placed(x, y), Stands(x, y),
         ~Counted(x, y),
         Exclusive(y) => \A u \in Threads \ {t} : pc[u] = "idle"
  PROVE  IInv'
<1>1. \A u \in Threads : ~Exclusive(loc[u])
  BY DEF Start, MayCall, Exclusive
<1>2. FoundStill(x, y)
  BY DEF FoundStill, CritLabels
<1>3. res' \in [Threads -> Statuses]
  BY Here DEF Start, Statuses
<1>4. QED
  BY <1>1, <1>2, <1>3, Here, LocalStep DEF Start, MayCall, lockVars, CritLabels

-----------------------------------------------------------------------------
(* The actions that are such steps *)

LEMMA CallInitKeeps ==
  ASSUME IInv, NEW t \in Threads, CallInit(t)
  PROVE  IInv'
<1> DEFINE y == [NoCall EXCEPT !.op = "init"]
<1>1. y \in CallRec /\ y.op = "init"
  BY Here DEF NoCall, CallRec
<1>2. InitLabel \in Labels /\ InitLabel \in {"init_count", "init_setup"}
  BY DEF InitLabel, Labels
<1>3. \A u \in Threads : pc[u] = "idle"
  BY DEF CallInit, Quiet
<1>4. Stands(InitLabel, y)
  <2>1. bInitialized => ssl_inited
    BY <1>3 DEF IInv, UpLocked
  <2>2. QED
    BY <1>1, <2>1 DEF Stands, InitLabel, Up, TermLabels
<1>5. Placed(InitLabel, y) /\ ~Counted(InitLabel, y) /\ InitLabel \notin CritLabels
  BY <1>1, <1>2 DEF Placed, Counted, OpenLabels, TermLabels, CritLabels
<1>6. QED
  BY <1>1, <1>2, <1>3, <1>4, <1>5, CallStep DEF CallInit

LEMMA CallOpenKeeps ==
  ASSUME Locked, IInv, NEW t \in Threads, NEW id \in DeviceIds, CallOpen(t, id)
  PROVE  IInv'
<1> DEFINE y == [NoCall EXCEPT !.op = "open", !.id = id]
<1>1. y \in CallRec /\ y.op = "open" /\ y.id = id
  BY Here DEF NoCall, CallRec
<1>2. loaded > 0 \/ Sole
  BY DEF Locked, CallOpen
<1>3. InitLabel \in {"init_count", "init_setup"} /\ (InitLabel = "init_setup" => ~bInitialized)
      /\ (InitLabel = "init_count" => bInitialized)
  BY DEF InitLabel
<1>4. bInitialized => Up
  <2>1. CASE loaded > 0
    BY <2>1 DEF IInv, InitCovers
  <2>2. CASE Sole
    <3>1. \A u \in Threads : pc[u] # "term_final"
      BY <2>2 DEF Sole, CallOpen, Start, MayCall
    <3>2. QED
      BY <3>1 DEF IInv, UpLocked, Up
  <2>3. QED
    BY <1>2, <2>1, <2>2
<1>5. InitLabel = "init_setup" => Sole
  <2>1. loaded > 0 => bInitialized
    BY DEF IInv, InitCovers, Up
  <2>2. QED
    BY <1>2, <1>3, <2>1
<1>6. Placed(InitLabel, y) /\ Stands(InitLabel, y) /\ ~Counted(InitLabel, y) /\ ~Exclusive(y)
      /\ InitLabel \notin CritLabels \cup {"idle", "term_final"} /\ InitLabel \in Labels
  BY <1>1, <1>2, <1>3, <1>4, <1>5
     DEF Placed, Stands, Counted, Exclusive, OpenLabels, TermLabels, CritLabels, Labels
<1>7. QED
  BY <1>1, <1>6, CallStep DEF CallOpen

LEMMA CallTermKeeps ==
  ASSUME IInv, NEW t \in Threads, CallTerm(t)
  PROVE  IInv'
<1> DEFINE y == [NoCall EXCEPT !.op = "term"]
<1>1. y \in CallRec /\ y.op = "term" /\ "term_check" \in Labels
  BY Here DEF NoCall, CallRec, Labels
<1>2. Placed("term_check", y) /\ Stands("term_check", y) /\ ~Counted("term_check", y)
      /\ "term_check" \notin CritLabels
  BY <1>1 DEF Placed, Stands, Counted, CallTerm, OpenLabels, TermLabels, CritLabels
<1>3. \A u \in Threads : pc[u] = "idle"
  BY DEF CallTerm, Quiet
<1>4. QED
  BY <1>1, <1>2, <1>3, CallStep DEF CallTerm

\* CHK_IF_INITED and CHK_VALID_HANDLE let only a handle of the table through.
LEMMA CallHandleKeeps ==
  ASSUME IInv, NEW t \in Threads, NEW h \in InstSlots \cup {MaxInst},
         NEW op, NEW label, <<op, label>> \in {<<"close", "close_lock">>, <<"use", "use_fetch">>},
         CallHandle(t, h, op, label)
  PROVE  IInv'
<1>1. CASE CheckHandle(h) = "SUCCESS"
  <2> DEFINE y == [NoCall EXCEPT !.op = op, !.handle = h]
  <2>1. h \in InstSlots
    BY <1>1, SlotFacts DEF CheckHandle, InstSlots
  <2>2. y \in CallRec /\ y.op = op /\ y.handle = h /\ label \in Labels
    BY <2>1, Here DEF NoCall, CallRec, Labels
  <2>3. Placed(label, y) /\ Stands(label, y) /\ ~Counted(label, y) /\ ~Exclusive(y)
        /\ label \notin CritLabels \cup {"idle", "term_final"}
    BY <2>1, <2>2 DEF Placed, Stands, Counted, Exclusive, OpenLabels, TermLabels, CritLabels
  <2>4. QED
    BY <1>1, <2>2, <2>3, CallStep DEF CallHandle
<1>2. CASE CheckHandle(h) # "SUCCESS"
  <2>1. CheckHandle(h) \in Statuses
    BY DEF CheckHandle, Statuses
  <2>2. QED
    BY <1>2, <2>1, Here, ReturnStep DEF CallHandle, MayCall, lockVars
<1>3. QED
  BY <1>1, <1>2

LEMMA HandlesAreSlots ==
  ASSUME IInv, NEW t \in Threads, NEW h \in HandlesOf(t)
  PROVE  h \in InstSlots \cup {MaxInst}
BY DEF HandlesOf, IInv, TypeOK

LEMMA CallCloseKeeps ==
  ASSUME IInv, NEW t \in Threads, CallClose(t)
  PROVE  IInv'
BY HandlesAreSlots, CallHandleKeeps DEF CallClose

LEMMA CallUseKeeps ==
  ASSUME IInv, NEW t \in Threads, CallUse(t)
  PROVE  IInv'
BY HandlesAreSlots, CallHandleKeeps DEF CallUse

LEMMA OpenCheckKeeps ==
  ASSUME IInv, NEW t \in Threads, OpenCheck(t)
  PROVE  IInv'
<1>1. {"NOT_INIT", "RESOURCE_ERR"} \subseteq Statuses /\ "open_lock" \in Labels
  BY DEF Statuses, Labels
<1>2. Placed("open_lock", loc[t]) /\ Stands("open_lock", loc[t])
      /\ Counted(pc[t], loc[t]) /\ "open_lock" \notin CritLabels
  BY Here DEF OpenCheck, Placed, Stands, Counted, OpenLabels, TermLabels, CritLabels
<1>3. CASE Goto(t, "open_lock") /\ UNCHANGED loc
  BY <1>1, <1>2, <1>3, GotoStep DEF OpenCheck
<1>4. CASE \E status \in {"NOT_INIT", "RESOURCE_ERR"} : Return(t, status)
  BY <1>1, <1>4, Here, ReturnStep DEF OpenCheck, lockVars
<1>5. QED
  BY <1>3, <1>4 DEF OpenCheck

LEMMA TermCheckKeeps ==
  ASSUME IInv, NEW t \in Threads, TermCheck(t)
  PROVE  IInv'
<1>1. "SUCCESS" \in Statuses /\ "term_lock" \in Labels
  BY DEF Statuses, Labels
<1>2. Placed("term_lock", loc[t]) /\ Stands("term_lock", loc[t])
      /\ (Counted("term_lock", loc[t]) => Counted(pc[t], loc[t])) /\ "term_lock" \notin CritLabels
  BY Here DEF TermCheck, Placed, Stands, Counted, OpenLabels, TermLabels, CritLabels
<1>3. CASE Goto(t, "term_lock") /\ UNCHANGED loc
  BY <1>1, <1>2, <1>3, GotoStep DEF TermCheck
<1>4. CASE Return(t, "SUCCESS")
  BY <1>1, <1>4, Here, ReturnStep DEF TermCheck, lockVars
<1>5. QED
  BY <1>3, <1>4 DEF TermCheck

\* The driver has its lock while a call that opens is under way, and while a handle is in use.
LEMMA LockIsSet ==
  ASSUME IInv, loaded > 0 \/ UsedInsts # {}
  PROVE  (cfg_lock \/ Sole) /\ bInitialized
BY DEF IInv, InitCovers, UpLocked, Up

\* A thread that gets the driver lock finds nobody in the locked stretches.
LEMMA NobodyInside ==
  ASSUME IInv, cfg_lock \/ Sole, CanLock, NEW t \in Threads, pc[t] \notin CritLabels
  PROVE  \A u \in Threads : pc[u] \notin CritLabels
<1>1. CASE Sole
  BY <1>1 DEF Sole
<1>2. CASE ~Sole
  BY <1>2, ConstantsOK DEF IInv, LockHeld, CanLock
<1>3. QED
  BY <1>1, <1>2

LEMMA OpenLockKeeps ==
  ASSUME IInv, NEW t \in Threads, OpenLock(t)
  PROVE  IInv'
<1>1. pc[t] = "open_lock" /\ CanLock /\ UNCHANGED <<drvVars, sslVars, dev_locks, histVars>>
  BY DEF OpenLock
<1>2. PICK s \in First(FreeInsts, MaxInst), d \in First(OpenedAs(loc[t].id), NoDev),
           f \in First(FreeDevs, NoDev) :
        \/ Return(t, "RESOURCE_ERR") /\ UNCHANGED lock
        \/ /\ d # NoDev /\ Goto(t, "open_commit") /\ Take(t)
           /\ loc' = [loc EXCEPT ![t].slot = s, ![t].dev = d]
        \/ /\ Goto(t, "open_port") /\ Take(t)
           /\ loc' = [loc EXCEPT ![t].slot = s, ![t].dev = f]
  BY DEF OpenLock
<1>3. loc[t].op = "open" /\ loc[t].id \in DeviceIds /\ (loaded > 0 \/ Sole)
  BY <1>1, Here DEF Placed, Stands, OpenLabels
<1>4. (cfg_lock \/ Sole) /\ \A u \in Threads : pc[u] \notin CritLabels
  <2>1. cfg_lock \/ Sole
    BY <1>3, LockIsSet
  <2>2. pc[t] \notin CritLabels
    BY <1>1 DEF CritLabels
  <2>3. QED
    BY <1>1, <2>1, <2>2, NobodyInside
<1>5. /\ s \in InstSlots \cup {MaxInst} /\ (s # MaxInst => ~inst_list[s].inuse)
      /\ d \in DevSlots \cup {NoDev} /\ f \in DevSlots \cup {NoDev}
      /\ f # NoDev => ~dev_list[f].inuse
  BY FirstIn, SlotFacts DEF FreeInsts, OpenedAs, FreeDevs
<1>6. CASE Return(t, "RESOURCE_ERR") /\ UNCHANGED lock
  <2>1. "RESOURCE_ERR" \in Statuses
    BY DEF Statuses
  <2>2. QED
    BY <1>1, <1>6, <2>1, Here, ReturnStep
<1>7. ASSUME NEW x \in {"open_commit", "open_port"}, NEW e \in DevSlots \cup {NoDev},
             x = "open_commit" => e # NoDev,
             x = "open_port" /\ e # NoDev => ~dev_list[e].inuse,
             Goto(t, x), Take(t), loc' = [loc EXCEPT ![t].slot = s, ![t].dev = e]
      PROVE  IInv'
  <2> DEFINE y == [loc[t] EXCEPT !.slot = s, !.dev = e]
  <2>1. /\ x \in Labels /\ x \in CritLabels \cap OpenLabels
        /\ x \notin TermLabels \cup {"term_final", "idle"}
    BY DEF Labels, CritLabels, OpenLabels, TermLabels
  <2>2. y \in CallRec /\ loc' = [loc EXCEPT ![t] = y]
        /\ y.op = "open" /\ y.id \in DeviceIds /\ y.slot = s /\ y.dev = e
    BY <1>3, <1>5, <1>7, Here, ZenonT(60) DEF CallRec
  <2>3. Placed(x, y)
    BY <1>7, <2>1, <2>2 DEF Placed, OpenLabels, TermLabels
  <2>4. FoundStill(x, y)
    BY <1>5, <1>7, <2>2 DEF FoundStill
  <2>5. Stands(x, y) /\ ~Exclusive(y)
    BY <1>3, <1>7, <2>1, <2>2 DEF Stands, Exclusive
  <2>6. Counted(pc[t], loc[t])
    BY <1>1 DEF Counted, OpenLabels
  <2>7. /\ lock' \in Threads \cup {NoThread} /\ (Sole \/ (cfg_lock /\ lock' = t))
        /\ UNCHANGED res /\ pc' = [pc EXCEPT ![t] = x]
    BY <1>4, <1>7, Here DEF Take, Goto
  <2>8. QED
    BY <1>1, <1>4, <2>1, <2>2, <2>3, <2>4, <2>5, <2>6, <2>7, Here, LocalStep, ZenonT(60)
<1>8. QED
  BY <1>2, <1>5, <1>6, <1>7

LEMMA CloseLockKeeps ==
  ASSUME IInv, NEW t \in Threads, CloseLock(t)
  PROVE  IInv'
<1> DEFINE h == loc[t].handle
           d == inst_list[h].pDev
           y == [loc[t] EXCEPT !.dev = d]
<1>1. /\ pc[t] = "close_lock" /\ CanLock /\ d # NoDev /\ Take(t)
      /\ loc' = [loc EXCEPT ![t].dev = d]
      /\ UNCHANGED <<drvVars, sslVars, dev_locks, histVars>>
  BY DEF CloseLock
<1>2. PICK x \in {"close_port", "close_commit"} : Goto(t, x)
  BY DEF CloseLock
<1>3. loc[t].op = "close" /\ h \in InstSlots
  BY <1>1, Here DEF Placed
<1>4. d \in DevSlots
  BY <1>1, <1>3 DEF IInv, TypeOK, InstRec
<1>5. (cfg_lock \/ Sole) /\ \A u \in Threads : pc[u] \notin CritLabels
  <2>1. inst_list[h].inuse
    BY <1>1, <1>3 DEF IInv, EntriesOK
  <2>2. UsedInsts # {}
    BY <1>3, <2>1 DEF UsedInsts
  <2>3. (cfg_lock \/ Sole) /\ pc[t] \notin CritLabels
    BY <1>1, <2>2, LockIsSet DEF CritLabels
  <2>4. QED
    BY <1>1, <2>3, NobodyInside
<1>6. y \in CallRec /\ loc' = [loc EXCEPT ![t] = y] /\ y.op = "close" /\ y.handle = h /\ y.dev = d
  BY <1>1, <1>3, <1>4, Here, ZenonT(60) DEF CallRec
<1>7. x \in Labels /\ x \in CritLabels /\ x \notin OpenLabels \cup TermLabels \cup {"idle"}
  BY DEF Labels, CritLabels, OpenLabels, TermLabels
<1>8. Placed(x, y) /\ FoundStill(x, y) /\ Stands(x, y) /\ ~Counted(x, y) /\ ~Exclusive(y)
  <2>1. y.op = "close" /\ y.handle = h /\ y.dev = d /\ d # NoDev /\ h \in InstSlots
    BY <1>1, <1>3, <1>6
  <2>2. inst_list[y.handle].pDev = y.dev
    BY <2>1
  <2> HIDE DEF y
  <2>3. Placed(x, y)
    BY <1>2, <1>7, <2>1 DEF Placed, OpenLabels, TermLabels
  <2>4. FoundStill(x, y)
    BY <1>2, <2>1, <2>2 DEF FoundStill
  <2>5. Stands(x, y)
    BY <1>2, <1>7, <2>1 DEF Stands, TermLabels
  <2>6. ~Counted(x, y) /\ ~Exclusive(y)
    BY <1>7, <2>1 DEF Counted, Exclusive
  <2>7. QED
    BY <2>3, <2>4, <2>5, <2>6
<1>9. /\ lock' \in Threads \cup {NoThread} /\ (Sole \/ (cfg_lock /\ lock' = t))
      /\ UNCHANGED res /\ pc' = [pc EXCEPT ![t] = x]
  BY <1>1, <1>2, <1>5, Here DEF Take, Goto
<1>10. \A u \in Threads \ {t} : ~Exclusive(loc[u])
  BY <1>1, Here
<1>11. /\ res' \in [Threads -> Statuses] /\ lock' \in Threads \cup {NoThread}
       /\ dev_locks' \in [DeviceIds -> Threads \cup {NoThread}]
  BY <1>1, <1>9, Here
<1>12. UNCHANGED <<drvVars, sslVars, histVars>> /\ pc[t] # "term_final" /\ x # "term_final"
  BY <1>1
<1> HIDE DEF y, h, d
<1>13. QED
  BY <1>5, <1>6, <1>7, <1>8, <1>9, <1>10, <1>11, <1>12, LocalStep

LEMMA UseFetchKeeps ==
  ASSUME IInv, NEW t \in Threads, UseFetch(t)
  PROVE  IInv'
<1> DEFINE y == [loc[t] EXCEPT !.dev = inst_list[loc[t].handle].pDev]
<1>1. pc[t] = "use_fetch" /\ loc[t].op = "use" /\ "use_begin" \in Labels
  BY Here DEF UseFetch, Placed, Labels
<1>2. loc[t].handle \in InstSlots
  <2>1. 0 \in InstSlots
    BY ConstantsOK DEF InstSlots, MaxInst
  <2>2. QED
    BY <2>1, Here DEF CallRec
<1>3. y \in CallRec /\ y.op = "use"
  BY <1>1, <1>2, Here, ZenonT(60) DEF CallRec, IInv, TypeOK, InstRec
<1>4. Placed("use_begin", y) /\ FoundStill("use_begin", y) /\ Stands("use_begin", y)
      /\ ~Counted("use_begin", y) /\ ~Exclusive(y) /\ "use_begin" \notin CritLabels
  BY <1>3 DEF Placed, FoundStill, Stands, Counted, Exclusive, OpenLabels, TermLabels, CritLabels
<1>5. loc' = [loc EXCEPT ![t] = y] /\ pc' = [pc EXCEPT ![t] = "use_begin"] /\ UNCHANGED res
  BY Here DEF UseFetch, Goto
<1>6. UNCHANGED <<drvVars, sslVars, lock, dev_locks, histVars>>
  BY DEF UseFetch, lockVars
<1> HIDE DEF y
<1>7. QED
  BY <1>1, <1>3, <1>4, <1>5, <1>6, Here, LocalStep

LEMMA UseBeginKeeps ==
  ASSUME IInv, NEW t \in Threads, UseBegin(t)
  PROVE  IInv'
<1> DEFINE d == loc[t].dev
           p == dev_list[d].port
           y == [loc[t] EXCEPT !.port = p, !.client = ssl_dev[p]]
<1>1. pc[t] = "use_begin" /\ d # NoDev /\ UNCHANGED <<drvVars, sslVars, lock, histVars>>
  BY DEF UseBegin
<1>2. loc[t].op = "use" /\ d \in DevSlots
  BY <1>1, Here DEF Placed, CallRec
<1>3. CASE /\ p # NoPort /\ HoldDevLock(d, t) /\ Goto(t, "use_end")
           /\ loc' = [loc EXCEPT ![t].port = p, ![t].client = ssl_dev[p]]
  <2>1. p \in DevSlots /\ ssl_dev[p] \in Clients
    BY <1>2, <1>3 DEF IInv, TypeOK, DevRec
  <2>2. y \in CallRec /\ loc' = [loc EXCEPT ![t] = y] /\ y.op = "use" /\ "use_end" \in Labels
    <3>1. "use_end" \in Labels
      BY DEF Labels
    <3>2. y.op = "use" /\ y \in CallRec
      BY <1>2, <2>1, Here, ZenonT(60) DEF CallRec
    <3>3. loc' = [loc EXCEPT ![t] = y]
      BY <1>3, Here DEF CallRec
    <3>4. QED
      BY <3>1, <3>2, <3>3
  <2>3. Placed("use_end", y) /\ FoundStill("use_end", y) /\ Stands("use_end", y)
        /\ ~Counted("use_end", y) /\ ~Exclusive(y) /\ "use_end" \notin CritLabels
    BY <2>2 DEF Placed, FoundStill, Stands, Counted, Exclusive, OpenLabels, TermLabels, CritLabels
  <2>4. dev_locks' \in [DeviceIds -> Threads \cup {NoThread}]
    BY <1>3, Here DEF HoldDevLock
  <2>5. pc' = [pc EXCEPT ![t] = "use_end"] /\ UNCHANGED res
    BY <1>3 DEF Goto
  <2> HIDE DEF y
  <2>6. QED
    BY <1>1, <2>2, <2>3, <2>4, <2>5, Here, LocalStep
<1>4. CASE Return(t, "INTERNAL_ERR") /\ UNCHANGED dev_locks
  <2>1. "INTERNAL_ERR" \in Statuses
    BY DEF Statuses
  <2>2. QED
    BY <1>1, <1>4, <2>1, Here, ReturnStep
<1>5. QED
  BY <1>3, <1>4 DEF UseBegin

LEMMA UseEndKeeps ==
  ASSUME IInv, NEW t \in Threads, UseEnd(t)
  PROVE  IInv'
<1>1. PICK status \in {"SUCCESS", "INTERNAL_ERR"} : Return(t, status)
  BY DEF UseEnd
<1>2. status \in Statuses
  BY DEF Statuses
<1>3. dev_locks' \in [DeviceIds -> Threads \cup {NoThread}]
  BY Here DEF UseEnd, HoldDevLock
<1>4. QED
  BY <1>1, <1>2, <1>3, Here, ReturnStep DEF UseEnd

\* A thread that dies keeps the driver lock, but none dies in HBI_close: CloseLock finds a
\* NULL pDev only when the lock is not held by another.
LEMMA FaultKeeps ==
  ASSUME IInv, NEW t \in Threads, Fault(t)
  PROVE  IInv'
<1>1. /\ pc[t] \in {"close_lock", "open_port", "use_begin", "open_commit"}
      /\ pc[t] = "close_lock" => CanLock
      /\ Goto(t, "dead") /\ UNCHANGED <<drvVars, sslVars, dev_locks, loc, histVars>>
      /\ IF pc[t] = "close_lock" THEN Take(t) ELSE UNCHANGED lock
  BY DEF Fault, AtFault
<1>2. /\ lock' \in Threads \cup {NoThread}
      /\ \A u \in Threads \ {t} : pc[u] \in CritLabels => Sole \/ lock' = u
  <2>1. CASE pc[t] = "close_lock" /\ cfg_lock
    <3>1. \A u \in Threads : pc[u] \notin CritLabels
      BY <1>1, <2>1, NobodyInside DEF CritLabels
    <3>2. QED
      BY <1>1, <2>1, <3>1, Here DEF Take
  <2>2. CASE ~(pc[t] = "close_lock" /\ cfg_lock)
    <3>1. UNCHANGED lock
      BY <1>1, <2>2 DEF Take
    <3>2. QED
      BY <3>1, Here
  <2>3. QED
    BY <2>1, <2>2
<1>3. "dead" \in Labels /\ "dead" \notin CritLabels /\ loc' = [loc EXCEPT ![t] = loc[t]]
  BY <1>1, Here DEF Labels, CritLabels
<1>4. Placed("dead", loc[t]) /\ FoundStill("dead", loc[t]) /\ Stands("dead", loc[t])
      /\ ~Counted("dead", loc[t])
  BY <1>1, Here DEF Placed, FoundStill, Stands, Counted, OpenLabels, TermLabels
<1>5. pc' = [pc EXCEPT ![t] = "dead"] /\ UNCHANGED res
  BY <1>1 DEF Goto
<1>6. QED
  BY <1>1, <1>2, <1>3, <1>4, <1>5, Here, LocalStep

-----------------------------------------------------------------------------
(* The steps that change a table or a counter, with no other thread in a locked stretch *)

\* What IInv says of the places of the threads, when t moves to place x with call y.
LEMMA MoveStep ==
  ASSUME IInv, NEW t \in Threads, NEW x \in Labels, NEW y \in CallRec,
         pc' = [pc EXCEPT ![t] = x], loc' = [loc EXCEPT ![t] = y],
         \A u \in Threads \ {t} : pc[u] \notin CritLabels,
         x \in CritLabels => Sole \/ (cfg_lock' /\ lock' = t),
         Placed(x, y), FoundStill(x, y)',
         Exclusive(y) => \A u \in Threads \ {t} : pc[u] = "idle",
         x = "idle" \/ \A u \in Threads \ {t} : ~Exclusive(loc[u])
  PROVE  /\ pc' \in [Threads -> Labels] /\ loc' \in [Threads -> CallRec]
         /\ pc'[t] = x /\ loc'[t] = y
         /\ \A u \in Threads \ {t} : pc'[u] = pc[u] /\ loc'[u] = loc[u]
         /\ CallsPlaced' /\ LoadsAlone' /\ LockHeld' /\ CritOK'
<1>1. /\ pc \in [Threads -> Labels] /\ loc \in [Threads -> CallRec]
      /\ pc' \in [Threads -> Labels] /\ loc' \in [Threads -> CallRec]
      /\ pc'[t] = x /\ loc'[t] = y
      /\ \A u \in Threads \ {t} : pc'[u] = pc[u] /\ loc'[u] = loc[u]
  BY DEF IInv, TypeOK
<1>2. CallsPlaced'
  BY <1>1 DEF IInv, CallsPlaced, Placed
<1>3. LoadsAlone'
  BY <1>1 DEF IInv, LoadsAlone, Exclusive
<1>4. LockHeld'
  BY <1>1 DEF LockHeld
<1>5. CritOK'
  BY <1>1 DEF CritOK, FoundStill, CritLabels
<1>6. QED
  BY <1>1, <1>2, <1>3, <1>4, <1>5

\* What the other threads count on stays true.
LEMMA OthersStand ==
  ASSUME IInv, NEW t \in Threads,
         \A u \in Threads \ {t} : pc'[u] = pc[u] /\ loc'[u] = loc[u],
         Stands(pc[t], loc[t])',
         \/ \A u \in Threads \ {t} : pc[u] = "idle"
         \/ /\ \A u \in Threads \ {t} : pc[u] # "term_final"
            /\ bInitialized' = bInitialized /\ (Up => Up') /\ (loaded > 0 => loaded' > 0)
  PROVE  AllStand'
<1>1. SUFFICES ASSUME NEW u \in Threads \ {t} PROVE Stands(pc[u], loc[u])'
  BY DEF AllStand
<1>2. Placed(pc[u], loc[u]) /\ Stands(pc[u], loc[u])
  BY Here
<1>3. CASE pc[u] = "idle"
  BY <1>2, <1>3 DEF Placed, Stands, OpenLabels, TermLabels
<1>4. CASE /\ pc[u] # "term_final"
           /\ bInitialized' = bInitialized /\ (Up => Up') /\ (loaded > 0 => loaded' > 0)
  BY <1>2, <1>4 DEF Stands
<1>5. QED
  BY <1>3, <1>4

\* A thread in a locked stretch is the only one there, and the driver is up around it.
LEMMA Inside ==
  ASSUME IInv, NEW t \in Threads, pc[t] \in CritLabels
  PROVE  /\ (Sole \/ (cfg_lock /\ lock = t)) /\ Up
         /\ \A u \in Threads \ {t} : pc[u] \notin CritLabels /\ pc[u] # "term_final"
                                     /\ ~Exclusive(loc[u])
         /\ ~Exclusive(loc[t])
<1>1. (Sole \/ (cfg_lock /\ lock = t)) /\ \A u \in Threads \ {t} : pc[u] \notin CritLabels
  <2>1. CASE Sole
    BY <2>1 DEF Sole
  <2>2. CASE ~Sole
    BY <2>2, Here
  <2>3. QED
    BY <2>1, <2>2
<1>2. loc[t].op = "open" \/ (loc[t].op = "close" /\ loc[t].handle \in InstSlots)
  BY Here DEF Placed, CritLabels, OpenLabels
<1>3. UsedInsts # {} \/ Busy # {}
  <2>1. CASE loc[t].op = "open"
    BY <2>1, Here DEF Placed, CritLabels, OpenLabels, Busy, Counted
  <2>2. CASE loc[t].op = "close" /\ loc[t].handle \in InstSlots
    <3>1. pc[t] \in {"close_port", "close_commit"}
      BY <2>2, Here DEF Placed, CritLabels, OpenLabels
    <3>2. inst_list[loc[t].handle].pDev # NoDev
      BY <3>1, Here DEF FoundStill
    <3>3. QED
      BY <2>2, <3>2 DEF IInv, EntriesOK, UsedInsts
  <2>3. QED
    BY <1>2, <2>1, <2>2
<1>4. Up /\ \A u \in Threads : pc[u] # "term_final"
  BY <1>3, Here DEF IInv, InitCovers, Stands
<1>5. \A u \in Threads \ {t} : ~Exclusive(loc[u])
  BY Here DEF CritLabels
<1>6. QED
  BY <1>1, <1>2, <1>4, <1>5 DEF Exclusive

\* How the calls counted in init_count change when t moves.
LEMMA BusyChange ==
  ASSUME IInv, NEW t \in Threads,
         \A u \in Threads \ {t} : pc'[u] = pc[u] /\ loc'[u] = loc[u]
  PROVE  /\ Counted(pc[t], loc[t])' => Busy' = Busy \cup {t}
         /\ ~Counted(pc[t], loc[t])' => Busy' = Busy \ {t}
         /\ Counted(pc[t], loc[t]) <=> t \in Busy
BY DEF Busy, Counted

LEMMA BusyStays ==
  ASSUME IInv, NEW t \in Threads,
         \A u \in Threads \ {t} : pc'[u] = pc[u] /\ loc'[u] = loc[u],
         Counted(pc[t], loc[t])' <=> Counted(pc[t], loc[t])
  PROVE  Busy' = Busy
BY DEF Busy, Counted

LEMMA InitCountKeeps ==
  ASSUME IInv, NEW t \in Threads, InitCount(t)
  PROVE  IInv'
<1>1. /\ pc[t] = "init_count" /\ CanLock /\ init_count' = init_count + 1
      /\ AfterInit(t, "SUCCESS") /\ NoteInit(t)
      /\ UNCHANGED <<bInitialized, cfg_lock, num_opened_dev, num_instances, dev_list>>
      /\ UNCHANGED <<inst_list, ssl_inited, ssl_dev, lock, dev_locks, owned>>
  BY DEF InitCount, CountedInit, sslVars, lockVars
<1>2. Up /\ (cfg_lock \/ Sole) /\ loc[t].op \in {"init", "open"}
  BY <1>1, Here DEF IInv, UpLocked, Up, Placed, Stands
<1>3. \A u \in Threads : pc[u] \notin CritLabels
  <2>1. pc[t] \notin CritLabels
    BY <1>1 DEF CritLabels
  <2>2. QED
    BY <1>1, <1>2, <2>1, NobodyInside
<1>4. init_count \in Nat /\ loaded \in Nat /\ Cardinality(UsedInsts) \in Nat
      /\ Cardinality(Busy) \in Nat
  BY CountedSets DEF IInv, TypeOK
<1>5. UsedInsts' = UsedInsts /\ UsedDevs' = UsedDevs /\ \A d : UsersOf(d)' = UsersOf(d)
  BY <1>1 DEF UsedInsts, UsedDevs, UsersOf
<1>6. PICK x \in {"idle", "open_check"}, y \in CallRec :
        /\ pc' = [pc EXCEPT ![t] = x] /\ loc' = [loc EXCEPT ![t] = y]
        /\ res' \in [Threads -> Statuses]
        /\ x = "idle" => loc[t].op = "init" /\ y = NoCall /\ loaded' = loaded + 1
        /\ x = "open_check" => loc[t].op = "open" /\ y = loc[t] /\ loaded' = loaded
  <2>1. CASE loc[t].op = "init"
    <3>1. Return(t, "SUCCESS") /\ loaded' = loaded + 1
      BY <1>1, <2>1 DEF AfterInit, NoteInit
    <3>2. res' \in [Threads -> Statuses]
      BY <3>1, Here DEF Return, Statuses
    <3>3. QED
      BY <2>1, <3>1, <3>2, Here DEF Return
  <2>2. CASE loc[t].op = "open"
    <3>1. Goto(t, "open_check") /\ UNCHANGED loc /\ loaded' = loaded
      BY <1>1, <2>2 DEF AfterInit, NoteInit
    <3>2. loc' = [loc EXCEPT ![t] = loc[t]]
      BY <3>1, Here
    <3>3. QED
      BY <2>2, <3>1, <3>2, Here DEF Goto
  <2>3. QED
    BY <1>2, <2>1, <2>2
<1>7. x \in Labels /\ x \notin CritLabels /\ Placed(x, y) /\ FoundStill(x, y)' /\ ~Exclusive(y)
  BY <1>6, Here DEF Labels, CritLabels, Placed, FoundStill, Exclusive, NoCall, OpenLabels, TermLabels
<1>8. /\ pc' \in [Threads -> Labels] /\ loc' \in [Threads -> CallRec]
      /\ pc'[t] = x /\ loc'[t] = y
      /\ \A u \in Threads \ {t} : pc'[u] = pc[u] /\ loc'[u] = loc[u]
      /\ CallsPlaced' /\ LoadsAlone' /\ LockHeld' /\ CritOK'
  BY <1>1, <1>3, <1>6, <1>7, Here, MoveStep
<1>9. TypeOK'
  BY <1>1, <1>4, <1>6, <1>8 DEF IInv, TypeOK
<1>10. EntriesOK' /\ CountsAgree'
  <2>1. EntriesOK'
    BY <1>1 DEF IInv, EntriesOK
  <2>2. CountsAgree'
    BY <1>1, <1>5 DEF IInv, CountsAgree
  <2>3. QED
    BY <2>1, <2>2
<1>11. InitCovers'
  <2>1. Up'
    BY <1>1, <1>2 DEF Up
  <2>2. ~Counted(pc[t], loc[t])
    BY <1>1 DEF Counted, OpenLabels, TermLabels
  <2>3. CASE x = "idle"
    <3>1. Busy' = Busy
      BY <1>6, <1>8, <2>2, <2>3, BusyChange DEF Counted, OpenLabels, TermLabels
    <3>2. QED
      BY <1>1, <1>4, <1>5, <1>6, <2>1, <2>3, <3>1 DEF IInv, InitCovers
  <2>4. CASE x = "open_check"
    <3>1. Busy' = Busy \cup {t} /\ t \notin Busy
      BY <1>6, <1>8, <2>2, <2>4, BusyChange DEF Counted, OpenLabels, TermLabels
    <3>2. Cardinality(Busy') = Cardinality(Busy) + 1
      BY <3>1, CountedSets, FS_AddElement
    <3>3. QED
      BY <1>1, <1>4, <1>5, <1>6, <2>1, <2>4, <3>2 DEF IInv, InitCovers
  <2>5. QED
    BY <1>6, <2>3, <2>4
<1>12. UpLocked'
  BY <1>1, <1>2, <1>5 DEF IInv, UpLocked, Up
<1>13. AllStand'
  <2>1. Stands(pc[t], loc[t])'
    BY <1>1, <1>6, <1>8, Here DEF Stands, NoCall, TermLabels
  <2>2. loaded > 0 => loaded' > 0
    BY <1>4, <1>6
  <2>3. (Up => Up') /\ bInitialized' = bInitialized
    BY <1>1 DEF Up
  <2>4. CASE loc[t].op = "init"
    BY <1>8, <2>1, <2>4, Here, OthersStand DEF Exclusive
  <2>5. CASE loc[t].op = "open"
    <3>1. loaded > 0 \/ Sole
      BY <2>5, Here DEF Stands
    <3>2. \A u \in Threads \ {t} : pc[u] # "term_final"
      <4>1. CASE loaded > 0
        BY <1>4, <4>1, Here DEF Stands
      <4>2. CASE Sole
        BY <4>2 DEF Sole
      <4>3. QED
        BY <3>1, <4>1, <4>2
    <3>3. QED
      BY <1>8, <2>1, <2>2, <2>3, <3>2, OthersStand
  <2>6. QED
    BY <1>2, <2>4, <2>5
<1>14. QED
  BY <1>8, <1>9, <1>10, <1>11, <1>12, <1>13 DEF IInv

\* HBI_init finds a driver that is down empty, and no other call under way.
LEMMA InitSetupKeeps ==
  ASSUME Locked, IInv, NEW t \in Threads, InitSetup(t)
  PROVE  IInv'
<1>1. /\ pc[t] = "init_setup" /\ num_opened_dev' = 0 /\ num_instances' = 0
      /\ dev_list' = [d \in DevSlots |-> ClosedDev] /\ inst_list' = [s \in InstSlots |-> FreeInst]
      /\ UNCHANGED <<lock, dev_locks, owned>>
  BY DEF InitSetup, lockVars
<1>2. (loc[t].op = "init" \/ (loc[t].op = "open" /\ Sole)) /\ ~bInitialized
  BY <1>1, Here DEF Placed, Stands
<1>3. loaded = 0 /\ UsedInsts = {} /\ Busy = {} /\ UsedDevs = {}
  BY <1>2 DEF IInv, TypeOK, InitCovers, UpLocked, Up
<1>4. \A u \in Threads \ {t} : pc[u] = "idle"
  <2>1. CASE Sole
    BY <2>1 DEF Sole
  <2>2. CASE ~Sole
    BY <1>2, <2>2, Here DEF Exclusive
  <2>3. QED
    BY <2>1, <2>2
<1>5. ssl_dev = [p \in DevSlots |-> {}]
  <2>1. ssl_dev \in [DevSlots -> Clients] /\ {p \in DevSlots : ssl_dev[p] # {}} = {}
    BY <1>3 DEF IInv, TypeOK, CountsAgree
  <2>2. QED
    BY <2>1
<1>6. PICK x \in {"idle", "open_check"}, y \in CallRec :
        /\ pc' = [pc EXCEPT ![t] = x] /\ loc' = [loc EXCEPT ![t] = y]
        /\ res' \in [Threads -> Statuses] /\ ssl_dev' = ssl_dev
        /\ x = "idle" => y = NoCall
        /\ x = "open_check" => /\ y = loc[t] /\ loc[t].op = "open" /\ Sole
                               /\ bInitialized' = TRUE /\ loaded' = 0
        /\ \/ /\ ssl_inited' = TRUE /\ cfg_lock' \in BOOLEAN /\ (cfg_lock' \/ Sole)
              /\ bInitialized' = TRUE /\ init_count' = 1
              /\ loaded' = IF x = "idle" THEN 1 ELSE 0
           \/ /\ cfg_lock' = FALSE /\ bInitialized' = FALSE /\ init_count' = 0
              /\ loaded' = 0 /\ ssl_inited' = ssl_inited
  <2>1. CASE /\ ssl_inited' = TRUE /\ ssl_dev' = ssl_dev
             /\ cfg_lock' = (loc[t].op = "init" /\ DriverLock) /\ bInitialized' = TRUE
             /\ init_count' = 1 /\ AfterInit(t, "SUCCESS") /\ NoteInit(t)
    <3>1. cfg_lock' \in BOOLEAN /\ (cfg_lock' \/ Sole)
      <4>1. Sole \/ (loc[t].op = "init" /\ DriverLock)
        BY <1>2 DEF Locked
      <4>2. QED
        BY <2>1, <4>1, Zenon
    <3>2. CASE loc[t].op = "init"
      <4>1. Return(t, "SUCCESS") /\ loaded' = 1
        BY <1>3, <2>1, <3>2 DEF AfterInit, NoteInit
      <4>2. res' \in [Threads -> Statuses]
        BY <4>1, Here DEF Return, Statuses
      <4>3. QED
        BY <2>1, <3>1, <4>1, <4>2, Here, ZenonT(60) DEF Return
    <3>3. CASE loc[t].op = "open" /\ Sole
      <4>1. Goto(t, "open_check") /\ UNCHANGED loc /\ loaded' = 0
        BY <1>3, <2>1, <3>3 DEF AfterInit, NoteInit
      <4>2. loc' = [loc EXCEPT ![t] = loc[t]] /\ res' \in [Threads -> Statuses]
        BY <4>1, Here DEF Goto
      <4>3. QED
        BY <2>1, <3>1, <3>3, <4>1, <4>2, Here, ZenonT(60) DEF Goto
    <3>4. QED
      BY <1>2, <3>2, <3>3
  <2>2. CASE /\ ssl_dev' = ssl_dev /\ cfg_lock' = FALSE /\ bInitialized' = FALSE
             /\ init_count' = 0 /\ AfterInit(t, "INTERNAL_ERR") /\ UNCHANGED <<ssl_inited, loaded>>
    <3>1. Return(t, "INTERNAL_ERR")
      BY <2>2 DEF AfterInit
    <3>2. res' \in [Threads -> Statuses]
      BY <3>1, Here DEF Return, Statuses
    <3>3. QED
      BY <1>3, <2>2, <3>1, <3>2, Here, ZenonT(60) DEF Return
  <2>3. QED
    BY <1>5, <2>1, <2>2 DEF InitSetup
<1>7. /\ x \in Labels /\ x \notin CritLabels /\ Placed(x, y) /\ FoundStill(x, y)'
      /\ ~Exclusive(y)
  BY <1>6, Here DEF Labels, CritLabels, Placed, FoundStill, Exclusive, NoCall, OpenLabels, TermLabels
<1>8. \A u \in Threads \ {t} : ~Exclusive(loc[u])
  BY <1>1, Here
<1>9. /\ pc' \in [Threads -> Labels] /\ loc' \in [Threads -> CallRec]
      /\ pc'[t] = x /\ loc'[t] = y
      /\ \A u \in Threads \ {t} : pc'[u] = pc[u] /\ loc'[u] = loc[u]
      /\ CallsPlaced' /\ LoadsAlone' /\ LockHeld' /\ CritOK'
  <2>1. \A u \in Threads \ {t} : pc[u] \notin CritLabels
    BY <1>4 DEF CritLabels
  <2>2. QED
    BY <1>6, <1>7, <1>8, <2>1, MoveStep
<1>10. /\ UsedInsts' = {} /\ UsedDevs' = {} /\ (\A d : UsersOf(d)' = {})
       /\ Busy' = (IF x = "idle" THEN {} ELSE {t})
  <2>1. UsedInsts' = {} /\ UsedDevs' = {} /\ \A d : UsersOf(d)' = {}
    BY <1>1 DEF UsedInsts, UsedDevs, UsersOf, FreeInst, ClosedDev
  <2>2. ~Counted("idle", y) /\ Counted("open_check", y)
    BY DEF Counted, OpenLabels, TermLabels
  <2>3. Busy' = (IF x = "idle" THEN {} ELSE {t})
    <3>1. Counted(pc[t], loc[t])' <=> x = "open_check"
      BY <1>6, <1>9, <2>2 DEF Counted
    <3>2. QED
      BY <1>3, <1>6, <1>9, <3>1, BusyChange
  <2>4. QED
    BY <2>1, <2>3
<1>11. Cardinality({}) = 0 /\ Cardinality({t}) = 1
  BY FS_EmptySet, FS_Singleton
<1>12. TypeOK'
  <2>1. FreeInst \in InstRec
    BY DEF FreeInst, InstRec
  <2>2. ClosedDev \in DevRec
    <3>1. [i \in 0 .. MaxInstPerDev - 1 |-> 0] \in [0 .. MaxInstPerDev - 1 -> InstSlots \cup {InvalidId}]
      BY ConstantsOK DEF InstSlots, MaxInst
    <3>2. 0 \in 0 .. MaxInstPerDev
      BY ConstantsOK
    <3>3. QED
      BY <3>1, <3>2 DEF ClosedDev, DevRec, Clients
  <2>3. 0 \in 0 .. MaxDevs /\ 0 \in 0 .. MaxInst
    BY ConstantsOK, SlotFacts
  <2>4. /\ bInitialized' \in BOOLEAN /\ init_count' \in Nat /\ cfg_lock' \in BOOLEAN
        /\ ssl_inited' \in BOOLEAN /\ loaded' \in Nat
    <3>1. init_count' \in Nat /\ loaded' \in Nat
      BY <1>6
    <3>2. ssl_inited \in BOOLEAN
      BY DEF IInv, TypeOK
    <3>3. bInitialized' \in BOOLEAN /\ cfg_lock' \in BOOLEAN /\ ssl_inited' \in BOOLEAN
      BY <1>6, <3>2, Zenon
    <3>4. QED
      BY <3>1, <3>3
  <2>5. dev_list' \in [DevSlots -> DevRec] /\ inst_list' \in [InstSlots -> InstRec]
    BY <1>1, <2>1, <2>2
  <2>6. QED
    BY <1>1, <1>6, <1>9, <2>3, <2>4, <2>5 DEF IInv, TypeOK
<1>13. EntriesOK'
  BY <1>1 DEF EntriesOK, FreeInst, ClosedDev
<1>14. CountsAgree'
  <2>1. {p \in DevSlots : ssl_dev'[p] # {}} = {}
    BY <1>5, <1>6
  <2>2. QED
    BY <1>1, <1>10, <1>11, <2>1 DEF CountsAgree, ClosedDev
<1>15. InitCovers' /\ UpLocked'
  BY <1>6, <1>10, <1>11 DEF InitCovers, UpLocked, Up
<1>16. AllStand'
  <2>1. Stands(x, y)'
    BY <1>6, Here DEF Stands, NoCall, TermLabels
  <2>2. Stands(pc[t], loc[t])'
    BY <1>9, <2>1 DEF Stands
  <2>3. QED
    BY <1>4, <1>9, <2>2, OthersStand
<1>17. QED
  BY <1>9, <1>12, <1>13, <1>14, <1>15, <1>16 DEF IInv

\* HBI_term is past its locked stretch: nothing is open and no other call can bring it up.
LEMMA TermFinalKeeps ==
  ASSUME IInv, NEW t \in Threads, TermFinal(t)
  PROVE  IInv'
<1>1. /\ pc[t] = "term_final" /\ init_count' = Decr(init_count) /\ bInitialized' = FALSE
      /\ Return(t, "SUCCESS")
      /\ UNCHANGED <<cfg_lock, num_opened_dev, num_instances, dev_list, inst_list>>
      /\ UNCHANGED <<ssl_inited, ssl_dev, lock, dev_locks, owned, loaded>>
  BY DEF TermFinal, sslVars, lockVars, histVars
<1>2. loaded = 0 /\ UsedInsts = {} /\ Busy = {} /\ UsedDevs = {}
  BY <1>1, Here DEF Stands
<1>3. /\ pc' = [pc EXCEPT ![t] = "idle"] /\ loc' = [loc EXCEPT ![t] = NoCall]
      /\ res' \in [Threads -> Statuses]
  BY <1>1, Here DEF Return, Statuses
<1>4. /\ "idle" \in Labels /\ "idle" \notin CritLabels /\ Placed("idle", NoCall)
      /\ FoundStill("idle", NoCall)' /\ ~Exclusive(NoCall)
  BY DEF Labels, CritLabels, Placed, FoundStill, Exclusive, NoCall, OpenLabels, TermLabels
<1>5. \A u \in Threads \ {t} : /\ pc[u] \notin CritLabels /\ loc[u].op # "open"
                               /\ ~Exclusive(loc[u])
  <2>1. SUFFICES ASSUME NEW u \in Threads \ {t}
                 PROVE  pc[u] \notin CritLabels /\ loc[u].op # "open" /\ ~Exclusive(loc[u])
    OBVIOUS
  <2>2. pc[u] \notin CritLabels
    BY <1>1, Inside
  <2>3. loc[u].op # "open"
    <3>1. ~Sole
      BY <2>1 DEF Sole
    <3>2. QED
      BY <1>2, <3>1, Here DEF Stands
  <2>4. QED
    BY <1>1, <2>2, <2>3, Here
<1>6. /\ pc' \in [Threads -> Labels] /\ loc' \in [Threads -> CallRec]
      /\ pc'[t] = "idle" /\ loc'[t] = NoCall
      /\ \A u \in Threads \ {t} : pc'[u] = pc[u] /\ loc'[u] = loc[u]
      /\ CallsPlaced' /\ LoadsAlone' /\ LockHeld' /\ CritOK'
  BY <1>3, <1>4, <1>5, Here, MoveStep
<1>7. UsedInsts' = {} /\ UsedDevs' = {} /\ (\A d : UsersOf(d)' = UsersOf(d)) /\ Busy' = {}
  <2>1. UsedInsts' = {} /\ UsedDevs' = {} /\ \A d : UsersOf(d)' = UsersOf(d)
    BY <1>1, <1>2 DEF UsedInsts, UsedDevs, UsersOf
  <2>2. Busy' = {}
    BY <1>2, <1>6, BusyChange DEF Counted, NoCall, OpenLabels, TermLabels
  <2>3. QED
    BY <2>1, <2>2
<1>8. init_count' \in Nat
  BY <1>1, ConstantsOK DEF Decr, IInv, TypeOK
<1>9. TypeOK'
  BY <1>1, <1>3, <1>6, <1>8 DEF IInv, TypeOK
<1>10. EntriesOK' /\ CountsAgree'
  <2>1. EntriesOK'
    BY <1>1 DEF IInv, EntriesOK
  <2>2. CountsAgree'
    BY <1>1, <1>2, <1>7 DEF IInv, CountsAgree
  <2>3. QED
    BY <2>1, <2>2
<1>11. InitCovers' /\ UpLocked'
  <2>1. Cardinality({}) = 0
    BY FS_EmptySet
  <2>2. QED
    BY <1>1, <1>2, <1>7, <1>8, <2>1 DEF InitCovers, UpLocked
<1>12. AllStand'
  <2>1. SUFFICES ASSUME NEW u \in Threads PROVE Stands(pc[u], loc[u])'
    BY DEF AllStand
  <2>2. CASE u = t
    BY <1>6, <2>2 DEF Stands, NoCall, OpenLabels, TermLabels
  <2>3. CASE u # t
    <3>1. Placed(pc[u], loc[u]) /\ Stands(pc[u], loc[u])
      BY Here
    <3>2. loc[u].op # "open" /\ loc[u].op # "init" /\ loc[u].op # "term"
      BY <1>5, <2>3 DEF Exclusive
    <3>3. pc[u] # "init_count"
      BY <3>1, <3>2 DEF Placed
    <3>4. QED
      BY <1>1, <1>2, <1>6, <1>7, <2>3, <3>1, <3>2, <3>3 DEF Stands
  <2>4. QED
    BY <2>2, <2>3
<1>13. QED
  BY <1>6, <1>9, <1>10, <1>11, <1>12 DEF IInv

\* HBI_term before its last count is dropped.
LEMMA AtTermLock ==
  ASSUME IInv, NEW t \in Threads, pc[t] = "term_lock"
  PROVE  /\ Up /\ (cfg_lock \/ Sole)
         /\ \/ loc[t].op = "close" /\ t \in Busy
            \/ /\ loc[t].op = "term" /\ loaded > 0 /\ t \notin Busy
               /\ \A u \in Threads \ {t} : pc[u] = "idle"
         /\ \A u \in Threads \ {t} : ~Exclusive(loc[u])
<1>1. \A u \in Threads \ {t} : ~Exclusive(loc[u])
  BY Here
<1>2. CASE loc[t].op = "close"
  <2>1. t \in Busy
    BY <1>2 DEF Busy, Counted, TermLabels
  <2>2. Up /\ (cfg_lock \/ Sole)
    BY <2>1 DEF IInv, InitCovers, UpLocked, Up
  <2>3. QED
    BY <1>1, <1>2, <2>1, <2>2
<1>3. CASE loc[t].op = "term"
  <2>1. loaded > 0
    BY <1>3, Here DEF Stands, TermLabels
  <2>2. Up /\ (cfg_lock \/ Sole)
    BY <2>1 DEF IInv, InitCovers, UpLocked, Up
  <2>3. t \notin Busy
    BY <1>3 DEF Busy, Counted, OpenLabels
  <2>4. QED
    BY <1>1, <1>3, <2>1, <2>2, <2>3, Here DEF Exclusive
<1>4. QED
  BY <1>2, <1>3, Here DEF Placed, TermLabels

LEMMA TermDropKeeps ==
  ASSUME IInv, NEW t \in Threads, pc[t] = "term_lock", CanLock, init_count > 1,
         init_count' = init_count - 1, Return(t, "SUCCESS"), NoteTerm(t),
         UNCHANGED <<bInitialized, cfg_lock, num_opened_dev, num_instances, dev_list, inst_list>>,
         UNCHANGED <<ssl_inited, ssl_dev, lock, dev_locks, owned>>
  PROVE  IInv'
<1>1. \A u \in Threads : pc[u] \notin CritLabels
  <2>1. (cfg_lock \/ Sole) /\ pc[t] \notin CritLabels
    BY AtTermLock DEF CritLabels
  <2>2. QED
    BY <2>1, NobodyInside
<1>2. init_count \in Nat /\ loaded \in Nat /\ Cardinality(UsedInsts) \in Nat
      /\ Cardinality(Busy) \in Nat
  BY CountedSets DEF IInv, TypeOK
<1>3. UsedInsts' = UsedInsts /\ UsedDevs' = UsedDevs /\ \A d : UsersOf(d)' = UsersOf(d)
  BY DEF UsedInsts, UsedDevs, UsersOf
<1>4. /\ pc' = [pc EXCEPT ![t] = "idle"] /\ loc' = [loc EXCEPT ![t] = NoCall]
      /\ res' \in [Threads -> Statuses]
  BY Here DEF Return, Statuses
<1>5. /\ "idle" \in Labels /\ "idle" \notin CritLabels /\ Placed("idle", NoCall)
      /\ FoundStill("idle", NoCall)' /\ ~Exclusive(NoCall)
  BY DEF Labels, CritLabels, Placed, FoundStill, Exclusive, NoCall, OpenLabels, TermLabels
<1>6. /\ pc' \in [Threads -> Labels] /\ loc' \in [Threads -> CallRec]
      /\ pc'[t] = "idle" /\ loc'[t] = NoCall
      /\ \A u \in Threads \ {t} : pc'[u] = pc[u] /\ loc'[u] = loc[u]
      /\ CallsPlaced' /\ LoadsAlone' /\ LockHeld' /\ CritOK'
  BY <1>1, <1>4, <1>5, Here, MoveStep
<1>7. Busy' = Busy \ {t}
  BY <1>6, BusyChange DEF Counted, OpenLabels, TermLabels
<1>8. \/ /\ loc[t].op = "close" /\ loaded' = loaded
         /\ Cardinality(Busy') = Cardinality(Busy) - 1
      \/ /\ loc[t].op = "term" /\ loaded > 0 /\ loaded' = loaded - 1 /\ Busy' = Busy
         /\ \A u \in Threads \ {t} : pc[u] = "idle"
  <2>1. CASE loc[t].op = "close" /\ t \in Busy
    <3>1. Cardinality(Busy') = Cardinality(Busy) - 1
      BY <1>7, <2>1, CountedSets, FS_RemoveElement
    <3>2. QED
      BY <2>1, <3>1 DEF NoteTerm
  <2>2. CASE loc[t].op = "term"
    BY <1>7, <2>2, AtTermLock DEF NoteTerm
  <2>3. QED
    BY <2>1, <2>2, AtTermLock
<1>9. TypeOK'
  BY <1>2, <1>4, <1>6, <1>8 DEF IInv, TypeOK
<1>10. EntriesOK' /\ CountsAgree'
  <2>1. EntriesOK'
    BY DEF IInv, EntriesOK
  <2>2. CountsAgree'
    BY <1>3 DEF IInv, CountsAgree
  <2>3. QED
    BY <2>1, <2>2
<1>11. InitCovers'
  <2>1. Up'
    BY AtTermLock DEF Up
  <2>2. init_count >= loaded + Cardinality(UsedInsts) + Cardinality(Busy)
    BY DEF IInv, InitCovers
  <2>3. init_count' >= loaded' + Cardinality(UsedInsts') + Cardinality(Busy')
    BY <1>2, <1>3, <1>8, <2>2
  <2>4. QED
    BY <2>1, <2>3 DEF InitCovers
<1>12. UpLocked'
  BY <1>3, AtTermLock DEF IInv, UpLocked, Up
<1>13. AllStand'
  <2>1. Stands(pc[t], loc[t])'
    BY <1>6 DEF Stands, NoCall, TermLabels
  <2>2. (Up => Up') /\ bInitialized' = bInitialized
    BY DEF Up
  <2>3. CASE loc[t].op = "close" /\ t \in Busy
    <3>1. loaded' = loaded
      BY <2>3 DEF NoteTerm
    <3>2. \A u \in Threads \ {t} : pc[u] # "term_final"
      BY <2>3, Here DEF Stands
    <3>3. QED
      BY <1>6, <2>1, <2>2, <3>1, <3>2, OthersStand
  <2>4. CASE \A u \in Threads \ {t} : pc[u] = "idle"
    BY <1>6, <2>1, <2>4, OthersStand
  <2>5. QED
    BY <2>3, <2>4, AtTermLock
<1>14. QED
  BY <1>6, <1>9, <1>10, <1>11, <1>12, <1>13 DEF IInv

\* The last count: nothing but this call is left of the driver's users.
LEMMA TermDownKeeps ==
  ASSUME IInv, NEW t \in Threads, pc[t] = "term_lock", CanLock, ~(init_count > 1),
         TermStatus = "SUCCESS", ssl_inited' = FALSE, Goto(t, "term_final"), NoteTerm(t),
         UNCHANGED <<bInitialized, cfg_lock, num_opened_dev, num_instances, dev_list, inst_list>>,
         UNCHANGED <<init_count, ssl_dev, lock, dev_locks, owned, loc>>
  PROVE  IInv'
<1>1. \A u \in Threads : pc[u] \notin CritLabels
  <2>1. (cfg_lock \/ Sole) /\ pc[t] \notin CritLabels
    BY AtTermLock DEF CritLabels
  <2>2. QED
    BY <2>1, NobodyInside
<1>2. init_count \in Nat /\ loaded \in Nat /\ Cardinality(UsedInsts) \in Nat
      /\ Cardinality(Busy) \in Nat /\ Cardinality(UsedDevs) \in Nat
  BY CountedSets DEF IInv, TypeOK
<1>3. UsedInsts = {} /\ UsedDevs = {}
  <2>1. num_instances = 0 /\ num_opened_dev = 0
    BY DEF TermStatus
  <2>2. Cardinality(UsedInsts) = 0 /\ Cardinality(UsedDevs) = 0
    BY <2>1 DEF IInv, CountsAgree
  <2>3. QED
    BY <2>2, CountedSets, FS_EmptySet
<1>4. Busy \ {t} = {} /\ loaded' = 0 /\ \A u \in Threads \ {t} : loc[u].op # "open"
  <2>1. init_count >= loaded + Cardinality(UsedInsts) + Cardinality(Busy)
    BY DEF IInv, InitCovers
  <2>2. CASE loc[t].op = "close" /\ t \in Busy
    <3>1. Cardinality(Busy \ {t}) = Cardinality(Busy) - 1 /\ IsFiniteSet(Busy \ {t})
      BY <2>2, CountedSets, FS_RemoveElement
    <3>2. Cardinality(Busy \ {t}) \in Nat
      BY <3>1, FS_CardinalityType
    <3>3. loaded = 0 /\ Cardinality(Busy \ {t}) = 0
      BY <1>2, <2>1, <3>1, <3>2
    <3>4. Busy \ {t} = {}
      BY <3>1, <3>3, FS_EmptySet
    <3>5. ASSUME NEW u \in Threads \ {t}
          PROVE  loc[u].op # "open"
      <4>1. ~Sole
        BY <3>5 DEF Sole
      <4>2. QED
        BY <3>3, <4>1, Here DEF Stands
    <3>6. QED
      BY <2>2, <3>3, <3>4, <3>5 DEF NoteTerm
  <2>3. CASE /\ loc[t].op = "term" /\ loaded > 0 /\ t \notin Busy
             /\ \A u \in Threads \ {t} : pc[u] = "idle"
    <3>1. Busy = {}
      BY <2>3 DEF Busy, Counted, OpenLabels, TermLabels
    <3>2. loaded' = 0
      BY <1>2, <2>1, <2>3 DEF NoteTerm
    <3>3. QED
      BY <2>3, <3>1, <3>2, Here DEF Placed
  <2>4. QED
    BY <2>2, <2>3, AtTermLock
<1>5. /\ pc' = [pc EXCEPT ![t] = "term_final"] /\ loc' = [loc EXCEPT ![t] = loc[t]]
      /\ UNCHANGED res
  BY Here DEF Goto
<1>6. /\ "term_final" \in Labels /\ "term_final" \notin CritLabels
      /\ Placed("term_final", loc[t]) /\ FoundStill("term_final", loc[t])'
      /\ loc[t].op \in {"close", "term"}
  BY Here DEF Labels, CritLabels, Placed, FoundStill, OpenLabels, TermLabels
<1>7. /\ pc' \in [Threads -> Labels] /\ loc' \in [Threads -> CallRec]
      /\ pc'[t] = "term_final" /\ loc'[t] = loc[t]
      /\ \A u \in Threads \ {t} : pc'[u] = pc[u] /\ loc'[u] = loc[u]
      /\ CallsPlaced' /\ LoadsAlone' /\ LockHeld' /\ CritOK'
  BY <1>1, <1>5, <1>6, Here, AtTermLock, MoveStep
<1>8. /\ UsedInsts' = UsedInsts /\ UsedDevs' = UsedDevs /\ (\A d : UsersOf(d)' = UsersOf(d))
      /\ Busy' = {}
  <2>1. UsedInsts' = UsedInsts /\ UsedDevs' = UsedDevs /\ \A d : UsersOf(d)' = UsersOf(d)
    BY DEF UsedInsts, UsedDevs, UsersOf
  <2>2. Busy' = {}
    BY <1>4, <1>7, BusyChange DEF Counted, OpenLabels, TermLabels
  <2>3. QED
    BY <2>1, <2>2
<1>9. TypeOK'
  BY <1>4, <1>5, <1>7 DEF IInv, TypeOK
<1>10. EntriesOK' /\ CountsAgree'
  <2>1. EntriesOK'
    BY DEF IInv, EntriesOK
  <2>2. CountsAgree'
    BY <1>8 DEF IInv, CountsAgree
  <2>3. QED
    BY <2>1, <2>2
<1>11. InitCovers' /\ UpLocked'
  <2>1. Cardinality({}) = 0
    BY FS_EmptySet
  <2>2. InitCovers'
    BY <1>2, <1>3, <1>4, <1>8, <2>1 DEF InitCovers
  <2>3. UpLocked'
    BY <1>3, <1>7, <1>8, AtTermLock DEF UpLocked
  <2>4. QED
    BY <2>2, <2>3
<1>12. AllStand'
  <2>1. SUFFICES ASSUME NEW u \in Threads PROVE Stands(pc[u], loc[u])'
    BY DEF AllStand
  <2>2. CASE u = t
    BY <1>3, <1>4, <1>6, <1>7, <1>8, <2>2 DEF Stands, TermLabels
  <2>3. CASE u # t
    <3>1. Placed(pc[u], loc[u]) /\ ~Exclusive(loc[u]) /\ loc[u].op # "open"
      BY <1>4, <2>3, Here, AtTermLock
    <3>2. pc[u] \notin {"init_setup", "init_count"} /\ loc[u].op # "term"
      BY <3>1 DEF Placed, Exclusive
    <3>3. QED
      BY <1>3, <1>4, <1>7, <1>8, <2>3, <3>1, <3>2 DEF Stands
  <2>4. QED
    BY <2>2, <2>3
<1>13. QED
  BY <1>7, <1>9, <1>10, <1>11, <1>12 DEF IInv

LEMMA TermLockKeeps ==
  ASSUME IInv, NEW t \in Threads, TermLock(t)
  PROVE  IInv'
<1>1. /\ pc[t] = "term_lock" /\ CanLock
      /\ UNCHANGED <<bInitialized, cfg_lock, num_opened_dev, num_instances, dev_list, inst_list>>
      /\ UNCHANGED <<ssl_dev, lock, dev_locks, owned>>
  BY DEF TermLock, lockVars
<1>2. CASE init_count > 1
  BY <1>1, <1>2, TermDropKeeps DEF TermLock
<1>3. CASE ~(init_count > 1) /\ TermStatus = "SUCCESS"
  BY <1>1, <1>3, TermDownKeeps DEF TermLock
<1>4. CASE ~(init_count > 1) /\ TermStatus # "SUCCESS"
  <2>1. Return(t, TermStatus) /\ UNCHANGED <<init_count, ssl_inited, loaded>>
    BY <1>4 DEF TermLock
  <2>2. TermStatus \in Statuses
    BY DEF TermStatus, Statuses
  <2>3. QED
    BY <1>1, <2>1, <2>2, Here, ReturnStep DEF drvVars, sslVars, histVars
<1>5. QED
  BY <1>2, <1>3, <1>4

-----------------------------------------------------------------------------
(* The four steps under the driver lock that change the tables *)

LEMMA DevsFit ==
  ASSUME NEW S \in SUBSET DevSlots
  PROVE  IsFiniteSet(S) /\ Cardinality(S) \in 0 .. MaxDevs
BY SlotFacts, FS_Subset, FS_CardinalityType

LEMMA InstsFit ==
  ASSUME NEW S \in SUBSET InstSlots
  PROVE  IsFiniteSet(S) /\ Cardinality(S) \in 0 .. MaxInst
BY SlotFacts, FS_Subset, FS_CardinalityType

LEMMA DecrFacts ==
  ASSUME NEW n \in Nat \ {0}
  PROVE  Decr(n) = n - 1
BY DEF Decr

\* What such a step leaves alone, and the driver being up and locked around it.
LEMMA InsideKeeps ==
  ASSUME IInv, NEW t \in Threads, pc[t] \in CritLabels,
         UNCHANGED <<bInitialized, cfg_lock, ssl_inited, loaded>>,
         \A u \in Threads \ {t} : pc'[u] = pc[u] /\ loc'[u] = loc[u],
         pc'[t] # "term_final",
         loc'[t].op = "open" \/ loc'[t].op = "none" \/ loc'[t].op = "close",
         loc'[t].op = "open" => loc[t].op = "open",
         pc'[t] \notin {"init_setup", "init_count"}
  PROVE  UpLocked' /\ AllStand' /\ Up'
<1>1. Up /\ Up' /\ (cfg_lock' \/ Sole)
  BY Inside DEF Up
<1>2. UpLocked'
  BY <1>1 DEF UpLocked, Up
<1>3. Stands(pc[t], loc[t])'
  BY <1>1, Here DEF Stands
<1>4. AllStand'
  BY <1>1, <1>3, Inside, OthersStand
<1>5. QED
  BY <1>1, <1>2, <1>4

\* The entry of a device that gets a port.
WithPort(old, p, id) ==
  [old EXCEPT !.port = p, !.deviceId = id, !.port_lock = IF DevLock THEN {id} ELSE @,
              !.inuse = TRUE]

LEMMA WithPortFields ==
  ASSUME NEW old \in DevRec, NEW p \in DevSlots, NEW id \in DeviceIds
  PROVE  /\ WithPort(old, p, id) \in DevRec
         /\ WithPort(old, p, id).port = p /\ WithPort(old, p, id).inuse
         /\ WithPort(old, p, id).num_cur_instances = old.num_cur_instances
<1>1. {id} \in Clients
  BY DEF Clients
<1>2. QED
  BY <1>1 DEF WithPort, DevRec

\* Its fields are set one by one.
PortSet(list, d, p, id) ==
  [list EXCEPT ![d].port = p, ![d].deviceId = id,
               ![d].port_lock = IF DevLock THEN {id} ELSE @, ![d].inuse = TRUE]

EntrySet(list, d, e) == [list EXCEPT ![d] = e]

LEMMA PortSetAtOnce ==
  ASSUME NEW list \in [DevSlots -> DevRec], NEW d \in DevSlots, NEW p, NEW id
  PROVE  PortSet(list, d, p, id) = EntrySet(list, d, WithPort(list[d], p, id))
<1>1. PICK new : new = PortSet(list, d, p, id)
  OBVIOUS
<1>2. \A c \in DevSlots : c # d => new[c] = list[c]
  BY <1>1 DEF PortSet
<1>3. new[d] = WithPort(list[d], p, id)
  BY <1>1 DEF PortSet, WithPort
<1>4. new = [c \in DevSlots |-> new[c]]
  BY <1>1, Zenon DEF PortSet
<1>5. QED
  BY <1>1, <1>2, <1>3, <1>4, Zenon DEF EntrySet

\* HBI_open has a port for a device of a free entry.
LEMMA OpenPortDoes ==
  ASSUME IInv, NEW t \in Threads, NEW p \in DevSlots, pc[t] = "open_port",
         NEW d, d = loc[t].dev, d # NoDev, ssl_dev[p] = {},
         NEW e \in DevRec, e.port = p, e.inuse,
         e.num_cur_instances = dev_list[d].num_cur_instances,
         ssl_dev' = [ssl_dev EXCEPT ![p] = {loc[t].id}],
         dev_list' = [dev_list EXCEPT ![d] = e],
         num_opened_dev' = num_opened_dev + 1, Goto(t, "open_commit"),
         UNCHANGED <<bInitialized, init_count, cfg_lock, num_instances, inst_list>>,
         UNCHANGED <<ssl_inited, lock, loc, dev_locks, owned, loaded>>
  PROVE  IInv'
<1>1. /\ loc[t].op = "open" /\ loc[t].id \in DeviceIds /\ d \in DevSlots /\ ~dev_list[d].inuse
      /\ loc[t].slot # MaxInst => ~inst_list[loc[t].slot].inuse
  BY Here DEF Placed, FoundStill, CallRec, OpenLabels
<1>2. /\ ssl_dev \in [DevSlots -> Clients] /\ dev_list \in [DevSlots -> DevRec]
      /\ num_opened_dev \in Nat /\ num_opened_dev = Cardinality(UsedDevs)
  BY CountedSets DEF IInv, TypeOK, CountsAgree
<1>5. /\ pc' = [pc EXCEPT ![t] = "open_commit"] /\ loc' = [loc EXCEPT ![t] = loc[t]]
      /\ UNCHANGED res
  BY Here DEF Goto
<1>6. /\ "open_commit" \in Labels /\ pc[t] \in CritLabels
      /\ Placed("open_commit", loc[t]) /\ FoundStill("open_commit", loc[t])'
  BY <1>1 DEF Labels, CritLabels, Placed, FoundStill, OpenLabels, TermLabels
<1>7. /\ pc' \in [Threads -> Labels] /\ loc' \in [Threads -> CallRec]
      /\ pc'[t] = "open_commit" /\ loc'[t] = loc[t]
      /\ \A u \in Threads \ {t} : pc'[u] = pc[u] /\ loc'[u] = loc[u]
      /\ CallsPlaced' /\ LoadsAlone' /\ LockHeld' /\ CritOK'
  BY <1>5, <1>6, Here, Inside, MoveStep, ZenonT(60)
<1>8. /\ UsedInsts' = UsedInsts /\ (\A c : UsersOf(c)' = UsersOf(c)) /\ Busy' = Busy
      /\ UsedDevs' = UsedDevs \cup {d} /\ d \notin UsedDevs
  <2>1. UsedInsts' = UsedInsts /\ \A c : UsersOf(c)' = UsersOf(c)
    BY SMTT(30) DEF UsedInsts, UsersOf
  <2>2. UsedDevs' = UsedDevs \cup {d} /\ d \notin UsedDevs
    BY <1>1, <1>2 DEF UsedDevs
  <2>3. Busy' = Busy
    <3>1. Counted(pc[t], loc[t]) /\ Counted(pc[t], loc[t])'
      BY <1>7 DEF Counted, OpenLabels
    <3>2. QED
      BY <1>7, <3>1, BusyStays
  <2>4. QED
    BY <2>1, <2>2, <2>3
<1>9. num_opened_dev' = Cardinality(UsedDevs') /\ num_opened_dev' \in 0 .. MaxDevs
  <2>1. UsedDevs \cup {d} \in SUBSET DevSlots
    BY <1>1 DEF UsedDevs
  <2>2. Cardinality(UsedDevs \cup {d}) = Cardinality(UsedDevs) + 1
    BY <1>8, CountedSets, FS_AddElement
  <2>3. QED
    BY <1>2, <1>8, <2>1, <2>2, DevsFit
<1>10. TypeOK'
  <2>1. ssl_dev' \in [DevSlots -> Clients]
    BY <1>1, <1>2 DEF Clients
  <2>2. dev_list' \in [DevSlots -> DevRec]
    BY <1>2
  <2>3. QED
    BY <1>5, <1>7, <1>9, <2>1, <2>2 DEF IInv, TypeOK
<1>11. \A c \in UsedDevs : dev_list[c].port # p
  BY DEF IInv, CountsAgree
<1>12. EntriesOK'
  <2>1. p # NoPort
    BY SlotFacts
  <2>2. \A c \in DevSlots : dev_list'[c] = IF c = d THEN e ELSE dev_list[c]
    BY <1>2
  <2>3. \A c \in DevSlots : dev_list'[c].inuse <=> dev_list'[c].port # NoPort
    <3>1. \A c \in DevSlots : dev_list[c].inuse <=> dev_list[c].port # NoPort
      BY DEF IInv, EntriesOK
    <3>2. e.inuse <=> e.port # NoPort
      BY <2>1
    <3>3. QED
      BY <2>2, <3>1, <3>2, ZenonT(60)
  <2>4. \A b, c \in DevSlots : dev_list'[b].inuse /\ dev_list'[b].port = dev_list'[c].port => b = c
    BY <1>11, <2>1, <2>2 DEF IInv, EntriesOK, UsedDevs
  <2>5. QED
    BY <2>3, <2>4, ZenonT(60) DEF IInv, EntriesOK
<1>13. CountsAgree'
  <2>1. {dev_list'[c].port : c \in UsedDevs'} = {q \in DevSlots : ssl_dev'[q] # {}}
    <3>1. \A c \in UsedDevs : c \in DevSlots /\ c # d
      BY <1>8 DEF UsedDevs
    <3>2. {dev_list'[c].port : c \in UsedDevs'} = {dev_list[c].port : c \in UsedDevs} \cup {p}
      BY <1>1, <1>2, <1>8, <3>1
    <3>3. {q \in DevSlots : ssl_dev'[q] # {}} = {q \in DevSlots : ssl_dev[q] # {}} \cup {p}
      BY <1>2
    <3>4. QED
      BY <3>2, <3>3 DEF IInv, CountsAgree
  <2>2. \A c \in DevSlots : dev_list'[c].num_cur_instances = dev_list[c].num_cur_instances
    BY <1>2
  <2>3. QED
    BY <1>8, <1>9, <2>1, <2>2, ZenonT(60) DEF IInv, CountsAgree
<1>14. UpLocked' /\ AllStand' /\ Up'
  BY <1>1, <1>6, <1>7, InsideKeeps
<1>15. InitCovers'
  BY <1>8, <1>14, SMTT(30) DEF IInv, InitCovers
<1>16. QED
  BY <1>7, <1>10, <1>12, <1>13, <1>14, <1>15 DEF IInv

LEMMA OpenPortKeeps ==
  ASSUME IInv, NEW t \in Threads, OpenPort(t)
  PROVE  IInv'
<1>0. pc[t] = "open_port" /\ loc[t].dev # NoDev => loc[t].dev \in DevSlots /\ loc[t].id \in DeviceIds
  BY Here DEF Placed, CallRec, OpenLabels
<1>1. pc[t] = "open_port" /\ loc[t].dev # NoDev /\ UNCHANGED <<dev_locks, histVars>>
  BY DEF OpenPort
<1>2. CASE Return(t, "INTERNAL_ERR") /\ Release /\ UNCHANGED <<drvVars, sslVars>>
  <2>1. "INTERNAL_ERR" \in Statuses /\ pc[t] \in CritLabels
    BY <1>1 DEF Statuses, CritLabels
  <2>2. lock' \in Threads \cup {NoThread}
    BY <1>2, Here DEF Release
  <2>3. QED
    BY <1>1, <1>2, <2>1, <2>2, Here, Inside, ReturnStep
<1>3. CASE \E p \in First({q \in DevSlots : ssl_dev[q] = {}}, NoPort) :
             /\ p # NoPort
             /\ ssl_dev' = [ssl_dev EXCEPT ![p] = {loc[t].id}]
             /\ dev_list' = [dev_list EXCEPT
                  ![loc[t].dev].port = p,
                  ![loc[t].dev].deviceId = loc[t].id,
                  ![loc[t].dev].port_lock = IF DevLock THEN {loc[t].id} ELSE @,
                  ![loc[t].dev].inuse = TRUE]
             /\ num_opened_dev' = num_opened_dev + 1
             /\ Goto(t, "open_commit")
             /\ UNCHANGED <<bInitialized, init_count, cfg_lock, num_instances, inst_list,
                            ssl_inited, lock, loc>>
  <2>1. PICK p \in First({q \in DevSlots : ssl_dev[q] = {}}, NoPort) : <1>3!1!(p)
    BY <1>3, ZenonT(60)
  <2>2. p \in DevSlots /\ ssl_dev[p] = {}
    BY <2>1, FirstIn
  <2>3. loc[t].dev \in DevSlots /\ loc[t].id \in DeviceIds /\ dev_list \in [DevSlots -> DevRec]
    BY <1>0, <1>1, Zenon DEF IInv, TypeOK
  <2>4. dev_list' = PortSet(dev_list, loc[t].dev, p, loc[t].id)
    BY <2>1, Zenon DEF PortSet
  <2>5. PICK e : e = WithPort(dev_list[loc[t].dev], p, loc[t].id)
    BY Zenon
  <2>6. dev_list' = [dev_list EXCEPT ![loc[t].dev] = e]
    <3>1. dev_list' = EntrySet(dev_list, loc[t].dev, e)
      BY <2>3, <2>4, <2>5, PortSetAtOnce, Zenon
    <3>2. QED
      BY <3>1, Zenon DEF EntrySet
  <2>7. /\ e \in DevRec /\ e.port = p /\ e.inuse
        /\ e.num_cur_instances = dev_list[loc[t].dev].num_cur_instances
    <3>1. dev_list[loc[t].dev] \in DevRec
      BY <2>3, Zenon
    <3>2. QED
      BY <2>2, <2>3, <2>5, <3>1, WithPortFields
  <2>8. /\ ssl_dev' = [ssl_dev EXCEPT ![p] = {loc[t].id}]
        /\ num_opened_dev' = num_opened_dev + 1 /\ Goto(t, "open_commit")
        /\ UNCHANGED <<bInitialized, init_count, cfg_lock, num_instances, inst_list>>
        /\ UNCHANGED <<ssl_inited, lock, loc, dev_locks, owned, loaded>>
    BY <1>1, <2>1, Zenon DEF histVars
  <2>9. QED
    BY <1>1, <2>2, <2>6, <2>7, <2>8, OpenPortDoes, ZenonT(60)
<1>4. QED
  BY <1>2, <1>3, ZenonT(60) DEF OpenPort

\* The last user of a device has shut its port.
LEMMA ClosePortDoes ==
  ASSUME IInv, NEW t \in Threads, pc[t] = "close_port",
         dev_list[loc[t].dev].port # NoPort,
         ssl_dev' = [ssl_dev EXCEPT ![dev_list[loc[t].dev].port] = {}],
         dev_list' = [dev_list EXCEPT ![loc[t].dev] = ClosedEntry(@)],
         num_opened_dev' = Decr(num_opened_dev), Goto(t, "close_commit"),
         UNCHANGED <<bInitialized, init_count, cfg_lock, num_instances, inst_list>>,
         UNCHANGED <<ssl_inited, lock, loc, dev_locks, owned, loaded>>
  PROVE  IInv'
<1> DEFINE d == loc[t].dev
           p == dev_list[d].port
           e == ClosedEntry(dev_list[d])
<1>1. /\ loc[t].op = "close" /\ loc[t].handle \in InstSlots /\ d \in DevSlots
      /\ inst_list[loc[t].handle].pDev = d /\ d # NoDev
  BY Here DEF Placed, FoundStill, CallRec
<1>2. /\ ssl_dev \in [DevSlots -> Clients] /\ dev_list \in [DevSlots -> DevRec]
      /\ num_opened_dev = Cardinality(UsedDevs)
  BY DEF IInv, TypeOK, CountsAgree
<1>3. p \in DevSlots /\ dev_list[d].inuse /\ dev_list[d] \in DevRec
  BY <1>1, <1>2 DEF DevRec, IInv, EntriesOK
<1>4. e \in DevRec /\ e.port = NoPort /\ ~e.inuse
      /\ e.num_cur_instances = dev_list[d].num_cur_instances
  BY <1>3 DEF DevRec, ClosedEntry
<1>5. \A c \in DevSlots : dev_list'[c] = IF c = d THEN e ELSE dev_list[c]
  BY <1>1, <1>2
<1> HIDE DEF e
<1>6. /\ pc' = [pc EXCEPT ![t] = "close_commit"] /\ loc' = [loc EXCEPT ![t] = loc[t]]
      /\ UNCHANGED res
  BY Here DEF Goto
<1>7. /\ "close_commit" \in Labels /\ pc[t] \in CritLabels /\ ~Exclusive(loc[t])
      /\ Placed("close_commit", loc[t]) /\ FoundStill("close_commit", loc[t])'
  BY <1>1 DEF Labels, CritLabels, Exclusive, Placed, FoundStill, OpenLabels, TermLabels
<1>8. /\ pc' \in [Threads -> Labels] /\ loc' \in [Threads -> CallRec]
      /\ pc'[t] = "close_commit" /\ loc'[t] = loc[t]
      /\ \A u \in Threads \ {t} : pc'[u] = pc[u] /\ loc'[u] = loc[u]
      /\ CallsPlaced' /\ LoadsAlone' /\ LockHeld' /\ CritOK'
  BY <1>6, <1>7, Here, Inside, MoveStep, ZenonT(60)
<1>9. /\ UsedInsts' = UsedInsts /\ (\A c : UsersOf(c)' = UsersOf(c)) /\ Busy' = Busy
      /\ UsedDevs' = UsedDevs \ {d} /\ d \in UsedDevs
  <2>1. UsedInsts' = UsedInsts /\ \A c : UsersOf(c)' = UsersOf(c)
    BY DEF UsedInsts, UsersOf
  <2>2. UsedDevs' = UsedDevs \ {d} /\ d \in UsedDevs
    BY <1>1, <1>3, <1>4, <1>5 DEF UsedDevs
  <2>3. ~Counted(pc[t], loc[t]) /\ ~Counted(pc[t], loc[t])'
    BY <1>8 DEF Counted, OpenLabels, TermLabels
  <2>4. QED
    BY <1>8, <2>1, <2>2, <2>3, BusyStays
<1>10. num_opened_dev' = Cardinality(UsedDevs') /\ num_opened_dev' \in 0 .. MaxDevs
  <2>1. Cardinality(UsedDevs \ {d}) = Cardinality(UsedDevs) - 1
    BY <1>9, CountedSets, FS_RemoveElement
  <2>2. UsedDevs \ {d} \in SUBSET DevSlots
    BY DEF UsedDevs
  <2>3. Cardinality(UsedDevs \ {d}) \in Nat /\ Cardinality(UsedDevs \ {d}) \in 0 .. MaxDevs
    BY <2>2, DevsFit
  <2>4. num_opened_dev \in Nat \ {0}
    BY <1>2, <2>1, <2>3, CountedSets
  <2>5. QED
    BY <1>2, <1>9, <2>1, <2>3, <2>4, DecrFacts
<1>11. TypeOK'
  <2>1. ssl_dev' \in [DevSlots -> Clients]
    BY <1>2 DEF Clients
  <2>2. dev_list' \in [DevSlots -> DevRec]
    BY <1>2, <1>4, <1>5
  <2>3. QED
    BY <1>6, <1>8, <1>10, <2>1, <2>2 DEF IInv, TypeOK
<1>12. EntriesOK'
  <2>1. \A c \in DevSlots : dev_list'[c].inuse <=> dev_list'[c].port # NoPort
    <3>1. \A c \in DevSlots : dev_list[c].inuse <=> dev_list[c].port # NoPort
      BY DEF IInv, EntriesOK
    <3>2. QED
      BY <1>4, <1>5, <3>1, ZenonT(60)
  <2>2. \A b, c \in DevSlots : dev_list'[b].inuse /\ dev_list'[b].port = dev_list'[c].port => b = c
    BY <1>4, <1>5, <2>1 DEF IInv, EntriesOK
  <2>3. QED
    BY <2>1, <2>2 DEF IInv, EntriesOK
<1>13. CountsAgree'
  <2>1. {dev_list'[c].port : c \in UsedDevs'} = {q \in DevSlots : ssl_dev'[q] # {}}
    <3>1. \A c \in UsedDevs \ {d} : c \in DevSlots /\ dev_list[c].port # p
      BY <1>1 DEF UsedDevs, IInv, EntriesOK
    <3>2. {dev_list'[c].port : c \in UsedDevs'} = {dev_list[c].port : c \in UsedDevs} \ {p}
      BY <1>5, <1>9, <3>1
    <3>3. {q \in DevSlots : ssl_dev'[q] # {}} = {q \in DevSlots : ssl_dev[q] # {}} \ {p}
      BY <1>2
    <3>4. QED
      BY <3>2, <3>3 DEF IInv, CountsAgree
  <2>2. \A c \in DevSlots : dev_list'[c].num_cur_instances = dev_list[c].num_cur_instances
    BY <1>4, <1>5
  <2>3. QED
    BY <1>9, <1>10, <2>1, <2>2 DEF IInv, CountsAgree
<1>14. UpLocked' /\ AllStand' /\ Up'
  BY <1>1, <1>7, <1>8, InsideKeeps
<1>15. InitCovers'
  BY <1>9, <1>14 DEF IInv, InitCovers
<1>16. QED
  BY <1>8, <1>11, <1>12, <1>13, <1>14, <1>15 DEF IInv

LEMMA ClosePortKeeps ==
  ASSUME IInv, NEW t \in Threads, ClosePort(t)
  PROVE  IInv'
<1>1. pc[t] = "close_port" /\ "INTERNAL_ERR" \in Statuses /\ pc[t] \in CritLabels
      /\ UNCHANGED <<bInitialized, init_count, cfg_lock, num_instances, inst_list>>
      /\ UNCHANGED <<ssl_inited, dev_locks, owned, loaded>>
  BY DEF ClosePort, Statuses, CritLabels, histVars
<1>2. CASE /\ dev_list[loc[t].dev].port # NoPort
           /\ ssl_dev' = [ssl_dev EXCEPT ![dev_list[loc[t].dev].port] = {}]
           /\ dev_list' = [dev_list EXCEPT ![loc[t].dev] = ClosedEntry(@)]
           /\ num_opened_dev' = Decr(num_opened_dev) /\ Goto(t, "close_commit")
           /\ UNCHANGED <<lock, loc>>
  BY <1>1, <1>2, ClosePortDoes
<1>3. CASE Release /\ Return(t, "INTERNAL_ERR") /\ UNCHANGED <<ssl_dev, dev_list, num_opened_dev>>
  <2>1. lock' \in Threads \cup {NoThread}
    BY <1>3, Here DEF Release
  <2>2. UNCHANGED <<drvVars, sslVars, histVars>>
    BY <1>1, <1>3 DEF drvVars, sslVars, histVars
  <2>3. QED
    BY <1>1, <1>3, <2>1, <2>2, Here, Inside, ReturnStep
<1>4. QED
  BY <1>2, <1>3 DEF ClosePort

LEMMA OpenCommitKeeps ==
  ASSUME IInv, NEW t \in Threads, OpenCommit(t)
  PROVE  IInv'
<1>0. PICK d, s : d = loc[t].dev /\ s = loc[t].slot
  OBVIOUS
<1> DEFINE n == dev_list[d].num_cur_instances
           e == [dev_list[d] EXCEPT !.instances[n] = s, !.num_cur_instances = n + 1]
<1>1. /\ pc[t] = "open_commit" /\ s # MaxInst /\ n < MaxInstPerDev
      /\ dev_list' = [dev_list EXCEPT ![d].instances[n] = s, ![d].num_cur_instances = n + 1]
      /\ inst_list' = [inst_list EXCEPT ![s] = [pDev |-> d, inuse |-> TRUE]]
      /\ num_instances' = num_instances + 1
      /\ owned' = [owned EXCEPT ![t] = @ \cup {[handle |-> s, id |-> loc[t].id]}]
      /\ Release /\ Return(t, "SUCCESS")
      /\ UNCHANGED <<bInitialized, init_count, cfg_lock, num_opened_dev>>
      /\ UNCHANGED <<ssl_inited, ssl_dev, dev_locks, loaded>>
  BY <1>0 DEF OpenCommit, AddedUser, sslVars
<1>2. /\ loc[t].op = "open" /\ loc[t].id \in DeviceIds /\ d \in DevSlots /\ d # NoDev
      /\ s \in InstSlots /\ ~inst_list[s].inuse
  <2>1. 0 \in InstSlots
    BY ConstantsOK DEF InstSlots, MaxInst
  <2>2. QED
    BY <1>0, <1>1, <2>1, Here DEF Placed, FoundStill, CallRec, OpenLabels
<1>3. /\ inst_list \in [InstSlots -> InstRec] /\ dev_list \in [DevSlots -> DevRec]
      /\ num_instances = Cardinality(UsedInsts) /\ n = Cardinality(UsersOf(d))
  BY <1>2 DEF IInv, TypeOK, CountsAgree
<1>4. /\ e \in DevRec /\ e.port = dev_list[d].port /\ e.inuse = dev_list[d].inuse
      /\ e.num_cur_instances = n + 1
  <2>1. dev_list[d] \in DevRec /\ n \in 0 .. MaxInstPerDev
    BY <1>2, <1>3 DEF DevRec
  <2>2. n + 1 \in 0 .. MaxInstPerDev
    BY <1>1, <2>1, ConstantsOK
  <2>3. [dev_list[d].instances EXCEPT ![n] = s]
          \in [0 .. MaxInstPerDev - 1 -> InstSlots \cup {InvalidId}]
    BY <1>2, <2>1 DEF DevRec
  <2>4. QED
    BY <2>1, <2>2, <2>3 DEF DevRec
<1>5. \A c \in DevSlots : dev_list'[c] = IF c = d THEN e ELSE dev_list[c]
  BY <1>1, <1>2, <1>3 DEF DevRec
<1>6. dev_list' \in [DevSlots -> DevRec]
  <2>1. dev_list' = [dev_list EXCEPT ![d] = e]
    BY <1>1, <1>2, <1>3 DEF DevRec
  <2>2. QED
    BY <1>3, <1>4, <2>1
<1> HIDE DEF e
<1>7. \A r \in InstSlots :
        inst_list'[r] = IF r = s THEN [pDev |-> d, inuse |-> TRUE] ELSE inst_list[r]
  BY <1>1, <1>2, <1>3
<1>8. /\ pc' = [pc EXCEPT ![t] = "idle"] /\ loc' = [loc EXCEPT ![t] = NoCall]
      /\ res' \in [Threads -> Statuses]
  BY <1>1, Here DEF Return, Statuses
<1>9. /\ "idle" \in Labels /\ "idle" \notin CritLabels /\ Placed("idle", NoCall)
      /\ FoundStill("idle", NoCall)' /\ ~Exclusive(NoCall) /\ pc[t] \in CritLabels
  BY <1>1 DEF Labels, CritLabels, Placed, FoundStill, Exclusive, NoCall, OpenLabels, TermLabels
<1>10. /\ pc' \in [Threads -> Labels] /\ loc' \in [Threads -> CallRec]
       /\ pc'[t] = "idle" /\ loc'[t] = NoCall
       /\ \A u \in Threads \ {t} : pc'[u] = pc[u] /\ loc'[u] = loc[u]
       /\ CallsPlaced' /\ LoadsAlone' /\ LockHeld' /\ CritOK'
  BY <1>8, <1>9, Here, Inside, MoveStep
<1>11. /\ UsedInsts' = UsedInsts \cup {s} /\ s \notin UsedInsts /\ UsedDevs' = UsedDevs
       /\ UsersOf(d)' = UsersOf(d) \cup {s} /\ s \notin UsersOf(d)
       /\ \A c \in DevSlots \ {d} : UsersOf(c)' = UsersOf(c)
       /\ Busy' = Busy \ {t} /\ t \in Busy
  <2>1. UsedInsts' = UsedInsts \cup {s} /\ s \notin UsedInsts
    BY <1>2, <1>7 DEF UsedInsts
  <2>2. UsersOf(d)' = UsersOf(d) \cup {s} /\ s \notin UsersOf(d)
    BY <1>2, <1>7, <2>1 DEF UsersOf, UsedInsts
  <2>3. \A c \in DevSlots \ {d} : UsersOf(c)' = UsersOf(c)
    BY <1>2, <1>7, <2>1 DEF UsersOf, UsedInsts
  <2>4. UsedDevs' = UsedDevs
    BY <1>4, <1>5 DEF UsedDevs
  <2>5. Busy' = Busy \ {t}
    BY <1>10, BusyChange DEF Counted, NoCall, OpenLabels, TermLabels
  <2>6. t \in Busy
    BY <1>1 DEF Busy, Counted, OpenLabels
  <2>7. QED
    BY <2>1, <2>2, <2>3, <2>4, <2>5, <2>6
<1>12. /\ Cardinality(UsedInsts') = Cardinality(UsedInsts) + 1
       /\ Cardinality(UsersOf(d)') = Cardinality(UsersOf(d)) + 1
       /\ Cardinality(Busy') = Cardinality(Busy) - 1
  <2>1. Cardinality(UsedInsts') = Cardinality(UsedInsts) + 1
    BY <1>11, CountedSets, FS_AddElement
  <2>2. Cardinality(UsersOf(d)') = Cardinality(UsersOf(d)) + 1
    BY <1>11, CountedSets, FS_AddElement, ZenonT(60)
  <2>3. Cardinality(Busy') = Cardinality(Busy) - 1
    BY <1>11, CountedSets, FS_RemoveElement
  <2>4. QED
    BY <2>1, <2>2, <2>3
<1>13. TypeOK'
  <2>1. num_instances' \in 0 .. MaxInst
    <3>1. UsedInsts' \in SUBSET InstSlots
      BY <1>2, <1>11 DEF UsedInsts
    <3>2. QED
      BY <1>1, <1>3, <1>12, <3>1, InstsFit
  <2>2. inst_list' \in [InstSlots -> InstRec]
    <3>1. [pDev |-> d, inuse |-> TRUE] \in InstRec
      BY <1>2 DEF InstRec
    <3>2. QED
      BY <1>1, <1>3, <3>1
  <2>3. owned' \in [Threads -> SUBSET [handle : InstSlots, id : DeviceIds]]
    BY <1>1, <1>2 DEF IInv, TypeOK
  <2>4. lock' \in Threads \cup {NoThread}
    BY <1>1, Here DEF Release
  <2>5. QED
    BY <1>1, <1>6, <1>8, <1>10, <2>1, <2>2, <2>3, <2>4 DEF IInv, TypeOK
<1>14. EntriesOK'
  <2>1. \A r \in InstSlots : inst_list'[r].inuse <=> inst_list'[r].pDev # NoDev
    BY <1>2, <1>7 DEF IInv, EntriesOK
  <2>2. \A c \in DevSlots : dev_list'[c].port = dev_list[c].port
                            /\ dev_list'[c].inuse = dev_list[c].inuse
    BY <1>4, <1>5
  <2>3. QED
    BY <2>1, <2>2, ZenonT(60) DEF IInv, EntriesOK
<1>15. CountsAgree'
  <2>1. {dev_list'[c].port : c \in UsedDevs'} = {dev_list[c].port : c \in UsedDevs}
    BY <1>4, <1>5, <1>11 DEF UsedDevs
  <2>2. \A c \in DevSlots : dev_list'[c].num_cur_instances = Cardinality(UsersOf(c)')
    <3>1. SUFFICES ASSUME NEW c \in DevSlots
                   PROVE  dev_list'[c].num_cur_instances = Cardinality(UsersOf(c)')
      OBVIOUS
    <3>2. CASE c = d
      BY <1>3, <1>4, <1>5, <1>12, <3>2
    <3>3. CASE c # d
      BY <1>5, <1>11, <3>3 DEF IInv, CountsAgree
    <3>4. QED
      BY <3>2, <3>3
  <2>3. QED
    BY <1>1, <1>3, <1>11, <1>12, <2>1, <2>2 DEF IInv, CountsAgree
<1>16. UpLocked' /\ AllStand' /\ Up'
  BY <1>1, <1>9, <1>10, InsideKeeps DEF NoCall
<1>17. InitCovers'
  BY <1>1, <1>12, <1>16, CountedSets DEF IInv, TypeOK, InitCovers
<1>18. QED
  BY <1>10, <1>13, <1>14, <1>15, <1>16, <1>17 DEF IInv

LEMMA CloseCommitKeeps ==
  ASSUME IInv, NEW t \in Threads, CloseCommit(t)
  PROVE  IInv'
<1>0. PICK d, h, y : /\ d = loc[t].dev /\ h = loc[t].handle
                     /\ y = [loc[t] EXCEPT !.dev = NoDev]
  OBVIOUS
<1> DEFINE n == dev_list[d].num_cur_instances
<1>1. PICK entry :
        dev_list' = [dev_list EXCEPT
          ![d].instances = [i \in DOMAIN @ |-> IF i \in entry THEN InvalidId ELSE @[i]],
          ![d].num_cur_instances = Decr(n)]
  BY <1>0, ZenonT(60) DEF CloseCommit
<1> DEFINE list == [i \in DOMAIN dev_list[d].instances |->
                      IF i \in entry THEN InvalidId ELSE dev_list[d].instances[i]]
           e == [dev_list[d] EXCEPT !.instances = list, !.num_cur_instances = Decr(n)]
<1>2. /\ pc[t] = "close_commit"
      /\ inst_list' = [inst_list EXCEPT ![h] = FreeInst]
      /\ num_instances' = Decr(num_instances)
      /\ owned' = [u \in Threads |-> {g \in owned[u] : g.handle # h}]
      /\ Release /\ Goto(t, "term_check") /\ loc' = [loc EXCEPT ![t].dev = NoDev]
      /\ UNCHANGED <<bInitialized, init_count, cfg_lock, num_opened_dev>>
      /\ UNCHANGED <<ssl_inited, ssl_dev, dev_locks, loaded>>
  BY <1>0 DEF CloseCommit, ClosedInst, sslVars
<1>3. /\ loc[t].op = "close" /\ h \in InstSlots /\ d \in DevSlots /\ d # NoDev
      /\ inst_list[h].pDev = d /\ inst_list[h].inuse
  BY <1>0, <1>2, Here DEF Placed, FoundStill, CallRec, IInv, EntriesOK
<1>4. /\ inst_list \in [InstSlots -> InstRec] /\ dev_list \in [DevSlots -> DevRec]
      /\ num_instances = Cardinality(UsedInsts) /\ n = Cardinality(UsersOf(d))
  BY <1>3 DEF IInv, TypeOK, CountsAgree
<1>5. \A r \in InstSlots : inst_list'[r] = IF r = h THEN FreeInst ELSE inst_list[r]
  BY <1>2, <1>3, <1>4
<1>6. /\ y \in CallRec /\ y.op = "close" /\ y.handle = h
      /\ pc' = [pc EXCEPT ![t] = "term_check"] /\ loc' = [loc EXCEPT ![t] = y] /\ UNCHANGED res
  BY <1>0, <1>2, <1>3, Here, ZenonT(60) DEF CallRec, Goto
<1>7. /\ "term_check" \in Labels /\ "term_check" \notin CritLabels /\ Placed("term_check", y)
      /\ FoundStill("term_check", y)' /\ ~Exclusive(y) /\ pc[t] \in CritLabels
  BY <1>2, <1>3, <1>6
     DEF Labels, CritLabels, Placed, FoundStill, Exclusive, OpenLabels, TermLabels
<1>8. /\ pc' \in [Threads -> Labels] /\ loc' \in [Threads -> CallRec]
      /\ pc'[t] = "term_check" /\ loc'[t] = y
      /\ \A u \in Threads \ {t} : pc'[u] = pc[u] /\ loc'[u] = loc[u]
      /\ CallsPlaced' /\ LoadsAlone' /\ LockHeld' /\ CritOK'
  BY <1>6, <1>7, Here, Inside, MoveStep
<1>9. /\ UsedInsts' = UsedInsts \ {h} /\ h \in UsedInsts
      /\ UsersOf(d)' = UsersOf(d) \ {h} /\ h \in UsersOf(d)
      /\ \A c \in DevSlots \ {d} : UsersOf(c)' = UsersOf(c)
      /\ Busy' = Busy \cup {t} /\ t \notin Busy
  <2>1. UsedInsts' = UsedInsts \ {h} /\ h \in UsedInsts
    BY <1>3, <1>5 DEF UsedInsts, FreeInst
  <2>2. UsersOf(d)' = UsersOf(d) \ {h} /\ h \in UsersOf(d)
    BY <1>3, <1>5, <2>1 DEF UsersOf, UsedInsts
  <2>3. \A c \in DevSlots \ {d} : UsersOf(c)' = UsersOf(c)
    BY <1>3, <1>5, <2>1 DEF UsersOf, UsedInsts
  <2>4. Counted(pc[t], loc[t])' /\ ~Counted(pc[t], loc[t])
    BY <1>2, <1>6, <1>8 DEF Counted, OpenLabels, TermLabels
  <2>5. Busy' = Busy \cup {t} /\ t \notin Busy
    BY <1>8, <2>4, BusyChange
  <2>6. QED
    BY <2>1, <2>2, <2>3, <2>5
<1>10. /\ Cardinality(UsedInsts') = Cardinality(UsedInsts) - 1
       /\ Cardinality(UsersOf(d)') = Cardinality(UsersOf(d)) - 1
       /\ Cardinality(Busy') = Cardinality(Busy) + 1
  BY <1>9, CountedSets, FS_AddElement, FS_RemoveElement, ZenonT(60)
<1>11. /\ num_instances' = num_instances - 1 /\ num_instances' \in 0 .. MaxInst
       /\ Decr(n) = n - 1 /\ n - 1 \in 0 .. MaxInstPerDev
  <2>1. UsedInsts' \in SUBSET InstSlots /\ UsersOf(d)' \in SUBSET InstSlots
    BY <1>9 DEF UsedInsts, UsersOf
  <2>2. Cardinality(UsedInsts') \in 0 .. MaxInst /\ Cardinality(UsersOf(d)') \in Nat
    BY <2>1, InstsFit
  <2>3. num_instances \in Nat \ {0} /\ n \in Nat \ {0}
    BY <1>4, <1>10, <2>2, CountedSets
  <2>4. n \in 0 .. MaxInstPerDev
    BY <1>3, <1>4 DEF DevRec
  <2>5. QED
    <3>1. Decr(num_instances) = num_instances - 1 /\ Decr(n) = n - 1
      BY <2>3, DecrFacts
    <3>2. n - 1 \in 0 .. MaxInstPerDev
      BY <2>3, <2>4, ConstantsOK
    <3>3. QED
      BY <1>2, <1>4, <1>10, <2>2, <3>1, <3>2
<1>12. /\ e \in DevRec /\ e.port = dev_list[d].port /\ e.inuse = dev_list[d].inuse
       /\ e.num_cur_instances = n - 1
  <2>1. dev_list[d] \in DevRec
    BY <1>3, <1>4
  <2>2. list \in [0 .. MaxInstPerDev - 1 -> InstSlots \cup {InvalidId}]
    BY <2>1 DEF DevRec
  <2> HIDE DEF list
  <2>3. QED
    BY <1>11, <2>1, <2>2 DEF DevRec
<1>13. dev_list' = [dev_list EXCEPT ![d] = e]
  BY <1>1, <1>3, <1>4 DEF DevRec
<1> HIDE DEF e
<1>14. \A c \in DevSlots : dev_list'[c] = IF c = d THEN e ELSE dev_list[c]
  BY <1>4, <1>13
<1>15. UsedDevs' = UsedDevs
  BY <1>12, <1>14 DEF UsedDevs
<1>16. TypeOK'
  <2>1. dev_list' \in [DevSlots -> DevRec]
    BY <1>4, <1>12, <1>13
  <2>2. inst_list' \in [InstSlots -> InstRec]
    BY <1>2, <1>4 DEF FreeInst, InstRec
  <2>3. owned' \in [Threads -> SUBSET [handle : InstSlots, id : DeviceIds]]
    BY <1>2 DEF IInv, TypeOK
  <2>4. lock' \in Threads \cup {NoThread}
    BY <1>2, Here DEF Release
  <2>5. QED
    BY <1>2, <1>6, <1>8, <1>11, <2>1, <2>2, <2>3, <2>4 DEF IInv, TypeOK
<1>17. EntriesOK'
  <2>1. \A r \in InstSlots : inst_list'[r].inuse <=> inst_list'[r].pDev # NoDev
    BY <1>3, <1>5 DEF IInv, EntriesOK, FreeInst
  <2>2. \A c \in DevSlots : dev_list'[c].port = dev_list[c].port
                            /\ dev_list'[c].inuse = dev_list[c].inuse
    BY <1>12, <1>14
  <2>3. QED
    BY <2>1, <2>2, ZenonT(60) DEF IInv, EntriesOK
<1>18. CountsAgree'
  <2>1. {dev_list'[c].port : c \in UsedDevs'} = {dev_list[c].port : c \in UsedDevs}
    BY <1>12, <1>14, <1>15 DEF UsedDevs
  <2>2. \A c \in DevSlots : dev_list'[c].num_cur_instances = Cardinality(UsersOf(c)')
    <3>1. SUFFICES ASSUME NEW c \in DevSlots
                   PROVE  dev_list'[c].num_cur_instances = Cardinality(UsersOf(c)')
      OBVIOUS
    <3>2. CASE c = d
      BY <1>4, <1>10, <1>12, <1>14, <3>2
    <3>3. CASE c # d
      BY <1>9, <1>14, <3>3 DEF IInv, CountsAgree
    <3>4. QED
      BY <3>2, <3>3
  <2>3. QED
    BY <1>2, <1>4, <1>10, <1>11, <1>15, <2>1, <2>2 DEF IInv, CountsAgree
<1>19. UpLocked' /\ AllStand' /\ Up'
  BY <1>2, <1>6, <1>7, <1>8, InsideKeeps
<1>20. InitCovers'
  BY <1>2, <1>10, <1>19, CountedSets DEF IInv, TypeOK, InitCovers
<1>21. QED
  BY <1>8, <1>16, <1>17, <1>18, <1>19, <1>20 DEF IInv

-----------------------------------------------------------------------------
(* The invariant *)

LEMMA InitHolds ==
  ASSUME Init
  PROVE  IInv
<1>1. Cardinality({}) = 0
  BY FS_EmptySet
<1>2. UsedInsts = {} /\ UsedDevs = {} /\ (\A d : UsersOf(d) = {}) /\ Busy = {}
  BY DEF Init, UsedInsts, UsedDevs, UsersOf, Busy, Counted, FreeInst, ClosedDev,
         OpenLabels, TermLabels
<1>3. TypeOK
  <2>1. FreeInst \in InstRec
    BY DEF FreeInst, InstRec
  <2>2. ClosedDev \in DevRec
    <3>1. [i \in 0 .. MaxInstPerDev - 1 |-> 0] \in [0 .. MaxInstPerDev - 1 -> InstSlots \cup {InvalidId}]
      BY ConstantsOK DEF InstSlots, MaxInst
    <3>2. 0 \in 0 .. MaxInstPerDev
      BY ConstantsOK
    <3>3. QED
      BY <3>1, <3>2 DEF ClosedDev, DevRec, Clients
  <2>3. 0 \in 0 .. MaxDevs /\ 0 \in 0 .. MaxInst /\ NoCall \in CallRec
    BY ConstantsOK, SlotFacts DEF NoCall, CallRec, Clients
  <2>4. "idle" \in Labels /\ "none" \in Statuses
    BY DEF Labels, Statuses
  <2>5. /\ bInitialized \in BOOLEAN /\ cfg_lock \in BOOLEAN /\ ssl_inited \in BOOLEAN
        /\ init_count \in Nat /\ loaded \in Nat
    BY DEF Init
  <2>6. ssl_dev \in [DevSlots -> Clients] /\ owned \in [Threads -> SUBSET [handle : InstSlots, id : DeviceIds]]
    BY DEF Init, Clients
  <2>7. QED
    BY <2>1, <2>2, <2>3, <2>4, <2>5, <2>6 DEF Init, TypeOK
<1>4. CallsPlaced /\ LoadsAlone /\ LockHeld /\ CritOK
  BY DEF Init, CallsPlaced, Placed, LoadsAlone, Exclusive, LockHeld, CritOK, FoundStill,
         NoCall, CritLabels, OpenLabels, TermLabels
<1>5. EntriesOK
  BY DEF Init, EntriesOK, FreeInst, ClosedDev
<1>6. CountsAgree
  BY <1>1, <1>2 DEF Init, CountsAgree, ClosedDev
<1>7. InitCovers /\ UpLocked
  BY <1>1, <1>2 DEF Init, InitCovers, UpLocked
<1>8. AllStand
  BY DEF Init, AllStand, Stands, NoCall, TermLabels
<1>9. QED
  BY <1>3, <1>4, <1>5, <1>6, <1>7, <1>8 DEF IInv

LEMMA StepKeeps ==
  ASSUME Locked, IInv, NEW t \in Threads, Step(t)
  PROVE  IInv'
BY InitCountKeeps, InitSetupKeeps, OpenCheckKeeps, OpenLockKeeps, OpenPortKeeps, OpenCommitKeeps,
   CloseLockKeeps, ClosePortKeeps, CloseCommitKeeps, TermCheckKeeps, TermLockKeeps, TermFinalKeeps,
   UseFetchKeeps, UseBeginKeeps, UseEndKeeps, FaultKeeps
   DEF Step

LEMMA CallKeeps ==
  ASSUME Locked, IInv, NEW t \in Threads, Call(t)
  PROVE  IInv'
BY CallInitKeeps, CallTermKeeps, CallCloseKeeps, CallUseKeeps, CallOpenKeeps DEF Call

LEMMA StutterKeeps ==
  ASSUME IInv, UNCHANGED vars
  PROVE  IInv'
<1>1. /\ UNCHANGED <<bInitialized, init_count, cfg_lock, num_opened_dev, num_instances>>
      /\ UNCHANGED <<dev_list, inst_list, ssl_inited, ssl_dev, lock, dev_locks>>
      /\ UNCHANGED <<pc, loc, res, owned, loaded>>
  BY DEF vars, drvVars, sslVars, lockVars, histVars
<1>2. UsedInsts' = UsedInsts /\ UsedDevs' = UsedDevs /\ Busy' = Busy
      /\ \A d : UsersOf(d)' = UsersOf(d)
  BY <1>1 DEF UsedInsts, UsedDevs, UsersOf, Busy
<1>3. TypeOK'
  BY <1>1 DEF IInv, TypeOK
<1>4. CallsPlaced' /\ LoadsAlone' /\ LockHeld'
  BY <1>1 DEF IInv, CallsPlaced, LoadsAlone, LockHeld
<1>5. EntriesOK' /\ CritOK'
  BY <1>1 DEF IInv, EntriesOK, CritOK, FoundStill
<1>6. CountsAgree'
  BY <1>1, <1>2 DEF IInv, CountsAgree
<1>7. InitCovers' /\ UpLocked' /\ AllStand'
  BY <1>1, <1>2 DEF IInv, InitCovers, UpLocked, Up, AllStand, Stands
<1>8. QED
  BY <1>3, <1>4, <1>5, <1>6, <1>7 DEF IInv

\* The tables of a driver with a lock, or with one user, stay consistent and the driver stays
\* up for its users, for any number of threads, devices and users, whatever order HBI_open,
\* HBI_close and the transfers of hbi.c run in.
THEOREM Inductive == Locked => (Spec => []IInv)
<1> SUFFICES ASSUME Locked PROVE Spec => []IInv
  OBVIOUS
<1>1. Init => IInv
  BY InitHolds
<1>2. IInv /\ [Next]_vars => IInv'
  BY StepKeeps, CallKeeps, StutterKeeps DEF Next
<1>3. QED
  BY <1>1, <1>2, PTL DEF Spec

\* Every variable keeps its type; no counter of hbi_priv wraps below zero in HBI_close or
\* counts past its table in HBI_open, although HBI_open checks the limit before it locks.
THEOREM TypeCorrect == Locked => (Spec => []TypeOK)
<1>1. IInv => TypeOK
  BY DEF IInv
<1>2. QED
  BY <1>1, Inductive, PTL

\* The counters that HBI_open and HBI_close keep by hand equal what the tables of users,
\* devices and ports hold, between any two steps of any threads.
THEOREM CountersRight == Locked => (Spec => []CountsAgree)
<1>1. IInv => CountsAgree
  BY DEF IInv
<1>2. QED
  BY <1>1, Inductive, PTL

\* No HBI_close and no HBI_term brings the driver down while a handle is in use or an
\* HBI_init is unmatched.
THEOREM StaysUp == Locked => (Spec => []DriverHeld)
<1>1. IInv => DriverHeld
  <2>1. SUFFICES ASSUME IInv PROVE DriverHeld
    OBVIOUS
  <2>2. init_count \in Nat /\ loaded \in Nat /\ Cardinality(UsedInsts) \in Nat
        /\ Cardinality(Busy) \in Nat
    BY <2>1, CountedSets DEF IInv, TypeOK
  <2>3. init_count >= loaded + Cardinality(UsedInsts)
    BY <2>1, <2>2 DEF IInv, InitCovers
  <2>4. QED
    BY <2>1, <2>3 DEF IInv, InitCovers, DriverHeld, Up
<1>2. QED
  BY <1>1, Inductive, PTL

\* One thread at a time is between taking and releasing the driver lock in HBI_open and
\* HBI_close: where there are two, the lock the caller handed to HBI_init is never replaced
\* under the calls.
THEOREM OneInside ==
  Locked => (Spec => [](\A t, u \in Threads : pc[t] \in CritLabels /\ pc[u] \in CritLabels => t = u))
<1>1. IInv => \A t, u \in Threads : pc[t] \in CritLabels /\ pc[u] \in CritLabels => t = u
  BY DEF IInv, LockHeld, Sole
<1>2. QED
  BY <1>1, Inductive, PTL

=============================================================================
