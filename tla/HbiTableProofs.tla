---------------------------- MODULE HbiTableProofs ----------------------------
(***************************************************************************)
(* What HBI_open and HBI_close do to the tables of HbiDriver, for every    *)
(* number of threads, devices and users per device: no call runs off the   *)
(* end of a table, the tables implement HandleTable, a transfer keeps its  *)
(* port, and a thread that closes only its own handles keeps them.  The    *)
(* proofs go by IInv and the second half of HbiDriverInv.                  *)
(***************************************************************************)
EXTENDS HbiDriverProofs, FunctionTheorems

-----------------------------------------------------------------------------
(* The slots: MaxInst is room enough for the users the devices let in *)

\* The users of a device can be numbered.
LEMMA UsersNumbered ==
  ASSUME NEW d \in DevSlots
  PROVE  \E f : f \in Injection(UsersOf(d), 1 .. Cardinality(UsersOf(d)))
<1> DEFINE n == Cardinality(UsersOf(d))
<1>1. IsFiniteSet(UsersOf(d)) /\ n \in Nat
  BY CountedSets
<1>2. IsFiniteSet(1 .. n) /\ Cardinality(1 .. n) = n
  BY <1>1, FS_Interval
<1>3. ExistsBijection(UsersOf(d), 1 .. n)
  BY <1>1, <1>2, FS_SameCardinalityBij
<1>4. QED
  BY <1>3 DEF ExistsBijection, Bijection

\* While one device has room for a user, a slot is free.
LEMMA SlotIsFree ==
  ASSUME EntriesOK, inst_list \in [InstSlots -> InstRec],
         \A d \in DevSlots : Cardinality(UsersOf(d)) <= MaxInstPerDev,
         NEW e \in DevSlots, Cardinality(UsersOf(e)) < MaxInstPerDev
  PROVE  FreeInsts # {}
<1> DEFINE F == [d \in DevSlots |->
                   CHOOSE f : f \in Injection(UsersOf(d), 1 .. Cardinality(UsersOf(d)))]
           All == DevSlots \X (1 .. MaxInstPerDev)
           last == <<e, MaxInstPerDev>>
           Place(s) == <<inst_list[s].pDev, F[inst_list[s].pDev][s]>>
           g == [s \in UsedInsts |-> Place(s)]
<1>1. MaxInstPerDev \in Nat /\ MaxDevs \in Nat /\ \A d : Cardinality(UsersOf(d)) \in Nat
  BY ConstantsOK, CountedSets
<1>2. ASSUME NEW d \in DevSlots
      PROVE  /\ F[d] \in [UsersOf(d) -> 1 .. Cardinality(UsersOf(d))]
             /\ \A r, s \in UsersOf(d) : F[d][r] = F[d][s] => r = s
  <2> DEFINE T == 1 .. Cardinality(UsersOf(d))
  <2>1. F[d] \in Injection(UsersOf(d), T)
    BY UsersNumbered
  <2>2. \A f \in Injection(UsersOf(d), T) :
          /\ f \in [UsersOf(d) -> T]
          /\ \A r, s \in UsersOf(d) : f[r] = f[s] => r = s
    <3> HIDE DEF T
    <3>1. QED
      BY Fun_InjectionProperties
  <2> HIDE DEF F
  <2>3. QED
    BY <2>1, <2>2
<1> HIDE DEF F
<1>3. ASSUME NEW s \in UsedInsts
      PROVE  inst_list[s].pDev \in DevSlots /\ s \in UsersOf(inst_list[s].pDev)
  BY <1>3 DEF UsedInsts, UsersOf, EntriesOK, InstRec
<1>4. ASSUME NEW s \in UsedInsts
      PROVE  Place(s) \in All \ {last}
  <2> DEFINE d == inst_list[s].pDev
             n == Cardinality(UsersOf(d))
  <2>1. d \in DevSlots /\ F[d][s] \in 1 .. n /\ n \in Nat /\ n <= MaxInstPerDev
        /\ (d = e => n < MaxInstPerDev)
    BY <1>1, <1>2, <1>3
  <2>2. F[d][s] \in 1 .. MaxInstPerDev /\ (d = e => F[d][s] # MaxInstPerDev)
    BY <1>1, <2>1
  <2>3. QED
    BY <2>1, <2>2
<1>5. g \in Injection(UsedInsts, All \ {last})
  <2>1. g \in [UsedInsts -> All \ {last}]
    BY <1>4
  <2>2. ASSUME NEW r \in UsedInsts, NEW s \in UsedInsts, g[r] = g[s]
        PROVE  r = s
    <3>1. inst_list[r].pDev = inst_list[s].pDev
          /\ F[inst_list[r].pDev][r] = F[inst_list[s].pDev][s]
      BY <2>2
    <3>2. QED
      BY <1>2, <1>3, <3>1
  <2>3. QED
    BY <2>1, <2>2, Fun_IsInj
<1>6. IsFiniteSet(All \ {last}) /\ Cardinality(All \ {last}) = MaxInst - 1
  <2>1. IsFiniteSet(1 .. MaxInstPerDev) /\ Cardinality(1 .. MaxInstPerDev) = MaxInstPerDev
    BY <1>1, ConstantsOK, FS_Interval
  <2>2. IsFiniteSet(All) /\ Cardinality(All) = MaxDevs * MaxInstPerDev
    BY <2>1, SlotFacts, FS_Product
  <2>3. last \in All
    BY ConstantsOK
  <2>4. IsFiniteSet(All \ {last}) /\ Cardinality(All \ {last}) = Cardinality(All) - 1
    BY <2>2, <2>3, FS_RemoveElement, Zenon
  <2>5. QED
    BY <2>2, <2>4 DEF MaxInst
<1>7. Cardinality(UsedInsts) <= MaxInst - 1
  BY <1>5, <1>6, FS_Injection
<1>8. UsedInsts # InstSlots
  BY <1>7, SlotFacts
<1>9. QED
  BY <1>8 DEF UsedInsts, FreeInsts

-----------------------------------------------------------------------------
(* What a step does *)

Others(t) == \A u \in Threads \ {t} : pc'[u] = pc[u] /\ loc'[u] = loc[u] /\ res'[u] = res[u]

\* A step that leaves the tables, and goes to no place where something is known of them.
Plain(t) ==
  /\ UNCHANGED <<dev_list, inst_list, ssl_dev, owned, dev_locks>>
  /\ pc[t] \notin {"open_commit", "close_commit", "use_end"}
  /\ pc'[t] \notin CritLabels \cup {"dead", "use_end"}

\* The ways a thread moves.
LEMMA ReturnMoves ==
  ASSUME IInv, NEW t \in Threads, NEW status, Return(t, status)
  PROVE  Others(t) /\ pc'[t] = "idle" /\ loc'[t] = NoCall /\ res'[t] = status
BY Here DEF Return, Others

LEMMA GotoMoves ==
  ASSUME IInv, NEW t \in Threads, NEW label, Goto(t, label), UNCHANGED loc
  PROVE  Others(t) /\ pc'[t] = label /\ loc'[t] = loc[t] /\ res'[t] = res[t]
BY Here DEF Goto, Others

LEMMA StartMoves ==
  ASSUME IInv, NEW t \in Threads, NEW call, NEW label, Start(t, call, label)
  PROVE  /\ Others(t) /\ pc'[t] = label /\ loc'[t] = call /\ res'[t] = "none"
         /\ pc[t] = "idle"
BY Here DEF Start, MayCall, Others

\* The calls, and the steps of HBI_init, HBI_open and HBI_term outside the locked stretches.
LEMMA PlainSteps ==
  ASSUME IInv, NEW t \in Threads,
         \/ Call(t) \/ InitCount(t) \/ OpenCheck(t) \/ TermCheck(t) \/ TermLock(t)
         \/ TermFinal(t) \/ UseFetch(t)
  PROVE  Others(t) /\ Plain(t)
<1> USE DEF drvVars, sslVars, lockVars, histVars
<1> DEFINE Stay == UNCHANGED <<dev_list, inst_list, ssl_dev, owned, dev_locks>>
<1>1. ASSUME NEW h \in HandlesOf(t), NEW op, NEW label \in {"close_lock", "use_fetch"},
             CallHandle(t, h, op, label)
      PROVE  Others(t) /\ Plain(t)
  <2>1. Stay
    BY <1>1 DEF CallHandle
  <2>2. Others(t) /\ pc[t] = "idle" /\ pc'[t] \in {label, "idle"}
    BY <1>1, StartMoves, ReturnMoves DEF CallHandle, MayCall
  <2>3. QED
    BY <2>1, <2>2 DEF Plain, CritLabels
<1>2. CASE CallClose(t) \/ CallUse(t)
  BY <1>1, <1>2 DEF CallClose, CallUse
<1>3. CASE CallInit(t) \/ CallTerm(t) \/ \E id \in DeviceIds : CallOpen(t, id)
  <2>1. Stay
    BY <1>3 DEF CallInit, CallTerm, CallOpen
  <2>2. Others(t) /\ pc[t] = "idle" /\ pc'[t] \in {InitLabel, "term_check"}
    BY <1>3, StartMoves DEF CallInit, CallTerm, CallOpen
  <2>3. QED
    BY <2>1, <2>2 DEF Plain, CritLabels, InitLabel
<1>4. CASE InitCount(t)
  <2>1. Stay /\ pc[t] = "init_count"
    BY <1>4 DEF InitCount
  <2>2. Others(t) /\ pc'[t] \in {"idle", "open_check"}
    BY <1>4, GotoMoves, ReturnMoves DEF InitCount, AfterInit
  <2>3. QED
    BY <2>1, <2>2 DEF Plain, CritLabels
<1>5. CASE OpenCheck(t)
  <2>1. Stay /\ pc[t] = "open_check"
    BY <1>5 DEF OpenCheck
  <2>2. Others(t) /\ pc'[t] \in {"idle", "open_lock"}
    BY <1>5, GotoMoves, ReturnMoves DEF OpenCheck
  <2>3. QED
    BY <2>1, <2>2 DEF Plain, CritLabels
<1>6. CASE TermCheck(t)
  <2>1. Stay /\ pc[t] = "term_check"
    BY <1>6 DEF TermCheck
  <2>2. Others(t) /\ pc'[t] \in {"idle", "term_lock"}
    BY <1>6, GotoMoves, ReturnMoves DEF TermCheck
  <2>3. QED
    BY <2>1, <2>2 DEF Plain, CritLabels
<1>7. CASE TermLock(t)
  <2>1. Stay /\ pc[t] = "term_lock"
    BY <1>7 DEF TermLock
  <2>2. Others(t) /\ pc'[t] \in {"idle", "term_final"}
    BY <1>7, GotoMoves, ReturnMoves DEF TermLock
  <2>3. QED
    BY <2>1, <2>2 DEF Plain, CritLabels
<1>8. CASE TermFinal(t)
  <2>1. Stay /\ pc[t] = "term_final"
    BY <1>8 DEF TermFinal
  <2>2. Others(t) /\ pc'[t] = "idle"
    BY <1>8, ReturnMoves DEF TermFinal
  <2>3. QED
    BY <2>1, <2>2 DEF Plain, CritLabels
<1>9. CASE UseFetch(t)
  <2>1. Stay /\ pc[t] = "use_fetch"
    BY <1>9 DEF UseFetch
  <2>2. Others(t) /\ pc'[t] = "use_begin"
    BY <1>9, Here DEF UseFetch, Goto, Others
  <2>3. QED
    BY <2>1, <2>2 DEF Plain, CritLabels
<1>10. QED
  BY <1>2, <1>3, <1>4, <1>5, <1>6, <1>7, <1>8, <1>9 DEF Call

\* Nobody is between taking and releasing the driver lock when a thread of HBI_open or
\* HBI_close can take it.
LEMMA LockIsFree ==
  ASSUME IInv, NEW t \in Threads, CanLock,
         \/ pc[t] = "open_lock"
         \/ pc[t] = "close_lock" /\ inst_list[loc[t].handle].pDev # NoDev
  PROVE  \A u \in Threads : pc[u] \notin CritLabels
<1>1. loaded > 0 \/ UsedInsts # {} \/ Sole
  <2>1. CASE pc[t] = "open_lock"
    BY <2>1, Here DEF Placed, Stands, OpenLabels
  <2>2. CASE pc[t] = "close_lock" /\ inst_list[loc[t].handle].pDev # NoDev
    BY <2>2, Here DEF Placed, IInv, EntriesOK, UsedInsts
  <2>3. QED
    BY <2>1, <2>2
<1>2. (cfg_lock \/ Sole) /\ pc[t] \notin CritLabels
  BY <1>1, LockIsSet DEF CritLabels
<1>3. QED
  BY <1>2, NobodyInside

\* HBI_open takes the lock, with a slot and an entry that are free.
LEMMA OpenLockDoes ==
  ASSUME IInv, TableInv, NEW t \in Threads, OpenLock(t)
  PROVE  /\ Others(t) /\ UNCHANGED <<dev_list, inst_list, ssl_dev, owned, dev_locks>>
         /\ pc[t] = "open_lock" /\ pc'[t] \in {"idle", "open_port", "open_commit"}
         /\ Known(pc'[t], loc'[t])
         /\ pc'[t] = "idle" => res'[t] = "RESOURCE_ERR"
         /\ pc'[t] # "idle" => res'[t] = res[t]
<1>1. /\ pc[t] = "open_lock" /\ CanLock
      /\ UNCHANGED <<dev_list, inst_list, ssl_dev, owned, dev_locks>>
  BY DEF OpenLock, drvVars, sslVars, histVars
<1>2. PICK s \in First(FreeInsts, MaxInst), d \in First(OpenedAs(loc[t].id), NoDev),
           f \in First(FreeDevs, NoDev) :
        \/ Return(t, "RESOURCE_ERR")
        \/ /\ d # NoDev /\ Room(d) /\ Goto(t, "open_commit")
           /\ loc' = [loc EXCEPT ![t].slot = s, ![t].dev = d]
        \/ /\ d = NoDev /\ Room(d) /\ Goto(t, "open_port")
           /\ loc' = [loc EXCEPT ![t].slot = s, ![t].dev = f]
  BY DEF OpenLock
<1>3. \A u \in Threads : pc[u] \notin CritLabels
  BY <1>1, LockIsFree
<1>4. /\ dev_list \in [DevSlots -> DevRec] /\ inst_list \in [InstSlots -> InstRec]
      /\ EntriesOK /\ loc \in [Threads -> CallRec] /\ pc \in [Threads -> Labels]
      /\ \A c \in DevSlots : /\ dev_list[c].num_cur_instances = Cardinality(UsersOf(c))
                             /\ dev_list[c].num_cur_instances <= MaxInstPerDev
  BY ConstantsOK DEF IInv, TypeOK, CountsAgree, DevRec
<1>5. ASSUME NEW e \in DevSlots, dev_list[e].num_cur_instances < MaxInstPerDev
      PROVE  s # MaxInst
  <2>1. FreeInsts # {}
    BY <1>4, <1>5, SlotIsFree
  <2>2. QED
    BY <2>1, FirstIn, SlotFacts DEF FreeInsts
<1>6. CASE Return(t, "RESOURCE_ERR")
  <2>1. Others(t) /\ pc'[t] = "idle" /\ res'[t] = "RESOURCE_ERR"
    BY <1>6, ReturnMoves
  <2>2. QED
    BY <1>1, <2>1 DEF Known
<1>7. CASE /\ d # NoDev /\ Room(d) /\ Goto(t, "open_commit")
           /\ loc' = [loc EXCEPT ![t].slot = s, ![t].dev = d]
  <2>1. /\ Others(t) /\ pc'[t] = "open_commit" /\ res'[t] = res[t]
        /\ loc'[t].slot = s /\ loc'[t].dev = d /\ loc'[t].id = loc[t].id
    BY <1>4, <1>7 DEF Goto, Others, CallRec
  <2>2. d \in DevSlots /\ IdOf(d) = loc[t].id /\ dev_list[d].port # NoPort
    BY <1>7, FirstIn DEF OpenedAs, IdOf
  <2>3. dev_list[d].inuse /\ dev_list[d].num_cur_instances < MaxInstPerDev
    BY <1>4, <1>7, <2>2 DEF EntriesOK, Room
  <2>4. QED
    BY <1>1, <1>5, <2>1, <2>2, <2>3 DEF Known
<1>8. CASE /\ d = NoDev /\ Room(d) /\ Goto(t, "open_port")
           /\ loc' = [loc EXCEPT ![t].slot = s, ![t].dev = f]
  <2>1. /\ Others(t) /\ pc'[t] = "open_port" /\ res'[t] = res[t]
        /\ loc'[t].slot = s /\ loc'[t].dev = f /\ loc'[t].id = loc[t].id
    BY <1>4, <1>8 DEF Goto, Others, CallRec
  <2>2. PICK e \in DevSlots : ~dev_list[e].inuse
    <3>1. Cardinality(UsedDevs) < Cardinality(DevSlots)
      BY <1>8, SlotFacts DEF Room, IInv, CountsAgree
    <3>2. UsedDevs # DevSlots
      BY <3>1, CountedSets, SlotFacts
    <3>3. QED
      BY <3>2 DEF UsedDevs
  <2>3. f # NoDev
    BY <2>2, FirstIn, SlotFacts DEF FreeDevs
  <2>4. dev_list[e].num_cur_instances < MaxInstPerDev
    <3>1. UsersOf(e) = {}
      BY <1>3, <2>2 DEF TableInv, UsersPlaced, CritLabels
    <3>2. Cardinality(UsersOf(e)) = 0
      BY <3>1, FS_EmptySet
    <3>3. QED
      BY <1>4, <3>2, ConstantsOK
  <2>5. NotOpen(loc[t].id)
    <3>1. OpenedAs(loc[t].id) = {}
      BY <1>8, FirstIn, SlotFacts DEF OpenedAs
    <3>2. QED
      BY <1>4, <3>1 DEF OpenedAs, NotOpen, IdOf, UsedDevs, EntriesOK
  <2>6. QED
    BY <1>1, <1>5, <2>1, <2>3, <2>4, <2>5 DEF Known
<1>9. QED
  BY <1>2, <1>6, <1>7, <1>8

\* HBI_open of t makes entry d that of device id, with port p.
TakesPort(t, d, p, id) ==
  /\ pc[t] = "open_port" /\ d = loc[t].dev /\ id = loc[t].id
  /\ ~dev_list[d].inuse /\ ssl_dev[p] = {}
  /\ ssl_dev' = [ssl_dev EXCEPT ![p] = {id}]
  /\ dev_list'[d].inuse /\ dev_list'[d].port = p /\ IdOf(d)' = id
  /\ DevLock => dev_list'[d].port_lock = {id}
  /\ dev_list'[d].num_cur_instances = dev_list[d].num_cur_instances
  /\ \A c \in DevSlots \ {d} : dev_list'[c] = dev_list[c]
  /\ UNCHANGED <<inst_list, owned, dev_locks>>
  /\ Others(t) /\ pc'[t] = "open_commit" /\ loc'[t] = loc[t] /\ res'[t] = res[t]

\* HBI_open of t makes instance s a user of device d.
Registers(t, d, s) ==
  /\ pc[t] = "open_commit" /\ d = loc[t].dev /\ s = loc[t].slot
  /\ loc[t].id \in DeviceIds /\ ~inst_list[s].inuse
  /\ inst_list' = [inst_list EXCEPT ![s] = [pDev |-> d, inuse |-> TRUE]]
  /\ \A c \in DevSlots : /\ dev_list'[c].port = dev_list[c].port
                         /\ dev_list'[c].port_lock = dev_list[c].port_lock
                         /\ IdOf(c)' = IdOf(c)
                         /\ dev_list'[c].inuse = dev_list[c].inuse
  /\ UsersOf(d)' = UsersOf(d) \cup {s} /\ UsedInsts' = UsedInsts \cup {s}
  /\ s \notin UsedInsts /\ \A c \in DevSlots \ {d} : UsersOf(c)' = UsersOf(c)
  /\ owned' = [owned EXCEPT ![t] = @ \cup {[handle |-> s, id |-> loc[t].id]}]
  /\ UNCHANGED <<ssl_dev, dev_locks>>
  /\ Others(t) /\ pc'[t] = "idle" /\ loc'[t] = NoCall /\ res'[t] = "SUCCESS"

\* HBI_open has a new port, or failed to get one.
LEMMA OpenPortStep ==
  ASSUME IInv, NEW t \in Threads, OpenPort(t)
  PROVE  \/ Others(t) /\ Plain(t) /\ pc'[t] = "idle" /\ res'[t] = "INTERNAL_ERR"
         \/ \E d \in DevSlots, p \in DevSlots, id \in DeviceIds : TakesPort(t, d, p, id)
<1>1. pc[t] = "open_port" /\ loc[t].dev # NoDev /\ UNCHANGED <<dev_locks, owned, loaded>>
  BY DEF OpenPort, histVars
<1>2. CASE Return(t, "INTERNAL_ERR") /\ UNCHANGED <<drvVars, sslVars>>
  BY <1>1, <1>2, ReturnMoves DEF Plain, CritLabels, drvVars, sslVars
<1>3. CASE \E p \in First({q \in DevSlots : ssl_dev[q] = {}}, NoPort) :
             /\ p # NoPort
             /\ ssl_dev' = [ssl_dev EXCEPT ![p] = {loc[t].id}]
             /\ dev_list' = [dev_list EXCEPT
                  ![loc[t].dev].port = p,
                  ![loc[t].dev].deviceId = loc[t].id,
                  ![loc[t].dev].port_lock = IF DevLock THEN {loc[t].id} ELSE @,
                  ![loc[t].dev].inuse = TRUE]
             /\ Goto(t, "open_commit")
             /\ UNCHANGED <<inst_list, loc>>
  <2>1. PICK p : p \in DevSlots /\ ssl_dev[p] = {} /\ <1>3!1!(p)
    BY <1>3, FirstIn, Zenon
  <2>2. PICK d \in DevSlots, id \in DeviceIds : d = loc[t].dev /\ id = loc[t].id
                                                 /\ ~dev_list[d].inuse
    BY <1>1, Here DEF Placed, FoundStill, CallRec, OpenLabels
  <2>3. dev_list \in [DevSlots -> DevRec] /\ dev_list[d] \in DevRec
    BY <2>2 DEF IInv, TypeOK
  <2>4. dev_list' = [dev_list EXCEPT ![d].port = p, ![d].deviceId = id,
                       ![d].port_lock = IF DevLock THEN {id} ELSE @, ![d].inuse = TRUE]
    BY <2>1, <2>2
  <2>5. /\ dev_list'[d].inuse /\ dev_list'[d].port = p /\ IdOf(d)' = id
        /\ DevLock => dev_list'[d].port_lock = {id}
        /\ dev_list'[d].num_cur_instances = dev_list[d].num_cur_instances
        /\ \A c \in DevSlots \ {d} : dev_list'[c] = dev_list[c]
    BY <2>3, <2>4 DEF DevRec, IdOf
  <2>6. Others(t) /\ pc'[t] = "open_commit" /\ loc'[t] = loc[t] /\ res'[t] = res[t]
    BY <2>1, GotoMoves
  <2>7. TakesPort(t, d, p, id)
    BY <1>1, <2>1, <2>2, <2>5, <2>6, ZenonT(60) DEF TakesPort
  <2>8. QED
    BY <2>1, <2>2, <2>7, Zenon
<1>4. QED
  BY <1>2, <1>3, Zenon DEF OpenPort

\* HBI_open registers the user.
LEMMA OpenCommitStep ==
  ASSUME IInv, NEW t \in Threads, OpenCommit(t)
  PROVE  \E d \in DevSlots, s \in InstSlots : Registers(t, d, s)
<1>1. PICK d, s, n : d = loc[t].dev /\ s = loc[t].slot /\ n = dev_list[d].num_cur_instances
  OBVIOUS
<1>2. /\ pc[t] = "open_commit" /\ s # MaxInst
      /\ dev_list' = [dev_list EXCEPT ![d].instances[n] = s, ![d].num_cur_instances = n + 1]
      /\ inst_list' = [inst_list EXCEPT ![s] = [pDev |-> d, inuse |-> TRUE]]
      /\ owned' = [owned EXCEPT ![t] = @ \cup {[handle |-> s, id |-> loc[t].id]}]
      /\ Return(t, "SUCCESS") /\ UNCHANGED <<ssl_dev, dev_locks>>
  BY <1>1 DEF OpenCommit, sslVars
<1>3. /\ loc[t].id \in DeviceIds /\ d \in DevSlots /\ s \in InstSlots /\ ~inst_list[s].inuse
  <2>1. 0 \in InstSlots
    BY ConstantsOK DEF InstSlots, MaxInst
  <2>2. QED
    BY <1>1, <1>2, <2>1, Here DEF Placed, FoundStill, CallRec, OpenLabels
<1>4. dev_list \in [DevSlots -> DevRec] /\ inst_list \in [InstSlots -> InstRec]
  BY DEF IInv, TypeOK
<1>5. \A c \in DevSlots : /\ dev_list'[c].port = dev_list[c].port
                          /\ dev_list'[c].port_lock = dev_list[c].port_lock
                          /\ IdOf(c)' = IdOf(c) /\ dev_list'[c].inuse = dev_list[c].inuse
  BY <1>2, <1>4 DEF DevRec, IdOf
<1>6. \A r \in InstSlots :
        inst_list'[r] = IF r = s THEN [pDev |-> d, inuse |-> TRUE] ELSE inst_list[r]
  BY <1>2, <1>3, <1>4
<1>7. UsedInsts' = UsedInsts \cup {s} /\ s \notin UsedInsts
  BY <1>3, <1>6 DEF UsedInsts
<1>8. UsersOf(d)' = UsersOf(d) \cup {s} /\ \A c \in DevSlots \ {d} : UsersOf(c)' = UsersOf(c)
  BY <1>3, <1>6, <1>7 DEF UsersOf, UsedInsts
<1>9. Others(t) /\ pc'[t] = "idle" /\ loc'[t] = NoCall /\ res'[t] = "SUCCESS"
  BY <1>2, ReturnMoves
<1>10. Registers(t, d, s)
  BY <1>1, <1>2, <1>3, <1>5, <1>7, <1>8, <1>9, ZenonT(60) DEF Registers
<1>11. QED
  BY <1>3, <1>10, Zenon

\* HBI_close takes the lock.
LEMMA CloseLockStep ==
  ASSUME IInv, TableInv, NEW t \in Threads, CloseLock(t)
  PROVE  /\ Others(t) /\ UNCHANGED <<dev_list, inst_list, ssl_dev, owned, dev_locks>>
         /\ pc[t] = "close_lock" /\ pc'[t] \in {"close_port", "close_commit"}
         /\ Known(pc'[t], loc'[t]) /\ loc'[t].handle = loc[t].handle /\ res'[t] = res[t]
<1>1. PICK d : d = inst_list[loc[t].handle].pDev
  OBVIOUS
<1>2. /\ pc[t] = "close_lock" /\ CanLock /\ d # NoDev
      /\ loc' = [loc EXCEPT ![t].dev = d]
      /\ Goto(t, IF LastUser(d) THEN "close_port" ELSE "close_commit")
      /\ UNCHANGED <<dev_list, inst_list, ssl_dev, owned, dev_locks>>
  BY <1>1 DEF CloseLock, drvVars, sslVars, histVars
<1>3. \A u \in Threads : pc[u] \notin CritLabels
  BY <1>1, <1>2, LockIsFree
<1>4. loc[t].handle \in InstSlots /\ loc[t].op = "close"
  BY <1>2, Here DEF Placed
<1>5. /\ d \in DevSlots /\ loc[t].handle \in UsersOf(d)
      /\ dev_list[d].num_cur_instances = Cardinality(UsersOf(d))
  BY <1>1, <1>2, <1>4 DEF IInv, TypeOK, InstRec, EntriesOK, UsersOf, UsedInsts, CountsAgree
<1>6. /\ Others(t) /\ res'[t] = res[t]
      /\ pc'[t] = IF LastUser(d) THEN "close_port" ELSE "close_commit"
      /\ loc'[t].dev = d /\ loc'[t].handle = loc[t].handle
  BY <1>2, Here DEF Goto, Others, CallRec
<1>7. dev_list[d].inuse
  BY <1>3, <1>5 DEF TableInv, UsersPlaced, CritLabels
<1>8. ~LastUser(d) => dev_list[d].num_cur_instances > 1
  <2>1. Cardinality(UsersOf(d)) \in Nat /\ Cardinality(UsersOf(d)) # 0
    BY <1>5, CountedSets, FS_EmptySet
  <2>2. QED
    BY <1>5, <2>1 DEF LastUser
<1>9. QED
  BY <1>2, <1>6, <1>7, <1>8 DEF Known, LastUser

\* HBI_close of t, the last user of device d, gives its port p back.
GivesPort(t, d, p) ==
  /\ pc[t] = "close_port" /\ d = loc[t].dev /\ p = dev_list[d].port
  /\ loc[t].handle \in UsersOf(d)
  /\ dev_list[d].inuse /\ DevLockFree(d)
  /\ ssl_dev' = [ssl_dev EXCEPT ![p] = {}]
  /\ ~dev_list'[d].inuse /\ IdOf(d)' = IdOf(d)
  /\ dev_list'[d].num_cur_instances = dev_list[d].num_cur_instances
  /\ \A c \in DevSlots \ {d} : dev_list'[c] = dev_list[c]
  /\ UNCHANGED <<inst_list, owned, dev_locks>>
  /\ Others(t) /\ pc'[t] = "close_commit" /\ loc'[t] = loc[t] /\ res'[t] = res[t]

\* HBI_close has shut the port of the last user, or failed to.
LEMMA ClosePortStep ==
  ASSUME IInv, NEW t \in Threads, ClosePort(t)
  PROVE  \/ Others(t) /\ Plain(t) /\ pc'[t] = "idle" /\ res'[t] = "INTERNAL_ERR"
         \/ \E d \in DevSlots, p \in DevSlots : GivesPort(t, d, p)
<1>1. PICK d, p : d = loc[t].dev /\ p = dev_list[d].port
  OBVIOUS
<1>2. /\ pc[t] = "close_port" /\ DevLockFree(d)
      /\ UNCHANGED <<inst_list, owned, dev_locks>>
  BY <1>1 DEF ClosePort, histVars
<1>3. CASE Return(t, "INTERNAL_ERR") /\ UNCHANGED <<ssl_dev, dev_list>>
  BY <1>2, <1>3, ReturnMoves DEF Plain, CritLabels
<1>4. CASE /\ p # NoPort /\ ssl_dev' = [ssl_dev EXCEPT ![p] = {}]
           /\ dev_list' = [dev_list EXCEPT ![d] = ClosedEntry(@)]
           /\ Goto(t, "close_commit") /\ UNCHANGED loc
  <2>1. dev_list \in [DevSlots -> DevRec] /\ EntriesOK
    BY DEF IInv, TypeOK
  <2>2. d \in DevSlots /\ d # NoDev /\ inst_list[loc[t].handle].pDev = d
        /\ loc[t].handle \in InstSlots
    BY <1>1, <1>2, Here DEF Placed, FoundStill, CallRec
  <2>3. loc[t].handle \in UsersOf(d) /\ dev_list[d].inuse /\ p \in DevSlots
    BY <1>1, <1>4, <2>1, <2>2 DEF EntriesOK, UsersOf, UsedInsts, DevRec
  <2>4. /\ ~dev_list'[d].inuse /\ IdOf(d)' = IdOf(d)
        /\ dev_list'[d].num_cur_instances = dev_list[d].num_cur_instances
        /\ \A c \in DevSlots \ {d} : dev_list'[c] = dev_list[c]
    BY <1>4, <2>1, <2>2 DEF DevRec, IdOf, ClosedEntry
  <2>5. Others(t) /\ pc'[t] = "close_commit" /\ loc'[t] = loc[t] /\ res'[t] = res[t]
    BY <1>4, GotoMoves
  <2>6. GivesPort(t, d, p)
    BY <1>1, <1>2, <1>4, <2>2, <2>3, <2>4, <2>5, ZenonT(60) DEF GivesPort
  <2>7. QED
    BY <2>2, <2>3, <2>6, Zenon
<1>5. QED
  BY <1>1, <1>3, <1>4 DEF ClosePort

\* HBI_close takes the user off the tables.
LEMMA CloseCommitStep ==
  ASSUME IInv, NEW t \in Threads, CloseCommit(t)
  PROVE  \E d \in DevSlots, h \in InstSlots :
           /\ pc[t] = "close_commit" /\ d = loc[t].dev /\ h = loc[t].handle
           /\ h \in UsersOf(d)
           /\ inst_list' = [inst_list EXCEPT ![h] = FreeInst]
           /\ \A c \in DevSlots : /\ dev_list'[c].port = dev_list[c].port
                                  /\ dev_list'[c].port_lock = dev_list[c].port_lock
                                  /\ IdOf(c)' = IdOf(c)
                                  /\ dev_list'[c].inuse = dev_list[c].inuse
           /\ UsersOf(d)' = UsersOf(d) \ {h} /\ UsedInsts' = UsedInsts \ {h}
           /\ \A c \in DevSlots \ {d} : UsersOf(c)' = UsersOf(c)
           /\ owned' = [u \in Threads |-> {g \in owned[u] : g.handle # h}]
           /\ UNCHANGED <<ssl_dev, dev_locks>>
           /\ Others(t) /\ pc'[t] = "term_check" /\ loc'[t].op = "close" /\ res'[t] = res[t]
<1>1. PICK d, h, n : d = loc[t].dev /\ h = loc[t].handle /\ n = dev_list[d].num_cur_instances
  OBVIOUS
<1>2. PICK entry :
        dev_list' = [dev_list EXCEPT
          ![d].instances = [i \in DOMAIN @ |-> IF i \in entry THEN InvalidId ELSE @[i]],
          ![d].num_cur_instances = Decr(n)]
  BY <1>1, ZenonT(60) DEF CloseCommit
<1>3. /\ pc[t] = "close_commit" /\ inst_list' = [inst_list EXCEPT ![h] = FreeInst]
      /\ owned' = [u \in Threads |-> {g \in owned[u] : g.handle # h}]
      /\ Goto(t, "term_check") /\ loc' = [loc EXCEPT ![t].dev = NoDev]
      /\ UNCHANGED <<ssl_dev, dev_locks>>
  BY <1>1 DEF CloseCommit, ClosedInst, sslVars
<1>4. /\ h \in InstSlots /\ d \in DevSlots /\ d # NoDev /\ inst_list[h].pDev = d
      /\ loc[t].op = "close"
  BY <1>1, <1>3, Here DEF Placed, FoundStill, CallRec
<1>5. /\ dev_list \in [DevSlots -> DevRec] /\ inst_list \in [InstSlots -> InstRec]
      /\ h \in UsersOf(d)
  BY <1>4 DEF IInv, TypeOK, EntriesOK, UsersOf, UsedInsts
<1>6. \A c \in DevSlots : /\ dev_list'[c].port = dev_list[c].port
                          /\ dev_list'[c].port_lock = dev_list[c].port_lock
                          /\ IdOf(c)' = IdOf(c) /\ dev_list'[c].inuse = dev_list[c].inuse
  BY <1>2, <1>5 DEF DevRec, IdOf
<1>7. \A r \in InstSlots : inst_list'[r] = IF r = h THEN FreeInst ELSE inst_list[r]
  BY <1>3, <1>4, <1>5
<1>8. UsedInsts' = UsedInsts \ {h}
  BY <1>4, <1>7 DEF UsedInsts, FreeInst
<1>9. UsersOf(d)' = UsersOf(d) \ {h} /\ \A c \in DevSlots \ {d} : UsersOf(c)' = UsersOf(c)
  BY <1>4, <1>5, <1>7, <1>8 DEF UsersOf, UsedInsts
<1>10. Others(t) /\ pc'[t] = "term_check" /\ loc'[t].op = "close" /\ res'[t] = res[t]
  BY <1>3, <1>4, Here DEF Goto, Others, CallRec
<1>11. QED
  BY <1>1, <1>3, <1>4, <1>5, <1>6, <1>8, <1>9, <1>10

\* HBI_init sets up the tables of a driver that is down: they were empty already.
LEMMA InitSetupDoes ==
  ASSUME IInv, NEW t \in Threads, InitSetup(t)
  PROVE  /\ Others(t) /\ pc'[t] \in {"idle", "open_check"}
         /\ res'[t] \in {"SUCCESS", "INTERNAL_ERR"} \/ res'[t] = res[t]
         /\ pc[t] = "init_setup" /\ \A u \in Threads \ {t} : pc[u] = "idle"
         /\ UsedInsts = {} /\ UsedDevs = {} /\ UsedInsts' = {} /\ UsedDevs' = {}
         /\ \A d : UsersOf(d)' = {}
         /\ UNCHANGED <<owned, dev_locks>>
<1>1. /\ pc[t] = "init_setup" /\ UNCHANGED <<owned, dev_locks>>
      /\ dev_list' = [d \in DevSlots |-> ClosedDev] /\ inst_list' = [s \in InstSlots |-> FreeInst]
      /\ AfterInit(t, "SUCCESS") \/ AfterInit(t, "INTERNAL_ERR")
  BY DEF InitSetup, lockVars
<1>2. (loc[t].op = "init" \/ Sole) /\ ~bInitialized
  BY <1>1, Here DEF Placed, Stands
<1>3. UsedInsts = {} /\ UsedDevs = {} /\ \A u \in Threads \ {t} : pc[u] = "idle"
  <2>1. UsedInsts = {} /\ UsedDevs = {}
    BY <1>2 DEF IInv, InitCovers, UpLocked, Up
  <2>2. CASE loc[t].op = "init"
    BY <2>1, <2>2, Here DEF Exclusive
  <2>3. CASE Sole
    BY <2>1, <2>3 DEF Sole
  <2>4. QED
    BY <1>2, <2>2, <2>3
<1>4. /\ Others(t) /\ pc'[t] \in {"idle", "open_check"}
      /\ res'[t] \in {"SUCCESS", "INTERNAL_ERR"} \/ res'[t] = res[t]
  BY <1>1, ReturnMoves, GotoMoves DEF AfterInit
<1>5. UsedInsts' = {} /\ UsedDevs' = {} /\ \A d : UsersOf(d)' = {}
  BY <1>1 DEF UsedInsts, UsedDevs, UsersOf, FreeInst, ClosedDev
<1>6. QED
  BY <1>1, <1>3, <1>4, <1>5

\* A transfer starts, with its device's lock held, or SSL_port_rw refuses the port.
LEMMA UseBeginDoes ==
  ASSUME IInv, NEW t \in Threads, UseBegin(t)
  PROVE  /\ Others(t) /\ UNCHANGED <<dev_list, inst_list, ssl_dev, owned>> /\ pc[t] = "use_begin"
         /\ \/ Plain(t) /\ pc'[t] = "idle" /\ res'[t] = "INTERNAL_ERR"
            \/ \E d, p \in DevSlots :
                 /\ pc'[t] = "use_end" /\ res'[t] = res[t] /\ DevLockFree(d) /\ HoldDevLock(d, t)
                 /\ p = dev_list[d].port
                 /\ loc'[t].dev = d /\ loc'[t].port = p /\ loc'[t].client = ssl_dev[p]
                 /\ ssl_dev[p] # {} /\ loc'[t].op = "use"
<1>1. PICK d, p : d = loc[t].dev /\ p = dev_list[d].port
  OBVIOUS
<1>2. /\ pc[t] = "use_begin" /\ d # NoDev /\ DevLockFree(d)
      /\ UNCHANGED <<dev_list, inst_list, ssl_dev, owned>>
  BY <1>1 DEF UseBegin, drvVars, sslVars, histVars
<1>3. CASE Return(t, "INTERNAL_ERR") /\ UNCHANGED dev_locks
  BY <1>2, <1>3, ReturnMoves DEF Plain, CritLabels
<1>4. CASE /\ p # NoPort /\ ssl_dev[p] # {} /\ HoldDevLock(d, t) /\ Goto(t, "use_end")
           /\ loc' = [loc EXCEPT ![t].port = p, ![t].client = ssl_dev[p]]
  <2>1. d \in DevSlots /\ loc[t].op = "use"
    BY <1>1, <1>2, Here DEF Placed, CallRec
  <2>2. p \in DevSlots
    BY <1>1, <1>4, <2>1 DEF IInv, TypeOK, DevRec
  <2>3. /\ Others(t) /\ pc'[t] = "use_end" /\ res'[t] = res[t]
        /\ loc'[t].dev = d /\ loc'[t].port = p /\ loc'[t].client = ssl_dev[p]
        /\ loc'[t].op = "use"
    BY <1>1, <1>4, <2>1, Here DEF Goto, Others, CallRec
  <2>4. ssl_dev[p] # {} /\ HoldDevLock(d, t)
    BY <1>4, Zenon
  <2>5. QED
    BY <1>1, <1>2, <2>1, <2>2, <2>3, <2>4
<1>5. QED
  BY <1>1, <1>2, <1>3, <1>4 DEF UseBegin

LEMMA UseEndDoes ==
  ASSUME IInv, NEW t \in Threads, UseEnd(t)
  PROVE  /\ Others(t) /\ UNCHANGED <<dev_list, inst_list, ssl_dev, owned>> /\ pc[t] = "use_end"
         /\ pc'[t] = "idle" /\ loc'[t] = NoCall /\ HoldDevLock(loc[t].dev, NoThread)
         /\ res'[t] \in {"SUCCESS", "INTERNAL_ERR"}
BY ReturnMoves DEF UseEnd, drvVars, sslVars, histVars

\* No thread dies in HBI_open: it holds a free slot and a free entry when it needs them.
LEMMA FaultDoes ==
  ASSUME IInv, TableInv, NEW t \in Threads, Fault(t)
  PROVE  /\ Others(t) /\ UNCHANGED <<dev_list, inst_list, ssl_dev, owned, dev_locks>>
         /\ pc[t] \in {"close_lock", "use_begin"} /\ pc'[t] = "dead" /\ loc'[t] = loc[t]
         /\ loc[t].op # "open" /\ res'[t] = res[t]
         /\ pc[t] = "close_lock" => inst_list[loc[t].handle].pDev = NoDev
<1>1. /\ Goto(t, "dead") /\ UNCHANGED <<dev_list, inst_list, ssl_dev, owned, dev_locks, loc>>
      /\ AtFault(t)
  BY DEF Fault, drvVars, sslVars, histVars
<1>2. Known(pc[t], loc[t]) /\ FoundStill(pc[t], loc[t])
  BY Here DEF TableInv, AllKnown
<1>3. ~(pc[t] = "open_commit" /\ dev_list[loc[t].dev].num_cur_instances >= MaxInstPerDev)
  <2>1. SUFFICES ASSUME pc[t] = "open_commit"
                 PROVE  ~(dev_list[loc[t].dev].num_cur_instances >= MaxInstPerDev)
    OBVIOUS
  <2>2. loc[t].dev \in DevSlots
    BY <1>2, <2>1, Here DEF FoundStill, CallRec
  <2>3. dev_list[loc[t].dev].num_cur_instances \in 0 .. MaxInstPerDev
    BY <2>2 DEF IInv, TypeOK, DevRec
  <2>4. QED
    BY <1>2, <2>1, <2>3, ConstantsOK DEF Known
<1>4. pc[t] # "open_commit" /\ pc[t] # "open_port"
  BY <1>1, <1>2, <1>3 DEF AtFault, Known
<1>5. pc[t] \in {"close_lock", "use_begin"} /\ loc[t].op # "open"
      /\ (pc[t] = "close_lock" => inst_list[loc[t].handle].pDev = NoDev)
  BY <1>1, <1>4, Here DEF AtFault, Placed
<1>6. QED
  BY <1>1, <1>5, GotoMoves

-----------------------------------------------------------------------------
(* TableInv *)

\* The tables stay, and one thread moves that was not about to commit.
LEMMA MoverKeeps ==
  ASSUME IInv, TableInv, NEW t \in Threads, Others(t),
         UNCHANGED <<dev_list, inst_list, ssl_dev>>,
         pc[t] \notin {"open_commit", "close_commit"}, Known(pc'[t], loc'[t])
  PROVE  TableInv'
<1>1. UsedInsts' = UsedInsts /\ UsedDevs' = UsedDevs /\ (\A d : UsersOf(d)' = UsersOf(d))
      /\ \A d : IdOf(d)' = IdOf(d)
  BY DEF UsedInsts, UsedDevs, UsersOf, IdOf
<1>2. PortsRight' /\ IdsDiffer'
  BY <1>1 DEF TableInv, PortsRight, IdsDiffer
<1>3. UsersPlaced'
  <2>1. ASSUME NEW u \in Threads, pc[u] \in {"open_commit", "close_commit"}
        PROVE  pc'[u] = pc[u] /\ loc'[u] = loc[u]
    BY <2>1 DEF Others
  <2>2. QED
    BY <1>1, <2>1 DEF TableInv, UsersPlaced
<1>4. ASSUME NEW u \in Threads
      PROVE  Known(pc[u], loc[u])'
  <2>1. Known(pc'[u], loc'[u])
    BY DEF Others, TableInv, AllKnown
  <2>2. QED
    BY <1>1, <2>1 DEF Known, NotOpen
<1>5. QED
  BY <1>2, <1>3, <1>4 DEF TableInv, AllKnown

LEMMA PlainKeeps ==
  ASSUME IInv, TableInv, NEW t \in Threads, Others(t), Plain(t)
  PROVE  TableInv'
<1>1. Known(pc'[t], loc'[t])
  BY DEF Plain, Known, CritLabels
<1>2. QED
  BY <1>1, MoverKeeps DEF Plain

\* The other threads know nothing of the tables while one is in the locked stretch.
LEMMA InsideKnown ==
  ASSUME IInv, TableInv, NEW t \in Threads, Others(t), pc[t] \in CritLabels,
         Known(pc[t], loc[t])'
  PROVE  /\ AllKnown'
         /\ \A u \in Threads \ {t} : pc[u] \notin CritLabels /\ pc'[u] \notin CritLabels
<1>1. \A u \in Threads \ {t} : pc[u] \notin CritLabels
  BY Inside
<1>2. ASSUME NEW u \in Threads \ {t}
      PROVE  Known(pc[u], loc[u])'
  <2>1. pc'[u] = pc[u] /\ loc'[u] = loc[u] /\ Known(pc[u], loc[u])
    BY DEF Others, TableInv, AllKnown
  <2>2. QED
    BY <1>1, <2>1 DEF Known, CritLabels
<1>3. QED
  BY <1>1, <1>2 DEF AllKnown, Others

LEMMA OpenPortTables ==
  ASSUME IInv, TableInv, NEW t \in Threads, OpenPort(t)
  PROVE  TableInv'
<1>1. CASE Others(t) /\ Plain(t)
  BY <1>1, PlainKeeps
<1>2. ASSUME NEW d \in DevSlots, NEW p \in DevSlots, NEW id \in DeviceIds,
             TakesPort(t, d, p, id)
      PROVE  TableInv'
  <2>0. /\ pc[t] = "open_port" /\ d = loc[t].dev /\ id = loc[t].id
        /\ ~dev_list[d].inuse /\ ssl_dev[p] = {}
        /\ ssl_dev' = [ssl_dev EXCEPT ![p] = {id}]
        /\ dev_list'[d].inuse /\ dev_list'[d].port = p /\ IdOf(d)' = id
        /\ DevLock => dev_list'[d].port_lock = {id}
        /\ dev_list'[d].num_cur_instances = dev_list[d].num_cur_instances
        /\ \A c \in DevSlots \ {d} : dev_list'[c] = dev_list[c]
        /\ UNCHANGED <<inst_list, owned, dev_locks>>
        /\ Others(t) /\ pc'[t] = "open_commit" /\ loc'[t] = loc[t]
    BY <1>2, Zenon DEF TakesPort
  <2>1. NotOpen(id) /\ loc[t].slot # MaxInst /\ d # NoDev
    BY <2>0 DEF TableInv, AllKnown, Known
  <2>2. UsedDevs' = UsedDevs \cup {d} /\ d \notin UsedDevs /\ UsedDevs \subseteq DevSlots
    BY <2>0 DEF UsedDevs
  <2>3. UsedInsts' = UsedInsts /\ \A c : UsersOf(c)' = UsersOf(c)
    BY <2>0 DEF UsedInsts, UsersOf
  <2>4. \A c \in UsedDevs : dev_list'[c] = dev_list[c] /\ IdOf(c)' = IdOf(c) /\ IdOf(c) # id
    BY <2>0, <2>1, <2>2 DEF IdOf, NotOpen
  <2>5. PortsRight'
    <3>1. \A q \in DevSlots : ssl_dev'[q] = IF q = p THEN {id} ELSE ssl_dev[q]
      BY <2>0 DEF IInv, TypeOK
    <3>2. ASSUME NEW c \in UsedDevs
          PROVE  /\ IdOf(c)' \in DeviceIds /\ ssl_dev'[dev_list'[c].port] = {IdOf(c)'}
                 /\ DevLock => dev_list'[c].port_lock = {IdOf(c)'}
      <4>1. dev_list[c].port \in DevSlots
        BY <2>2 DEF UsedDevs, IInv, TypeOK, DevRec, EntriesOK
      <4>2. /\ IdOf(c) \in DeviceIds /\ ssl_dev[dev_list[c].port] = {IdOf(c)}
            /\ DevLock => dev_list[c].port_lock = {IdOf(c)}
        BY DEF TableInv, PortsRight
      <4>3. QED
        BY <2>0, <2>4, <3>1, <4>1, <4>2
    <3>3. QED
      BY <2>0, <2>2, <3>1, <3>2 DEF PortsRight
  <2>6. IdsDiffer'
    BY <2>0, <2>2, <2>4 DEF TableInv, IdsDiffer
  <2>7. \A c \in DevSlots \ {d} : dev_list'[c].inuse = dev_list[c].inuse
    BY <2>0
  <2>8. UsersPlaced'
    <3>1. \A u \in Threads : pc[u] \notin {"open_commit", "close_commit"}
      BY <2>0, Inside DEF CritLabels
    <3>2. \A c \in DevSlots \ {d} :
            (dev_list'[c].inuse => UsersOf(c)' # {}) /\ (~dev_list'[c].inuse => UsersOf(c)' = {})
      BY <2>3, <2>7, <3>1 DEF TableInv, UsersPlaced
    <3>3. QED
      BY <2>0, <3>2 DEF UsersPlaced
  <2>9. Known(pc[t], loc[t])'
    <3>1. dev_list[d].num_cur_instances < MaxInstPerDev
      <4>1. UsersOf(d) = {}
        BY <2>0, Inside DEF TableInv, UsersPlaced, CritLabels
      <4>2. dev_list[d].num_cur_instances = 0
        BY <4>1, FS_EmptySet DEF IInv, CountsAgree
      <4>3. QED
        BY <4>2, ConstantsOK
    <3>2. QED
      BY <2>0, <2>1, <3>1 DEF Known
  <2>10. AllKnown'
    BY <2>0, <2>9, InsideKnown DEF CritLabels
  <2>11. QED
    BY <2>5, <2>6, <2>8, <2>10 DEF TableInv
<1>3. QED
  BY <1>1, <1>2, OpenPortStep, Zenon

\* The devices keep their ids, ports and locks.
LEMMA SameDevices ==
  ASSUME IInv, TableInv, UNCHANGED ssl_dev,
         \A c \in DevSlots : /\ dev_list'[c].port = dev_list[c].port
                             /\ dev_list'[c].port_lock = dev_list[c].port_lock
                             /\ IdOf(c)' = IdOf(c) /\ dev_list'[c].inuse = dev_list[c].inuse
  PROVE  UsedDevs' = UsedDevs /\ PortsRight' /\ IdsDiffer'
<1>1. UsedDevs' = UsedDevs /\ UsedDevs \subseteq DevSlots
  BY DEF UsedDevs
<1>2. QED
  BY <1>1 DEF TableInv, PortsRight, IdsDiffer

LEMMA OpenCommitTables ==
  ASSUME IInv, TableInv, NEW t \in Threads, OpenCommit(t)
  PROVE  TableInv'
<1>1. PICK d \in DevSlots, s \in InstSlots :
           /\ pc[t] = "open_commit" /\ d = loc[t].dev
           /\ \A c \in DevSlots : /\ dev_list'[c].port = dev_list[c].port
                                  /\ dev_list'[c].port_lock = dev_list[c].port_lock
                                  /\ IdOf(c)' = IdOf(c)
                                  /\ dev_list'[c].inuse = dev_list[c].inuse
           /\ UsersOf(d)' = UsersOf(d) \cup {s}
           /\ \A c \in DevSlots \ {d} : UsersOf(c)' = UsersOf(c)
           /\ UNCHANGED ssl_dev
           /\ Others(t) /\ pc'[t] = "idle" /\ loc'[t] = NoCall
  <2>1. PICK d \in DevSlots, s \in InstSlots : Registers(t, d, s)
    BY OpenCommitStep, Zenon
  <2>2. QED
    BY <2>1, ZenonT(60) DEF Registers
<1>2. PortsRight' /\ IdsDiffer'
  BY <1>1, SameDevices
<1>3. Known(pc[t], loc[t])' /\ dev_list[d].inuse
  BY <1>1 DEF Known, TableInv, AllKnown
<1>4. AllKnown' /\ \A u \in Threads \ {t} : pc[u] \notin CritLabels
  BY <1>1, <1>3, InsideKnown DEF CritLabels
<1>5. UsersPlaced'
  <2>1. \A c \in DevSlots \ {d} :
          (dev_list[c].inuse => UsersOf(c) # {}) /\ (~dev_list[c].inuse => UsersOf(c) = {})
    BY <1>1, <1>4 DEF TableInv, UsersPlaced, CritLabels
  <2>2. QED
    BY <1>1, <1>3, <2>1 DEF UsersPlaced
<1>6. QED
  BY <1>2, <1>4, <1>5 DEF TableInv

LEMMA CloseLockTables ==
  ASSUME IInv, TableInv, NEW t \in Threads, CloseLock(t)
  PROVE  TableInv'
BY CloseLockStep, MoverKeeps

LEMMA ClosePortTables ==
  ASSUME IInv, TableInv, NEW t \in Threads, ClosePort(t)
  PROVE  TableInv'
<1>1. CASE Others(t) /\ Plain(t)
  BY <1>1, PlainKeeps
<1>2. ASSUME NEW d \in DevSlots, NEW p \in DevSlots, GivesPort(t, d, p)
      PROVE  TableInv'
  <2>0. /\ pc[t] = "close_port" /\ d = loc[t].dev /\ p = dev_list[d].port
        /\ loc[t].handle \in UsersOf(d) /\ dev_list[d].inuse
        /\ ssl_dev' = [ssl_dev EXCEPT ![p] = {}]
        /\ ~dev_list'[d].inuse /\ IdOf(d)' = IdOf(d)
        /\ dev_list'[d].num_cur_instances = dev_list[d].num_cur_instances
        /\ \A c \in DevSlots \ {d} : dev_list'[c] = dev_list[c]
        /\ UNCHANGED <<inst_list, owned, dev_locks>>
        /\ Others(t) /\ pc'[t] = "close_commit" /\ loc'[t] = loc[t]
    BY <1>2, Zenon DEF GivesPort
  <2>1. UsedDevs' = UsedDevs \ {d} /\ d \in UsedDevs /\ UsedDevs \subseteq DevSlots
    BY <2>0 DEF UsedDevs
  <2>2. UsedInsts' = UsedInsts /\ \A c : UsersOf(c)' = UsersOf(c)
    BY <2>0 DEF UsedInsts, UsersOf
  <2>3. \A c \in UsedDevs' : dev_list'[c] = dev_list[c] /\ IdOf(c)' = IdOf(c) /\ IdOf(c) # IdOf(d)
    BY <2>0, <2>1 DEF IdOf, TableInv, IdsDiffer
  <2>4. PortsRight'
    <3>1. ASSUME NEW c \in UsedDevs'
          PROVE  /\ IdOf(c)' \in DeviceIds /\ ssl_dev'[dev_list'[c].port] = {IdOf(c)'}
                 /\ DevLock => dev_list'[c].port_lock = {IdOf(c)'}
      <4>1. dev_list[c].port \in DevSlots /\ dev_list[c].port # p
        BY <2>0, <2>1 DEF UsedDevs, IInv, TypeOK, DevRec, EntriesOK
      <4>2. /\ IdOf(c) \in DeviceIds /\ ssl_dev[dev_list[c].port] = {IdOf(c)}
            /\ DevLock => dev_list[c].port_lock = {IdOf(c)}
        BY <2>1 DEF TableInv, PortsRight
      <4>3. ssl_dev'[dev_list[c].port] = ssl_dev[dev_list[c].port]
        BY <2>0, <4>1 DEF IInv, TypeOK
      <4>4. QED
        BY <2>3, <4>2, <4>3
    <3>2. QED
      BY <3>1 DEF PortsRight
  <2>5. IdsDiffer'
    BY <2>1, <2>3 DEF TableInv, IdsDiffer
  <2>6. \A c \in DevSlots \ {d} : dev_list'[c].inuse = dev_list[c].inuse
    BY <2>0
  <2>7. UsersPlaced'
    <3>1. \A u \in Threads : pc[u] \notin {"open_commit", "close_commit"}
      BY <2>0, Inside DEF CritLabels
    <3>2. \A c \in DevSlots \ {d} :
            (dev_list'[c].inuse => UsersOf(c)' # {}) /\ (~dev_list'[c].inuse => UsersOf(c)' = {})
      BY <2>2, <2>6, <3>1 DEF TableInv, UsersPlaced
    <3>3. QED
      BY <2>0, <3>2 DEF UsersPlaced
  <2>8. Known(pc[t], loc[t])'
    <3>1. dev_list[d].num_cur_instances = 1
      BY <2>0 DEF TableInv, AllKnown, Known
    <3>2. \A c \in UsedDevs' : IdOf(c)' # IdOf(d)'
      BY <2>0, <2>3
    <3>3. QED
      BY <2>0, <3>1, <3>2 DEF Known, NotOpen
  <2>9. AllKnown'
    BY <2>0, <2>8, InsideKnown DEF CritLabels
  <2>10. QED
    BY <2>4, <2>5, <2>7, <2>9 DEF TableInv
<1>3. QED
  BY <1>1, <1>2, ClosePortStep, Zenon

LEMMA CloseCommitTables ==
  ASSUME IInv, TableInv, NEW t \in Threads, CloseCommit(t)
  PROVE  TableInv'
<1>1. PICK d \in DevSlots, h \in InstSlots :
           /\ pc[t] = "close_commit" /\ d = loc[t].dev /\ h \in UsersOf(d)
           /\ \A c \in DevSlots : /\ dev_list'[c].port = dev_list[c].port
                                  /\ dev_list'[c].port_lock = dev_list[c].port_lock
                                  /\ IdOf(c)' = IdOf(c)
                                  /\ dev_list'[c].inuse = dev_list[c].inuse
           /\ UsersOf(d)' = UsersOf(d) \ {h}
           /\ \A c \in DevSlots \ {d} : UsersOf(c)' = UsersOf(c)
           /\ UNCHANGED ssl_dev
           /\ Others(t) /\ pc'[t] = "term_check"
  BY CloseCommitStep
<1>2. PortsRight' /\ IdsDiffer'
  BY <1>1, SameDevices
<1>3. Known(pc[t], loc[t])'
  BY <1>1 DEF Known
<1>4. AllKnown' /\ \A u \in Threads \ {t} : pc[u] \notin CritLabels
  BY <1>1, <1>3, InsideKnown DEF CritLabels
<1>5. IF dev_list[d].inuse THEN UsersOf(d) # {h} ELSE UsersOf(d) = {h}
  <2>1. IF dev_list[d].inuse THEN Cardinality(UsersOf(d)) > 1 ELSE Cardinality(UsersOf(d)) = 1
    BY <1>1 DEF TableInv, AllKnown, Known, IInv, CountsAgree
  <2>2. Cardinality({h}) = 1
    BY FS_Singleton
  <2>3. Cardinality(UsersOf(d)) = 1 => UsersOf(d) = {h}
    BY <1>1, CountedSets, FS_Singleton
  <2>4. QED
    BY <2>1, <2>2, <2>3
<1>6. UsersPlaced'
  <2>1. \A c \in DevSlots \ {d} :
          (dev_list[c].inuse => UsersOf(c) # {}) /\ (~dev_list[c].inuse => UsersOf(c) = {})
    BY <1>1, <1>4 DEF TableInv, UsersPlaced, CritLabels
  <2>2. (dev_list[d].inuse => UsersOf(d)' # {}) /\ (~dev_list[d].inuse => UsersOf(d)' = {})
    BY <1>1, <1>5
  <2>3. QED
    BY <1>1, <2>1, <2>2 DEF UsersPlaced
<1>7. QED
  BY <1>2, <1>4, <1>6 DEF TableInv

LEMMA InitSetupTables ==
  ASSUME IInv, TableInv, NEW t \in Threads, InitSetup(t)
  PROVE  TableInv'
<1>1. /\ Others(t) /\ pc'[t] \in {"idle", "open_check"} /\ \A u \in Threads \ {t} : pc[u] = "idle"
      /\ UsedDevs' = {} /\ \A d : UsersOf(d)' = {}
  BY InitSetupDoes
<1>2. PortsRight' /\ IdsDiffer'
  BY <1>1 DEF PortsRight, IdsDiffer
<1>3. UsersPlaced'
  BY <1>1 DEF UsersPlaced, UsedDevs
<1>4. AllKnown'
  BY <1>1 DEF AllKnown, Known, Others
<1>5. QED
  BY <1>2, <1>3, <1>4 DEF TableInv

LEMMA StepTables ==
  ASSUME IInv, TableInv, NEW t \in Threads, Call(t) \/ Step(t)
  PROVE  TableInv'
<1>1. CASE \/ Call(t) \/ InitCount(t) \/ OpenCheck(t) \/ TermCheck(t) \/ TermLock(t)
           \/ TermFinal(t) \/ UseFetch(t)
  BY <1>1, PlainSteps, PlainKeeps
<1>2. CASE OpenLock(t)
  BY <1>2, OpenLockDoes, MoverKeeps
<1>3. CASE UseBegin(t)
  <2>1. /\ Others(t) /\ UNCHANGED <<dev_list, inst_list, ssl_dev>>
        /\ pc[t] = "use_begin" /\ pc'[t] \in {"idle", "use_end"}
    BY <1>3, UseBeginDoes
  <2>2. QED
    BY <2>1, MoverKeeps DEF Known
<1>4. CASE UseEnd(t)
  BY <1>4, UseEndDoes, MoverKeeps DEF Known
<1>5. CASE Fault(t)
  BY <1>5, FaultDoes, MoverKeeps DEF Known
<1>6. QED
  BY <1>1, <1>2, <1>3, <1>4, <1>5, OpenPortTables, OpenCommitTables, CloseLockTables,
     ClosePortTables, CloseCommitTables, InitSetupTables DEF Step

LEMMA TableInit ==
  ASSUME Init
  PROVE  TableInv
<1>1. UsedDevs = {} /\ \A d : UsersOf(d) = {}
  BY DEF Init, UsedDevs, UsersOf, UsedInsts, FreeInst, ClosedDev
<1>2. PortsRight /\ IdsDiffer
  BY <1>1 DEF PortsRight, IdsDiffer
<1>3. UsersPlaced
  BY <1>1 DEF UsersPlaced, UsedDevs
<1>4. AllKnown
  BY DEF Init, AllKnown, Known
<1>5. QED
  BY <1>2, <1>3, <1>4 DEF TableInv

LEMMA Stays ==
  ASSUME UNCHANGED vars
  PROVE  UNCHANGED <<dev_list, inst_list, ssl_dev, dev_locks, pc, loc, res, owned>>
BY DEF vars, drvVars, sslVars, lockVars, histVars

LEMMA TableStutter ==
  ASSUME TableInv, UNCHANGED vars
  PROVE  TableInv'
<1>1. UNCHANGED <<dev_list, inst_list, ssl_dev, pc, loc>>
  BY Stays
<1>2. UsedDevs' = UsedDevs /\ (\A d : UsersOf(d)' = UsersOf(d)) /\ \A d : IdOf(d)' = IdOf(d)
  BY <1>1 DEF UsedDevs, UsersOf, UsedInsts, IdOf
<1>3. PortsRight' /\ IdsDiffer'
  BY <1>1, <1>2 DEF TableInv, PortsRight, IdsDiffer
<1>4. UsersPlaced'
  BY <1>1, <1>2 DEF TableInv, UsersPlaced
<1>5. AllKnown'
  BY <1>1, <1>2 DEF TableInv, AllKnown, Known, NotOpen
<1>6. QED
  BY <1>3, <1>4, <1>5 DEF TableInv

\* Every open device of hbi_priv.dev_list has an id of its own, a port that talks to it and
\* users, except while the one HBI_open or HBI_close that holds the lock is half way.
THEOREM TableInductive == Locked => (Spec => []TableInv)
<1> SUFFICES ASSUME Locked PROVE Spec => []TableInv
  OBVIOUS
<1>1. Init => TableInv
  BY TableInit
<1>2. IInv /\ TableInv /\ [Next]_vars => TableInv'
  BY StepTables, TableStutter DEF Next
<1>3. QED
  BY <1>1, <1>2, Inductive, PTL DEF Spec

\* HBI_open tests the number of users before it takes the lock and so may let in too many,
\* but never writes past hbi_priv.inst_list or a device's list of users: the devices that have
\* room for a user leave a slot free.
THEOREM NeverOverruns == Locked => (Spec => []NoOverrun)
<1>1. TableInv => NoOverrun
  BY DEF TableInv, AllKnown, Known, NoOverrun
<1>2. QED
  BY <1>1, TableInductive, PTL

-----------------------------------------------------------------------------
(* Transfers, when each device has a lock *)

\* A step that leaves what a transfer knows of device d.
Leaves(d) ==
  /\ dev_list'[d].port = dev_list[d].port /\ dev_list'[d].inuse = dev_list[d].inuse
  /\ dev_list'[d].deviceId = IdOf(d) /\ ssl_dev'[dev_list[d].port] = ssl_dev[dev_list[d].port]
  /\ dev_locks'[IdOf(d)] = dev_locks[IdOf(d)]

\* A step that leaves the devices of the other transfers under way.
LEMMA TransfersStay ==
  ASSUME IInv, TransfersHold, DevLock, NEW t \in Threads, Others(t), pc'[t] # "use_end",
         \A u \in Threads \ {t} : pc[u] = "use_end" => Leaves(loc[u].dev)
  PROVE  TransfersHold'
<1>1. SUFFICES ASSUME NEW u \in Threads, pc'[u] = "use_end"
               PROVE  Transfers(u)'
  BY DEF TransfersHold
<1>2. u # t /\ pc[u] = "use_end" /\ loc'[u] = loc[u] /\ Transfers(u)
  BY <1>1 DEF Others, TransfersHold
<1>3. PICK d : d = loc[u].dev
  OBVIOUS
<1>4. Leaves(d)
  BY <1>2, <1>3
<1>5. /\ d # NoDev /\ dev_list[d].inuse /\ loc[u].port = dev_list[d].port
      /\ loc[u].client = ssl_dev[loc[u].port] /\ dev_locks[IdOf(d)] = u
  BY <1>2, <1>3 DEF Transfers
<1>6. loc'[u].dev = d
  BY <1>2, <1>3
<1>7. QED
  BY <1>2, <1>4, <1>5, <1>6 DEF Transfers, Leaves, IdOf

\* What a transfer under way knows of its device.
LEMMA AtTransfer ==
  ASSUME IInv, TableInv, TransfersHold, DevLock, NEW u \in Threads, pc[u] = "use_end",
         NEW d, d = loc[u].dev
  PROVE  /\ d \in UsedDevs /\ d \in DevSlots /\ dev_list[d].port \in DevSlots
         /\ loc[u].port = dev_list[d].port /\ loc[u].client = ssl_dev[loc[u].port]
         /\ IdOf(d) \in DeviceIds /\ ssl_dev[dev_list[d].port] = {IdOf(d)}
         /\ dev_list[d].port_lock = {IdOf(d)} /\ dev_locks[IdOf(d)] = u /\ u # NoThread
<1>1. /\ d # NoDev /\ dev_list[d].inuse
      /\ loc[u].port = dev_list[d].port /\ loc[u].client = ssl_dev[loc[u].port]
      /\ dev_locks[IdOf(d)] = u
  BY DEF TransfersHold, Transfers
<1>2. d \in DevSlots /\ d \in UsedDevs
  BY <1>1, Here DEF CallRec, UsedDevs
<1>3. dev_list[d].port \in DevSlots
  BY <1>1, <1>2 DEF IInv, TypeOK, DevRec, EntriesOK
<1>4. QED
  BY <1>1, <1>2, <1>3, ConstantsOK DEF TableInv, PortsRight

LEMMA UseBeginTransfers ==
  ASSUME IInv, TableInv, TransfersHold, DevLock, NEW t \in Threads, UseBegin(t)
  PROVE  TransfersHold'
<1>1. /\ Others(t) /\ UNCHANGED <<dev_list, ssl_dev>>
      /\ \A d : IdOf(d)' = IdOf(d)
  BY UseBeginDoes DEF IdOf
<1>2. CASE Plain(t) /\ pc'[t] = "idle"
  <2>1. UNCHANGED dev_locks /\ pc'[t] # "use_end"
    BY <1>2 DEF Plain
  <2>2. \A u \in Threads \ {t} : Leaves(loc[u].dev)
    BY <1>1, <2>1 DEF Leaves, IdOf
  <2>3. QED
    BY <1>1, <2>1, <2>2, TransfersStay
<1>3. ASSUME NEW d \in DevSlots, NEW p \in DevSlots,
             /\ pc'[t] = "use_end" /\ DevLockFree(d) /\ HoldDevLock(d, t)
             /\ p = dev_list[d].port
             /\ loc'[t].dev = d /\ loc'[t].port = p /\ loc'[t].client = ssl_dev[p]
      PROVE  TransfersHold'
  <2>1. d \in UsedDevs /\ dev_list[d].inuse /\ d # NoDev
    BY <1>3, SlotFacts DEF IInv, EntriesOK, UsedDevs
  <2>2. /\ IdOf(d) \in DeviceIds /\ dev_list[d].port_lock = {IdOf(d)}
        /\ dev_locks[IdOf(d)] = NoThread
    BY <1>3, <2>1 DEF TableInv, PortsRight, DevLockFree
  <2>3. dev_locks' = [i \in DeviceIds |-> IF i = IdOf(d) THEN t ELSE dev_locks[i]]
    BY <1>3, <2>2 DEF HoldDevLock
  <2>4. Transfers(t)'
    BY <1>1, <1>3, <2>1, <2>2, <2>3 DEF Transfers
  <2>5. ASSUME NEW u \in Threads \ {t}, pc'[u] = "use_end"
        PROVE  Transfers(u)'
    <3>1. pc[u] = "use_end" /\ loc'[u] = loc[u] /\ Transfers(u)
      BY <1>1, <2>5 DEF Others, TransfersHold
    <3>2. PICK e : e = loc[u].dev
      OBVIOUS
    <3>3. /\ IdOf(e) \in DeviceIds /\ dev_locks[IdOf(e)] = u /\ u # NoThread
      BY <3>1, <3>2, AtTransfer
    <3>4. dev_locks'[IdOf(e)] = u
      BY <2>2, <2>3, <3>3
    <3>5. QED
      BY <1>1, <3>1, <3>2, <3>4 DEF Transfers
  <2>6. QED
    BY <2>4, <2>5 DEF TransfersHold
<1>4. QED
  BY <1>2, <1>3, UseBeginDoes

LEMMA UseEndTransfers ==
  ASSUME IInv, TableInv, TransfersHold, DevLock, NEW t \in Threads, UseEnd(t)
  PROVE  TransfersHold'
<1>1. /\ Others(t) /\ UNCHANGED <<dev_list, ssl_dev>> /\ pc[t] = "use_end" /\ pc'[t] = "idle"
      /\ HoldDevLock(loc[t].dev, NoThread) /\ \A d : IdOf(d)' = IdOf(d)
  BY UseEndDoes DEF IdOf
<1>2. PICK d : d = loc[t].dev
  OBVIOUS
<1>3. dev_list[d].port_lock = {IdOf(d)} /\ dev_locks[IdOf(d)] = t
  BY <1>1, <1>2, AtTransfer
<1>4. dev_locks' = [i \in DeviceIds |-> IF i = IdOf(d) THEN NoThread ELSE dev_locks[i]]
  BY <1>1, <1>2, <1>3 DEF HoldDevLock
<1>5. ASSUME NEW u \in Threads, pc[u] = "use_end", u # t, NEW e, e = loc[u].dev
      PROVE  Leaves(e)
  <2>1. IdOf(e) \in DeviceIds /\ dev_locks[IdOf(e)] = u
    BY <1>5, AtTransfer
  <2>2. QED
    BY <1>1, <1>3, <1>4, <1>5, <2>1 DEF Leaves, IdOf
<1>6. QED
  BY <1>1, <1>5, TransfersStay

\* A step that changes entry d and port p alone, while no transfer is on either.
OnlyPort(t, d, p, client) ==
  /\ UNCHANGED dev_locks /\ Others(t) /\ pc'[t] # "use_end"
  /\ \A c \in DevSlots \ {d} : dev_list'[c] = dev_list[c]
  /\ ssl_dev' = [ssl_dev EXCEPT ![p] = client]
  /\ \A u \in Threads : pc[u] = "use_end" => loc[u].dev # d /\ dev_list[loc[u].dev].port # p

LEMMA StepTransfers ==
  ASSUME IInv, TableInv, TransfersHold, DevLock, NEW t \in Threads, Call(t) \/ Step(t)
  PROVE  TransfersHold'
<1> DEFINE Still == UNCHANGED <<dev_list, ssl_dev, dev_locks>>
<1>1. ASSUME Still, Others(t), pc'[t] # "use_end"
      PROVE  TransfersHold'
  <2>1. \A d : Leaves(d)
    BY <1>1 DEF IdOf, Leaves
  <2>2. QED
    BY <1>1, <2>1, TransfersStay
<1>2. ASSUME Others(t), Plain(t)
      PROVE  TransfersHold'
  BY <1>1, <1>2 DEF Plain
<1>3. CASE \/ Call(t) \/ InitCount(t) \/ OpenCheck(t) \/ TermCheck(t) \/ TermLock(t)
           \/ TermFinal(t) \/ UseFetch(t)
  BY <1>2, <1>3, PlainSteps
<1>4. CASE OpenLock(t)
  BY <1>1, <1>4, OpenLockDoes
<1>5. CASE CloseLock(t)
  BY <1>1, <1>5, CloseLockStep
<1>6. CASE Fault(t)
  BY <1>1, <1>6, FaultDoes
<1>7. CASE InitSetup(t)
  <2>1. \A u \in Threads : pc'[u] \in {"idle", "open_check"}
    BY <1>7, InitSetupDoes DEF Others
  <2>2. QED
    BY <2>1 DEF TransfersHold
<1>8. ASSUME UNCHANGED <<ssl_dev, dev_locks>>, Others(t), pc'[t] # "use_end",
             \A c \in DevSlots : /\ dev_list'[c].port = dev_list[c].port
                                 /\ IdOf(c)' = IdOf(c) /\ dev_list'[c].inuse = dev_list[c].inuse
      PROVE  TransfersHold'
  <2>1. ASSUME NEW u \in Threads, pc[u] = "use_end"
        PROVE  Leaves(loc[u].dev)
    BY <1>8, <2>1, AtTransfer DEF Leaves, IdOf
  <2>2. QED
    BY <1>8, <2>1, TransfersStay
<1>9. CASE OpenCommit(t)
  <2>1. PICK d \in DevSlots, s \in InstSlots : Registers(t, d, s)
    BY <1>9, OpenCommitStep, Zenon
  <2>2. UNCHANGED <<ssl_dev, dev_locks>> /\ Others(t) /\ pc'[t] = "idle"
    BY <2>1 DEF Registers
  <2>3. \A c \in DevSlots : /\ dev_list'[c].port = dev_list[c].port
                            /\ IdOf(c)' = IdOf(c) /\ dev_list'[c].inuse = dev_list[c].inuse
    BY <2>1, Zenon DEF Registers
  <2>4. QED
    BY <1>8, <2>2, <2>3
<1>10. CASE CloseCommit(t)
  BY <1>8, <1>10, CloseCommitStep
<1>11. ASSUME NEW d \in DevSlots, NEW p \in DevSlots, NEW client, OnlyPort(t, d, p, client)
       PROVE  TransfersHold'
  <2>1. /\ UNCHANGED dev_locks /\ Others(t) /\ pc'[t] # "use_end"
        /\ \A c \in DevSlots \ {d} : dev_list'[c] = dev_list[c]
        /\ ssl_dev' = [ssl_dev EXCEPT ![p] = client]
        /\ \A u \in Threads : pc[u] = "use_end" =>
              loc[u].dev # d /\ dev_list[loc[u].dev].port # p
    BY <1>11, Zenon DEF OnlyPort
  <2>2. ASSUME NEW u \in Threads, pc[u] = "use_end", NEW e, e = loc[u].dev
        PROVE  Leaves(e)
    <3>1. e \in DevSlots \ {d} /\ dev_list[e].port # p
      BY <2>1, <2>2, AtTransfer
    <3>2. QED
      BY <2>1, <3>1 DEF IInv, TypeOK, IdOf, Leaves
  <2>3. QED
    BY <2>1, <2>2, TransfersStay
<1>12. CASE OpenPort(t)
  <2>1. ASSUME NEW d \in DevSlots, NEW p \in DevSlots, ~dev_list[d].inuse, ssl_dev[p] = {},
               NEW u \in Threads, pc[u] = "use_end"
        PROVE  loc[u].dev # d /\ dev_list[loc[u].dev].port # p
    BY <2>1, AtTransfer DEF UsedDevs
  <2>2. ASSUME NEW d \in DevSlots, NEW p \in DevSlots, NEW id \in DeviceIds,
               TakesPort(t, d, p, id)
        PROVE  TransfersHold'
    <3>1. /\ ~dev_list[d].inuse /\ ssl_dev[p] = {} /\ UNCHANGED dev_locks /\ Others(t)
          /\ pc'[t] = "open_commit" /\ ssl_dev' = [ssl_dev EXCEPT ![p] = {id}]
          /\ \A c \in DevSlots \ {d} : dev_list'[c] = dev_list[c]
      BY <2>2, Zenon DEF TakesPort
    <3>2. pc'[t] # "use_end"
      BY <3>1
    <3>3. OnlyPort(t, d, p, {id})
      BY <2>1, <3>1, <3>2, ZenonT(60) DEF OnlyPort
    <3>4. QED
      BY <1>11, <3>3, Zenon
  <2>3. QED
    BY <1>2, <1>12, <2>2, OpenPortStep, Zenon
<1>13. CASE ClosePort(t)
  <2>1. ASSUME NEW d \in DevSlots, dev_list[d].inuse, DevLockFree(d),
               NEW u \in Threads, pc[u] = "use_end"
        PROVE  loc[u].dev # d /\ dev_list[loc[u].dev].port # dev_list[d].port
    <3>1. PICK e : e = loc[u].dev
      OBVIOUS
    <3>2. /\ e \in DevSlots /\ e \in UsedDevs /\ u # NoThread
          /\ dev_list[e].port_lock = {IdOf(e)} /\ dev_locks[IdOf(e)] = u
      BY <2>1, <3>1, AtTransfer
    <3>3. e # d
      BY <2>1, <3>2 DEF DevLockFree
    <3>4. QED
      BY <2>1, <3>1, <3>2, <3>3 DEF UsedDevs, IInv, EntriesOK
  <2>2. ASSUME NEW d \in DevSlots, NEW p \in DevSlots, GivesPort(t, d, p)
        PROVE  TransfersHold'
    <3>1. /\ dev_list[d].inuse /\ DevLockFree(d) /\ p = dev_list[d].port
          /\ UNCHANGED dev_locks /\ Others(t) /\ pc'[t] = "close_commit"
          /\ ssl_dev' = [ssl_dev EXCEPT ![p] = {}]
          /\ \A c \in DevSlots \ {d} : dev_list'[c] = dev_list[c]
      BY <2>2, Zenon DEF GivesPort
    <3>2. pc'[t] # "use_end"
      BY <3>1
    <3>3. OnlyPort(t, d, p, {})
      BY <2>1, <3>1, <3>2, ZenonT(60) DEF OnlyPort
    <3>4. QED
      BY <1>11, <3>3, Zenon
  <2>3. QED
    BY <1>2, <1>13, <2>2, ClosePortStep, Zenon
<1>14. QED
  BY <1>3, <1>4, <1>5, <1>6, <1>7, <1>9, <1>10, <1>12, <1>13, UseBeginTransfers,
     UseEndTransfers DEF Step

\* A transfer holds its device's lock until it ends, so that the device, its port and the
\* chip behind the port stay those HBI_read or HBI_write looked up before it had the lock.
THEOREM TransfersInductive == Locked => (Spec => []TransfersHold)
<1> SUFFICES ASSUME Locked PROVE Spec => []TransfersHold
  OBVIOUS
<1>1. Init => TransfersHold
  BY DEF Init, TransfersHold
<1>2. IInv /\ TableInv /\ TransfersHold /\ [Next]_vars => TransfersHold'
  <2>1. SUFFICES ASSUME IInv, TableInv, TransfersHold, [Next]_vars
                 PROVE  TransfersHold'
    OBVIOUS
  <2>2. CASE ~DevLock
    BY <2>2 DEF TransfersHold
  <2>3. CASE DevLock /\ Next
    BY <2>1, <2>3, StepTransfers DEF Next
  <2>4. CASE UNCHANGED vars
    <3>1. UNCHANGED <<dev_list, ssl_dev, dev_locks, pc, loc>> /\ \A d : IdOf(d)' = IdOf(d)
      BY <2>4, Stays DEF IdOf
    <3>2. QED
      BY <2>1, <3>1 DEF TransfersHold, Transfers
  <2>5. QED
    BY <2>1, <2>2, <2>3, <2>4
<1>3. QED
  BY <1>1, <1>2, Inductive, TableInductive, PTL DEF Spec

\* While a transfer is on the bus no HBI_close shuts its port, even through another handle:
\* it waits for the device's lock.
THEOREM TransfersSafe == Locked /\ DevLock => (Spec => []TransferKeepsPort)
<1> SUFFICES ASSUME Locked, DevLock PROVE Spec => []TransferKeepsPort
  OBVIOUS
<1>1. IInv /\ TableInv /\ TransfersHold => TransferKeepsPort
  <2>1. SUFFICES ASSUME IInv, TableInv, TransfersHold, NEW t \in Threads, pc[t] = "use_end"
                 PROVE  loc[t].client # {} /\ ssl_dev[loc[t].port] = loc[t].client
    BY DEF TransferKeepsPort
  <2>2. QED
    BY <2>1, AtTransfer
<1>2. QED
  BY <1>1, Inductive, TableInductive, TransfersInductive, PTL

-----------------------------------------------------------------------------
(* Handles and their owners, when each thread uses and closes only its own *)

Closing == {"close_lock", "close_port", "close_commit"}

\* The entries in use keep their device, and the devices with users keep their id.
SameUsers ==
  \A s \in UsedInsts : /\ inst_list'[s] = inst_list[s]
                       /\ dev_list'[inst_list[s].pDev].deviceId = IdOf(inst_list[s].pDev)

LEMMA OwnersStay ==
  ASSUME IInv, OwnersRight, NEW t \in Threads, Others(t), UNCHANGED owned, SameUsers,
         pc'[t] \in Closing => \E g \in owned[t] : g.handle = loc'[t].handle
  PROVE  OwnersRight'
<1>1. ASSUME NEW u \in Threads, NEW g \in owned[u]
      PROVE  /\ inst_list'[g.handle].inuse
             /\ dev_list'[inst_list'[g.handle].pDev].deviceId = g.id
  <2>1. g.handle \in InstSlots
    BY DEF IInv, TypeOK
  <2>2. g.handle \in UsedInsts /\ IdOf(inst_list[g.handle].pDev) = g.id
    BY <2>1 DEF OwnersRight, UsedInsts
  <2>3. QED
    BY <2>2 DEF SameUsers, UsedInsts
<1>2. ASSUME NEW u \in Threads
      PROVE  ClosesOwn(u)'
  BY DEF OwnersRight, ClosesOwn, Others, Closing
<1>3. QED
  BY <1>1, <1>2 DEF OwnersRight, IdOf

LEMMA TablesStay ==
  ASSUME IInv, OwnersRight, NEW t \in Threads, Others(t),
         UNCHANGED <<owned, dev_list, inst_list>>,
         pc'[t] \in Closing => \E g \in owned[t] : g.handle = loc'[t].handle
  PROVE  OwnersRight'
<1>1. SameUsers
  BY DEF SameUsers, IdOf
<1>2. QED
  BY <1>1, OwnersStay

\* A thread comes to HBI_close with one of its own handles.
LEMMA CallsOwn ==
  ASSUME IInv, ~Shared, NEW t \in Threads,
         \/ Call(t) \/ InitCount(t) \/ OpenCheck(t) \/ TermCheck(t) \/ TermLock(t)
         \/ TermFinal(t) \/ UseFetch(t),
         pc'[t] \in Closing
  PROVE  \E g \in owned[t] : g.handle = loc'[t].handle
<1>1. ASSUME NEW h \in HandlesOf(t), CallHandle(t, h, "close", "close_lock")
      PROVE  \E g \in owned[t] : g.handle = loc'[t].handle
  <2>1. \E g \in owned[t] : g.handle = h
    BY DEF HandlesOf
  <2>2. CheckHandle(h) = "SUCCESS"
    BY <1>1, ReturnMoves DEF CallHandle, Closing
  <2>3. loc'[t].handle = h
    <3>1. loc' = [loc EXCEPT ![t] = [NoCall EXCEPT !.op = "close", !.handle = h]]
      BY <1>1, <2>2 DEF CallHandle, Start
    <3>2. QED
      BY <3>1, Here DEF NoCall
  <2>4. QED
    BY <2>1, <2>3
<1>2. CASE CallClose(t)
  BY <1>1, <1>2 DEF CallClose
<1>3. CASE CallUse(t)
  BY <1>3, StartMoves, ReturnMoves DEF CallUse, CallHandle, Closing
<1>4. CASE CallInit(t) \/ CallTerm(t) \/ \E id \in DeviceIds : CallOpen(t, id)
  <2>1. CASE CallInit(t)
    BY <2>1, StartMoves DEF CallInit, InitLabel, Closing
  <2>2. CASE CallTerm(t)
    BY <2>2, StartMoves DEF CallTerm, Closing
  <2>3. ASSUME NEW id \in DeviceIds, CallOpen(t, id) PROVE FALSE
    <3>1. pc'[t] = InitLabel
      BY <2>3, StartMoves, Zenon DEF CallOpen
    <3>2. InitLabel \notin Closing
      BY DEF InitLabel, Closing
    <3>3. QED
      BY <3>1, <3>2, Zenon
  <2>4. QED
    BY <1>4, <2>1, <2>2, <2>3, Zenon
<1>5. CASE InitCount(t) \/ OpenCheck(t) \/ TermCheck(t) \/ TermLock(t) \/ TermFinal(t)
  BY <1>5, GotoMoves, ReturnMoves
     DEF InitCount, AfterInit, OpenCheck, TermCheck, TermLock, TermFinal, Closing
<1>6. CASE UseFetch(t)
  BY <1>6, Here DEF UseFetch, Goto, Closing
<1>7. QED
  BY <1>2, <1>3, <1>4, <1>5, <1>6 DEF Call

LEMMA OpenPortOwners ==
  ASSUME IInv, TableInv, OwnersRight, NEW t \in Threads, OpenPort(t)
  PROVE  OwnersRight'
<1>1. CASE Others(t) /\ Plain(t) /\ pc'[t] = "idle"
  BY <1>1, TablesStay DEF Plain, Closing
<1>2. ASSUME NEW d \in DevSlots,
             /\ pc[t] = "open_port" /\ ~dev_list[d].inuse
             /\ \A c \in DevSlots \ {d} : dev_list'[c] = dev_list[c]
             /\ UNCHANGED <<inst_list, owned>> /\ Others(t) /\ pc'[t] = "open_commit"
      PROVE  OwnersRight'
  <2>1. UsersOf(d) = {}
    BY <1>2, Inside DEF TableInv, UsersPlaced, CritLabels
  <2>2. SameUsers
    <3>1. SUFFICES ASSUME NEW s \in UsedInsts
                   PROVE  dev_list'[inst_list[s].pDev].deviceId = IdOf(inst_list[s].pDev)
      BY <1>2 DEF SameUsers
    <3>2. inst_list[s].pDev \in DevSlots
      BY DEF UsedInsts, IInv, TypeOK, InstRec, EntriesOK
    <3>3. inst_list[s].pDev # d
      BY <2>1 DEF UsersOf
    <3>4. QED
      BY <1>2, <3>2, <3>3 DEF IdOf
  <2>3. QED
    BY <1>2, <2>2, OwnersStay DEF Closing
<1>3. ASSUME NEW d \in DevSlots, NEW p \in DevSlots, NEW id \in DeviceIds,
             TakesPort(t, d, p, id)
      PROVE  OwnersRight'
  <2>1. /\ pc[t] = "open_port" /\ ~dev_list[d].inuse
        /\ \A c \in DevSlots \ {d} : dev_list'[c] = dev_list[c]
        /\ UNCHANGED <<inst_list, owned>> /\ Others(t) /\ pc'[t] = "open_commit"
    BY <1>3, Zenon DEF TakesPort
  <2>2. QED
    BY <1>2, <2>1, Zenon
<1>4. QED
  BY <1>1, <1>3, OpenPortStep, Zenon

LEMMA OpenCommitOwners ==
  ASSUME IInv, TableInv, OwnersRight, NEW t \in Threads, OpenCommit(t)
  PROVE  OwnersRight'
<1>1. PICK d, s, i :
           /\ d \in DevSlots /\ s \in InstSlots
           /\ pc[t] = "open_commit" /\ d = loc[t].dev /\ i = loc[t].id
           /\ inst_list' = [inst_list EXCEPT ![s] = [pDev |-> d, inuse |-> TRUE]]
           /\ \A c \in DevSlots : IdOf(c)' = IdOf(c)
           /\ s \notin UsedInsts
           /\ owned' = [owned EXCEPT ![t] = @ \cup {[handle |-> s, id |-> i]}]
           /\ Others(t) /\ pc'[t] = "idle"
  <2>1. PICK d \in DevSlots, s \in InstSlots : Registers(t, d, s)
    BY OpenCommitStep, Zenon
  <2>2. QED
    BY <2>1, ZenonT(60) DEF Registers
<1>2. IdOf(d) = i
  BY <1>1 DEF TableInv, AllKnown, Known
<1>3. \A r \in InstSlots :
        inst_list'[r] = IF r = s THEN [pDev |-> d, inuse |-> TRUE] ELSE inst_list[r]
  BY <1>1 DEF IInv, TypeOK
<1>4. \A u \in Threads :
        owned'[u] = IF u = t THEN owned[u] \cup {[handle |-> s, id |-> i]} ELSE owned[u]
  BY <1>1 DEF IInv, TypeOK
<1>5. ASSUME NEW u \in Threads, NEW g \in owned[u]
      PROVE  /\ inst_list'[g.handle].inuse /\ g.handle # s
             /\ dev_list'[inst_list'[g.handle].pDev].deviceId = g.id
             /\ \A v \in Threads : \A f \in owned[v] : f.handle = g.handle => f = g /\ v = u
  <2>1. g.handle \in InstSlots
    BY DEF IInv, TypeOK
  <2>2. g.handle \in UsedInsts /\ IdOf(inst_list[g.handle].pDev) = g.id
    BY <2>1 DEF OwnersRight, UsedInsts
  <2>3. g.handle # s /\ inst_list'[g.handle] = inst_list[g.handle]
    BY <1>1, <1>3, <2>1, <2>2
  <2>4. inst_list[g.handle].pDev \in DevSlots
    BY <2>2 DEF UsedInsts, IInv, TypeOK, InstRec, EntriesOK
  <2>5. dev_list'[inst_list[g.handle].pDev].deviceId = IdOf(inst_list[g.handle].pDev)
    BY <1>1, <2>4 DEF IdOf
  <2>6. QED
    BY <2>2, <2>3, <2>5 DEF OwnersRight, UsedInsts
<1>6. /\ inst_list'[s].inuse /\ dev_list'[inst_list'[s].pDev].deviceId = i
  BY <1>1, <1>2, <1>3 DEF IdOf
<1>7. ASSUME NEW u \in Threads, NEW g \in owned'[u]
      PROVE  /\ inst_list'[g.handle].inuse
             /\ dev_list'[inst_list'[g.handle].pDev].deviceId = g.id
             /\ \A v \in Threads : \A f \in owned'[v] : f.handle = g.handle => f = g /\ v = u
  <2>1. ASSUME NEW v \in Threads, NEW f \in owned'[v]
        PROVE  f \in owned[v] \/ (v = t /\ f.handle = s /\ f.id = i /\ f = [handle |-> s, id |-> i])
    <3>1. f \in owned[v] \/ (v = t /\ f = [handle |-> s, id |-> i])
      BY <1>4
    <3>2. QED
      BY <3>1
  <2>2. QED
    BY <1>5, <1>6, <2>1
<1>8. ASSUME NEW u \in Threads
      PROVE  ClosesOwn(u)'
  BY <1>1, <1>4 DEF OwnersRight, ClosesOwn, Others
<1>9. QED
  BY <1>7, <1>8 DEF OwnersRight, IdOf

LEMMA CloseCommitOwners ==
  ASSUME IInv, TableInv, OwnersRight, NEW t \in Threads, CloseCommit(t)
  PROVE  OwnersRight'
<1>1. PICK h \in InstSlots :
           /\ pc[t] = "close_commit" /\ h = loc[t].handle
           /\ inst_list' = [inst_list EXCEPT ![h] = FreeInst]
           /\ \A c \in DevSlots : IdOf(c)' = IdOf(c)
           /\ owned' = [u \in Threads |-> {g \in owned[u] : g.handle # h}]
           /\ Others(t) /\ pc'[t] = "term_check"
  BY CloseCommitStep
<1>2. ASSUME NEW u \in Threads, NEW g \in owned'[u]
      PROVE  /\ inst_list'[g.handle].inuse
             /\ dev_list'[inst_list'[g.handle].pDev].deviceId = g.id
             /\ \A v \in Threads : \A f \in owned'[v] : f.handle = g.handle => f = g /\ v = u
  <2>1. g \in owned[u] /\ g.handle # h
    BY <1>1
  <2>2. g.handle \in InstSlots
    BY <2>1 DEF IInv, TypeOK
  <2>3. /\ g.handle \in UsedInsts /\ IdOf(inst_list[g.handle].pDev) = g.id
        /\ \A v \in Threads : \A f \in owned[v] : f.handle = g.handle => f = g /\ v = u
    BY <2>1, <2>2 DEF OwnersRight, UsedInsts
  <2>4. inst_list'[g.handle] = inst_list[g.handle]
    BY <1>1, <2>1, <2>2 DEF IInv, TypeOK
  <2>5. inst_list[g.handle].pDev \in DevSlots
    BY <2>3 DEF UsedInsts, IInv, TypeOK, InstRec, EntriesOK
  <2>6. dev_list'[inst_list[g.handle].pDev].deviceId = IdOf(inst_list[g.handle].pDev)
    BY <1>1, <2>5 DEF IdOf
  <2>7. QED
    BY <1>1, <2>3, <2>4, <2>6 DEF UsedInsts
<1>3. PICK own \in owned[t] : own.handle = h
  BY <1>1 DEF OwnersRight, ClosesOwn
<1>4. ASSUME NEW u \in Threads
      PROVE  ClosesOwn(u)'
  <2>1. CASE u = t
    BY <1>1, <2>1 DEF ClosesOwn
  <2>2. CASE u # t /\ pc[u] \in Closing
    <3>1. PICK g \in owned[u] : g.handle = loc[u].handle
      BY <2>2 DEF OwnersRight, ClosesOwn, Closing
    <3>2. g.handle # h
      BY <1>3, <2>2, <3>1 DEF OwnersRight
    <3>3. g \in owned'[u] /\ loc'[u] = loc[u]
      BY <1>1, <2>2, <3>1, <3>2 DEF Others
    <3>4. QED
      BY <3>1, <3>3 DEF ClosesOwn
  <2>3. QED
    BY <1>1, <2>1, <2>2 DEF ClosesOwn, Others, Closing
<1>5. QED
  BY <1>2, <1>4 DEF OwnersRight, IdOf

LEMMA StepOwners ==
  ASSUME IInv, TableInv, OwnersRight, ~Shared, NEW t \in Threads, Call(t) \/ Step(t)
  PROVE  OwnersRight'
<1>1. CASE \/ Call(t) \/ InitCount(t) \/ OpenCheck(t) \/ TermCheck(t) \/ TermLock(t)
           \/ TermFinal(t) \/ UseFetch(t)
  BY <1>1, PlainSteps, CallsOwn, TablesStay DEF Plain
<1>2. CASE OpenLock(t) \/ UseBegin(t) \/ UseEnd(t) \/ Fault(t)
  BY <1>2, OpenLockDoes, UseBeginDoes, UseEndDoes, FaultDoes, TablesStay DEF Closing
<1>3. ASSUME pc[t] \in Closing
      PROVE  \E g \in owned[t] : g.handle = loc[t].handle
  BY <1>3 DEF OwnersRight, ClosesOwn, Closing
<1>4. CASE CloseLock(t)
  BY <1>3, <1>4, CloseLockStep, TablesStay DEF Closing
<1>5. CASE ClosePort(t)
  <2>1. CASE Others(t) /\ Plain(t) /\ pc'[t] = "idle"
    BY <2>1, TablesStay DEF Plain, Closing
  <2>2. ASSUME NEW d \in DevSlots,
               /\ pc[t] = "close_port" /\ IdOf(d)' = IdOf(d)
               /\ \A c \in DevSlots \ {d} : dev_list'[c] = dev_list[c]
               /\ UNCHANGED <<inst_list, owned>> /\ Others(t) /\ loc'[t] = loc[t]
        PROVE  OwnersRight'
    <3>1. \A s \in UsedInsts : inst_list[s].pDev \in DevSlots
      BY DEF UsedInsts, IInv, TypeOK, InstRec, EntriesOK
    <3>2. SameUsers
      BY <2>2, <3>1 DEF SameUsers, IdOf
    <3>3. QED
      BY <1>3, <2>2, <3>2, OwnersStay DEF Closing
  <2>3. ASSUME NEW d \in DevSlots, NEW p \in DevSlots, GivesPort(t, d, p)
        PROVE  OwnersRight'
    <3>1. /\ pc[t] = "close_port" /\ IdOf(d)' = IdOf(d)
          /\ \A c \in DevSlots \ {d} : dev_list'[c] = dev_list[c]
          /\ UNCHANGED <<inst_list, owned>> /\ Others(t) /\ loc'[t] = loc[t]
      BY <2>3, Zenon DEF GivesPort
    <3>2. QED
      BY <2>2, <2>3, <3>1, Zenon
  <2>4. QED
    BY <1>5, <2>1, <2>3, ClosePortStep, Zenon
<1>6. CASE InitSetup(t)
  <2>1. UNCHANGED owned /\ UsedInsts = {} /\ \A u \in Threads : pc'[u] \in {"idle", "open_check"}
    BY <1>6, InitSetupDoes DEF Others
  <2>2. \A u \in Threads : owned[u] = {}
    <3>1. SUFFICES ASSUME NEW u \in Threads, NEW g \in owned[u] PROVE FALSE
      OBVIOUS
    <3>2. g.handle \in UsedInsts
      BY DEF OwnersRight, UsedInsts, IInv, TypeOK
    <3>3. QED
      BY <2>1, <3>2
  <2>3. QED
    BY <2>1, <2>2 DEF OwnersRight, ClosesOwn
<1>7. QED
  BY <1>1, <1>2, <1>4, <1>5, <1>6, OpenPortOwners, OpenCommitOwners, CloseCommitOwners DEF Step

\* A handle HBI_open gave out stands for the device it was asked for, and for nobody else,
\* until its own HBI_close takes it off the tables.
THEOREM OwnersInductive == Locked /\ ~Shared => (Spec => []OwnersRight)
<1> SUFFICES ASSUME Locked, ~Shared PROVE Spec => []OwnersRight
  OBVIOUS
<1>1. Init => OwnersRight
  BY DEF Init, OwnersRight, ClosesOwn
<1>2. IInv /\ TableInv /\ OwnersRight /\ [Next]_vars => OwnersRight'
  <2>1. SUFFICES ASSUME IInv, TableInv, OwnersRight, UNCHANGED vars
                 PROVE  OwnersRight'
    BY StepOwners DEF Next
  <2>2. UNCHANGED <<dev_list, inst_list, pc, loc, owned>>
    BY <2>1, Stays
  <2>3. QED
    BY <2>1, <2>2 DEF OwnersRight, ClosesOwn, IdOf
<1>3. QED
  BY <1>1, <1>2, Inductive, TableInductive, PTL DEF Spec

\* A handle keeps its device, and a port open to it, until its own HBI_close has shut the port:
\* neither HBI_open nor HBI_close of another thread takes the slot, the device or the port.
THEOREM HandlesSafe == Locked /\ ~Shared => (Spec => []HandleKeepsDevice)
<1> SUFFICES ASSUME Locked, ~Shared PROVE Spec => []HandleKeepsDevice
  OBVIOUS
<1>1. IInv /\ TableInv /\ OwnersRight => HandleKeepsDevice
  <2>1. SUFFICES ASSUME IInv, TableInv, OwnersRight, NEW t \in Threads, NEW g \in owned[t],
                        NEW i, i = inst_list[g.handle]
                 PROVE  /\ i.inuse /\ i.pDev # NoDev /\ dev_list[i.pDev].deviceId = g.id
                        /\ \/ /\ dev_list[i.pDev].port # NoPort
                              /\ ssl_dev[dev_list[i.pDev].port] = {g.id}
                           \/ pc[t] = "close_commit" /\ loc[t].handle = g.handle
                        /\ \A u \in Threads : \A f \in owned[u] :
                             f.handle = g.handle => f = g /\ u = t
    BY DEF HandleKeepsDevice
  <2>2. PICK d : d = i.pDev
    OBVIOUS
  <2>3. g.handle \in InstSlots
    BY <2>1 DEF IInv, TypeOK
  <2>4. /\ i.inuse /\ IdOf(d) = g.id
        /\ \A u \in Threads : \A f \in owned[u] : f.handle = g.handle => f = g /\ u = t
    BY <2>1, <2>2 DEF OwnersRight
  <2>5. d \in DevSlots /\ d # NoDev /\ g.handle \in UsersOf(d)
    BY <2>1, <2>2, <2>3, <2>4 DEF IInv, TypeOK, InstRec, EntriesOK, UsersOf, UsedInsts
  <2>6. CASE dev_list[d].inuse
    BY <2>1, <2>2, <2>4, <2>5, <2>6 DEF IInv, EntriesOK, TableInv, PortsRight, UsedDevs, IdOf
  <2>7. CASE ~dev_list[d].inuse
    <3>1. PICK u \in Threads : pc[u] = "close_commit" /\ loc[u].dev = d
      BY <2>1, <2>5, <2>7 DEF TableInv, UsersPlaced
    <3>2. /\ loc[u].handle \in InstSlots /\ inst_list[loc[u].handle].pDev = d
          /\ dev_list[d].num_cur_instances = 1
      BY <2>1, <2>7, <3>1, Here DEF Placed, FoundStill, TableInv, AllKnown, Known
    <3>3. loc[u].handle \in UsersOf(d) /\ Cardinality(UsersOf(d)) = 1
      BY <2>1, <2>5, <3>2 DEF IInv, EntriesOK, CountsAgree, UsersOf, UsedInsts
    <3>4. loc[u].handle = g.handle
      <4>1. \E x : UsersOf(d) = {x}
        BY <3>3, CountedSets, FS_Singleton
      <4>2. QED
        BY <2>5, <3>3, <4>1
    <3>5. u = t
      BY <2>1, <2>4, <3>1, <3>4 DEF OwnersRight, ClosesOwn
    <3>6. QED
      BY <2>2, <2>4, <2>5, <3>1, <3>4, <3>5 DEF IdOf
  <2>8. QED
    BY <2>6, <2>7
<1>2. QED
  BY <1>1, Inductive, TableInductive, OwnersInductive, PTL

-----------------------------------------------------------------------------
(* What calls return to the owners of handles *)

Refusals == {"NOT_INIT", "BAD_HANDLE", "INVALID_STATE"}

\* A handle in use passes CHK_IF_INITED and CHK_VALID_HANDLE.
LEMMA OwnPasses ==
  ASSUME IInv, OwnersRight, ~Shared, NEW t \in Threads, NEW h \in HandlesOf(t)
  PROVE  CheckHandle(h) = "SUCCESS"
<1>1. PICK g \in owned[t] : g.handle = h
  BY DEF HandlesOf
<1>2. h \in InstSlots
  BY <1>1 DEF IInv, TypeOK
<1>3. inst_list[h].inuse /\ h \in UsedInsts
  BY <1>1, <1>2 DEF OwnersRight, UsedInsts
<1>4. bInitialized
  BY <1>3, LockIsSet
<1>5. ~(h >= MaxInst)
  BY <1>2, SlotFacts DEF InstSlots
<1>6. QED
  BY <1>3, <1>4, <1>5 DEF CheckHandle

\* The HBI_term that drops the last count finds the tables empty: each handle in use, each
\* HBI_open and each HBI_close under way has a count of its own.
LEMMA LastTerm ==
  ASSUME IInv, TableInv, NEW t \in Threads, pc[t] = "term_lock", ~(init_count > 1)
  PROVE  TermStatus # "INVALID_STATE"
<1>1. /\ init_count \in Nat /\ loaded \in Nat /\ Cardinality(UsedInsts) \in Nat
      /\ Cardinality(Busy) \in Nat /\ init_count >= loaded + Cardinality(UsedInsts) + Cardinality(Busy)
  BY CountedSets DEF IInv, TypeOK, InitCovers
<1>2. Cardinality(UsedInsts) = 0 /\ Busy \subseteq {t}
  <2>1. CASE t \in Busy
    <3>1. Cardinality(Busy) = 1 + Cardinality(Busy \ {t}) /\ Cardinality(Busy \ {t}) \in Nat
          /\ IsFiniteSet(Busy \ {t})
      <4>1. IsFiniteSet(Busy \ {t}) /\ Cardinality(Busy \ {t}) \in Nat
        BY CountedSets, FS_Subset, FS_CardinalityType
      <4>2. Cardinality(Busy \ {t}) = Cardinality(Busy) - 1
        BY <2>1, CountedSets, FS_RemoveElement
      <4>3. QED
        BY <4>1, <4>2, CountedSets
    <3>2. Cardinality(UsedInsts) = 0 /\ Cardinality(Busy \ {t}) = 0
      BY <1>1, <3>1
    <3>3. Busy \ {t} = {}
      BY <3>1, <3>2, FS_EmptySet
    <3>4. QED
      BY <3>2, <3>3
  <2>2. CASE loaded > 0
    <3>1. Cardinality(UsedInsts) = 0 /\ Cardinality(Busy) = 0
      BY <1>1, <2>2
    <3>2. QED
      BY <3>1, CountedSets, FS_EmptySet
  <2>3. QED
    BY <2>1, <2>2, AtTermLock
<1>3. UsedInsts = {} /\ \A d : UsersOf(d) = {}
  <2>1. UsedInsts = {}
    BY <1>2, CountedSets, FS_EmptySet
  <2>2. QED
    BY <2>1 DEF UsersOf
<1>4. UsedDevs = {}
  <2>1. \A u \in Threads : pc[u] # "open_commit"
    BY <1>2 DEF Busy, Counted, OpenLabels
  <2>2. QED
    BY <1>3, <2>1 DEF TableInv, UsersPlaced, UsedDevs
<1>5. num_instances = 0 /\ num_opened_dev = 0
  BY <1>3, <1>4, FS_EmptySet DEF IInv, CountsAgree
<1>6. QED
  BY <1>5 DEF TermStatus

LEMMA NotRefused ==
  ASSUME IInv, TableInv, OwnersRight, ~Shared, NEW t \in Threads, Call(t) \/ Step(t),
         res[t] \notin Refusals
  PROVE  Others(t) /\ res'[t] \notin Refusals
<1>1. ASSUME NEW h \in HandlesOf(t), NEW op, NEW label, CallHandle(t, h, op, label)
      PROVE  Others(t) /\ res'[t] \notin Refusals
  BY <1>1, OwnPasses, StartMoves DEF CallHandle, Refusals
<1>2. CASE CallClose(t) \/ CallUse(t)
  BY <1>1, <1>2 DEF CallClose, CallUse
<1>3. CASE CallInit(t) \/ CallTerm(t) \/ \E id \in DeviceIds : CallOpen(t, id)
  BY <1>3, StartMoves DEF CallInit, CallTerm, CallOpen, Refusals
<1>4. CASE InitCount(t)
  BY <1>4, GotoMoves, ReturnMoves DEF InitCount, AfterInit, Refusals
<1>5. CASE OpenCheck(t)
  <2>1. bInitialized
    <3>1. t \in Busy
      BY <1>5 DEF OpenCheck, Busy, Counted, OpenLabels
    <3>2. QED
      BY <3>1 DEF IInv, InitCovers, Up
  <2>2. QED
    BY <1>5, <2>1, GotoMoves, ReturnMoves DEF OpenCheck, Refusals
<1>6. CASE TermCheck(t)
  BY <1>6, GotoMoves, ReturnMoves DEF TermCheck, Refusals
<1>7. CASE TermLock(t)
  <2>1. CASE Return(t, "SUCCESS")
    BY <2>1, ReturnMoves DEF Refusals
  <2>2. CASE Goto(t, "term_final") /\ UNCHANGED loc
    BY <2>2, GotoMoves
  <2>3. CASE ~(init_count > 1) /\ pc[t] = "term_lock" /\ Return(t, TermStatus)
    <3>1. TermStatus \notin Refusals
      BY <2>3, LastTerm DEF TermStatus, Refusals
    <3>2. QED
      BY <2>3, <3>1, ReturnMoves
  <2>4. QED
    BY <1>7, <2>1, <2>2, <2>3 DEF TermLock
<1>8. CASE TermFinal(t)
  BY <1>8, ReturnMoves DEF TermFinal, Refusals
<1>9. CASE UseFetch(t)
  BY <1>9, Here DEF UseFetch, Goto, Others
<1>10. CASE OpenLock(t)
  BY <1>10, OpenLockDoes DEF Refusals
<1>11. CASE CloseLock(t)
  BY <1>11, CloseLockStep
<1>12. CASE OpenPort(t)
  BY <1>12, OpenPortStep DEF TakesPort, Refusals
<1>13. CASE OpenCommit(t)
  <2>1. res'[t] = "SUCCESS" /\ Others(t)
    BY <1>13, OpenCommitStep, Zenon DEF Registers
  <2>2. QED
    BY <2>1 DEF Refusals
<1>14. CASE ClosePort(t)
  BY <1>14, ClosePortStep DEF GivesPort, Refusals
<1>15. CASE CloseCommit(t)
  BY <1>15, CloseCommitStep
<1>16. CASE UseBegin(t) \/ UseEnd(t)
  BY <1>16, UseBeginDoes, UseEndDoes DEF Refusals
<1>17. CASE Fault(t) \/ InitSetup(t)
  BY <1>17, FaultDoes, InitSetupDoes DEF Refusals
<1>18. QED
  BY <1>2, <1>3, <1>4, <1>5, <1>6, <1>7, <1>8, <1>9, <1>10, <1>11, <1>12, <1>13, <1>14,
     <1>15, <1>16, <1>17 DEF Call, Step

\* A thread that uses and closes its own handles between HBI_init and HBI_term is never told
\* that the driver is down, that its handle is bad, or, by the HBI_term that ends an
\* HBI_close, that the driver is in use.
THEOREM OwnersServed == Locked /\ ~Shared => (Spec => []OwnersNotRefused)
<1> SUFFICES ASSUME Locked, ~Shared PROVE Spec => []OwnersNotRefused
  OBVIOUS
<1>1. Init => OwnersNotRefused
  BY DEF Init, OwnersNotRefused
<1>2. IInv /\ TableInv /\ OwnersRight /\ OwnersNotRefused /\ [Next]_vars => OwnersNotRefused'
  <2>1. ASSUME IInv, TableInv, OwnersRight, OwnersNotRefused, NEW t \in Threads,
               Call(t) \/ Step(t)
        PROVE  OwnersNotRefused'
    <3>1. Others(t) /\ res'[t] \notin Refusals
      BY <2>1, NotRefused DEF OwnersNotRefused, Refusals
    <3>2. QED
      BY <2>1, <3>1 DEF OwnersNotRefused, Others, Refusals
  <2>2. ASSUME OwnersNotRefused, UNCHANGED vars
        PROVE  OwnersNotRefused'
    BY <2>2, Stays DEF OwnersNotRefused
  <2>3. QED
    BY <2>1, <2>2 DEF Next
<1>3. QED
  BY <1>1, <1>2, Inductive, TableInductive, OwnersInductive, PTL DEF Spec

-----------------------------------------------------------------------------
(* The tables implement HandleTable *)

\* The two variables of HandleTable, as INSTANCE reads them off the driver's tables.
HandleUsers == [s \in UsedInsts |-> dev_list[inst_list[s].pDev].deviceId]
OpenPorts   == {dev_list[d].deviceId : d \in UsedDevs}

LEMMA TableVars ==
  /\ UNCHANGED <<HandleUsers, OpenPorts>> => UNCHANGED Table!tableVars
  /\ \A id : Table!UsersOn(id) = {h \in UsedInsts : IdOf(inst_list[h].pDev) = id}
BY DEF HandleUsers, OpenPorts, Table!tableVars, Table!UsersOn, IdOf

LEMMA TableCounts == \A S : Table!Cardinality(S) = Cardinality(S)
BY DEF Table!Cardinality, Cardinality

\* A step that keeps the open devices and their users.
LEMMA TableStays ==
  ASSUME UsedInsts' = UsedInsts, UsedDevs' = UsedDevs, SameUsers,
         \A d \in UsedDevs : dev_list'[d].deviceId = IdOf(d)
  PROVE  UNCHANGED Table!tableVars
<1>1. HandleUsers' = HandleUsers
  BY DEF HandleUsers, SameUsers, IdOf
<1>2. OpenPorts' = OpenPorts
  BY DEF OpenPorts, IdOf
<1>3. QED
  BY <1>1, <1>2, TableVars

\* The users of an id are those of its device when no other device with that id has users.
LEMMA UsersOnDevice ==
  ASSUME IInv, NEW d \in DevSlots,
         \A c \in DevSlots : UsersOf(c) # {} /\ IdOf(c) = IdOf(d) => c = d
  PROVE  Table!UsersOn(IdOf(d)) = UsersOf(d)
<1>1. ASSUME NEW h \in UsedInsts
      PROVE  inst_list[h].pDev \in DevSlots /\ h \in UsersOf(inst_list[h].pDev)
  BY DEF UsedInsts, UsersOf, IInv, TypeOK, InstRec, EntriesOK
<1>2. QED
  BY <1>1, TableVars DEF UsersOf

\* While nobody else is about to commit, the devices with users are open.
LEMMA DevicesWithUsers ==
  ASSUME IInv, TableInv, NEW t \in Threads, pc[t] \in CritLabels,
         NEW c \in DevSlots, UsersOf(c) # {}
  PROVE  dev_list[c].inuse \/ (pc[t] = "close_commit" /\ loc[t].dev = c)
BY Inside DEF TableInv, UsersPlaced, CritLabels

LEMMA OpenPortImplements ==
  ASSUME IInv, TableInv, NEW t \in Threads, OpenPort(t)
  PROVE  Table!Next \/ UNCHANGED Table!tableVars
<1>1. CASE Others(t) /\ Plain(t)
  <2>1. UNCHANGED <<dev_list, inst_list>>
    BY <1>1 DEF Plain
  <2>2. QED
    BY <2>1, TableVars DEF HandleUsers, OpenPorts, UsedInsts, UsedDevs
<1>2. ASSUME NEW d \in DevSlots, NEW p \in DevSlots, NEW id \in DeviceIds,
             /\ pc[t] = "open_port" /\ d = loc[t].dev /\ id = loc[t].id
             /\ ~dev_list[d].inuse
             /\ dev_list'[d].inuse /\ IdOf(d)' = id
             /\ \A c \in DevSlots \ {d} : dev_list'[c] = dev_list[c]
             /\ UNCHANGED inst_list
      PROVE  Table!OpenDevice(id)
  <2>1. NotOpen(id)
    BY <1>2 DEF TableInv, AllKnown, Known
  <2>2. \A c \in DevSlots : UsersOf(c) # {} => dev_list[c].inuse
    BY <1>2, DevicesWithUsers DEF CritLabels
  <2>3. ASSUME NEW s \in UsedInsts
        PROVE  /\ inst_list[s].pDev \in DevSlots \ {d} /\ IdOf(inst_list[s].pDev) # id
               /\ dev_list'[inst_list[s].pDev] = dev_list[inst_list[s].pDev]
    <3>1. inst_list[s].pDev \in DevSlots /\ s \in UsersOf(inst_list[s].pDev)
      BY DEF UsedInsts, UsersOf, IInv, TypeOK, InstRec, EntriesOK
    <3>2. inst_list[s].pDev \in UsedDevs /\ inst_list[s].pDev # d
      BY <1>2, <2>2, <3>1 DEF UsedDevs
    <3>3. QED
      BY <1>2, <2>1, <3>1, <3>2 DEF NotOpen
  <2>4. HandleUsers' = HandleUsers
    <3>1. UsedInsts' = UsedInsts
      BY <1>2 DEF UsedInsts
    <3>2. QED
      BY <1>2, <2>3, <3>1 DEF HandleUsers
  <2>5. Table!UsersOn(id) = {}
    BY <2>3, TableVars
  <2>6. UsedDevs' = UsedDevs \cup {d} /\ d \notin UsedDevs
    BY <1>2 DEF UsedDevs
  <2>7. OpenPorts' = OpenPorts \cup {id} /\ id \notin OpenPorts
    <3>1. \A c \in UsedDevs : dev_list'[c] = dev_list[c] /\ IdOf(c) # id
      BY <1>2, <2>1, <2>6 DEF NotOpen, UsedDevs
    <3>2. QED
      BY <1>2, <2>6, <3>1 DEF OpenPorts, IdOf
  <2>8. Cardinality(OpenPorts) < MaxDevs
    <3>1. Cardinality(UsedDevs') = Cardinality(UsedDevs) + 1 /\ Cardinality(UsedDevs') <= MaxDevs
      <4>1. UsedDevs' \subseteq DevSlots
        BY DEF UsedDevs
      <4>2. Cardinality(UsedDevs') <= MaxDevs
        BY <4>1, SlotFacts, FS_Subset
      <4>3. QED
        BY <2>6, <4>2, CountedSets, FS_AddElement
    <3>2. Cardinality(OpenPorts) \in Nat /\ Cardinality(OpenPorts) <= Cardinality(UsedDevs)
      <4> DEFINE f == [c \in UsedDevs |-> dev_list[c].deviceId]
      <4>1. f \in Surjection(UsedDevs, OpenPorts)
        BY Fun_IsSurj DEF OpenPorts
      <4>2. QED
        BY <4>1, CountedSets, FS_Surjection, FS_CardinalityType
    <3>3. QED
      BY <3>1, <3>2, CountedSets, ConstantsOK
  <2>9. QED
    BY <2>4, <2>5, <2>7, <2>8, TableCounts DEF Table!OpenDevice, HandleUsers, OpenPorts
<1>3. ASSUME NEW d \in DevSlots, NEW p \in DevSlots, NEW id \in DeviceIds,
             TakesPort(t, d, p, id)
      PROVE  Table!Next
  <2>1. Table!OpenDevice(id)
    <3>1. /\ pc[t] = "open_port" /\ d = loc[t].dev /\ id = loc[t].id
          /\ ~dev_list[d].inuse
          /\ dev_list'[d].inuse /\ IdOf(d)' = id
          /\ \A c \in DevSlots \ {d} : dev_list'[c] = dev_list[c]
          /\ UNCHANGED inst_list
      BY <1>3, Zenon DEF TakesPort
    <3>2. QED
      BY <1>2, <3>1, Zenon
  <2>2. QED
    BY <2>1 DEF Table!Next
<1>4. QED
  BY <1>1, <1>3, OpenPortStep, Zenon

LEMMA OpenCommitImplements ==
  ASSUME IInv, TableInv, NEW t \in Threads, OpenCommit(t)
  PROVE  Table!Next
<1>1. PICK d \in DevSlots, s \in InstSlots, id \in DeviceIds :
           /\ pc[t] = "open_commit" /\ d = loc[t].dev /\ id = loc[t].id
           /\ inst_list' = [inst_list EXCEPT ![s] = [pDev |-> d, inuse |-> TRUE]]
           /\ \A c \in DevSlots : IdOf(c)' = IdOf(c) /\ dev_list'[c].inuse = dev_list[c].inuse
           /\ UsedInsts' = UsedInsts \cup {s} /\ s \notin UsedInsts
  <2>1. PICK d \in DevSlots, s \in InstSlots : Registers(t, d, s)
    BY OpenCommitStep, Zenon
  <2>2. QED
    BY <2>1, ZenonT(60) DEF Registers
<1>2. /\ d \in UsedDevs /\ IdOf(d) = id /\ dev_list[d].num_cur_instances < MaxInstPerDev
  BY <1>1 DEF TableInv, AllKnown, Known, UsedDevs
<1>3. \A c \in DevSlots : UsersOf(c) # {} => dev_list[c].inuse
  BY <1>1, DevicesWithUsers DEF CritLabels
<1>4. Table!UsersOn(id) = UsersOf(d)
  <2>1. \A c \in DevSlots : UsersOf(c) # {} /\ IdOf(c) = IdOf(d) => c = d
    BY <1>2, <1>3 DEF TableInv, IdsDiffer, UsedDevs
  <2>2. QED
    BY <1>2, <2>1, UsersOnDevice
<1>5. Cardinality(Table!UsersOn(id)) < MaxInstPerDev
  BY <1>2, <1>4 DEF IInv, CountsAgree
<1>6. id \in OpenPorts /\ OpenPorts' = OpenPorts
  <2>1. UsedDevs' = UsedDevs /\ UsedDevs \subseteq DevSlots
    BY <1>1 DEF UsedDevs
  <2>2. OpenPorts' = OpenPorts
    BY <1>1, <2>1 DEF OpenPorts, IdOf
  <2>3. QED
    BY <1>2, <2>2 DEF OpenPorts, IdOf
<1>7. HandleUsers' = [g \in UsedInsts \cup {s} |-> IF g = s THEN id ELSE HandleUsers[g]]
  <2>1. ASSUME NEW g \in UsedInsts \cup {s}
        PROVE  dev_list'[inst_list'[g].pDev].deviceId = IF g = s THEN id ELSE HandleUsers[g]
    <3>1. CASE g = s
      BY <1>1, <1>2, <3>1 DEF IInv, TypeOK, IdOf
    <3>2. CASE g # s
      <4>1. g \in UsedInsts /\ inst_list'[g] = inst_list[g] /\ inst_list[g].pDev \in DevSlots
        BY <1>1, <2>1, <3>2 DEF UsedInsts, IInv, TypeOK, InstRec, EntriesOK
      <4>2. QED
        BY <1>1, <3>2, <4>1 DEF HandleUsers, IdOf
    <3>3. QED
      BY <3>1, <3>2
  <2>2. QED
    BY <1>1, <2>1 DEF HandleUsers
<1>8. DOMAIN HandleUsers = UsedInsts
  BY DEF HandleUsers
<1>9. Table!AddUser(s, id)
  BY <1>1, <1>5, <1>6, <1>7, <1>8, TableCounts DEF Table!AddUser, HandleUsers, OpenPorts
<1>10. QED
  BY <1>9 DEF Table!Next

LEMMA ClosePortImplements ==
  ASSUME IInv, TableInv, NEW t \in Threads, ClosePort(t)
  PROVE  Table!Next \/ UNCHANGED Table!tableVars
<1>1. CASE Others(t) /\ Plain(t)
  <2>1. UNCHANGED <<dev_list, inst_list>>
    BY <1>1 DEF Plain
  <2>2. QED
    BY <2>1, TableVars DEF HandleUsers, OpenPorts, UsedInsts, UsedDevs
<1>2. ASSUME NEW d \in DevSlots,
             /\ pc[t] = "close_port" /\ d = loc[t].dev
             /\ dev_list[d].inuse /\ ~dev_list'[d].inuse /\ IdOf(d)' = IdOf(d)
             /\ \A c \in DevSlots \ {d} : dev_list'[c] = dev_list[c]
             /\ UNCHANGED inst_list
      PROVE  Table!Next
  <2>1. /\ UsedDevs' = UsedDevs \ {d} /\ d \in UsedDevs /\ UsedDevs \subseteq DevSlots
        /\ UsedInsts' = UsedInsts
    BY <1>2 DEF UsedDevs, UsedInsts
  <2>2. \A c \in DevSlots : UsersOf(c) # {} => dev_list[c].inuse
    BY <1>2, DevicesWithUsers DEF CritLabels
  <2>3. Table!UsersOn(IdOf(d)) = UsersOf(d)
    <3>1. \A c \in DevSlots : UsersOf(c) # {} /\ IdOf(c) = IdOf(d) => c = d
      BY <2>1, <2>2 DEF TableInv, IdsDiffer, UsedDevs
    <3>2. QED
      BY <3>1, UsersOnDevice
  <2>4. Cardinality(Table!UsersOn(IdOf(d))) = 1
    BY <1>2, <2>3 DEF TableInv, AllKnown, Known, IInv, CountsAgree
  <2>5. OpenPorts' = OpenPorts \ {IdOf(d)} /\ IdOf(d) \in OpenPorts
    <3>1. \A c \in UsedDevs' : dev_list'[c] = dev_list[c] /\ IdOf(c) # IdOf(d)
      BY <1>2, <2>1 DEF TableInv, IdsDiffer
    <3>2. QED
      BY <2>1, <3>1 DEF OpenPorts, IdOf
  <2>6. HandleUsers' = HandleUsers
    <3>1. ASSUME NEW s \in UsedInsts
          PROVE  dev_list'[inst_list[s].pDev].deviceId = IdOf(inst_list[s].pDev)
      <4>1. inst_list[s].pDev \in DevSlots
        BY DEF UsedInsts, IInv, TypeOK, InstRec, EntriesOK
      <4>2. QED
        BY <1>2, <4>1 DEF IdOf
    <3>2. QED
      BY <1>2, <2>1, <3>1 DEF HandleUsers, IdOf
  <2>7. IdOf(d) \in DeviceIds
    BY <2>1 DEF TableInv, PortsRight
  <2>8. PICK id \in DeviceIds : id = IdOf(d)
    BY <2>7
  <2>9. Table!CloseDevice(id)
    BY <2>4, <2>5, <2>6, <2>8, TableCounts DEF Table!CloseDevice, HandleUsers, OpenPorts
  <2>10. QED
    BY <2>9 DEF Table!Next
<1>3. ASSUME NEW d \in DevSlots, NEW p \in DevSlots, GivesPort(t, d, p)
      PROVE  Table!Next
  <2>1. /\ pc[t] = "close_port" /\ d = loc[t].dev
        /\ dev_list[d].inuse /\ ~dev_list'[d].inuse /\ IdOf(d)' = IdOf(d)
        /\ \A c \in DevSlots \ {d} : dev_list'[c] = dev_list[c]
        /\ UNCHANGED inst_list
    BY <1>3, Zenon DEF GivesPort
  <2>2. QED
    BY <1>2, <2>1, Zenon
<1>4. QED
  BY <1>1, <1>3, ClosePortStep, Zenon

LEMMA CloseCommitImplements ==
  ASSUME IInv, TableInv, NEW t \in Threads, CloseCommit(t)
  PROVE  Table!Next
<1>1. PICK d \in DevSlots, h \in InstSlots :
           /\ pc[t] = "close_commit" /\ d = loc[t].dev /\ h \in UsersOf(d)
           /\ inst_list' = [inst_list EXCEPT ![h] = FreeInst]
           /\ \A c \in DevSlots : IdOf(c)' = IdOf(c) /\ dev_list'[c].inuse = dev_list[c].inuse
           /\ UsedInsts' = UsedInsts \ {h}
  BY CloseCommitStep
<1>2. h \in UsedInsts /\ inst_list[h].pDev = d
  BY <1>1 DEF UsersOf
<1>3. \A c \in DevSlots : UsersOf(c) # {} => dev_list[c].inuse \/ c = d
  BY <1>1, DevicesWithUsers DEF CritLabels
<1>4. /\ dev_list[d].inuse => Cardinality(UsersOf(d)) > 1
      /\ ~dev_list[d].inuse => Cardinality(UsersOf(d)) = 1 /\ NotOpen(IdOf(d))
  BY <1>1 DEF TableInv, AllKnown, Known, IInv, CountsAgree
<1>5. Table!UsersOn(IdOf(d)) = UsersOf(d)
  <2>1. \A c \in DevSlots : UsersOf(c) # {} /\ IdOf(c) = IdOf(d) => c = d
    BY <1>3, <1>4 DEF TableInv, IdsDiffer, UsedDevs, NotOpen
  <2>2. QED
    BY <2>1, UsersOnDevice
<1>6. IdOf(d) \in OpenPorts <=> Table!UsersOn(IdOf(d)) # {h}
  <2>1. IdOf(d) \in OpenPorts <=> dev_list[d].inuse
    BY <1>4 DEF OpenPorts, UsedDevs, NotOpen, IdOf
  <2>2. Cardinality({h}) = 1
    BY FS_Singleton
  <2>3. Cardinality(UsersOf(d)) = 1 => UsersOf(d) = {h}
    BY <1>1, CountedSets, FS_Singleton
  <2>4. QED
    BY <1>4, <1>5, <2>1, <2>2, <2>3
<1>7. OpenPorts' = OpenPorts
  <2>1. UsedDevs' = UsedDevs /\ UsedDevs \subseteq DevSlots
    BY <1>1 DEF UsedDevs
  <2>2. QED
    BY <1>1, <2>1 DEF OpenPorts, IdOf
<1>8. HandleUsers' = [g \in UsedInsts \ {h} |-> HandleUsers[g]]
  <2>1. ASSUME NEW g \in UsedInsts \ {h}
        PROVE  dev_list'[inst_list'[g].pDev].deviceId = HandleUsers[g]
    <3>1. g \in UsedInsts /\ inst_list'[g] = inst_list[g] /\ inst_list[g].pDev \in DevSlots
      BY <1>1 DEF UsedInsts, IInv, TypeOK, InstRec, EntriesOK
    <3>2. QED
      BY <1>1, <3>1 DEF HandleUsers, IdOf
  <2>2. QED
    BY <1>1, <2>1 DEF HandleUsers
<1>9. DOMAIN HandleUsers = UsedInsts /\ HandleUsers[h] = IdOf(d)
  BY <1>2 DEF HandleUsers, IdOf
<1>10. Table!RemoveUser(h)
  BY <1>2, <1>6, <1>7, <1>8, <1>9 DEF Table!RemoveUser, HandleUsers, OpenPorts
<1>11. QED
  BY <1>10 DEF Table!Next

LEMMA StepImplements ==
  ASSUME IInv, TableInv, NEW t \in Threads, Call(t) \/ Step(t)
  PROVE  Table!Next \/ UNCHANGED Table!tableVars
<1>1. ASSUME UNCHANGED <<dev_list, inst_list>>
      PROVE  UNCHANGED Table!tableVars
  BY <1>1, TableVars DEF HandleUsers, OpenPorts, UsedInsts, UsedDevs
<1>2. CASE \/ Call(t) \/ InitCount(t) \/ OpenCheck(t) \/ TermCheck(t) \/ TermLock(t)
           \/ TermFinal(t) \/ UseFetch(t)
  BY <1>1, <1>2, PlainSteps DEF Plain
<1>3. CASE OpenLock(t) \/ CloseLock(t) \/ UseBegin(t) \/ UseEnd(t) \/ Fault(t)
  BY <1>1, <1>3, OpenLockDoes, CloseLockStep, UseBeginDoes, UseEndDoes, FaultDoes
<1>4. CASE InitSetup(t)
  <2>1. UsedInsts = {} /\ UsedDevs = {} /\ UsedInsts' = {} /\ UsedDevs' = {}
    BY <1>4, InitSetupDoes
  <2>2. QED
    BY <2>1, TableStays DEF SameUsers
<1>5. QED
  BY <1>2, <1>3, <1>4, OpenPortImplements, OpenCommitImplements, ClosePortImplements,
     CloseCommitImplements DEF Step

\* HBI_open and HBI_close, run by any number of threads, implement the table of handles
\* hbi.h describes: the first open of a device opens its port, each open gives a handle that
\* nobody has, and the port is shut on behalf of the last user only.
THEOREM Implements == Locked => (Spec => ImplementsHandleTable)
<1> SUFFICES ASSUME Locked PROVE Spec => ImplementsHandleTable
  OBVIOUS
<1>1. Init => Table!Init
  <2>1. SUFFICES ASSUME Init PROVE Table!Init
    OBVIOUS
  <2>2. UsedInsts = {} /\ UsedDevs = {}
    BY <2>1 DEF Init, UsedInsts, UsedDevs, FreeInst, ClosedDev
  <2>3. QED
    BY <2>2 DEF Table!Init
<1>2. IInv /\ TableInv /\ [Next]_vars => [Table!Next]_(Table!tableVars)
  <2>1. SUFFICES ASSUME IInv, TableInv, UNCHANGED vars
                 PROVE  UNCHANGED Table!tableVars
    BY StepImplements DEF Next
  <2>2. UNCHANGED <<dev_list, inst_list>>
    BY <2>1, Stays
  <2>3. QED
    BY <2>2, TableVars DEF HandleUsers, OpenPorts, UsedInsts, UsedDevs
<1>3. QED
  BY <1>1, <1>2, Inductive, TableInductive, PTL DEF Spec, ImplementsHandleTable, Table!Spec

=============================================================================
