------------------------------ MODULE HbiDriver ------------------------------
(***************************************************************************)
(* The HBI driver's bookkeeping (drivers/hbi/hbi.c) and the port table of  *)
(* the system service layer it stands on (drivers/hbi/hbi_ssl.c), called   *)
(* by several threads.                                                     *)
(*                                                                         *)
(* Each call is cut where another thread can get in: the checks made       *)
(* before the driver lock is taken, the stretches made under it, what is   *)
(* done after it is released.  hbi_priv.cfg.lock is optional in the code   *)
(* (HBI_LOCK does nothing on a NULL lock), and so it is here.              *)
(***************************************************************************)
EXTENDS Naturals, FiniteSets

CONSTANTS
  Threads,        \* the callers of the API
  NoThread,       \* the holder of a free lock
  MaxDevs,        \* VPROC_MAX_NUM_DEVS
  MaxInstPerDev,  \* HBI_MAX_INST_PER_DEV
  DeviceIds,      \* what a caller passes as pDevCfg->deviceId
  DriverLock,     \* does the caller of HBI_init pass a lock?
  DevLock,        \* do the callers of HBI_open pass a dev_lock?
  Shared,         \* may a thread use or close a handle it did not open?
  AutoInit,       \* do callers open without an HBI_init of their own (INIT_TERM_AUTO)?
  MaxWord,        \* the largest value of a counter (2^32 - 1 in the code)
  MaxInit,        \* bound: no HBI_open starts at this init_count
  MaxLoads        \* bound on the explicit HBI_init calls not yet matched

ASSUME ConstantsOK ==
  /\ MaxDevs \in Nat \ {0} /\ MaxInstPerDev \in Nat \ {0}
  /\ DeviceIds \subseteq Nat
  /\ {DriverLock, DevLock, Shared, AutoInit} \subseteq BOOLEAN
  /\ IsFiniteSet(Threads) /\ NoThread \notin Threads
  /\ MaxWord \in Nat /\ MaxWord > MaxDevs * MaxInstPerDev /\ MaxInit \in Nat /\ MaxLoads \in Nat

DevSlots  == 0 .. MaxDevs - 1
MaxInst   == MaxDevs * MaxInstPerDev
InstSlots == 0 .. MaxInst - 1
NoDev     == MaxDevs       \* a NULL pDev
NoPort    == MaxDevs       \* a zero port_handle
InvalidId == MaxInst       \* HBI_INST_INVALID_ID

VARIABLES
  bInitialized, init_count, cfg_lock, num_opened_dev, num_instances,
  dev_list,       \* hbi_priv.dev_list; port_lock is {} (NULL) or {the device whose mutex it is}
  inst_list,      \* hbi_priv.inst_list
  ssl_inited,     \* ssl_drv_priv.initialised
  ssl_dev,        \* ssl_drv_priv.dev: {} (not in use) or {the device pClient talks to}
  lock,           \* holder of the mutex passed to HBI_init
  dev_locks,      \* holder of each device's mutex
  pc, loc,        \* where each thread is, and its arguments and locals
  res,            \* what each thread's last call returned
  owned,          \* history: the handles each thread was given, with the device asked for
  loaded          \* history: explicit HBI_init calls not yet matched by HBI_term

drvVars  == <<bInitialized, init_count, cfg_lock, num_opened_dev, num_instances,
              dev_list, inst_list>>
sslVars  == <<ssl_inited, ssl_dev>>
lockVars == <<lock, dev_locks>>
histVars == <<owned, loaded>>
vars     == <<drvVars, sslVars, lockVars, pc, loc, res, histVars>>

ClosedDev == [deviceId |-> 0, port |-> NoPort, port_lock |-> {},
              instances |-> [i \in 0 .. MaxInstPerDev - 1 |-> 0],
              num_cur_instances |-> 0, inuse |-> FALSE]
FreeInst == [pDev |-> NoDev, inuse |-> FALSE]
NoCall   == [op |-> "none", id |-> 0, handle |-> 0, slot |-> 0, dev |-> NoDev,
             port |-> NoPort, client |-> {}]

Init ==
  /\ bInitialized = FALSE /\ init_count = 0 /\ cfg_lock = FALSE
  /\ num_opened_dev = 0 /\ num_instances = 0
  /\ dev_list = [d \in DevSlots |-> ClosedDev]
  /\ inst_list = [s \in InstSlots |-> FreeInst]
  /\ ssl_inited = FALSE /\ ssl_dev = [p \in DevSlots |-> {}]
  /\ lock = NoThread /\ dev_locks = [i \in DeviceIds |-> NoThread]
  /\ pc = [t \in Threads |-> "idle"] /\ loc = [t \in Threads |-> NoCall]
  /\ res = [t \in Threads |-> "none"]
  /\ owned = [t \in Threads |-> {}] /\ loaded = 0

-----------------------------------------------------------------------------
(* Helpers *)

\* The index a scan "for(i...) if(...) break;" stops at; none when it runs off the end.
First(S, none) == IF S = {} THEN {none} ELSE {s \in S : \A r \in S : s <= r}

Decr(n) == IF n = 0 THEN MaxWord ELSE n - 1

CanLock       == cfg_lock => lock = NoThread            \* HBI_LOCK would return
Take(t)       == lock' = IF cfg_lock THEN t ELSE lock
\* Variant: an error path leaves with the lock.
ReleaseLost == UNCHANGED lock
Release == lock' = IF cfg_lock THEN NoThread ELSE lock
\* Variant: the device's lock is never waited for.
DevLockIgnored(d) == TRUE
DevLockFree(d) == \A i \in dev_list[d].port_lock : dev_locks[i] = NoThread
HoldDevLock(d, holder) ==
  dev_locks' = [i \in DeviceIds |-> IF i \in dev_list[d].port_lock THEN holder ELSE dev_locks[i]]

Goto(t, label) == pc' = [pc EXCEPT ![t] = label] /\ UNCHANGED res
Return(t, status) ==
  /\ pc' = [pc EXCEPT ![t] = "idle"]
  /\ loc' = [loc EXCEPT ![t] = NoCall]
  /\ res' = [res EXCEPT ![t] = status]

\* A caller may start a call.  HBI_init and HBI_term are called by module load and unload,
\* while no other call is under way.
MayCall(t) ==
  /\ pc[t] = "idle"
  /\ \A u \in Threads : loc[u].op \notin {"init", "term"}

Start(t, call, label) ==
  /\ MayCall(t)
  /\ pc' = [pc EXCEPT ![t] = label]
  /\ loc' = [loc EXCEPT ![t] = call]
  /\ res' = [res EXCEPT ![t] = "none"]

Quiet == \A t \in Threads : pc[t] = "idle"

-----------------------------------------------------------------------------
(* HBI_init.  HBI_open calls it too, with no configuration (INIT_TERM_AUTO). *)

InitLabel == IF bInitialized THEN "init_count" ELSE "init_setup"

CallInit(t) ==
  /\ loaded < MaxLoads
  /\ Quiet
  /\ Start(t, [NoCall EXCEPT !.op = "init"], InitLabel)
  /\ UNCHANGED <<drvVars, sslVars, lockVars, histVars>>

\* Where HBI_init returns to: HBI_open goes on only after a success.
AfterInit(t, status) ==
  IF loc[t].op = "open" /\ status = "SUCCESS"
    THEN Goto(t, "open_check") /\ UNCHANGED loc
    ELSE Return(t, status)

\* Counts the explicit initialisations that are to be matched by an HBI_term.
NoteInit(t) ==
  loaded' = IF loc[t].op = "init" THEN loaded + 1 ELSE loaded

\* Variant: an HBI_open of an initialised driver does not count itself.
CountExplicit(t) == IF loc[t].op = "init" THEN init_count + 1 ELSE init_count
CountedInit(t) == init_count + 1

InitCount(t) ==
  /\ pc[t] = "init_count"
  /\ CanLock
  /\ init_count' = CountedInit(t)
  /\ AfterInit(t, "SUCCESS")
  /\ NoteInit(t)
  /\ UNCHANGED <<bInitialized, cfg_lock, num_opened_dev, num_instances, dev_list, inst_list,
                 sslVars, lockVars, owned>>

\* The memset of hbi_priv, SSL_init and the assignments that follow it.
InitSetup(t) ==
  /\ pc[t] = "init_setup"
  /\ num_opened_dev' = 0 /\ num_instances' = 0
  /\ dev_list' = [d \in DevSlots |-> ClosedDev]
  /\ inst_list' = [s \in InstSlots |-> FreeInst]
  /\ \/ /\ ssl_inited' = TRUE
        /\ ssl_dev' = IF ssl_inited THEN ssl_dev ELSE [p \in DevSlots |-> {}]
        /\ cfg_lock' = (loc[t].op = "init" /\ DriverLock)
        /\ bInitialized' = TRUE /\ init_count' = 1
        /\ AfterInit(t, "SUCCESS")
        /\ NoteInit(t)
     \/ /\ ~ssl_inited                       \* hal_init failed
        /\ ssl_dev' = [p \in DevSlots |-> {}]
        /\ cfg_lock' = FALSE /\ bInitialized' = FALSE /\ init_count' = 0
        /\ AfterInit(t, "INTERNAL_ERR")
        /\ UNCHANGED <<ssl_inited, loaded>>
  /\ UNCHANGED <<lockVars, owned>>

-----------------------------------------------------------------------------
(* HBI_open *)

CallOpen(t, id) ==
  /\ init_count < MaxInit
  /\ loaded > 0 \/ AutoInit
  /\ Start(t, [NoCall EXCEPT !.op = "open", !.id = id], InitLabel)
  /\ UNCHANGED <<drvVars, sslVars, lockVars, histVars>>

\* The checks made before the lock is taken.
OpenCheck(t) ==
  /\ pc[t] = "open_check"
  /\ CASE ~bInitialized            -> Return(t, "NOT_INIT")
       [] bInitialized /\ num_instances >= MaxInst -> Return(t, "RESOURCE_ERR")
       [] OTHER                    -> Goto(t, "open_lock") /\ UNCHANGED loc
  /\ UNCHANGED <<drvVars, sslVars, lockVars, histVars>>

FreeInsts   == {s \in InstSlots : ~inst_list[s].inuse}
FreeDevs    == {d \in DevSlots : ~dev_list[d].inuse}
\* Variant: any open device will do.
OpenedAsAny(id) == {d \in DevSlots : dev_list[d].port # NoPort}
OpenedAs(id) == {d \in DevSlots : dev_list[d].deviceId = id /\ dev_list[d].port # NoPort}

\* Variant: the users of an open device are not limited.
RoomForDev(d) == d = NoDev => num_opened_dev < MaxDevs
\* Room for one more user of the open device d, or for one more device.
Room(d) == IF d # NoDev THEN dev_list[d].num_cur_instances < MaxInstPerDev
                        ELSE num_opened_dev < MaxDevs

\* Takes the lock, picks the user's slot and looks for the device among the open ones.
OpenLock(t) ==
  /\ pc[t] = "open_lock"
  /\ CanLock
  /\ \E s \in First(FreeInsts, MaxInst), d \in First(OpenedAs(loc[t].id), NoDev),
        f \in First(FreeDevs, NoDev) :
       \/ /\ d # NoDev => DevLockFree(d)
          /\ ~Room(d)
          /\ Return(t, "RESOURCE_ERR")
          /\ UNCHANGED lock
       \/ /\ d # NoDev
          /\ DevLockFree(d)
          /\ Room(d)
          /\ Goto(t, "open_commit")
          /\ loc' = [loc EXCEPT ![t].slot = s, ![t].dev = d]
          /\ Take(t)
       \/ /\ d = NoDev
          /\ Room(d)
          /\ Goto(t, "open_port")
          /\ loc' = [loc EXCEPT ![t].slot = s, ![t].dev = f]
          /\ Take(t)
  /\ UNCHANGED <<drvVars, sslVars, dev_locks, histVars>>

\* SSL_port_open: fails when SSL is down, no port is free, the id is not the board's, or
\* the bus has no such master (hal_open).
OpenPort(t) ==
  /\ pc[t] = "open_port"
  /\ loc[t].dev # NoDev
  /\ \E p \in First({q \in DevSlots : ssl_dev[q] = {}}, NoPort) :
       \/ /\ Return(t, "INTERNAL_ERR")
          /\ Release
          /\ UNCHANGED <<drvVars, sslVars>>
       \/ /\ ssl_inited /\ p # NoPort /\ loc[t].id < MaxDevs
          /\ ssl_dev' = [ssl_dev EXCEPT ![p] = {loc[t].id}]
          /\ dev_list' = [dev_list EXCEPT
                ![loc[t].dev].port = p,
                ![loc[t].dev].deviceId = loc[t].id,
                ![loc[t].dev].port_lock = IF DevLock THEN {loc[t].id} ELSE @,
                ![loc[t].dev].inuse = TRUE]
          /\ num_opened_dev' = num_opened_dev + 1
          /\ Goto(t, "open_commit")
          /\ UNCHANGED <<bInitialized, init_count, cfg_lock, num_instances, inst_list,
                         ssl_inited, lock, loc>>
  /\ UNCHANGED <<dev_locks, histVars>>

\* Variant: the device's users are counted, the driver's are not.
AddedUserUncounted(n) == n
AddedUser(n) == n + 1

\* Registers the user on the device and gives it the handle.
OpenCommit(t) ==
  LET d == loc[t].dev
      s == loc[t].slot
      n == dev_list[d].num_cur_instances
  IN
  /\ pc[t] = "open_commit"
  /\ s # MaxInst /\ n < MaxInstPerDev
  /\ dev_list' = [dev_list EXCEPT ![d].instances[n] = s, ![d].num_cur_instances = n + 1]
  /\ inst_list' = [inst_list EXCEPT ![s] = [pDev |-> d, inuse |-> TRUE]]
  /\ num_instances' = AddedUser(num_instances)
  /\ owned' = [owned EXCEPT ![t] = @ \cup {[handle |-> s, id |-> loc[t].id]}]
  /\ Release
  /\ Return(t, "SUCCESS")
  /\ UNCHANGED <<bInitialized, init_count, cfg_lock, num_opened_dev, sslVars, dev_locks,
                 loaded>>

-----------------------------------------------------------------------------
(* HBI_close *)

HandlesOf(t) == IF Shared THEN InstSlots \cup {MaxInst} ELSE {g.handle : g \in owned[t]}

\* CHK_IF_INITED and CHK_VALID_HANDLE, before the lock.
CheckHandle(h) ==
  CASE ~bInitialized -> "NOT_INIT"
    [] bInitialized /\ (IF h >= MaxInst THEN TRUE ELSE ~inst_list[h].inuse) -> "BAD_HANDLE"
    [] OTHER -> "SUCCESS"

CallHandle(t, h, op, label) ==
  /\ IF CheckHandle(h) = "SUCCESS"
       THEN Start(t, [NoCall EXCEPT !.op = op, !.handle = h], label)
       ELSE MayCall(t) /\ Return(t, CheckHandle(h))
  /\ UNCHANGED <<drvVars, sslVars, lockVars, histVars>>

CallClose(t) == \E h \in HandlesOf(t) : CallHandle(t, h, "close", "close_lock")

\* Variant: any user's HBI_close shuts the port.
AnyUser(d) == dev_list[d].num_cur_instances >= 1
LastUser(d) == dev_list[d].num_cur_instances = 1

CloseLock(t) ==
  LET d == inst_list[loc[t].handle].pDev IN
  /\ pc[t] = "close_lock"
  /\ CanLock
  /\ d # NoDev
  /\ Take(t)
  /\ loc' = [loc EXCEPT ![t].dev = d]
  /\ Goto(t, IF LastUser(d) THEN "close_port" ELSE "close_commit")
  /\ UNCHANGED <<drvVars, sslVars, dev_locks, histVars>>

\* Variant: the entry of the closed device is not given back.
ClosedEntryInUse(e) == [e EXCEPT !.port = NoPort]
ClosedEntry(e) == [e EXCEPT !.port = NoPort, !.inuse = FALSE]

\* The last user is going: SSL_port_close, under the device's lock.
ClosePort(t) ==
  LET d == loc[t].dev
      p == dev_list[d].port
  IN
  /\ pc[t] = "close_port"
  /\ DevLockFree(d)
  /\ IF ssl_inited /\ (IF p = NoPort THEN FALSE ELSE ssl_dev[p] # {})
       THEN /\ ssl_dev' = [ssl_dev EXCEPT ![p] = {}]
            /\ dev_list' = [dev_list EXCEPT ![d] = ClosedEntry(@)]
            /\ num_opened_dev' = Decr(num_opened_dev)
            /\ Goto(t, "close_commit")
            /\ UNCHANGED <<lock, loc>>
       ELSE /\ Release
            /\ Return(t, "INTERNAL_ERR")
            /\ UNCHANGED <<ssl_dev, dev_list, num_opened_dev>>
  /\ UNCHANGED <<bInitialized, init_count, cfg_lock, num_instances, inst_list, ssl_inited,
                 dev_locks, histVars>>

\* Variant: the freed slot still points at its device.
ClosedInstKeepsDev(i) == [i EXCEPT !.inuse = FALSE]
ClosedInst(i) == FreeInst

\* The user's slot is freed and its entry in the device's list marked invalid.
CloseCommit(t) ==
  LET d == loc[t].dev
      h == loc[t].handle
      n == dev_list[d].num_cur_instances
      entry == First({i \in 0 .. MaxInstPerDev - 1 : i < n /\ dev_list[d].instances[i] = h},
                     MaxInstPerDev)
  IN
  /\ pc[t] = "close_commit"
  /\ inst_list' = [inst_list EXCEPT ![h] = ClosedInst(@)]
  /\ dev_list' = [dev_list EXCEPT
        ![d].instances = [i \in DOMAIN @ |-> IF i \in entry THEN InvalidId ELSE @[i]],
        ![d].num_cur_instances = Decr(n)]
  /\ num_instances' = Decr(num_instances)
  /\ owned' = [u \in Threads |-> {g \in owned[u] : g.handle # h}]
  /\ Release
  /\ loc' = [loc EXCEPT ![t].dev = NoDev]
  /\ Goto(t, "term_check")
  /\ UNCHANGED <<bInitialized, init_count, cfg_lock, num_opened_dev, sslVars, dev_locks,
                 loaded>>

-----------------------------------------------------------------------------
(* HBI_term.  HBI_close ends with it (INIT_TERM_AUTO). *)

CallTerm(t) ==
  /\ Quiet /\ loaded > 0
  /\ Start(t, [NoCall EXCEPT !.op = "term"], "term_check")
  /\ UNCHANGED <<drvVars, sslVars, lockVars, histVars>>

TermCheck(t) ==
  /\ pc[t] = "term_check"
  /\ IF bInitialized THEN Goto(t, "term_lock") /\ UNCHANGED loc
                     ELSE Return(t, "SUCCESS")
  /\ UNCHANGED <<drvVars, sslVars, lockVars, histVars>>

\* An explicit HBI_term that is not refused matches one HBI_init.
NoteTerm(t) ==
  loaded' = IF loc[t].op = "term" /\ loaded > 0 THEN loaded - 1 ELSE loaded

PortsOpen == \E p \in DevSlots : ssl_dev[p] # {}

\* Why the last HBI_term is refused: by the driver while it is in use, or by SSL_term.
TermStatus ==
  CASE num_instances # 0 \/ num_opened_dev # 0 -> "INVALID_STATE"
    [] num_instances = 0 /\ num_opened_dev = 0 /\ ssl_inited /\ PortsOpen -> "INTERNAL_ERR"
    [] OTHER -> "SUCCESS"

\* The stretch under the lock: drop one count, or bring the system service layer down.
TermLock(t) ==
  /\ pc[t] = "term_lock"
  /\ CanLock
  /\ IF init_count > 1
       THEN init_count' = init_count - 1 /\ Return(t, "SUCCESS") /\ NoteTerm(t)
            /\ UNCHANGED ssl_inited
       ELSE /\ IF TermStatus = "SUCCESS"
                 THEN ssl_inited' = FALSE /\ Goto(t, "term_final") /\ NoteTerm(t)
                      /\ UNCHANGED loc
                 ELSE Return(t, TermStatus) /\ UNCHANGED <<ssl_inited, loaded>>
            /\ UNCHANGED init_count
  /\ UNCHANGED <<bInitialized, cfg_lock, num_opened_dev, num_instances, dev_list, inst_list,
                 ssl_dev, lockVars, owned>>

\* After the lock was released.
TermFinal(t) ==
  /\ pc[t] = "term_final"
  /\ init_count' = Decr(init_count)
  /\ bInitialized' = FALSE
  /\ Return(t, "SUCCESS")
  /\ UNCHANGED <<cfg_lock, num_opened_dev, num_instances, dev_list, inst_list, sslVars,
                 lockVars, histVars>>

-----------------------------------------------------------------------------
(* HBI_read, HBI_write, HBI_set_command, HBI_reset, HBI_sleep and HBI_wake: *)
(* one transfer on the port of the handle's device.                         *)

CallUse(t) == \E h \in HandlesOf(t) : CallHandle(t, h, "use", "use_fetch")

UseFetch(t) ==
  /\ pc[t] = "use_fetch"
  /\ CanLock
  /\ loc' = [loc EXCEPT ![t].dev = inst_list[loc[t].handle].pDev]
  /\ Goto(t, "use_begin")
  /\ UNCHANGED <<drvVars, sslVars, lockVars, histVars>>

\* Takes the device's lock and hands the port to SSL_port_rw, which checks it.
UseBegin(t) ==
  LET d == loc[t].dev
      p == dev_list[d].port
  IN
  /\ pc[t] = "use_begin"
  /\ d # NoDev
  /\ DevLockFree(d)
  /\ IF ssl_inited /\ (IF p = NoPort THEN FALSE ELSE ssl_dev[p] # {})
       THEN /\ HoldDevLock(d, t)
            /\ loc' = [loc EXCEPT ![t].port = p, ![t].client = ssl_dev[p]]
            /\ Goto(t, "use_end")
       ELSE Return(t, "INTERNAL_ERR") /\ UNCHANGED dev_locks
  /\ UNCHANGED <<drvVars, sslVars, lock, histVars>>

\* The bus transfer ends, well or not.
UseEnd(t) ==
  /\ pc[t] = "use_end"
  /\ HoldDevLock(loc[t].dev, NoThread)
  /\ \E status \in {"SUCCESS", "INTERNAL_ERR"} : Return(t, status)
  /\ UNCHANGED <<drvVars, sslVars, lock, histVars>>

-----------------------------------------------------------------------------
\* A NULL pDev is dereferenced, or an array is indexed past its end.
AtFault(t) ==
  \/ pc[t] = "close_lock" /\ CanLock /\ inst_list[loc[t].handle].pDev = NoDev
  \/ pc[t] \in {"open_port", "use_begin"} /\ loc[t].dev = NoDev
  \/ pc[t] = "open_commit" /\ (loc[t].slot = MaxInst
        \/ dev_list[loc[t].dev].num_cur_instances >= MaxInstPerDev)

\* The thread dies where it stands, with the lock it took.
Fault(t) ==
  /\ AtFault(t)
  /\ Goto(t, "dead")
  /\ IF pc[t] = "close_lock" THEN Take(t) ELSE UNCHANGED lock
  /\ UNCHANGED <<drvVars, sslVars, dev_locks, loc, histVars>>

Step(t) ==
  \/ InitCount(t) \/ InitSetup(t)
  \/ OpenCheck(t) \/ OpenLock(t) \/ OpenPort(t) \/ OpenCommit(t)
  \/ CloseLock(t) \/ ClosePort(t) \/ CloseCommit(t)
  \/ TermCheck(t) \/ TermLock(t) \/ TermFinal(t)
  \/ UseFetch(t) \/ UseBegin(t) \/ UseEnd(t)
  \/ Fault(t)

Call(t) ==
  \/ CallInit(t) \/ CallTerm(t) \/ CallClose(t) \/ CallUse(t)
  \/ \E id \in DeviceIds : CallOpen(t, id)

Next == \E t \in Threads : Call(t) \/ Step(t)

Spec == Init /\ [][Next]_vars

\* A kernel mutex hands itself to its waiters: a thread that is again and again able to take the
\* lock it waits for takes it in the end.
FairSpec == Spec /\ \A t \in Threads : SF_vars(Step(t))

-----------------------------------------------------------------------------
(* Properties *)

Labels == {"idle", "init_count", "init_setup", "open_check", "open_lock", "open_port",
           "open_commit", "close_lock", "close_port", "close_commit", "term_check",
           "term_lock", "term_final", "use_fetch", "use_begin", "use_end", "dead"}
Statuses == {"none", "SUCCESS", "NOT_INIT", "RESOURCE_ERR", "INTERNAL_ERR", "BAD_HANDLE",
             "INVALID_STATE"}
Clients == {{}} \cup {{i} : i \in DeviceIds}
DevRec  == [deviceId : DeviceIds \cup {0}, port : DevSlots \cup {NoPort}, port_lock : Clients,
            instances : [0 .. MaxInstPerDev - 1 -> InstSlots \cup {InvalidId}],
            num_cur_instances : 0 .. MaxInstPerDev, inuse : BOOLEAN]
InstRec == [pDev : DevSlots \cup {NoDev}, inuse : BOOLEAN]
CallRec == [op : {"none", "init", "open", "close", "term", "use"}, id : DeviceIds \cup {0},
            handle : InstSlots \cup {0}, slot : InstSlots \cup {0, MaxInst},
            dev : DevSlots \cup {NoDev}, port : DevSlots \cup {NoPort}, client : Clients]

\* Every variable keeps its type: in particular no counter of hbi_priv goes below zero or
\* beyond the table it counts.
TypeOK ==
  /\ bInitialized \in BOOLEAN /\ init_count \in Nat /\ cfg_lock \in BOOLEAN
  /\ num_opened_dev \in 0 .. MaxDevs /\ num_instances \in 0 .. MaxInst
  /\ dev_list \in [DevSlots -> DevRec]
  /\ inst_list \in [InstSlots -> InstRec]
  /\ ssl_inited \in BOOLEAN /\ ssl_dev \in [DevSlots -> Clients]
  /\ lock \in Threads \cup {NoThread} /\ dev_locks \in [DeviceIds -> Threads \cup {NoThread}]
  /\ pc \in [Threads -> Labels] /\ loc \in [Threads -> CallRec]
  /\ res \in [Threads -> Statuses]
  /\ owned \in [Threads -> SUBSET [handle : InstSlots, id : DeviceIds]]
  /\ loaded \in Nat

UsedInsts   == {s \in InstSlots : inst_list[s].inuse}
UsersOf(d)  == {s \in UsedInsts : inst_list[s].pDev = d}
UsedDevs    == {d \in DevSlots : dev_list[d].inuse}

\* The counters HBI_open and HBI_close maintain by increments are what the tables say:
\* users of the driver, users of each device, open devices, and one open port of the
\* system service layer for each open device.
CountsAgree ==
  /\ num_instances = Cardinality(UsedInsts)
  /\ \A d \in DevSlots : dev_list[d].num_cur_instances = Cardinality(UsersOf(d))
  /\ num_opened_dev = Cardinality(UsedDevs)
  /\ {dev_list[d].port : d \in UsedDevs} = {p \in DevSlots : ssl_dev[p] # {}}

\* A handle belongs to one thread and, from HBI_open's return until its own HBI_close
\* shuts the port, reaches the device it was opened for, whatever the others open and close.
HandleKeepsDevice ==
  \A t \in Threads : \A g \in owned[t] :
    LET i == inst_list[g.handle] IN
    /\ i.inuse /\ i.pDev # NoDev
    /\ dev_list[i.pDev].deviceId = g.id
    /\ \/ dev_list[i.pDev].port # NoPort /\ ssl_dev[dev_list[i.pDev].port] = {g.id}
       \/ pc[t] = "close_commit" /\ loc[t].handle = g.handle
    /\ \A u \in Threads : \A f \in owned[u] : f.handle = g.handle => f = g /\ u = t

\* HBI_open never runs off the end of a table: the user limit is checked before the lock
\* (hbi.c:133) and may be reached by the time it is taken, yet a slot is found for every
\* user the device limits let in.
NoOverrun == \A t \in Threads : pc[t] = "dead" => loc[t].op # "open"

\* The driver stays initialised, with a count for every handle in use and for every
\* HBI_init not yet matched, so that no HBI_close takes it from under the other users.
DriverHeld ==
  /\ UsedInsts # {} \/ loaded > 0 => bInitialized /\ ssl_inited
  /\ init_count >= loaded + Cardinality(UsedInsts)

\* A thread that uses and closes only the handles it was given, between HBI_init and
\* HBI_term, is never refused: no call finds the driver down, the handle dead or, in the
\* HBI_term that ends HBI_close, the driver in use.
OwnersNotRefused ==
  \A t \in Threads : res[t] \notin {"NOT_INIT", "BAD_HANDLE", "INVALID_STATE"}

\* The driver implements the table of handles its header describes.
Table == INSTANCE HandleTable WITH
  Handles <- InstSlots, Devices <- DeviceIds,
  MaxOpenDevices <- MaxDevs, MaxUsers <- MaxInstPerDev,
  users <- [s \in UsedInsts |-> dev_list[inst_list[s].pDev].deviceId],
  ports <- {dev_list[d].deviceId : d \in UsedDevs}
ImplementsHandleTable == Table!Spec

\* While a transfer is on the bus its port stays open on the device it was started for, even
\* if another user closes the handle: HBI_close waits for the device's lock.
TransferKeepsPort ==
  \A t \in Threads : pc[t] = "use_end" => /\ loc[t].client # {}
                                          /\ ssl_dev[loc[t].port] = loc[t].client

\* Every call returns, though it may need the driver's lock and its device's together and several
\* times over: no two calls wait for each other, and none waits for ever, unless a thread has
\* died in the driver with its lock.
CallsReturn ==
  \A t \in Threads :
    pc[t] # "idle" ~> pc[t] \in {"idle", "dead"} \/ \E u \in Threads : pc[u] = "dead" /\ lock = u

\* hbi.h:288, HBI_term "Deallocates and deinitializes all resources as acquired in
\* HBI_init()": once each HBI_init was matched and each handle closed, the driver is down.
TermReleasesAll ==
  (Quiet /\ loaded = 0 /\ \A t \in Threads : owned[t] = {}) => ~bInitialized /\ ~ssl_inited

=============================================================================
