----------------------------- MODULE HbiDriverInv -----------------------------
(***************************************************************************)
(* The inductive invariant behind the theorems of HbiDriverProofs, for a   *)
(* driver that was given a lock and whose users call HBI_init first, and   *)
(* for one that a single thread uses, whichever way.                       *)
(*                                                                         *)
(* A predicate of a place and a call says what is true of a thread that    *)
(* stands at that place (a value of pc) with that call (a value of loc).   *)
(***************************************************************************)
EXTENDS HbiDriver

\* Who may use the driver: one thread, or any number where there is a lock from the first call.
Sole   == \A t, u \in Threads : t = u
Locked == Sole \/ (DriverLock /\ ~AutoInit)

OpenLabels == {"open_check", "open_lock", "open_port", "open_commit"}
CritLabels == {"open_port", "open_commit", "close_port", "close_commit"}
TermLabels == {"term_check", "term_lock"}

\* Which call can be at which place.
Placed(label, c) ==
  /\ label = "idle" => c.op = "none"
  /\ label = "init_setup" => c.op = "init" \/ (c.op = "open" /\ Sole)
  /\ label = "init_count" => c.op \in {"init", "open"}
  /\ label \in OpenLabels => c.op = "open"
  /\ label \in {"close_lock", "close_port", "close_commit"} => c.op = "close"
  /\ label \in TermLabels \cup {"term_final"} => c.op \in {"close", "term"}
  /\ label \in {"use_fetch", "use_begin", "use_end"} => c.op = "use"
  /\ c.op = "open" => c.id \in DeviceIds
  /\ c.op = "close" => c.handle \in InstSlots
CallsPlaced == \A t \in Threads : Placed(pc[t], loc[t])

\* The HBI_init or HBI_term of the module's load or unload runs alone.
Exclusive(c) == c.op \in {"init", "term"}
LoadsAlone == \A t, u \in Threads : Exclusive(loc[t]) /\ u # t => pc[u] = "idle"

\* The driver lock is held over the stretches that change the tables, or nobody else is there.
LockHeld == \A t \in Threads : pc[t] \in CritLabels => Sole \/ (cfg_lock /\ lock = t)

\* The tables are consistent entry by entry.
EntriesOK ==
  /\ \A s \in InstSlots : inst_list[s].inuse <=> inst_list[s].pDev # NoDev
  /\ \A d \in DevSlots : dev_list[d].inuse <=> dev_list[d].port # NoPort
  /\ \A c, d \in DevSlots :
       dev_list[c].inuse /\ dev_list[c].port = dev_list[d].port => c = d

\* What a thread in the locked stretch of HBI_open or HBI_close found stays true.
FoundStill(label, c) ==
  /\ label = "open_port" /\ c.dev # NoDev => ~dev_list[c.dev].inuse
  /\ label = "open_commit" => c.dev # NoDev
  /\ label \in {"open_port", "open_commit"} /\ c.slot # MaxInst => ~inst_list[c.slot].inuse
  /\ label \in {"close_port", "close_commit"} =>
       c.dev # NoDev /\ inst_list[c.handle].pDev = c.dev
CritOK == \A t \in Threads : FoundStill(pc[t], loc[t])

\* The calls that count in init_count although no handle in use stands for them: an HBI_open
\* past its HBI_init, an HBI_close before its HBI_term.
Counted(label, c) == label \in OpenLabels \/ (label \in TermLabels /\ c.op = "close")
Busy == {t \in Threads : Counted(pc[t], loc[t])}

\* The driver is up as long as anything counts in init_count.
Up == bInitialized /\ ssl_inited
InitCovers ==
  /\ loaded > 0 \/ UsedInsts # {} \/ Busy # {} => Up
  /\ init_count >= loaded + Cardinality(UsedInsts) + Cardinality(Busy)
UpLocked ==
  /\ bInitialized => cfg_lock \/ Sole
  /\ ~bInitialized => UsedDevs = {}
  /\ bInitialized /\ ~ssl_inited => \E t \in Threads : pc[t] = "term_final"

\* What a thread counts on outside the lock.
Stands(label, c) ==
  /\ label = "init_setup" => ~bInitialized
  /\ label = "init_count" => Up
  /\ c.op = "open" => loaded > 0 \/ Sole
  /\ label \in TermLabels /\ c.op = "term" => loaded > 0
  /\ label = "term_final" => loaded = 0 /\ UsedInsts = {} /\ Busy = {} /\ UsedDevs = {}
AllStand == \A t \in Threads : Stands(pc[t], loc[t])

\* TypeOK and CountsAgree are not inductive on their own: a counter stays right only while
\* the one thread that holds the lock changes the tables, and the lock is there only while
\* the driver is not initialised anew under the calls in flight.
IInv ==
  /\ TypeOK /\ CallsPlaced /\ LoadsAlone /\ LockHeld /\ EntriesOK /\ CountsAgree /\ CritOK
  /\ InitCovers /\ UpLocked /\ AllStand

-----------------------------------------------------------------------------
(* The tables against each other, and the handles against their owners: what the theorems *)
(* of HbiTableProofs need beyond IInv.                                                     *)

\* An open device has an id of its own, and a port that talks to that id.
IdOf(d) == dev_list[d].deviceId
PortsRight ==
  \A d \in UsedDevs :
    /\ IdOf(d) \in DeviceIds /\ ssl_dev[dev_list[d].port] = {IdOf(d)}
    /\ DevLock => dev_list[d].port_lock = {IdOf(d)}
IdsDiffer == \A c, d \in UsedDevs : IdOf(c) = IdOf(d) => c = d

\* A device has users while it is open, but for the thread that opens or closes it.
UsersPlaced ==
  \A d \in DevSlots :
    /\ dev_list[d].inuse /\ UsersOf(d) = {} =>
         \E t \in Threads : pc[t] = "open_commit" /\ loc[t].dev = d
    /\ ~dev_list[d].inuse /\ UsersOf(d) # {} =>
         \E t \in Threads : pc[t] = "close_commit" /\ loc[t].dev = d

\* What the holder of the driver lock knows of the tables.
NotOpen(id) == \A d \in UsedDevs : IdOf(d) # id
Known(label, c) ==
  /\ label = "open_port" => c.dev # NoDev /\ c.slot # MaxInst /\ NotOpen(c.id)
  /\ label = "open_commit" =>
       /\ c.slot # MaxInst /\ dev_list[c.dev].inuse /\ IdOf(c.dev) = c.id
       /\ dev_list[c.dev].num_cur_instances < MaxInstPerDev
  /\ label = "close_port" => dev_list[c.dev].num_cur_instances = 1
  /\ label = "close_commit" =>
       IF dev_list[c.dev].inuse THEN dev_list[c.dev].num_cur_instances > 1
       ELSE dev_list[c.dev].num_cur_instances = 1 /\ NotOpen(IdOf(c.dev))
  /\ label = "dead" => c.op # "open"
AllKnown == \A t \in Threads : Known(pc[t], loc[t])

TableInv == PortsRight /\ IdsDiffer /\ UsersPlaced /\ AllKnown

\* A transfer holds the lock of its device, if there is one, until it ends.
Transfers(t) ==
  LET d == loc[t].dev IN
  /\ d # NoDev /\ dev_list[d].inuse
  /\ loc[t].port = dev_list[d].port /\ loc[t].client = ssl_dev[loc[t].port]
  /\ dev_locks[IdOf(d)] = t
TransfersHold == DevLock => \A t \in Threads : pc[t] = "use_end" => Transfers(t)

\* A thread that closes no handle but its own.
ClosesOwn(t) ==
  pc[t] \in {"close_lock", "close_port", "close_commit"} =>
    \E g \in owned[t] : g.handle = loc[t].handle
OwnersRight ==
  /\ \A t \in Threads : \A g \in owned[t] :
       /\ inst_list[g.handle].inuse /\ IdOf(inst_list[g.handle].pDev) = g.id
       /\ \A u \in Threads : \A f \in owned[u] : f.handle = g.handle => f = g /\ u = t
  /\ \A t \in Threads : ClosesOwn(t)

=============================================================================
