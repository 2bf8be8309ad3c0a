------------------------------- MODULE HbiKernel -------------------------------
(***************************************************************************)
(* The Linux driver around the HBI driver (hbi_k.c): module load and       *)
(* unload, devices opened and closed through the proc file system, their   *)
(* list, minor numbers and device files, and the files users have open.    *)
(* Below it, the HBI driver is the table of handles of HandleTable and its *)
(* initialisation count; beside it, the ALSA codec is another user of the  *)
(* HBI driver.                                                             *)
(*                                                                         *)
(* One operation at a time changes the device list (load, unload, a write  *)
(* to a proc entry); files are opened, used and closed at any moment.      *)
(***************************************************************************)
EXTENDS Naturals, FiniteSets, Sequences, SequencesExt

CONSTANTS
  NumDevs,     \* VPROC_MAX_NUM_DEVS: board devices and minor numbers
  MaxUsers,    \* HBI_MAX_INST_PER_DEV
  Files,       \* file descriptors
  MaxFails,    \* bound: calls of the HBI driver that fail in one load of the module
  CodecDev,    \* the codec's parameter deviceId
  None         \* no device, handle, minor number or name

ASSUME KernelConstantsOK ==
  /\ NumDevs \in Nat \ {0} /\ MaxUsers \in Nat \ {0} /\ MaxFails \in Nat
  /\ CodecDev \in 0 .. NumDevs - 1
  /\ None \notin Nat /\ None \notin {"up", "err", "freed", "load", "unload", "proc"}

Ids     == 0 .. NumDevs - 1
Minors  == 0 .. NumDevs - 1
Handles == 0 .. NumDevs * MaxUsers - 1
Structs == 1 .. NumDevs + 1          \* what kmalloc has for struct hbi_dev
Gone    == NumDevs + 2               \* of a file: the module that opened it was removed
FreeMem == [id |-> None, handle |-> None, minor |-> None]
NoOp    == [pc |-> "none", by |-> None, i |-> 0, s |-> 0, todo |-> <<>>]

VARIABLES
  mod,         \* "out", "loading", "in", or "oops" once freed memory was used
  chrdev, cls, \* the character device and the class of hbi_lnx_drv_priv
  minors,      \* the bitmap
  list,        \* hbi_lnx_drv_priv.list, from its head
  devs,        \* each struct hbi_dev: memory that is free, or the device it is for
  nodes,       \* the device files: minor number to the name hbi<deviceId>
  users,       \* the HBI driver's handles, each with its device
  init_count,  \* of the HBI driver
  op,          \* the operation under way on the device list
  files,       \* the struct hbi_dev each open file holds, Gone, or 0 if it is not open
  codec,       \* the handle of the ALSA codec
  named,       \* history: the device each open file was opened for
  cut,         \* history: files open on a device while it is closed, or on a module that is removed
  failedLoad, refused, failed,  \* history: a load failed; HBI_close failed; failures
  abandoned    \* history: handles whose HBI_close failed and whose user has forgotten them

priv     == <<chrdev, cls, minors, list, devs, nodes>>
drvTable == <<users, init_count>>
histVars == <<failedLoad, refused, failed, abandoned>>
fileVars == <<files, named, cut>>
kVars    == <<mod, priv, drvTable, op, fileVars, codec, histVars>>

Init ==
  /\ mod = "out" /\ chrdev = None /\ cls = None
  /\ minors = {} /\ list = <<>> /\ devs = [s \in Structs |-> FreeMem]
  /\ nodes = [m \in Minors |-> None]
  /\ users = [h \in Handles |-> None] /\ init_count = 0
  /\ op = NoOp /\ codec = None
  /\ files = [f \in Files |-> 0] /\ named = [f \in Files |-> None] /\ cut = {}
  /\ failedLoad = FALSE /\ refused = FALSE /\ failed = 0 /\ abandoned = {}

-----------------------------------------------------------------------------
Allocated == {s \in Structs : devs[s] # FreeMem}

(* The HBI driver, by what HBI_open and HBI_close promise. *)

Used(us)        == {h \in Handles : us[h] # None}
UsersOn(us, id) == {h \in Handles : us[h] = id}
Least(S)        == CHOOSE x \in S : \A y \in S : x <= y

RoomFor(id) == Used(users) # Handles /\ Cardinality(UsersOn(users, id)) < MaxUsers
NewHandle   == Least(Handles \ Used(users))

Fails == failed < MaxFails /\ failed' = failed + 1

\* Variant: HBI_open does not count an HBI_init of its own.
OpensUncounted(id) ==
  /\ RoomFor(id)
  /\ users' = [users EXCEPT ![NewHandle] = id] /\ UNCHANGED init_count
\* HBI_open counts an HBI_init, and keeps it if it fails.
DriverOpens(id) ==
  /\ RoomFor(id)
  /\ users' = [users EXCEPT ![NewHandle] = id]
  /\ init_count' = init_count + 1
DriverRefuses ==
  Fails /\ init_count' = init_count + 1 /\ UNCHANGED users

\* HBI_term with users us and count c: whether it succeeds, and the count it leaves.
TermOK(us, c)    == c # 1 \/ Used(us) = {}
\* Variant: HBI_term does not look whether it was initialised.
TermAlways(us, c) == c - 1
TermCount(us, c) == IF c > 1 \/ (c = 1 /\ Used(us) = {}) THEN c - 1 ELSE c

\* HBI_close, ending in HBI_term, whose failure is its own; it does nothing and fails if the
\* port of the last user does not close.
ClosesWell(h) == TermOK([users EXCEPT ![h] = None], init_count)
DriverCloses(h) ==
  LET us == [users EXCEPT ![h] = None] IN
  users' = us /\ init_count' = TermCount(us, init_count) /\ UNCHANGED <<refused, failed>>
DriverKeeps(h) ==
  /\ Cardinality(UsersOn(users, users[h])) = 1
  /\ Fails /\ refused' = TRUE /\ UNCHANGED drvTable

-----------------------------------------------------------------------------
(* internal_hbi_open, for device id *)

Oops == mod' = "oops" /\ UNCHANGED <<priv, drvTable, op, fileVars, codec, histVars>>

\* Variant: the device is not closed when its file cannot be created.
UndoKeepsHandle(s) == UNCHANGED <<drvTable, refused, failed, abandoned>>
Undo(s) ==
  \/ DriverCloses(devs[s].handle) /\ UNCHANGED abandoned
  \/ DriverKeeps(devs[s].handle) /\ abandoned' = abandoned \cup {devs[s].handle}

\* Back in hbi_drv_init, or in the proc entry.
OpenFails ==
  /\ op' = IF op.by = "load" THEN [op EXCEPT !.pc = "exit", !.todo = list] ELSE NoOp
  /\ failedLoad' = (failedLoad \/ op.by = "load")
OpenDone ==
  op' = IF op.by = "load" THEN [op EXCEPT !.pc = "next", !.i = @ + 1] ELSE NoOp

\* kmalloc and HBI_open.
OpenDevice ==
  /\ op.pc = "open"
  /\ \/ /\ \E s \in Structs : devs[s] = FreeMem
        /\ DriverOpens(op.i)
        /\ LET s == Least({x \in Structs : devs[x] = FreeMem}) IN
             /\ devs' = [devs EXCEPT ![s] = [id |-> op.i, handle |-> NewHandle, minor |-> None]]
             /\ op' = [op EXCEPT !.pc = "node", !.s = s]
        /\ UNCHANGED histVars
     \/ DriverRefuses /\ OpenFails /\ UNCHANGED <<devs, refused, abandoned>>
     \/ OpenFails /\ UNCHANGED <<devs, drvTable, refused, failed, abandoned>>     \* no memory
  /\ UNCHANGED <<mod, chrdev, cls, minors, list, nodes, fileVars, codec>>

\* device_create: refuses a name or a number that is in use, and a class that is an error.
Created(m) == nodes[m] = None /\ (\A n \in Minors : nodes[n] # op.i) /\ cls # "err"

\* The device file, under the first free minor number, and its bit.
CreateNode ==
  /\ op.pc = "node"
  /\ \/ /\ minors # Minors
        /\ LET m == Least(Minors \ minors) IN
             /\ Created(m)
             /\ nodes' = [nodes EXCEPT ![m] = IF @ = None THEN op.i ELSE @]
             /\ minors' = minors \cup {m}
             /\ devs' = [devs EXCEPT ![op.s].minor = m]
        /\ op' = [op EXCEPT !.pc = "list"]
        /\ UNCHANGED <<drvTable, histVars, mod>>
     \/ /\ Undo(op.s)
        /\ devs' = [devs EXCEPT ![op.s] = FreeMem]
        /\ OpenFails
        /\ UNCHANGED <<nodes, minors, mod>>
  /\ UNCHANGED <<chrdev, cls, list, fileVars, codec>>

\* list_add, and the device's proc entries.
AddToList ==
  /\ op.pc = "list"
  /\ list' = <<op.s>> \o list
  /\ OpenDone
  /\ UNCHANGED <<mod, chrdev, cls, minors, devs, nodes, drvTable, fileVars, codec, histVars>>

-----------------------------------------------------------------------------
(* internal_hbi_close *)

FilesOn(s) == {f \in Files : files[f] = s}
CloseReturns == op' = IF op.by = "proc" THEN NoOp ELSE [op EXCEPT !.pc = "exit"]

CloseDevice ==
  /\ op.pc = "close"
  /\ \E ok \in BOOLEAN :
       /\ IF ok THEN DriverCloses(devs[op.s].handle) ELSE DriverKeeps(devs[op.s].handle)
       /\ IF ok /\ ClosesWell(devs[op.s].handle) THEN op' = [op EXCEPT !.pc = "unlist"]
                                                ELSE CloseReturns
       /\ cut' = IF ok THEN cut \cup FilesOn(op.s) ELSE cut
  /\ UNCHANGED <<mod, priv, files, named, codec, failedLoad, abandoned>>

TakeOffList ==
  /\ op.pc = "unlist"
  /\ \E k \in 1 .. Len(list) : list[k] = op.s /\ list' = RemoveAt(list, k)
  /\ op' = [op EXCEPT !.pc = "destroy"]
  /\ UNCHANGED <<mod, chrdev, cls, minors, devs, nodes, drvTable, fileVars, codec, histVars>>

\* device_destroy, clear_bit, and kfree.
DestroyNode ==
  /\ op.pc = "destroy"
  /\ LET m == devs[op.s].minor IN
       nodes' = [nodes EXCEPT ![m] = None] /\ minors' = minors \ {m}
  /\ devs' = [devs EXCEPT ![op.s] = FreeMem]
  /\ CloseReturns
  /\ UNCHANGED <<mod, chrdev, cls, list, drvTable, fileVars, codec, histVars>>

-----------------------------------------------------------------------------
(* Module load and unload. The errors of hbi_drv_init before it creates the class undo what
   they did and leave no module. *)

\* HBI_init may fail: its result is not looked at.  The module's data are new.  After an unload
\* that left a structure, a device file or the character device behind the module is not loaded
\* again.
Load ==
  /\ mod = "out" /\ Allocated = {} /\ chrdev # "up" /\ \A m \in Minors : nodes[m] = None
  /\ mod' = "loading" /\ chrdev' = "up" /\ cls' \in {"up", "err"}
  /\ minors' = {} /\ list' = <<>>
  /\ users' = [h \in Handles |-> None]
  /\ failed' \in {0, 1} /\ failed' <= MaxFails /\ init_count' = 1 - failed'
  /\ op' = [NoOp EXCEPT !.pc = "next", !.by = "load"]
  /\ failedLoad' = FALSE /\ refused' = FALSE /\ abandoned' = {}
  /\ UNCHANGED <<devs, nodes, fileVars, codec>>

\* The loop of hbi_drv_init over the board's devices.
LoadNext ==
  /\ op.pc = "next"
  /\ IF op.i = NumDevs THEN mod' = "in" /\ op' = NoOp
                       ELSE op' = [op EXCEPT !.pc = "open"] /\ UNCHANGED mod
  /\ UNCHANGED <<priv, drvTable, fileVars, codec, histVars>>

\* Another module that uses the driver holds it.  An open file does not: neither fops nor the
\* character device names an owner.
Unload ==
  /\ mod = "in" /\ op = NoOp /\ codec = None
  /\ op' = [NoOp EXCEPT !.pc = "exit", !.by = "unload", !.todo = list]
  /\ UNCHANGED <<mod, priv, drvTable, fileVars, codec, histVars>>

\* Variant: hbi_drv_exit closes only the device at the head of the list.
ToCloseHead(todo) == IF op.s = 0 THEN todo ELSE <<>>
ToClose(todo) == todo

\* hbi_drv_exit closes the listed devices one by one, whatever becomes of each.
ExitNext ==
  /\ op.pc = "exit"
  /\ op' = IF ToClose(op.todo) = <<>>
             THEN [op EXCEPT !.pc = "term"]
             ELSE [op EXCEPT !.pc = "close", !.s = Head(op.todo), !.todo = Tail(op.todo)]
  /\ UNCHANGED <<mod, priv, drvTable, fileVars, codec, histVars>>

\* Variant: hbi_drv_exit goes on into a tear-down it has done already.
ExitReturnsTwice ==
  /\ op' = CASE op.by = "load" -> [op EXCEPT !.pc = "next", !.i = @ + 1]
             [] op.by # "load" /\ op.i = 0 -> [op EXCEPT !.i = 1]
             [] OTHER -> NoOp
  /\ mod' = IF op.by # "load" /\ op.i # 0 THEN "out" ELSE mod
\* Back in hbi_drv_init the loop goes on; otherwise the module goes.
ExitReturns ==
  IF op.by = "load" THEN op' = [op EXCEPT !.pc = "next", !.i = @ + 1] /\ UNCHANGED mod
                    ELSE op' = NoOp /\ mod' = "out"

\* Files that are open when the module goes are left with operations that are no more.
Stranded ==
  /\ files' = [f \in Files |-> IF files[f] = 0 THEN 0 ELSE Gone]
  /\ cut' = {f \in Files : files[f] # 0} /\ named' = [f \in Files |-> None]

\* HBI_term; if it fails hbi_drv_exit returns at once.
ExitTerm ==
  /\ op.pc = "term"
  /\ ExitReturns
  /\ init_count' = TermCount(users, init_count)
  /\ IF TermOK(users, init_count)
       THEN chrdev' = "freed" /\ cls' = IF cls = "err" THEN "err" ELSE "freed"
       ELSE UNCHANGED <<chrdev, cls>>
  /\ IF mod' = "out" THEN Stranded ELSE UNCHANGED fileVars
  /\ UNCHANGED <<minors, list, devs, nodes, users, codec, histVars>>

\* The class and the character device may be freed a second time, or used once they are freed.
UseFreed ==
  /\ \/ op.pc = "node" /\ cls = "freed"
     \/ op.pc = "destroy" /\ cls = "freed"
     \/ op.pc = "term" /\ TermOK(users, init_count) /\ (cls = "freed" \/ chrdev = "freed")
  /\ Oops

\* A device file or a proc entry that the removed module has left is opened.
UseRemoved == mod = "out" /\ chrdev = "up" /\ Oops

-----------------------------------------------------------------------------
(* The proc entries of the driver, which are there while its character device is *)

\* hbi_proc_open_dev_wr
ProcOpen(id) ==
  /\ mod = "in" /\ chrdev = "up" /\ op = NoOp
  /\ op' = [NoOp EXCEPT !.pc = "open", !.by = "proc", !.i = id]
  /\ UNCHANGED <<mod, priv, drvTable, fileVars, codec, histVars>>

\* hbi_proc_close_dev_wr: the first device with this address; the board has one address a device.
ProcClose(id) ==
  /\ mod = "in" /\ chrdev = "up" /\ op = NoOp
  /\ \E k \in 1 .. Len(list) :
       /\ devs[list[k]].id = id
       /\ \A j \in 1 .. k - 1 : devs[list[j]].id # id
       /\ op' = [NoOp EXCEPT !.pc = "close", !.by = "proc", !.s = list[k]]
  /\ UNCHANGED <<mod, priv, drvTable, fileVars, codec, histVars>>

-----------------------------------------------------------------------------
(* Device files *)

\* Variant: the device is found by its position in the list.
ByPosition(m) == {list[k] : k \in {j \in 1 .. Len(list) : j = m + 1}}
\* The listed device whose t_dev is the number of the file that is opened.
ByNumber(m) == {s \in ToSet(list) : devs[s].minor = m}

\* hbi_io_open; without such a device the result is -ENXIO.  Nothing keeps it out while the
\* module is loaded or removed.  It finds the device and hands it to the file in one step: a file
\* no call can use yet is as good as open, and its device may be closed at once.
IoOpen(f, id) ==
  /\ mod \in {"loading", "in"} /\ chrdev = "up"
  /\ files[f] = 0
  /\ \E m \in Minors : \E s \in ByNumber(m) :
       /\ nodes[m] = id
       /\ files' = [files EXCEPT ![f] = s] /\ named' = [named EXCEPT ![f] = id]
       /\ cut' = IF op.pc = "unlist" /\ op.s = s THEN cut \cup {f} ELSE cut
  /\ UNCHANGED <<mod, priv, drvTable, op, codec, histVars>>

\* The memory that a call on open file f would use is free.
Dead(f) == files[f] = Gone \/ (files[f] \in Structs /\ devs[files[f]] = FreeMem)

\* hbi_io_close
IoClose(f) ==
  /\ files[f] \in Structs
  /\ files' = [files EXCEPT ![f] = 0] /\ named' = [named EXCEPT ![f] = None]
  /\ cut' = cut \ {f}
  /\ UNCHANGED <<mod, priv, drvTable, op, codec, histVars>>

-----------------------------------------------------------------------------
(* The ALSA codec *)

\* HBI_init, and HBI_open; HBI_term if it fails.
CodecProbe ==
  /\ mod = "in" /\ op.by # "unload" /\ codec = None
  /\ \/ /\ RoomFor(CodecDev)
        /\ codec' = NewHandle
        /\ users' = [users EXCEPT ![NewHandle] = CodecDev]
        /\ init_count' = init_count + 2
        /\ UNCHANGED failed
     \/ /\ Fails
        /\ init_count' = TermCount(users, init_count + 2)
        /\ UNCHANGED <<codec, users>>
  /\ UNCHANGED <<mod, priv, op, fileVars, failedLoad, refused, abandoned>>

\* HBI_close and HBI_term, whatever the first returns.
CodecRemove ==
  /\ codec # None
  /\ codec' = None
  /\ \/ LET us == [users EXCEPT ![codec] = None] IN
          /\ users' = us
          /\ init_count' = TermCount(us, TermCount(us, init_count))
          /\ UNCHANGED <<refused, failed, abandoned>>
     \/ /\ Fails /\ Cardinality(UsersOn(users, CodecDev)) = 1
        /\ init_count' = TermCount(users, init_count)
        /\ refused' = TRUE /\ abandoned' = abandoned \cup {codec} /\ UNCHANGED users
  /\ UNCHANGED <<mod, priv, op, fileVars, failedLoad>>

-----------------------------------------------------------------------------
ControlStep ==
  /\ mod # "oops"
  /\ \/ OpenDevice \/ CreateNode \/ AddToList \/ CloseDevice \/ TakeOffList \/ DestroyNode
     \/ Load \/ LoadNext \/ Unload \/ ExitNext \/ ExitTerm \/ UseFreed \/ UseRemoved
     \/ \E id \in Ids : ProcOpen(id) \/ ProcClose(id)
     \/ CodecProbe \/ CodecRemove

-----------------------------------------------------------------------------
(* Properties *)

Listed    == ToSet(list)
Settled   == mod = "in" /\ op = NoOp

\* An HBI_close was refused, and hbi_drv_exit, called when a device fails to open at load, has
\* since called HBI_term with its handle still in use.  Counts are then missing for the handles
\* that are left: a later HBI_close may free its handle, fail in HBI_term, and so leave a
\* structure without one on the list.  It takes four devices, three failures and a module that
\* stays loaded all the same.
Loose == refused /\ chrdev # "up"

\* Whatever failed on the way (memory, HBI_open, the device file, HBI_close), when no operation
\* is under way every structure is on the list once, has a handle of the HBI driver of its own
\* for its device, a minor number of its own, the device file of that number, and nobody else
\* has a handle, a bit or a file, but the codec and whoever let a failed HBI_close pass.
NothingLeaks ==
  Settled /\ ~Loose =>
    /\ Cardinality(Listed) = Len(list) /\ Allocated = Listed
    /\ \A s \in Listed : users[devs[s].handle] = devs[s].id /\ nodes[devs[s].minor] = devs[s].id
    /\ Used(users) = {devs[s].handle : s \in Listed} \cup ({codec} \ {None}) \cup abandoned
    /\ Cardinality(Used(users) \ abandoned) = Len(list) + (IF codec = None THEN 0 ELSE 1)
    /\ minors = {devs[s].minor : s \in Listed} /\ Cardinality(minors) = Len(list)
    /\ minors = {m \in Minors : nodes[m] # None}

\* The HBI driver keeps a count of its initialisation for every handle, though hbi_drv_exit calls
\* HBI_term for each device that fails to open at load and again when the module goes; as long
\* as devices can be closed, or nothing failed to open.
HandlesCounted == ~Loose => Cardinality(Used(users)) <= init_count

\* A file that was opened as hbi<deviceId> is on that device, through opens and closes of all
\* devices and reused minor numbers and structures, until that device is closed.
FileReachesDevice ==
  \A f \in Files : files[f] # 0 /\ f \notin cut =>
    /\ files[f] # Gone /\ devs[files[f]] # FreeMem
    /\ devs[files[f]].id = named[f] /\ users[devs[files[f]].handle] = named[f]

\* Unless a device could not be closed, the module leaves no device, structure, device file or
\* registration behind, and leaves the HBI driver down if no HBI_open failed and no load did.
UnloadReleases ==
  mod = "out" /\ ~refused =>
    /\ Allocated = {} /\ Used(users) = {} /\ minors = {}
    /\ \A m \in Minors : nodes[m] = None
    /\ chrdev # "up" /\ cls # "up"
    /\ failed = 0 => init_count = 0

\* The driver uses memory that was freed in three cases only: after a load in which a device
\* could not be opened; by a call on a file that is left without its device, because that was
\* closed, or without its driver, because the module was removed, while the file was open; and
\* through what a module leaves that is removed after a device of it could not be closed.
OopsExplained ==
  mod = "oops" =>
    \/ failedLoad
    \/ \E f \in cut : Dead(f)
    \/ refused /\ op = NoOp /\ chrdev = "up"

=============================================================================
