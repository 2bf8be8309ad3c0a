-------------------------------- MODULE HbiUser --------------------------------
(***************************************************************************)
(* Processes that use the devices through the user library (hbi_u.c), down *)
(* through the ioctls of the Linux driver (internal_hbi_drv_ioctl in       *)
(* hbi_k.c) to HBI_set_command and the other calls of the HBI driver, while *)
(* devices come and go under them (HbiKernel).                             *)
(*                                                                         *)
(* A process has one thread.  A call of the library that needs the driver  *)
(* is its ioctl: the copy into the device's buffer, if it carries data,    *)
(* the command to the HBI driver, and the return.                          *)
(***************************************************************************)
EXTENDS HbiKernel

CONSTANTS
  Procs,
  Owner,       \* the process of each file descriptor
  Uses,        \* the devices each process opens
  May,         \* the calls each process makes, with their arguments
  Blocks,      \* blocks of data, and those too long for the buffer
  TooLong,
  ImageNums,   \* image numbers
  MaxInits     \* bound: unmatched calls of HBI_init and failed opens of each process, together

VARIABLES
  up, initCnt, \* gHbiDrvPriv.drvInitialised and .initCnt of each process
  hbi_buf,     \* the buffer of each struct hbi_dev
  call,        \* the upload of each process between its copy and its command
  ret,         \* the call that returns
  inits, lost  \* history: unmatched HBI_init calls, and failed HBI_open calls

NoCmd  == [cmd |-> None, arg |-> None, dev |-> None]
NoCall == [f |-> None, cmd |-> None, arg |-> None]
NoRet  == [f |-> None, cmd |-> None, arg |-> None, got |-> NoCmd, res |-> None]

libVars == <<up, initCnt, inits, lost>>
uVars   == <<libVars, hbi_buf, call, ret>>
vars    == <<kVars, uVars>>

UInit ==
  /\ Init
  /\ up = [p \in Procs |-> FALSE] /\ initCnt = [p \in Procs |-> 0]
  /\ hbi_buf = [s \in Structs |-> None]
  /\ call = [p \in Procs |-> NoCall] /\ ret = NoRet
  /\ inits = [p \in Procs |-> 0] /\ lost = [p \in Procs |-> 0]

-----------------------------------------------------------------------------
(* HBI_init, HBI_open, HBI_close, HBI_term of the library *)

Idle(p) == call[p] = NoCall
Result(f, r) == ret' = [NoRet EXCEPT !.f = f, !.res = r]

Counted(p) == initCnt' = [initCnt EXCEPT ![p] = @ + 1] /\ up' = [up EXCEPT ![p] = TRUE]
\* Variant: the count is checked against one instead of zero, after it was decremented.
UncountedEarly(p) ==
  IF ~up[p] THEN UNCHANGED <<up, initCnt>>
  ELSE initCnt' = [initCnt EXCEPT ![p] = @ - 1] /\ up' = [up EXCEPT ![p] = initCnt[p] > 2]
\* HBI_term
Uncounted(p) ==
  IF ~up[p] THEN UNCHANGED <<up, initCnt>>
  ELSE initCnt' = [initCnt EXCEPT ![p] = @ - 1] /\ up' = [up EXCEPT ![p] = initCnt[p] # 1]

LibInit(p) ==
  /\ Idle(p) /\ inits[p] + lost[p] < MaxInits[p]
  /\ Counted(p) /\ inits' = [inits EXCEPT ![p] = @ + 1]
  /\ UNCHANGED <<kVars, hbi_buf, call, ret, lost>>

LibTerm(p) ==
  /\ Idle(p) /\ inits[p] > 0
  /\ Uncounted(p) /\ inits' = [inits EXCEPT ![p] = @ - 1]
  /\ UNCHANGED <<kVars, hbi_buf, call, ret, lost>>

\* HBI_init comes first, and keeps its count if the device file cannot be opened.
LibOpen(p, f, id) ==
  /\ Idle(p) /\ Owner[f] = p /\ files[f] = 0 /\ id \in Uses[p]
  /\ Counted(p)
  /\ \/ IoOpen(f, id) /\ UNCHANGED lost
     \/ /\ inits[p] + lost[p] < MaxInits[p]
        /\ lost' = [lost EXCEPT ![p] = @ + 1]
        /\ UNCHANGED kVars
  /\ UNCHANGED <<hbi_buf, call, ret, inits>>

\* A descriptor that is not open is refused by close(), and HBI_term is not reached.
LibClose(p, f) ==
  /\ Idle(p) /\ Owner[f] = p /\ files[f] # 0
  /\ IF up[p] THEN IoClose(f) /\ Uncounted(p) /\ UNCHANGED ret    \* Gone: UseFreedDev
              ELSE Result(f, "NOT_INIT") /\ UNCHANGED <<up, initCnt, kVars>>
  /\ UNCHANGED <<hbi_buf, call, inits, lost>>

-----------------------------------------------------------------------------
(* The calls that reach a device.  The library names an ioctl for each, the driver a command. *)

Ioctl == [LOAD_FWR_FROM_HOST    |-> "HBI_LOAD_FW",
          LOAD_CFGREC_FROM_HOST |-> "HBI_LOAD_CFG",
          LOAD_FWR_COMPLETE     |-> "HBI_LOAD_FW_COMPLETE",
          START_FWR             |-> "HBI_START_FW",
          LOAD_FWRCFG_FROM_FLASH  |-> "HBI_FLASH_LOAD_FWR_CFGREC",
          ERASE_FWRCFG_FROM_FLASH |-> "HBI_FLASH_ERASE_FWRCFGREC",
          ERASE_WHOLE_FLASH       |-> "HBI_FLASH_ERASE_WHOLE",
          SAVE_FWRCFG_TO_FLASH    |-> "HBI_FLASH_SAVE_FWR_CFGREC",
          SAVE_CFG_TO_FLASH       |-> "HBI_FLASH_SAVE_CFGREC",
          SLEEP |-> "HBI_SLEEP", WAKE |-> "HBI_WAKE", READ |-> "HBI_READ", WRITE |-> "HBI_WRITE"]

Calls  == DOMAIN Ioctl
Upload == {"LOAD_FWR_FROM_HOST", "LOAD_CFGREC_FROM_HOST"}
ByImage == {"LOAD_FWRCFG_FROM_FLASH", "ERASE_FWRCFG_FROM_FLASH", "SAVE_CFG_TO_FLASH"}
ArgsOf(c) == IF c \in Upload THEN Blocks ELSE IF c \in ByImage THEN ImageNums ELSE {None}

ASSUME UserConstantsOK ==
  /\ \A p \in Procs : \A m \in May[p] : m[1] \in Calls /\ m[2] \in ArgsOf(m[1])
  /\ Owner \in [Files -> Procs] /\ TooLong \subseteq Blocks
  /\ \A n \in ImageNums : n \in Nat /\ n < 256 * 256      \* two bytes
  /\ MaxInits \in [Procs -> Nat]
  /\ None \notin {"SUCCESS", "NOT_INIT", "BAD_HANDLE"}

\* The driver's switch.
DriverCall == [HBI_LOAD_FW          |-> "LOAD_FWR_FROM_HOST",
               HBI_LOAD_CFG         |-> "LOAD_CFGREC_FROM_HOST",
               HBI_LOAD_FW_COMPLETE |-> "LOAD_FWR_COMPLETE",
               HBI_START_FW         |-> "START_FWR",
               HBI_FLASH_LOAD_FWR_CFGREC |-> "LOAD_FWRCFG_FROM_FLASH",
               HBI_FLASH_ERASE_FWRCFGREC |-> "ERASE_FWRCFG_FROM_FLASH",
               HBI_FLASH_ERASE_WHOLE     |-> "ERASE_WHOLE_FLASH",
               HBI_FLASH_SAVE_FWR_CFGREC |-> "SAVE_FWRCFG_TO_FLASH",
               HBI_FLASH_SAVE_CFGREC     |-> "SAVE_CFG_TO_FLASH",
               HBI_SLEEP |-> "SLEEP", HBI_WAKE |-> "WAKE", HBI_READ |-> "READ", HBI_WRITE |-> "WRITE"]

\* An image number goes to the HBI driver as two bytes, the more significant one first, which
\* is what the device reads; the HBI driver's own check reads them on a little-endian host.
Bytes(n) == <<(n \div 256) % 256, n % 256>>
OnDevice(b)  == b[1] * 256 + b[2]
HostReads(b) == b[2] * 256 + b[1]
Accepts(c, n) ==
  CASE c \in {"LOAD_FWRCFG_FROM_FLASH", "ERASE_FWRCFG_FROM_FLASH"} ->
         HostReads(Bytes(n)) \in 1 .. 32767
    [] c = "SAVE_CFG_TO_FLASH" -> OnDevice(Bytes(n)) # 0
    [] OTHER -> TRUE

\* Variant: the buffer is one for all devices.
BufOfFirst(s) == 1
BufOf(s) == s

\* What the HBI driver does with command c and data a on the device of the file: it may refuse.
Carried(f, c, arg, a) ==
  LET s == files[f]
      k == DriverCall[Ioctl[c]] IN
  IF devs[s] = FreeMem \/ users[devs[s].handle] = None
    THEN Result(f, "BAD_HANDLE")
    ELSE \/ /\ Accepts(c, arg)
            /\ ret' = [f |-> f, cmd |-> c, arg |-> arg, res |-> "SUCCESS",
                       got |-> [cmd |-> k, arg |-> a, dev |-> users[devs[s].handle]]]
         \/ Result(f, "COMMAND_ERR")

MayCall(p, f, c, a) == Idle(p) /\ Owner[f] = p /\ files[f] \in Structs /\ <<c, a>> \in May[p]

\* A call without data, or with an image number.
CallDriver(p, f, c, a) ==
  /\ MayCall(p, f, c, a) /\ c \notin Upload
  /\ IF ~up[p] THEN Result(f, "NOT_INIT")
               ELSE Carried(f, c, a, IF c \in ByImage THEN OnDevice(Bytes(a)) ELSE None)
  /\ UNCHANGED <<kVars, hbi_buf, call, libVars>>

\* The ioctls with data copy it, and refuse what is longer than the buffer.  Uploads to a device
\* are one process's at a time.
Copy(p, f, c, a) ==
  /\ MayCall(p, f, c, a) /\ c \in Upload
  /\ \A q \in Procs : ~Idle(q) => files[call[q].f] # files[f]
  /\ IF ~up[p] \/ a \in TooLong
       THEN Result(f, IF up[p] THEN "RESOURCE_ERR" ELSE "NOT_INIT") /\ UNCHANGED <<hbi_buf, call>>
       ELSE /\ hbi_buf' = [hbi_buf EXCEPT ![BufOf(files[f])] = a]
            /\ call' = [call EXCEPT ![p] = [f |-> f, cmd |-> c, arg |-> a]]
            /\ UNCHANGED ret
  /\ UNCHANGED <<kVars, libVars>>

\* Then they hand the buffer to the HBI driver.  Its bytes are not read again.
Command(p) ==
  LET b == BufOf(files[call[p].f]) IN
  /\ ~Idle(p) /\ files[call[p].f] # Gone
  /\ Carried(call[p].f, call[p].cmd, call[p].arg, hbi_buf[b])
  /\ hbi_buf' = [hbi_buf EXCEPT ![b] = None]
  /\ call' = [call EXCEPT ![p] = NoCall]
  /\ UNCHANGED <<kVars, libVars>>

\* The structure of an open file was freed, or the module: a call on the file, its close even
\* if it is the module that went, finds whatever is there now.
UseFreedDev(p) ==
  /\ \E f \in Files : Owner[f] = p /\ Dead(f)
  /\ Oops /\ UNCHANGED uVars

\* The return of a call touches nothing but its caller: it is taken at once.
Return ==
  /\ ret # NoRet /\ ret' = NoRet
  /\ UNCHANGED <<kVars, hbi_buf, call, libVars>>

-----------------------------------------------------------------------------
ProcStep(p) ==
  \/ LibInit(p) \/ LibTerm(p)
  \/ \E f \in Files : LibClose(p, f)
  \/ \E f \in Files, id \in Ids : LibOpen(p, f, id)
  \/ \E f \in Files : \E m \in May[p] : CallDriver(p, f, m[1], m[2]) \/ Copy(p, f, m[1], m[2])
  \/ Command(p) \/ UseFreedDev(p)

Next ==
  \/ Return
  \/ ret = NoRet /\ ControlStep /\ UNCHANGED uVars
  \/ ret = NoRet /\ mod # "oops" /\ \E p \in Procs : ProcStep(p)

Spec == UInit /\ [][Next]_vars

-----------------------------------------------------------------------------
(* Properties *)

FilesOf(p) == {f \in Files : Owner[f] = p /\ files[f] # 0}

\* Every variable keeps its type.
TypeOK ==
  /\ mod \in {"out", "loading", "in", "oops"} /\ chrdev \in {None, "up", "freed"}
  /\ cls \in {None, "up", "err", "freed"} /\ minors \subseteq Minors
  /\ list \in Seq(Structs) /\ Len(list) <= NumDevs
  /\ devs \in [Structs -> {FreeMem} \cup [id : Ids, handle : Handles, minor : Minors \cup {None}]]
  /\ nodes \in [Minors -> Ids \cup {None}] /\ users \in [Handles -> Ids \cup {None}]
  /\ init_count \in Nat /\ codec \in Handles \cup {None}
  /\ op.pc \in {"none", "next", "open", "node", "list", "close", "unlist", "destroy", "exit", "term"}
  /\ files \in [Files -> Structs \cup {0, Gone}] /\ named \in [Files -> Ids \cup {None}]
  /\ cut \subseteq {f \in Files : files[f] # 0}
  /\ up \in [Procs -> BOOLEAN] /\ initCnt \in [Procs -> Nat]
  /\ \A p \in Procs : Idle(p) \/ (call[p].cmd \in Upload /\ files[call[p].f] # 0)
  /\ hbi_buf \in [Structs -> Blocks \cup {None}]

\* A call of the library that returns SUCCESS was carried out by the HBI driver as that command,
\* with the caller's own data or image number, on the device the file was opened for.
CommandAsAsked ==
  ret.res = "SUCCESS" /\ ret.f \notin cut =>
    ret.got = [cmd |-> ret.cmd, arg |-> ret.arg, dev |-> named[ret.f]]

\* A process that calls HBI_term no more often than HBI_init is never told that the library is
\* not initialised or its handle is dead while it has a file open whose device is.
UsersServed ==
  /\ \A p \in Procs : FilesOf(p) # {} => up[p]
  /\ ret.res \in {"NOT_INIT", "BAD_HANDLE"} => ret.f \in cut

=============================================================================
