------------------------------- MODULE HbiUserInv -------------------------------
(***************************************************************************)
(* The inductive invariants of HbiKernel and HbiUser.                      *)
(***************************************************************************)
EXTENDS HbiUser

-----------------------------------------------------------------------------
(* The kernel driver *)

OpPcs == {"none", "next", "open", "node", "list", "close", "unlist", "destroy", "exit", "term"}
Taken == [id : Ids, handle : Handles, minor : Minors \cup {None}]
OpRec == [pc : OpPcs, by : {None, "load", "unload", "proc"}, i : 0 .. NumDevs,
          s : Structs \cup {0}, todo : Seq(Structs)]

KTypes ==
  /\ mod \in {"out", "loading", "in", "oops"} /\ chrdev \in {None, "up", "freed"}
  /\ cls \in {None, "up", "err", "freed"} /\ minors \subseteq Minors /\ list \in Seq(Structs)
  /\ devs \in [Structs -> {FreeMem} \cup Taken] /\ nodes \in [Minors -> Ids \cup {None}]
  /\ users \in [Handles -> Ids \cup {None}] /\ init_count \in Nat /\ codec \in Handles \cup {None}
  /\ op \in OpRec
  /\ files \in [Files -> Structs \cup {0, Gone}] /\ named \in [Files -> Ids \cup {None}]
  /\ cut \subseteq {f \in Files : files[f] # 0}
  /\ failedLoad \in BOOLEAN /\ refused \in BOOLEAN /\ failed \in Nat /\ abandoned \subseteq Handles

Distinct(q) == \A j, k \in 1 .. Len(q) : q[j] = q[k] => j = k

\* Where the operation is: who began it, and what that says of the module and of the others.
Phases ==
  /\ op.pc = "none" => op = NoOp
  /\ op.pc # "none" => op.by # None
  /\ op.by = "load" => mod \in {"loading", "oops"}
  /\ op.by \in {"unload", "proc"} => mod \in {"in", "oops"}
  /\ mod = "loading" => op.by = "load"
  /\ mod = "out" => op = NoOp
  /\ mod \in {"out", "loading"} \/ op.by \in {"load", "unload"} => codec = None
  /\ mod = "out" => \A f \in Files : files[f] \in {0, Gone}
  /\ op.pc \in {"next", "open", "node", "list"} => op.by \in {"load", "proc"}
  /\ op.pc \in {"exit", "term", "next"} => op.by \in {"load", "unload"}
  /\ op.pc = "next" => op.by = "load"
  /\ op.pc \in {"open", "node", "list"} \/ (op.by = "load" /\ op.pc # "next") => op.i \in Ids
  /\ op.by = "proc" => op.todo = <<>>
  /\ op.by = "load" /\ op.pc \in {"close", "unlist", "destroy", "exit", "term"} => failedLoad
  /\ mod \in {"loading", "in"} /\ ~failedLoad => chrdev = "up" /\ cls \in {"up", "err"}

\* The list, the structures, the minor numbers and the device files, half way through an
\* operation.
Unlisted == IF op.pc \in {"node", "list", "destroy"} THEN {op.s} ELSE {}
Noded    == Allocated \ (IF op.pc = "node" THEN {op.s} ELSE {})
Shape ==
  /\ Distinct(list) /\ Allocated = Listed \cup Unlisted /\ Listed \cap Unlisted = {}
  /\ op.pc \in {"close", "unlist"} => op.s \in Listed
  /\ op.pc = "node" => devs[op.s].id = op.i
  /\ \A s \in Noded : devs[s].minor \in Minors /\ nodes[devs[s].minor] = devs[s].id
  /\ \A s, t \in Noded : devs[s].minor = devs[t].minor => s = t
  /\ minors = {m \in Minors : nodes[m] # None}
  /\ \A m \in minors : \E s \in Noded : devs[s].minor = m

\* What hbi_drv_exit has still to close.
ToDo ==
  op.pc \in {"exit", "close", "unlist", "destroy"} =>
    /\ Distinct(op.todo) /\ ToSet(op.todo) \subseteq Listed
    /\ op.pc # "exit" => op.s \notin ToSet(op.todo)

\* The handles.  Once HBI_close has failed and the driver has gone down (Loose), only the
\* devices of files that were not cut keep theirs.
Closing == IF op.pc \in {"unlist", "destroy"} THEN {op.s} ELSE {}
Held    == Allocated \ Closing
InUse(s) == \E f \in Files \ cut : files[f] = s
Kept    == {s \in Held : ~Loose \/ InUse(s)}
Owned ==
  /\ \A s \in Kept :
       /\ users[devs[s].handle] = devs[s].id
       /\ devs[s].handle # codec
       /\ \A t \in Held : devs[s].handle = devs[t].handle => s = t
  /\ ~Loose =>
       /\ codec # None => users[codec] = CodecDev
       /\ abandoned \subseteq Used(users) /\ codec \notin abandoned
       /\ \A s \in Held : devs[s].handle \notin abandoned
       /\ Used(users) = {devs[s].handle : s \in Held} \cup ({codec} \ {None}) \cup abandoned
  /\ abandoned # {} => refused

\* Files.
FilesRight ==
  \A f \in Files : files[f] # 0 /\ f \notin cut =>
    /\ files[f] \in Structs /\ files[f] \in Listed /\ files[f] \in Held
    /\ devs[files[f]].id = named[f]

\* The initialisation count of the HBI driver.
CodecInits == IF codec = None THEN 0 ELSE 1
Enough ==
  /\ ~Loose => Cardinality(Used(users)) + CodecInits <= init_count
  /\ failed = 0 => init_count <= Cardinality(Used(users)) + CodecInits + 1
  /\ refused => failed > 0

\* hbi_drv_exit closes every device unless HBI_close fails.
Clears ==
  ~refused /\ op.by \in {"load", "unload"} =>
    /\ op.pc \in {"exit", "destroy"} => Listed = ToSet(op.todo)
    /\ op.pc \in {"close", "unlist"} => Listed = {op.s} \cup ToSet(op.todo)
    /\ op.pc = "term" => Listed = {}

KInv ==
  /\ KTypes /\ Phases /\ Shape /\ ToDo /\ Owned /\ FilesRight /\ Enough /\ Clears /\ UnloadReleases

-----------------------------------------------------------------------------
(* The processes *)

UTypes ==
  /\ up \in [Procs -> BOOLEAN] /\ initCnt \in [Procs -> Nat]
  /\ inits \in [Procs -> Nat] /\ lost \in [Procs -> Nat]
  /\ hbi_buf \in [Structs -> Blocks \cup {None}]
  /\ call \in [Procs -> {NoCall} \cup [f : Files, cmd : Upload, arg : Blocks]]

\* The library's count is that of the HBI_init calls nobody has taken back: the process's own,
\* those of opens that failed, and one for each file.
CountsRight ==
  \A p \in Procs :
    /\ IsFiniteSet(FilesOf(p))
    /\ initCnt[p] = inits[p] + lost[p] + Cardinality(FilesOf(p))
    /\ up[p] <=> initCnt[p] # 0

\* Between its copy and its command an upload has its device's buffer for itself.
UploadsRight ==
  \A p \in Procs : ~Idle(p) =>
    /\ Owner[call[p].f] = p /\ files[call[p].f] # 0
    /\ files[call[p].f] # Gone =>
         /\ hbi_buf[files[call[p].f]] = call[p].arg
         /\ \A q \in Procs \ {p} : ~Idle(q) => files[call[q].f] # files[call[p].f]

\* A call that returns.
Returned == ret.res \in {"NOT_INIT", "BAD_HANDLE"} => ret.f \in cut

UInv == UTypes /\ CountsRight /\ UploadsRight /\ Returned /\ CommandAsAsked

=============================================================================
