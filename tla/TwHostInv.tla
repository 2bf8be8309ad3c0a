------------------------------- MODULE TwHostInv -------------------------------
(***************************************************************************)
(* The inductive invariants of TwHost.                                     *)
(***************************************************************************)
EXTENDS TwHost

-----------------------------------------------------------------------------
(* The accesses of a call, for any number of threads *)

Notices == {"HOST_CMD", "APP_HOST_CMD"}
Plain   == {"mbox", "wait", "param", "reset", "por", "data", "access", "count"}
Tasks   == {<<l, c>> : l \in {"cmd", "result"}, c \in Commands}
             \cup {<<"notice", f>> : f \in Notices}
             \cup {<<"mode", m>> : m \in {"boot", "start", "save_cfg"}}
             \cup {<<l, "none">> : l \in Plain}

\* Which access follows which in a call of op, and which is the last.
Follows(op, a, b) ==
  \/ a = "mbox" /\ b = "cmd"
  \/ a = "cmd" /\ b = "notice"
  \/ a = "notice" /\ b = "wait"
  \/ a = "wait" /\ b = "result"
  \/ a = "result" /\ b \in {"param", "access"}
  \/ a = "param" /\ b = "mbox"
  \/ a \in {"mode", "reset"} /\ b \in {"mbox", "data"}
  \/ a = "access" /\ b \in {"mbox", "param"}
  \/ a = "count" /\ b = "access"
  \/ op = "save_cfg" /\ \/ a = "mbox" /\ b = "mode"
                        \/ a = "notice" /\ b = "result"
                        \/ a = "result" /\ b = "cmd"
Ends(op, a) ==
  \/ a \in {"result", "access", "data", "por"}
  \/ op = "save_cfg" /\ a = "mode"
  \/ op = "sleep" /\ a = "notice"

\* tw_save_cfg_to_flash does not wait for its last command.
Unwaited(op, c) == op = "save_cfg" /\ c \in {"IMG_CFG_SAVE", "APP_SAVE_CFG"}

\* The command at place i of a call: its own result is the one that is read.
CommandAt(op, s, i) ==
  \/ ~Unwaited(op, s[i][2]) /\ i + 3 <= Len(s)
       /\ s[i + 2][1] = "wait" /\ s[i + 3] = <<"result", s[i][2]>>
  \/ Unwaited(op, s[i][2]) /\ i + 2 = Len(s) /\ s[i + 2] = <<"result", s[i][2]>>
  \/ op = "sleep" /\ i + 1 = Len(s)

\* The commands that find the parameter as the call has written it for them.
OwnParam == WithParam \ {"IMG_CFG_SAVE"}

\* Does what follows the mailbox check use the parameter register?
NeedsParam(a) == a[1] = "mode" \/ a[2] \in OwnParam

OrderedAt(op, s, i) ==
  /\ IF i = Len(s) THEN Ends(op, s[i][1]) ELSE Follows(op, s[i][1], s[i + 1][1])
  /\ s[i][1] = "cmd" => CommandAt(op, s, i)
  /\ (i + 1 <= Len(s) /\ s[i + 1][1] = "cmd") => IF Unwaited(op, s[i + 1][2])
                                                THEN /\ s[i] = <<"result", "FLASH_INIT">>
                                                     /\ s[i + 1][2] = "IMG_CFG_SAVE"
                                                ELSE s[i][1] = "mbox"
  /\ (i + 2 <= Len(s) /\ s[i + 1][1] = "mbox" /\ NeedsParam(s[i + 2])) => s[i][1] = "param"
  /\ s[i] = <<"mode", "save_cfg">> => op = "save_cfg" /\ i = Len(s)
  /\ op = "save_cfg" /\ s[i][1] = "mode" => s[i][2] = "save_cfg"

\* The device is brought to its boot ROM first of all.
BootsFirst(s) == \A i \in 2 .. Len(s) : s[i][1] \in {"mode", "reset"} => s[i] = <<"mode", "save_cfg">>

Ordered(op, s) == BootsFirst(s) /\ \A i \in 1 .. Len(s) : OrderedAt(op, s, i)

CallsRight ==
  \A t \in Threads :
    /\ todo[t] \in Seq(Tasks) /\ Ordered(call[t].op, todo[t])
    /\ todo[t] # <<>> => /\ res[t] = "none" /\ call[t].op \in Ops
                         /\ call[t].op \in TakesImage => call[t].image # 0

TwTypes ==
  /\ flags \subseteq Notices /\ cmdReg \in Commands \cup {"IDLE"} /\ param \in Word
  /\ mode \in {"boot", "app"} /\ busy \subseteq [cmd : Commands, param : Word]
  /\ hung \in BOOLEAN
  /\ call \in [Threads -> [op : Ops \cup {"none"}, image : Images \cup {0}]]
  /\ DOMAIN todo = Threads /\ res \in [Threads -> Statuses]
  /\ misread \in [Threads -> BOOLEAN] /\ clean \in [Threads -> BOOLEAN]
  /\ did \in [Threads -> SUBSET (Commands \X Word)]

TwInv == TwTypes /\ CallsRight

-----------------------------------------------------------------------------
(* A device with one user *)

Quiet == flags = {} /\ busy = {}

\* Has the device done command c, with the parameter the call gave it?
Did(t, c) == \E e \in did[t] : e[1] = c /\ (c \in OwnParam => e[2] = ParamOf(call[t]))

\* The result says success only when the device did the command.
Told(t, c) == Val(param) = Success(c) => Did(t, c)

\* Command c has been noticed: the device has still to take it, processes it, or has answered.
Pending(t, c) ==
  /\ Quiet => cmdReg = "IDLE" /\ Told(t, c)
  /\ ~Quiet => cmdReg = c
  /\ flags # {} => busy = {} /\ (c \in OwnParam => param = ParamOf(call[t]))
  /\ \A b \in busy : b.cmd = c /\ (c \in OwnParam => b.param = ParamOf(call[t]))

\* Where a call that found the device quiet, or reset it, is, and what the registers then hold.
Tidy(t) ==
  (todo[t] # <<>> /\ clean[t]) =>
    LET s == todo[t]  c == s[1][2]  op == call[t].op IN
    /\ s[1][1] \notin {"wait", "result"} => Quiet
    /\ s[1][1] = "mbox" /\ NeedsParam(s[2]) => param = ParamOf(call[t])
    /\ s[1][1] = "mode" /\ op = "save_cfg" => param = ParamOf(call[t])
    /\ s[1][1] = "cmd" =>
         /\ c \in OwnParam => param = ParamOf(call[t])
         /\ Unwaited(op, c) => Val(param) # SUCCESS
    /\ s[1][1] = "notice" =>
         /\ cmdReg \in Commands
         /\ cmdReg \in OwnParam => param = ParamOf(call[t])
         /\ Len(s) > 1 => \/ ~Unwaited(op, cmdReg) /\ s[2][1] = "wait"
                               /\ s[3] = <<"result", cmdReg>>
                          \/ Unwaited(op, cmdReg) /\ s[2] = <<"result", cmdReg>>
                               /\ Val(param) # SUCCESS
    /\ s[1][1] = "wait" => Pending(t, s[2][2]) /\ ~Unwaited(op, s[2][2])
    /\ s[1][1] = "result" =>
         IF Unwaited(op, c)
           THEN Pending(t, c) /\ (~Quiet => Val(param) # SUCCESS)
           ELSE Quiet /\ Told(t, c)

\* Outside save_cfg the mailbox is free when a command is written.
Acquired(t) ==
  todo[t] # <<>> /\ todo[t][1][1] = "cmd" /\ call[t].op # "save_cfg" => "HOST_CMD" \notin flags

\* What was asked is still to be answered, or has been done.
Achieved(t) == \E e \in did[t] : Asked(call[t], e)

\* The command that a call is about.
CommandFor(c, cmd) ==
  \/ c.op = "load"      /\ cmd = "IMG_CFG_LOAD"
  \/ c.op = "erase"     /\ cmd = "IMG_CFG_ERASE"
  \/ c.op = "erase_all" /\ cmd = "ERASE_FLASH_INIT"
  \/ c.op = "save"      /\ cmd = "IMG_CFG_SAVE"
  \/ c.op = "save_cfg"  /\ cmd \in {"IMG_CFG_SAVE", "APP_SAVE_CFG"}
  \/ c.op = "start"     /\ cmd = "FWR_GO"
  \/ c.op = "conclude"  /\ cmd = "HOST_LOAD_CMP"
Awaited(t, a) ==
  \/ a = <<"mode", "save_cfg">>
  \/ a[1] = "result" /\ CommandFor(call[t], a[2])
Promised(t) ==
  (todo[t] # <<>> /\ call[t].op \in Commanding /\ (clean[t] \/ todo[t][1][1] \in {"mode", "reset"})) =>
    Achieved(t) \/ \E i \in 1 .. Len(todo[t]) : Awaited(t, todo[t][i])

\* What UploadInBootMode says.
Booted(t) == Uploading(t) /\ ~misread[t] /\ clean[t] => mode = "boot"

\* What SuccessMeansDone says.
Succeeded(t) == res[t] = "SUCCESS" /\ clean[t] /\ call[t].op \in Commanding => Achieved(t)

SerialInv ==
  \A t \in Threads : Tidy(t) /\ Acquired(t) /\ Promised(t) /\ Booted(t) /\ Succeeded(t)

=============================================================================
