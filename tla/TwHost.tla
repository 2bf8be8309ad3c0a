-------------------------------- MODULE TwHost --------------------------------
(***************************************************************************)
(* The host side of the Timberwolf command mailbox (drivers/hbi/hbi_tw.c): *)
(* the register accesses HBI_set_command, HBI_sleep, HBI_wake and          *)
(* HBI_reset make, each of them one step, against the device they drive.   *)
(*                                                                         *)
(* A call is a sequence of accesses; todo[t] is what thread t has still to *)
(* do.  The driver lock is not held along the way, so the accesses of two  *)
(* calls interleave.  The device is external: what it does is taken from   *)
(* how the code uses it.                                                   *)
(***************************************************************************)
EXTENDS Integers, Sequences

CONSTANTS
  Threads,     \* the users of the device
  Ops,         \* the calls they make
  Images,      \* the image numbers they pass, 0 standing for one that is refused
  Mismatch,    \* do host and device differ in byte order (HBI_VAL swaps)?
  BusFaults,   \* may an access fail on the bus?
  Hangs        \* may the device stop answering?

Operations == {"load", "erase", "erase_all", "save", "start", "conclude", "boot_write",
               "config_write", "save_cfg", "sleep", "wake", "reset"}

ASSUME TwConstantsOK ==
  /\ Ops \subseteq Operations
  /\ Images \subseteq 0 .. 14
  /\ {Mismatch, BusFaults, Hangs} \subseteq BOOLEAN

\* ZL380xx_HMI_RESPONSE, and the value of HBI_STATUS_INTERNAL_ERR.
SUCCESS          == 0
BAD_IMAGE        == 1
FLASH_FULL       == 3
NO_FLASH         == 6
COMMAND_ERROR    == 8
APP_IS_RUNNING   == 10
INCOMPAT_APP     == 11
FLASH_INIT_OK    == 24576   \* 0x6000
FLASH_UNRECOG    == 32768   \* 0x8000
BOOT_SIGNATURE   == 54227   \* 0xD3D3
ERASE_ALL        == 43605   \* 0xAA55
BUS_ERROR        == 1

VARIABLES
  flags,    \* HOST_SW_FLAGS: the notices the device has not taken
  cmdReg,   \* HOST_CMD_REG
  param,    \* HOST_CMD_PARAM_RESULT, as the host reads it
  mode,     \* "boot" or "app" (CUR_LOADED_FW_IMG)
  busy,     \* the command the device is processing, at most one
  hung,     \* has the device stopped?
  call,     \* each thread's call: [op, image]
  todo,     \* the accesses each thread's call has still to make
  res,      \* what each thread's last call returned
  misread,  \* history: did the call's last read of the mode fail on the bus?
  clean,    \* history: was no command outstanding when the call began, or reset the device?
  did       \* history: what the device did with success since the call began

devVars  == <<flags, cmdReg, param, mode, busy, hung>>
histVars == <<misread, clean, did>>
twVars   == <<devVars, call, todo, res, histVars>>

\* Variant: the low byte is not masked before it is shifted.
ValUnmasked(v) == IF Mismatch THEN v * 256 + v \div 256 ELSE v
\* HBI_VAL
Val(v) == IF Mismatch THEN (v % 256) * 256 + v \div 256 ELSE v

Init ==
  /\ flags = {} /\ cmdReg = "IDLE" /\ param = 0 /\ mode \in {"boot", "app"}
  /\ busy = {} /\ hung = FALSE
  /\ call = [t \in Threads |-> [op |-> "none", image |-> 0]]
  /\ todo = [t \in Threads |-> <<>>] /\ res = [t \in Threads |-> "none"]
  /\ misread = [t \in Threads |-> FALSE] /\ clean = [t \in Threads |-> TRUE]
  /\ did = [t \in Threads |-> {}]

-----------------------------------------------------------------------------
(* What each call does, access by access *)

\* tw_wr_cmdreg: acquire the mailbox, write the command, raise the notice, wait for IDLE.
WrCmd(c) == << <<"mbox", "none">>, <<"cmd", c>>, <<"notice", "HOST_CMD">>, <<"wait", "none">> >>

Command(c) == WrCmd(c) \o << <<"result", c>> >>
InitFlash  == Command("FLASH_INIT")

\* The mode is read, and an application running is stopped by a reset to the boot ROM.
ToBoot == << <<"mode", "boot">> >>

\* Variant: the parameter is written before the flash is initialised.
LoadEraseParamFirst(c) == ToBoot \o << <<"param", "none">> >> \o InitFlash \o Command(c)
LoadErase(c) == ToBoot \o (InitFlash \o (<< <<"param", "none">> >> \o Command(c)))

Save      == ToBoot \o (InitFlash \o (<< <<"access", "none">> >>
               \o (Command("IMG_CFG_SAVE") \o << <<"access", "none">> >>)))
Start     == << <<"mode", "start">> >> \o Command("FWR_GO")
Conclude  == Command("HOST_LOAD_CMP")
\* Variant: the mode is not checked before every block.
BootWriteUnchecked == << <<"data", "none">> >>
BootWrite == ToBoot \o << <<"data", "none">> >>
SaveCfg   == << <<"count", "none">>, <<"access", "none">>, <<"param", "none">>, <<"mbox", "none">>,
                <<"mode", "save_cfg">> >>
\* Two transport commands, of which only the second one's status counts.
Wake      == << <<"access", "none">> >>
Sleep     == << <<"mbox", "none">>, <<"cmd", "APP_SLEEP">>, <<"notice", "APP_HOST_CMD">> >>

\* tw_save_cfg_to_flash goes on by the mode it found; it does not wait for its command.
SaveCfgBoot == InitFlash \o << <<"cmd", "IMG_CFG_SAVE">>, <<"notice", "HOST_CMD">>,
                               <<"result", "IMG_CFG_SAVE">> >>
SaveCfgApp  == << <<"cmd", "APP_SAVE_CFG">>, <<"notice", "APP_HOST_CMD">>,
                  <<"result", "APP_SAVE_CFG">> >>

Prog(op) ==
  CASE op = "load"         -> LoadErase("IMG_CFG_LOAD")
    [] op = "erase"        -> LoadErase("IMG_CFG_ERASE")
    [] op = "erase_all"    -> LoadErase("ERASE_FLASH_INIT")
    [] op = "save"         -> Save
    [] op = "start"        -> Start
    [] op = "conclude"     -> Conclude
    [] op = "boot_write"   -> BootWrite
    [] op = "config_write" -> << <<"data", "none">> >>
    [] op = "save_cfg"     -> SaveCfg
    [] op = "sleep"        -> Sleep
    [] op = "wake"         -> Wake
    [] op = "reset"        -> << <<"por", "none">> >>

TakesImage == {"load", "erase", "save_cfg"}

\* What is written to the parameter register.  The image number is passed on as the caller
\* gave it, already in the device's byte order; save_cfg converts it and writes its bytes, the
\* high one first, which is the same for a big-endian device.
ParamOf(c) ==
  CASE c.op = "erase_all" -> Val(ERASE_ALL)
    [] OTHER              -> Val(c.image)

-----------------------------------------------------------------------------
(* The host *)

Return(t, status) ==
  /\ todo' = [todo EXCEPT ![t] = <<>>]
  /\ res' = [res EXCEPT ![t] = status]

GoOn(t, rest) ==
  IF rest = <<>> THEN Return(t, "SUCCESS")
                 ELSE todo' = [todo EXCEPT ![t] = rest] /\ UNCHANGED res

AtStep(t, label) == todo[t] # <<>> /\ Head(todo[t])[1] = label
Arg(t)          == Head(todo[t])[2]

CallTw(t, op, image) ==
  /\ todo[t] = <<>>
  /\ op \notin TakesImage => image = 0
  /\ call' = [call EXCEPT ![t] = [op |-> op, image |-> image]]
  /\ did' = [did EXCEPT ![t] = {}]
  /\ misread' = [misread EXCEPT ![t] = FALSE]
  /\ clean' = [clean EXCEPT ![t] = flags = {} /\ busy = {}]
  /\ IF op \in TakesImage /\ image = 0
       THEN Return(t, "INVALID_ARG")
       ELSE todo' = [todo EXCEPT ![t] = Prog(op)] /\ res' = [res EXCEPT ![t] = "none"]
  /\ UNCHANGED devVars

\* Variant: the driver polls for as long as the device holds the mailbox.
NeverTimesOut == FALSE
\* The polls are bounded (TWOLF_MBCMDREG_SPINWAIT): they give up on a device that hangs, and on
\* one that is slow and will answer after all.
TimesOut == TRUE

\* Variant: the mailbox is not checked.
MailboxIgnored == TRUE
\* tw_mbox_acquire looks at the boot ROM's notice only.
MailboxFree == "HOST_CMD" \notin flags

Mbox(t) ==
  /\ AtStep(t, "mbox")
  /\ IF MailboxFree THEN GoOn(t, Tail(todo[t]))
                    ELSE TimesOut /\ Return(t, "RESOURCE_ERR")
  /\ UNCHANGED <<devVars, call, histVars>>

Cmd(t) ==
  /\ AtStep(t, "cmd")
  /\ cmdReg' = Arg(t)
  /\ GoOn(t, Tail(todo[t]))
  /\ UNCHANGED <<flags, param, mode, busy, hung, call, histVars>>

Notice(t) ==
  /\ AtStep(t, "notice")
  /\ flags' = {Arg(t)}
  /\ GoOn(t, Tail(todo[t]))
  /\ UNCHANGED <<cmdReg, param, mode, busy, hung, call, histVars>>

\* tw_cmdreg_acquire
Wait(t) ==
  /\ AtStep(t, "wait")
  /\ IF cmdReg = "IDLE" THEN GoOn(t, Tail(todo[t]))
                        ELSE TimesOut /\ Return(t, "RESOURCE_ERR")
  /\ UNCHANGED <<devVars, call, histVars>>

Param(t) ==
  /\ AtStep(t, "param")
  /\ param' = ParamOf(call[t])
  /\ GoOn(t, Tail(todo[t]))
  /\ UNCHANGED <<flags, cmdReg, mode, busy, hung, call, histVars>>

\* The switches on the device's response.
FlashInitStatus(v) ==
  CASE Val(v) = FLASH_INIT_OK -> "SUCCESS"
    [] Val(v) = SUCCESS       -> "NO_FLASH_PRESENT"    \* HMI_RESP_FLASH_INIT_NO_DEV
    [] OTHER                  -> "INTERNAL_ERR"
EraseStatus(v, ok) ==
  CASE Val(v) = ok           -> "SUCCESS"
    [] Val(v) = BAD_IMAGE    -> "BAD_IMAGE"
    [] Val(v) = INCOMPAT_APP -> "INCOMPAT_APP"
    [] Val(v) = NO_FLASH     -> "NO_FLASH_PRESENT"
    [] OTHER                 -> "COMMAND_ERR"
\* hmi_response has already been through HBI_VAL when it is compared with FLASH_FULL.
SaveStatus(v) ==
  CASE Val(v) = SUCCESS         -> "SUCCESS"
    [] Val(Val(v)) = FLASH_FULL -> "FLASH_FULL"
    [] OTHER                    -> "COMMAND_ERR"

StatusOf(op, c, v) ==
  CASE c = "FLASH_INIT"       -> FlashInitStatus(v)
    [] c = "IMG_CFG_ERASE"    -> EraseStatus(v, SUCCESS)
    [] c = "ERASE_FLASH_INIT" -> EraseStatus(v, FLASH_INIT_OK)
    [] op = "save"            /\ c = "IMG_CFG_SAVE" -> SaveStatus(v)
    [] c = "HOST_LOAD_CMP"    /\ Val(v) = INCOMPAT_APP -> "INCOMPAT_APP"
    [] OTHER                  -> IF Val(v) = SUCCESS THEN "SUCCESS" ELSE "COMMAND_ERR"

Answered(t, v) ==
  LET status == StatusOf(call[t].op, Arg(t), v) IN
  IF status = "SUCCESS" THEN GoOn(t, Tail(todo[t])) ELSE Return(t, status)

\* tw_cmdresult_check
Result(t) ==
  /\ AtStep(t, "result")
  /\ Answered(t, param)
  /\ UNCHANGED <<devVars, call, histVars>>

\* tw_chk_dev_boot_rom_mode, and what each caller does with the answer.
AfterMode(t, boot) ==
  CASE Arg(t) = "start"    -> IF boot THEN GoOn(t, Tail(todo[t]))
                                      ELSE Return(t, "INVALID_STATE")
    [] Arg(t) = "save_cfg" -> GoOn(t, IF boot THEN SaveCfgBoot ELSE SaveCfgApp)
    [] OTHER               -> GoOn(t, IF boot THEN Tail(todo[t])
                                              ELSE << <<"reset", "none">> >> \o Tail(todo[t]))
Mode(t) ==
  /\ AtStep(t, "mode")
  /\ AfterMode(t, mode = "boot")
  /\ misread' = [misread EXCEPT ![t] = FALSE]
  /\ UNCHANGED <<devVars, call, clean, did>>

\* The device forgets what it was doing.
Cleared == flags' = {} /\ cmdReg' = "IDLE" /\ busy' = {}

\* tw_reset(RST_TO_BOOT): the boot ROM shows a signature, or the device is not accessible.
Reset(t) ==
  /\ AtStep(t, "reset")
  /\ Cleared /\ mode' = "boot"
  /\ \/ param' = BOOT_SIGNATURE /\ hung' = FALSE /\ GoOn(t, Tail(todo[t]))
     \/ Hangs /\ param' = 0 /\ hung' = TRUE /\ Return(t, "INTERNAL_ERR")
     \/ /\ BusFaults                            \* the signature could not be read
        /\ param' = BOOT_SIGNATURE /\ hung' = FALSE /\ Return(t, "INTERNAL_ERR")
  /\ clean' = [u \in Threads |-> clean[u] \/ u = t]
  /\ UNCHANGED <<call, misread, did>>

\* tw_reset(RST_HARDWARE_ROM): the device starts again from what its flash holds.
PowerOnReset(t) ==
  /\ AtStep(t, "por")
  /\ Cleared /\ mode' \in {"boot", "app"}
  /\ param' = BOOT_SIGNATURE /\ hung' = FALSE
  /\ GoOn(t, Tail(todo[t]))
  /\ UNCHANGED <<call, histVars>>

\* Blocks of an image or of a configuration record, or an access whose effect is not modelled.
Data(t) ==
  /\ AtStep(t, "data") \/ AtStep(t, "access")
  /\ GoOn(t, Tail(todo[t]))
  /\ UNCHANGED <<devVars, call, histVars>>

\* The number of images on the flash is compared with the image number.
Count(t) ==
  /\ AtStep(t, "count")
  /\ \/ GoOn(t, Tail(todo[t]))
     \/ Return(t, "INVALID_ARG")
  /\ UNCHANGED <<devVars, call, histVars>>

\* An access fails on the bus.  A failed read of the mode is taken for boot mode, a failed
\* read of the result for a result; any other failure ends the call.
BusError(t) ==
  /\ BusFaults /\ todo[t] # <<>>
  /\ CASE AtStep(t, "mode")   -> AfterMode(t, TRUE)
       [] AtStep(t, "result") -> Answered(t, BUS_ERROR)
       [] OTHER              -> Return(t, "INTERNAL_ERR")
  /\ misread' = [misread EXCEPT ![t] = @ \/ AtStep(t, "mode")]
  /\ UNCHANGED <<devVars, call, clean, did>>

Step(t) ==
  \/ Mbox(t) \/ Cmd(t) \/ Notice(t) \/ Wait(t) \/ Param(t) \/ Result(t)
  \/ Mode(t) \/ Reset(t) \/ PowerOnReset(t) \/ Data(t) \/ Count(t)

-----------------------------------------------------------------------------
(* The device *)

AppCommands == {"APP_SAVE_CFG", "APP_SLEEP"}
\* The commands before which the code writes the parameter register.
WithParam   == {"IMG_CFG_LOAD", "IMG_CFG_ERASE", "ERASE_FLASH_INIT", "IMG_CFG_SAVE",
                "APP_SAVE_CFG"}

Success(c) == IF c \in {"FLASH_INIT", "ERASE_FLASH_INIT"} THEN FLASH_INIT_OK ELSE SUCCESS

Failures(c) ==
  CASE (mode = "app") # (c \in AppCommands) -> {IF mode = "app" THEN APP_IS_RUNNING
                                                                ELSE COMMAND_ERROR}
    [] c = "FLASH_INIT"                     -> {SUCCESS, FLASH_UNRECOG}
    [] c = "IMG_CFG_SAVE"                   -> {FLASH_FULL}
    [] OTHER                                -> {BAD_IMAGE, INCOMPAT_APP}

CanDo(c) == (mode = "app") = (c \in AppCommands)

\* Takes the noticed command and its parameter, and gives the mailbox back.
DevTake ==
  /\ ~hung /\ flags # {} /\ busy = {}
  /\ flags' = {}
  /\ busy' = IF cmdReg = "IDLE" THEN {} ELSE {[cmd |-> cmdReg, param |-> param]}
  /\ UNCHANGED <<cmdReg, param, mode, hung, call, todo, res, histVars>>

DevFinish ==
  /\ ~hung
  /\ \E b \in busy :
       \/ /\ CanDo(b.cmd)
          /\ param' = Val(Success(b.cmd))
          /\ mode' = IF b.cmd = "FWR_GO" THEN "app" ELSE mode
          /\ did' = [t \in Threads |->
                       did[t] \cup {<<b.cmd, IF b.cmd \in WithParam THEN b.param ELSE 0>>}]
       \/ /\ param' \in {Val(v) : v \in Failures(b.cmd)}
          /\ UNCHANGED <<mode, did>>
  /\ busy' = {} /\ cmdReg' = "IDLE"
  /\ UNCHANGED <<flags, hung, call, todo, res, misread, clean>>

DevHang ==
  /\ Hangs /\ ~hung
  /\ flags # {} \/ busy # {}
  /\ hung' = TRUE
  /\ UNCHANGED <<flags, cmdReg, param, mode, busy, call, todo, res, histVars>>

Device == DevTake \/ DevFinish \/ DevHang

Next ==
  \/ \E t \in Threads, op \in Ops, image \in Images : CallTw(t, op, image)
  \/ \E t \in Threads : Step(t) \/ BusError(t)
  \/ Device

\* A thread goes on with its call (no access need ever fail).  Nothing is asked of the device.
Fairness == \A t \in Threads : WF_twVars(Step(t))

Spec     == Init /\ [][Next]_twVars
FairSpec == Spec /\ Fairness

-----------------------------------------------------------------------------
(* Properties *)

Word     == 0 .. 256 * 256 - 1
Commands == AppCommands \cup WithParam \cup {"FLASH_INIT", "FWR_GO", "HOST_LOAD_CMP"}
Labels   == {"mbox", "cmd", "notice", "wait", "result", "param", "mode", "reset", "por", "data",
             "access", "count"}
Statuses == {"none", "SUCCESS", "INVALID_ARG", "RESOURCE_ERR", "INTERNAL_ERR", "COMMAND_ERR",
             "INVALID_STATE", "NO_FLASH_PRESENT", "BAD_IMAGE", "INCOMPAT_APP", "FLASH_FULL"}

\* Every register keeps its width, and every thread a known access to make.
TypeOK ==
  /\ flags \subseteq {"HOST_CMD", "APP_HOST_CMD"}
  /\ cmdReg \in Commands \cup {"IDLE"} /\ param \in Word /\ mode \in {"boot", "app"}
  /\ busy \subseteq [cmd : Commands, param : Word] /\ hung \in BOOLEAN
  /\ \A t \in Threads : \A i \in DOMAIN todo[t] : todo[t][i][1] \in Labels
  /\ res \in [Threads -> Statuses]
  /\ misread \in [Threads -> BOOLEAN] /\ clean \in [Threads -> BOOLEAN]

\* Is e what the device is to have done for call c: the command, with its parameter?  In boot
\* mode save_cfg has it save firmware and configuration together, under whatever number the
\* parameter register holds then (SavedUnderNumber).
Commanding  == {"load", "erase", "erase_all", "save", "save_cfg", "start", "conclude"}
Asked(c, e) ==
  \/ c.op = "load"      /\ e = <<"IMG_CFG_LOAD", Val(c.image)>>
  \/ c.op = "erase"     /\ e = <<"IMG_CFG_ERASE", Val(c.image)>>
  \/ c.op = "erase_all" /\ e = <<"ERASE_FLASH_INIT", Val(ERASE_ALL)>>
  \/ c.op = "save"      /\ e[1] = "IMG_CFG_SAVE"
  \/ c.op = "save_cfg"  /\ e = <<"APP_SAVE_CFG", Val(c.image)>>
  \/ c.op = "save_cfg"  /\ e[1] = "IMG_CFG_SAVE"
  \/ c.op = "start"     /\ e[1] = "FWR_GO"
  \/ c.op = "conclude"  /\ e[1] = "HOST_LOAD_CMP"

\* A call that found no command outstanding returns SUCCESS only if the device, since the
\* call began, did what was asked with the image number that was passed: but for the number
\* under which save_cfg saves in boot mode.
SuccessMeansDone ==
  \A t \in Threads :
    (res[t] = "SUCCESS" /\ clean[t] /\ call[t].op \in Commanding) =>
      \E e \in did[t] : Asked(call[t], e)

\* While the boot ROM has a notice it has not taken, its command is not overwritten: not even
\* by the calls made after one that timed out.  (tw_save_cfg_to_flash writes its command
\* without acquiring the mailbox again, and is left out.)
NoticeRespected ==
  [][\A t \in Threads : AtStep(t, "cmd") /\ call[t].op # "save_cfg" /\ cmdReg' = Arg(t)
       => cmdReg' = cmdReg \/ "HOST_CMD" \notin flags]_twVars

Uploading(t) == AtStep(t, "data") /\ call[t].op = "boot_write"

\* Blocks of a firmware image are sent only to a device in boot mode, unless the call could
\* not read the mode or began while a command (to start the firmware, say) was outstanding.
UploadInBootMode ==
  \A t \in Threads : Uploading(t) /\ ~misread[t] /\ clean[t] => mode = "boot"

\* Every call returns, whatever the bus and the device do.
CallsReturn == \A t \in Threads : (todo[t] # <<>>) ~> (todo[t] = <<>>)

\* hbi_tw.c:1012, "put device in boot rom mode": blocks of a firmware image are sent only to a
\* device in boot mode.
UploadAlwaysInBootMode == \A t \in Threads : Uploading(t) => mode = "boot"

\* hbi_tw.c:543, "Invalid image number - Number of images on flash = %d, it must be >= passed
\* image number": the number passed to save_cfg, which has to be that of an image on the flash,
\* is the one the device is told when it saves the configuration.
SavedUnderNumber ==
  \A t \in Threads :
    (res[t] = "SUCCESS" /\ clean[t] /\ call[t].op = "save_cfg") =>
      \E e \in did[t] : e[1] \in {"IMG_CFG_SAVE", "APP_SAVE_CFG"} /\ e[2] = Val(call[t].image)

\* hbi.h:162, "no more space left on flash": a save the device refused for want of space is
\* reported as such, not as a command that failed.
FlashFullReported ==
  \A t \in Threads :
    (AtStep(t, "result") /\ call[t].op = "save" /\ Arg(t) = "IMG_CFG_SAVE"
       /\ param = Val(FLASH_FULL)) => StatusOf("save", "IMG_CFG_SAVE", param) = "FLASH_FULL"

\* hbi_tw.c:564 and 624, "check whether there's any ongoing command": a command is not written
\* over one that the device was noticed of and has not taken.
OngoingCommandSeen == [][cmdReg' \notin {cmdReg, "IDLE"} => flags = {}]_twVars

=============================================================================
