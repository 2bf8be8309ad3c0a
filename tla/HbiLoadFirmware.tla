---------------------------- MODULE HbiLoadFirmware ----------------------------
(***************************************************************************)
(* hbi_load_firmware.py: the functions that stop, load, save and start a   *)
(* Timberwolf from Python, and the command-line tool built from them.      *)
(*                                                                         *)
(* Each function becomes the set of its results: the device it leaves, and *)
(* whether it returned (ok) or raised ValueError.  A raised error leaves   *)
(* the tool's try block at once.  The device is external: what it answers  *)
(* to a command is modelled from how the functions use it.                 *)
(***************************************************************************)
EXTENDS Integers, Sequences, FiniteSets

CONSTANTS
  Jobs,        \* argument lists of the tool
  Devices,     \* states the tool or the server may find the device in
  BlockWords,  \* CR2_BLOCK_SIZE
  MaxSlots,    \* slots of the flash
  NoFile,      \* a path at which there is no file, or an empty one
  None, Partial

\* Lines of a record: the loop takes an address 0 for the start of a block.
Lines == [reg : Nat \ {0}, val : Nat]

\* A device: its firmware runs only from a whole image, and its flash has a slot for each image.
FlashOK(flash) ==
  /\ flash \in Seq({[fw |-> flash[i].fw, cfg |-> flash[i].cfg] : i \in DOMAIN flash})
  /\ Len(flash) <= MaxSlots
DeviceOK(d) ==
  /\ d = [running |-> d.running, inited |-> d.inited, ram |-> d.ram, cfg |-> d.cfg, flash |-> d.flash]
  /\ d.running \in BOOLEAN /\ d.inited \in BOOLEAN /\ FlashOK(d.flash)
  /\ d.running => d.ram \notin {None, Partial}

ASSUME LoaderOK ==
  /\ BlockWords \in Nat \ {0} /\ MaxSlots \in Nat /\ None \notin Jobs \cup Nat
  /\ \A j \in Jobs : /\ j.erase \in BOOLEAN /\ j.save \in BOOLEAN /\ j.cr2 \in BOOLEAN /\ j.index \in Nat
                     /\ j.cfg \in {None, NoFile} \/ j.cfg \in Seq(Lines)
  /\ \A d \in Devices : DeviceOK(d)

VARIABLES
  dev,         \* the device: [running, inited, ram, cfg, flash]
  args,        \* the arguments of the tool, None when it is not the one started
  pc,          \* the stage of the tool's try block
  fw_running,  \* local of the tool: the firmware runs, and is left running
  slot         \* local of the tool: set only by SaveFirmwareToFlash

tool == <<args, pc, fw_running, slot>>

Ok(d)  == [dev |-> d, ok |-> TRUE]
Err(d) == [dev |-> d, ok |-> FALSE]
Then(results, Next(_)) ==
  {r \in results : ~r.ok} \cup UNION {Next(r.dev) : r \in {x \in results : x.ok}}

\* A command and BusySpinWait: carried out, refused (a status), or timed out after all.
Command(d, possible, e) == {Err(d)} \cup (IF possible THEN {Ok(e), Err(e)} ELSE {})

StopFirmware(d) ==
  LET boot == [d EXCEPT !.running = FALSE, !.inited = FALSE, !.ram = None]
  IN {Ok(boot), Err(boot), Err(d)}

\* StartFirmware(skip_error = True): only a timeout raises; no image, no firmware.
StartFirmware(d) ==
  {Ok(d), Err(d)} \cup
  (IF d.ram \in {None, Partial} THEN {}
   ELSE {Ok([d EXCEPT !.running = TRUE]), Err([d EXCEPT !.running = TRUE])})

\* The only error skipped is a flash that does not answer as one.
InitFlash(d, skip_error) ==
  IF d.running THEN {Err(d)}
  ELSE {Ok([d EXCEPT !.inited = TRUE]), Err(d)} \cup (IF skip_error THEN {Ok(d)} ELSE {})

EraseFlash(d) ==
  IF d.running THEN {Err(d)}
  ELSE Then(InitFlash(d, FALSE), LAMBDA e : Command(e, TRUE, [e EXCEPT !.flash = <<>>]))

LoadFirmwareFromFlash(d, i) ==
  IF d.running THEN {Err(d)}
  ELSE IF d.inited /\ i \in DOMAIN d.flash
       THEN Command(d, TRUE, [d EXCEPT !.ram = d.flash[i].fw, !.cfg = d.flash[i].cfg])
       ELSE {Err(d)}

\* The header is checked before the first block; any block, and the end, can fail.
\* Variant: the firmware need not be stopped.
LoadFirmwareAnyway(d, image) == {Ok([d EXCEPT !.ram = image]), Err(d), Err([d EXCEPT !.ram = Partial])}
LoadFirmware(d, image) ==
  IF d.running THEN {Err(d)}
  ELSE {Ok([d EXCEPT !.ram = image]), Err(d), Err([d EXCEPT !.ram = Partial])}

SaveFirmwareToFlash(d) ==
  Command(d, d.inited /\ ~d.running /\ d.ram \notin {None, Partial} /\ Len(d.flash) < MaxSlots,
          [d EXCEPT !.flash = Append(@, [fw |-> d.ram, cfg |-> d.cfg])])

SaveConfigToFlash(d, i) ==
  Command(d, (d.running \/ d.inited) /\ i \in DOMAIN d.flash, [d EXCEPT !.flash[i].cfg = d.cfg])

\* LoadConfigCr2: what the loop has written to the device after n lines of the record.  A run of
\* consecutive addresses goes out when it breaks, or in blocks; what is left in dataBuffer at
\* the end of the file is not written.
Cr2Start == [prev |-> 0, cur |-> 0, buf |-> <<>>, cfg |-> <<>>]

Ship(s) == s.cfg \o [i \in 1 .. Len(s.buf) |-> [reg |-> s.cur + 2 * (i - 1), val |-> s.buf[i]]]

Cr2Line(s, line) ==
  LET first == s.prev = 0
      cur   == IF first THEN line.reg ELSE s.cur
      prev  == IF first THEN line.reg - 2 ELSE s.prev
      gap   == line.reg # prev + 2
      t == [prev |-> line.reg,
            cur  |-> IF gap THEN line.reg ELSE cur,
            buf  |-> Append(IF gap THEN <<>> ELSE s.buf, line.val),
            cfg  |-> IF gap THEN Ship(s) ELSE s.cfg]
  IN IF Len(t.buf) = BlockWords THEN [t EXCEPT !.prev = 0, !.buf = <<>>, !.cfg = Ship(t)] ELSE t

Cr2(record) ==
  LET at[n \in 0 .. Len(record)] == IF n = 0 THEN Cr2Start ELSE Cr2Line(at[n - 1], record[n]) IN at

LoadConfigCr2(d, record) == [d EXCEPT !.cfg = Cr2(record)[Len(record)].cfg]

-----------------------------------------------------------------------------
(* The tool.  A stage that the arguments do not ask for is passed over. *)

\* What is read of the files: a path that is no file counts as none given, without a word.
Content(path)     == IF path = NoFile THEN None ELSE path
firmware_buf      == Content(args.fw)
config_record_buf == Content(args.cfg)

Stages == {"open", "stop", "init", "fromflash", "erase", "load", "save", "config",
           "savecfg", "reset", "start", "done", "error", "crash"}

ToolInit ==
  /\ dev \in Devices
  /\ args \in Jobs \cup {None}
  /\ pc = IF args = None THEN "done" ELSE "open"
  /\ fw_running = FALSE /\ slot = None

Rebooting == firmware_buf # None \/ args.erase \/ args.from # 0

\* Main(): the arguments are checked, then the state of the firmware is read.
Open ==
  /\ pc = "open"
  /\ IF firmware_buf = None /\ (IF config_record_buf = None THEN args.save ELSE args.erase)
     THEN pc' = "error" /\ UNCHANGED fw_running
     ELSE pc' = "stop" /\ fw_running' = dev.running
  /\ UNCHANGED <<dev, args, slot>>

Stage(from, to, wanted, results) ==
  /\ pc = from
  /\ IF wanted
     THEN \E r \in results : dev' = r.dev /\ pc' = IF r.ok THEN to ELSE "error"
     ELSE pc' = to /\ UNCHANGED dev
  /\ UNCHANGED args

Stop ==
  /\ Stage("stop", "init", Rebooting /\ fw_running, StopFirmware(dev))
  /\ fw_running' = (fw_running /\ (~Rebooting \/ pc' = "error"))
  /\ UNCHANGED slot

Prepare   == Stage("init", "fromflash", Rebooting, InitFlash(dev, TRUE)) /\ UNCHANGED <<fw_running, slot>>

FromFlash ==
  /\ Stage("fromflash", "erase", args.from # 0,
           IF firmware_buf # None \/ args.erase THEN {Err(dev)}
           ELSE LoadFirmwareFromFlash(dev, args.from))
  /\ UNCHANGED <<fw_running, slot>>

Erase == Stage("erase", "load", args.erase, EraseFlash(dev)) /\ UNCHANGED <<fw_running, slot>>
Load  ==
  /\ Stage("load", "save", firmware_buf # None, LoadFirmware(dev, firmware_buf))
  /\ UNCHANGED <<fw_running, slot>>

Save ==
  /\ Stage("save", "config", firmware_buf # None /\ args.save, SaveFirmwareToFlash(dev))
  /\ slot' = IF firmware_buf # None /\ args.save /\ pc' = "config" THEN Len(dev'.flash) ELSE slot
  /\ UNCHANGED fw_running

\* A record is told by the extension of its path; any other is a ValueError.
Config ==
  /\ Stage("config", "savecfg", config_record_buf # None,
           IF args.cr2 THEN {Ok(LoadConfigCr2(dev, config_record_buf))} ELSE {Err(dev)})
  /\ UNCHANGED <<fw_running, slot>>

\* Variant: the slot the user named.
SlotOfUser == args.index
\* The slot to save a configuration in: the user's at run time, the firmware's otherwise.
SlotOf == IF fw_running THEN args.index ELSE slot

\* A slot that was never set is a NameError, which nothing catches.
SaveConfig ==
  /\ pc = "savecfg"
  /\ IF config_record_buf # None /\ args.save /\ SlotOf = None
     THEN pc' = "crash" /\ UNCHANGED <<dev, args>>
     ELSE Stage("savecfg", "reset", config_record_buf # None /\ args.save,
                SaveConfigToFlash(dev, SlotOf))
  /\ UNCHANGED <<fw_running, slot>>

SoftReset ==
  /\ Stage("reset", "start", config_record_buf # None /\ fw_running, Command(dev, TRUE, dev))
  /\ UNCHANGED <<fw_running, slot>>

Start == Stage("start", "done", ~fw_running, StartFirmware(dev)) /\ UNCHANGED <<fw_running, slot>>

ToolNext == Open \/ Stop \/ Prepare \/ FromFlash \/ Erase \/ Load \/ Save \/ Config
            \/ SaveConfig \/ SoftReset \/ Start

-----------------------------------------------------------------------------
(* What is written of a record: all its lines but those of a last block that is neither full
   nor followed by a gap. *)
Starts(record, n)  == n = 1 \/ record[n].reg # record[n - 1].reg + 2
RunHead(record, n) ==
  CHOOSE m \in 1 .. n : Starts(record, m) /\ \A k \in m + 1 .. n : ~Starts(record, k)
LeftOver(record, n) == IF n = 0 THEN 0 ELSE (n - RunHead(record, n) + 1) % BlockWords
Whole(record) == SubSeq(record, 1, Len(record) - LeftOver(record, Len(record)))

\* A tool that ends without an error has done with the files it found what its arguments say: the
\* firmware is in RAM; the configuration is on the device, but for the last lines of a record that
\* do not fill a block (Whole: the code leaves them in dataBuffer and reports success all the same);
\* the slot of the flash that belongs to that firmware, or the one named when the firmware was left
\* running, holds the two together; an image asked for by its slot is the one in RAM, with its
\* configuration; what was to be erased is gone.  It dies of a slot that was never set only when it
\* was to save a configuration, had no firmware to save it with, and none was left running.
DoneAsAsked ==
  args # None =>
    /\ pc = "done" =>
         /\ firmware_buf # None => dev.ram = firmware_buf
         /\ config_record_buf # None => args.cr2 /\ dev.cfg = Whole(config_record_buf)
         /\ (args.save /\ firmware_buf # None) =>
              /\ dev.flash[Len(dev.flash)].fw = firmware_buf
              /\ config_record_buf # None => dev.flash[Len(dev.flash)].cfg = Whole(config_record_buf)
              /\ args.erase => Len(dev.flash) = 1
         /\ (args.save /\ firmware_buf = None) =>
              fw_running /\ dev.flash[args.index].cfg = Whole(config_record_buf)
         /\ args.from # 0 =>
              /\ args.from \in DOMAIN dev.flash /\ dev.ram = dev.flash[args.from].fw
              /\ config_record_buf = None => dev.cfg = dev.flash[args.from].cfg
         /\ (args.erase /\ ~args.save) => dev.flash = <<>>
    /\ pc = "crash" => args.save /\ config_record_buf # None /\ firmware_buf = None /\ ~fw_running

=============================================================================
