------------------------------- MODULE MiTunerInv -------------------------------
(***************************************************************************)
(* The inductive invariant of MiTuner: what the tool has done when it      *)
(* reaches each stage, and how far the server is in the stream of the      *)
(* client it serves.                                                       *)
(***************************************************************************)
EXTENDS MiTuner

\* The stages that come after each one when nothing fails.
AfterSaveConfig == {"reset", "start", "done"}
AfterConfig == {"savecfg"} \cup AfterSaveConfig
AfterSave   == {"config"} \cup AfterConfig
AfterLoad   == {"save"} \cup AfterSave
AfterErase  == {"load"} \cup AfterLoad
AfterRead   == {"erase"} \cup AfterErase
AfterStop   == {"init", "fromflash"} \cup AfterRead
AfterOpen   == {"stop"} \cup AfterStop

Saving == args.save /\ firmware_buf # None

\* The arguments were checked, and firmware that is to be replaced is stopped.
ArgumentsChecked ==
  /\ pc \in AfterOpen /\ firmware_buf = None => IF config_record_buf = None THEN ~args.save ELSE ~args.erase
  /\ pc \in AfterStop /\ Rebooting => ~fw_running
  /\ firmware_buf = None => slot = None

\* The flash after the erase, and after the image was saved in it.
FlashWritten ==
  /\ pc \in {"load", "save"} /\ args.erase => dev.flash = <<>>
  /\ pc \in AfterSave /\ args.erase /\ ~Saving => dev.flash = <<>>
  /\ pc \in AfterSave /\ Saving =>
       /\ slot = Len(dev.flash) /\ slot # 0 /\ dev.flash[slot].fw = firmware_buf
       /\ args.erase => slot = 1

\* The image that was read from the flash, and its configuration until one is loaded over it.
ImageRead ==
  pc \in AfterRead /\ args.from # 0 =>
    /\ firmware_buf = None /\ ~args.erase
    /\ args.from \in DOMAIN dev.flash /\ dev.ram = dev.flash[args.from].fw
    /\ pc \notin AfterConfig \/ config_record_buf = None => dev.cfg = dev.flash[args.from].cfg

\* The image and the configuration, from where they were loaded to the end.
ImageLoaded  == pc \in AfterLoad /\ firmware_buf # None => dev.ram = firmware_buf
ConfigLoaded == pc \in AfterConfig /\ config_record_buf # None => args.cr2 /\ dev.cfg = Whole(config_record_buf)
ConfigSaved  ==
  pc \in AfterSaveConfig /\ config_record_buf # None /\ args.save =>
    /\ firmware_buf = None => fw_running
    /\ dev.flash[IF firmware_buf # None THEN slot ELSE args.index].cfg = Whole(config_record_buf)

\* The NameError: a configuration to save, and no slot for it.
SlotUnset ==
  pc = "crash" => args.save /\ config_record_buf # None /\ firmware_buf = None /\ ~fw_running

ToolInv ==
  IF args = None THEN pc = "done" /\ slot = None
  ELSE args \in Jobs /\ ArgumentsChecked /\ FlashWritten /\ ImageRead /\ ImageLoaded
       /\ ConfigLoaded /\ ConfigSaved /\ SlotUnset

ToolTypes == DeviceOK(dev) /\ pc \in Stages /\ fw_running \in BOOLEAN /\ slot \in 1 .. MaxSlots \cup {None}

-----------------------------------------------------------------------------
Answer == [k : Nat, ok : BOOLEAN]
File   == Seq([client : Clients, k : Nat])

ServerTypes ==
  /\ cl \in [Clients -> [st : {"new", "open", "eof", "reset"}, sent : Nat, answers : Seq(Answer), unread : Nat]]
  /\ srv \in {"off", "accept", "recv", "down"} /\ (srv = "off") = (args # None)
  /\ peer \in Clients \cup {None} /\ (peer # None) = (srv \in {"recv", "down"})
  /\ got \in Nat /\ used \in Nat /\ used <= got /\ (peer # None => got <= cl[peer].sent)
  /\ waitType \in {"header", "cmd"} /\ s3File \in File \cup {None}

\* Who waits for accept has no answer yet, and waits once.
Queued ==
  /\ queue \in Seq(Clients) /\ Len(queue) <= Backlog
  /\ \A i \in DOMAIN queue :
       /\ cl[queue[i]].st # "new" /\ cl[queue[i]].answers = <<>> /\ queue[i] # peer
       /\ \A j \in DOMAIN queue : queue[i] = queue[j] => i = j

\* What a client has sent covers the requests it has answers to, and ends with its script.
AnsweredOf(c) ==
  /\ Len(cl[c].answers) <= Length(c) /\ cl[c].sent <= End(c, Length(c))
  /\ cl[c].unread <= Len(cl[c].answers)
  /\ \A i \in DOMAIN cl[c].answers : cl[c].answers[i].k = i /\ End(c, i) <= cl[c].sent
  /\ cl[c].st = "new" => c # peer /\ cl[c].answers = <<>>
Answered == \A c \in Clients : AnsweredOf(c)

\* The server has taken n requests of the client from the stream, and perhaps a header.
Request(c, k) == [k |-> k, type |-> Scripts[c][k].type, len |-> Scripts[c][k].len]
Taken(n) ==
  /\ cl[peer].st = "open" => Len(cl[peer].answers) = n
  /\ waitType = "header" => used = End(peer, n)
  /\ waitType = "cmd" => n < Length(peer) /\ used = End(peer, n) + HEADER_SZ /\ header = Request(peer, n + 1)
  /\ HasBegun(peer, n) => s3File # None /\ Holds(s3File, peer, n)
Serving == srv = "recv" => \E n \in 0 .. Length(peer) : Taken(n)

\* After an FC that was answered OK the device has the file.
FileLoaded ==
  LET done == cl[peer].answers
      k    == Len(done)
  IN srv = "recv" /\ cl[peer].st = "open" /\ done # <<>> =>
       (done[k].ok /\ Scripts[peer][k].type = "FC" => dev.ram = s3File)

ServerInv == ServerTypes /\ Queued /\ Answered /\ Serving /\ FileLoaded

IInv == ToolTypes /\ ToolInv /\ ServerInv

=============================================================================
