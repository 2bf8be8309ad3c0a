------------------------------- MODULE MCMiTuner -------------------------------
EXTENDS MiTuner

CONSTANTS Polite, Piper, Image, OldImage

Req(type, len) == [type |-> type, len |-> len]

\* One client uploads a file in three pieces and saves it; the other writes registers (which may
\* stop the firmware), sends requests without waiting, continues a file it has not begun, uploads
\* one of its own and reads a register.
MCScripts == [c \in Clients |->
  IF c = Polite THEN <<Req("FA", 1), Req("FB", 2), Req("FC", 0), Req("SF", 0), Req("LF", 1)>>
  ELSE <<Req("BW", 1), Req("FB", 0), Req("FA", 1), Req("FC", 0), Req("HR", 1)>>]

Line(reg, val) == [reg |-> reg, val |-> val]

\* Records of the tool: whole blocks and a gap; a last block that is not full.
MCRecords == {<<Line(512, 1), Line(514, 2), Line(768, 3), Line(1024, 4), Line(1026, 5)>>,
              <<Line(512, 1), Line(514, 2), Line(516, 3)>>}

\* Every argument list; the extension matters only with a record, the slot only with -s.
MCJobs ==
  {j \in [fw : {None, NoFile, Image}, cfg : {None, NoFile} \cup MCRecords, cr2 : BOOLEAN,
          erase : BOOLEAN, save : BOOLEAN, from : {0, 1}, index : {1, 2}] :
     (j.cfg \notin MCRecords => j.cr2) /\ (~j.save => j.index = 1)}

MCDevices ==
  {[running |-> FALSE, inited |-> FALSE, ram |-> None, cfg |-> <<>>, flash |-> <<>>],
   [running |-> TRUE, inited |-> FALSE, ram |-> OldImage, cfg |-> <<>>,
    flash |-> <<[fw |-> OldImage, cfg |-> <<>>]>>]}
=============================================================================
