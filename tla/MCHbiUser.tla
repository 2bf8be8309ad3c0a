------------------------------- MODULE MCHbiUser -------------------------------
EXTENDS HbiUserInv

CONSTANT Main

\* Each process has one file descriptor.
MCOwner == [f \in Files |-> f]

\* One process makes calls of every kind: with data, too much data, an image number, or nothing;
\* the other one uploads a block of its own.
MCMay == [p \in Procs |->
  IF p = Main
    THEN {<<"LOAD_CFGREC_FROM_HOST", "a">>, <<"LOAD_CFGREC_FROM_HOST", "long">>,
          <<"LOAD_FWRCFG_FROM_FLASH", 256>>, <<"SAVE_CFG_TO_FLASH", 1>>, <<"SLEEP", None>>}
    ELSE {<<"LOAD_FWR_FROM_HOST", "b">>}]

MCUses == [p \in Procs |-> IF p = Main THEN Ids ELSE Ids \ {CodecDev}]

\* The other one does not call HBI_init itself, nor miss a device file.
MCMaxInits == [p \in Procs |-> IF p = Main THEN 1 ELSE 0]

\* A number the HBI driver's check reads as 1, and one that takes the other byte.
MCImageNums == {1, 256}

\* The module is not loaded again while a file is open that it left without its driver.
MCReload == mod = "out" \/ \A f \in Files : files[f] # Gone
=============================================================================
