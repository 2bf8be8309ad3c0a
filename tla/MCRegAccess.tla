------------------------------ MODULE MCRegAccess ------------------------------
EXTENDS RegAccessInv

CONSTANTS Mixer, Shell, Other

\* AEC ROUT GAIN (bits 3 to 6) and its extension (bits 7 to 9) share a register.
MCControls == {[reg |-> 778, unit |-> 1, low |-> 8, values |-> 16],
               [reg |-> 778, unit |-> 128, low |-> 1, values |-> 8]}
MCSettings == {0, 65535}

\* A direct register and a paged one at the same offset; the bits of both controls.
MCRegs == {10, 778}
MCVals == {1016}
MCRecords == {<<>>, <<[reg |-> 778, val |-> 0], [reg |-> 10, val |-> 1016]>>}

\* A control is put while registers and a configuration record are written; two controls are
\* put at the same time; dumps are asked for and taken by two users, with a writer.
MCWorks == {
  [u \in Users |-> CASE u = Mixer -> {"put"} [] u = Shell -> {"reg_wr", "cfgrec"} [] u = Other -> {}],
  [u \in Users |-> CASE u = Mixer -> {"put"} [] u = Shell -> {} [] u = Other -> {"put"}],
  [u \in Users |-> CASE u = Mixer -> {"reg_wr"} [] u = Shell -> {"reg_rd", "dump"} [] u = Other -> {"reg_rd", "dump"}]}
=============================================================================
