CONSTANTS
  None = None
  mixer = mixer
  shell = shell
  other = other
  Mixer = mixer
  Shell = shell
  Other = other
  Users = {mixer, shell, other}
  Regs <- MCRegs
  Vals <- MCVals
  Controls <- MCControls
  Settings <- MCSettings
  Records <- MCRecords
  MaxWords = 2
  MaxPolls = 1
  LenMod = 8
  Works <- MCWorks
SPECIFICATION Spec
INVARIANTS TypeOK WritesLand ControlsHold DumpKept DumpEnds
