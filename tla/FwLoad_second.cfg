CONSTANTS
  Writers = {w1}
  Devices = {d1}
  Images <- TwoImages
  ImgLen <- TwoLens
  HdrLen = 2
  BlockSize = 2
  BufLen = 8
  Cuts <- NoCuts
SPECIFICATION Spec
INVARIANT LoadedWhole
