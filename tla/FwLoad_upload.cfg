CONSTANTS
  Writers = {w1, w2}
  Devices = {d1, d2}
  Images <- MCImages
  ImgLen <- MCImgLen
  HdrLen = 2
  BlockSize = 2
  BufLen = 8
  Cuts <- MCCuts
SPECIFICATION LoadSpec
INVARIANTS TypeOK LoadedWhole DoneMeansLoaded StartsEmpty
SYMMETRY Symmetry
