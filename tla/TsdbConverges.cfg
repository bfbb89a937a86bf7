CONSTANTS
  w1 = w1  w2 = w2  a = a  b = b
  Keys = {1}
  Written = {a, b}
  Empty = Empty
  NoVal = NoVal
  NoRec = NoRec
  NoMsg = NoMsg
  Keep = Keep
  Writers = {w1}
  MaxSeq = 2
  NineByte = {}
  Decoded = 2
  Deletes = TRUE
  WriteErrors = TRUE
  DeleteErrors = {"set"}
  ReadsOpenBatch = FALSE
  Overtaking = FALSE
SPECIFICATION FairSpec
PROPERTIES Converges
