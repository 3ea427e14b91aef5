SPECIFICATION CodecSpec
CONSTANTS
  Ids <- MCIds
  CardIds <- MCCardIds
  Datas <- MCDatas
INVARIANTS Faithful DataKept
