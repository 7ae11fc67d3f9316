CONSTANTS
  None = None
  Torn = Torn
  NumPages = 2
  Rules = {ra, rb}
  oa = oa
  ob = ob
  oc = oc
  OcrConfigs = {oa, ob, oc}
  Identity <- MCIdentity
  ChunkPages = 1
  MaxConfigEdits = 2
  good = good
  odd = odd
  a1 = a1
  a2 = a2
  Fields = {f1}
  Wordings = {good, odd}
  Odd <- MCOdd
  Near <- MCNear
  MaxPacketRound = 2
  Agents <- MCAgents
  MaxRereads = 1
  MaxIngests = 1
  wa = wa
  wb = wb
  Books <- MCBooks
  NumTexts = 2
  Voices = {v1, v2}
  Workers = 2
  MaxRetries = 1
  MaxTextEdits = 1
  MaxSpoilt = 1
SPECIFICATION MCSpec
SYMMETRY AnyAgent
INVARIANTS RecognisedIsWhole NothingIsGuessed UnitsAsPrinted LinesStayInTheirUnit ValidatedIsComplete PaidOnce
CHECK_DEADLOCK FALSE
