SPECIFICATION Spec
CONSTANTS
  Servers <- AllServers
  Requests <- RequestsOf
  Infer <- InferOf
  Values <- AllValues
  NaN = NaN
  Plain = Plain
INVARIANTS
  AnsweredAsMeant
  AcceptedIsWhatWasSent
  PanicsOnlyPastTheRow
  LimitBoundsTheModel
  RowsComeFromOneKey
  VectorsAccepted
  ChosenOutputExists
  AnswerHasAnItemPerRecord
  ResponseKeysComplete
  PredictionsBelongToRecords
  ProtocolsAgree
  NoModelNoPrediction
  AnsweredAsForeseen
