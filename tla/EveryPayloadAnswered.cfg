SPECIFICATION Spec
CONSTANTS
  Servers <- TabularServers
  Requests <- RequestsOf
  Infer <- InferOf
  Values <- AllValues
  NaN = NaN
  Plain = Plain
INVARIANT
  EveryPayloadAnswered
