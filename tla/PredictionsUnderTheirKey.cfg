SPECIFICATION Spec
CONSTANTS
  Servers <- DefaultServers
  Requests <- RequestsOf
  Infer <- InferOf
  Values <- AllValues
  NaN = NaN
  Plain = Plain
INVARIANT
  PredictionsUnderTheirKey
