SPECIFICATION Spec
CONSTANTS
  Servers <- ColumnServers
  Requests <- RequestsOf
  Infer <- InferOf
  Values <- AllValues
  NaN = NaN
  Plain = Plain
INVARIANT
  RaggedNeverPredicted
