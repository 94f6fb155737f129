SPECIFICATION FairSpec
CONSTANTS
  Client = {c1, c2}
  Model = {m1}
  NoModel = NoModel
  Mode = "grpc"
  ConfigInflight = 1
  Workers = 2
  Payloads <- LivenessPayloads
PROPERTY EveryCallEnds
