SPECIFICATION FairSpec
CONSTANTS
  Client = {c1, c2}
  Model = {m1}
  NoModel = NoModel
  Mode = "http"
  ConfigInflight = 1
  Workers = 1
  Payloads <- LivenessPayloads
PROPERTIES EveryCallEnds RecoversAfterRepair
