SPECIFICATION Spec
CONSTANTS
  Client = {c1, c2, c3}
  Model = {m1, m2}
  NoModel = NoModel
  Mode = "grpc"
  ConfigInflight = 2
  Workers = 2
  Payloads <- SafetyPayloads
SYMMETRY Symmetry
INVARIANTS
  PermitAccounting
  WarmCallsStayServed
  RereadFindsAdapter
  PredictsWithInstalledModel
  IndInv
PROPERTIES
  ImplementsAdmission
