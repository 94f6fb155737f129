SPECIFICATION Spec
CONSTANTS
  Client = {c1, c2, c3}
  Model = {m1, m2}
  NoModel = NoModel
  Mode = "http"
  ConfigInflight = 0
  Workers = 2
  Payloads <- SafetyPayloads
SYMMETRY Symmetry
INVARIANTS
  TypeOK
  PermitAccounting
  WarmCallsStayServed
  PredictsWithInstalledModel
  IndInv
PROPERTIES
  AdapterNeverReverts
  RefusedOnlyWhenFull
  ImplementsAdmission
