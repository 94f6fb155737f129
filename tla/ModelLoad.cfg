SPECIFICATION Spec
CONSTANTS
  Loader <- Loads
  Model = {m1, m2}
  ModelType <- Types
  MapIsJson <- Maps
SYMMETRY Symmetry
INVARIANT
  LoadInv
PROPERTY
  ImplementsAtomicLoad
