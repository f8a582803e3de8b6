SPECIFICATION Spec
CONSTANTS
  Versions <- TwoVersions
CONSTRAINTS
  NotBoth
INVARIANTS
  TypeOK
  SafeReuse
  SafeHit
  SafeGate
  TrueProvenance
