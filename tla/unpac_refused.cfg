SPECIFICATION Spec
INVARIANTS
  ExtractsEvery
