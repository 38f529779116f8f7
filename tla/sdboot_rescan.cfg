SPECIFICATION Spec
INVARIANTS
  InstallAlwaysStarts
