CONSTANTS
  Flows <- Grid
  NoFlow = NoFlow
SPECIFICATION Spec
INVARIANTS
  SomeSignatureSuffices
