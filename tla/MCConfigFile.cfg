SPECIFICATION Spec
CONSTANTS
  Procs = {p1, p2}
  a = a
  b = b
  Names = {a, b}
  None = None
  Unset = Unset
  HandWritten <- Written
  Places <- From
  MaxProfiles = 3
  MaxTurns = 3
SYMMETRY Symmetric
INVARIANTS
  AddedStays
PROPERTIES
  SaveChangesOneThing
  MigrateKeepsTheFile
CHECK_DEADLOCK FALSE
