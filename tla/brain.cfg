\* A program that ends and one that does not, two temporal programs of
\* different widths, room for three skills.
SPECIFICATION Spec
CONSTANTS
  prelude = prelude
  loop = loop
  t1 = t1
  t2 = t2
  None = None
  Bases <- MCBases
  Finite <- MCFinite
  Temporal <- MCTemporal
  Width <- MCWidth
  Reads <- MCReads
  Contexts <- MCContexts
  Imports <- MCImports
  Capacity = 3
  MinObservations = 3
  MinStable = 2
  MaxVersion = 4
  MaxSaved = 1
  MaxParts = 3
  MaxLifetimes = 3
INVARIANTS
  TypeOK
  SavedBankLoads
  RefusedOnlyAfterCut
PROPERTIES
  RejectedLeavesNoTrace
  NewcomersAreStable
