\* Two skills, two contexts; an outcome is a multiple of 1/60, so that the
\* mean of up to six rewards is exact, and (0 + 1) / 2 is both thresholds.
SPECIFICATION Spec
CONSTANTS
  c1 = c1
  c2 = c2
  s1 = s1
  s2 = s2
  NoContext = NoContext
  Contexts <- MCContexts
  Rewards <- MCRewards
  Unit = 60
  Mastery = 30
  MinMastery = 2
  Reversal = 30
  Patience = 1
  Exploration = FALSE
  AllSlots <- MCSlots
  NoSlot = NoSlot
  MaxReceipts = 3
  MaxEpisodes = 2
  Repeated = {1}
SYMMETRY MCSymmetry
INVARIANTS
  TypeOK
  ProtectionIsMastery
  SkillChangesOnlyAfterHalt
  MeanIsTheSelections
  CreditedOnce
