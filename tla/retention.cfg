\* A staging ledger and a bank's ledger, one capability, outcomes 0, 1/2 and 1.
SPECIFICATION Spec
CONSTANTS
  staging = staging
  bank = bank
  a = a
  Ledgers <- MCLedgers
  Keys <- MCKeys
  Unit = 2
  Mastery = 1
  MinMastery = 2
  Reversal = 0
  Patience = 2
  MaxObs = 6
INVARIANTS
  TypeOK
  ProtectedWasMastered
  MasteredIsProtected
  RecordsNotFromTheFuture
PROPERTY ReleasedOnlyByStreak
