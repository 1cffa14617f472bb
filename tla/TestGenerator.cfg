SPECIFICATION FairSpec
CONSTANTS
  t1 = t1
  t2 = t2
  t3 = t3
  t4 = t4
  poor = poor
  blank = blank
  Abilities <- MCAbilities
  Slots <- MCSlots
  AbilityOf <- MCAbilityOf
  Texts <- MCTexts
  Poor <- MCPoor
  Blank = blank
  Evidence <- MCEvidence
  Budgets <- MCBudgets
  MAX_COVERAGE_REPAIR_ROUNDS = 2
  MAX_SEMANTIC_REPAIR_ROUNDS = 2
INVARIANTS NothingToFill CompletedIsSound LastChecksAreIdle
PROPERTY GenerationEnds
CHECK_DEADLOCK FALSE
