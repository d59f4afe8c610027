CONSTANTS
  gate = gate
  sizing = sizing
  Words <- MCWords
  MaxWrites = 4
SPECIFICATION HSpec
INVARIANTS
  HitIsCurrent
