SPECIFICATION Spec
CONSTANTS
  t1 = t1
  t2 = t2
  Tabs <- MCTabs
  MaxTokens = 3
  MaxChanges = 2
  MaxFaults = 1
INVARIANTS OldTokensAreDead RotatedIsDead
SYMMETRY MCSymmetry
