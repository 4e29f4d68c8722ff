SPECIFICATION EnabledRulesSpec
CONSTANTS
  None = None
  RuleIds = {1, 2}
  Trees = {x, y}
  Writers = {w1}
  MaxWrites = 4
  Runs = {e}
SYMMETRY TreeSymmetry
INVARIANTS
  EnabledIndexedAsTheyStand
  ShownMatchesRanCurrentTree
PROPERTIES
  OnlyEnabledListed
  ShownUntilRevised
