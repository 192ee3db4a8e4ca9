SPECIFICATION WithdrawnSpec
CONSTANTS
  Skills = {s1, s2}
  Names = {1, 2}
  Requests = {r1, r2}
  Candidates = {ana}
  Records = {}
  Dates = {1, 2}
  None = None
SYMMETRY Symmetry
INVARIANTS ReturnsOnlyReactivated
