SPECIFICATION Spec
CONSTANTS
  Skills = {s1, s2}
  Names = {1, 2}
  Requests = {r1, r2}
  Candidates = {ana}
  Records = {d1}
  Dates = {1, 2}
  None = None
SYMMETRY Symmetry
INVARIANTS PeriodsAreValid
