SPECIFICATION Spec
CONSTANTS
  Certifications = {course, diploma}
  Keys = {k1, k2, k3}
  Requests = {r1, r2}
  Faults = {"storage", "database", "answer", "connection", "crash"}
  None = None
SYMMETRY Symmetry
INVARIANTS TypeOK OrphansHaveACause DocumentsAreStored
