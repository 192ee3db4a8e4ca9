SPECIFICATION Spec
CONSTANTS
  Certifications = {course}
  Keys = {k1, k2}
  Requests = {r1}
  Faults = {"answer"}
  None = None
PROPERTY DeletesOnlyGoneDocuments
