SPECIFICATION Spec
CONSTANTS
  Sessions = {s1}
  Addresses = {a, b}
  NoOne = NoOne
  Verdicts = {{"add_header"}, {"drop", "accept"}, {"error"}}
  Upstream = TRUE
  MaxData = 2
INVARIANT EnvelopeIsTransaction
CHECK_DEADLOCK FALSE
