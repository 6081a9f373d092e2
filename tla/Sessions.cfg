SPECIFICATION Spec
CONSTANTS
  s1 = s1
  s2 = s2
  Session = {s1, s2}
  Size = {0, 1, 2}
  LdSize = 4
  MaxFile = 2
  MaxRequests = 3
INVARIANTS AccountExact OvershootBounded
CHECK_DEADLOCK FALSE
