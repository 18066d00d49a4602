SPECIFICATION Spec
CONSTANTS
  Thread = {t1, t2}
  Lib = {a, b}
  a = a  b = b
  a1 = a1  a2 = a2  b1 = b1  other = other
  Addr = {a1, a2, b1, other}
  Null = Null
  Span <- TwoSpans
  MaxDtors = 3
INVARIANTS OnePlace LeftOnlyIfLate
PROPERTIES ReverseOrder TakenIsCalled
