SPECIFICATION Spec
CONSTANTS
  t1 = t1
  t2 = t2
  Thread = {t1, t2}
  b1 = b1
  b2 = b2
  b3 = b3
  Block = {b1, b2, b3}
  Root = Root
  Null = Null
  Size = {1, 2}
  Header = 1
  MaxAllocate = 5
  Word = 16
  MaxUses = 2
SYMMETRY Symmetry
INVARIANTS TypeOK SizesOrdered EachBlockOnce LimitExact
CHECK_DEADLOCK FALSE
