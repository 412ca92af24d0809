SPECIFICATION Spec
CONSTANTS
  r1 = r1
  h1 = h1
  h2 = h2
  p1 = p1
  p2 = p2
  p3 = p3
  NULL = NULL
  Handles = {h1, h2}
  Posts = {p1, p2, p3}
  HandleOf <- Handle
  ShapeOf <- Shape
  InScope = {p1}
  Runs = {r1}
  Floor = 0
  Lookback = 1
  Buffer = 1
  PageCap = 1
  MaxTime = 2
INVARIANTS TypeOK NoPostLeftBehind
