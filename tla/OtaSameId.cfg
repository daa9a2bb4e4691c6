CONSTANTS
  Images = {a, b}
  Ops = {o1, o2}
  Base = a
  Erased = Erased
  Partial = Partial
  NoImage = NoImage
  NoOp = NoOp
  MaxResets = 2
SPECIFICATION Spec
PROPERTIES SameIdNeverStartsTwice
CHECK_DEADLOCK FALSE
