CONSTANTS
  Images = {a, b, c}
  Ops = {o1, o2}
  Base = a
  Erased = Erased
  Partial = Partial
  NoImage = NoImage
  NoOp = NoOp
  MaxResets = 2
SPECIFICATION FairSpec
INVARIANTS AlwaysBoots BootExplained TerminalTruth ToldIsDurable WorkerOwnsIntent
PROPERTIES IntentBeforeWrite ResultIsFinal IntentSettles
CHECK_DEADLOCK FALSE
