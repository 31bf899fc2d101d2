CONSTANTS
  Nil = Nil
  Torn = Torn
  p1 = p1
  p2 = p2
  take1 = take1
  take2 = take2
  Path = {"narration"}
  Content = {take1, take2}
  Proc = {p1, p2}
  AddsFrom = {p1}
  Oversized = {take2}
  EditsDuringRuns = TRUE
  Faults = {}
SPECIFICATION AssetSpec
CHECK_DEADLOCK FALSE
INVARIANT NothingLost
