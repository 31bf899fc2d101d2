CONSTANTS
  Nil = Nil
  Torn = Torn
  Empty = Empty
  p1 = p1
  p2 = p2
  Authored <- MCAuthored
  Derived <- MCDerived
  Content <- MCContent
  Path <- MCPath
  OutPath <- MCOutPath
  Makes <- MCMakes
  Judges <- MCJudges
  Recipes <- OneRecipe
  Follows <- NoFollows
  Verbs <- BuildAndOthers
  Edits <- MCEdits
  SelfReporting = {}
  DeclaresValidator = {"podcast"}
  Standin <- MCStandin
  Stored <- EmptyStore
  EditsDuringRuns = FALSE
  Faults = {}
  Targets <- MCDerived
  Proc <- Two
SPECIFICATION Spec
INVARIANTS RecordsAreTrue StatusFreshIsTrue
