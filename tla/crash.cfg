CONSTANTS
  Nil = Nil
  Torn = Torn
  Empty = Empty
  p1 = p1
  p2 = p2
  Authored <- MCAuthored
  Derived <- MCDerived
  Content <- MCContent
  Path <- MCPath
  OutPath <- MCOutPath
  Makes <- MCMakes
  Judges <- MCJudges
  Recipes <- OneRecipe
  Follows <- NoFollows
  Verbs <- Alone
  Edits <- MCEdits
  SelfReporting = {"voiceover"}
  DeclaresValidator = {"podcast"}
  Standin <- MCStandin
  Stored <- EmptyStore
  EditsDuringRuns = FALSE
  Faults = {"crash"}
  Targets <- MCDerived
  Proc <- One
SPECIFICATION Spec
INVARIANTS TypeOK FreshIsBuilt ReleasedIsCurrent
