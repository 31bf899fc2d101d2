CONSTANTS
  Nil = Nil
  Torn = Torn
  Empty = Empty
  p1 = p1
  p2 = p2
  Authored <- MCAuthored
  Derived <- MCDerived
  Content <- MCContent
  Path <- MCPath
  OutPath <- MCOutPath
  Makes <- ImpureMakes
  Judges <- MCJudges
  Recipes <- TwoRecipes
  Follows <- NoFollows
  Verbs <- Alone
  Edits <- MCEdits
  SelfReporting = {"voiceover"}
  DeclaresValidator = {"podcast"}
  Standin <- MCStandin
  Stored <- EmptyStore
  EditsDuringRuns = FALSE
  Faults = {"provider", "rename"}
  Targets <- MCDerived
  Proc <- One
SPECIFICATION Spec
INVARIANTS VerdictsAreTrue FreshIsBuilt ReleasedIsCurrent BuildSettles
PROPERTY VerdictKeepsRecord
