CONSTANTS
  Nil = Nil
  Torn = Torn
  Empty = Empty
  p1 = p1
  p2 = p2
  Authored <- MCAuthored
  Derived <- MCDerived
  Content <- MCContent
  Path <- MCPath
  OutPath <- MCOutPath
  Makes <- ImpureMakes
  Judges <- JudgesOutput
  Recipes <- ScriptRecipes
  Follows <- MCFollows
  Verbs <- AloneReview
  Edits <- ReviewEdits
  SelfReporting = {"voiceover"}
  DeclaresValidator = {"podcast"}
  Standin <- HeldStandin
  Stored <- FullStore
  EditsDuringRuns = FALSE
  Faults = {"provider"}
  Targets <- MCDerived
  Proc <- One
SPECIFICATION Spec
INVARIANTS DecisionsSurvive RefusalLeavesLedger ModifiedMeansEdited
PROPERTY VerbsAreAtomic
