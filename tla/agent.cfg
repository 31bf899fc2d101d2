CONSTANTS
  Nil = Nil
  Torn = Torn
  Authored <- MCAuthored
  Derived <- MCDerived
  Content <- AgentContent
  Path <- MCPath
  OutPath <- MCOutPath
  Makes <- ImpureMakes
  Judges <- PassesAll
  Recipes <- AgentRecipes
  Follows <- MCFollows
  Edits <- AgentEdits
  SelfReporting = {"voiceover"}
  DeclaresValidator = {"podcast"}
  Standin <- MCStandin
  Stored <- EmptyStore
  Targets <- MCDerived
  MaxEdits = 2
SPECIFICATION AgentSpec
CHECK_DEADLOCK FALSE
INVARIANTS BlockedMeansActionable ExplainLeadsToWork DecisionsStopTheChain
PROPERTY FrontierLeadsToRelease
