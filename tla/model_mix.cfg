CONSTANTS
  N = 2
  BatchSize = 1
  Limit = 2
  MaxAttempts = 2
  Text <- MCText
  Undecodable = {"binary"}
  Candidate = {"one", "two"}
  In <- MCIn
  Answers <- MCAnswers
  Model = {"m1", "m2"}
  Command = "claude"
  Faults = {}
  Nil = Nil
  Junk = Junk
SPECIFICATION MinerSpec
INVARIANT IdentitiesDisclosed
