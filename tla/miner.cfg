CONSTANTS
  N = 3
  BatchSize = 2
  Limit = 2
  MaxAttempts = 2
  Text <- MCText
  Undecodable = {"binary"}
  Candidate = {"one", "two"}
  In <- MCIn
  Answers <- MCAnswers
  Model = {"m1"}
  Command = "claude"
  Faults = {"kill", "damage", "edit", "disk"}
  Nil = Nil
  Junk = Junk
SPECIFICATION MinerSpec
INVARIANTS BankIsWhole BankIsGrounded EndsSettled
PROPERTIES NoWorkAfterFailure PaidOnce MiningEnds
