SPECIFICATION VoiceSpec
CONSTANTS
  Drafts <- MCDrafts
  Bodies <- MCBodies
  Destinations <- MCDestinations
  Citations <- MCCitations
  Numerals <- MCNumerals
  Lexicon <- MCLexicon
  Requests <- MCRequests
  Edits <- MCEdits
INVARIANT VoiceTypeOK PassedMeansKept FailedMeansLost VerdictMatchesFailures OwnEditionResolves
CHECK_DEADLOCK FALSE
