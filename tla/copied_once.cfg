SPECIFICATION VoiceSpec
CONSTANTS
  Drafts <- MCDrafts
  Bodies <- MCBodies
  Destinations <- MCDestinations
  Citations <- MCCitations
  Numerals <- MCNumerals
  Lexicon <- NoLexicon
  Requests <- MCRequests
  Edits <- NoEdits
INVARIANT EveryOccurrenceDistinct
CHECK_DEADLOCK FALSE
