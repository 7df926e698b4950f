SPECIFICATION Spec
CONSTANTS
  Sessions = {1, 2}
  Chunks <- MCChunks
  StampOf <- MCStamps
  Query <- MCQuery
  WordChars <- MCWordChars
  LowerOf <- MCLower
  SnippetLimit = 2
  SnippetContext = 1
INVARIANTS OffsetsExact RankingSound SnippetsShowMatch
CHECK_DEADLOCK FALSE
