SPECIFICATION QuerySpec
CONSTANTS
  Digits = {"1", "2"}
  Letters = {"a", "b", "c", "I"}
  Space = " "
  Others = {"-", "."}
  Dotted = "I"
  Plain = "c"
  Dot = "."
  Rank <- MCRank
  TokenLimit = 4
  MaxExpansions = 3
  Records <- MCRecords
  None = None
INVARIANTS
  SuggestedWhileTyping
  SearchFindsSuggested
CHECK_DEADLOCK FALSE
