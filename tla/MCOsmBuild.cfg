SPECIFICATION Spec
CONSTANTS
  Blank = Blank
  None = None
  SampleCap = 2
  CanonicalPostcode <- MCCanonicalPostcode
  Files <- MCFiles
  HouseNumbers <- MCHouseNumbers
  PairIssues <- MCPairIssues
INVARIANTS
  MergeOrderInvisible
  ReportMatchesPack
  EveryFeatureDecided
  UnresolvedOnlyIfMissing
  PostcodesCountAddresses
