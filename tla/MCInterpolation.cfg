SPECIFICATION WaySpec
CONSTANTS
  Ways <- MCWays
  NumberLimit = 8
  Scale = 6
  Untagged = Untagged
  Text = Text
INVARIANTS
  EstimatesAreHouses
  EstimatesFollowTheLine
  AddressNotContradicted
  EveryPairDecided
CHECK_DEADLOCK FALSE
