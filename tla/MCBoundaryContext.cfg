SPECIFICATION Spec
CONSTANTS
  Blank = Blank
  None = None
  CanonicalPostcode = CanonicalPostcode
  Nodes <- MCNodes
  Members <- MCMembers
  Relation <- MCRelation
  Others <- MCOthers
  Sources <- MCSources
INVARIANTS
  RingsFollowMembers
  DisjointRingsFound
  ChoiceIgnoresOrder
  CountryFollowsBoundaries
