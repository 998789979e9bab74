SPECIFICATION FairSpec
CONSTANTS
  OutboundLists <- MCOutboundLists
  EndpointLists <- MCEndpointLists
  Absent = "x"
  Direct = "direct"
INVARIANTS Backed ClosedReleases StartsInOrder
PROPERTIES StartEnds
