\* One attempt on an Issue or on a pull request, two failures, two moves of somebody else.
SPECIFICATION FairSpec
CONSTANTS
  Origins = {"issue", "pull_request"}
  None = None
  MaxFaults = 2
  MaxMoves = 2
  MaxGrants = 3
INVARIANTS PublishedOnce ClaimsArePublic CommandIsItsOwn
PROPERTIES RecoverySettles
