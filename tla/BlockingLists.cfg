CONSTANTS
  Name <- MCName
  ListedText <- MCListedText
  GravityText <- MCGravityText
  Published <- MCPublished
  AllowRegex = {}
  DenyRegex <- MCDenyRegex
  Request = {r1, r2}
  MaxChanges = 2
  MaxReloads = 1
SPECIFICATION FairListsSpec
INVARIANT FollowsDatabase
PROPERTY DisagreementEnds
CHECK_DEADLOCK FALSE
