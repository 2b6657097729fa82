SPECIFICATION Spec
CONSTANTS
  a = a
  b = b
  t = t
  m = m
  n = n
  r = r
  user = user
  guest = guest
  NoKey = NoKey
  None = None
  Events <- MCEvents
  Prev <- MCPrev
  Keys <- MCKeys
  KeyOf <- MCKeyOf
  Users <- MCUsers
  Membership <- MCMembership
  Rank <- MCRank
  Inputs <- MCInputs
  Rejectable = {r}
  SoftFailable = {m}
INVARIANTS
  ExtremitiesIncomparable
  EveryTipIsExtremity
  
  MembershipFollowsState
