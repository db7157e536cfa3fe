CONSTANTS
  e1 = e1
  e2 = e2
  d1 = d1
  d2 = d2
  d3 = d3
  v1 = v1
  v2 = v2
  person = person
  org = org
  text = text
  Entities = {e1, e2}
  Types = {person, org}
  Filters = {text}
  Recoveries = {v1, v2}
  TypeOf <- MCTypeOf
  Named <- MCNamed
  Rank <- MCRank
  PerPage = 1
  Linked <- MCLinked
  Mentions <- MCMentions
  Empty = Empty
  None = None
  Failed = Failed
  MaxExplore = 4
  Docs = {d1, d2, d3}
  Groups <- MCGroups
  NoDoc = NoDoc
  Loading = Loading
  MaxLoads = 2
  Passages = 2
  OtherTabs = {metadata}
  Nothing = Nothing
  MaxRecovery = 3
  NumPages = 2
  Widths = {1, 2}
  MaxRenders = 3
  MaxResizes = 2
SPECIFICATION MCPagesSpec
INVARIANT
  ViewersInLockstep
CHECK_DEADLOCK FALSE
