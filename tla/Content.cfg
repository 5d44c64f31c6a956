\* Two days, two daily runs, one weekly run, a draft of each of two topics: one waits,
\* and the operator queues one more, the same or the other.
CONSTANTS
  cabling = cabling
  voip = voip
  cabling1 = cabling1
  voip1 = voip1
  devto = devto
  Topic = {cabling, voip}
  Slug = {cabling1, voip1}
  TopicOf <- Topics
  NoSlug = NoSlug
  LastDay = 2
  Channel = {devto}
  Syndicated <- OneChannel
  Weekly = {w1}
  Plans <- NoneOrOne
  Queues <- OneTopic
  MaxRuns = 2
  MaxRequests = 1
  MaxFaults = 1
SPECIFICATION Spec
INVARIANTS
  TypeOK
  GreenMeansPost
  PostsAreDistinct
  CopiesNeedMishap
  PublicationFollowedUp
CHECK_DEADLOCK FALSE
