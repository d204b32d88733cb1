SPECIFICATION EventsSpec
CONSTANTS
  MailboxCapacity = 2
  MaxPosts = 2
  SameCore = TRUE
PROPERTY PostsReturn
\* no more events are posted after MaxPosts
CHECK_DEADLOCK FALSE
