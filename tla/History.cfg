\* Three rows of five kinds at two times; lists of two, pages of one.
SPECIFICATION Spec
CONSTANTS
  Analyses <- MCAnalyses
  OldAnalyses <- MCOld
  Hosts <- MCHosts
  Mentions <- MCMentions
  Ids = {"7", "8"}
  Times = {1, 2}
  Filters <- MCFilters
  PageSize = 1
  ListLimit = 2
  LargeLimit = 2
  MaxRows = 3
CHECK_DEADLOCK FALSE
INVARIANTS
  EveryRequestLineListed
  SeverityFilterIsTrue
  PagesSkipNothing
  DashboardAddsUp
PROPERTIES
  PriorityNeverFalls
  ProfileNeverFades
