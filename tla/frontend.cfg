SPECIFICATION FairSpec
CONSTANTS
  p1 = p1
  p2 = p2
  A = A
  B = B
  NoId = NoId
  NotObject = NotObject
  NoPage = NoPage
  NoCall = NoCall
  NoAnswer = NoAnswer
  NoRow = NoRow
  Docs <- MCDocs
  Pages <- MCPages
  Titles <- MCTitles
  InitialItems <- MCInitialItems
  Slots <- MCSlots
  MaxClicks = 3
INVARIANTS
  TypeOK
  OwnChangesShown
  RowsNameItems
  DashboardGuarded
PROPERTIES
  PagesRest
CHECK_DEADLOCK FALSE
