CONSTANTS
  Cwd <- MCCwd
  Home <- MCHome
  Folder <- MCFolder
  Place <- MCPlace
  Leads <- MCLeads
  Extension <- MCExtension
  Tree <- MCTree
  Task = {"greeting", "concrete"}
  Reply <- MCReply
  Authorities <- MCAuthorities
  ReadLimit = 1
  RowLimit = 1
  ListLimit = 3
  SearchLimit = 2
  ScanLimit = 1
  TextShown = 1
  EntriesShown = 2
  MatchesShown = 1
  Foreign <- MCForeign
  ForeignText <- MCForeignText
  MaxLen = 2
SPECIFICATION Spec
INVARIANTS TypeOK ChangesSeen WritesVerified TraversalComplete
PROPERTIES ReadHonest OverwriteMeant 
