SPECIFICATION FairSpec
CONSTANTS
  older = older
  newer = newer
  ann = ann
  Server = {older, newer}
  NoServer = NoServer
  Request = {r1}
  Entry = {ann, NoMail}
  NoMail = NoMail
  Lists <- MCLists
  Carries <- MCCarries
  Newest = 2
  MaxPolls = 1
INVARIANTS
  TypeOK
  LockIsOfTheLiving
  ServesOnItsSchema
  OnlyRealStartsTouch
  ListedGotIn
  DrainsItsRequests
PROPERTIES
  MigratesInOrder
  StartEnds
  StopEnds
