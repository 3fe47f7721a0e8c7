SPECIFICATION FairSpec
CONSTANTS
  SetName <- MCSetName
  Document <- MCDocument
  Credential <- MCCredential
INVARIANTS
  NothingUnchecked
  InDocumentOrder
  NothingSilent
PROPERTIES
  OperationsAreAnswered
