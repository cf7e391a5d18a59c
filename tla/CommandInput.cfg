SPECIFICATION Spec
CONSTANTS
  Commands <- Catalog
  Flags <- MCFlags
  Lines <- MCLines
  Settings <- MCSettings
  MaxLines = 3
  AbortOnErrors = 2
INVARIANTS
  NoUnscopedRequest
  EmptyPipeSendsNothing
  RequestsMatchItems
  ItemsAccountedFor
  ModesRespected
  InputBounded
PROPERTIES
  Termination
