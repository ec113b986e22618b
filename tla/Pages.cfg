CONSTANTS
  NumRows = 2
  MaxRequests = 2
  Devices = {d1, d2}
  Networks = {n1, n2}
  FirstNetwork = n1
  MaxCalls = 1
  setText = setText
  setName = setName
  upload = upload
  PayloadType <- MCPayloadType
  MaxItems = 2
  MaxRuns = 2
  Names = {a1, a2}
  Mappings <- MCMappings
  Users = {u1, u2}
  Me = u1
  Orgs = {o1}
  FirstOrg = o1
  MaxUpdates = 2
  NONE = NONE
SPECIFICATION PagesSpec
CHECK_DEADLOCK FALSE
INVARIANTS
  RequestsMatchChoice
  NewStartsEmpty
  PayloadOfItsAction
  ResultsLineUp
  FreshDraft
  SavesShownUser
  SecondStepAfterCheck
  SessionOrganization
PROPERTIES
  EditsOneDevice
  AuthStaysSingle
  SavesOneAction
