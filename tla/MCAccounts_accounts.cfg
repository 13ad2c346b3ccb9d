SPECIFICATION Spec
CONSTANTS
  alice = alice
  bob = bob
  browser = browser
  laptop = laptop
  office = office
  Users <- MCUsers
  Clients <- MCClients
  Addresses <- MCAddresses
  AllowRegistration = TRUE
  MaxAttempts = 1
  MaxAttemptsPerIp = 2
  MaxRegisterPerIp = 1
  MaxVersion = 1
  MaxOutages = 1
SYMMETRY Symmetry
INVARIANTS
  TypeOK
  AnAdminRemains
  SessionsAreCurrent
  AttemptsAreBounded
PROPERTIES
  AdminsAreAppointed
