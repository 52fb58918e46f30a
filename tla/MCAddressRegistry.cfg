SPECIFICATION RegistrySpec
CONSTANTS
  Handlers = {h1, h2}
  Inodes = {1, 2, 3}
  MaxVersion = 3
  Half = 2
  Modulus = 193
  MaxCrashes = 1
  MaxErrors = 1
  Usernames <- MCUsernames
  Lower <- MCLower
  Addresses = {a1, a2}
CHECK_DEADLOCK FALSE
INVARIANTS
  RegistryTypeOK
  AnswerIsOwnOrNewer
PROPERTY SavedRegistrationSurvives
