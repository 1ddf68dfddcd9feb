SPECIFICATION Spec
CONSTANTS
  None = None
  c1 = c1
  c2 = c2
  Clients = {c1, c2}
  Names = {"ann", "root"}
  Subjects = {"ann", "bob", "eve"}
  Email <- MCEmail
  Verified = {"ann"}
  Groups <- MCGroups
  AllowedEmails = {"ann"}
  AllowedGroups = {"ops"}
  MaxFailed = 2
  RateMax = 3
  MaxUsers = 3
  MaxTokens = 2
  MaxWindows = 1
  MaxFaults = 1
SYMMETRY Symmetry
INVARIANTS  SessionsEarned RecoveryCodeOnce
PROPERTIES BootstrapOnce FirstSignInRace
CHECK_DEADLOCK FALSE
