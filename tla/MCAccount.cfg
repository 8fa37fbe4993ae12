\* Two users, one of them with two browsers, two emails, one workspace, two
\* accounts at Discord, two requests at a time, four in all, one failure.
CONSTANTS
  None = None
  alice = alice
  bob = bob
  laptop = laptop
  phone = phone
  desktop = desktop
  request1 = request1
  request2 = request2
  account1 = account1
  account2 = account2
  User = {alice, bob}
  Browser = {laptop, phone, desktop}
  Email = {"first", "second"}
  Workspace = {"workspace"}
  DiscordUser = {account1, account2}
  UserOf <- Browsers
  Request = {request1, request2}
  MaxRequests = 4
  MaxFailures = 1
SPECIFICATION Spec
SYMMETRY Alike
INVARIANTS
  TokenIsCurrent
  SessionHeld
  LinkHonoured
PROPERTIES
  LogoutHolds
CHECK_DEADLOCK FALSE
