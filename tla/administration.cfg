SPECIFICATION Spec
CONSTANTS
  Users = {"ann", "bob"}
  Tenants = {"s", "t"}
  Slugs = {"a"}
  Faults = TRUE
  InFlight = 2
  Creator = "ann"
  MaxRows = 3
  OwnerInFlight = 2
  Crashing <- OwnersCrash
  Names = {"a", "b"}
  Subdomains = {"x", "y"}
  Options = {"o"}
  First = "s"
  Legacy = {"bob"}
  Numbers = {"m", "n"}
  Flows = {1}
  MaxIds = 2
  FlowIds = {1, 2}
  Drafts <- FourDrafts
  Roles = {"r", "s"}
  Known = {"role", "car"}
  Named = {"role", "car"}
  Persons = {"ann", "bob"}
  Spellings = {"lower", "given"}
  Logins = {"password"}
  Parts = {"p"}
  Conditions = {"used", "new"}
  Categories = {"engine", "brakes"}
  Expenses = {"e"}
  Titles = {"t", "u"}
  Values = {"x", "y"}
  MaxRequests = 4
  Staff = {"ann", "bob"}
  Buyers = {"jim"}
  Tasks = {"k"}
  Notes = {"n"}
  Mails = {"e"}
INVARIANTS
  TypeOK MembershipSettled EmailsFollow NumbersAccounted
  StoredIsPlayable GrantsAsAsked PartsAreGraded TrailAddsUp RecordsStayHome
PROPERTIES AccountsAsClaimed ReopenedIsOpen
\* A tenant that a stale write has left without an owner can do nothing more.
CHECK_DEADLOCK FALSE
