SPECIFICATION Spec
CONSTANTS
  alice = alice
  bob = bob
  acme = acme
  globex = globex
  acmeOwners = acmeOwners
  acmeViewers = acmeViewers
  globexOwners = globexOwners
  globexViewers = globexViewers
  p2 = p2
  devs = devs
  p1 = p1
  w1 = w1
  k1 = k1
  g1 = g1
  Nobody = Nobody
  Users = {alice, bob}
  Orgs = {acme, globex}
  Teams = {acmeOwners, acmeViewers, devs, globexOwners, globexViewers}
  Projects = {p1, p2}
  Workspaces = {w1}
  Keys = {k1}
  Groups = {g1}
  Org <- MCOrg
  ProjectOf <- MCProjectOf
  OwnersTeam <- MCOwnersTeam
  ViewersTeam <- MCViewersTeam
  DefaultProject <- MCDefaultProject
  Names <- MCNames
  AccessRequests <- MCAccessRequests
  RowRequests <- MCRowRequests
  ScopeRequests <- MCScopeRequests
  RemoveFromNonSSOTeams = TRUE
  MaxChanges = 3
SYMMETRY Symmetry
CHECK_DEADLOCK FALSE
INVARIANTS
  TypeOK
  KeyWithinOwner
  AudienceIsReaders
  FlagsAgree
  WholeOrganizationReads
