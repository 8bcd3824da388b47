\* One of: a request about a credential of any kind, while its status, its
\* anchor and the issuer's keys change; a document of any kind the platform
\* makes, with every presentation of it; a request of a platform administrator or of a
\* user of one organization with two issuers, and one change by others; one of
\* the administration pages with two scopes, two items and four clicks; the public
\* verification page with two documents and a link; the credential pages with one
\* credential and two message ids; the pages about profiles with three profiles of
\* two issuers and three clicks.
SPECIFICATION PlatformSpec
CONSTANTS
  listed = listed
  stored = stored
  plain = plain
  legacy = legacy
  wallet = wallet
  signed = signed
  Credential = {listed, stored, plain, legacy, wallet, signed}
  Recorded = {listed, stored, plain, wallet, signed}
  Listed = {listed}
  Wallet = {wallet, signed}
  Stored = {stored}
  Legacy = {legacy, wallet}
  Anchored = {listed, stored}
  SignedBy <- FirstKey
  MaxMethods = 2
  MaxTransitions = 3
  Request = {r1}
  DefaultStore = store1
  ProfileStore = store2
  OwnStore = store3
  Account = account
  admin = admin
  user = user
  i1 = i1
  i2 = i2
  tenant = tenant
  s1 = s1
  m1 = m1
  User = {admin, user}
  Administrator = {admin}
  Tenant = {tenant}
  HomeOf <- MCHomeOf
  Branch = {i1, i2}
  TenantOf <- MCTenantOf
  Profile = {p1}
  BranchOf <- MCBranchOf
  Nobody = nobody
  MaxOthers = 1
  Page = {"issuers", "organizations", "keys", "identities", "hosting", "stores"}
  Scope = {s1, s2}
  Item = {m1, m2}
  Nothing = nothing
  MaxClicks = 4
  Submission = {d1, d2}
  LinkId = {id1}
  Absent = absent
  Held = {c1}
  NoList = noList
  MaxMailIds = 2
  e1 = e1
  e2 = e2
  e3 = e3
  w1 = w1
  w2 = w2
  Owner = {w1, w2}
  Identity = {e1, e2, e3}
  OwnedBy <- MCOwnedBy
  Home = w1
  Unchosen = unchosen
  MaxActs = 3
CHECK_DEADLOCK FALSE
INVARIANT VerifiedWhileIssued
INVARIANT RefusedForCause
INVARIANT HidingChangesNothing
INVARIANT VerifiedUntilRevoked
INVARIANT RulesAgree
PROPERTY WrittenWhilePermitted
INVARIANT DirectoryFormSavedToSource
INVARIANT PanelsAreCurrent
INVARIANT VerdictOfWhatIsShown
INVARIANT ReportedWasDone
INVARIANT AsksForItsOwn
