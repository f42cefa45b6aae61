SPECIFICATION FairSpec
CONSTANTS
  mail = mail
  secret = secret
  plain = plain
  m1 = m1
  m2 = m2
  Requests = {p1, p2}
  Starts = {n1, n2}
  AdminStarts = {n1, n2}
  Emails = {root, mail}
  Passwords = {secret, other}
  Infos = {plain}
  AdminEmail = root
  AdminPassword = secret
  AdminInfo = plain
  Members = {m1, m2}
  Populations <- Opened
  Ops = {"register", "login", "update", "deactivate"}
  Faults = TRUE
  NoUser = NoUser
  NoRequest = NoRequest
  NoInfo = NoInfo
  NoStart = NoStart
INVARIANTS TypeOK EmailUnique AdminReady ScopeIsRole RegistrationKept
PROPERTIES IdentityFrozen ChangedByRight RestartServes EveryRequestEnds
