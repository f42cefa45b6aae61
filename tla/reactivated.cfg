SPECIFICATION Spec
CONSTANTS
  mail = mail
  secret = secret
  plain = plain
  m1 = m1
  m2 = m2
  Requests = {p1, p2}
  Starts = {n1}
  AdminStarts = {n1}
  Emails = {root, mail}
  Passwords = {secret}
  Infos = {plain, fancy}
  AdminEmail = root
  AdminPassword = secret
  AdminInfo = plain
  Members = {m1, m2}
  Populations <- Opened
  Ops = {"register", "login", "update", "deactivate"}
  Faults = FALSE
  NoUser = NoUser
  NoRequest = NoRequest
  NoInfo = NoInfo
  NoStart = NoStart
SYMMETRY Symmetry
INVARIANTS DeactivatedStays
