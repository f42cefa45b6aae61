SPECIFICATION Spec
CONSTANTS
  Requests = {p1, p2}
  Addresses = {a1}
  Subjects = {s1, s2}
  Admins = {s2}
  PublicRate = 1
  EndpointsRate = 1
  AuthenticatedRate = 2
  Nobody = Nobody
INVARIANT TierLimits
