SPECIFICATION Spec
CHECK_DEADLOCK FALSE
CONSTANTS
  Browsers = {b1, b2}
  Emails = {adm, e1}
  Admin = adm
  Applicants = {e1}
  u1 = u1
  u2 = u2
  Ids = {u0, u1, u2}
  AdminId = u0
  None = None
  Smtp = TRUE
  CODE_MAX_ATTEMPTS = 1
  MaxCodes = 2
  MaxDeeds = 1
  MaxFailures = 1
SYMMETRY Interchangeable
INVARIANTS RegisteredIsVerified RegistrationIsWhole AdminKeepsControl
