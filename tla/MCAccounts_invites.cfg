\* Two requests invite, sign in, reset and edit two users of two tenants.
SPECIFICATION Spec
CONSTANTS
  None = None
  Own = Own
  Requests = {s1, s2}
  Slugs = {k1, k2}
  Emails = {e1, e2}
  MaxInvites = 3
SYMMETRY MCSymmetry
INVARIANTS
  EveryTenantHasAUser
  MailedPasswordWorks
  AccessFollowsReset
