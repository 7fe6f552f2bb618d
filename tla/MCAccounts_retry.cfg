\* One tenant whose first or second invitation was not mailed.
SPECIFICATION Spec
CONSTANTS
  None = None
  Own = Own
  Requests = {s1}
  Slugs = {k1}
  Emails = {e1, e2}
  MaxInvites = 3
INVARIANT InviteCanBeRetried
