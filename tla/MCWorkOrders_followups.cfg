\* Three orders: a parent and two candidates for its follow-up.
SPECIFICATION Spec
CONSTANTS
  tech = tech
  planner = planner
  None = None
  Keep = Keep
  Users = {tech, planner}
  Staff = {tech}
  TokenRole <- MCTokenRole
  Conditions <- MCConditions
  OutcomeLabels = {"confirmed_failure"}
  DueDates = {"friday"}
  Orders = {o1, o2, o3}
  Sessions = {s1, s2}
  MaxEvents = 4
SYMMETRY MCSymmetry
INVARIANTS
  ReadsStayValid
  OneOpenFollowUp
  FollowUpHasCompletedParent
PROPERTIES
  ImplementsBoard
