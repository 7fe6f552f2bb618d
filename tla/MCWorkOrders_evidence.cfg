\* One order, two requests, every sequence of four committed changes.
SPECIFICATION FairSpec
CONSTANTS
  tech = tech
  planner = planner
  None = None
  Keep = Keep
  Users = {tech, planner}
  Staff = {tech}
  TokenRole <- MCTokenRole
  Conditions <- MCConditions
  OutcomeLabels = {"confirmed_failure"}
  DueDates = {"friday"}
  Orders = {o1}
  Sessions = {s1, s2}
  MaxEvents = 4
INVARIANTS
  EvidenceChain
  VerificationIsCurrent
  VerdictFitsRecord
  CorrectionsAreAccountable
PROPERTIES
  ClosureIsFinal
  EveryRequestEnds
