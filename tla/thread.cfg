CONSTANTS
  m1 = m1
  m2 = m2
  m3 = m3
  k1 = k1
  k2 = k2
  someone = someone
  someSubject = someSubject
  Messages = {m1, m2, m3}
  HeaderKeys = {k1, k2}
  NoSubject = NoSubject
  NoDate = NoDate
  ParticipantDays = 0
  WindowDays = 1
  Headers <- MCHeaders
  CandidateSets <- MCCandidateSets
  Depths = {2}
SPECIFICATION Spec
INVARIANTS
  ThreadIsOfTheConversation
  PassFollowsHeaders
  AncestorsAreLinked
CHECK_DEADLOCK FALSE
