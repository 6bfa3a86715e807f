SPECIFICATION FairSpec
CONSTANTS
  Session = {s1, s2}
  User = {u1, u2, u3}
  MaxParticipants = 1
  NoSession = NoSession
INVARIANT OverbookingBounded
PROPERTIES ClosedEventsDoNotGrow FullMeansFull RegistrationReturns
