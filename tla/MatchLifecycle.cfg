SPECIFICATION FairSpec
CONSTANTS
  Thread = {t1, t2}
  Conn = {c1, c2}
  MaxMessages = 1
INVARIANTS AcceptedIffBoth IdleOwnsNothing AcceptancesCount
PROPERTIES MessagesNeedAcceptance CallsReturn
