SPECIFICATION FairSpec
CONSTANTS
  Thread = {t1, t2, t3}
  Size = 2
  MaxHeld = 2
INVARIANTS Exclusive Conserved NoLostWakeup
PROPERTIES ImplementsResourcePool CallsReturn
