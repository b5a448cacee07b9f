SPECIFICATION LockSpec
CONSTANTS
  Callers = {c1, c2, c3}
  Sessions = {s1, s2}
  Caps <- MCCaps
  NoCaller = NoCaller
INVARIANTS OneHolderPerSession
PROPERTIES CapRespectedWhenTaking ParkedIsResumed
