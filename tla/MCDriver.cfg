CONSTANTS
  w1 = w1
  w2 = w2
  e1 = e1
  e2 = e2
  s1 = s1
  NoThread = NoThread
  None = None
  Workers <- MCWorkers
  Entries <- MCEntries
  Deadline <- MCDeadline
  Sources <- MCSources
  MaxTime = 3
  MaxConn = 2
  \* At most 2 connection edges, 1 register edge and 1 reregister edge, of
  \* which at most 3 are dispatched separately: the tick (mod 4) never wraps.
  MaxRereg = 1
  TickMod = 4

SPECIFICATION Spec

INVARIANT TypeOK
INVARIANT NoSleepPastDeadline
PROPERTY TimersFire
PROPERTY AcceptEventually

\* Once every peer has connected and every timer has fired, the driver may
\* block in drive(None) for good: the runtime really is idle.
CHECK_DEADLOCK FALSE
