CONSTANTS
  w1 = w1
  w2 = w2
  w3 = w3
  x1 = x1
  NoThread = NoThread
  Workers <- MCWorkers
  Wakers <- MCWakers

SPECIFICATION Spec
SYMMETRY MCSymmetry

INVARIANT TypeOK
INVARIANT IdleListSound
INVARIANT SingleDriver
PROPERTY RecordRefinesCounters
