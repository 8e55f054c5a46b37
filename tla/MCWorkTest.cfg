CONSTANTS
  Work = {test, w1, w2}
  test_work = test
  None = None
  Head = Head
SPECIFICATION Spec
INVARIANTS
  TypeOK
  ListSound
  NoLostWakeup
PROPERTIES
  RunsInOrder
  WorkIsDone
