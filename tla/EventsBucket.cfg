SPECIFICATION Spec
CONSTANTS
  ready = ready
  failed = failed
  dep1 = dep1
  dep2 = dep2
  other = other
  Name <- MCName
  Handler <- MCHandler
  NameOf <- MCNameOf
  Event = {x, y}
  MaxLog = 2
INVARIANTS TypeOK ExactlyOnceInOrder
PROPERTIES EverythingHeard ImplementsEventLog
CHECK_DEADLOCK FALSE
