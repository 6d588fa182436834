SPECIFICATION Spec
CONSTANTS
  Args <- AnyOrder
  MaxKeys = 2
  Addr <- MCAddr
  Nil = Nil
  FirstKeys <- NoKeys
  MayFail = TRUE
INVARIANTS TypeOK IsTree Separated LeavesLinked NothingLeaked
PROPERTIES ImplementsKeyMap CallsReturn
