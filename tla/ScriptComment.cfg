SPECIFICATION Spec
CONSTANTS
  Scripts <- CommentScripts
  StrCap = 5
INVARIANT
  CommentsAreIgnored
CHECK_DEADLOCK FALSE
