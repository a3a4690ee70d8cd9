CONSTANTS
  Task = {t1, t2}
  Identity = {a, b}
  NoIdentity = NoIdentity
  Free = Free
SPECIFICATION FairSpec
INVARIANTS UnreachableNotReached IdentitiesAgree GameReadIsRecent
PROPERTIES CallsReturn
CHECK_DEADLOCK FALSE
