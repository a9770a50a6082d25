SPECIFICATION Spec
CONSTANTS
  Handle = {h1, h2, h3, h4}
  Tbl = {t1, t2}
  NULL = NULL
  nil = nil
SYMMETRY Symmetry
INVARIANTS TypeOK NeverFreed OneHolder LostByFailure LeftByFailure
CHECK_DEADLOCK FALSE
