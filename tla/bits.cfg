SPECIFICATION Spec
CONSTANTS
  WordBits = 8
  Window = 4
  MaskRange = 16
  Asked = {0, 1, 2, 3, 4, 5, 6, 7, 8, 9, 10, 11, 12, 13, 15, 16, 17}
INVARIANTS TypeOK WindowsTile TopBitsAgree StopsAtLength NeverAborts
CHECK_DEADLOCK FALSE
