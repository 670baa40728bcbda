SPECIFICATION Spec
CONSTANTS
  Phones = {p1, p2}
  NoPhone = NoPhone
  Made = 2
  Mails = 1
  Limit = 1
  Day = 2
  West = 1
  Horizon = 3
  Notices = {"delivered"}
  Restarts = 1
SYMMETRY MCSymmetry
INVARIANTS TypeOK QuotaHolds WindowIsEarned SpendIsBilled
CHECK_DEADLOCK FALSE
