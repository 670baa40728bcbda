SPECIFICATION FairSpec
CONSTANTS
  Tasks = {1, 2}
  Limit = 2
  Passes = {p1}
  Digests = {d1}
  Refused = {1}
  Cards = {"noaddress", "provisional", "garbage"}
  Crashes = TRUE
INVARIANT OncePerDay
PROPERTY DueReachesCustomer
