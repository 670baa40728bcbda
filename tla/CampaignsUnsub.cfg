SPECIFICATION Spec
CONSTANTS
  Campaigns = {k1}
  Contacts = {1, 2}
  MaxPerDay = 3
  Others = 0
  Crashes = FALSE
INVARIANT UnsubscribeWorks
