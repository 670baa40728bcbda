SPECIFICATION FairSpec
CONSTANTS
  Contacts = {c1}
  Nobody = Nobody
  Enrolls = {1, 2}
  StepIds = {1, 2}
  FirstIds = {1}
  Batches = {b1}
  MaxMails = 2
  Edits = {"add", "delete", "blank", "drop"}
  Faults = {}
PROPERTY EnrollmentEnds
