SPECIFICATION Spec
CONSTANTS
  Contacts = {c1, c2}
  Nobody = Nobody
  Enrolls = {1, 2}
  StepIds = {1, 2}
  FirstIds = {1, 2}
  Batches = {b1, b2}
  MaxMails = 2
  Edits = {}
  Faults = {"crash", "lost"}
SYMMETRY MCSymmetry
INVARIANTS TypeOK OneActive NothingSkipped StepMailedOnce
PROPERTY ConsentHolds
