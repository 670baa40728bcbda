SPECIFICATION FairSpec
CONSTANTS
  Campaigns = {k1, k2}
  Contacts = {1, 2}
  MaxPerDay = 3
  Others = 1
  Crashes = TRUE
INVARIANTS TypeOK NobodyTwice ScreenTellsTruth CapHolds
PROPERTY CampaignEnds
