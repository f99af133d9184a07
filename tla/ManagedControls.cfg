SPECIFICATION FairSpec
CONSTANTS
  Programs <- MCPrograms
  Entries <- MCEntries
  Start <- MCStart
  MaxChanges = 2
  MaxFaults = 1
INVARIANTS
  FollowedDrives
  DriverObeyed
  SupersessionTold
PROPERTIES
  EndedNoticeKept
  ChoiceFollowed
