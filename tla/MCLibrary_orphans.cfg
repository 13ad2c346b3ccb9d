SPECIFICATION FairSpec
CONSTANTS
  lecture = lecture
  meeting = meeting
  tab = tab
  window = window
  Jobs <- MCJobs
  Requests <- MCRequests
  SweepLimit = 1
  MaxFaults = 0
PROPERTIES
  OrphansAreReclaimed
