SPECIFICATION FairSpec
CONSTANTS
  MaxDownloads = 2
  MaxAsked <- AskedPerClient
  MaxCrashes = 1
  RowsPerAnswer = 1
 
PROPERTY LabelFollows
