SPECIFICATION FairSpec
CONSTANTS
  MaxIndex = 4
  Matches = {TRUE, FALSE}
  MaxBreaks = 1
  MaxFaults = 1
  MaxLosses = 1
  Requests <- MCRequests
INVARIANTS TypeOK ReplyTiles OnlyPassedHoles
 
