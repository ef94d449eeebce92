CONSTANTS
  a1 = a1
  tonkeeper = tonkeeper
  getgems = getgems
  Account = {a1}
  Proxy = {a1}
  Tonkeeper = tonkeeper
  Getgems = getgems
  MaxEdits = 2
  MaxDownloadFails = 1
  MaxRounds = 4
  FirstRound = 7
  LastRound = 12
  Late <- MCLate
  MaxPast = 3
  MaxFails = 2
SPECIFICATION RefreshersSpec
INVARIANTS OldestFirst History CompletedAreFinal
PROPERTIES RefreshersSettle
