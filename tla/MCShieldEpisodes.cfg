SPECIFICATION ShieldSpec
CONSTANTS
  Dim = 2
  Units = 1
  Huge = 1000
  Unlimited = Unlimited
  Absent = Absent
  Caps <- MCNoCaps
  Rates = {1}
  MaxSize = 2
  Owners = {"episode", "caller"}
  MaxResets = 2
  NoContext = NoContext
INVARIANT WarmStartsAreOfEpisode
