SPECIFICATION ShieldSpec
CONSTANTS
  Dim = 2
  Units = 4
  Huge = 1000
  Unlimited = Unlimited
  Absent = Absent
  Caps <- MCCaps
  Rates = {1, 3}
  MaxSize = 2
  Owners = {}
  MaxResets = 1
  NoContext = NoContext
INVARIANT EncodingsAgree
PROPERTY DecisionFitsContext
