SPECIFICATION Spec
CONSTANTS
  demand = demand
  logistics = logistics
  View = {demand, logistics}
  Ttl <- MCTtl
  Lag = {1, 4}
  MaxAge = 6
INVARIANTS
  TypeOK
  FreshAfterGoodDays
  OnlineIsValidated
PROPERTIES
  NeverStepsBack
