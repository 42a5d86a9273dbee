SPECIFICATION Spec
CONSTANTS
  demand = demand
  logistics = logistics
  View = {demand}
  Ttl <- MCTtl
  Lag = {2}
  MaxAge = 5
INVARIANTS
  LoadsRefreshedFiles
