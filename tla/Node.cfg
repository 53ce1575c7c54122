SPECIFICATION FairSpec
CONSTANTS
  d1 = d1
  x1 = x1
  Endpoint = {1, 2}
  Deployment = {d1}
  Sandbox = {x1}
  EndpointOf <- OwnerOf
  Populations = {{d1}, {x1}}
  NoItem = NoItem
  PortCount = 1
  MaxIdle = 2
  MaxGap = 2
  MaxTrouble = 1
  MaxUser = 3
INVARIANTS
  TypeOK
  
  
PROPERTIES
  FirstProbeSpares
  RowsAreServed
CHECK_DEADLOCK FALSE
