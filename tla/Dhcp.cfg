SPECIFICATION FairSpec
CONSTANTS
  Clients = {a, b}
  Nobody = Nobody
  MaxIp = 3
  ClockSize = 6
  LeaseUnits = 1
  Remember = {b}
  MaxTime = 5
  MaxRestarts = 1
INVARIANTS TypeOK UniqueAddress RefusesWhenFull OneLeaseEach
PROPERTY GetsAddress
CHECK_DEADLOCK FALSE
