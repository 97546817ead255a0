\* Two clients, two applications whose uid may move, and two messages.
SPECIFICATION Spec
CONSTANTS
  a1 = a1
  a2 = a2
  e1 = e1
  App = {a1, a2, a3}
  Endpoint = {e1, e2}
  Message = {m1, m2}
  Client = {c1, c2}
  Null = Null
  Unsaid = Unsaid
  Unused = Unused
  Gone = Gone
  Name = {"n1", "n2", "n3", "n4"}
  Uid <- MCUids
  Url = {"here", "there"}
  Filter = {{"paid"}}
  Rate = {1}
  Type = {"paid"}
  Key = {"k"}
  Requests <- MCRequests
  FirstApps <- MCApps
  FirstEndpoints <- MCEndpoints
INVARIANTS KeyNamesOneMessage
PROPERTIES UpdateKeepsTheRest ActsOnWhatWasMeant
SYMMETRY Symmetry
CHECK_DEADLOCK FALSE
