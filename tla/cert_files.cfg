CONSTANTS
  Runs = {p1, p2}
  Hosts = {"h1", "h2"}
  MaxRoots = 3
SPECIFICATION Spec
INVARIANTS AllSigned RunRepairs
CHECK_DEADLOCK FALSE
