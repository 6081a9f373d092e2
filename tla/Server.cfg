\* Four connections for three places.
SPECIFICATION ServerSpec
CONSTANTS
  Conn = {c1, c2, c3, c4}
  NoConn = none
  max_conn = 3
INVARIANTS ServerTypeOK CountNeverLow ActiveLimit
\* When decrements were lost, no place may be left, nor a process to end.
CHECK_DEADLOCK FALSE
