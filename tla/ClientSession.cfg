\* Three payloads, two calls of Close(), plain and TLS streams.
CONSTANTS
  Payloads = {p1, p2, p3}
  MaxReads = 1
  MaxCloses = 2
  ConnectCall = connect
  CloseCall = close
  None = none
SPECIFICATION FairSpec
INVARIANTS TypeOK WriteLoop
PROPERTIES ImplementsContract ConnectSettles CloseCompletes
