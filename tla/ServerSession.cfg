\* Four payloads against a backlog of two.
CONSTANTS
  Payloads = {p1, p2, p3, p4}
  MaxBacklog = 2
  MaxReads = 1
  MaxCloses = 2
  CloseCall = close
  None = none
SPECIFICATION FairSpec
INVARIANTS TypeOK WriteLoop
PROPERTIES ImplementsContract CloseCompletes SendSettles
