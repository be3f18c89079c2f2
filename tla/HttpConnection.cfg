\* Two requests on one connection, in every TLS mode, with uris that come and go.
CONSTANTS
  Requests <- MCRequests
  Uris <- MCUris
  HttpUris <- MCHttpUris
  AllowedUris <- MCAllowedUris
  SslModes = {"none", "required", "detect"}
  handshakeTimeoutS = 30
  NoMsg = noMsg
  MaxRequests = 2
  MaxUriOps = 1
SPECIFICATION FairSpec
INVARIANTS TypeOK OneOperation AnswersAreRight
PROPERTIES RequestUnderstood ImplementsExchange ConnectionSettles
