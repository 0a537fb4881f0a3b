CHECK_DEADLOCK FALSE
SPECIFICATION Spec
CONSTANTS
  Handlers = {h1, h2}
  Clients = {app}
  Codes = {k1}
  Tokens = {t1, t2}
  Uris <- MCUris
  Verifiers = {v1, v2}
  Own = own
  Other = other
  CodeTTL = 1
  TokenTTL = 1
  MaxTime = 2
  None = None
SYMMETRY Symmetry
INVARIANTS
  TypeOK
  OneTokenPerCode
  WrongVerifierBurnsCode
  TokensAreBound
  AcceptedTokensAreOurs
