CONSTANTS
  None = None
  c1 = c1
  c2 = c2
  Conn = {c1, c2}
  Ports = {443}
  Capacity = 2
  Word <- Words
  Escaped <- Escapes
  HostText <- HostTexts
  Lower <- Lowercase
  Canonical <- Names
  Sendable <- Clean
  Requests <- AllRequests
  Policies <- AllPolicies
  Addresses <- AddressTexts
SYMMETRY Symmetry
SPECIFICATION Spec
INVARIANTS
  TypeOK
  DeniedUnreached
  SecretsStayHome
  ReadIffInjecting
  LeafIsTheHosts
PROPERTIES
  OldestGoes
  PromiseKept
