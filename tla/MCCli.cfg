CONSTANTS
  None = None
  Word <- Words
  Escaped <- Escapes
  HostText <- HostTexts
  Lower <- Lowercase
  Inherited = {"LANG"}
  UrlVars = {"HTTPS_PROXY"}
  DirectVars = {"NO_PROXY"}
  BundleVars = {"SSL_CERT_FILE"}
  ProxyPort = 9
  Absolute <- AbsoluteWords
  NumberOf <- Numbers
  ActionNamed <- Actions
  Outcomes <- Ends
  Lines <- AllLines
  Machines <- AllMachines
SPECIFICATION Spec
CHECK_DEADLOCK FALSE
INVARIANTS
  TypeOK
  ReadAsWritten
  PreflightHolds
  ExitTells
