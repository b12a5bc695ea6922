CONSTANTS
  None = None
  Word <- Words
  Escaped <- Escapes
  HostText <- HostTexts
  Lower <- Lowercase
  Inherited = {"LANG"}
  UrlVars = {"HTTPS_PROXY"}
  DirectVars = {"NO_PROXY"}
  BundleVars = {"SSL_CERT_FILE"}
  ProxyPort = 9
  Absolute <- AbsoluteWords
  NumberOf <- Numbers
  ActionNamed <- Actions
  Outcomes <- Ends
  Lines <- RunLines
  Machines <- FineMachine
SPECIFICATION Spec
CHECK_DEADLOCK FALSE
INVARIANT HyphenArgsPass
