SPECIFICATION Spec
CONSTANTS
  Word <- Words
  None = None
  Escaped <- Escapes
  HostText <- HostTexts
  Lower <- Lowercase
  Inherited = {"LANG"}
  UrlVars = {"HTTPS_PROXY"}
  DirectVars = {"NO_PROXY"}
  BundleVars = {"SSL_CERT_FILE"}
  ProxyPort = 9
  Profile = {p1, p2}
  Decls <- KeyDecls
  CliDecls <- Plain
  Hosts <- RuleHosts
  Probes <- NoProbes
  Commands <- MountCommands
SYMMETRY Symmetry
INVARIANTS
  SecretsArePlain
