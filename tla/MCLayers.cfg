SPECIFICATION FamilySpec
CONSTANTS
  Word <- Words
  None = None
  Escaped <- Escapes
  HostText <- HostTexts
  Lower <- Lowercase
  Inherited = {"LANG"}
  UrlVars = {"HTTPS_PROXY"}
  DirectVars = {"NO_PROXY"}
  BundleVars = {"SSL_CERT_FILE"}
  ProxyPort = 9
  Profile = {p1, p2}
  Decls <- AllDecls
  CliDecls <- AllCliDecls
  Hosts <- AllHosts
  Probes <- MountProbes
  Commands <- MountCommands
SYMMETRY Symmetry
INVARIANTS
  TypeOK
  LastLayerWins
  PathAsDeclared
  VarsAsDeclared
  ForwardsAsDeclared
  RulesAsDeclared
  ViewAsDeclared
  CommandReaches
  Screened
