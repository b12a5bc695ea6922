----------------------------- MODULE ProxyRules -----------------------------
(***************************************************************************)
(* The proxy's rules (src/config/proxies.rs, proxy.rs, resolve_context.rs  *)
(* and src/hostname.rs): what a declared destination resolves to against   *)
(* the secrets, and what the resolved rules say of a host.                 *)
(*                                                                         *)
(* A template is a sequence of pieces: a text, a secret's value as         *)
(* handlebars escapes it ({{..}}), the same unescaped ({{{..}}}), or       *)
(* something handlebars cannot parse.  A rendered value is a sequence of   *)
(* words.  A map from names to templates is the sequence of its entries in *)
(* the order of the names, which is the order its loops take.              *)
(***************************************************************************)
EXTENDS Maps, Naturals

CONSTANTS
  Word,       \* what texts, names and secrets are made of
  Escaped,    \* handlebars' default escape function, of a secret
  HostText,   \* hosts as they are written
  Lower       \* str::to_lowercase, of those

ASSUME EscapeAssumption == Escaped \in [Word -> Word]

ASSUME HostAssumption ==
  /\ Lower \in [HostText -> HostText]
  /\ \A h \in HostText : Lower[Lower[h]] = Lower[h]

\* Hostname::new: lowercase, and not empty.
Hostname == {Lower[h] : h \in HostText} \ {""}

HostnameOf(text) ==
  IF text \in HostText /\ Lower[text] # "" THEN Lower[text] ELSE None

-----------------------------------------------------------------------------
(* The types.                                                              *)

Action == {"allow", "deny"}

Piece == [kind : {"text", "secret", "raw", "broken"}, of : Word]
Template == Seq(Piece)
Value == Seq(Word)

\* ProxyAuthDecl: Basic has a username and a password, Bearer a token.
AuthDecl ==
  [scheme : {"basic"}, parts : [1 .. 2 -> Template]]
    \cup [scheme : {"bearer"}, parts : [1 .. 1 -> Template]]

Auth ==
  [scheme : {"basic"}, parts : [1 .. 2 -> Value]]
    \cup [scheme : {"bearer"}, parts : [1 .. 1 -> Value]]

ProxyDecl ==
  [host : Hostname, port : Nat, action : Action,
   headers : Seq([key : Word, item : Template]),
   params : Seq([key : Word, item : Template]),
   auth : Option(AuthDecl)]

\* Proxy; its host is the key it has in Proxies.
ProxyRule ==
  [port : Nat, action : Action,
   headers : Seq([key : Word, item : Value]),
   params : Seq([key : Word, item : Value]),
   auth : Option(Auth)]

ASSUME AbsentRuleAssumption == None \notin ProxyRule /\ None \notin Auth

-----------------------------------------------------------------------------
(* ProxyDecl::resolve.                                                     *)

\* render_template, of a template it does not refuse
PieceValue(piece, secrets) ==
  CASE piece.kind = "secret" -> Escaped[secrets[piece.of]]
    [] piece.kind = "raw"    -> secrets[piece.of]
    [] OTHER                 -> piece.of

Rendered(template, secrets) ==
  [i \in DOMAIN template |-> PieceValue(template[i], secrets)]

\* Strict mode: a variable that is not there is an error.
Renders(template, secrets) ==
  \A i \in DOMAIN template :
    /\ template[i].kind # "broken"
    /\ template[i].kind # "text" => template[i].of \in DOMAIN secrets

AllRendered(list, secrets) ==
  [i \in DOMAIN list |->
     [key |-> list[i].key, item |-> Rendered(list[i].item, secrets)]]

\* resolve_auth
AuthOf(auth, secrets) ==
  IF auth = None THEN None
  ELSE [scheme |-> auth.scheme,
        parts |-> [i \in DOMAIN auth.parts |-> Rendered(auth.parts[i], secrets)]]

RuleOf(decl, secrets) ==
  [port |-> decl.port,
   action |-> decl.action,
   headers |-> AllRendered(decl.headers, secrets),
   params |-> AllRendered(decl.params, secrets),
   auth |-> AuthOf(decl.auth, secrets)]

\* One template that fails fails the declaration.
Resolvable(decl, secrets) ==
  /\ \A i \in DOMAIN decl.headers : Renders(decl.headers[i].item, secrets)
  /\ \A i \in DOMAIN decl.params : Renders(decl.params[i].item, secrets)
  /\ decl.auth # None =>
       \A i \in DOMAIN decl.auth.parts : Renders(decl.auth.parts[i], secrets)

\* A slip: a host's first declaration stays.
RulesOfKeepingFirst(proxies, secrets) ==
  LET nth(i) == proxies[Len(proxies) + 1 - i]
  IN  LastEntries([i \in DOMAIN proxies |->
        [key |-> nth(i).host, item |-> RuleOf(nth(i), secrets)]])

\* ProxyDecls::resolve: one entry for each host, whatever its port.
RulesOf(proxies, secrets) ==
  LastEntries([i \in DOMAIN proxies |->
    [key |-> proxies[i].host, item |-> RuleOf(proxies[i], secrets)]])

-----------------------------------------------------------------------------
(* What resolved rules say: p has the fields public_web and proxies.       *)

HasInjection(rule) ==
  rule.headers # <<>> \/ rule.params # <<>> \/ rule.auth # None

ShouldAllow(p, host) ==
  IF host \in DOMAIN p.proxies THEN p.proxies[host].action = "allow"
                               ELSE p.public_web = "allow"

ShouldMitm(p, host) ==
  /\ host \in DOMAIN p.proxies
  /\ p.proxies[host].action = "allow"
  /\ HasInjection(p.proxies[host])
=============================================================================
