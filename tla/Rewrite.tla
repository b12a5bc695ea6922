------------------------------- MODULE Rewrite -------------------------------
(***************************************************************************)
(* What src/sandbox/rewrite.rs does to a request of a host whose rule has  *)
(* something to inject: headers first, then query parameters, then auth.   *)
(*                                                                         *)
(* A request's headers map canonical names to the values given for them.   *)
(* A header's value is a text, or one of the schemes of Authorization with *)
(* the text it encodes; base64 makes any text sendable.  "rebuilds" tells  *)
(* whether the url and hyper crates take the URI with the parameters in    *)
(* it; "dotted" whether its path is not as Url::parse normalizes it.       *)
(***************************************************************************)
EXTENDS ProxyRules

CONSTANTS
  Canonical,   \* HeaderName::from_bytes: the canonical name, None if invalid
  Sendable     \* the words HeaderValue::from_str takes

ASSUME HeaderAssumption ==
  /\ Canonical \in [Word -> Option(Word)]
  /\ Sendable \subseteq Word
  /\ {"authorization", ":"} \subseteq Word

ASSUME NoneAssumption ==
  None \notin Word /\ None \notin Seq([kind : {"text"}, text : Seq(Word)])

HeaderValue == [kind : {"text", "basic", "bearer"}, text : Value]
Query == Seq([key : Word, item : Value])

IsHeaders(h) ==
  /\ IsMap(h, DOMAIN h)
  /\ DOMAIN h \subseteq Word
  /\ \A n \in DOMAIN h : h[n] \in Seq(HeaderValue)

IsRequest(r) ==
  /\ IsMap(r, {"host", "headers", "query", "rebuilds", "dotted"})
  /\ r.host \in Option(HostText)
  /\ IsHeaders(r.headers)
  /\ r.query \in Query
  /\ r.rebuilds \in BOOLEAN
  /\ r.dotted \in BOOLEAN

TextValue(value) == [kind |-> "text", text |-> value]

IsSendable(value) ==
  value.kind = "basic" \/ \A i \in DOMAIN value.text : value.text[i] \in Sendable

-----------------------------------------------------------------------------
\* A slip: a header without a name of its own is not skipped.
InjectedUnnamed(header) ==
  IF IsSendable(TextValue(header.item)) THEN <<TextValue(header.item)>> ELSE None

\* The value a configured header is sent with, None if it is skipped.
Injected(header) ==
  IF Canonical[header.key] # None /\ IsSendable(TextValue(header.item))
    THEN <<TextValue(header.item)>> ELSE None

\* inject_headers: overwrites whatever the client gave.
InjectHeaders(headers, req) ==
  [req EXCEPT !.headers =
     Upsert(@, LastEntries([i \in DOMAIN headers |->
       [key |-> Canonical[headers[i].key], item |-> Injected(headers[i])]]))]

\* merge_query_params: appends, and writes the URI back even with no params.
MergeQueryParams(params, req) ==
  IF req.rebuilds THEN [req EXCEPT !.query = @ \o params, !.dotted = FALSE]
                  ELSE req

AuthValue(auth) ==
  [kind |-> auth.scheme,
   text |-> IF auth.scheme = "basic"
              THEN auth.parts[1] \o <<":">> \o auth.parts[2] ELSE auth.parts[1]]

\* inject_auth
InjectAuth(auth, req) ==
  IF auth = None \/ ~IsSendable(AuthValue(auth)) THEN req
  ELSE [req EXCEPT !.headers =
          Upsert(@, [n \in {"authorization"} |-> <<AuthValue(auth)>>])]

\* A slip: auth goes first, and a configured header covers it.
AppliedAuthFirst(rule, req) ==
  MergeQueryParams(rule.params,
    InjectHeaders(rule.headers, InjectAuth(rule.auth, req)))

\* Rewrite::apply
Applied(rule, req) ==
  InjectAuth(rule.auth,
    MergeQueryParams(rule.params, InjectHeaders(rule.headers, req)))

\* Rewrite::from_proxy, and apply if there is something to inject.
Rewritten(rule, req) == IF HasInjection(rule) THEN Applied(rule, req) ELSE req
=============================================================================
