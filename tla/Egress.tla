-------------------------------- MODULE Egress --------------------------------
(***************************************************************************)
(* What the proxy promises of the traffic that leaves the sandbox,         *)
(* whatever its connections, certificates and caches do: only hosts the    *)
(* policy allows are reached; a connection is read only if its host has    *)
(* something to inject; a request that is read goes out with what the rule *)
(* of its own host gives it.  Hosts are canonical here.                    *)
(***************************************************************************)
EXTENDS Rewrite

CONSTANTS Conn, Policies

VARIABLES
  policy,  \* the resolved proxies
  access,  \* of each connection: what it may do, and for which host
  out      \* what left last: a request, a raw stream, or a refusal

vars == <<policy, access, out>>

NoAccess == [kind |-> "none", host |-> None]
Quiet == [kind |-> "quiet"]

Injects(p, host) == host \in DOMAIN p.proxies /\ HasInjection(p.proxies[host])

-----------------------------------------------------------------------------
(* The injection, declared: what is sent of what was given.                *)

ValuesAt(req, name) ==
  IF name \in DOMAIN req.headers THEN req.headers[name] ELSE <<>>

\* The values a rule has for a header; auth goes before headers.
GivenAuth(rule) ==
  IF rule.auth = None THEN {}
  ELSE {v \in {AuthValue(rule.auth)} : IsSendable(v)}
GivenTexts(rule, name) ==
  {TextValue(rule.headers[i].item) : i \in
     {j \in DOMAIN rule.headers :
        /\ Canonical[rule.headers[j].key] = name
        /\ IsSendable(TextValue(rule.headers[j].item))}}
Given(rule, name) ==
  IF name = "authorization" /\ GivenAuth(rule) # {} THEN GivenAuth(rule)
                                                    ELSE GivenTexts(rule, name)

Pairs(query) == {query[i] : i \in DOMAIN query}

\* The rule's parameters are all there, and so are the client's of other keys;
\* nothing else is added.  What becomes of a client's parameter with a key of
\* the rule's is not promised: the comments and the code differ there
\* (Gateway!InjectedWins).
CarriesParams(params, given, sent) ==
  LET keys == {p.key : p \in params}
  IN  /\ params \subseteq sent
      /\ {p \in given : p.key \notin keys} \subseteq sent
      /\ sent \subseteq given \cup params

Carries(rule, given, sent) ==
  /\ \A name \in Word :
       IF Given(rule, name) = {} THEN ValuesAt(sent, name) = ValuesAt(given, name)
       ELSE \E v \in Given(rule, name) : ValuesAt(sent, name) = <<v>>
  /\ CarriesParams(IF given.rebuilds THEN Pairs(rule.params) ELSE {},
                   Pairs(given.query), Pairs(sent.query))
  /\ sent.host = given.host

\* A request leaves as its host's rule has it, and is not touched if that has
\* nothing to inject.
Leaves(p, host, given, sent) ==
  IF Injects(p, host) THEN Carries(p.proxies[host], given, sent)
                      ELSE sent = given

-----------------------------------------------------------------------------
Init ==
  /\ policy \in Policies
  /\ access = [c \in Conn |-> NoAccess]
  /\ out = Quiet

Now(c, kind, host) == access' = [access EXCEPT ![c] = [kind |-> kind, host |-> host]]

\* A CONNECT of an allowed host.
Grant(c, host) ==
  /\ access[c] = NoAccess
  /\ ShouldAllow(policy, host)
  /\ Now(c, "granted", host)
  /\ out' = Quiet
  /\ UNCHANGED policy

\* It is read, to inject.
Read(c) ==
  /\ access[c].kind = "granted"
  /\ Injects(policy, access[c].host)
  /\ Now(c, "read", access[c].host)
  /\ out' = Quiet
  /\ UNCHANGED policy

Tunnel(c) ==
  /\ access[c].kind = "granted"
  /\ Now(c, "raw", access[c].host)
  /\ out' = Quiet
  /\ UNCHANGED policy

Relay(c) ==
  /\ access[c].kind = "raw"
  /\ out' = [kind |-> "raw", host |-> access[c].host]
  /\ UNCHANGED <<policy, access>>

\* A request that is read: of any host on a connection without CONNECT, of its
\* host on one that is decrypted.
Forward(c, host, given, sent) ==
  /\ access[c] = NoAccess \/ access[c] = [kind |-> "read", host |-> host]
  /\ ShouldAllow(policy, host)
  /\ Leaves(policy, host, given, sent)
  /\ out' = [kind |-> "request", host |-> host, given |-> given, sent |-> sent]
  /\ UNCHANGED <<policy, access>>

Refuse ==
  /\ out' = [kind |-> "refused"]
  /\ UNCHANGED <<policy, access>>

Close(c) ==
  /\ access' = [access EXCEPT ![c] = NoAccess]
  /\ out' = Quiet
  /\ UNCHANGED policy

Next ==
  \/ \E c \in Conn : Read(c) \/ Tunnel(c) \/ Relay(c) \/ Close(c)
  \/ \E c \in Conn, host \in Hostname : Grant(c, host)
  \/ \E c \in Conn, host \in Hostname :
       /\ out'.kind = "request"
       /\ Forward(c, host, out'.given, out'.sent)
  \/ Refuse

Spec == Init /\ [][Next]_vars
=============================================================================
