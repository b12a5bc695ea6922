------------------------------- MODULE Gateway -------------------------------
(***************************************************************************)
(* The credential proxy at work (src/sandbox/proxy.rs): the handler that   *)
(* routes, refuses and injects, and the authority that signs a leaf for    *)
(* each connection that is read, with its LRU cache.  The proxy runs on    *)
(* one thread and neither waits in the middle, so each is one step.        *)
(*                                                                         *)
(* hudsucker is external: it hands every request to handle_request; after  *)
(* a CONNECT that passes it waits for the first bytes, asks                *)
(* should_intercept_connect, and reads TLS (with a server configuration    *)
(* from the authority) and plain GETs; anything else it tunnels.  What it  *)
(* reads inside gets the CONNECT's authority as its own.                   *)
(***************************************************************************)
EXTENDS Rewrite, Functions

CONSTANTS
  Conn,       \* the sandbox's connections to the proxy
  Ports,      \* the ports a CONNECT may ask for
  Requests,   \* the requests the clients make
  Policies,   \* the resolved proxies a session may have
  Addresses,  \* the hosts that parse as an IpAddr
  Capacity    \* CA_CACHE_CAPACITY

ASSUME CapacityAssumption == Capacity \in Nat \ {0}
ASSUME TrafficAssumption ==
  /\ \A r \in Requests : IsRequest(r)
  /\ Addresses \subseteq HostText
  /\ None \notin HostText
  /\ \A p \in Policies :
       /\ p.public_web \in Option(Action)
       /\ DOMAIN p.proxies \subseteq Hostname
       /\ \A h \in DOMAIN p.proxies : p.proxies[h] \in ProxyRule

VARIABLES
  policy,  \* the handler's proxies, fixed when the proxy starts
  conn,    \* each connection: how far it is, its CONNECT's authority, its leaf
  cache,   \* the leaves by authority, the most recently used first
  last,    \* the last thing to leave the proxy
  since    \* history: the <<a, b>> such that a leaf was asked for under the
           \* authority a since the last time one was for b

vars == <<policy, conn, cache, last, since>>

Authority == [host : HostText, port : Ports]

\* An Authority compares without regard to case.
KeyOf(authority) == [authority EXCEPT !.host = Lower[@]]
Key == {KeyOf(a) : a \in Authority}

Fresh == [phase |-> "open", authority |-> None, leaf |-> None]
Quiet == [kind |-> "quiet"]

-----------------------------------------------------------------------------
(* The authority.                                                          *)

\* gen_cert, leaf_san: the certificate names the host as it was written.
Leaf(authority) ==
  [name |-> authority.host,
   san |-> IF authority.host \in Addresses THEN "ip" ELSE "dns"]

HitsOf(list, key) == {i \in DOMAIN list : list[i].key = key}

\* LruCache::put, of a key that is not there
Put(list, entry) ==
  [i \in 1 .. (IF Len(list) < Capacity THEN Len(list) + 1 ELSE Capacity) |->
     IF i = 1 THEN entry ELSE list[i - 1]]

\* LruCache::get, of the entry at i
Promoted(list, i) ==
  [j \in DOMAIN list |->
     IF j = 1 THEN list[i] ELSE IF j <= i THEN list[j - 1] ELSE list[j]]

\* A slip: the cache ignores the host.
LeafForAny(list, authority) ==
  IF list # <<>> THEN list[1].leaf ELSE Leaf(authority)

\* gen_server_config: the leaf, and the cache after it.
LeafFor(list, authority) ==
  LET hits == HitsOf(list, KeyOf(authority))
  IN  IF hits # {} THEN list[CHOOSE i \in hits : TRUE].leaf ELSE Leaf(authority)

\* A slip: a hit leaves the entry where it is (peek for get), and the first
\* in is the first out.
CacheAfterPeeking(list, authority) ==
  IF HitsOf(list, KeyOf(authority)) # {} THEN list
  ELSE Put(list, [key |-> KeyOf(authority), leaf |-> Leaf(authority)])

CacheAfter(list, authority) ==
  LET hits == HitsOf(list, KeyOf(authority))
  IN  IF hits # {} THEN Promoted(list, CHOOSE i \in hits : TRUE)
      ELSE Put(list, [key |-> KeyOf(authority), leaf |-> Leaf(authority)])

-----------------------------------------------------------------------------
(* The handler.                                                            *)

\* A slip: the host is looked up as it is written.
PassesAsWritten(p, text) == HostnameOf(text) # None /\ ShouldAllow(p, text)

\* handle_request, up to the 403
Passes(p, text) == HostnameOf(text) # None /\ ShouldAllow(p, HostnameOf(text))

\* A slip: a host without a rule gets another's.
OutgoingOfAny(p, req) ==
  IF DOMAIN p.proxies # {}
    THEN Rewritten(p.proxies[CHOOSE h \in DOMAIN p.proxies : TRUE], req) ELSE req

\* handle_request, from there
Outgoing(p, req) ==
  IF HostnameOf(req.host) \in DOMAIN p.proxies
    THEN Rewritten(p.proxies[HostnameOf(req.host)], req) ELSE req

\* A slip: every allowed host is read.
InterceptsAll(p, text) == HostnameOf(text) # None

\* should_intercept_connect
Intercepts(p, text) == HostnameOf(text) # None /\ ShouldMitm(p, HostnameOf(text))

-----------------------------------------------------------------------------
Init ==
  /\ policy \in Policies
  /\ conn = [c \in Conn |-> Fresh]
  /\ cache = <<>>
  /\ last = Quiet
  /\ since = {}

\* The history after a leaf was asked for under key.
SinceAfter(key) ==
  {use \in since : use[2] # key} \cup {<<key, other>> : other \in Key \ {key}}

Becomes(c, phase, authority, leaf) ==
  conn' = [conn EXCEPT ![c] =
             [phase |-> phase, authority |-> authority, leaf |-> leaf]]

\* handle_request of a CONNECT that passes: it is left as it is.
Connect(c, authority) ==
  /\ conn[c].phase = "open"
  /\ Passes(policy, authority.host)
  /\ Becomes(c, "asked", authority, None)
  /\ last' = Quiet
  /\ UNCHANGED <<policy, cache, since>>

\* deny_response, to a CONNECT or to any other request
Refuse(c, text) ==
  /\ conn[c].phase = "open"
  /\ ~Passes(policy, text)
  /\ last' = [kind |-> "refused", host |-> text]
  /\ UNCHANGED <<policy, conn, cache, since>>

\* The client speaks TLS on a connection that is to be read.
Decrypt(c) ==
  /\ conn[c].phase = "asked"
  /\ Intercepts(policy, conn[c].authority.host)
  /\ Becomes(c, "read", conn[c].authority, LeafFor(cache, conn[c].authority))
  /\ cache' = CacheAfter(cache, conn[c].authority)
  /\ since' = SinceAfter(KeyOf(conn[c].authority))
  /\ last' = Quiet
  /\ UNCHANGED policy

\* It speaks HTTP, starting with a GET.
ReadPlain(c) ==
  /\ conn[c].phase = "asked"
  /\ Intercepts(policy, conn[c].authority.host)
  /\ Becomes(c, "read", conn[c].authority, None)
  /\ last' = Quiet
  /\ UNCHANGED <<policy, cache, since>>

\* It speaks something else, or nobody is to read it.
Tunnel(c, spoke) ==
  /\ conn[c].phase = "asked"
  /\ spoke \in {"tls", "get"} => ~Intercepts(policy, conn[c].authority.host)
  /\ Becomes(c, IF spoke = "other" THEN "unknown" ELSE "raw",
             conn[c].authority, None)
  /\ last' = Quiet
  /\ UNCHANGED <<policy, cache, since>>

\* Bytes of a tunnel.
Relay(c) ==
  /\ conn[c].phase \in {"raw", "unknown"}
  /\ last' = [kind |-> "raw", host |-> conn[c].authority.host,
              unknown |-> conn[c].phase = "unknown"]
  /\ UNCHANGED <<policy, conn, cache, since>>

\* The request as the handler gets it: inside a CONNECT it has its authority.
Arriving(c, req) ==
  IF conn[c].phase = "read" THEN [req EXCEPT !.host = conn[c].authority.host]
                            ELSE req

\* handle_request of any other request that passes
Forward(c, req) ==
  /\ conn[c].phase \in {"open", "read"}
  /\ Passes(policy, Arriving(c, req).host)
  /\ last' = [kind |-> "request", host |-> Arriving(c, req).host,
              given |-> Arriving(c, req),
              sent |-> Outgoing(policy, Arriving(c, req))]
  /\ UNCHANGED <<policy, conn, cache, since>>

\* Either side hangs up; the client may, for one, not take the leaf.
Close(c) ==
  /\ conn[c].phase # "open"
  /\ conn' = [conn EXCEPT ![c] = Fresh]
  /\ last' = Quiet
  /\ UNCHANGED <<policy, cache, since>>

Next ==
  \/ \E c \in Conn :
       Decrypt(c) \/ ReadPlain(c) \/ Relay(c) \/ Close(c)
  \/ \E c \in Conn, authority \in Authority : Connect(c, authority)
  \/ \E c \in Conn, text \in Option(HostText) : Refuse(c, text)
  \/ \E c \in Conn, spoke \in {"tls", "get", "other"} : Tunnel(c, spoke)
  \/ \E c \in Conn, req \in Requests : Forward(c, req)

Spec == Init /\ [][Next]_vars

-----------------------------------------------------------------------------
(* Properties.                                                             *)

Leaves == {Leaf(a) : a \in Authority}
Entry == [key : Key, leaf : Leaves]

Connection ==
  {Fresh}
    \cup [phase : {"asked", "raw", "unknown", "read"}, authority : Authority,
          leaf : {None}]
    \cup [phase : {"read"}, authority : Authority, leaf : Leaves]

IsDeparted(l) ==
  \/ l = Quiet
  \/ l \in [kind : {"refused"}, host : Option(HostText)]
  \/ l \in [kind : {"raw"}, host : HostText, unknown : BOOLEAN]
  \/ /\ IsMap(l, {"kind", "host", "given", "sent"})
     /\ l.kind = "request"
     /\ l.host \in HostText
     /\ IsRequest(l.given) /\ IsRequest(l.sent)

TypeOK ==
  /\ policy \in Policies
  /\ conn \in [Conn -> Connection]
  /\ cache \in Seq(Entry)
  /\ IsDeparted(last)
  /\ since \subseteq Key \X Key

\* Whatever leaves, on whichever path through the handler, CONNECT or not,
\* read or tunnelled, goes to a host that its own rule allows or, if it has
\* none, the public web's default; however the client writes the host.
DeniedUnreached ==
  last.kind \in {"request", "raw"} =>
    LET host == Lower[last.host]
        word == IF host \in DOMAIN policy.proxies
                  THEN policy.proxies[host].action ELSE policy.public_web
    IN  host # "" /\ word = "allow"

\* What the proxy adds to a request comes from the rule of the host it goes
\* to and no other's: a header's value that the client did not give, or a
\* parameter past the client's own.
SecretsStayHome ==
  last.kind = "request" =>
    LET host == Lower[last.host]
        sent == last.sent
        given == last.given
        Own(value) ==
          /\ host \in DOMAIN policy.proxies
          /\ LET rule == policy.proxies[host]
             IN  \/ \E i \in DOMAIN rule.headers : TextValue(rule.headers[i].item) = value
                 \/ rule.auth # None /\ AuthValue(rule.auth) = value
    IN  /\ \A n \in DOMAIN sent.headers : \A i \in DOMAIN sent.headers[n] :
             \/ n \in DOMAIN given.headers /\ sent.headers[n][i] \in Range(given.headers[n])
             \/ Own(sent.headers[n][i])
        /\ sent.query # given.query =>
             /\ host \in DOMAIN policy.proxies
             /\ sent.query = given.query \o policy.proxies[host].params

\* The proxy reads a connection only to inject, and what it could have read it
\* relays unread only if the client spoke neither TLS nor GET: the three
\* parses of a host (CONNECT's, should_intercept_connect's and the inner
\* request's) agree.
ReadIffInjecting ==
  LET Injecting(text) ==
        /\ Lower[text] \in DOMAIN policy.proxies
        /\ HasInjection(policy.proxies[Lower[text]])
  IN  /\ \A c \in Conn :
           conn[c].phase = "read" => Injecting(conn[c].authority.host)
      /\ last.kind = "raw" => last.unknown \/ ~Injecting(last.host)

\* The cache holds at most its capacity, one leaf for each authority, whatever
\* its case, and the leaf it has is for that authority.
CacheSound ==
  /\ Len(cache) <= Capacity
  /\ \A i \in DOMAIN cache :
       /\ Lower[cache[i].leaf.name] = cache[i].key.host
       /\ \A j \in DOMAIN cache : cache[i].key = cache[j].key => i = j

\* A client is shown a leaf for the host it asked for, not for another that
\* shares the cache with it, and the leaf stays the one it got though its
\* cache entry be evicted.
LeafIsTheHosts ==
  /\ CacheSound
  /\ \A c \in Conn :
       conn[c].leaf # None =>
         Lower[conn[c].leaf.name] = Lower[conn[c].authority.host]

\* An authority keeps its leaf as long as it is cached: no repeated host is
\* signed anew.  An entry goes only from a full cache, alone, to make room for
\* an authority that is not there, and only if each entry that stays was used
\* since it last was: the least recently used, by the history of the uses and
\* not by the place it stood in (proxy.rs 302-308, 371-399).
OldestGoes ==
  [][\A i \in DOMAIN cache :
       \/ cache[i] \in Range(cache')
       \/ /\ Len(cache) = Capacity
          /\ cache'[1].key \notin {cache[j].key : j \in DOMAIN cache}
          /\ \A j \in DOMAIN cache \ {i} :
               /\ cache[j] \in Range(cache')
               /\ <<cache[j].key, cache[i].key>> \in since]_vars

-----------------------------------------------------------------------------
(* The promise.                                                            *)

AccessOf(cn) ==
  [kind |-> CASE cn.phase = "open"  -> "none"
              [] cn.phase = "asked" -> "granted"
              [] cn.phase = "read"  -> "read"
              [] OTHER              -> "raw",
   host |-> IF cn.phase = "open" THEN None ELSE HostnameOf(cn.authority.host)]

OutOf(l) ==
  CASE l.kind = "raw" -> [kind |-> "raw", host |-> HostnameOf(l.host)]
    [] l.kind = "request" ->
         [kind |-> "request", host |-> HostnameOf(l.host), given |-> l.given,
          sent |-> l.sent]
    [] OTHER -> [kind |-> l.kind]

Promise == INSTANCE Egress WITH
  access <- [c \in Conn |-> AccessOf(conn[c])],
  out <- OutOf(last)

\* The proxy implements Egress: each request leaves with what its host's rule
\* gives it, one value for each header it names, the auth before a header that
\* is also called Authorization, and the parameters all or, where the URI
\* cannot be rebuilt, none.
PromiseKept == Promise!Spec

-----------------------------------------------------------------------------
(* What the comments say, and the code does not do.                        *)

\* rewrite.rs 51-54: "query params merge with the injected value winning per
\* key"; 79-80: "letting the injected value win per key".  Whichever of the
\* values that a request carries for a key of the rule's the destination
\* takes, it is the rule's.
InjectedWins ==
  last.kind = "request" /\ last.given.rebuilds
    /\ Lower[last.host] \in DOMAIN policy.proxies =>
    LET params == policy.proxies[Lower[last.host]].params
        query == last.sent.query
    IN  \A i \in DOMAIN query :
          query[i].key \in {params[j].key : j \in DOMAIN params}
            => query[i] \in Range(params)
=============================================================================
