---------------------------- MODULE GatewayProofs ----------------------------
(***************************************************************************)
(* The safety of Gateway for every policy, any number of connections and   *)
(* every capacity of the cache, and its refinement of Egress.              *)
(***************************************************************************)
EXTENDS Gateway, MapsProofs

-----------------------------------------------------------------------------
(* The injection.                                                          *)

LEMMA TextOfWords ==
  ASSUME NEW value \in Value
  PROVE  /\ <<TextValue(value)>> \in Seq(HeaderValue)
         /\ <<TextValue(value)>> # None
<1> DEFINE T == [kind : {"text"}, text : Seq(Word)]
<1>1. TextValue(value) \in T
  BY DEF TextValue, Value
<1>2. TextValue(value) \in HeaderValue
  BY DEF TextValue, HeaderValue, Value
<1>3. None \notin Seq(T)
  BY NoneAssumption
<1> HIDE DEF T
<1>4. <<TextValue(value)>> \in Seq(T)
  BY <1>1
<1>5. <<TextValue(value)>> \in Seq(HeaderValue)
  BY <1>2
<1> QED
  BY <1>3, <1>4, <1>5, Zenon

\* What the loop of inject_headers inserts, in its order.
Inserts(headers) ==
  [i \in DOMAIN headers |->
     [key |-> Canonical[headers[i].key], item |-> Injected(headers[i])]]

Headers == Seq([key : Word, item : Value])

\* A header is skipped if and only if it cannot be sent.
LEMMA InsertOf ==
  ASSUME NEW headers \in Headers, NEW i \in DOMAIN headers
  PROVE  /\ Inserts(headers)[i].key = Canonical[headers[i].key]
         /\ Inserts(headers)[i].item # None <=>
              /\ Canonical[headers[i].key] # None
              /\ IsSendable(TextValue(headers[i].item))
         /\ Inserts(headers)[i].item # None =>
              Inserts(headers)[i].item = <<TextValue(headers[i].item)>>
<1>1. headers[i] \in [key : Word, item : Value]
  BY Element DEF Headers
<1>2. <<TextValue(headers[i].item)>> # None
  BY <1>1, TextOfWords
<1>3. Inserts(headers)[i] =
        [key |-> Canonical[headers[i].key], item |-> Injected(headers[i])]
  BY DEF Inserts
<1> QED
  BY <1>2, <1>3 DEF Injected

LEMMA InsertsIsSeq ==
  ASSUME NEW headers \in Headers
  PROVE  /\ Inserts(headers) \in Seq({Inserts(headers)[i] : i \in DOMAIN headers})
         /\ DOMAIN Inserts(headers) = DOMAIN headers
<1> DEFINE f == Inserts(headers)
           H == [key : Word, item : Value]
           T == {f[j] : j \in DOMAIN headers}
<1>1. f = [i \in DOMAIN headers |-> f[i]] /\ DOMAIN f = DOMAIN headers
  BY DEF Inserts
<1>2. \A i \in DOMAIN headers : f[i] \in T
  OBVIOUS
<1>3. headers \in Seq(H)
  BY DEF Headers
<1> HIDE DEF f, H, T
<1>4. f \in Seq(T)
  BY <1>1, <1>2, <1>3, Mapped
<1> QED
  BY <1>1, <1>4 DEF f, T

\* The headers that are sent: of each name the rule can give, one value, of one
\* of its headers of that name; of the others, what was given.
GivesText(header, name) ==
  /\ name # None
  /\ Canonical[header.key] = name
  /\ IsSendable(TextValue(header.item))

LEMMA SentTexts ==
  ASSUME NEW headers \in Headers, NEW name
  PROVE  /\ name \in DOMAIN LastEntries(Inserts(headers)) =>
              \E i \in DOMAIN headers :
                /\ GivesText(headers[i], name)
                /\ LastEntries(Inserts(headers))[name] = <<TextValue(headers[i].item)>>
         /\ (\E i \in DOMAIN headers : GivesText(headers[i], name)) =>
              name \in DOMAIN LastEntries(Inserts(headers))
<1> DEFINE e == Inserts(headers)
           sent == LastEntries(e)
<1>1. DOMAIN e = DOMAIN headers /\ \E S : e \in Seq(S)
  BY InsertsIsSeq
<1>2. \A i \in DOMAIN headers :
        /\ e[i].key = Canonical[headers[i].key]
        /\ e[i].item # None <=>
              /\ Canonical[headers[i].key] # None
              /\ IsSendable(TextValue(headers[i].item))
        /\ e[i].item # None => e[i].item = <<TextValue(headers[i].item)>>
  BY InsertOf
<1>3. ASSUME name \in DOMAIN sent
      PROVE  \E i \in DOMAIN headers :
               /\ GivesText(headers[i], name)
               /\ sent[name] = <<TextValue(headers[i].item)>>
  <2>0. PICK S : e \in Seq(S)
    BY <1>1
  <2>1. \E i \in DOMAIN e :
          e[i].key = name /\ e[i].item # None /\ sent[name] = e[i].item
    <3> HIDE DEF e
    <3> QED
      BY <1>3, <2>0, LastEntriesItem
  <2>2. PICK i \in DOMAIN e :
          e[i].key = name /\ e[i].item # None /\ sent[name] = e[i].item
    BY <2>1
  <2> QED
    BY <1>1, <1>2, <2>2 DEF GivesText
<1>4. ASSUME NEW i \in DOMAIN headers, GivesText(headers[i], name)
      PROVE  name \in DOMAIN sent
  <2>1. e[i].key = name /\ e[i].item # None
    BY <1>2, <1>4 DEF GivesText
  <2>2. DOMAIN sent = {e[k].key : k \in {j \in DOMAIN e : e[j].item # None}}
    BY LastEntriesKeys
  <2> QED
    BY <1>1, <2>1, <2>2
<1> QED
  BY <1>3, <1>4

LEMMA UpsertAt ==
  ASSUME NEW l, NEW r, NEW n
  PROVE  /\ DOMAIN Upsert(l, r) = DOMAIN l \cup DOMAIN r
         /\ n \in DOMAIN r => Upsert(l, r)[n] = r[n]
         /\ n \in DOMAIN l \ DOMAIN r => Upsert(l, r)[n] = l[n]
         /\ IsMap(Upsert(l, r), DOMAIN Upsert(l, r))
  BY DEF Upsert, IsMap

\* What Upsert does to a header map's types.
LEMMA UpsertIsHeaders ==
  ASSUME NEW l, NEW r, IsHeaders(l), DOMAIN r \subseteq Word,
         \A n \in DOMAIN r : r[n] \in Seq(HeaderValue)
  PROVE  IsHeaders(Upsert(l, r))
<1> DEFINE u == Upsert(l, r)
<1>1. DOMAIN u = DOMAIN l \cup DOMAIN r /\ IsMap(u, DOMAIN u)
  BY UpsertAt
<1>0. \A n : /\ n \in DOMAIN r => u[n] = r[n]
             /\ n \in DOMAIN l \ DOMAIN r => u[n] = l[n]
  BY DEF Upsert
<1> HIDE DEF u
<1>2. ASSUME NEW n \in DOMAIN u
      PROVE  u[n] \in Seq(HeaderValue)
  <2>1. CASE n \in DOMAIN r
    BY <1>0, <2>1
  <2>2. CASE n \notin DOMAIN r
    <3>1. n \in DOMAIN l /\ u[n] = l[n]
      BY <1>0, <1>1, <2>2
    <3> QED
      BY <3>1 DEF IsHeaders
  <2> QED
    BY <2>1, <2>2
<1>3. DOMAIN u \subseteq Word
  BY <1>1 DEF IsHeaders
<1> QED
  BY <1>1, <1>2, <1>3, Zenon DEF IsHeaders, u

\* A request whose headers, or whose parameters, are replaced is a request.
LEMMA RequestFields ==
  ASSUME NEW req, IsRequest(req), NEW h, NEW q, NEW d
  PROVE  /\ req = [host |-> req.host, headers |-> req.headers,
                   query |-> req.query, rebuilds |-> req.rebuilds,
                   dotted |-> req.dotted]
         /\ [req EXCEPT !.headers = h] =
              [host |-> req.host, headers |-> h, query |-> req.query,
               rebuilds |-> req.rebuilds, dotted |-> req.dotted]
         /\ [req EXCEPT !.query = q, !.dotted = d] =
              [host |-> req.host, headers |-> req.headers, query |-> q,
               rebuilds |-> req.rebuilds, dotted |-> d]
<1> DEFINE N == {"host", "headers", "query", "rebuilds", "dotted"}
           a == [req EXCEPT !.headers = h]
           b == [req EXCEPT !.query = q, !.dotted = d]
<1>1. req = [n \in N |-> req[n]] /\ DOMAIN req = N
  BY DEF IsRequest, IsMap
<1>2. req = [host |-> req.host, headers |-> req.headers, query |-> req.query,
             rebuilds |-> req.rebuilds, dotted |-> req.dotted]
  BY <1>1
<1>3. a = [host |-> req.host, headers |-> h, query |-> req.query,
           rebuilds |-> req.rebuilds, dotted |-> req.dotted]
  BY <1>2
<1>4. b = [host |-> req.host, headers |-> req.headers, query |-> q,
           rebuilds |-> req.rebuilds, dotted |-> d]
  <2>1. /\ b = [n \in N |-> b[n]]
        /\ b.host = req.host /\ b.headers = req.headers /\ b.query = q
        /\ b.rebuilds = req.rebuilds /\ b.dotted = d
    BY <1>1
  <2> HIDE DEF b
  <2> QED
    BY <2>1
<1> QED
  BY <1>2, <1>3, <1>4

LEMMA IsRequestOf ==
  ASSUME NEW host \in Option(HostText), NEW h, IsHeaders(h), NEW q \in Query,
         NEW b \in BOOLEAN, NEW d \in BOOLEAN
  PROVE  IsRequest([host |-> host, headers |-> h, query |-> q,
                    rebuilds |-> b, dotted |-> d])
<1> DEFINE req == [host |-> host, headers |-> h, query |-> q,
                   rebuilds |-> b, dotted |-> d]
<1>1. IsMap(req, {"host", "headers", "query", "rebuilds", "dotted"})
  BY DEF IsMap
<1>2. /\ req.host = host /\ req.headers = h /\ req.query = q
      /\ req.rebuilds = b /\ req.dotted = d
  OBVIOUS
<1> HIDE DEF req
<1>3. IsRequest(req)
  BY <1>1, <1>2 DEF IsRequest
<1> QED
  BY <1>3 DEF req

LEMMA RuleFields ==
  ASSUME NEW rule \in ProxyRule
  PROVE  /\ rule.headers \in Headers
         /\ rule.params \in Query
         /\ rule.auth \in Option(Auth)
  BY DEF ProxyRule, Headers, Query

LEMMA AuthValueType ==
  ASSUME NEW auth \in Auth
  PROVE  /\ AuthValue(auth) \in HeaderValue
         /\ <<AuthValue(auth)>> \in Seq(HeaderValue)
<1>1. AuthValue(auth) \in HeaderValue
  <2>1. CASE auth \in [scheme : {"basic"}, parts : [1 .. 2 -> Value]]
    <3>1. auth.scheme = "basic" /\ auth.parts \in [1 .. 2 -> Value]
      BY <2>1
    <3>2. auth.parts[1] \in Seq(Word) /\ auth.parts[2] \in Seq(Word)
      BY <3>1 DEF Value
    <3>3. ":" \in Word
      BY HeaderAssumption
    <3>4. auth.parts[1] \o <<":">> \o auth.parts[2] \in Seq(Word)
      BY <3>2, <3>3, ConcatProperties
    <3> QED
      BY <3>1, <3>4 DEF AuthValue, HeaderValue, Value
  <2>2. CASE auth \in [scheme : {"bearer"}, parts : [1 .. 1 -> Value]]
    <3>1. auth.scheme = "bearer" /\ auth.parts[1] \in Value
      BY <2>2
    <3> QED
      BY <3>1 DEF AuthValue, HeaderValue
  <2> QED
    BY <2>1, <2>2 DEF Auth
<1> QED
  BY <1>1

-----------------------------------------------------------------------------
(* What apply leaves in each field of the request.                         *)

WithTexts(rule, req) ==
  Upsert(req.headers, LastEntries(Inserts(rule.headers)))

WithAuth(rule, req) ==
  IF rule.auth = None \/ ~IsSendable(AuthValue(rule.auth)) THEN WithTexts(rule, req)
  ELSE Upsert(WithTexts(rule, req), [n \in {"authorization"} |-> <<AuthValue(rule.auth)>>])

WithParams(rule, req) ==
  IF req.rebuilds THEN req.query \o rule.params ELSE req.query

LEMMA AppliedIs ==
  ASSUME NEW rule, NEW req, IsRequest(req)
  PROVE  Applied(rule, req) =
           [host |-> req.host, headers |-> WithAuth(rule, req),
            query |-> WithParams(rule, req), rebuilds |-> req.rebuilds,
            dotted |-> IF req.rebuilds THEN FALSE ELSE req.dotted]
<1> DEFINE one == InjectHeaders(rule.headers, req)
           two == MergeQueryParams(rule.params, one)
           H == WithTexts(rule, req)
           Q == WithParams(rule, req)
           D == IF req.rebuilds THEN FALSE ELSE req.dotted
           A == WithAuth(rule, req)
<1>1. one = [req EXCEPT !.headers = H]
  BY DEF InjectHeaders, WithTexts, Inserts
<1>2. one = [host |-> req.host, headers |-> H, query |-> req.query,
             rebuilds |-> req.rebuilds, dotted |-> req.dotted]
  BY <1>1, RequestFields
<1>3. two = [host |-> req.host, headers |-> H, query |-> Q,
             rebuilds |-> req.rebuilds, dotted |-> D]
  <2> HIDE DEF one, H
  <2>1. /\ one.rebuilds = req.rebuilds /\ one.query = req.query
        /\ one.dotted = req.dotted /\ one.host = req.host /\ one.headers = H
    BY <1>2
  <2>2. CASE req.rebuilds
    <3>1. two = [one EXCEPT !.query = @ \o rule.params, !.dotted = FALSE]
      BY <2>1, <2>2 DEF MergeQueryParams
    <3> QED
      BY <1>2, <2>2, <3>1 DEF WithParams
  <2>3. CASE ~req.rebuilds
    <3>1. two = one /\ Q = req.query /\ D = req.dotted
      BY <2>1, <2>3 DEF MergeQueryParams, WithParams
    <3> QED
      BY <1>2, <3>1
  <2> QED
    BY <2>2, <2>3
<1>4. Applied(rule, req) = InjectAuth(rule.auth, two)
  BY DEF Applied
<1> HIDE DEF one, two, H, Q, D
<1>5. two.headers = H
  BY <1>3
<1>6. CASE rule.auth = None \/ ~IsSendable(AuthValue(rule.auth))
  <2>1. InjectAuth(rule.auth, two) = two /\ A = H
    BY <1>6 DEF InjectAuth, WithAuth, H
  <2> HIDE DEF A
  <2>2. Applied(rule, req) = [host |-> req.host, headers |-> A, query |-> Q,
                              rebuilds |-> req.rebuilds, dotted |-> D]
    BY <1>3, <1>4, <2>1
  <2> QED
    BY <2>2 DEF A, Q, D
<1>7. CASE ~(rule.auth = None \/ ~IsSendable(AuthValue(rule.auth)))
  <2>1. /\ InjectAuth(rule.auth, two) = [two EXCEPT !.headers = A]
    BY <1>5, <1>7 DEF InjectAuth, WithAuth, H
  <2> HIDE DEF A
  <2>2. Applied(rule, req) = [host |-> req.host, headers |-> A, query |-> Q,
                              rebuilds |-> req.rebuilds, dotted |-> D]
    BY <1>3, <1>4, <2>1
  <2> QED
    BY <2>2 DEF A, Q, D
<1> QED
  BY <1>6, <1>7

LEMMA TextsAreHeaders ==
  ASSUME NEW rule \in ProxyRule, NEW req, IsRequest(req)
  PROVE  IsHeaders(WithTexts(rule, req))
<1> DEFINE r == LastEntries(Inserts(rule.headers))
<1>1. rule.headers \in Headers
  BY RuleFields
<1>2. ASSUME NEW n \in DOMAIN r
      PROVE  n \in Word /\ r[n] \in Seq(HeaderValue)
  <2>1. PICK i \in DOMAIN rule.headers :
          /\ GivesText(rule.headers[i], n)
          /\ r[n] = <<TextValue(rule.headers[i].item)>>
    BY <1>1, <1>2, SentTexts
  <2>2. rule.headers[i] \in [key : Word, item : Value]
    BY <1>1, Element DEF Headers
  <2>3. Canonical[rule.headers[i].key] \in Option(Word)
    BY <2>2, HeaderAssumption
  <2>4. <<TextValue(rule.headers[i].item)>> \in Seq(HeaderValue)
    BY <2>2, TextOfWords
  <2> QED
    BY <2>1, <2>3, <2>4 DEF Option, GivesText
<1>3. IsHeaders(req.headers)
  BY DEF IsRequest
<1> HIDE DEF r
<1>4. IsHeaders(Upsert(req.headers, r))
  BY <1>2, <1>3, UpsertIsHeaders
<1> QED
  BY <1>4 DEF WithTexts, r

LEMMA AuthIsHeaders ==
  ASSUME NEW rule \in ProxyRule, NEW req, IsRequest(req)
  PROVE  IsHeaders(WithAuth(rule, req))
<1> DEFINE h == WithTexts(rule, req)
           v == AuthValue(rule.auth)
           r == [n \in {"authorization"} |-> <<v>>]
<1>1. IsHeaders(h)
  BY TextsAreHeaders
<1>2. CASE rule.auth = None \/ ~IsSendable(v)
  BY <1>1, <1>2 DEF WithAuth
<1>3. CASE ~(rule.auth = None \/ ~IsSendable(v))
  <2>1. rule.auth \in Auth
    BY <1>3, RuleFields DEF Option
  <2>2. <<v>> \in Seq(HeaderValue)
    BY <2>1, AuthValueType
  <2>3. DOMAIN r \subseteq Word /\ \A n \in DOMAIN r : r[n] \in Seq(HeaderValue)
    BY <2>2, HeaderAssumption
  <2> HIDE DEF r
  <2>4. IsHeaders(Upsert(h, r))
    BY <1>1, <2>3, UpsertIsHeaders
  <2>5. WithAuth(rule, req) = Upsert(h, r)
    BY <1>3 DEF WithAuth, r
  <2> QED
    BY <2>4, <2>5
<1> QED
  BY <1>2, <1>3

\* What the proxy sends is a request.
LEMMA RewrittenIsRequest ==
  ASSUME NEW rule \in ProxyRule, NEW req, IsRequest(req)
  PROVE  IsRequest(Rewritten(rule, req)) /\ Rewritten(rule, req).host = req.host
<1>1. /\ req.host \in Option(HostText) /\ req.query \in Query
      /\ req.rebuilds \in BOOLEAN /\ req.dotted \in BOOLEAN
  BY DEF IsRequest
<1>2. IsHeaders(WithAuth(rule, req))
  BY AuthIsHeaders
<1>3. WithParams(rule, req) \in Query
  <2>1. rule.params \in Query
    BY RuleFields
  <2> QED
    BY <1>1, <2>1, ConcatProperties, Zenon DEF WithParams, Query
<1>4. (IF req.rebuilds THEN FALSE ELSE req.dotted) \in BOOLEAN
  BY <1>1
<1>5. IsRequest(Applied(rule, req)) /\ Applied(rule, req).host = req.host
  <2> DEFINE D == IF req.rebuilds THEN FALSE ELSE req.dotted
             sent == [host |-> req.host, headers |-> WithAuth(rule, req),
                      query |-> WithParams(rule, req),
                      rebuilds |-> req.rebuilds, dotted |-> D]
  <2>1. Applied(rule, req) = sent
    BY AppliedIs
  <2>2. sent.host = req.host
    OBVIOUS
  <2>3. IsRequest(sent)
    <3> HIDE DEF D
    <3> QED
      BY <1>1, <1>2, <1>3, <1>4, IsRequestOf DEF D
  <2> QED
    BY <2>1, <2>2, <2>3
<1> QED
  BY <1>5 DEF Rewritten

-----------------------------------------------------------------------------
(* The cache.                                                              *)

EntrySound(e) == Lower[e.leaf.name] = e.key.host

Sound(list) ==
  /\ list \in Seq(Entry)
  /\ Len(list) <= Capacity
  /\ \A i \in DOMAIN list : EntrySound(list[i])
  /\ \A i, j \in DOMAIN list : list[i].key = list[j].key => i = j

\* What an access may do to the cache: only the last place is given up, of a
\* full cache, for a key that is not there.
Keeps(list, after) ==
  \A i \in DOMAIN list :
    \/ list[i] \in Range(after)
    \/ /\ Len(list) = Capacity /\ i = Capacity
       /\ after[1].key \notin {list[j].key : j \in DOMAIN list}
       /\ \A j \in DOMAIN list \ {i} : list[j] \in Range(after)

\* The places of the cache are the order of the last uses.
Ordered(list, uses) ==
  \A i, j \in DOMAIN list : i < j => <<list[i].key, list[j].key>> \in uses

\* What a use of a key does to the history.
LEMMA HistoryAfter ==
  ASSUME NEW key \in Key, since \subseteq Key \X Key
  PROVE  /\ SinceAfter(key) \subseteq Key \X Key
         /\ \A other \in Key : other # key => <<key, other>> \in SinceAfter(key)
         /\ \A a, b \in Key :
              <<a, b>> \in since /\ b # key => <<a, b>> \in SinceAfter(key)
  BY DEF SinceAfter

LEMMA KeyFields ==
  ASSUME NEW a \in Authority
  PROVE  /\ KeyOf(a) \in Key /\ KeyOf(a).host = Lower[a.host]
         /\ Leaf(a) \in Leaves /\ Leaf(a).name = a.host
  BY DEF KeyOf, Key, Leaf, Leaves, Authority

LEMMA PutSound ==
  ASSUME NEW list, Sound(list), NEW entry \in Entry, EntrySound(entry),
         \A i \in DOMAIN list : list[i].key # entry.key,
         since \subseteq Key \X Key, Ordered(list, since)
  PROVE  /\ Sound(Put(list, entry)) /\ Keeps(list, Put(list, entry))
         /\ Ordered(Put(list, entry), SinceAfter(entry.key))
<1> DEFINE n == IF Len(list) < Capacity THEN Len(list) + 1 ELSE Capacity
           new == Put(list, entry)
<1> USE CapacityAssumption
<1>1. /\ Len(list) \in Nat /\ DOMAIN list = 1 .. Len(list)
      /\ Len(list) <= Capacity
      /\ \A i \in 1 .. Len(list) : list[i] \in Entry /\ EntrySound(list[i])
      /\ \A i, j \in 1 .. Len(list) : list[i].key = list[j].key => i = j
      /\ \A i \in 1 .. Len(list) : list[i].key # entry.key
  BY Element DEF Sound
<1>2. /\ n \in Nat \ {0} /\ n <= Capacity /\ n <= Len(list) + 1
      /\ n = Len(list) + 1 \/ n = Capacity
  BY <1>1
<1>3. new = [i \in 1 .. n |-> IF i = 1 THEN entry ELSE list[i - 1]]
  BY DEF Put
<1> HIDE DEF n, new
<1>4. /\ DOMAIN new = 1 .. n /\ new[1] = entry
      /\ \A i \in 1 .. n : i # 1 => i - 1 \in 1 .. Len(list) /\ new[i] = list[i - 1]
  BY <1>1, <1>2, <1>3
<1>5. \A i \in 1 .. n : new[i] \in Entry /\ EntrySound(new[i])
  BY <1>1, <1>4
<1>6. new \in Seq(Entry) /\ Len(new) = n
  <2>1. new \in [1 .. n -> Entry]
    BY <1>3, <1>4, <1>5
  <2> QED
    BY <1>2, <2>1, SeqDef, LenProperties
<1>7. ASSUME NEW i \in 1 .. n, NEW j \in 1 .. n, new[i].key = new[j].key
      PROVE  i = j
  <2>1. CASE i = 1 /\ j = 1
    BY <2>1
  <2>2. CASE i = 1 /\ j # 1
    BY <1>1, <1>4, <1>7, <2>2
  <2>3. CASE i # 1 /\ j = 1
    BY <1>1, <1>4, <1>7, <2>3
  <2>4. CASE i # 1 /\ j # 1
    <3>1. /\ i - 1 \in 1 .. Len(list) /\ new[i] = list[i - 1]
          /\ j - 1 \in 1 .. Len(list) /\ new[j] = list[j - 1]
      BY <1>4, <2>4
    <3>2. i - 1 = j - 1
      BY <1>1, <1>7, <3>1
    <3> QED
      BY <1>2, <3>2
  <2> QED
    BY <2>1, <2>2, <2>3, <2>4
<1>8. Sound(new)
  BY <1>2, <1>4, <1>5, <1>6, <1>7 DEF Sound
<1>9. ASSUME NEW i \in 1 .. Len(list), i # Capacity
      PROVE  list[i] \in Range(new)
  <2>1. i + 1 \in 1 .. n /\ new[i + 1] = list[i]
    BY <1>1, <1>2, <1>4, <1>9
  <2> QED
    BY <1>4, <2>1 DEF Range
<1>10. ASSUME NEW i \in 1 .. Len(list), i = Capacity
       PROVE  /\ Len(list) = Capacity
              /\ new[1].key \notin {list[j].key : j \in DOMAIN list}
              /\ \A j \in DOMAIN list \ {i} : list[j] \in Range(new)
  <2>1. Len(list) = Capacity
    <3>1. Len(list) \in Nat /\ Len(list) <= Capacity
      BY <1>1
    <3>2. i \in 1 .. Len(list) /\ i = Capacity
      BY <1>10
    <3> QED
      BY <3>1, <3>2
  <2>2. new[1].key \notin {list[j].key : j \in DOMAIN list}
    BY <1>1, <1>4
  <2>3. ASSUME NEW j \in DOMAIN list \ {i}
        PROVE  list[j] \in Range(new)
    <3>1. j \in 1 .. Len(list) /\ j # Capacity
      BY <1>1, <1>10, <2>3
    <3> QED
      BY <1>9, <3>1
  <2> QED
    BY <2>1, <2>2, <2>3
<1>11. Keeps(list, new)
  BY <1>1, <1>9, <1>10 DEF Keeps
<1>12. ASSUME NEW i \in 1 .. n, NEW j \in 1 .. n, i < j
       PROVE  <<new[i].key, new[j].key>> \in SinceAfter(entry.key)
  <2>1. j - 1 \in 1 .. Len(list) /\ new[j] = list[j - 1]
    BY <1>4, <1>12
  <2>2. new[j].key \in Key /\ new[j].key # entry.key /\ entry.key \in Key
    BY <1>1, <2>1 DEF Entry
  <2>3. CASE i = 1
    <3>1. new[i] = entry
      BY <1>4, <2>3
    <3> QED
      BY <2>2, <3>1, HistoryAfter
  <2>4. CASE i # 1
    <3>1. i - 1 \in 1 .. Len(list) /\ new[i] = list[i - 1] /\ i - 1 < j - 1
      BY <1>2, <1>4, <1>12, <2>4
    <3>2. new[i].key \in Key
      BY <1>1, <3>1 DEF Entry
    <3>3. <<list[i - 1].key, list[j - 1].key>> \in since
      BY <1>1, <2>1, <3>1 DEF Ordered
    <3>4. <<new[i].key, new[j].key>> \in since
      BY <2>1, <3>1, <3>3
    <3> QED
      BY <2>2, <3>2, <3>4, HistoryAfter
  <2> QED
    BY <2>3, <2>4
<1>13. Ordered(new, SinceAfter(entry.key))
  BY <1>4, <1>12 DEF Ordered
<1> QED
  BY <1>8, <1>11, <1>13 DEF new

LEMMA PromotedSound ==
  ASSUME NEW list, Sound(list), NEW k \in DOMAIN list,
         since \subseteq Key \X Key, Ordered(list, since)
  PROVE  /\ Sound(Promoted(list, k)) /\ Keeps(list, Promoted(list, k))
         /\ Ordered(Promoted(list, k), SinceAfter(list[k].key))
<1> DEFINE n == Len(list)
           new == Promoted(list, k)
           From(i) == IF i = 1 THEN k ELSE IF i <= k THEN i - 1 ELSE i
           To(i) == IF i = k THEN 1 ELSE IF i < k THEN i + 1 ELSE i
<1>1. /\ n \in Nat /\ DOMAIN list = 1 .. n /\ n <= Capacity
      /\ \A i \in 1 .. n : list[i] \in Entry /\ EntrySound(list[i])
      /\ \A i, j \in 1 .. n : list[i].key = list[j].key => i = j
  BY Element DEF Sound
<1>2. new = [j \in 1 .. n |->
               IF j = 1 THEN list[k] ELSE IF j <= k THEN list[j - 1] ELSE list[j]]
  BY <1>1 DEF Promoted
<1>3. DOMAIN new = 1 .. n
  BY <1>2
<1>4. \A i \in 1 .. n : From(i) \in 1 .. n /\ To(i) \in 1 .. n
                          /\ From(To(i)) = i
  BY <1>1
<1>5. \A i, j \in 1 .. n : From(i) = From(j) => i = j
  BY <1>1
<1>6. \A i \in 1 .. n : new[i] = list[From(i)]
  BY <1>1, <1>2
<1>13. /\ From(1) = k
       /\ \A i, j \in 1 .. n : i < j => From(j) # k
       /\ \A i, j \in 1 .. n : i # 1 /\ i < j => From(i) < From(j)
  BY <1>1
<1> HIDE DEF n, new, From, To
<1>7. \A i \in 1 .. n : new[i] \in Entry /\ EntrySound(new[i])
  BY <1>1, <1>4, <1>6
<1>8. new \in Seq(Entry) /\ Len(new) = n
  <2>1. new = [i \in 1 .. n |-> new[i]]
    BY <1>2, <1>3
  <2>2. new \in [1 .. n -> Entry]
    BY <1>7, <2>1
  <2> QED
    BY <1>1, <2>2, SeqDef, LenProperties
<1>9. ASSUME NEW i \in 1 .. n, NEW j \in 1 .. n, new[i].key = new[j].key
      PROVE  i = j
  <2>1. From(i) = From(j)
    BY <1>1, <1>4, <1>6, <1>9
  <2> QED
    BY <1>5, <2>1
<1>10. Sound(new)
  BY <1>1, <1>3, <1>7, <1>8, <1>9 DEF Sound
<1>11. \A i \in DOMAIN list : list[i] = new[To(i)] /\ To(i) \in DOMAIN new
  BY <1>1, <1>3, <1>4, <1>6
<1>12. Keeps(list, new)
  BY <1>11 DEF Keeps, Range
<1>14. ASSUME NEW i \in 1 .. n, NEW j \in 1 .. n, i < j
       PROVE  <<new[i].key, new[j].key>> \in SinceAfter(list[k].key)
  <2>1. /\ From(j) \in 1 .. n /\ new[j] = list[From(j)] /\ From(j) # k
        /\ From(i) \in 1 .. n /\ new[i] = list[From(i)] /\ k \in 1 .. n
    BY <1>1, <1>4, <1>6, <1>13, <1>14
  <2>2. /\ new[j].key \in Key /\ new[j].key # list[k].key
        /\ new[i].key \in Key /\ list[k].key \in Key
    BY <1>1, <2>1 DEF Entry
  <2>3. CASE i = 1
    <3>1. new[i] = list[k]
      BY <1>13, <2>1, <2>3
    <3> QED
      BY <2>2, <3>1, HistoryAfter
  <2>4. CASE i # 1
    <3>1. From(i) < From(j)
      BY <1>13, <1>14, <2>4
    <3>2. <<list[From(i)].key, list[From(j)].key>> \in since
      BY <1>1, <2>1, <3>1 DEF Ordered
    <3>3. <<new[i].key, new[j].key>> \in since
      BY <2>1, <3>2
    <3> QED
      BY <2>2, <3>3, HistoryAfter
  <2> QED
    BY <2>3, <2>4
<1>15. Ordered(new, SinceAfter(list[k].key))
  BY <1>3, <1>14 DEF Ordered
<1> QED
  BY <1>10, <1>12, <1>15 DEF new

\* A leaf is made or found: either way it is for the host that was asked for,
\* the cache stays sound, and its order that of the uses.
LEMMA Signed ==
  ASSUME NEW list, Sound(list), NEW a \in Authority,
         since \subseteq Key \X Key, Ordered(list, since)
  PROVE  /\ LeafFor(list, a) \in Leaves
         /\ Lower[LeafFor(list, a).name] = Lower[a.host]
         /\ Sound(CacheAfter(list, a))
         /\ Keeps(list, CacheAfter(list, a))
         /\ Ordered(CacheAfter(list, a), SinceAfter(KeyOf(a)))
         /\ SinceAfter(KeyOf(a)) \subseteq Key \X Key
<1> DEFINE key == KeyOf(a)
           hits == HitsOf(list, key)
           entry == [key |-> key, leaf |-> Leaf(a)]
<1>1. /\ key \in Key /\ key.host = Lower[a.host]
      /\ Leaf(a) \in Leaves /\ Leaf(a).name = a.host
  BY KeyFields
<1>2. hits = {i \in DOMAIN list : list[i].key = key}
  BY DEF HitsOf
<1>5. SinceAfter(key) \subseteq Key \X Key
  BY <1>1, HistoryAfter
<1> HIDE DEF key, hits
<1>3. CASE hits # {}
  <2>1. PICK i \in hits : i = CHOOSE j \in hits : TRUE
    BY <1>3
  <2>2. i \in DOMAIN list /\ list[i].key = key
    BY <1>2, <2>1
  <2>3. list[i] \in Entry /\ EntrySound(list[i])
    BY <2>2, Element DEF Sound
  <2>4. list[i].leaf \in Leaves /\ Lower[list[i].leaf.name] = Lower[a.host]
    BY <1>1, <2>2, <2>3 DEF Entry, EntrySound
  <2>5. LeafFor(list, a) = list[i].leaf /\ CacheAfter(list, a) = Promoted(list, i)
    BY <1>3, <2>1 DEF LeafFor, CacheAfter, hits, key
  <2>6. /\ Sound(Promoted(list, i)) /\ Keeps(list, Promoted(list, i))
        /\ Ordered(Promoted(list, i), SinceAfter(key))
    BY <2>2, PromotedSound
  <2> QED
    BY <1>5, <2>4, <2>5, <2>6 DEF key
<1>4. CASE hits = {}
  <2>1. \A i \in DOMAIN list : list[i].key # key
    BY <1>2, <1>4
  <2>2. entry \in Entry /\ EntrySound(entry) /\ entry.key = key
    BY <1>1 DEF Entry, EntrySound
  <2>3. LeafFor(list, a) = Leaf(a) /\ CacheAfter(list, a) = Put(list, entry)
    BY <1>4 DEF LeafFor, CacheAfter, hits, key
  <2> HIDE DEF entry
  <2>4. /\ Sound(Put(list, entry)) /\ Keeps(list, Put(list, entry))
        /\ Ordered(Put(list, entry), SinceAfter(key))
    BY <2>1, <2>2, PutSound
  <2> QED
    BY <1>1, <1>5, <2>3, <2>4 DEF key
<1> QED
  BY <1>3, <1>4

-----------------------------------------------------------------------------
(* The inductive invariant: a connection is as far as the policy lets its  *)
(* own host go, and so is what left.                                       *)

ConnSound(cn) ==
  /\ cn.phase # "open" => Passes(policy, cn.authority.host)
  /\ cn.phase = "read" => Intercepts(policy, cn.authority.host)
  /\ cn.phase = "raw" => ~Intercepts(policy, cn.authority.host)
  /\ cn.leaf # None => Lower[cn.leaf.name] = Lower[cn.authority.host]

LastSound ==
  /\ last.kind = "raw" =>
       /\ Passes(policy, last.host)
       /\ last.unknown \/ ~Intercepts(policy, last.host)
  /\ last.kind = "request" =>
       /\ Passes(policy, last.host)
       /\ last.given.host = last.host
       /\ last.sent = Outgoing(policy, last.given)

IInv ==
  /\ TypeOK
  /\ \A c \in Conn : ConnSound(conn[c])
  /\ LastSound
  /\ Sound(cache)
  /\ Ordered(cache, since)

LEMMA ConnectionFields ==
  ASSUME NEW cn \in Connection
  PROVE  /\ cn = [phase |-> cn.phase, authority |-> cn.authority, leaf |-> cn.leaf]
         /\ cn.phase \in {"open", "asked", "raw", "unknown", "read"}
         /\ cn.phase = "open" => cn = Fresh
         /\ cn.phase # "open" => cn.authority \in Authority
         /\ cn.phase # "read" => cn.leaf = None
         /\ cn.leaf \in Option(Leaves)
<1>1. CASE cn = Fresh
  BY <1>1 DEF Fresh, Option
<1>2. CASE cn \in [phase : {"asked", "raw", "unknown", "read"},
                   authority : Authority, leaf : {None}]
  BY <1>2 DEF Option
<1>3. CASE cn \in [phase : {"read"}, authority : Authority, leaf : Leaves]
  BY <1>3 DEF Option
<1> QED
  BY <1>1, <1>2, <1>3 DEF Connection

LEMMA ConnectionOf ==
  ASSUME NEW phase \in {"asked", "raw", "unknown", "read"},
         NEW authority \in Authority, NEW leaf,
         leaf = None \/ (phase = "read" /\ leaf \in Leaves)
  PROVE  [phase |-> phase, authority |-> authority, leaf |-> leaf] \in Connection
  BY DEF Connection

\* A request that passes goes out as a request.
LEMMA OutgoingIsRequest ==
  ASSUME NEW p \in Policies, NEW req, IsRequest(req)
  PROVE  IsRequest(Outgoing(p, req)) /\ Outgoing(p, req).host = req.host
<1>1. CASE HostnameOf(req.host) \in DOMAIN p.proxies
  <2>1. p.proxies[HostnameOf(req.host)] \in ProxyRule
    BY <1>1, TrafficAssumption
  <2> QED
    BY <1>1, <2>1, RewrittenIsRequest DEF Outgoing
<1>2. CASE HostnameOf(req.host) \notin DOMAIN p.proxies
  BY <1>2 DEF Outgoing
<1> QED
  BY <1>1, <1>2

\* The host of what passes is one that can be written.
LEMMA PassesText ==
  ASSUME NEW p, NEW text, Passes(p, text)
  PROVE  /\ text \in HostText /\ Lower[text] # ""
         /\ HostnameOf(text) = Lower[text]
         /\ ShouldAllow(p, Lower[text])
  BY DEF Passes, HostnameOf

\* What arrives on a connection is a request, inside a CONNECT for its host.
LEMMA ArrivingIsRequest ==
  ASSUME IInv, NEW c \in Conn, NEW req \in Requests,
         conn[c].phase \in {"open", "read"}
  PROVE  /\ IsRequest(Arriving(c, req))
         /\ conn[c].phase = "read" => Arriving(c, req).host = conn[c].authority.host
<1>1. IsRequest(req)
  BY TrafficAssumption
<1>2. CASE conn[c].phase = "read"
  <2> DEFINE host == conn[c].authority.host
  <2>1. conn[c] \in Connection
    BY DEF IInv, TypeOK
  <2>2. conn[c].authority \in Authority
    BY <1>2, <2>1, ConnectionFields
  <2>3. host \in Option(HostText)
    BY <2>2 DEF Authority, Option
  <2> HIDE DEF host
  <2>4. Arriving(c, req) = [req EXCEPT !.host = host]
    BY <1>2 DEF Arriving, host
  <2>5. /\ req.query \in Query /\ IsHeaders(req.headers)
        /\ req.rebuilds \in BOOLEAN /\ req.dotted \in BOOLEAN
    BY <1>1 DEF IsRequest
  <2>6. [req EXCEPT !.host = host] =
          [host |-> host, headers |-> req.headers, query |-> req.query,
           rebuilds |-> req.rebuilds, dotted |-> req.dotted]
    <3>1. req = [host |-> req.host, headers |-> req.headers, query |-> req.query,
                 rebuilds |-> req.rebuilds, dotted |-> req.dotted]
      BY <1>1, RequestFields
    <3> QED
      BY <3>1
  <2>7. IsRequest(Arriving(c, req))
    BY <2>3, <2>4, <2>5, <2>6, IsRequestOf
  <2>8. Arriving(c, req).host = host
    BY <2>4, <2>6
  <2> QED
    BY <2>7, <2>8 DEF host
<1>3. CASE conn[c].phase # "read"
  BY <1>1, <1>3 DEF Arriving
<1> QED
  BY <1>2, <1>3

LEMMA IInvInit == Init => IInv
<1> SUFFICES ASSUME Init PROVE IInv
  OBVIOUS
<1>1. conn \in [Conn -> Connection] /\ \A c \in Conn : conn[c] = Fresh
  BY DEF Init, Connection
<1>2. \A c \in Conn : ConnSound(conn[c])
  BY <1>1 DEF ConnSound, Fresh
<1>3. cache \in Seq(Entry) /\ Len(cache) = 0 /\ DOMAIN cache = {}
  BY DEF Init
<1>4. Sound(cache) /\ Ordered(cache, since)
  BY <1>3, CapacityAssumption DEF Sound, Ordered
<1>5. last = Quiet /\ policy \in Policies /\ since = {}
  BY DEF Init
<1>6. LastSound
  BY <1>5 DEF LastSound, Quiet
<1> QED
  BY <1>1, <1>2, <1>3, <1>4, <1>5, <1>6 DEF IInv, TypeOK, IsDeparted

\* A step that changes one connection and nothing else of the invariant.
LEMMA ConnStep ==
  ASSUME IInv, NEW c \in Conn, NEW cn \in Connection, ConnSound(cn),
         conn' = [conn EXCEPT ![c] = cn], policy' = policy, last' = Quiet
  PROVE  /\ policy' \in Policies /\ conn' \in [Conn -> Connection]
         /\ \A d \in Conn : ConnSound(conn[d])'
         /\ LastSound' /\ IsDeparted(last)'
<1>1. conn \in [Conn -> Connection]
  BY DEF IInv, TypeOK
<1>2. \A d \in Conn : conn'[d] = IF d = c THEN cn ELSE conn[d]
  BY <1>1
<1>3. ASSUME NEW d \in Conn
      PROVE  ConnSound(conn[d])'
  <2>1. CASE d = c
    BY <1>2, <2>1 DEF ConnSound
  <2>2. CASE d # c
    BY <1>2, <2>2 DEF ConnSound, IInv
  <2> QED
    BY <2>1, <2>2
<1>4. LastSound' /\ IsDeparted(last)'
  BY DEF LastSound, IsDeparted, Quiet
<1> QED
  BY <1>1, <1>3, <1>4 DEF IInv, TypeOK

LEMMA Moves ==
  ASSUME IInv, NEW c \in Conn,
         NEW phase \in {"asked", "raw", "unknown", "read"},
         NEW authority \in Authority, NEW leaf,
         leaf = None \/ (phase = "read" /\ leaf \in Leaves),
         Passes(policy, authority.host),
         phase = "read" => Intercepts(policy, authority.host),
         phase = "raw" => ~Intercepts(policy, authority.host),
         leaf # None => Lower[leaf.name] = Lower[authority.host],
         Becomes(c, phase, authority, leaf), policy' = policy, last' = Quiet
  PROVE  /\ policy' \in Policies /\ conn' \in [Conn -> Connection]
         /\ \A d \in Conn : ConnSound(conn[d])'
         /\ LastSound' /\ IsDeparted(last)'
<1> DEFINE cn == [phase |-> phase, authority |-> authority, leaf |-> leaf]
<1>1. cn \in Connection
  BY ConnectionOf
<1>2. ConnSound(cn)
  BY DEF ConnSound
<1>3. conn' = [conn EXCEPT ![c] = cn]
  BY DEF Becomes
<1> HIDE DEF cn
<1> QED
  BY <1>1, <1>2, <1>3, ConnStep

\* A step that changes no connection.
LEMMA LastStep ==
  ASSUME IInv, UNCHANGED <<policy, conn, cache, since>>, IsDeparted(last)', LastSound'
  PROVE  IInv'
<1>1. \A c \in Conn : ConnSound(conn[c])'
  BY DEF IInv, ConnSound
<1> QED
  BY <1>1 DEF IInv, TypeOK, Ordered

LEMMA AtConn ==
  ASSUME IInv, NEW c \in Conn, conn[c].phase # "open"
  PROVE  /\ conn[c].authority \in Authority
         /\ conn[c].authority.host \in HostText
         /\ ConnSound(conn[c])
<1>1. conn[c] \in Connection /\ ConnSound(conn[c])
  BY DEF IInv, TypeOK
<1>2. conn[c].authority \in Authority
  BY <1>1, ConnectionFields
<1> QED
  BY <1>1, <1>2 DEF Authority

LEMMA IInvNext == IInv /\ [Next]_vars => IInv'
<1> SUFFICES ASSUME IInv, [Next]_vars PROVE IInv'
  OBVIOUS
<1>1. ASSUME NEW c \in Conn, NEW authority \in Authority, Connect(c, authority)
      PROVE  IInv'
  <2>1. /\ Passes(policy, authority.host) /\ Becomes(c, "asked", authority, None)
        /\ policy' = policy /\ last' = Quiet /\ UNCHANGED <<cache, since>>
    BY <1>1 DEF Connect
  <2>2. /\ policy' \in Policies /\ conn' \in [Conn -> Connection]
        /\ \A d \in Conn : ConnSound(conn[d])'
        /\ LastSound' /\ IsDeparted(last)'
    BY <2>1, Moves
  <2> QED
    BY <2>1, <2>2 DEF IInv, TypeOK
<1>2. ASSUME NEW c \in Conn, NEW text \in Option(HostText), Refuse(c, text)
      PROVE  IInv'
  <2>1. last' = [kind |-> "refused", host |-> text] /\ UNCHANGED <<policy, conn, cache, since>>
    BY <1>2 DEF Refuse
  <2>2. IsDeparted(last)' /\ LastSound'
    BY <2>1 DEF IsDeparted, LastSound
  <2> QED
    BY <2>1, <2>2, LastStep
<1>3. ASSUME NEW c \in Conn, Decrypt(c)
      PROVE  IInv'
  <2> DEFINE a == conn[c].authority
             leaf == LeafFor(cache, a)
  <2>1. /\ conn[c].phase = "asked" /\ Intercepts(policy, a.host)
        /\ Becomes(c, "read", a, leaf) /\ cache' = CacheAfter(cache, a)
        /\ policy' = policy /\ last' = Quiet /\ since' = SinceAfter(KeyOf(a))
    BY <1>3 DEF Decrypt
  <2>2. a \in Authority /\ Passes(policy, a.host)
    BY <2>1, AtConn DEF ConnSound
  <2>3. /\ leaf \in Leaves /\ Lower[leaf.name] = Lower[a.host]
        /\ Sound(CacheAfter(cache, a))
        /\ Ordered(CacheAfter(cache, a), SinceAfter(KeyOf(a)))
        /\ SinceAfter(KeyOf(a)) \subseteq Key \X Key
    BY <2>2, Signed DEF IInv, TypeOK
  <2> HIDE DEF a, leaf
  <2>4. /\ policy' \in Policies /\ conn' \in [Conn -> Connection]
        /\ \A d \in Conn : ConnSound(conn[d])'
        /\ LastSound' /\ IsDeparted(last)'
    BY <2>1, <2>2, <2>3, Moves
  <2>5. /\ Sound(cache') /\ cache' \in Seq(Entry) /\ Ordered(cache', since')
        /\ since' \subseteq Key \X Key
    BY <2>1, <2>3 DEF Sound
  <2> QED
    BY <2>4, <2>5 DEF IInv, TypeOK
<1>4. ASSUME NEW c \in Conn, ReadPlain(c)
      PROVE  IInv'
  <2> DEFINE a == conn[c].authority
  <2>1. /\ conn[c].phase = "asked" /\ Intercepts(policy, a.host)
        /\ Becomes(c, "read", a, None) /\ UNCHANGED <<cache, since>>
        /\ policy' = policy /\ last' = Quiet
    BY <1>4 DEF ReadPlain
  <2>2. a \in Authority /\ Passes(policy, a.host)
    BY <2>1, AtConn DEF ConnSound
  <2> HIDE DEF a
  <2>3. /\ policy' \in Policies /\ conn' \in [Conn -> Connection]
        /\ \A d \in Conn : ConnSound(conn[d])'
        /\ LastSound' /\ IsDeparted(last)'
    BY <2>1, <2>2, Moves
  <2> QED
    BY <2>1, <2>3 DEF IInv, TypeOK
<1>5. ASSUME NEW c \in Conn, NEW spoke \in {"tls", "get", "other"}, Tunnel(c, spoke)
      PROVE  IInv'
  <2> DEFINE a == conn[c].authority
             phase == IF spoke = "other" THEN "unknown" ELSE "raw"
  <2>1. /\ conn[c].phase = "asked" /\ phase \in {"raw", "unknown"}
        /\ phase = "raw" => ~Intercepts(policy, a.host)
        /\ Becomes(c, phase, a, None) /\ UNCHANGED <<cache, since>>
        /\ policy' = policy /\ last' = Quiet
    BY <1>5 DEF Tunnel
  <2>2. a \in Authority /\ Passes(policy, a.host)
    BY <2>1, AtConn DEF ConnSound
  <2> HIDE DEF a, phase
  <2>3. /\ policy' \in Policies /\ conn' \in [Conn -> Connection]
        /\ \A d \in Conn : ConnSound(conn[d])'
        /\ LastSound' /\ IsDeparted(last)'
    BY <2>1, <2>2, Moves
  <2> QED
    BY <2>1, <2>3 DEF IInv, TypeOK
<1>6. ASSUME NEW c \in Conn, Relay(c)
      PROVE  IInv'
  <2>1. /\ conn[c].phase \in {"raw", "unknown"}
        /\ last' = [kind |-> "raw", host |-> conn[c].authority.host,
                    unknown |-> conn[c].phase = "unknown"]
        /\ UNCHANGED <<policy, conn, cache, since>>
    BY <1>6 DEF Relay
  <2>2. conn[c].authority.host \in HostText /\ ConnSound(conn[c])
    BY <2>1, AtConn
  <2>3. /\ last'.kind = "raw" /\ last'.host = conn[c].authority.host
        /\ last'.unknown = (conn[c].phase = "unknown")
    BY <2>1
  <2>4. IsDeparted(last)'
    BY <2>1, <2>2 DEF IsDeparted
  <2>5. LastSound'
    BY <2>1, <2>2, <2>3 DEF LastSound, ConnSound
  <2> QED
    BY <2>1, <2>4, <2>5, LastStep
<1>7. ASSUME NEW c \in Conn, NEW req \in Requests, Forward(c, req)
      PROVE  IInv'
  <2> DEFINE given == Arriving(c, req)
             sent == Outgoing(policy, given)
  <2>1. /\ conn[c].phase \in {"open", "read"} /\ Passes(policy, given.host)
        /\ last' = [kind |-> "request", host |-> given.host, given |-> given,
                    sent |-> sent]
        /\ UNCHANGED <<policy, conn, cache, since>>
    BY <1>7 DEF Forward
  <2>2. IsRequest(given)
    BY <2>1, ArrivingIsRequest
  <2>3. policy \in Policies
    BY DEF IInv, TypeOK
  <2> HIDE DEF given
  <2>4. IsRequest(sent)
    BY <2>2, <2>3, OutgoingIsRequest
  <2>5. given.host \in HostText
    BY <2>1, PassesText
  <2>6. LastSound'
    BY <2>1 DEF LastSound
  <2> HIDE DEF sent
  <2>7. /\ IsMap(last', {"kind", "host", "given", "sent"})
        /\ last'.kind = "request" /\ last'.host = given.host
        /\ last'.given = given /\ last'.sent = sent
    BY <2>1 DEF IsMap
  <2>8. IsDeparted(last)'
    BY <2>2, <2>4, <2>5, <2>7 DEF IsDeparted
  <2> QED
    BY <2>1, <2>6, <2>8, LastStep
<1>8. ASSUME NEW c \in Conn, Close(c)
      PROVE  IInv'
  <2>1. /\ conn' = [conn EXCEPT ![c] = Fresh] /\ last' = Quiet
        /\ policy' = policy /\ UNCHANGED <<cache, since>>
    BY <1>8 DEF Close
  <2>2. Fresh \in Connection /\ ConnSound(Fresh)
    BY DEF Connection, ConnSound, Fresh
  <2>3. /\ policy' \in Policies /\ conn' \in [Conn -> Connection]
        /\ \A d \in Conn : ConnSound(conn[d])'
        /\ LastSound' /\ IsDeparted(last)'
    BY <2>1, <2>2, ConnStep
  <2> QED
    BY <2>1, <2>3 DEF IInv, TypeOK
<1>9. CASE UNCHANGED vars
  BY <1>9 DEF vars, IInv, TypeOK, ConnSound, LastSound, IsDeparted, Ordered
<1> QED
  BY <1>1, <1>2, <1>3, <1>4, <1>5, <1>6, <1>7, <1>8, <1>9 DEF Next

LEMMA IInvAlways == Spec => []IInv
  BY IInvInit, IInvNext, PTL DEF Spec

-----------------------------------------------------------------------------
\* Every variable keeps its type: what the proxy sends is a request again,
\* whatever is injected into it.
THEOREM TypeCorrect == Spec => []TypeOK
<1>1. IInv => TypeOK
  BY DEF IInv
<1> QED
  BY <1>1, IInvAlways, PTL

\* No host is reached that its rule, or the public web's default, denies.
THEOREM DeniedNeverReached == Spec => []DeniedUnreached
<1>1. IInv => DeniedUnreached
  <2> SUFFICES ASSUME IInv, last.kind \in {"request", "raw"}
               PROVE  LET host == Lower[last.host]
                          word == IF host \in DOMAIN policy.proxies
                                    THEN policy.proxies[host].action
                                    ELSE policy.public_web
                      IN  host # "" /\ word = "allow"
    BY Zenon DEF DeniedUnreached
  <2>1. Passes(policy, last.host)
    BY DEF IInv, LastSound
  <2>2. Lower[last.host] # "" /\ ShouldAllow(policy, Lower[last.host])
    BY <2>1, PassesText
  <2> QED
    BY <2>2 DEF ShouldAllow
<1> QED
  BY <1>1, IInvAlways, PTL

\* What is read has something to inject, and what has and is not read spoke
\* neither TLS nor GET.
THEOREM ReadOnlyToInject == Spec => []ReadIffInjecting
<1> DEFINE Injecting(text) ==
             /\ Lower[text] \in DOMAIN policy.proxies
             /\ HasInjection(policy.proxies[Lower[text]])
<1>1. ASSUME NEW text, Passes(policy, text)
      PROVE  Intercepts(policy, text) <=> Injecting(text)
  <2>1. /\ HostnameOf(text) = Lower[text] /\ ShouldAllow(policy, Lower[text])
        /\ HostnameOf(text) # None
    BY <1>1, PassesText DEF Passes
  <2> QED
    BY <2>1 DEF Intercepts, ShouldMitm, ShouldAllow
<1>2. IInv => ReadIffInjecting
  <2> SUFFICES ASSUME IInv PROVE ReadIffInjecting
    OBVIOUS
  <2>1. ASSUME NEW c \in Conn, conn[c].phase = "read"
        PROVE  Injecting(conn[c].authority.host)
    <3>1. /\ Passes(policy, conn[c].authority.host)
          /\ Intercepts(policy, conn[c].authority.host)
      BY <2>1, AtConn DEF ConnSound
    <3> QED
      BY <1>1, <3>1
  <2>2. ASSUME last.kind = "raw"
        PROVE  last.unknown \/ ~Injecting(last.host)
    <3>1. /\ Passes(policy, last.host)
          /\ last.unknown \/ ~Intercepts(policy, last.host)
      BY <2>2 DEF IInv, LastSound
    <3> QED
      BY <1>1, <3>1
  <2> QED
    BY <2>1, <2>2 DEF ReadIffInjecting
<1> QED
  BY <1>2, IInvAlways, PTL

\* Each leaf is for the host of the connection or of the cache entry that has
\* it, and the cache keeps to its capacity.
THEOREM LeavesAreTheHosts == Spec => []LeafIsTheHosts
<1>1. IInv => LeafIsTheHosts
  BY DEF IInv, Sound, EntrySound, ConnSound, LeafIsTheHosts, CacheSound
<1> QED
  BY <1>1, IInvAlways, PTL

\* Only the least recently used entry of a full cache goes, for a new one,
\* since the places of the cache are the order of the last uses; and no leaf
\* that is cached is replaced by another.
THEOREM OnlyOldestGoes == Spec => OldestGoes
<1> DEFINE Goes(i) ==
             \/ cache[i] \in Range(cache')
             \/ /\ Len(cache) = Capacity
                /\ cache'[1].key \notin {cache[j].key : j \in DOMAIN cache}
                /\ \A j \in DOMAIN cache \ {i} :
                     /\ cache[j] \in Range(cache')
                     /\ <<cache[j].key, cache[i].key>> \in since
<1>1. IInv /\ [Next]_vars => [\A i \in DOMAIN cache : Goes(i)]_vars
  <2> SUFFICES ASSUME IInv, [Next]_vars, NEW i \in DOMAIN cache PROVE Goes(i)
    OBVIOUS
  <2>1. Keeps(cache, cache')
    <3>1. CASE cache' = cache
      BY <3>1 DEF Keeps, Range
    <3>2. ASSUME NEW c \in Conn, Decrypt(c)
          PROVE  Keeps(cache, cache')
      <4>1. /\ conn[c].phase = "asked"
            /\ cache' = CacheAfter(cache, conn[c].authority)
        BY <3>2 DEF Decrypt
      <4>2. /\ conn[c].authority \in Authority /\ Sound(cache)
            /\ since \subseteq Key \X Key /\ Ordered(cache, since)
        BY <4>1, AtConn DEF IInv, TypeOK
      <4> QED
        BY <4>1, <4>2, Signed
    <3>3. CASE cache' # cache
      BY <3>2, <3>3 DEF Next, Connect, Refuse, ReadPlain, Tunnel, Relay, Forward,
                        Close, vars
    <3> QED
      BY <3>1, <3>3
  <2>2. Len(cache) \in Nat /\ DOMAIN cache = 1 .. Len(cache)
    BY Element DEF IInv, Sound
  <2>3. CASE cache[i] \in Range(cache')
    BY <2>3
  <2>4. CASE cache[i] \notin Range(cache')
    <3>1. /\ Len(cache) = Capacity /\ i = Capacity
          /\ cache'[1].key \notin {cache[j].key : j \in DOMAIN cache}
          /\ \A j \in DOMAIN cache \ {i} : cache[j] \in Range(cache')
      BY <2>1, <2>4 DEF Keeps
    <3>2. ASSUME NEW j \in DOMAIN cache \ {i}
          PROVE  <<cache[j].key, cache[i].key>> \in since
      <4>1. j < i
        BY <2>2, <3>1, CapacityAssumption
      <4> QED
        BY <4>1 DEF IInv, Ordered
    <3> QED
      BY <3>1, <3>2
  <2> QED
    BY <2>3, <2>4
<1> QED
  BY <1>1, IInvAlways, PTL DEF Spec, OldestGoes

-----------------------------------------------------------------------------
(* Whose values a request carries.                                         *)

GivesAuth(rule, name) ==
  /\ name = "authorization"
  /\ rule.auth # None
  /\ IsSendable(AuthValue(rule.auth))

GivesTexts(rule, name) ==
  \E i \in DOMAIN rule.headers : GivesText(rule.headers[i], name)

TextSent(rule, req, name) ==
  \E i \in DOMAIN rule.headers :
    /\ GivesText(rule.headers[i], name)
    /\ WithAuth(rule, req)[name] = <<TextValue(rule.headers[i].item)>>

\* Of each header the auth's value, else a configured one, else what was given.
LEMMA SentHeaders ==
  ASSUME NEW rule \in ProxyRule, NEW req, IsRequest(req), NEW name
  PROVE  /\ name \in DOMAIN WithAuth(rule, req) <=>
              \/ GivesAuth(rule, name) \/ GivesTexts(rule, name)
              \/ name \in DOMAIN req.headers
         /\ GivesAuth(rule, name) =>
              WithAuth(rule, req)[name] = <<AuthValue(rule.auth)>>
         /\ ~GivesAuth(rule, name) /\ GivesTexts(rule, name) =>
              TextSent(rule, req, name)
         /\ /\ ~GivesAuth(rule, name) /\ ~GivesTexts(rule, name)
            /\ name \in DOMAIN req.headers
            => WithAuth(rule, req)[name] = req.headers[name]
<1> DEFINE texts == LastEntries(Inserts(rule.headers))
           mid == WithTexts(rule, req)
           sent == WithAuth(rule, req)
           auth == [n \in {"authorization"} |-> <<AuthValue(rule.auth)>>]
           given == rule.auth # None /\ IsSendable(AuthValue(rule.auth))
<1>1. rule.headers \in Headers
  BY RuleFields
<1>2. /\ name \in DOMAIN texts <=> GivesTexts(rule, name)
      /\ name \in DOMAIN texts =>
           \E i \in DOMAIN rule.headers :
             /\ GivesText(rule.headers[i], name)
             /\ texts[name] = <<TextValue(rule.headers[i].item)>>
  BY <1>1, SentTexts DEF GivesTexts
<1> HIDE DEF texts
<1>3. mid = Upsert(req.headers, texts)
  BY DEF WithTexts, texts
<1>4. /\ DOMAIN mid = DOMAIN req.headers \cup DOMAIN texts
      /\ name \in DOMAIN texts => mid[name] = texts[name]
      /\ name \in DOMAIN req.headers \ DOMAIN texts => mid[name] = req.headers[name]
  BY <1>3 DEF Upsert
<1> HIDE DEF mid
<1>5. sent = IF given THEN Upsert(mid, auth) ELSE mid
  BY DEF WithAuth, mid
<1>6. /\ DOMAIN auth = {"authorization"}
      /\ auth["authorization"] = <<AuthValue(rule.auth)>>
  OBVIOUS
<1> HIDE DEF auth, sent, given
<1>7. CASE given
  <2>1. /\ DOMAIN sent = DOMAIN mid \cup {"authorization"}
        /\ name = "authorization" => sent[name] = <<AuthValue(rule.auth)>>
        /\ name \in DOMAIN mid /\ name # "authorization" => sent[name] = mid[name]
    BY <1>5, <1>6, <1>7 DEF Upsert
  <2>2. GivesAuth(rule, name) <=> name = "authorization"
    BY <1>7 DEF GivesAuth, given
  <2> QED
    BY <1>2, <1>4, <2>1, <2>2 DEF sent, TextSent
<1>8. CASE ~given
  <2>1. ~GivesAuth(rule, name) /\ sent = mid
    BY <1>5, <1>8 DEF GivesAuth, given
  <2> QED
    BY <1>2, <1>4, <2>1 DEF sent, TextSent
<1> QED
  BY <1>7, <1>8

OwnValue(rule, value) ==
  \/ \E i \in DOMAIN rule.headers : TextValue(rule.headers[i].item) = value
  \/ rule.auth # None /\ AuthValue(rule.auth) = value

GivenValue(req, name, value) ==
  name \in DOMAIN req.headers /\ value \in Range(req.headers[name])

LEMMA CarriedValue ==
  ASSUME NEW rule \in ProxyRule, NEW req, IsRequest(req),
         NEW name \in DOMAIN WithAuth(rule, req),
         NEW i \in DOMAIN WithAuth(rule, req)[name]
  PROVE  \/ GivenValue(req, name, WithAuth(rule, req)[name][i])
         \/ OwnValue(rule, WithAuth(rule, req)[name][i])
<1> DEFINE values == WithAuth(rule, req)[name]
<1>1. CASE GivesAuth(rule, name)
  <2>1. values = <<AuthValue(rule.auth)>>
    BY <1>1, SentHeaders
  <2>2. values[i] = AuthValue(rule.auth)
    BY <2>1
  <2> QED
    BY <1>1, <2>2 DEF OwnValue, GivesAuth
<1>2. CASE ~GivesAuth(rule, name) /\ GivesTexts(rule, name)
  <2>0. TextSent(rule, req, name)
    BY <1>2, SentHeaders
  <2>1. PICK k \in DOMAIN rule.headers : values = <<TextValue(rule.headers[k].item)>>
    BY <2>0 DEF TextSent
  <2>2. values[i] = TextValue(rule.headers[k].item)
    BY <2>1
  <2> QED
    BY <2>2 DEF OwnValue
<1>3. CASE ~GivesAuth(rule, name) /\ ~GivesTexts(rule, name)
  <2>1. name \in DOMAIN req.headers /\ values = req.headers[name]
    BY <1>3, SentHeaders
  <2> QED
    BY <2>1 DEF GivenValue, Range
<1> QED
  BY <1>1, <1>2, <1>3

\* What an injected request carries that it was not given is of the rule of
\* its own host.
THEOREM SecretsNeverStray == Spec => []SecretsStayHome
<1>1. ASSUME IInv, last.kind = "request"
      PROVE  LET host == Lower[last.host]
                 sent == last.sent
                 given == last.given
                 rule == policy.proxies[host]
             IN  \/ sent = given
                 \/ /\ host \in DOMAIN policy.proxies /\ rule \in ProxyRule
                    /\ IsRequest(given)
                    /\ sent.headers = WithAuth(rule, given)
                    /\ sent.query = WithParams(rule, given)
  <2> DEFINE host == Lower[last.host]
             sent == last.sent
             given == last.given
             rule == policy.proxies[host]
  <2>1. /\ Passes(policy, last.host) /\ given.host = last.host
        /\ sent = Outgoing(policy, given) /\ IsRequest(given)
        /\ policy \in Policies
    BY <1>1 DEF IInv, LastSound, TypeOK, IsDeparted, Quiet
  <2>2. HostnameOf(given.host) = host
    BY <2>1, PassesText
  <2>3. CASE host \in DOMAIN policy.proxies /\ HasInjection(rule)
    <3>1. sent = Applied(rule, given)
      BY <2>1, <2>2, <2>3 DEF Outgoing, Rewritten
    <3>2. rule \in ProxyRule
      BY <2>1, <2>3, TrafficAssumption
    <3>3. /\ sent.headers = WithAuth(rule, given)
          /\ sent.query = WithParams(rule, given)
      <4> HIDE DEF sent, rule, given
      <4>1. sent = [host |-> given.host, headers |-> WithAuth(rule, given),
                    query |-> WithParams(rule, given),
                    rebuilds |-> given.rebuilds,
                    dotted |-> IF given.rebuilds THEN FALSE ELSE given.dotted]
        BY <2>1, <3>1, AppliedIs
      <4> QED
        BY <4>1
    <3> QED
      BY <2>1, <2>3, <3>2, <3>3
  <2>4. CASE ~(host \in DOMAIN policy.proxies /\ HasInjection(rule))
    BY <2>1, <2>2, <2>4 DEF Outgoing, Rewritten
  <2> QED
    BY <2>3, <2>4
<1>2. IInv => SecretsStayHome
  <2> DEFINE host == Lower[last.host]
             sent == last.sent
             given == last.given
             rule == policy.proxies[host]
             Own(value) ==
               /\ host \in DOMAIN policy.proxies
               /\ \/ \E i \in DOMAIN rule.headers :
                       TextValue(rule.headers[i].item) = value
                  \/ rule.auth # None /\ AuthValue(rule.auth) = value
             FromGiven(n, i) ==
               n \in DOMAIN given.headers /\ sent.headers[n][i] \in Range(given.headers[n])
  <2> SUFFICES ASSUME IInv, last.kind = "request"
               PROVE  /\ \A n \in DOMAIN sent.headers :
                           \A i \in DOMAIN sent.headers[n] :
                             FromGiven(n, i) \/ Own(sent.headers[n][i])
                      /\ sent.query # given.query =>
                           /\ host \in DOMAIN policy.proxies
                           /\ sent.query = given.query \o rule.params
    BY DEF SecretsStayHome
  <2>1. CASE sent = given
    BY <2>1 DEF Range
  <2>2. CASE /\ host \in DOMAIN policy.proxies /\ rule \in ProxyRule
             /\ IsRequest(given)
             /\ sent.headers = WithAuth(rule, given)
             /\ sent.query = WithParams(rule, given)
    <3> HIDE DEF host, sent, given, rule
    <3>1. ASSUME NEW n \in DOMAIN sent.headers, NEW i \in DOMAIN sent.headers[n]
          PROVE  FromGiven(n, i) \/ Own(sent.headers[n][i])
      BY <2>2, <3>1, CarriedValue DEF OwnValue, GivenValue
    <3>2. sent.query # given.query =>
            host \in DOMAIN policy.proxies /\ sent.query = given.query \o rule.params
      BY <2>2 DEF WithParams
    <3> QED
      BY <3>1, <3>2
  <2> QED
    BY <1>1, <2>1, <2>2
<1> QED
  BY <1>2, IInvAlways, PTL

-----------------------------------------------------------------------------
(* The refinement.                                                         *)

\* What two lists of parameters have, laid end to end.
LEMMA PairsOfBoth ==
  ASSUME NEW q \in Query, NEW r \in Query
  PROVE  Promise!Pairs(q \o r) = Promise!Pairs(q) \cup Promise!Pairs(r)
<1> DEFINE P == [key : Word, item : Value]
<1>1. q \in Seq(P) /\ r \in Seq(P)
  BY DEF Query
<1> HIDE DEF P
<1>2. /\ Len(q) \in Nat /\ DOMAIN q = 1 .. Len(q)
      /\ Len(r) \in Nat /\ DOMAIN r = 1 .. Len(r)
      /\ DOMAIN (q \o r) = 1 .. Len(q) + Len(r)
      /\ \A i \in 1 .. Len(q) + Len(r) :
           (q \o r)[i] = IF i <= Len(q) THEN q[i] ELSE r[i - Len(q)]
  BY <1>1
<1>3. ASSUME NEW i \in 1 .. Len(q) + Len(r)
      PROVE  (q \o r)[i] \in Promise!Pairs(q) \cup Promise!Pairs(r)
  <2>1. CASE i <= Len(q)
    BY <1>2, <2>1 DEF Promise!Pairs
  <2>2. CASE ~(i <= Len(q))
    <3>1. i - Len(q) \in 1 .. Len(r)
      BY <1>2, <2>2
    <3> QED
      BY <1>2, <2>2, <3>1 DEF Promise!Pairs
  <2> QED
    BY <2>1, <2>2
<1>4. ASSUME NEW i \in 1 .. Len(q)
      PROVE  q[i] \in Promise!Pairs(q \o r)
  <2>1. i \in 1 .. Len(q) + Len(r) /\ (q \o r)[i] = q[i]
    BY <1>2
  <2> QED
    BY <1>2, <2>1 DEF Promise!Pairs
<1>5. ASSUME NEW i \in 1 .. Len(r)
      PROVE  r[i] \in Promise!Pairs(q \o r)
  <2>1. i + Len(q) \in 1 .. Len(q) + Len(r) /\ (q \o r)[i + Len(q)] = r[i]
    BY <1>2
  <2> QED
    BY <1>2, <2>1 DEF Promise!Pairs
<1> QED
  BY <1>2, <1>3, <1>4, <1>5 DEF Promise!Pairs

\* Of each header the auth's value, else a configured one, else what was given;
\* of the query, the client's parameters and the rule's.
LEMMA CarriesWhatIsGiven ==
  ASSUME NEW rule \in ProxyRule, NEW req, IsRequest(req),
         NEW sent, sent = Applied(rule, req)
  PROVE  Promise!Carries(rule, req, sent)
<1>1. /\ sent.headers = WithAuth(rule, req)
      /\ sent.query = WithParams(rule, req)
      /\ sent.host = req.host
  <2> DEFINE D == IF req.rebuilds THEN FALSE ELSE req.dotted
  <2>1. sent = [host |-> req.host, headers |-> WithAuth(rule, req),
                query |-> WithParams(rule, req), rebuilds |-> req.rebuilds,
                dotted |-> D]
    BY AppliedIs
  <2> HIDE DEF D
  <2> QED
    BY <2>1
<1>2. ASSUME NEW name \in Word
      PROVE  IF Promise!Given(rule, name) = {}
               THEN Promise!ValuesAt(sent, name) = Promise!ValuesAt(req, name)
               ELSE \E v \in Promise!Given(rule, name) :
                      Promise!ValuesAt(sent, name) = <<v>>
  <2>1. name # None
    BY NoneAssumption
  <2>2. CASE GivesAuth(rule, name)
    <3>1. Promise!Given(rule, name) = {AuthValue(rule.auth)}
      BY <2>2 DEF GivesAuth, Promise!Given, Promise!GivenAuth, Promise!AuthValue,
                  AuthValue, Promise!IsSendable, IsSendable
    <3>2. name \in DOMAIN WithAuth(rule, req)
          /\ WithAuth(rule, req)[name] = <<AuthValue(rule.auth)>>
      BY <2>2, SentHeaders
    <3>3. Promise!ValuesAt(sent, name) = <<AuthValue(rule.auth)>>
      BY <1>1, <3>2 DEF Promise!ValuesAt
    <3> QED
      BY <3>1, <3>3
  <2>3. ASSUME ~GivesAuth(rule, name)
        PROVE  Promise!Given(rule, name) =
                 {TextValue(rule.headers[i].item) :
                    i \in {j \in DOMAIN rule.headers : GivesText(rule.headers[j], name)}}
    <3>1. Promise!Given(rule, name) = Promise!GivenTexts(rule, name)
      BY <2>3 DEF GivesAuth, Promise!Given, Promise!GivenAuth, Promise!AuthValue,
                  AuthValue, Promise!IsSendable, IsSendable
    <3> QED
      BY <2>1, <3>1 DEF Promise!GivenTexts, GivesText, Promise!TextValue, TextValue,
                        Promise!IsSendable, IsSendable
  <2>4. CASE ~GivesAuth(rule, name) /\ GivesTexts(rule, name)
    <3>1. TextSent(rule, req, name) /\ name \in DOMAIN WithAuth(rule, req)
      BY <2>4, SentHeaders
    <3>2. PICK i \in DOMAIN rule.headers :
            /\ GivesText(rule.headers[i], name)
            /\ WithAuth(rule, req)[name] = <<TextValue(rule.headers[i].item)>>
      BY <3>1 DEF TextSent
    <3>3. Promise!ValuesAt(sent, name) = <<TextValue(rule.headers[i].item)>>
      BY <1>1, <3>1, <3>2 DEF Promise!ValuesAt
    <3>4. TextValue(rule.headers[i].item) \in Promise!Given(rule, name)
      BY <2>3, <2>4, <3>2
    <3> QED
      BY <3>3, <3>4
  <2>5. CASE ~GivesAuth(rule, name) /\ ~GivesTexts(rule, name)
    <3>1. Promise!Given(rule, name) = {}
      BY <2>3, <2>5 DEF GivesTexts
    <3>2. /\ name \in DOMAIN WithAuth(rule, req) <=> name \in DOMAIN req.headers
          /\ name \in DOMAIN req.headers =>
               WithAuth(rule, req)[name] = req.headers[name]
      BY <2>5, SentHeaders
    <3>3. Promise!ValuesAt(sent, name) = Promise!ValuesAt(req, name)
      BY <1>1, <3>2 DEF Promise!ValuesAt
    <3> QED
      BY <3>1, <3>3
  <2> QED
    BY <2>2, <2>4, <2>5
<1>3. Promise!CarriesParams(IF req.rebuilds THEN Promise!Pairs(rule.params) ELSE {},
                             Promise!Pairs(req.query), Promise!Pairs(sent.query))
  <2>1. CASE req.rebuilds
    <3>1. sent.query = req.query \o rule.params
      BY <1>1, <2>1 DEF WithParams
    <3>2. req.query \in Query /\ rule.params \in Query
      BY RuleFields DEF IsRequest
    <3>3. Promise!Pairs(sent.query) =
            Promise!Pairs(req.query) \cup Promise!Pairs(rule.params)
      BY <3>1, <3>2, PairsOfBoth
    <3> QED
      BY <2>1, <3>3 DEF Promise!CarriesParams
  <2>2. CASE ~req.rebuilds
    <3>1. sent.query = req.query
      BY <1>1, <2>2 DEF WithParams
    <3> QED
      BY <2>2, <3>1 DEF Promise!CarriesParams
  <2> QED
    BY <2>1, <2>2
<1> QED
  BY <1>1, <1>2, <1>3 DEF Promise!Carries

\* So does whatever passes.
LEMMA LeavesAsPromised ==
  ASSUME NEW p \in Policies, NEW req, IsRequest(req), HostnameOf(req.host) # None
  PROVE  Promise!Leaves(p, HostnameOf(req.host), req, Outgoing(p, req))
<1> DEFINE host == HostnameOf(req.host)
           rule == p.proxies[host]
<1>1. CASE host \in DOMAIN p.proxies
  <2>1. rule \in ProxyRule
    BY <1>1, TrafficAssumption
  <2>2. Outgoing(p, req) = Rewritten(rule, req)
    BY <1>1 DEF Outgoing
  <2>3. Promise!Injects(p, host) <=> HasInjection(rule)
    BY <1>1 DEF Promise!Injects, Promise!HasInjection, HasInjection
  <2>4. CASE HasInjection(rule)
    <3>1. Promise!Carries(rule, req, Outgoing(p, req))
      BY <2>1, <2>2, <2>4, CarriesWhatIsGiven DEF Rewritten
    <3> QED
      BY <2>3, <2>4, <3>1 DEF Promise!Leaves
  <2>5. CASE ~HasInjection(rule)
    BY <2>2, <2>3, <2>5 DEF Promise!Leaves, Rewritten
  <2> QED
    BY <2>4, <2>5
<1>2. CASE host \notin DOMAIN p.proxies
  BY <1>2 DEF Promise!Leaves, Promise!Injects, Outgoing
<1> QED
  BY <1>1, <1>2

Accesses == [d \in Conn |-> AccessOf(conn[d])]

\* A step of one connection is a step of its access.
LEMMA AccessMoves ==
  ASSUME conn \in [Conn -> Connection], NEW c \in Conn, NEW cn,
         conn' = [conn EXCEPT ![c] = cn]
  PROVE  Accesses' = [Accesses EXCEPT ![c] = AccessOf(cn)]
  BY DEF Accesses

LEMMA PromiseInit == Init => Promise!Init
<1> SUFFICES ASSUME Init PROVE Promise!Init
  OBVIOUS
<1>1. \A c \in Conn : AccessOf(conn[c]) = [kind |-> "none", host |-> None]
  BY DEF Init, Fresh, AccessOf
<1>2. OutOf(last) = [kind |-> "quiet"]
  BY DEF Init, Quiet, OutOf
<1> QED
  BY <1>1, <1>2 DEF Init, Promise!Init, Promise!NoAccess, Promise!Quiet

\* The access that the phase of a connection is.
LEMMA AccessIs ==
  ASSUME NEW phase, NEW authority, NEW leaf
  PROVE  LET cn == [phase |-> phase, authority |-> authority, leaf |-> leaf]
             host == HostnameOf(authority.host)
         IN  /\ phase = "asked" => AccessOf(cn) = [kind |-> "granted", host |-> host]
             /\ phase = "read" => AccessOf(cn) = [kind |-> "read", host |-> host]
             /\ phase \in {"raw", "unknown"} =>
                  AccessOf(cn) = [kind |-> "raw", host |-> host]
  BY DEF AccessOf

\* The access at a connection that has asked, and its host's name.
LEMMA AccessAt ==
  ASSUME IInv, NEW c \in Conn, conn[c].phase # "open"
  PROVE  /\ Accesses[c].host = HostnameOf(conn[c].authority.host)
         /\ Accesses[c].host \in Hostname
         /\ conn[c].phase = "asked" => Accesses[c].kind = "granted"
         /\ conn[c].phase \in {"raw", "unknown"} => Accesses[c].kind = "raw"
         /\ conn[c].phase = "read" => Accesses[c].kind = "read"
<1> DEFINE host == HostnameOf(conn[c].authority.host)
<1>1. Passes(policy, conn[c].authority.host)
  BY AtConn DEF ConnSound
<1>2. host \in Hostname
  BY <1>1, PassesText DEF Hostname
<1>3. Accesses[c] = AccessOf(conn[c])
  BY DEF Accesses
<1> HIDE DEF host
<1>4. /\ AccessOf(conn[c]).host = host
      /\ conn[c].phase = "asked" => AccessOf(conn[c]).kind = "granted"
      /\ conn[c].phase \in {"raw", "unknown"} => AccessOf(conn[c]).kind = "raw"
      /\ conn[c].phase = "read" => AccessOf(conn[c]).kind = "read"
  BY DEF AccessOf, host
<1> QED
  BY <1>2, <1>3, <1>4 DEF host

\* A connection gets an access to its host.
LEMMA NowAccess ==
  ASSUME IInv, NEW c \in Conn, NEW phase, NEW authority, NEW leaf, NEW kind,
         Becomes(c, phase, authority, leaf),
         \/ phase = "asked" /\ kind = "granted"
         \/ phase = "read" /\ kind = "read"
         \/ phase \in {"raw", "unknown"} /\ kind = "raw"
  PROVE  Promise!Now(c, kind, HostnameOf(authority.host))
<1> DEFINE cn == [phase |-> phase, authority |-> authority, leaf |-> leaf]
<1>1. Accesses' = [Accesses EXCEPT ![c] = AccessOf(cn)]
  BY AccessMoves DEF IInv, TypeOK, Becomes
<1>2. AccessOf(cn) = [kind |-> kind, host |-> HostnameOf(authority.host)]
  BY AccessIs, ZenonT(40)
<1> HIDE DEF cn
<1> QED
  BY <1>1, <1>2 DEF Promise!Now, Accesses

LEMMA OutQuiet == OutOf(Quiet) = [kind |-> "quiet"]
  BY DEF OutOf, Quiet

\* Every step of the proxy is a step of the promise, or none.
LEMMA PromiseNext == IInv /\ [Next]_vars => [Promise!Next]_(Promise!vars)
<1> SUFFICES ASSUME IInv, [Next]_vars
             PROVE  Promise!Next \/ UNCHANGED Promise!vars
  OBVIOUS
<1>1. ASSUME NEW c \in Conn, NEW authority \in Authority, Connect(c, authority)
      PROVE  Promise!Next
  <2> DEFINE host == HostnameOf(authority.host)
  <2>1. Promise!Now(c, "granted", host)
    BY <1>1, NowAccess DEF Connect
  <2>2. Accesses[c] = [kind |-> "none", host |-> None]
    BY <1>1 DEF Connect, Accesses, AccessOf
  <2>3. host \in Hostname /\ ShouldAllow(policy, host)
    BY <1>1, PassesText DEF Connect, Hostname
  <2>4. OutOf(last)' = [kind |-> "quiet"] /\ policy' = policy
    BY <1>1, OutQuiet DEF Connect
  <2>5. Promise!Grant(c, host)
    BY <2>1, <2>2, <2>3, <2>4 DEF Promise!Grant, Promise!NoAccess, Promise!Quiet,
       Promise!ShouldAllow, ShouldAllow, Accesses
  <2> QED
    BY <2>3, <2>5 DEF Promise!Next, Promise!Hostname, Hostname
<1>2. ASSUME NEW c \in Conn, NEW text, Refuse(c, text)
      PROVE  Promise!Next
  <2>1. OutOf(last)' = [kind |-> "refused"]
    BY <1>2 DEF Refuse, OutOf
  <2>2. Promise!Refuse
    BY <1>2, <2>1 DEF Promise!Refuse, Refuse, AccessOf
  <2> QED
    BY <2>2 DEF Promise!Next
<1>3. ASSUME NEW c \in Conn, Decrypt(c) \/ ReadPlain(c)
      PROVE  Promise!Next
  <2> DEFINE host == HostnameOf(conn[c].authority.host)
  <2>1. /\ conn[c].phase = "asked"
        /\ Intercepts(policy, conn[c].authority.host)
        /\ policy' = policy
        /\ last' = Quiet
    BY <1>3 DEF Decrypt, ReadPlain
  <2>2. Accesses[c].host = host /\ Accesses[c].kind = "granted"
    BY <2>1, AccessAt
  <2>3. Promise!Now(c, "read", host)
    BY <1>3, NowAccess DEF Decrypt, ReadPlain
  <2>4. Promise!Injects(policy, host)
    BY <2>1 DEF Intercepts, ShouldMitm, Promise!Injects, Promise!HasInjection,
                HasInjection
  <2>5. OutOf(last)' = [kind |-> "quiet"]
    BY <2>1, OutQuiet
  <2>6. Promise!Read(c)
    BY <2>1, <2>2, <2>3, <2>4, <2>5 DEF Promise!Read, Promise!Quiet, Accesses
  <2> QED
    BY <2>6 DEF Promise!Next
<1>4. ASSUME NEW c \in Conn, NEW spoke, Tunnel(c, spoke)
      PROVE  Promise!Next
  <2> DEFINE host == HostnameOf(conn[c].authority.host)
             phase == IF spoke = "other" THEN "unknown" ELSE "raw"
  <2>1. conn[c].phase = "asked" /\ policy' = policy /\ last' = Quiet
    BY <1>4 DEF Tunnel
  <2>2. Accesses[c].host = host /\ Accesses[c].kind = "granted"
    BY <2>1, AccessAt
  <2>3. Becomes(c, phase, conn[c].authority, None) /\ phase \in {"raw", "unknown"}
    BY <1>4 DEF Tunnel
  <2> HIDE DEF phase
  <2>4. Promise!Now(c, "raw", host)
    BY <2>3, NowAccess
  <2>5. OutOf(last)' = [kind |-> "quiet"]
    BY <2>1, OutQuiet
  <2>6. Promise!Tunnel(c)
    BY <2>1, <2>2, <2>4, <2>5 DEF Promise!Tunnel, Promise!Quiet, Accesses
  <2> QED
    BY <2>6 DEF Promise!Next
<1>5. ASSUME NEW c \in Conn, Relay(c)
      PROVE  Promise!Next
  <2>1. conn[c].phase \in {"raw", "unknown"} /\ UNCHANGED <<policy, conn>>
    BY <1>5 DEF Relay
  <2>2. /\ Accesses[c].host = HostnameOf(conn[c].authority.host)
        /\ Accesses[c].kind = "raw"
    BY <2>1, AccessAt
  <2>3. OutOf(last)' = [kind |-> "raw", host |-> HostnameOf(conn[c].authority.host)]
    BY <1>5 DEF Relay, OutOf
  <2>4. Accesses' = Accesses
    BY <2>1 DEF Accesses, AccessOf
  <2>5. Promise!Relay(c)
    BY <2>1, <2>2, <2>3, <2>4 DEF Promise!Relay, Accesses
  <2> QED
    BY <2>5 DEF Promise!Next
<1>6. ASSUME NEW c \in Conn, NEW req \in Requests, Forward(c, req)
      PROVE  Promise!Next
  <2> DEFINE given == Arriving(c, req)
             sent == Outgoing(policy, given)
             host == HostnameOf(given.host)
  <2>1. conn[c].phase \in {"open", "read"} /\ UNCHANGED <<policy, conn>>
    BY <1>6 DEF Forward
  <2>2. Passes(policy, given.host) /\ IsRequest(given)
    BY <1>6, <2>1, ArrivingIsRequest DEF Forward
  <2>3. host \in Hostname /\ ShouldAllow(policy, host) /\ host # None
    BY <2>2, PassesText DEF Hostname, Passes
  <2>4. Promise!Leaves(policy, host, given, sent)
    BY <2>2, <2>3, LeavesAsPromised DEF IInv, TypeOK
  <2>5. Accesses[c] = [kind |-> "none", host |-> None]
          \/ Accesses[c] = [kind |-> "read", host |-> host]
    <3>1. CASE conn[c].phase = "open"
      BY <3>1 DEF Accesses, AccessOf
    <3>2. CASE conn[c].phase = "read"
      <4>1. given.host = conn[c].authority.host
        BY <2>1, <3>2, ArrivingIsRequest
      <4> HIDE DEF given
      <4> QED
        BY <3>2, <4>1 DEF Accesses, AccessOf
    <3> QED
      BY <2>1, <3>1, <3>2
  <2>6. last' = [kind |-> "request", host |-> given.host, given |-> given,
                 sent |-> sent]
    BY <1>6 DEF Forward
  <2> HIDE DEF given, sent
  <2>7. OutOf(last)' = [kind |-> "request", host |-> host, given |-> given,
                        sent |-> sent]
    BY <2>6 DEF OutOf
  <2>8. Accesses' = Accesses
    BY <2>1 DEF Accesses, AccessOf
  <2> HIDE DEF host
  <2>9. Promise!Forward(c, host, given, sent)
    BY <2>1, <2>3, <2>4, <2>5, <2>7, <2>8
       DEF Promise!Forward, Promise!NoAccess, Promise!ShouldAllow, ShouldAllow, Accesses
  <2>10. /\ OutOf(last)'.kind = "request"
         /\ OutOf(last)'.given = given /\ OutOf(last)'.sent = sent
    BY <2>7
  <2> QED
    BY <2>3, <2>9, <2>10 DEF Promise!Next, Promise!Hostname, Hostname
<1>7. ASSUME NEW c \in Conn, Close(c)
      PROVE  Promise!Next
  <2>1. Accesses' = [Accesses EXCEPT ![c] = AccessOf(Fresh)]
    BY <1>7, AccessMoves DEF IInv, TypeOK, Close
  <2>2. AccessOf(Fresh) = [kind |-> "none", host |-> None]
    BY DEF AccessOf, Fresh
  <2>3. OutOf(last)' = [kind |-> "quiet"] /\ policy' = policy
    BY <1>7, OutQuiet DEF Close
  <2>4. Promise!Close(c)
    BY <2>1, <2>2, <2>3 DEF Promise!Close, Promise!NoAccess, Promise!Quiet, Accesses
  <2> QED
    BY <2>4 DEF Promise!Next
<1>8. CASE UNCHANGED vars
  BY <1>8 DEF vars, Promise!vars, AccessOf, OutOf
<1> QED
  BY <1>1, <1>2, <1>3, <1>4, <1>5, <1>6, <1>7, <1>8 DEF Next

\* The proxy implements what Egress promises, whatever its connections and its
\* cache do.
THEOREM ImplementsEgress == Spec => PromiseKept
<1>1. Init => Promise!Init
  BY PromiseInit
<1>2. IInv /\ [Next]_vars => [Promise!Next]_(Promise!vars)
  BY PromiseNext
<1> QED
  BY <1>1, <1>2, IInvAlways, PTL DEF Spec, PromiseKept, Promise!Spec
=============================================================================
