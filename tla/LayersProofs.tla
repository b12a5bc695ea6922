---------------------------- MODULE LayersProofs ----------------------------
(***************************************************************************)
(* Proofs about Profiles and Layers, for every set of profiles, whatever   *)
(* they, the command line and the host say.                                *)
(*                                                                         *)
(* First the profile algebra: its operators keep their types, and          *)
(* merge_right_biased is a monoid with the default profile as its          *)
(* identity.  Then the pipeline.  The type invariant needs to know how far *)
(* it has come: which profiles are normalized, how many layers are         *)
(* resolved.  That the last layer wins is an induction over the fold:      *)
(* after n layers the accumulator holds what the last of these n says.     *)
(***************************************************************************)
EXTENDS Layers, MapsProofs, FiniteSetTheorems

-----------------------------------------------------------------------------
(* merge_right_biased.                                                     *)

LEMMA UpsertAssociative ==
  ASSUME NEW a, NEW b, NEW c
  PROVE  Upsert(Upsert(a, b), c) = Upsert(a, Upsert(b, c))
  BY DEF Upsert

LEMMA UpsertNothing ==
  ASSUME NEW f, IsMap(f, DOMAIN f)
  PROVE  Upsert(NoEntries, f) = f /\ Upsert(f, NoEntries) = f
<1>1. NoEntries = [n \in {} |-> <<>>] /\ DOMAIN NoEntries = {}
  BY DEF NoEntries
<1>2. /\ Upsert(NoEntries, f) = [n \in DOMAIN f |-> f[n]]
      /\ Upsert(f, NoEntries) = [n \in DOMAIN f |-> f[n]]
  BY <1>1 DEF Upsert
<1> QED
  BY <1>2 DEF IsMap

\* Two profiles with the same fields are the same.
LEMMA SameFields ==
  ASSUME NEW p, NEW q, IsMap(p, Fields), IsMap(q, Fields),
         p.mounts = q.mounts, p.readonly = q.readonly,
         p.forwards = q.forwards, p.vars = q.vars, p.path = q.path,
         p.path_add = q.path_add, p.public_web = q.public_web,
         p.proxies = q.proxies
  PROVE  p = q
<1>1. \A n \in Fields : p[n] = q[n]
  BY DEF Fields
<1> QED
  BY <1>1 DEF IsMap

LEMMA MergeIsMap ==
  ASSUME NEW l, NEW r
  PROVE  IsMap(Merge(l, r), Fields)
  BY DEF Merge, IsMap, Fields

\* The merge of two profiles is one.
THEOREM MergeIsProfile ==
  ASSUME NEW l, NEW r, IsProfile(l), IsProfile(r)
  PROVE  IsProfile(Merge(l, r))
<1> DEFINE m == Merge(l, r)
<1>1. m.mounts \in Seq(Mount)
  BY ConcatProperties DEF IsProfile, IsMounts, IsForwards, IsEnvVars, IsProxies, Merge
<1>2. m.readonly \in Option(Access)
  BY DEF IsProfile, IsMounts, IsForwards, IsEnvVars, IsProxies, Or, Merge
<1>3. m.forwards \in Seq(Forward)
  BY ConcatProperties DEF IsProfile, IsMounts, IsForwards, IsEnvVars, IsProxies, Merge
<1>4. \A n \in DOMAIN m.vars : m.vars[n] \in Seq(Written)
  BY DEF IsProfile, IsMounts, IsForwards, IsEnvVars, IsProxies, Merge, Upsert
<1>5. m.path \in Option(Seq(Written))
  BY DEF IsProfile, IsMounts, IsForwards, IsEnvVars, IsProxies, Or, Merge
<1>6. m.path_add \in Seq(Written)
  BY ConcatProperties DEF IsProfile, IsMounts, IsForwards, IsEnvVars, IsProxies, Merge
<1>7. m.public_web \in Option(Action)
  BY DEF IsProfile, IsMounts, IsForwards, IsEnvVars, IsProxies, Or, Merge
<1>8. \A n \in DOMAIN m.proxies :
        m.proxies[n] \in ProxyRule
  BY DEF IsProfile, IsMounts, IsForwards, IsEnvVars, IsProxies, Merge, Upsert
<1>9. IsMap(m.vars, DOMAIN m.vars) /\ IsMap(m.proxies, DOMAIN m.proxies)
  BY DEF IsMap, Merge, Upsert
<1>10. IsMap(m, Fields)
  BY MergeIsMap
<1> HIDE DEF m
<1> QED
  BY <1>1, <1>2, <1>3, <1>4, <1>5, <1>6, <1>7, <1>8, <1>9, <1>10
     DEF IsProfile, IsMounts, IsForwards, IsEnvVars, IsProxies, m

\* However the layers are grouped, they merge to the same: "Composition is a
\* monoid fold" of CONFIG.md.
THEOREM MergeAssociative ==
  ASSUME NEW a, NEW b, NEW c, IsProfile(a), IsProfile(b), IsProfile(c)
  PROVE  Merge(Merge(a, b), c) = Merge(a, Merge(b, c))
<1> DEFINE p == Merge(Merge(a, b), c)
           q == Merge(a, Merge(b, c))
<1>1. /\ a.mounts \in Seq(Mount)
      /\ b.mounts \in Seq(Mount)
      /\ c.mounts \in Seq(Mount)
  BY DEF IsProfile, IsMounts, IsForwards, IsEnvVars, IsProxies
<1>2. p.mounts = q.mounts
  <2>1. \A s, t, u \in Seq(Mount) : (s \o t) \o u = s \o (t \o u)
    BY ConcatAssociative
  <2>2. (a.mounts \o b.mounts) \o c.mounts
          = a.mounts \o (b.mounts \o c.mounts)
    BY <1>1, <2>1, Zenon
  <2> QED
    BY <2>2 DEF Merge
<1>3. /\ a.forwards \in Seq(Forward)
      /\ b.forwards \in Seq(Forward)
      /\ c.forwards \in Seq(Forward)
  BY DEF IsProfile, IsMounts, IsForwards, IsEnvVars, IsProxies
<1>4. p.forwards = q.forwards
  <2>1. \A s, t, u \in Seq(Forward) : (s \o t) \o u = s \o (t \o u)
    BY ConcatAssociative
  <2>2. (a.forwards \o b.forwards) \o c.forwards
          = a.forwards \o (b.forwards \o c.forwards)
    BY <1>3, <2>1, Zenon
  <2> QED
    BY <2>2 DEF Merge
<1>5. /\ a.path_add \in Seq(Written)
      /\ b.path_add \in Seq(Written)
      /\ c.path_add \in Seq(Written)
  BY DEF IsProfile, IsMounts, IsForwards, IsEnvVars, IsProxies
<1>6. p.path_add = q.path_add
  <2>1. \A s, t, u \in Seq(Written) : (s \o t) \o u = s \o (t \o u)
    BY ConcatAssociative
  <2>2. (a.path_add \o b.path_add) \o c.path_add
          = a.path_add \o (b.path_add \o c.path_add)
    BY <1>5, <2>1, Zenon
  <2> QED
    BY <2>2 DEF Merge
<1>7. /\ p.readonly = q.readonly
      /\ p.path = q.path
      /\ p.public_web = q.public_web
  BY DEF Or, Merge
<1>8. p.vars = q.vars
  BY UpsertAssociative DEF Merge
<1>9. p.proxies = q.proxies
  BY UpsertAssociative DEF Merge
<1>10. IsMap(p, Fields) /\ IsMap(q, Fields)
  BY MergeIsMap
<1> HIDE DEF p, q
<1>11. p = q
  BY <1>2, <1>4, <1>6, <1>7, <1>8, <1>9, <1>10, SameFields
<1> QED
  BY <1>11 DEF p, q

LEMMA DefaultIsProfile == IsProfile(Default)
<1>1. \A S : <<>> \in Seq(S)
  BY EmptySeq
<1>2. IsMap(NoEntries, {}) /\ DOMAIN NoEntries = {}
  BY DEF NoEntries, IsMap
<1>3. IsMap(Default, Fields)
  BY DEF IsMap, Fields, Default
<1> QED
  BY <1>1, <1>2, <1>3 DEF IsProfile, IsMounts, IsForwards, IsEnvVars, IsProxies, Default, Option

\* The default profile is the merge's identity: a run without profiles and
\* flags, or a profile without a domain, changes nothing.
THEOREM DefaultIsIdentity ==
  ASSUME NEW p, IsProfile(p)
  PROVE  Merge(Default, p) = p /\ Merge(p, Default) = p
<1> DEFINE m == Merge(Default, p)
           q == Merge(p, Default)
<1>1. p.mounts \o <<>> = p.mounts /\ <<>> \o p.mounts = p.mounts
  BY ConcatEmptySeq DEF IsProfile, IsMounts, IsForwards, IsEnvVars, IsProxies
<1>2. p.forwards \o <<>> = p.forwards /\ <<>> \o p.forwards = p.forwards
  BY ConcatEmptySeq DEF IsProfile, IsMounts, IsForwards, IsEnvVars, IsProxies
<1>3. p.path_add \o <<>> = p.path_add /\ <<>> \o p.path_add = p.path_add
  BY ConcatEmptySeq DEF IsProfile, IsMounts, IsForwards, IsEnvVars, IsProxies
<1>4. /\ m.mounts = p.mounts /\ q.mounts = p.mounts
      /\ m.forwards = p.forwards /\ q.forwards = p.forwards
      /\ m.path_add = p.path_add /\ q.path_add = p.path_add
  BY <1>1, <1>2, <1>3 DEF Merge, Default
<1>5. /\ m.readonly = p.readonly /\ q.readonly = p.readonly
      /\ m.path = p.path /\ q.path = p.path
      /\ m.public_web = p.public_web /\ q.public_web = p.public_web
  BY DEF Or, Merge, Default
<1>6. m.vars = p.vars /\ q.vars = p.vars
  BY UpsertNothing DEF IsProfile, IsMounts, IsForwards, IsEnvVars, IsProxies, Merge, Default
<1>7. m.proxies = p.proxies /\ q.proxies = p.proxies
  BY UpsertNothing DEF IsProfile, IsMounts, IsForwards, IsEnvVars, IsProxies, Merge, Default
<1>8. IsMap(m, Fields) /\ IsMap(q, Fields) /\ IsMap(p, Fields)
  BY MergeIsMap DEF IsProfile, IsMounts, IsForwards, IsEnvVars, IsProxies
<1> HIDE DEF m, q
<1>9. m = p
  BY <1>4, <1>5, <1>6, <1>7, <1>8, SameFields
<1>10. q = p
  BY <1>4, <1>5, <1>6, <1>7, <1>8, SameFields
<1> QED
  BY <1>9, <1>10 DEF m, q

-----------------------------------------------------------------------------
(* What is declared resolves to a profile.                                 *)

LEMMA ExpandWritten ==
  ASSUME NEW path \in Written, NEW home \in Path
  PROVE  Expand(path, home) \in Written
<1>1. path.rest \in Path /\ home \o path.rest \in Path
  BY ConcatProperties DEF Written, Path
<1>2. \A r \in Path : Abs(r) \in Written
  BY DEF Abs, Written
<1> QED
  BY <1>1, <1>2 DEF Expand

LEMMA ExpandedWritten ==
  ASSUME NEW list \in Seq(Written), NEW home \in Path
  PROVE  Expanded(list, home) \in Seq(Written)
<1>1. \A i \in DOMAIN list : Expand(list[i], home) \in Written
  BY ExpandWritten
<1> QED
  BY <1>1, Mapped DEF Expanded

\* A normalized declaration is a declaration.
THEOREM NormalizedIsDecl ==
  ASSUME NEW d, IsDecl(d), NEW home \in Path
  PROVE  IsDecl(Normalized(d, home))
<1> DEFINE m(i) == NormalizedMount(d.mounts[i], home)
           ms == [i \in DOMAIN d.mounts |-> m(i)]
           e == Normalized(d, home)
<1>1. d.mounts \in Seq(MountDecl) /\ d.path_add \in Seq(Written)
        /\ d.path \in Option(Seq(Written))
  BY DEF IsDecl, IsMountDecls, IsForwardDecls, IsEnvVarDecls, IsProxyDecls
<1>2. ASSUME NEW i \in DOMAIN d.mounts
      PROVE  m(i) \in MountDecl
  <2>1. d.mounts[i] \in MountDecl
    BY <1>1, Element
  <2>2. Expand(d.mounts[i].host, home) \in Written
    BY <2>1, ExpandWritten DEF MountDecl
  <2>3. d.mounts[i].sandbox # None => Expand(d.mounts[i].sandbox, home) \in Written
    BY <2>1, ExpandWritten DEF Option, MountDecl
  <2> QED
    BY <2>1, <2>2, <2>3 DEF NormalizedMount, Option, MountDecl
<1>3. ms \in Seq(MountDecl)
  <2> HIDE DEF m
  <2> QED
    BY <1>1, <1>2, Mapped
<1>4. (d.path # None => Expanded(d.path, home) \in Seq(Written))
        /\ Expanded(d.path_add, home) \in Seq(Written)
  BY <1>1, ExpandedWritten DEF Option
<1>5. /\ DOMAIN e = DOMAIN d
      /\ e.mounts = ms
      /\ e.path = IF d.path = None THEN None ELSE Expanded(d.path, home)
      /\ e.path_add = Expanded(d.path_add, home)
      /\ e.readonly = d.readonly /\ e.forwards = d.forwards
      /\ e.env = d.env /\ e.public_web = d.public_web
      /\ e.proxies = d.proxies
  BY DEF Normalized, IsDecl, IsMountDecls, IsForwardDecls, IsEnvVarDecls, IsProxyDecls
<1> HIDE DEF e, ms
<1>6. e.path \in Option(Seq(Written)) /\ e.path_add \in Seq(Written)
  BY <1>4, <1>5 DEF Option
<1>7. IsDecl(e)
  BY <1>3, <1>5, <1>6 DEF IsDecl, IsMountDecls, IsForwardDecls, IsEnvVarDecls, IsProxyDecls
<1> QED
  BY <1>7 DEF e

LEMMA BindIsMount ==
  ASSUME NEW place \in Path, NEW from \in Path, NEW access \in Access
  PROVE  Bind(place, from, access) \in Mount
  BY DEF Bind, Mount

LEMMA MountOfIsMount ==
  ASSUME NEW m \in MountDecl
  PROVE  MountOf(m) \in Mount
<1>1. m.host.rest \in Path
  BY DEF Written, MountDecl
<1>2. m.sandbox # None => m.sandbox.rest \in Path
  BY DEF Written, Option, MountDecl
<1>3. m.access # None => m.access \in Access
  BY DEF Option, MountDecl
<1> QED
  BY <1>1, <1>2, <1>3, BindIsMount DEF MountOf, Access

LEMMA LastEntriesMap ==
  ASSUME NEW entries
  PROVE  IsMap(LastEntries(entries), DOMAIN LastEntries(entries))
<1> DEFINE given == {i \in DOMAIN entries : entries[i].item # None}
           keys == {entries[i].key : i \in given}
           Latest(m, i) == /\ entries[i].key = m
                         /\ \A j \in given : entries[j].key = m => j <= i
           Item(n) == entries[CHOOSE i \in given : Latest(n, i)].item
<1>1. LastEntries(entries) = [n \in keys |-> Item(n)]
  BY Zenon DEF LastEntries
<1> HIDE DEF Item, keys
<1> QED
  BY <1>1 DEF IsMap

LEMMA VarsOfTyped ==
  ASSUME NEW env \in Seq(EnvVarDecl),
         NEW h, IsHost(h)
  PROVE  \A n \in DOMAIN VarsOf(env, h) :
           VarsOf(env, h)[n] \in Seq(Written)
<1> DEFINE Item == [key : STRING, item : Option(Seq(Written))]
           entries == [i \in DOMAIN env |->
             [key |-> env[i].name, item |-> ValueOf(env[i], h)]]
<1>1. ASSUME NEW i \in DOMAIN env
      PROVE  entries[i] \in Item
  <2>1. env[i] \in EnvVarDecl
    BY Element
  <2>2. ValueOf(env[i], h) \in Option(Seq(Written))
    BY <2>1 DEF ValueOf, IsHost, Option, EnvVarDecl
  <2> QED
    BY <2>1, <2>2 DEF EnvVarDecl
<1>2. entries \in Seq(Item)
  <2> HIDE DEF Item
  <2> QED
    BY <1>1, Mapped
<1>3. VarsOf(env, h) = LastEntries(entries)
  BY DEF VarsOf
<1> HIDE DEF entries
<1>4. ASSUME NEW n \in DOMAIN LastEntries(entries)
      PROVE  LastEntries(entries)[n] \in Seq(Written)
  <2>1. PICK i \in DOMAIN entries :
          /\ entries[i].item # None
          /\ LastEntries(entries)[n] = entries[i].item
    BY <1>2, LastEntriesItem
  <2>2. entries[i] \in Item
    BY <1>2, Element
  <2> QED
    BY <2>1, <2>2 DEF Option
<1> QED
  BY <1>3, <1>4

LEMMA RenderedTyped ==
  ASSUME NEW h, IsHost(h), NEW template \in Template,
         Renders(template, h.secrets)
  PROVE  Rendered(template, h.secrets) \in Value
<1>1. ASSUME NEW i \in DOMAIN template
      PROVE  PieceValue(template[i], h.secrets) \in Word
  <2>1. template[i] \in Piece
    BY Element DEF Template
  <2>2. template[i].kind # "text" =>
          /\ h.secrets[template[i].of] \in Word
          /\ Escaped[h.secrets[template[i].of]] \in Word
    BY EscapeAssumption DEF IsHost, Renders
  <2> QED
    BY <2>1, <2>2 DEF PieceValue, Piece, Renders
<1> QED
  BY <1>1, Mapped DEF Rendered, Template, Value

LEMMA AllRenderedTyped ==
  ASSUME NEW h, IsHost(h),
         NEW list \in Seq([key : Word, item : Template]),
         \A i \in DOMAIN list : Renders(list[i].item, h.secrets)
  PROVE  AllRendered(list, h.secrets) \in Seq([key : Word, item : Value])
<1> DEFINE Named == [key : Word, item : Template]
           Valued == [key : Word, item : Value]
           Entry(i) == [key |-> list[i].key,
                        item |-> Rendered(list[i].item, h.secrets)]
<1>1. ASSUME NEW i \in DOMAIN list
      PROVE  Entry(i) \in Valued
  <2>1. list[i] \in Named
    BY Element
  <2>2. Rendered(list[i].item, h.secrets) \in Value
    BY <2>1, RenderedTyped
  <2> QED
    BY <2>1, <2>2
<1>2. AllRendered(list, h.secrets) = [i \in DOMAIN list |-> Entry(i)]
  BY DEF AllRendered
<1>3. list \in Seq(Named)
  OBVIOUS
<1> HIDE DEF Entry, Named, Valued
<1>4. AllRendered(list, h.secrets) \in Seq(Valued)
  BY <1>1, <1>2, <1>3, Mapped
<1> QED
  BY <1>4 DEF Valued

LEMMA AuthPresent ==
  ASSUME NEW h, IsHost(h), NEW auth \in AuthDecl, auth # None,
         \A i \in DOMAIN auth.parts : Renders(auth.parts[i], h.secrets)
  PROVE  AuthOf(auth, h.secrets) \in Auth
<1>1. ASSUME NEW n \in {1, 2}, auth.parts \in [1 .. n -> Template]
      PROVE  [i \in DOMAIN auth.parts |-> Rendered(auth.parts[i], h.secrets)]
               \in [1 .. n -> Value]
  BY <1>1, RenderedTyped
<1>2. CASE auth \in [scheme : {"basic"}, parts : [1 .. 2 -> Template]]
  <2>1. auth.scheme = "basic" /\ auth.parts \in [1 .. 2 -> Template]
    BY <1>2
  <2> QED
    BY <1>1, <2>1 DEF AuthOf, Auth
<1>3. CASE auth \in [scheme : {"bearer"}, parts : [1 .. 1 -> Template]]
  <2>1. auth.scheme = "bearer" /\ auth.parts \in [1 .. 1 -> Template]
    BY <1>3
  <2> QED
    BY <1>1, <2>1 DEF AuthOf, Auth
<1> QED
  BY <1>2, <1>3 DEF AuthDecl

LEMMA AuthOfTyped ==
  ASSUME NEW h, IsHost(h), NEW auth \in Option(AuthDecl),
         auth # None =>
           \A i \in DOMAIN auth.parts : Renders(auth.parts[i], h.secrets)
  PROVE  AuthOf(auth, h.secrets) \in Option(Auth)
<1>1. CASE auth = None
  BY <1>1 DEF AuthOf, Option
<1>2. CASE auth # None
  BY <1>2, AuthPresent DEF Option
<1> QED
  BY <1>1, <1>2

\* A declaration whose templates render resolves to a rule.
LEMMA RuleOfTyped ==
  ASSUME NEW h, IsHost(h), NEW decl \in ProxyDecl,
         Resolvable(decl, h.secrets)
  PROVE  RuleOf(decl, h.secrets) \in ProxyRule
<1>1. /\ decl.headers \in Seq([key : Word, item : Template])
      /\ decl.params \in Seq([key : Word, item : Template])
      /\ decl.auth \in Option(AuthDecl)
      /\ decl.port \in Nat /\ decl.action \in Action
  BY DEF ProxyDecl
<1>2. AllRendered(decl.headers, h.secrets) \in Seq([key : Word, item : Value])
  BY <1>1, AllRenderedTyped DEF Resolvable
<1>3. AllRendered(decl.params, h.secrets) \in Seq([key : Word, item : Value])
  BY <1>1, AllRenderedTyped DEF Resolvable
<1>4. AuthOf(decl.auth, h.secrets) \in Option(Auth)
  BY <1>1, AuthOfTyped DEF Resolvable
<1> QED
  BY <1>1, <1>2, <1>3, <1>4 DEF RuleOf, ProxyRule

LEMMA RulesOfTyped ==
  ASSUME NEW h, IsHost(h), NEW proxies \in Seq(ProxyDecl),
         \A i \in DOMAIN proxies : Resolvable(proxies[i], h.secrets)
  PROVE  \A n \in DOMAIN RulesOf(proxies, h.secrets) :
           RulesOf(proxies, h.secrets)[n] \in ProxyRule
<1> DEFINE Item == [key : Hostname, item : ProxyRule]
           Entry(i) == [key |-> proxies[i].host,
                        item |-> RuleOf(proxies[i], h.secrets)]
           entries == [i \in DOMAIN proxies |-> Entry(i)]
<1>1. ASSUME NEW i \in DOMAIN proxies
      PROVE  Entry(i) \in Item
  <2>1. proxies[i] \in ProxyDecl
    BY Element
  <2>2. RuleOf(proxies[i], h.secrets) \in ProxyRule
    BY <2>1, RuleOfTyped
  <2> QED
    BY <2>1, <2>2 DEF ProxyDecl
<1>2. entries \in Seq(Item)
  <2> HIDE DEF Item, Entry
  <2> QED
    BY <1>1, Mapped
<1>3. RulesOf(proxies, h.secrets) = LastEntries(entries)
  BY DEF RulesOf
<1> HIDE DEF entries
<1>4. ASSUME NEW n \in DOMAIN LastEntries(entries)
      PROVE  LastEntries(entries)[n] \in ProxyRule
  <2>1. PICK i \in DOMAIN entries : LastEntries(entries)[n] = entries[i].item
    BY <1>2, LastEntriesItem
  <2>2. entries[i] \in Item
    BY <1>2, Element
  <2> QED
    BY <2>1, <2>2
<1> QED
  BY <1>3, <1>4

\* A declaration whose templates render resolves to a profile: ports and access
\* modes are filled in, each h has one rule.
THEOREM ResolvedIsProfile ==
  ASSUME NEW d, IsDecl(d), NEW h, IsHost(h), Renderable(d, h)
  PROVE  IsProfile(Resolved(d, h))
<1> DEFINE p == Resolved(d, h)
<1>1. /\ p.mounts = [i \in DOMAIN d.mounts |-> MountOf(d.mounts[i])]
      /\ p.readonly = d.readonly
      /\ p.forwards = [i \in DOMAIN d.forwards |-> ForwardOf(d.forwards[i])]
      /\ p.vars = VarsOf(d.env, h)
      /\ p.path = d.path
      /\ p.path_add = d.path_add
      /\ p.public_web = d.public_web
      /\ p.proxies = RulesOf(d.proxies, h.secrets)
      /\ IsMap(p, Fields)
  BY DEF Resolved, IsMap, Fields
<1> HIDE DEF p
<1>2. p.mounts \in Seq(Mount)
  <2>1. d.mounts \in Seq(MountDecl)
    BY DEF IsDecl, IsMountDecls, IsForwardDecls, IsEnvVarDecls, IsProxyDecls
  <2>2. \A i \in DOMAIN d.mounts : d.mounts[i] \in MountDecl
    BY <2>1, Element
  <2>3. \A i \in DOMAIN d.mounts : MountOf(d.mounts[i]) \in Mount
    BY <2>2, MountOfIsMount
  <2> QED
    BY <1>1, <2>1, <2>3, Mapped
<1>3. p.forwards \in Seq(Forward)
  <2>1. d.forwards \in Seq(ForwardDecl)
    BY DEF IsDecl, IsMountDecls, IsForwardDecls, IsEnvVarDecls, IsProxyDecls
  <2>2. ASSUME NEW i \in DOMAIN d.forwards
        PROVE  ForwardOf(d.forwards[i]) \in Forward
    <3>1. d.forwards[i] \in ForwardDecl
      BY <2>1, Element
    <3> QED
      BY <3>1 DEF ForwardOf, Forward, ForwardDecl, Option
  <2> QED
    BY <1>1, <2>1, <2>2, Mapped
<1>4. \A n \in DOMAIN p.vars : p.vars[n] \in Seq(Written)
  BY <1>1, VarsOfTyped DEF IsDecl, IsMountDecls, IsForwardDecls, IsEnvVarDecls, IsProxyDecls
<1>5. \A n \in DOMAIN p.proxies : p.proxies[n] \in ProxyRule
  BY <1>1, RulesOfTyped DEF Renderable, IsDecl, IsMountDecls, IsForwardDecls, IsEnvVarDecls, IsProxyDecls
<1>6. IsMap(p.vars, DOMAIN p.vars) /\ IsMap(p.proxies, DOMAIN p.proxies)
  BY <1>1, LastEntriesMap DEF VarsOf, RulesOf
<1>7. IsProfile(p)
  BY <1>1, <1>2, <1>3, <1>4, <1>5, <1>6
     DEF IsProfile, IsMounts, IsForwards, IsEnvVars, IsProxies, IsDecl, IsMountDecls, IsForwardDecls, IsEnvVarDecls, IsProxyDecls, Forward, ProxyRule
<1> QED
  BY <1>7 DEF p

-----------------------------------------------------------------------------
(* finalize and what run adds.                                             *)

LEMMA OnePath == ASSUME NEW s \in Word PROVE <<s>> \in Path
  BY DEF Path

LEMMA TwoPath == ASSUME NEW s \in Word, NEW t \in Word PROVE <<s, t>> \in Path
  BY DEF Path

LEMMA SystemBaselineTyped == SystemBaseline \in Seq(Mount)
<1>1. <<>> \in Path
  BY DEF Path
<1>2. \A name \in Word : Symlink(name) \in Mount
  BY <1>1, OnePath, TwoPath, WordAssumption DEF Symlink, Mount
<1>3. \A s \in Word : Bind(<<s>>, <<s>>, "ro") \in Mount
  BY OnePath, BindIsMount DEF Access
<1>4. \A s \in Word, kind \in {"dev", "proc", "tmpfs"} :
        Special(<<s>>, kind) \in Mount
  BY <1>1, OnePath DEF Special, Mount
<1>5. /\ Bind(<<"usr">>, <<"usr">>, "ro") \in Mount
      /\ Symlink("bin") \in Mount /\ Symlink("sbin") \in Mount
      /\ Symlink("lib") \in Mount /\ Symlink("lib64") \in Mount
      /\ Bind(<<"etc">>, <<"etc">>, "ro") \in Mount
      /\ Special(<<"dev">>, "dev") \in Mount
      /\ Special(<<"proc">>, "proc") \in Mount
      /\ Special(<<"tmp">>, "tmpfs") \in Mount
  BY <1>2, <1>3, <1>4, WordAssumption
<1> QED
  BY <1>5 DEF SystemBaseline

LEMMA MountsBaseTyped ==
  ASSUME NEW readonly, NEW h, IsHost(h)
  PROVE  MountsBase(readonly, h) \in Seq(Mount)
<1> DEFINE tmpfs == Special(h.home, "tmpfs")
           project == Bind(h.cwd, h.cwd, FromReadonly(readonly))
           tail == IF h.cwd = None THEN <<>> ELSE <<project>>
<1>1. tmpfs \in Mount
  <2>1. h.home \in Path /\ <<>> \in Path
    BY DEF IsHost, Path
  <2> QED
    BY <2>1 DEF Special, Mount
<1>2. h.cwd # None => project \in Mount
  BY BindIsMount DEF IsHost, Option, FromReadonly, Access
<1>3. <<tmpfs>> \in Seq(Mount) /\ tail \in Seq(Mount)
  <2> HIDE DEF tmpfs, project
  <2> QED
    BY <1>1, <1>2
<1>4. MountsBase(readonly, h) = (SystemBaseline \o <<tmpfs>>) \o tail
  BY DEF MountsBase
<1> HIDE DEF tmpfs, tail
<1>5. SystemBaseline \o <<tmpfs>> \in Seq(Mount)
  BY <1>3, SystemBaselineTyped, ConcatProperties
<1> QED
  BY <1>3, <1>4, <1>5, ConcatProperties

LEMMA TextWritten ==
  ASSUME NEW s \in Word
  PROVE  <<Text(s)>> \in Seq(Written)
<1>1. Text(s) \in Written
  BY OnePath DEF Text, Written
<1> QED
  BY <1>1

LEMMA PathValueTyped ==
  ASSUME NEW path \in Option(Seq(Written)), NEW path_add \in Seq(Written)
  PROVE  PathValue(path, path_add) \in Seq(Written)
<1> DEFINE n == Len(path_add)
           added == [i \in DOMAIN path_add |-> path_add[n + 1 - i]]
<1>1. n \in Nat /\ DOMAIN path_add = 1 .. n
  BY LenProperties
<1>2. \A i \in 1 .. n : n + 1 - i \in 1 .. n
  BY <1>1
<1>3. \A i \in DOMAIN path_add : path_add[n + 1 - i] \in Written
  BY <1>1, <1>2, Element
<1>4. added \in Seq(Written)
  BY <1>3, Mapped
<1>5. Or(path, CanonicalPath) \in Seq(Written)
  BY TextWritten, WordAssumption DEF Or, CanonicalPath, Option
<1> HIDE DEF added
<1>6. added \o Or(path, CanonicalPath) \in Seq(Written)
  BY <1>4, <1>5, ConcatProperties
<1> QED
  BY <1>6 DEF PathValue, added

\* A profile but for its mounts, forwards, variables and public_web is the
\* default one.
LEMMA LikeDefault ==
  ASSUME NEW p, IsMap(p, Fields),
         p.mounts \in Seq(Mount), p.forwards \in Seq(Forward),
         IsMap(p.vars, DOMAIN p.vars),
         \A n \in DOMAIN p.vars : p.vars[n] \in Seq(Written),
         p.public_web \in Option(Action),
         p.readonly = None, p.path = None, p.path_add = <<>>,
         p.proxies = NoEntries
  PROVE  IsProfile(p)
<1>1. IsMap(p.proxies, {}) /\ DOMAIN p.proxies = {}
  BY DEF NoEntries, IsMap
<1>2. p.path_add \in Seq(Written)
  BY EmptySeq
<1> QED
  BY <1>1, <1>2 DEF IsProfile, IsMounts, IsForwards, IsEnvVars, IsProxies, Option

LEMMA BaseIsProfile ==
  ASSUME NEW p, IsProfile(p), NEW h, IsHost(h)
  PROVE  IsProfile(Base(p, h))
<1> DEFINE b == Base(p, h)
           names == {"PATH"} \cup (({"HOME"} \cup Inherited) \cap DOMAIN h.env)
           Given(n) == IF n = "PATH" THEN PathValue(p.path, p.path_add)
                                     ELSE h.env[n]
<1>1. /\ b.mounts = MountsBase(p.readonly, h)
      /\ b.vars = [n \in names |-> Given(n)]
      /\ b.public_web = "allow"
      /\ b.forwards = <<>>
      /\ b.readonly = None /\ b.path = None /\ b.path_add = <<>>
      /\ b.proxies = NoEntries
      /\ IsMap(b, Fields)
  BY DEF Base, VarsBase, Default, IsMap, Fields
<1>2. \A n \in names : Given(n) \in Seq(Written)
  BY PathValueTyped DEF IsProfile, IsMounts, IsForwards, IsEnvVars, IsProxies, IsHost
<1> HIDE DEF b, names, Given
<1>3. /\ IsMap(b.vars, DOMAIN b.vars)
      /\ \A n \in DOMAIN b.vars : b.vars[n] \in Seq(Written)
  BY <1>1, <1>2 DEF IsMap
<1>4. /\ b.mounts \in Seq(Mount)
      /\ b.forwards \in Seq(Forward)
      /\ b.public_web \in Option(Action)
  BY <1>1, MountsBaseTyped, EmptySeq DEF Option, Action
<1>5. IsProfile(b)
  BY <1>1, <1>3, <1>4, LikeDefault
<1> QED
  BY <1>5 DEF b

LEMMA ClearedFields ==
  ASSUME NEW p, IsProfile(p)
  PROVE  /\ IsMap(Cleared(p), Fields)
         /\ Cleared(p).mounts = p.mounts
         /\ Cleared(p).forwards = p.forwards
         /\ Cleared(p).vars = p.vars
         /\ Cleared(p).public_web = p.public_web
         /\ Cleared(p).proxies = p.proxies
         /\ Cleared(p).readonly = None
         /\ Cleared(p).path = None
         /\ Cleared(p).path_add = <<>>
<1>1. DOMAIN p = Fields
  BY DEF IsProfile, IsMounts, IsForwards, IsEnvVars, IsProxies, IsMap
<1> QED
  BY <1>1 DEF Cleared, IsMap, Fields

LEMMA ClearedIsProfile ==
  ASSUME NEW p, IsProfile(p)
  PROVE  IsProfile(Cleared(p))
<1>1. Cleared(p).path_add \in Seq(Written)
  BY ClearedFields, EmptySeq
<1> QED
  BY <1>1, ClearedFields DEF IsProfile, IsMounts, IsForwards, IsEnvVars, IsProxies, Option

\* A finalized profile is a profile.
THEOREM FinalizedIsProfile ==
  ASSUME NEW p, IsProfile(p), NEW h, IsHost(h)
  PROVE  IsProfile(Finalized(p, h))
  BY BaseIsProfile, ClearedIsProfile, MergeIsProfile DEF Finalized

LEMMA ProxyProfileIsProfile == IsProfile(ProxyProfile)
<1> DEFINE bundle == Bind(BundlePath, BundleFile, "ro")
           forward == [host_port |-> ProxyPort, sandbox_port |-> ProxyPort]
           Given(n) == IF n \in BundleVars THEN <<Abs(BundlePath)>>
                       ELSE IF n \in DirectVars THEN <<Text("loopback")>>
                       ELSE <<Text("proxy")>>
           Bundles == [n \in BundleVars |-> <<Abs(BundlePath)>>]
           b == ProxyProfile
<1>1. /\ b.mounts = <<bundle>>
      /\ b.forwards = <<forward>>
      /\ b.vars = Upsert(ProxyEnv, Bundles)
      /\ b.public_web = None
      /\ b.readonly = None /\ b.path = None /\ b.path_add = <<>>
      /\ b.proxies = NoEntries
      /\ IsMap(b, Fields)
  BY DEF ProxyProfile, Default, IsMap, Fields
<1>2. BundlePath \in Path /\ BundleFile \in Path
  BY TwoPath, WordAssumption DEF BundlePath, BundleFile
<1>3. bundle \in Mount
  BY <1>2, BindIsMount DEF Access
<1>4. forward \in Forward
  BY ProxyPortAssumption DEF Forward
<1>5. Abs(BundlePath) \in Written
  BY <1>2 DEF Abs, Written
<1>6. \A n \in ProxyVars : Given(n) \in Seq(Written)
  BY <1>5, TextWritten, WordAssumption
<1>10. Upsert(ProxyEnv, Bundles) = [n \in ProxyVars |-> Given(n)]
  <2>1. /\ DOMAIN ProxyEnv = UrlVars \cup DirectVars
        /\ DOMAIN Bundles = BundleVars
    BY DEF ProxyEnv
  <2>2. DOMAIN ProxyEnv \cup DOMAIN Bundles = ProxyVars
    BY <2>1 DEF ProxyVars
  <2>3. \A n \in ProxyVars :
          (IF n \in DOMAIN Bundles THEN Bundles[n] ELSE ProxyEnv[n]) = Given(n)
    BY <2>1, <2>2 DEF ProxyEnv
  <2> HIDE DEF Bundles, Given
  <2> QED
    BY <2>2, <2>3 DEF Upsert
<1> HIDE DEF b, bundle, forward, Given, Bundles
<1>7. /\ IsMap(b.vars, DOMAIN b.vars)
      /\ \A n \in DOMAIN b.vars : b.vars[n] \in Seq(Written)
  BY <1>1, <1>6, <1>10 DEF IsMap
<1>8. /\ b.mounts \in Seq(Mount)
      /\ b.forwards \in Seq(Forward)
      /\ b.public_web \in Option(Action)
  BY <1>1, <1>3, <1>4 DEF Option
<1>9. IsProfile(b)
  BY <1>1, <1>7, <1>8, LikeDefault
<1> QED
  BY <1>9 DEF b


-----------------------------------------------------------------------------
(* The invariants.                                                         *)

Inputs ==
  /\ config \in [Profile -> Decls]
  /\ cli \in CliDecls
  /\ host \in Hosts
  /\ command \in {"run", "show"}

\* The profiles already visited are normalized, the others as in the file.
Visited ==
  /\ todo \subseteq Profile
  /\ profiles = [p \in Profile |->
                   IF p \in todo THEN config[p]
                                 ELSE Normalized(config[p], host.home)]

Steps == {"begin", "normalizing", "validating", "resolving", "folding",
          "showing", "starting", "done", "failed"}

Progress ==
  /\ pc \in Steps
  /\ order \in Selections
  /\ at \in 1 .. LayerCount + 1
  /\ Len(chain) <= LayerCount
  /\ pc \in {"begin", "normalizing"} => order = <<>> /\ at = 1 /\ chain = <<>>
  /\ pc \in {"validating", "resolving", "folding", "showing", "starting",
             "done"} => todo = {}
  /\ pc = "validating" => chain = <<>>
  /\ pc = "resolving" => Len(chain) = at - 1
  /\ pc \in {"folding", "showing", "starting", "done"} =>
       Len(chain) = LayerCount

ResolvedLayer ==
  {Resolved(d, host) :
     d \in {e \in NormalDecls \cup CliDecls : Renderable(e, host)}}

Results ==
  /\ chain \in Seq(ResolvedLayer)
  /\ \A k \in DOMAIN chain : IsProfile(chain[k])
  /\ IsProfile(merged)
  /\ IsProfile(result)

TypeInv == Inputs /\ Visited /\ Progress /\ Results

\* m holds what the last of the first n layers says.
Holds(m, n) ==
  \A k \in 1 .. n :
    /\ \A x \in DOMAIN chain[k].vars :
         (\A j \in 1 .. n : x \in DOMAIN chain[j].vars => j <= k)
           => x \in DOMAIN m.vars /\ m.vars[x] = chain[k].vars[x]
    /\ \A x \in DOMAIN chain[k].proxies :
         (\A j \in 1 .. n : x \in DOMAIN chain[j].proxies => j <= k)
           => x \in DOMAIN m.proxies /\ m.proxies[x] = chain[k].proxies[x]
    /\ (chain[k].public_web # None
        /\ \A j \in 1 .. n : chain[j].public_web # None => j <= k)
         => m.public_web = chain[k].public_web

\* What LastLayerWins says of a result, the layers and the proxy's variables.
Wins(m, layers, reserved) ==
  /\ \A n \in reserved : m.vars[n] = ProxyProfile.vars[n]
  /\ \A k \in DOMAIN layers :
     /\ \A n \in DOMAIN layers[k].vars \ reserved :
          IsLast(k, {j \in DOMAIN layers : n \in DOMAIN layers[j].vars})
            => n \in DOMAIN m.vars /\ m.vars[n] = layers[k].vars[n]
     /\ \A n \in DOMAIN layers[k].proxies :
          IsLast(k, {j \in DOMAIN layers : n \in DOMAIN layers[j].proxies})
            => n \in DOMAIN m.proxies /\ m.proxies[n] = layers[k].proxies[n]
     /\ IsLast(k, {j \in DOMAIN layers : layers[j].public_web # None})
          => m.public_web = layers[k].public_web

WinsInv ==
  /\ pc = "showing" => command = "show"
  /\ pc = "starting" => command = "run"
  /\ pc = "folding" => Holds(merged, at - 1)
  /\ pc \in {"showing", "starting"} => Holds(merged, LayerCount)
  /\ LastLayerWins

-----------------------------------------------------------------------------
(* Facts of the inputs.                                                    *)

LEMMA SelectionIsSeq ==
  ASSUME NEW s \in Selections
  PROVE  s \in Seq(Profile) /\ Len(s) \in Nat
<1>1. Cardinality(Profile) \in Nat
  BY InputsAssumption, FS_CardinalityType
<1>2. PICK n \in 0 .. Cardinality(Profile) : s \in [1 .. n -> Profile]
  BY DEF Selections
<1>3. s \in Seq(Profile)
  BY <1>1, <1>2, SeqDef
<1> QED
  BY <1>3, LenProperties

LEMMA EmptySelection == <<>> \in Selections
<1>1. Cardinality(Profile) \in Nat
  BY InputsAssumption, FS_CardinalityType
<1>2. <<>> \in [1 .. 0 -> Profile]
  OBVIOUS
<1>3. 0 \in 0 .. Cardinality(Profile)
  BY <1>1
<1>4. <<>> \in UNION {[1 .. n -> Profile] : n \in 0 .. Cardinality(Profile)}
  BY <1>2, <1>3
<1> QED
  BY <1>4 DEF Selections

LEMMA HostTyped ==
  ASSUME host \in Hosts
  PROVE  IsHost(host) /\ host.home \in Path
  BY InputsAssumption DEF IsHost

LEMMA LayerDeclared ==
  ASSUME Inputs, Visited, todo = {}, order \in Selections,
         NEW k \in 1 .. LayerCount
  PROVE  Layer(k) \in NormalDecls \cup CliDecls
<1>1. order \in Seq(Profile) /\ Len(order) \in Nat
  BY SelectionIsSeq
<1>2. CASE k <= Len(order)
  <2>1. order[k] \in Profile
    BY <1>1, <1>2, Element DEF LayerCount
  <2>2. profiles[order[k]] = Normalized(config[order[k]], host.home)
    BY <2>1 DEF Visited
  <2>3. config[order[k]] \in Decls
    BY <2>1 DEF Inputs
  <2> QED
    BY <1>2, <2>2, <2>3 DEF Layer, NormalDecls
<1>3. CASE ~(k <= Len(order))
  BY <1>3 DEF Layer, Inputs
<1> QED
  BY <1>2, <1>3

LEMMA DeclaredTyped ==
  ASSUME Inputs, NEW d \in NormalDecls \cup CliDecls
  PROVE  IsDecl(d) /\ (Renderable(d, host) => IsProfile(Resolved(d, host)))
<1>1. IsHost(host) /\ host.home \in Path
  BY HostTyped DEF Inputs
<1>2. IsDecl(d)
  BY <1>1, InputsAssumption, NormalizedIsDecl DEF NormalDecls
<1> QED
  BY <1>1, <1>2, ResolvedIsProfile

-----------------------------------------------------------------------------
(* The type invariant.                                                     *)

LEMMA TypeInit == Init => TypeInv
<1> SUFFICES ASSUME Init PROVE TypeInv
  OBVIOUS
<1>1. Inputs
  BY DEF Init, Inputs
<1>2. Visited
  BY <1>1 DEF Init, Visited, Inputs
<1>3. Progress
  BY EmptySelection, SelectionIsSeq DEF Init, Progress, LayerCount, Steps
<1>4. Results
  BY DefaultIsProfile DEF Init, Results
<1> QED
  BY <1>1, <1>2, <1>3, <1>4 DEF TypeInv

\* The inputs never change.
LEMMA InputsStep == ASSUME Inputs, [Next]_vars PROVE Inputs' /\ UNCHANGED inputs
<1>1. UNCHANGED inputs
  BY DEF Next, vars, Begin, NoCwd, Normalize, NormalizeFails, Choose,
         ChooseFails, Validate, ValidateFails, ValidatedAll, Resolve,
         ResolveFails, ResolvedAll, Fold, Finalize, Show, Serve, ServeFails,
         Ended, Stop
<1> QED
  BY <1>1 DEF Inputs, inputs

LEMMA VisitedStep == ASSUME TypeInv, [Next]_vars PROVE Visited'
<1> USE DEF TypeInv, Visited
<1>1. UNCHANGED inputs
  BY InputsStep
<1>2. ASSUME NEW p \in Profile, Normalize(p)
      PROVE  Visited'
  <2>1. todo' = todo \ {p} /\ p \in todo
    BY <1>2 DEF Normalize
  <2>2. profiles' = [q \in Profile |->
                       IF q = p THEN Normalized(profiles[q], host.home)
                                ELSE profiles[q]]
    BY <1>2 DEF Normalize
  <2>3. \A q \in Profile :
          profiles'[q] = IF q \in todo' THEN config[q]
                                        ELSE Normalized(config[q], host.home)
    BY <2>1, <2>2
  <2> QED
    BY <1>1, <2>1, <2>2, <2>3 DEF inputs
<1>3. CASE UNCHANGED <<profiles, todo>>
  BY <1>1, <1>3 DEF inputs
<1>4. (\E p \in Profile : Normalize(p)) \/ UNCHANGED <<profiles, todo>>
  BY DEF Next, vars, Begin, NoCwd, NormalizeFails, Choose,
         ChooseFails, Validate, ValidateFails, ValidatedAll, Resolve,
         ResolveFails, ResolvedAll, Fold, Finalize, Show, Serve, ServeFails,
         Ended, Stop
<1> QED
  BY <1>2, <1>3, <1>4

\* What a resolution appends is the layer at the position.
LEMMA ResolveAppends ==
  ASSUME TypeInv, Resolve
  PROVE  /\ chain' \in Seq(ResolvedLayer)
         /\ Len(chain') = Len(chain) + 1
         /\ chain'[Len(chain')] = Resolved(Layer(at), host)
         /\ IsProfile(chain'[Len(chain')])
         /\ \A k \in DOMAIN chain : chain'[k] = chain[k]
         /\ DOMAIN chain' = DOMAIN chain \cup {Len(chain')}
<1> DEFINE r == Resolved(Layer(at), host)
<1>1. Layer(at) \in NormalDecls \cup CliDecls
  BY LayerDeclared DEF TypeInv, Progress, Resolve
<1>2. r \in ResolvedLayer /\ IsProfile(r)
  BY <1>1, DeclaredTyped DEF TypeInv, ResolvedLayer, Resolve
<1>3. chain \in Seq(ResolvedLayer) /\ chain' = Append(chain, r)
  BY DEF TypeInv, Results, Resolve
<1> HIDE DEF r
<1>4. /\ chain' \in Seq(ResolvedLayer)
      /\ Len(chain') = Len(chain) + 1
      /\ chain'[Len(chain')] = r
      /\ \A k \in DOMAIN chain : chain'[k] = chain[k]
      /\ DOMAIN chain' = DOMAIN chain \cup {Len(chain')}
  BY <1>2, <1>3
<1> QED
  BY <1>2, <1>4 DEF r

LEMMA ProgressStep == ASSUME TypeInv, [Next]_vars PROVE Progress'
<1> USE DEF TypeInv, Progress
<1>1. Len(order) \in Nat /\ LayerCount \in Nat /\ at \in Nat
        /\ chain \in Seq(ResolvedLayer) /\ Len(chain) \in Nat
  BY SelectionIsSeq, LenProperties DEF LayerCount, Results
<1> USE DEF Steps, LayerCount
<1>2. CASE Begin
  BY <1>1, <1>2 DEF Begin
<1>3. CASE pc' = "failed" /\ UNCHANGED <<order, at, chain>>
  BY <1>1, <1>3
<1>4. ASSUME NEW p \in Profile, Normalize(p)
      PROVE  Progress'
  BY <1>1, <1>4 DEF Normalize
<1>5. CASE Choose
  <2>1. order' \in Selections /\ Len(order') \in Nat
    BY <1>5, SelectionIsSeq DEF Choose
  <2> QED
    BY <1>1, <1>5, <2>1 DEF Choose
<1>6. CASE Validate
  BY <1>1, <1>6 DEF Validate
<1>7. CASE ValidatedAll
  BY <1>1, <1>7, EmptySeq DEF ValidatedAll
<1>8. CASE Resolve
  <2>1. Len(chain') = Len(chain) + 1
    BY <1>8, ResolveAppends
  <2> QED
    BY <1>1, <1>8, <2>1 DEF Resolve
<1>9. CASE ResolvedAll
  BY <1>1, <1>9 DEF ResolvedAll
<1>10. CASE Fold
  BY <1>1, <1>10 DEF Fold
<1>11. CASE Finalize
  BY <1>1, <1>11 DEF Finalize
<1>12. CASE Show
  BY <1>1, <1>12 DEF Show
<1>13. CASE Serve
  BY <1>1, <1>13 DEF Serve
<1>14. CASE UNCHANGED vars
  BY <1>1, <1>14 DEF vars
<1>15. NoCwd \/ (\E p \in Profile : NormalizeFails(p)) \/ ChooseFails
         \/ ValidateFails \/ ResolveFails \/ ServeFails
         => pc' = "failed" /\ UNCHANGED <<order, at, chain>>
  BY DEF NoCwd, NormalizeFails, ChooseFails, ValidateFails, ResolveFails,
         ServeFails, Stop
<1> QED
  BY <1>2, <1>3, <1>4, <1>5, <1>6, <1>7, <1>8, <1>9, <1>10, <1>11, <1>12,
     <1>13, <1>14, <1>15 DEF Next, Ended

LEMMA ResultsStep == ASSUME TypeInv, [Next]_vars PROVE Results'
<1>1. UNCHANGED inputs
  BY InputsStep DEF TypeInv
<1>2. ResolvedLayer' = ResolvedLayer
  BY <1>1 DEF ResolvedLayer, inputs, NormalDecls
<1>3. CASE Resolve
  <2>1. \A k \in DOMAIN chain' : IsProfile(chain'[k])
    BY <1>3, ResolveAppends DEF TypeInv, Results
  <2> QED
    BY <1>2, <1>3, <2>1, ResolveAppends DEF TypeInv, Results, Resolve
<1>4. CASE Fold
  <2>1. at \in DOMAIN chain
    BY <1>4, LenProperties DEF Fold, TypeInv, Progress, Results
  <2>2. IsProfile(merged')
    BY <1>4, <2>1, MergeIsProfile DEF Fold, TypeInv, Results
  <2> QED
    BY <1>2, <1>4, <2>2 DEF Fold, TypeInv, Results
<1>5. CASE Finalize
  <2>1. IsProfile(merged')
    BY <1>5, HostTyped, FinalizedIsProfile DEF Finalize, TypeInv, Results, Inputs
  <2> QED
    BY <1>2, <1>5, <2>1 DEF Finalize, TypeInv, Results
<1>6. CASE Show
  BY <1>2, <1>6 DEF Show, TypeInv, Results
<1>7. CASE Serve
  <2>1. IsProfile(result')
    BY <1>7, ProxyProfileIsProfile, MergeIsProfile DEF Serve, TypeInv, Results
  <2> QED
    BY <1>2, <1>7, <2>1 DEF Serve, TypeInv, Results
<1>8. CASE UNCHANGED <<chain, merged, result>>
  BY <1>2, <1>8 DEF TypeInv, Results
<1>9. Resolve \/ Fold \/ Finalize \/ Show \/ Serve
        \/ UNCHANGED <<chain, merged, result>>
  BY DEF Next, vars, Begin, NoCwd, Normalize, NormalizeFails, Choose,
         ChooseFails, Validate, ValidateFails, ValidatedAll,
         ResolveFails, ResolvedAll, ServeFails, Ended, Stop
<1> QED
  BY <1>3, <1>4, <1>5, <1>6, <1>7, <1>8, <1>9

LEMMA TypeStep == TypeInv /\ [Next]_vars => TypeInv'
  BY InputsStep, VisitedStep, ProgressStep, ResultsStep DEF TypeInv

LEMMA TypeImplied == TypeInv => TypeOK
<1> SUFFICES ASSUME TypeInv PROVE TypeOK
  OBVIOUS
<1>1. profiles \in [Profile -> Decls \cup NormalDecls]
  <2>1. \A p \in Profile :
          (IF p \in todo THEN config[p] ELSE Normalized(config[p], host.home))
            \in Decls \cup NormalDecls
    BY DEF TypeInv, Inputs, NormalDecls
  <2> QED
    BY <2>1 DEF TypeInv, Visited
<1> QED
  BY <1>1 DEF TypeInv, Inputs, Visited, Progress, Steps, Results,
              ResolvedLayer, TypeOK

\* Whatever the profiles, the command line and the host say, every layer, the
\* merged profile and the result stay in their types.
THEOREM TypeCorrect == Spec => []TypeOK
<1>1. Spec => []TypeInv
  BY TypeInit, TypeStep, PTL DEF Spec
<1> QED
  BY <1>1, TypeImplied, PTL

-----------------------------------------------------------------------------
(* The last layer wins.                                                    *)

LEMMA MergedVars ==
  ASSUME NEW l, NEW r
  PROVE  /\ DOMAIN Merge(l, r).vars = DOMAIN l.vars \cup DOMAIN r.vars
         /\ \A x \in DOMAIN r.vars : Merge(l, r).vars[x] = r.vars[x]
         /\ \A x \in DOMAIN l.vars \ DOMAIN r.vars :
              Merge(l, r).vars[x] = l.vars[x]
  BY DEF Merge, Upsert

LEMMA MergedRest ==
  ASSUME NEW l, NEW r
  PROVE  /\ DOMAIN Merge(l, r).proxies = DOMAIN l.proxies \cup DOMAIN r.proxies
         /\ \A x \in DOMAIN r.proxies : Merge(l, r).proxies[x] = r.proxies[x]
         /\ \A x \in DOMAIN l.proxies \ DOMAIN r.proxies :
              Merge(l, r).proxies[x] = l.proxies[x]
         /\ Merge(l, r).public_web = IF r.public_web # None THEN r.public_web
                                                           ELSE l.public_web
  BY DEF Merge, Upsert, Or

\* One more layer.
LEMMA HoldsMerge ==
  ASSUME NEW m, NEW n \in Nat, Holds(m, n)
  PROVE  Holds(Merge(m, chain[n + 1]), n + 1)
<1> DEFINE r == chain[n + 1]
           q == Merge(m, r)
<1>1. SUFFICES ASSUME NEW k \in 1 .. n + 1
      PROVE  /\ \A x \in DOMAIN chain[k].vars :
                  (\A j \in 1 .. n + 1 : x \in DOMAIN chain[j].vars => j <= k)
                    => x \in DOMAIN q.vars /\ q.vars[x] = chain[k].vars[x]
             /\ \A x \in DOMAIN chain[k].proxies :
                  (\A j \in 1 .. n + 1 : x \in DOMAIN chain[j].proxies => j <= k)
                    => x \in DOMAIN q.proxies
                       /\ q.proxies[x] = chain[k].proxies[x]
             /\ (chain[k].public_web # None
                 /\ \A j \in 1 .. n + 1 : chain[j].public_web # None => j <= k)
                  => q.public_web = chain[k].public_web
  BY Zenon DEF Holds
<1>2. ASSUME NEW x \in DOMAIN chain[k].vars,
             \A j \in 1 .. n + 1 : x \in DOMAIN chain[j].vars => j <= k
      PROVE  x \in DOMAIN q.vars /\ q.vars[x] = chain[k].vars[x]
  <2>1. CASE k = n + 1
    BY <2>1, MergedVars
  <2>2. CASE k \in 1 .. n
    <3>1. x \notin DOMAIN r.vars
      BY <1>2, <2>2
    <3>2. x \in DOMAIN m.vars /\ m.vars[x] = chain[k].vars[x]
      BY <1>2, <2>2 DEF Holds
    <3> QED
      BY <3>1, <3>2, MergedVars
  <2> QED
    BY <2>1, <2>2
<1>3. ASSUME NEW x \in DOMAIN chain[k].proxies,
             \A j \in 1 .. n + 1 : x \in DOMAIN chain[j].proxies => j <= k
      PROVE  x \in DOMAIN q.proxies /\ q.proxies[x] = chain[k].proxies[x]
  <2>1. CASE k = n + 1
    BY <2>1, MergedRest
  <2>2. CASE k \in 1 .. n
    <3>1. x \notin DOMAIN r.proxies
      BY <1>3, <2>2
    <3>2. x \in DOMAIN m.proxies /\ m.proxies[x] = chain[k].proxies[x]
      BY <1>3, <2>2 DEF Holds
    <3> QED
      BY <3>1, <3>2, MergedRest
  <2> QED
    BY <2>1, <2>2
<1>4. ASSUME chain[k].public_web # None,
             \A j \in 1 .. n + 1 : chain[j].public_web # None => j <= k
      PROVE  q.public_web = chain[k].public_web
  <2>1. CASE k = n + 1
    BY <1>4, <2>1, MergedRest
  <2>2. CASE k \in 1 .. n
    <3>1. r.public_web = None
      BY <1>4, <2>2
    <3>2. m.public_web = chain[k].public_web
      BY <1>4, <2>2 DEF Holds
    <3> QED
      BY <3>1, <3>2, MergedRest
  <2> QED
    BY <2>1, <2>2
<1> QED
  BY <1>2, <1>3, <1>4

\* A profile laid below takes nothing from what is held.
LEMMA HoldsOver ==
  ASSUME NEW m, NEW n \in Nat, Holds(m, n), NEW b, NEW q,
         q.vars = m.vars, q.proxies = m.proxies, q.public_web = m.public_web
  PROVE  Holds(Merge(b, q), n)
<1>1. \A x \in DOMAIN m.vars : x \in DOMAIN Merge(b, q).vars
                               /\ Merge(b, q).vars[x] = m.vars[x]
  BY MergedVars
<1>2. \A x \in DOMAIN m.proxies : x \in DOMAIN Merge(b, q).proxies
                                  /\ Merge(b, q).proxies[x] = m.proxies[x]
  BY MergedRest
<1>3. m.public_web # None => Merge(b, q).public_web = m.public_web
  BY MergedRest
<1> QED
  BY <1>1, <1>2, <1>3 DEF Holds

\* What is held when all layers are merged is the property of the result, but
\* for the variables of the proxy.
LEMMA HeldWins ==
  ASSUME NEW m, chain \in Seq(ResolvedLayer), Holds(m, Len(chain)),
         NEW q, NEW R,
         \A x \in R : q.vars[x] = ProxyProfile.vars[x],
         \A x \in DOMAIN m.vars \ R :
           x \in DOMAIN q.vars /\ q.vars[x] = m.vars[x],
         q.proxies = m.proxies, q.public_web = m.public_web
  PROVE  Wins(q, chain, R)
<1>1. DOMAIN chain = 1 .. Len(chain)
  BY LenProperties
<1>2. ASSUME NEW k \in DOMAIN chain, NEW n \in DOMAIN chain[k].vars \ R,
             IsLast(k, {j \in DOMAIN chain : n \in DOMAIN chain[j].vars})
      PROVE  n \in DOMAIN q.vars /\ q.vars[n] = chain[k].vars[n]
  <2>1. n \in DOMAIN m.vars /\ m.vars[n] = chain[k].vars[n]
    BY <1>1, <1>2 DEF IsLast, Holds
  <2> QED
    BY <2>1
<1>3. ASSUME NEW k \in DOMAIN chain, NEW n \in DOMAIN chain[k].proxies,
             IsLast(k, {j \in DOMAIN chain : n \in DOMAIN chain[j].proxies})
      PROVE  n \in DOMAIN q.proxies
               /\ q.proxies[n] = chain[k].proxies[n]
  BY <1>1, <1>3 DEF IsLast, Holds
<1>4. ASSUME NEW k \in DOMAIN chain,
             IsLast(k, {j \in DOMAIN chain : chain[j].public_web # None})
      PROVE  q.public_web = chain[k].public_web
  BY <1>1, <1>4 DEF IsLast, Holds
<1> QED
  BY <1>2, <1>3, <1>4 DEF Wins

LEMMA ProxyProfileRest ==
  /\ DOMAIN ProxyProfile.vars = ProxyVars
  /\ ProxyProfile.proxies = NoEntries
  /\ ProxyProfile.public_web = None
<1>1. ProxyProfile.proxies = NoEntries /\ ProxyProfile.public_web = None
  BY DEF ProxyProfile, Default
<1>2. DOMAIN ProxyProfile.vars = ProxyVars
  BY DEF ProxyProfile, ProxyEnv, ProxyVars, Upsert, Default
<1> QED
  BY <1>1, <1>2

LEMMA WinsInit == Init => WinsInv
  BY DEF Init, WinsInv, LastLayerWins

LEMMA WinsStep == ASSUME TypeInv, TypeInv', WinsInv, [Next]_vars PROVE WinsInv'
<1>1. /\ chain \in Seq(ResolvedLayer) /\ Len(chain) \in Nat
      /\ LayerCount \in Nat /\ at \in Nat
  BY SelectionIsSeq, LenProperties
     DEF TypeInv, Progress, Results, LayerCount
<1>2. UNCHANGED inputs
  BY InputsStep DEF TypeInv
<1>3. CASE ResolvedAll
  <2>1. Holds(merged, at - 1)'
    <3>1. at' - 1 = 0
      BY <1>3 DEF ResolvedAll
    <3> QED
      BY <3>1 DEF Holds
  <2>2. pc' = "folding" /\ LastLayerWins'
    BY <1>3 DEF ResolvedAll, LastLayerWins
  <2> QED
    BY <2>1, <2>2, <1>3 DEF WinsInv, ResolvedAll
<1>4. CASE Fold
  <2>1. Holds(Merge(merged, chain[(at - 1) + 1]), (at - 1) + 1)
    <3>1. Holds(merged, at - 1) /\ at - 1 \in Nat
      BY <1>4, <1>1 DEF WinsInv, Fold, TypeInv, Progress
    <3> QED
      BY <3>1, HoldsMerge
  <2>2. (at - 1) + 1 = at /\ at' - 1 = at
    BY <1>1, <1>4 DEF Fold
  <2>3. Holds(merged', at' - 1)
    BY <2>1, <2>2, <1>4 DEF Fold
  <2>4. Holds(merged, at - 1)'
    BY <2>3, <1>4 DEF Holds, Fold
  <2> QED
    BY <1>4, <2>4 DEF WinsInv, Fold, LastLayerWins
<1>5. CASE Finalize
  <2>1. at - 1 = LayerCount
    BY <1>1, <1>5 DEF TypeInv, Progress, Finalize
  <2>2. Holds(merged, LayerCount)
    BY <1>5, <2>1 DEF WinsInv, Finalize
  <2>3. IsProfile(merged)
    BY DEF TypeInv, Results
  <2>4. /\ Cleared(merged).vars = merged.vars
        /\ Cleared(merged).proxies = merged.proxies
        /\ Cleared(merged).public_web = merged.public_web
    BY <2>3, ClearedFields
  <2>5. Holds(Merge(Base(merged, host), Cleared(merged)), LayerCount)
    BY <1>1, <2>2, <2>4, HoldsOver
  <2>6. Holds(merged', LayerCount)
    BY <1>5, <2>5 DEF Finalize, Finalized
  <2>7. Holds(merged, LayerCount)'
    BY <1>5, <2>6 DEF Finalize, Holds, LayerCount
  <2>8. /\ pc' = IF command = "run" THEN "starting" ELSE "showing"
        /\ command \in {"run", "show"} /\ command' = command
    BY <1>2, <1>5 DEF Finalize, TypeInv, Inputs, inputs
  <2>9. LastLayerWins'
    BY <2>8 DEF LastLayerWins
  <2> QED
    BY <2>7, <2>8, <2>9 DEF WinsInv
<1>6. CASE Show
  <2>1. Holds(merged, Len(chain)) /\ command = "show"
    BY <1>6 DEF Show, WinsInv, TypeInv, Progress
  <2>2. pc' = "done" /\ result' = merged /\ chain' = chain
    BY <1>6 DEF Show
  <2>3. Reserved = {} /\ Reserved' = {}
    BY <1>2, <2>1 DEF Reserved, inputs
  <2>4. Wins(result', chain, {})
    BY <1>1, <2>1, <2>2, HeldWins
  <2>5. LastLayerWins'
    <3>1. Wins(result', chain', Reserved')
      BY <2>2, <2>3, <2>4
    <3> QED
      BY <3>1 DEF LastLayerWins, Wins
  <2> QED
    BY <2>2, <2>5 DEF WinsInv
<1>7. CASE Serve
  <2>1. Holds(merged, Len(chain)) /\ command = "run"
    BY <1>7 DEF Serve, WinsInv, TypeInv, Progress
  <2>2. /\ pc' = "done" /\ chain' = chain
        /\ result' = Merge(merged, ProxyProfile)
    BY <1>7 DEF Serve
  <2>3. Reserved' = ProxyVars
    BY <1>2, <2>1 DEF Reserved, inputs
  <2>4. /\ \A x \in ProxyVars : result'.vars[x] = ProxyProfile.vars[x]
        /\ \A x \in DOMAIN merged.vars \ ProxyVars :
             x \in DOMAIN result'.vars /\ result'.vars[x] = merged.vars[x]
    BY <2>2, MergedVars, ProxyProfileRest
  <2>5. result'.proxies = merged.proxies
    <3>1. IsMap(merged.proxies, DOMAIN merged.proxies)
      BY DEF TypeInv, Results, IsProfile, IsMounts, IsForwards, IsEnvVars, IsProxies
    <3>2. result'.proxies = Upsert(merged.proxies, NoEntries)
      BY <2>2, ProxyProfileRest DEF Merge
    <3> QED
      BY <3>1, <3>2, UpsertNothing
  <2>6. result'.public_web = merged.public_web
    BY <2>2, MergedRest, ProxyProfileRest
  <2>7. Wins(result', chain, ProxyVars)
    BY <1>1, <2>1, <2>4, <2>5, <2>6, HeldWins
  <2>8. LastLayerWins'
    BY <2>2, <2>3, <2>7 DEF LastLayerWins, Wins
  <2> QED
    BY <2>2, <2>8 DEF WinsInv
<1>8. CASE UNCHANGED <<pc, at, chain, merged, result, order>>
  <2>1. /\ pc' = pc /\ at' = at /\ chain' = chain /\ merged' = merged
        /\ result' = result /\ order' = order /\ command' = command
    BY <1>2, <1>8 DEF inputs
  <2>2. Holds(merged, at - 1)' = Holds(merged, at - 1)
    BY <2>1 DEF Holds
  <2>3. Holds(merged, LayerCount)' = Holds(merged, LayerCount)
    BY <2>1 DEF Holds, LayerCount
  <2>4. LastLayerWins' = LastLayerWins
    BY <2>1 DEF LastLayerWins, Reserved
  <2> QED
    BY <2>1, <2>2, <2>3, <2>4 DEF WinsInv
<1>9. ASSUME pc' \in {"normalizing", "validating", "resolving", "failed"}
      PROVE  WinsInv'
  BY <1>9 DEF WinsInv, LastLayerWins
<1>10. \/ ResolvedAll \/ Fold \/ Finalize \/ Show \/ Serve
       \/ UNCHANGED <<pc, at, chain, merged, result, order>>
       \/ pc' \in {"normalizing", "validating", "resolving", "failed"}
  BY DEF Next, vars, Begin, NoCwd, Normalize, NormalizeFails, Choose,
         ChooseFails, Validate, ValidateFails, ValidatedAll, Resolve,
         ResolveFails, ServeFails, Ended, Stop
<1> QED
  BY <1>3, <1>4, <1>5, <1>6, <1>7, <1>8, <1>9, <1>10

\* Whatever the layers say, the last of them to say something of a variable, a
\* host or the toggle has its way, in what show prints and what run starts.
THEOREM LastLayerAlwaysWins == Spec => []LastLayerWins
<1>1. TypeInv /\ WinsInv /\ [Next]_vars => TypeInv' /\ WinsInv'
  BY TypeStep, WinsStep
<1>2. Spec => [](TypeInv /\ WinsInv)
  BY <1>1, TypeInit, WinsInit, PTL DEF Spec
<1>3. WinsInv => LastLayerWins
  BY DEF WinsInv
<1> QED
  BY <1>2, <1>3, PTL

-----------------------------------------------------------------------------
(* What is run has passed the checks.                                      *)

\* What may be bound, in every profile of this run.
Bindable == host.files \cup {host.cwd, BundleFile, <<"usr">>, <<"etc">>}

GoodMounts == {m \in Mount : m.kind = "mount" => m.host \in Bindable}
GoodForwards == {f \in Forward : f.host_port # 0 /\ f.sandbox_port # 0}

\* A profile that has passed the checks.
Passed(p) ==
  /\ p.mounts \in Seq(GoodMounts)
  /\ p.forwards \in Seq(GoodForwards)
  /\ {"", "NUL"} \cap DOMAIN p.vars = {}

ScreenedInv ==
  /\ \A p \in Profile \ todo : Expandable(config[p])
  /\ pc = "validating" => \A k \in 1 .. at - 1 : Valid(Layer(k), host)
  /\ pc = "resolving" => \A k \in 1 .. LayerCount : Valid(Layer(k), host)
  /\ \A k \in DOMAIN chain : Passed(chain[k])
  /\ Passed(merged)
  /\ Passed(result)

\* A merge takes nothing from elsewhere.
LEMMA PassedMerge ==
  ASSUME NEW l, NEW r, Passed(l), Passed(r)
  PROVE  Passed(Merge(l, r))
<1>1. /\ Merge(l, r).mounts = l.mounts \o r.mounts
      /\ Merge(l, r).forwards = l.forwards \o r.forwards
      /\ DOMAIN Merge(l, r).vars = DOMAIN l.vars \cup DOMAIN r.vars
  BY MergedVars DEF Merge
<1>2. l.mounts \o r.mounts \in Seq(GoodMounts)
  BY ConcatProperties DEF Passed
<1>3. l.forwards \o r.forwards \in Seq(GoodForwards)
  BY ConcatProperties DEF Passed
<1>4. {"", "NUL"} \cap (DOMAIN l.vars \cup DOMAIN r.vars) = {}
  BY DEF Passed
<1> QED
  BY <1>1, <1>2, <1>3, <1>4 DEF Passed

\* A valid declaration resolves to what passes.
LEMMA PassedResolved ==
  ASSUME NEW d, IsDecl(d), Valid(d, host)
  PROVE  Passed(Resolved(d, host))
<1> DEFINE p == Resolved(d, host)
<1>1. /\ p.mounts = [i \in DOMAIN d.mounts |-> MountOf(d.mounts[i])]
      /\ p.forwards = [i \in DOMAIN d.forwards |-> ForwardOf(d.forwards[i])]
      /\ p.vars = VarsOf(d.env, host)
  BY DEF Resolved
<1> HIDE DEF p
<1>2. /\ d.mounts \in Seq(MountDecl) /\ d.forwards \in Seq(ForwardDecl)
      /\ d.env \in Seq(EnvVarDecl)
  BY DEF IsDecl, IsMountDecls, IsForwardDecls, IsEnvVarDecls
<1>3. ASSUME NEW i \in DOMAIN d.mounts
      PROVE  MountOf(d.mounts[i]) \in GoodMounts
  <2>1. MountOf(d.mounts[i]) \in Mount
    BY <1>2, Element, MountOfIsMount
  <2>2. MountOf(d.mounts[i]).host \in Bindable
    BY DEF Valid, ValidMount, MountOf, Bind, Bindable
  <2> QED
    BY <2>1, <2>2 DEF GoodMounts
<1>4. p.mounts \in Seq(GoodMounts)
  BY <1>1, <1>2, <1>3, Mapped
<1>5. ASSUME NEW i \in DOMAIN d.forwards
      PROVE  ForwardOf(d.forwards[i]) \in GoodForwards
  <2>1. d.forwards[i] \in ForwardDecl
    BY <1>2, Element
  <2>2. ValidForward(d.forwards[i])
    BY DEF Valid
  <2> QED
    BY <2>1, <2>2
       DEF ValidForward, ForwardOf, GoodForwards, ForwardDecl, Forward, Option
<1>6. p.forwards \in Seq(GoodForwards)
  BY <1>1, <1>2, <1>5, Mapped
<1>7. {"", "NUL"} \cap DOMAIN p.vars = {}
  <2> DEFINE Entry(i) == [key |-> d.env[i].name, item |-> ValueOf(d.env[i], host)]
             entries == [i \in DOMAIN d.env |-> Entry(i)]
  <2>1. DOMAIN entries = DOMAIN d.env
          /\ \A i \in DOMAIN d.env : entries[i].key = d.env[i].name
    OBVIOUS
  <2>2. p.vars = LastEntries(entries)
    BY <1>1 DEF VarsOf
  <2> HIDE DEF entries
  <2>3. DOMAIN LastEntries(entries) \subseteq {entries[i].key : i \in DOMAIN entries}
    BY DEF LastEntries
  <2>4. \A i \in DOMAIN d.env : d.env[i].name \notin {"", "NUL"}
    BY DEF Valid, ValidEnvVar
  <2>5. {entries[i].key : i \in DOMAIN entries} = {d.env[i].name : i \in DOMAIN d.env}
    BY <2>1
  <2>6. {"", "NUL"} \cap {d.env[i].name : i \in DOMAIN d.env} = {}
    BY <2>4
  <2> QED
    BY <2>2, <2>3, <2>5, <2>6
<1>8. Passed(p)
  BY <1>4, <1>6, <1>7 DEF Passed
<1> QED
  BY <1>8 DEF p

LEMMA PassedDefault == Passed(Default)
<1>1. Default.mounts = <<>> /\ Default.forwards = <<>> /\ DOMAIN Default.vars = {}
  BY DEF Default, NoEntries
<1> QED
  BY <1>1, EmptySeq DEF Passed

LEMMA PassedProxyProfile == Passed(ProxyProfile)
<1> DEFINE bundle == Bind(BundlePath, BundleFile, "ro")
           forward == [host_port |-> ProxyPort, sandbox_port |-> ProxyPort]
<1>1. ProxyProfile.mounts = <<bundle>> /\ ProxyProfile.forwards = <<forward>>
  BY DEF ProxyProfile, Default
<1>2. bundle \in GoodMounts
  <2>1. BundlePath \in Path /\ BundleFile \in Path
    BY TwoPath, WordAssumption DEF BundlePath, BundleFile
  <2>2. bundle \in Mount /\ bundle.host = BundleFile
    BY <2>1, BindIsMount DEF Access, Bind
  <2> HIDE DEF bundle
  <2> QED
    BY <2>2 DEF GoodMounts, Bindable
<1>3. forward \in GoodForwards
  BY ProxyPortAssumption DEF GoodForwards, Forward
<1>4. {"", "NUL"} \cap DOMAIN ProxyProfile.vars = {}
  BY ProxyProfileRest, NamesAssumption
<1> HIDE DEF bundle, forward
<1>5. <<bundle>> \in Seq(GoodMounts) /\ <<forward>> \in Seq(GoodForwards)
  BY <1>2, <1>3
<1> QED
  BY <1>1, <1>4, <1>5 DEF Passed

LEMMA PassedSystemBaseline == SystemBaseline \in Seq(GoodMounts)
<1>1. \A m \in Mount : m.kind # "mount" => m \in GoodMounts
  BY DEF GoodMounts
<1>2. <<>> \in Path
  BY DEF Path
<1>3. \A name \in Word : Symlink(name) \in GoodMounts
  <2>1. \A name \in Word : Symlink(name) \in Mount /\ Symlink(name).kind = "symlink"
    BY <1>2, OnePath, TwoPath, WordAssumption DEF Symlink, Mount
  <2> QED
    BY <1>1, <2>1
<1>4. \A s \in Word, kind \in {"dev", "proc", "tmpfs"} :
        Special(<<s>>, kind) \in GoodMounts
  <2>1. \A s \in Word, kind \in {"dev", "proc", "tmpfs"} :
          Special(<<s>>, kind) \in Mount /\ Special(<<s>>, kind).kind = kind
    BY <1>2, OnePath DEF Special, Mount
  <2> QED
    BY <1>1, <2>1
<1>5. \A s \in {"usr", "etc"} : Bind(<<s>>, <<s>>, "ro") \in GoodMounts
  <2>1. \A s \in Word : Bind(<<s>>, <<s>>, "ro") \in Mount
                         /\ Bind(<<s>>, <<s>>, "ro").host = <<s>>
    BY OnePath, BindIsMount DEF Access, Bind
  <2> QED
    BY <2>1, WordAssumption DEF GoodMounts, Bindable
<1>6. /\ Bind(<<"usr">>, <<"usr">>, "ro") \in GoodMounts
      /\ Symlink("bin") \in GoodMounts /\ Symlink("sbin") \in GoodMounts
      /\ Symlink("lib") \in GoodMounts /\ Symlink("lib64") \in GoodMounts
      /\ Bind(<<"etc">>, <<"etc">>, "ro") \in GoodMounts
      /\ Special(<<"dev">>, "dev") \in GoodMounts
      /\ Special(<<"proc">>, "proc") \in GoodMounts
      /\ Special(<<"tmp">>, "tmpfs") \in GoodMounts
  BY <1>3, <1>4, <1>5, WordAssumption
<1> QED
  BY <1>6 DEF SystemBaseline

LEMMA PassedBase ==
  ASSUME NEW p, IsHost(host)
  PROVE  Passed(Base(p, host))
<1> DEFINE tmpfs == Special(host.home, "tmpfs")
           project == Bind(host.cwd, host.cwd, FromReadonly(p.readonly))
           tail == IF host.cwd = None THEN <<>> ELSE <<project>>
<1>1. /\ Base(p, host).mounts = (SystemBaseline \o <<tmpfs>>) \o tail
      /\ Base(p, host).forwards = <<>>
      /\ DOMAIN Base(p, host).vars \subseteq {"PATH", "HOME"} \cup Inherited
  BY DEF Base, VarsBase, MountsBase, Default
<1>2. tmpfs \in GoodMounts
  <2>1. host.home \in Path /\ <<>> \in Path
    BY DEF IsHost, Path
  <2> QED
    BY <2>1 DEF GoodMounts, Special, Mount
<1>3. host.cwd # None => project \in GoodMounts
  <2>1. host.cwd # None => project \in Mount
    BY BindIsMount DEF IsHost, Option, FromReadonly, Access
  <2>2. project.host = host.cwd
    BY DEF Bind
  <2> HIDE DEF project
  <2> QED
    BY <2>1, <2>2 DEF GoodMounts, Bindable
<1> HIDE DEF tmpfs, project
<1>4. <<tmpfs>> \in Seq(GoodMounts) /\ tail \in Seq(GoodMounts)
  BY <1>2, <1>3
<1> HIDE DEF tail
<1>5. SystemBaseline \o <<tmpfs>> \in Seq(GoodMounts)
  BY <1>4, PassedSystemBaseline, ConcatProperties
<1>6. (SystemBaseline \o <<tmpfs>>) \o tail \in Seq(GoodMounts)
  BY <1>4, <1>5, ConcatProperties
<1>7. {"", "NUL"} \cap DOMAIN Base(p, host).vars = {}
  BY <1>1, NamesAssumption
<1> QED
  BY <1>1, <1>6, <1>7, EmptySeq DEF Passed

LEMMA ScreenedInit == Init => ScreenedInv
<1> SUFFICES ASSUME Init PROVE ScreenedInv
  OBVIOUS
<1>1. Profile \ todo = {} /\ pc = "begin" /\ DOMAIN chain = {}
        /\ merged = Default /\ result = Default
  BY DEF Init
<1> QED
  BY <1>1, PassedDefault DEF ScreenedInv

LEMMA ScreenedStep ==
  ASSUME TypeInv, TypeInv', ScreenedInv, [Next]_vars
  PROVE  ScreenedInv'
<1>1. UNCHANGED inputs
  BY InputsStep DEF TypeInv
<1>3. /\ chain \in Seq(ResolvedLayer) /\ Len(chain) \in Nat
      /\ LayerCount \in Nat /\ at \in Nat
  BY SelectionIsSeq, LenProperties DEF TypeInv, Progress, Results, LayerCount
<1>4. (\A p \in Profile \ todo : Expandable(config[p]))'
  <2>1. CASE UNCHANGED todo
    BY <1>1, <2>1 DEF ScreenedInv, inputs
  <2>2. ASSUME NEW p \in Profile, Normalize(p)
        PROVE  (\A q \in Profile \ todo : Expandable(config[q]))'
    <3>1. Expandable(config[p])
      BY <2>2 DEF Normalize, TypeInv, Visited
    <3>2. todo' = todo \ {p}
      BY <2>2 DEF Normalize
    <3> QED
      BY <1>1, <3>1, <3>2 DEF ScreenedInv, inputs
  <2>3. (\E p \in Profile : Normalize(p)) \/ UNCHANGED todo
    BY DEF Next, vars, Begin, NoCwd, NormalizeFails, Choose, ChooseFails,
           Validate, ValidateFails, ValidatedAll, Resolve, ResolveFails,
           ResolvedAll, Fold, Finalize, Show, Serve, ServeFails, Ended, Stop
  <2> QED
    BY <2>1, <2>2, <2>3
<1>5. (pc = "validating" => \A k \in 1 .. at - 1 : Valid(Layer(k), host))'
  <2>1. CASE Choose
    <3>1. at' = 1
      BY <2>1 DEF Choose, TypeInv, Progress
    <3> QED
      BY <3>1
  <2>2. CASE Validate
    <3>1. \A k \in 1 .. at : Valid(Layer(k), host)
      BY <1>3, <2>2 DEF Validate, ScreenedInv
    <3>2. at' - 1 = at /\ UNCHANGED <<profiles, order>>
      BY <1>3, <2>2 DEF Validate
    <3> QED
      BY <1>1, <3>1, <3>2 DEF Layer, inputs
  <2>3. CASE UNCHANGED <<pc, at, profiles, order>>
    BY <1>1, <2>3 DEF ScreenedInv, Layer, inputs
  <2>4. CASE pc' # "validating"
    BY <2>4
  <2>5. Choose \/ Validate \/ UNCHANGED <<pc, at, profiles, order>>
          \/ pc' # "validating"
    BY DEF Next, vars, Begin, NoCwd, Normalize, NormalizeFails, ChooseFails,
           ValidateFails, ValidatedAll, Resolve, ResolveFails, ResolvedAll,
           Fold, Finalize, Show, Serve, ServeFails, Ended, Stop
  <2> QED
    BY <2>1, <2>2, <2>3, <2>4, <2>5
<1>6. (pc = "resolving" => \A k \in 1 .. LayerCount : Valid(Layer(k), host))'
  <2>1. CASE ValidatedAll
    <3>1. \A k \in 1 .. LayerCount : Valid(Layer(k), host)
      BY <1>3, <2>1 DEF ValidatedAll, ScreenedInv
    <3>2. UNCHANGED <<profiles, order>>
      BY <2>1 DEF ValidatedAll
    <3> QED
      BY <1>1, <3>1, <3>2 DEF Layer, LayerCount, inputs
  <2>2. CASE UNCHANGED <<pc, profiles, order>>
    BY <1>1, <2>2 DEF ScreenedInv, Layer, LayerCount, inputs
  <2>3. CASE pc' # "resolving"
    BY <2>3
  <2>4. ValidatedAll \/ UNCHANGED <<pc, profiles, order>> \/ pc' # "resolving"
    BY DEF Next, vars, Begin, NoCwd, Normalize, NormalizeFails, Choose,
           ChooseFails, Validate, ValidateFails, Resolve, ResolveFails,
           ResolvedAll, Fold, Finalize, Show, Serve, ServeFails, Ended, Stop
  <2> QED
    BY <2>1, <2>2, <2>3, <2>4
<1>7. \A k \in DOMAIN chain' : Passed(chain'[k])
  <2>1. CASE Resolve
    <3>1. Layer(at) \in NormalDecls \cup CliDecls
      BY <2>1, LayerDeclared DEF TypeInv, Progress, Resolve
    <3>2. IsDecl(Layer(at))
      BY <3>1, DeclaredTyped DEF TypeInv
    <3>3. Valid(Layer(at), host)
      BY <2>1 DEF Resolve, ScreenedInv, TypeInv, Progress
    <3>4. Passed(Resolved(Layer(at), host))
      BY <3>2, <3>3, PassedResolved
    <3> QED
      BY <2>1, <3>4, ResolveAppends DEF ScreenedInv
  <2>2. CASE UNCHANGED chain
    BY <2>2 DEF ScreenedInv
  <2>3. Resolve \/ UNCHANGED chain
    BY DEF Next, vars, Begin, NoCwd, Normalize, NormalizeFails, Choose,
           ChooseFails, Validate, ValidateFails, ValidatedAll, ResolveFails,
           ResolvedAll, Fold, Finalize, Show, Serve, ServeFails, Ended, Stop
  <2> QED
    BY <2>1, <2>2, <2>3
<1>8. Passed(merged')
  <2>1. CASE Fold
    <3>1. at \in DOMAIN chain
      BY <2>1, LenProperties DEF Fold, TypeInv, Progress, Results
    <3>2. Passed(merged) /\ Passed(chain[at])
      BY <3>1 DEF ScreenedInv
    <3> QED
      BY <2>1, <3>2, PassedMerge DEF Fold
  <2>2. CASE Finalize
    <3>1. IsProfile(merged) /\ IsHost(host)
      BY HostTyped DEF TypeInv, Results, Inputs
    <3>2. Passed(Cleared(merged))
      BY <3>1, ClearedFields DEF Passed, ScreenedInv
    <3> QED
      BY <2>2, <3>1, <3>2, PassedBase, PassedMerge DEF Finalize, Finalized
  <2>3. CASE UNCHANGED merged
    BY <2>3 DEF ScreenedInv
  <2>4. Fold \/ Finalize \/ UNCHANGED merged
    BY DEF Next, vars, Begin, NoCwd, Normalize, NormalizeFails, Choose,
           ChooseFails, Validate, ValidateFails, ValidatedAll, Resolve,
           ResolveFails, ResolvedAll, Show, Serve, ServeFails, Ended, Stop
  <2> QED
    BY <2>1, <2>2, <2>3, <2>4
<1>9. Passed(result')
  <2>1. CASE Show
    BY <2>1 DEF Show, ScreenedInv
  <2>2. CASE Serve
    BY <2>2, PassedMerge, PassedProxyProfile DEF Serve, ScreenedInv
  <2>3. CASE UNCHANGED result
    BY <2>3 DEF ScreenedInv
  <2>4. Show \/ Serve \/ UNCHANGED result
    BY DEF Next, vars, Begin, NoCwd, Normalize, NormalizeFails, Choose,
           ChooseFails, Validate, ValidateFails, ValidatedAll, Resolve,
           ResolveFails, ResolvedAll, Fold, Finalize, ServeFails, Ended, Stop
  <2> QED
    BY <2>1, <2>2, <2>3, <2>4
<1>10. (\A k \in DOMAIN chain : Passed(chain[k]))' /\ Passed(merged)'
         /\ Passed(result)'
  BY <1>1, <1>7, <1>8, <1>9 DEF Passed, GoodMounts, GoodForwards, Bindable, inputs
<1> QED
  BY <1>4, <1>5, <1>6, <1>10 DEF ScreenedInv

\* Whichever layer it is from, what is shown or run has passed the checks: no
\* path of the file was refused, what is bound existed, no port is 0 and no
\* variable is without a proper name.
THEOREM AllScreened == Spec => []Screened
<1>1. TypeInv /\ ScreenedInv /\ [Next]_vars => TypeInv' /\ ScreenedInv'
  BY TypeStep, ScreenedStep
<1>2. Spec => [](TypeInv /\ ScreenedInv)
  BY <1>1, TypeInit, ScreenedInit, PTL DEF Spec
<1>3. TypeInv /\ ScreenedInv => Screened
  <2> SUFFICES ASSUME TypeInv, ScreenedInv, pc = "done" PROVE Screened
    BY DEF Screened
  <2>1. todo = {} /\ Passed(result)
    BY DEF TypeInv, Progress, ScreenedInv
  <2>2. \A i \in DOMAIN result.mounts : result.mounts[i] \in GoodMounts
    BY <2>1, Element DEF Passed
  <2>3. \A i \in DOMAIN result.forwards : result.forwards[i] \in GoodForwards
    BY <2>1, Element DEF Passed
  <2>4. \A p \in Profile : Expandable(config[p])
    BY <2>1 DEF ScreenedInv
  <2>5. {"", "NUL"} \cap DOMAIN result.vars = {}
    BY <2>1 DEF Passed
  <2>6. \A i \in DOMAIN result.mounts :
          result.mounts[i].kind = "mount" => result.mounts[i].host \in Bindable
    BY <2>2 DEF GoodMounts
  <2>7. \A i \in DOMAIN result.forwards :
          result.forwards[i].host_port # 0 /\ result.forwards[i].sandbox_port # 0
    BY <2>3 DEF GoodForwards
  <2> QED
    BY <2>4, <2>5, <2>6, <2>7 DEF Screened, Bindable
<1> QED
  BY <1>2, <1>3, PTL
=============================================================================
