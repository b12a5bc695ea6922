-------------------------- MODULE SandboxViewProofs --------------------------
(***************************************************************************)
(* Proofs about SandboxView: what the command gets of its environment, its *)
(* PATH, its forwards and its rules, for every set of profiles, is what    *)
(* the layers wrote.                                                       *)
(*                                                                         *)
(* merge_all_right_biased is an iteration, and the properties speak of all *)
(* layers at once.  So the fold's accumulator is given in a closed form    *)
(* first (FoldOf), and one more merge is one more layer of it.  The        *)
(* invariant then says that every layer resolved is what was written, and  *)
(* the accumulator, later the finalized profile and the result, what the   *)
(* closed form of these layers says.                                       *)
(*                                                                         *)
(* What the command sees is read from bwrap's and pasta's command lines.   *)
(* Both are lists of flags, each with the operands it takes, and a reader  *)
(* that knows how many these are gets the list back whatever the operands  *)
(* look like (ReadsBack).  What the mounts show is then a matter of the    *)
(* last one that covers a path: of two lists, one after the other, the     *)
(* second covers the first (SeesConcat).                                   *)
(***************************************************************************)
EXTENDS SandboxView, LayersProofs, FiniteSetTheorems

-----------------------------------------------------------------------------
(* Last ones.                                                              *)

LEMMA MaxIs ==
  ASSUME NEW S, NEW k \in S, S \subseteq Nat, \A j \in S : j <= k
  PROVE  Max(S) = k
<1>1. \A j \in S : k >= j
  OBVIOUS
<1>2. \A x \in S : (\A j \in S : x >= j) => x = k
  BY <1>1
<1> QED
  BY <1>1, <1>2 DEF Max

LEMMA MaxExists ==
  ASSUME NEW n \in Nat, NEW S, S \subseteq 1 .. n, S # {}
  PROVE  Max(S) \in S /\ \A j \in S : j <= Max(S)
<1>1. PICK k \in S : \A j \in S : j <= k
  BY LastExists
<1>2. Max(S) = k
  <2>1. S \subseteq Nat
    OBVIOUS
  <2> QED
    BY <1>1, <2>1, MaxIs
<1> QED
  BY <1>1, <1>2

-----------------------------------------------------------------------------
(* The closed form of merge_all_right_biased: of the first n of the        *)
(* layers c.                                                               *)

\* A field that is a list: all of them, one after the other.
Joined(c, n, f) == FlattenSeq([k \in 1 .. n |-> c[k][f]])

\* A field that is an Option: the last one that is there.
Saying(c, n, f) == {k \in 1 .. n : c[k][f] # None}
Said(c, n, f) ==
  IF Saying(c, n, f) = {} THEN None ELSE c[Max(Saying(c, n, f))][f]

\* A field that is a map: of each key the last layer's item.
Having(c, n, f, x) == {k \in 1 .. n : x \in DOMAIN c[k][f]}
Keys(c, n, f) == UNION {DOMAIN c[k][f] : k \in 1 .. n}
Laid(c, n, f) ==
  [x \in Keys(c, n, f) |-> c[Max(Having(c, n, f, x))][f][x]]

FoldOf(c, n) ==
  [mounts |-> Joined(c, n, "mounts"),
   readonly |-> Said(c, n, "readonly"),
   forwards |-> Joined(c, n, "forwards"),
   vars |-> Laid(c, n, "vars"),
   path |-> Said(c, n, "path"),
   path_add |-> Joined(c, n, "path_add"),
   public_web |-> Said(c, n, "public_web"),
   proxies |-> Laid(c, n, "proxies")]

LEMMA FoldNone ==
  ASSUME NEW c
  PROVE  FoldOf(c, 0) = Default
<1>1. ASSUME NEW f
      PROVE  Joined(c, 0, f) = <<>>
  <2>1. [k \in 1 .. 0 |-> c[k][f]] = <<>>
    OBVIOUS
  <2> QED
    BY <2>1, FlattenEmpty DEF Joined
<1>2. ASSUME NEW f
      PROVE  Said(c, 0, f) = None
  BY DEF Said, Saying
<1>3. ASSUME NEW f
      PROVE  Laid(c, 0, f) = NoEntries
  <2>1. Keys(c, 0, f) = {}
    BY DEF Keys
  <2> QED
    BY <2>1 DEF Laid, NoEntries
<1> QED
  BY <1>1, <1>2, <1>3, Zenon DEF FoldOf, Default

LEMMA JoinedMore ==
  ASSUME NEW S, NEW c, NEW n \in Nat, NEW f,
         \A k \in 1 .. n + 1 : c[k][f] \in Seq(S)
  PROVE  /\ Joined(c, n, f) \in Seq(S)
         /\ Joined(c, n + 1, f) \in Seq(S)
         /\ Joined(c, n + 1, f) = Joined(c, n, f) \o c[n + 1][f]
<1> DEFINE s == [k \in 1 .. n |-> c[k][f]]
           t == [k \in 1 .. n + 1 |-> c[k][f]]
<1>1. s \in [1 .. n -> Seq(S)] /\ t \in [1 .. n + 1 -> Seq(S)]
  OBVIOUS
<1>2. (\A i \in 1 .. n : s[i] = t[i]) /\ t[n + 1] = c[n + 1][f]
  OBVIOUS
<1>3. Joined(c, n, f) = FlattenSeq(s) /\ Joined(c, n + 1, f) = FlattenSeq(t)
  BY DEF Joined
<1> HIDE DEF s, t
<1> QED
  BY <1>1, <1>2, <1>3, FlattenMore

LEMMA SaidMore ==
  ASSUME NEW c, NEW n \in Nat, NEW f
  PROVE  Said(c, n + 1, f) = Or(c[n + 1][f], Said(c, n, f))
<1> DEFINE old == Saying(c, n, f)
           new == Saying(c, n + 1, f)
<1>1. old \subseteq 1 .. n /\ new \subseteq 1 .. n + 1 /\ new \subseteq Nat
  BY DEF Saying
<1>2. CASE c[n + 1][f] # None
  <2>1. n + 1 \in new /\ \A j \in new : j <= n + 1
    BY <1>2 DEF Saying
  <2>2. Max(new) = n + 1
    BY <1>1, <2>1, MaxIs
  <2>3. Said(c, n + 1, f) = c[n + 1][f]
    BY <2>1, <2>2 DEF Said
  <2> QED
    BY <1>2, <2>3 DEF Or
<1>3. CASE c[n + 1][f] = None
  <2>1. new = old
    BY <1>3 DEF Saying
  <2> QED
    BY <1>3, <2>1 DEF Said, Or
<1> QED
  BY <1>2, <1>3

LEMMA LaidMore ==
  ASSUME NEW c, NEW n \in Nat, NEW f
  PROVE  Laid(c, n + 1, f) = Upsert(Laid(c, n, f), c[n + 1][f])
<1> DEFINE old == Laid(c, n, f)
           new == Laid(c, n + 1, f)
           more == c[n + 1][f]
           U == Upsert(old, more)
<1>1. DOMAIN old = Keys(c, n, f) /\ DOMAIN new = Keys(c, n + 1, f)
  BY DEF Laid
<1>2. Keys(c, n + 1, f) = Keys(c, n, f) \cup DOMAIN more
  BY DEF Keys
<1>3. ASSUME NEW x \in DOMAIN new
      PROVE  new[x] = U[x]
  <2> DEFINE H == Having(c, n + 1, f, x)
  <2>1. new[x] = c[Max(H)][f][x]
    BY <1>1 DEF Laid
  <2>2. H \subseteq Nat /\ \A j \in H : j <= n + 1
    BY DEF Having
  <2>3. CASE x \in DOMAIN more
    <3>1. n + 1 \in H
      BY <2>3 DEF Having
    <3>2. Max(H) = n + 1
      BY <2>2, <3>1, MaxIs
    <3>3. U[x] = more[x]
      BY <1>1, <1>2, <2>3 DEF Upsert
    <3> QED
      BY <2>1, <3>2, <3>3
  <2>4. CASE x \notin DOMAIN more
    <3>1. H = Having(c, n, f, x)
      BY <2>4 DEF Having
    <3>2. x \in DOMAIN old
      BY <1>1, <1>2, <2>4
    <3>3. U[x] = old[x]
      BY <2>4, <3>2 DEF Upsert
    <3>4. old[x] = c[Max(H)][f][x]
      BY <1>1, <3>1, <3>2 DEF Laid
    <3> QED
      BY <2>1, <3>3, <3>4
  <2> QED
    BY <2>3, <2>4
<1>4. U = [x \in DOMAIN old \cup DOMAIN more |-> U[x]]
  BY DEF Upsert
<1>5. new = [x \in DOMAIN new |-> new[x]]
  BY DEF Laid
<1>6. DOMAIN new = DOMAIN old \cup DOMAIN more
  BY <1>1, <1>2
<1> HIDE DEF U, new, old
<1>7. new = U
  BY <1>3, <1>4, <1>5, <1>6
<1> QED
  BY <1>7 DEF U, new, old

\* merge_right_biased of one more layer is the closed form of one more layer.
LEMMA FoldMore ==
  ASSUME NEW c, NEW n \in Nat, \A k \in 1 .. n + 1 : IsProfile(c[k])
  PROVE  Merge(FoldOf(c, n), c[n + 1]) = FoldOf(c, n + 1)
<1>1. /\ \A k \in 1 .. n + 1 : c[k]["mounts"] \in Seq(Mount)
      /\ \A k \in 1 .. n + 1 : c[k]["forwards"] \in Seq(Forward)
      /\ \A k \in 1 .. n + 1 : c[k]["path_add"] \in Seq(Written)
  BY DEF IsProfile, IsMounts, IsForwards, IsEnvVars
<1>2. Joined(c, n + 1, "mounts") = Joined(c, n, "mounts") \o c[n + 1].mounts
  <2>1. \A k \in 1 .. n + 1 : c[k]["mounts"] \in Seq(Mount)
    BY <1>1
  <2>2. Joined(c, n + 1, "mounts") = Joined(c, n, "mounts") \o c[n + 1]["mounts"]
    BY <2>1, JoinedMore, ZenonT(40)
  <2> QED
    BY <2>2
<1>3. Joined(c, n + 1, "forwards") = Joined(c, n, "forwards") \o c[n + 1].forwards
  <2>1. \A k \in 1 .. n + 1 : c[k]["forwards"] \in Seq(Forward)
    BY <1>1
  <2>2. Joined(c, n + 1, "forwards") = Joined(c, n, "forwards") \o c[n + 1]["forwards"]
    BY <2>1, JoinedMore
  <2> QED
    BY <2>2
<1>4. Joined(c, n + 1, "path_add") = Joined(c, n, "path_add") \o c[n + 1].path_add
  <2>1. \A k \in 1 .. n + 1 : c[k]["path_add"] \in Seq(Written)
    BY <1>1
  <2>2. Joined(c, n + 1, "path_add") = Joined(c, n, "path_add") \o c[n + 1]["path_add"]
    BY <2>1, JoinedMore
  <2> QED
    BY <2>2
<1>5. /\ Said(c, n + 1, "readonly") = Or(c[n + 1].readonly, Said(c, n, "readonly"))
      /\ Said(c, n + 1, "path") = Or(c[n + 1].path, Said(c, n, "path"))
      /\ Said(c, n + 1, "public_web") =
           Or(c[n + 1].public_web, Said(c, n, "public_web"))
  BY SaidMore
<1>6. /\ Laid(c, n + 1, "vars") = Upsert(Laid(c, n, "vars"), c[n + 1].vars)
      /\ Laid(c, n + 1, "proxies") = Upsert(Laid(c, n, "proxies"), c[n + 1].proxies)
  BY LaidMore
<1> DEFINE m == FoldOf(c, n)
<1>7. /\ m.mounts = Joined(c, n, "mounts")
      /\ m.readonly = Said(c, n, "readonly")
      /\ m.forwards = Joined(c, n, "forwards")
      /\ m.vars = Laid(c, n, "vars")
      /\ m.path = Said(c, n, "path")
      /\ m.path_add = Joined(c, n, "path_add")
      /\ m.public_web = Said(c, n, "public_web")
      /\ m.proxies = Laid(c, n, "proxies")
  BY Zenon DEF FoldOf
<1> HIDE DEF m
<1>8. Merge(m, c[n + 1]) = FoldOf(c, n + 1)
  BY <1>2, <1>3, <1>4, <1>5, <1>6, <1>7, Zenon DEF FoldOf, Merge
<1> QED
  BY <1>8 DEF m

-----------------------------------------------------------------------------
(* The invariant.                                                          *)

\* How far the fold has come, and what became of it.
Folded ==
  /\ pc \in {"begin", "normalizing", "validating", "resolving"} =>
       merged = Default
  /\ pc = "folding" => merged = FoldOf(chain, at - 1)
  /\ pc \in {"showing", "starting", "done"} =>
       merged = Finalized(FoldOf(chain, Len(chain)), host)
  /\ pc = "showing" => command = "show"
  /\ pc = "starting" => command = "run"
  /\ pc = "done" =>
       result = IF command = "run" THEN Merge(merged, ProxyProfile) ELSE merged

FoldInv ==
  /\ \A k \in DOMAIN chain :
       Renderable(Layer(k), host) /\ chain[k] = Resolved(Layer(k), host)
  /\ Folded

LEMMA FoldInit == Init => FoldInv
  BY DEF Init, FoldInv, Folded

\* The layers do not change once one of them is resolved.
LEMMA ChainStep ==
  ASSUME TypeInv, FoldInv, [Next]_vars
  PROVE  (\A k \in DOMAIN chain :
            Renderable(Layer(k), host) /\ chain[k] = Resolved(Layer(k), host))'
<1>1. UNCHANGED inputs
  BY InputsStep DEF TypeInv
<1>2. CASE Resolve
  <2>1. UNCHANGED <<profiles, order>>
    BY <1>2 DEF Resolve
  <2>2. \A k \in DOMAIN chain' :
          Renderable(Layer(k), host) /\ chain'[k] = Resolved(Layer(k), host)
    <3>1. Len(chain') = at
      <4>1. Len(chain) = at - 1 /\ at \in Nat
        BY <1>2, SelectionIsSeq DEF Resolve, TypeInv, Progress, LayerCount
      <4>2. Len(chain') = Len(chain) + 1
        BY <1>2, ResolveAppends
      <4> QED
        BY <4>1, <4>2
    <3> QED
      BY <1>2, <3>1, ResolveAppends DEF FoldInv, Resolve
  <2> QED
    BY <1>1, <2>1, <2>2 DEF Layer, inputs
<1>3. CASE UNCHANGED <<profiles, order, chain>>
  BY <1>1, <1>3 DEF FoldInv, Layer, inputs
<1>4. CASE chain = <<>> /\ UNCHANGED chain
  <2>1. DOMAIN chain' = {}
    BY <1>4
  <2> QED
    BY <2>1
<1>5. pc = "normalizing" => chain = <<>>
  BY DEF TypeInv, Progress
<1>6. Resolve \/ UNCHANGED <<profiles, order, chain>>
        \/ (pc = "normalizing" /\ UNCHANGED chain)
  BY DEF Next, vars, Begin, NoCwd, Normalize, NormalizeFails, Choose,
         ChooseFails, Validate, ValidateFails, ValidatedAll, ResolveFails,
         ResolvedAll, Fold, Finalize, Show, Serve, ServeFails, Ended, Stop
<1> QED
  BY <1>2, <1>3, <1>4, <1>5, <1>6

LEMMA FoldedStep ==
  ASSUME TypeInv, FoldInv, [Next]_vars
  PROVE  Folded'
<1>1. UNCHANGED inputs
  BY InputsStep DEF TypeInv
<1>2. /\ chain \in Seq(ResolvedLayer) /\ Len(chain) \in Nat
      /\ LayerCount \in Nat /\ at \in Nat
  BY SelectionIsSeq, LenProperties DEF TypeInv, Progress, Results, LayerCount
<1>3. CASE ResolvedAll
  <2>1. at' - 1 = 0 /\ merged = Default /\ merged' = merged
    BY <1>3 DEF ResolvedAll, FoldInv, Folded
  <2>2. merged' = FoldOf(chain', at' - 1)
    BY <2>1, FoldNone
  <2> QED
    BY <1>3, <2>2 DEF Folded, ResolvedAll
<1>4. CASE Fold
  <2>1. merged = FoldOf(chain, at - 1) /\ at - 1 \in Nat /\ (at - 1) + 1 = at
    BY <1>2, <1>4 DEF FoldInv, Folded, Fold, TypeInv, Progress
  <2>2. \A k \in 1 .. (at - 1) + 1 : IsProfile(chain[k])
    BY <1>2, <1>4, <2>1 DEF Fold, TypeInv, Results
  <2>3. Merge(FoldOf(chain, at - 1), chain[(at - 1) + 1]) =
          FoldOf(chain, (at - 1) + 1)
    BY <2>1, <2>2, FoldMore
  <2>4. merged' = FoldOf(chain, at)
    BY <1>4, <2>1, <2>3 DEF Fold
  <2>5. at' - 1 = at /\ chain' = chain /\ pc' = "folding"
    BY <1>2, <1>4 DEF Fold
  <2> QED
    BY <2>4, <2>5 DEF Folded
<1>5. CASE Finalize
  <2>1. at - 1 = Len(chain)
    BY <1>2, <1>5 DEF TypeInv, Progress, Finalize
  <2>2. merged = FoldOf(chain, Len(chain))
    BY <1>5, <2>1 DEF Finalize, FoldInv, Folded
  <2>3. chain' = chain /\ host' = host
          /\ merged' = Finalized(FoldOf(chain, Len(chain)), host)
    BY <1>1, <1>5, <2>2 DEF Finalize, inputs
  <2>4. /\ pc' = IF command = "run" THEN "starting" ELSE "showing"
        /\ command \in {"run", "show"} /\ command' = command
    BY <1>1, <1>5 DEF Finalize, TypeInv, Inputs, inputs
  <2> QED
    BY <2>3, <2>4 DEF Folded
<1>6. CASE Show \/ Serve
  <2>1. /\ merged = Finalized(FoldOf(chain, Len(chain)), host)
        /\ pc' = "done" /\ merged' = merged /\ chain' = chain
        /\ result' = IF command = "run" THEN Merge(merged, ProxyProfile)
                                        ELSE merged
    BY <1>6 DEF Show, Serve, FoldInv, Folded
  <2>2. host' = host /\ command' = command
    BY <1>1 DEF inputs
  <2> QED
    BY <2>1, <2>2 DEF Folded
<1>7. CASE UNCHANGED <<pc, at, chain, merged, result>>
  BY <1>1, <1>7 DEF FoldInv, Folded, inputs
<1>8. CASE /\ pc \in {"begin", "normalizing", "validating", "resolving"}
           /\ pc' \in {"normalizing", "validating", "resolving"}
           /\ UNCHANGED merged
  BY <1>8 DEF FoldInv, Folded
<1>9. CASE pc' = "failed"
  BY <1>9 DEF Folded
<1>10. \/ ResolvedAll \/ Fold \/ Finalize \/ Show \/ Serve
       \/ UNCHANGED <<pc, at, chain, merged, result>>
       \/ /\ pc \in {"begin", "normalizing", "validating", "resolving"}
          /\ pc' \in {"normalizing", "validating", "resolving"}
          /\ UNCHANGED merged
       \/ pc' = "failed"
  BY DEF Next, vars, Begin, NoCwd, Normalize, NormalizeFails, Choose,
         ChooseFails, Validate, ValidateFails, ValidatedAll, Resolve,
         ResolveFails, ServeFails, Ended, Stop
<1> QED
  BY <1>3, <1>4, <1>5, <1>6, <1>7, <1>8, <1>9, <1>10

LEMMA FoldStep == TypeInv /\ FoldInv /\ [Next]_vars => FoldInv'
<1> SUFFICES ASSUME TypeInv, FoldInv, [Next]_vars
             PROVE  FoldInv'
  OBVIOUS
<1> QED
  BY ChainStep, FoldedStep DEF FoldInv

\* The iteration computes the closed form: whatever the layers, what is shown
\* or run is finalize of all of them merged, and the proxy's profile on top.
THEOREM FoldIsClosedForm == Spec => [](TypeInv /\ FoldInv)
<1>1. TypeInv /\ FoldInv /\ [Next]_vars => TypeInv' /\ FoldInv'
  BY TypeStep, FoldStep
<1> QED
  BY <1>1, TypeInit, FoldInit, PTL DEF Spec

-----------------------------------------------------------------------------
(* What is done.                                                           *)

LEMMA FoldTyped ==
  ASSUME NEW c, NEW N \in Nat, \A k \in 1 .. N : IsProfile(c[k])
  PROVE  IsProfile(FoldOf(c, N))
<1> DEFINE S == {n \in Nat : n <= N => IsProfile(FoldOf(c, n))}
<1>1. 0 \in S
  BY FoldNone, DefaultIsProfile
<1>2. ASSUME NEW n \in Nat, n \in S
      PROVE  n + 1 \in S
  <2> SUFFICES ASSUME n + 1 <= N
               PROVE  IsProfile(FoldOf(c, n + 1))
    OBVIOUS
  <2>1. IsProfile(FoldOf(c, n)) /\ IsProfile(c[n + 1])
    BY <1>2
  <2>2. \A k \in 1 .. n + 1 : IsProfile(c[k])
    OBVIOUS
  <2>3. Merge(FoldOf(c, n), c[n + 1]) = FoldOf(c, n + 1)
    BY <2>2, FoldMore
  <2>4. IsProfile(Merge(FoldOf(c, n), c[n + 1]))
    BY <2>1, MergeIsProfile
  <2> QED
    BY <2>3, <2>4
<1> HIDE DEF S
<1>3. \A n \in Nat : n \in S
  BY <1>1, <1>2, Induction
<1> QED
  BY <1>3 DEF S

\* The layers all merged.
Merged == FoldOf(chain, LayerCount)

LEMMA DoneChain ==
  ASSUME TypeInv, FoldInv, pc = "done"
  PROVE  /\ LayerCount \in Nat /\ Len(order) \in Nat /\ LayerCount = Len(order) + 1
         /\ order \in Seq(Profile) /\ todo = {} /\ IsHost(host)
         /\ Len(chain) = LayerCount
         /\ \A k \in Layers : chain[k] = Resolved(Layer(k), host)
         /\ \A k \in Layers : Renderable(Layer(k), host)
         /\ \A k \in Layers : IsProfile(chain[k])
         /\ IsProfile(Merged)
<1>1. /\ LayerCount \in Nat /\ Len(order) \in Nat /\ LayerCount = Len(order) + 1
      /\ order \in Seq(Profile) /\ chain \in Seq(ResolvedLayer)
  BY SelectionIsSeq DEF TypeInv, Progress, Results, LayerCount
<1>2. todo = {} /\ Len(chain) = LayerCount
  BY DEF TypeInv, Progress
<1>3. DOMAIN chain = Layers
  BY <1>1, <1>2 DEF Layers
<1>4. \A k \in Layers : Renderable(Layer(k), host)
                         /\ chain[k] = Resolved(Layer(k), host)
  BY <1>3 DEF FoldInv
<1>5. \A k \in Layers : IsProfile(chain[k])
  BY <1>3 DEF TypeInv, Results
<1>6. IsProfile(Merged)
  BY <1>1, <1>5, FoldTyped DEF Merged, Layers
<1>7. IsHost(host)
  BY HostTyped DEF TypeInv, Inputs
<1> QED
  BY <1>1, <1>2, <1>4, <1>5, <1>6, <1>7

LEMMA FinalizedFields ==
  ASSUME NEW m, IsProfile(m), NEW h
  PROVE  LET f == Finalized(m, h)
         IN  /\ f.mounts = MountsBase(m.readonly, h) \o m.mounts
             /\ f.forwards = m.forwards
             /\ f.vars = Upsert(VarsBase(m, h), m.vars)
             /\ f.proxies = m.proxies
<1> DEFINE b == Base(m, h)
           c == Cleared(m)
<1>1. /\ b.mounts = MountsBase(m.readonly, h)
      /\ b.forwards = <<>>
      /\ b.vars = VarsBase(m, h)
      /\ b.proxies = NoEntries
  BY DEF Base, Default
<1>2. /\ c.mounts = m.mounts /\ c.forwards = m.forwards
      /\ c.vars = m.vars /\ c.proxies = m.proxies
  BY ClearedFields
<1>3. Finalized(m, h) = Merge(b, c)
  BY DEF Finalized
<1>4. m.forwards \in Seq(Forward) /\ IsMap(m.proxies, DOMAIN m.proxies)
  BY DEF IsProfile, IsForwards, IsProxies
<1> HIDE DEF b, c
<1>5. /\ Merge(b, c).mounts = b.mounts \o c.mounts
      /\ Merge(b, c).forwards = b.forwards \o c.forwards
      /\ Merge(b, c).vars = Upsert(b.vars, c.vars)
      /\ Merge(b, c).proxies = Upsert(b.proxies, c.proxies)
  BY DEF Merge
<1>6. <<>> \o m.forwards = m.forwards
  BY <1>4, ConcatEmptySeq
<1>7. Upsert(NoEntries, m.proxies) = m.proxies
  BY <1>4, UpsertNothing
<1> QED
  BY <1>1, <1>2, <1>3, <1>5, <1>6, <1>7

\* The result, field by field.
LEMMA DoneResult ==
  ASSUME TypeInv, FoldInv, pc = "done"
  PROVE  /\ result.mounts =
              (MountsBase(Merged.readonly, host) \o Merged.mounts)
                \o (IF command = "run" THEN ProxyProfile.mounts ELSE <<>>)
         /\ result.forwards =
              Merged.forwards
                \o (IF command = "run" THEN ProxyProfile.forwards ELSE <<>>)
         /\ result.proxies = Merged.proxies
         /\ command = "run" => result.vars =
              Upsert(Upsert(VarsBase(Merged, host), Merged.vars), ProxyProfile.vars)
         /\ command # "run" => result.vars =
              Upsert(VarsBase(Merged, host), Merged.vars)
<1> DEFINE f == Finalized(Merged, host)
<1>1. /\ f.mounts = MountsBase(Merged.readonly, host) \o Merged.mounts
      /\ f.forwards = Merged.forwards
      /\ f.vars = Upsert(VarsBase(Merged, host), Merged.vars)
      /\ f.proxies = Merged.proxies
  BY DoneChain, FinalizedFields
<1>2. result = IF command = "run" THEN Merge(f, ProxyProfile) ELSE f
  BY DoneChain DEF FoldInv, Folded, Merged
<1>3. IsProfile(f)
  BY DoneChain, FinalizedIsProfile
<1>4. /\ f.mounts \in Seq(Mount) /\ f.forwards \in Seq(Forward)
      /\ IsMap(f.proxies, DOMAIN f.proxies)
  BY <1>3 DEF IsProfile, IsMounts, IsForwards, IsProxies
<1>5. /\ f.mounts \o <<>> = f.mounts /\ f.forwards \o <<>> = f.forwards
      /\ Upsert(f.proxies, NoEntries) = f.proxies
  BY <1>4, ConcatEmptySeq, UpsertNothing
<1>6. /\ Merge(f, ProxyProfile).mounts = f.mounts \o ProxyProfile.mounts
      /\ Merge(f, ProxyProfile).forwards = f.forwards \o ProxyProfile.forwards
      /\ Merge(f, ProxyProfile).vars = Upsert(f.vars, ProxyProfile.vars)
      /\ Merge(f, ProxyProfile).proxies = Upsert(f.proxies, NoEntries)
  BY ProxyProfileRest DEF Merge
<1> HIDE DEF f
<1>7. CASE command = "run"
  BY <1>1, <1>2, <1>5, <1>6, <1>7
<1>8. CASE command # "run"
  BY <1>1, <1>2, <1>5, <1>8
<1> QED
  BY <1>7, <1>8

\* What a layer declares is what its writer wrote, but for the paths.
LEMMA LayerIsWritten ==
  ASSUME TypeInv, FoldInv, pc = "done", NEW k \in Layers
  PROVE  /\ IsDecl(Layer(k)) /\ IsDecl(Wrote(k))
         /\ Layer(k).forwards = Wrote(k).forwards
         /\ Layer(k).env = Wrote(k).env
         /\ Layer(k).proxies = Wrote(k).proxies
         /\ Layer(k).readonly = Wrote(k).readonly
         /\ k <= Len(order) => Layer(k) = Normalized(Wrote(k), host.home)
         /\ ~(k <= Len(order)) => Layer(k) = Wrote(k)
<1>1. order \in Seq(Profile) /\ todo = {} /\ Len(order) \in Nat
        /\ LayerCount = Len(order) + 1
  BY DoneChain
<1>2. CASE k <= Len(order)
  <2>1. order[k] \in Profile
    BY <1>1, <1>2, Element DEF Layers
  <2>2. profiles[order[k]] = Normalized(config[order[k]], host.home)
    BY <1>1, <2>1 DEF TypeInv, Visited
  <2>3. Layer(k) = Normalized(Wrote(k), host.home) /\ Wrote(k) = config[order[k]]
    BY <1>2, <2>2 DEF Layer, Wrote
  <2>4. IsDecl(Wrote(k))
    BY <2>1, <2>3, InputsAssumption DEF TypeInv, Inputs
  <2>5. IsDecl(Layer(k))
    BY <2>3, <2>4, HostTyped, NormalizedIsDecl DEF TypeInv, Inputs
  <2>6. /\ Layer(k).forwards = Wrote(k).forwards
        /\ Layer(k).env = Wrote(k).env
        /\ Layer(k).proxies = Wrote(k).proxies
        /\ Layer(k).readonly = Wrote(k).readonly
    BY <2>3, <2>4 DEF Normalized, IsDecl
  <2> QED
    BY <1>2, <2>3, <2>4, <2>5, <2>6
<1>3. CASE ~(k <= Len(order))
  <2>1. Layer(k) = cli /\ Wrote(k) = cli
    BY <1>3 DEF Layer, Wrote
  <2>2. IsDecl(cli)
    BY InputsAssumption DEF TypeInv, Inputs
  <2> QED
    BY <1>3, <2>1, <2>2
<1> QED
  BY <1>2, <1>3

-----------------------------------------------------------------------------
(* The forwards.                                                           *)

LEMMA ForwardsDone ==
  ASSUME TypeInv, FoldInv
  PROVE  ForwardsAsDeclared
<1> SUFFICES ASSUME pc = "done"
             PROVE  ForwardsAsDeclared
  BY DEF ForwardsAsDeclared
<1> DEFINE Written1(k) ==
             [i \in DOMAIN Wrote(k).forwards |-> ForwardOf(Wrote(k).forwards[i])]
<1>1. ASSUME NEW k \in 1 .. LayerCount
      PROVE  chain[k]["forwards"] = Written1(k)
  <2>1. k \in Layers
    BY DEF Layers
  <2>2. chain[k] = Resolved(Layer(k), host) /\ Layer(k).forwards = Wrote(k).forwards
    BY <2>1, DoneChain, LayerIsWritten
  <2> QED
    BY <2>2 DEF Resolved
<1> HIDE DEF Written1
<1>2. [k \in 1 .. LayerCount |-> chain[k]["forwards"]] = [k \in Layers |-> Written1(k)]
  BY <1>1 DEF Layers
<1>3. Merged.forwards = FlattenSeq([k \in Layers |-> Written1(k)])
  BY <1>2 DEF Merged, FoldOf, Joined
<1>4. result.forwards =
        Merged.forwards
          \o (IF command = "run" THEN ProxyProfile.forwards ELSE <<>>)
  BY DoneResult
<1> QED
  BY <1>3, <1>4 DEF ForwardsAsDeclared, Written1

\* The ports the command reaches are those of the layers, in their order, and
\* in run the proxy's, however many layers there are.
THEOREM ForwardsAlwaysAsDeclared == Spec => []ForwardsAsDeclared
  BY FoldIsClosedForm, ForwardsDone, PTL

-----------------------------------------------------------------------------
(* The variables.                                                          *)

\* An entry is resolved to a value exactly if it gives one.
LEMMA GivesValue ==
  ASSUME TypeInv, FoldInv, pc = "done", NEW e \in VarsWritten
  PROVE  /\ Gives(e) <=> (ValueOf(WrittenVar(e), host) # None)
         /\ Gives(e) => ValueOf(WrittenVar(e), host) = Given(e)
<1> DEFINE w == WrittenVar(e)
<1>1. \A n \in DOMAIN host.env : host.env[n] # None
  BY DoneChain, AbsentAssumption DEF IsHost
<1>2. ValueOf(w, host) = IF w.value # None THEN w.value
                         ELSE IF w.name \in DOMAIN host.env THEN host.env[w.name]
                         ELSE None
  BY DEF ValueOf
<1> QED
  BY <1>1, <1>2 DEF Gives, Given

\* The variables a layer resolves to: those of its entries that give one, each
\* with the value of the last of them.
LEMMA LayerVars ==
  ASSUME TypeInv, FoldInv, pc = "done", NEW k \in Layers
  PROVE  /\ DOMAIN chain[k].vars =
              {Wrote(k).env[i].name :
                 i \in {j \in DOMAIN Wrote(k).env : Gives(<<k, j>>)}}
         /\ \A x \in DOMAIN chain[k].vars :
              \E i \in DOMAIN Wrote(k).env :
                /\ Wrote(k).env[i].name = x
                /\ Gives(<<k, i>>)
                /\ chain[k].vars[x] = Given(<<k, i>>)
                /\ \A j \in DOMAIN Wrote(k).env :
                     Wrote(k).env[j].name = x /\ Gives(<<k, j>>) => j <= i
<1> DEFINE env == Wrote(k).env
           Entry(i) == [key |-> env[i].name, item |-> ValueOf(env[i], host)]
           entries == [i \in DOMAIN env |-> Entry(i)]
           Entries == {Entry(i) : i \in DOMAIN env}
<1>1. chain[k].vars = LastEntries(entries)
  <2>1. chain[k] = Resolved(Layer(k), host) /\ Layer(k).env = env
    BY DoneChain, LayerIsWritten
  <2> QED
    BY <2>1 DEF Resolved, VarsOf
<1>2. env \in Seq(EnvVarDecl)
  BY LayerIsWritten DEF IsDecl, IsEnvVarDecls
<1>3. entries \in Seq(Entries)
  BY <1>2, Mapped
<1>4. DOMAIN entries = DOMAIN env
        /\ \A i \in DOMAIN env : entries[i].key = env[i].name
                                 /\ entries[i].item = ValueOf(env[i], host)
  OBVIOUS
<1>5. ASSUME NEW i \in DOMAIN env
      PROVE  /\ Gives(<<k, i>>) <=> (ValueOf(env[i], host) # None)
             /\ Gives(<<k, i>>) => ValueOf(env[i], host) = Given(<<k, i>>)
  <2>1. <<k, i>> \in VarsWritten
    BY DEF VarsWritten
  <2>2. WrittenVar(<<k, i>>) = env[i]
    BY DEF WrittenVar
  <2> QED
    BY <2>1, <2>2, GivesValue
<1> HIDE DEF entries, Entries, Entry
<1>6. DOMAIN chain[k].vars =
        {env[i].name : i \in {j \in DOMAIN env : Gives(<<k, j>>)}}
  <2>1. DOMAIN LastEntries(entries) =
          {entries[i].key : i \in {j \in DOMAIN entries : entries[j].item # None}}
    BY LastEntriesKeys
  <2>2. {j \in DOMAIN entries : entries[j].item # None} =
          {j \in DOMAIN env : Gives(<<k, j>>)}
    BY <1>4, <1>5
  <2> HIDE DEF env
  <2>3. {entries[i].key : i \in {j \in DOMAIN env : Gives(<<k, j>>)}} =
          {env[i].name : i \in {j \in DOMAIN env : Gives(<<k, j>>)}}
    BY <1>4
  <2> QED
    BY <1>1, <2>1, <2>2, <2>3
<1>7. ASSUME NEW x \in DOMAIN chain[k].vars
      PROVE  \E i \in DOMAIN env :
                /\ env[i].name = x
                /\ Gives(<<k, i>>)
                /\ chain[k].vars[x] = Given(<<k, i>>)
                /\ \A j \in DOMAIN env :
                     env[j].name = x /\ Gives(<<k, j>>) => j <= i
  <2>1. x \in DOMAIN LastEntries(entries)
    BY <1>1
  <2>2. PICK i \in DOMAIN entries :
           /\ entries[i].key = x
           /\ entries[i].item # None
           /\ LastEntries(entries)[x] = entries[i].item
           /\ \A j \in DOMAIN entries :
                entries[j].key = x /\ entries[j].item # None => j <= i
    BY <1>3, <2>1, LastEntriesItem, Zenon
  <2>3. i \in DOMAIN env /\ env[i].name = x /\ Gives(<<k, i>>)
    BY <1>4, <1>5, <2>2
  <2>4. chain[k].vars[x] = Given(<<k, i>>)
    BY <1>1, <1>4, <1>5, <2>2, <2>3
  <2>5. \A j \in DOMAIN env : env[j].name = x /\ Gives(<<k, j>>) => j <= i
    BY <1>4, <1>5, <2>2
  <2> QED
    BY <2>3, <2>4, <2>5
<1> QED
  BY <1>6, <1>7

LEMMA UpsertFields ==
  ASSUME NEW l, NEW r
  PROVE  /\ DOMAIN Upsert(l, r) = DOMAIN l \cup DOMAIN r
         /\ \A x \in DOMAIN r : Upsert(l, r)[x] = r[x]
         /\ \A x \in DOMAIN l \ DOMAIN r : Upsert(l, r)[x] = l[x]
  BY DEF Upsert

LEMMA DoneVars ==
  ASSUME TypeInv, FoldInv, pc = "done"
  PROVE  /\ DOMAIN result.vars \subseteq
              {"HOME", "PATH"} \cup Inherited \cup ProxyVars \cup DOMAIN Merged.vars
         /\ \A x \in DOMAIN Merged.vars \ ProxyVars :
              x \in DOMAIN result.vars /\ result.vars[x] = Merged.vars[x]
         /\ "PATH" \notin DOMAIN Merged.vars =>
              result.vars["PATH"] = PathValue(Merged.path, Merged.path_add)
<1> DEFINE base == VarsBase(Merged, host)
           mine == Merged.vars
           proxy == ProxyProfile.vars
<1>1. /\ DOMAIN base = {"PATH"} \cup (({"HOME"} \cup Inherited) \cap DOMAIN host.env)
      /\ base["PATH"] = PathValue(Merged.path, Merged.path_add)
  BY DEF VarsBase
<1>2. DOMAIN proxy = ProxyVars /\ "PATH" \notin ProxyVars
  BY ProxyProfileRest, NamesAssumption
<1>3. /\ command = "run" => result.vars = Upsert(Upsert(base, mine), proxy)
      /\ command # "run" => result.vars = Upsert(base, mine)
  BY DoneResult
<1> HIDE DEF base, mine, proxy
<1> DEFINE U == Upsert(base, mine)
<1>6. /\ DOMAIN U = DOMAIN base \cup DOMAIN mine
      /\ \A x \in DOMAIN mine : U[x] = mine[x]
      /\ \A x \in DOMAIN base \ DOMAIN mine : U[x] = base[x]
  BY UpsertFields
<1> HIDE DEF U
<1>7. CASE command = "run"
  <2>1. result.vars = Upsert(U, proxy)
    BY <1>3, <1>7 DEF U
  <2>2. /\ DOMAIN result.vars = DOMAIN U \cup ProxyVars
        /\ \A x \in DOMAIN U \ ProxyVars : result.vars[x] = U[x]
    <3>1. /\ DOMAIN Upsert(U, proxy) = DOMAIN U \cup DOMAIN proxy
          /\ \A x \in DOMAIN U \ DOMAIN proxy : Upsert(U, proxy)[x] = U[x]
      BY UpsertFields
    <3> QED
      BY <1>2, <2>1, <3>1 DEF proxy
  <2> QED
    BY <1>1, <1>2, <1>6, <2>1, <2>2 DEF mine
<1>8. CASE command # "run"
  <2>1. result.vars = U
    BY <1>3, <1>8 DEF U
  <2> QED
    BY <1>1, <1>6, <2>1 DEF mine
<1> QED
  BY <1>7, <1>8

LEMMA VarsDone ==
  ASSUME TypeInv, FoldInv
  PROVE  VarsAsDeclared
<1> SUFFICES ASSUME pc = "done"
             PROVE  VarsAsDeclared
  BY DEF VarsAsDeclared, NothingUnasked, LastEntryWins
<1>0. LayerCount \in Nat /\ Layers = 1 .. LayerCount
  BY DoneChain DEF Layers
<1>1. /\ DOMAIN Merged.vars = Keys(chain, LayerCount, "vars")
      /\ \A x \in DOMAIN Merged.vars :
           Merged.vars[x] =
             chain[Max(Having(chain, LayerCount, "vars", x))]["vars"][x]
  BY DEF Merged, FoldOf, Laid
<1>2. NothingUnasked
  <2>1. ASSUME NEW x \in DOMAIN Merged.vars
        PROVE  x \in {WrittenVar(e).name : e \in VarsWritten}
    <3>1. PICK k \in Layers : x \in DOMAIN chain[k].vars
      BY <1>0, <1>1 DEF Keys
    <3>2. PICK i \in DOMAIN Wrote(k).env : Wrote(k).env[i].name = x
      BY <3>1, LayerVars
    <3>3. <<k, i>> \in VarsWritten /\ WrittenVar(<<k, i>>).name = x
      BY <3>2 DEF VarsWritten, WrittenVar
    <3> QED
      BY <3>3
  <2> QED
    BY <2>1, DoneVars DEF NothingUnasked
<1>3. LastEntryWins
  <2> SUFFICES ASSUME NEW e \in VarsWritten, Gives(e),
                      WrittenVar(e).name \notin ProxyVars,
                      \A o \in VarsWritten :
                        Later(o, e) /\ WrittenVar(o).name = WrittenVar(e).name
                          => ~Gives(o)
               PROVE  /\ WrittenVar(e).name \in DOMAIN result.vars
                      /\ result.vars[WrittenVar(e).name] = Given(e)
    BY DEF LastEntryWins
  <2>0. PICK k \in Layers : e \in {k} \X DOMAIN Wrote(k).env
    BY DEF VarsWritten
  <2>1. PICK i \in DOMAIN Wrote(k).env : e = <<k, i>>
    BY <2>0
  <2> DEFINE x == WrittenVar(e).name
             H == Having(chain, LayerCount, "vars", x)
  <2>2. x = Wrote(k).env[i].name /\ Gives(<<k, i>>)
    BY <2>1 DEF WrittenVar
  <2>3. x \in DOMAIN chain[k].vars
    BY <2>2, LayerVars
  <2>4. ASSUME NEW j \in Layers, x \in DOMAIN chain[j].vars
        PROVE  j <= k
    <3>1. PICK l \in DOMAIN Wrote(j).env :
            Wrote(j).env[l].name = x /\ Gives(<<j, l>>)
      BY <2>4, LayerVars
    <3>2. <<j, l>> \in VarsWritten /\ WrittenVar(<<j, l>>).name = x
      BY <3>1 DEF VarsWritten, WrittenVar
    <3>3. ~Later(<<j, l>>, e)
      BY <3>1, <3>2
    <3>4. j \in Nat /\ k \in Nat
      BY <1>0
    <3> QED
      BY <2>1, <3>3, <3>4 DEF Later
  <2>5. Max(H) = k
    <3>1. k \in H /\ H \subseteq Nat /\ \A j \in H : j <= k
      BY <1>0, <2>3, <2>4 DEF Having
    <3> QED
      BY <3>1, MaxIs
  <2>6. x \in DOMAIN Merged.vars /\ Merged.vars[x] = chain[k].vars[x]
    BY <1>0, <1>1, <2>3, <2>5 DEF Keys
  <2>7. PICK l \in DOMAIN Wrote(k).env :
          /\ Wrote(k).env[l].name = x
          /\ Gives(<<k, l>>)
          /\ chain[k].vars[x] = Given(<<k, l>>)
          /\ \A j \in DOMAIN Wrote(k).env :
               Wrote(k).env[j].name = x /\ Gives(<<k, j>>) => j <= l
    BY <2>3, LayerVars
  <2>8. l = i
    <3>1. i <= l
      BY <2>2, <2>7
    <3>2. <<k, l>> \in VarsWritten /\ WrittenVar(<<k, l>>).name = x
      BY <2>7 DEF VarsWritten, WrittenVar
    <3>3. ~Later(<<k, l>>, e)
      BY <2>7, <3>2
    <3>4. i \in Nat /\ l \in Nat
      <4>1. Wrote(k).env \in Seq(EnvVarDecl)
        BY LayerIsWritten DEF IsDecl, IsEnvVarDecls
      <4> QED
        BY <4>1, LenProperties
    <3>5. ~(l > i)
      BY <2>1, <3>3 DEF Later
    <3> QED
      BY <3>1, <3>4, <3>5
  <2>9. Merged.vars[x] = Given(e)
    BY <2>1, <2>6, <2>7, <2>8
  <2> QED
    BY <2>6, <2>9, DoneVars
<1> QED
  BY <1>2, <1>3 DEF VarsAsDeclared

\* The environment of the command: nothing but the curated names, what a layer
\* names and the proxy's names; and of each variable that is not the proxy's the
\* last entry that gives it a value has its way, across and within the layers.
THEOREM VarsAlwaysAsDeclared == Spec => []VarsAsDeclared
  BY FoldIsClosedForm, VarsDone, PTL

-----------------------------------------------------------------------------
(* The rules.                                                              *)

\* The rules a layer resolves to: one of each host it declares, its last
\* declaration's.
LEMMA LayerRules ==
  ASSUME TypeInv, FoldInv, pc = "done", NEW k \in Layers
  PROVE  /\ DOMAIN chain[k].proxies =
              {Wrote(k).proxies[i].host : i \in DOMAIN Wrote(k).proxies}
         /\ \A x \in DOMAIN chain[k].proxies :
              \E i \in DOMAIN Wrote(k).proxies :
                /\ Wrote(k).proxies[i].host = x
                /\ chain[k].proxies[x] = RuleOf(Wrote(k).proxies[i], host.secrets)
                /\ \A j \in DOMAIN Wrote(k).proxies :
                     Wrote(k).proxies[j].host = x => j <= i
<1> DEFINE decls == Wrote(k).proxies
           Entry(i) == [key |-> decls[i].host,
                        item |-> RuleOf(decls[i], host.secrets)]
           entries == [i \in DOMAIN decls |-> Entry(i)]
           Entries == {Entry(i) : i \in DOMAIN decls}
<1>1. chain[k].proxies = LastEntries(entries)
  <2>1. chain[k] = Resolved(Layer(k), host) /\ Layer(k).proxies = decls
    BY DoneChain, LayerIsWritten
  <2> QED
    BY <2>1 DEF Resolved, RulesOf
<1>2. decls \in Seq(ProxyDecl)
  BY LayerIsWritten DEF IsDecl, IsProxyDecls
<1>3. entries \in Seq(Entries)
  BY <1>2, Mapped
<1>4. DOMAIN entries = DOMAIN decls
        /\ \A i \in DOMAIN decls :
             entries[i].key = decls[i].host
             /\ entries[i].item = RuleOf(decls[i], host.secrets)
  OBVIOUS
<1>5. ASSUME NEW i \in DOMAIN decls
      PROVE  RuleOf(decls[i], host.secrets) # None
  <2>1. Renderable(Layer(k), host)
    BY DoneChain
  <2>2. Resolvable(decls[i], host.secrets)
    BY <2>1, LayerIsWritten DEF Renderable
  <2>3. RuleOf(decls[i], host.secrets) \in ProxyRule
    BY <1>2, <2>2, DoneChain, Element, RuleOfTyped
  <2> QED
    BY <2>3, AbsentRuleAssumption
<1> HIDE DEF entries, Entries, Entry
<1>6. DOMAIN chain[k].proxies = {decls[i].host : i \in DOMAIN decls}
  <2>1. DOMAIN LastEntries(entries) =
          {entries[i].key : i \in {j \in DOMAIN entries : entries[j].item # None}}
    BY LastEntriesKeys
  <2>2. {j \in DOMAIN entries : entries[j].item # None} = DOMAIN decls
    BY <1>4, <1>5
  <2> HIDE DEF decls
  <2>3. {entries[i].key : i \in DOMAIN decls} = {decls[i].host : i \in DOMAIN decls}
    BY <1>4
  <2> QED
    BY <1>1, <2>1, <2>2, <2>3
<1>7. ASSUME NEW x \in DOMAIN chain[k].proxies
      PROVE  \E i \in DOMAIN decls :
                /\ decls[i].host = x
                /\ chain[k].proxies[x] = RuleOf(decls[i], host.secrets)
                /\ \A j \in DOMAIN decls : decls[j].host = x => j <= i
  <2>1. x \in DOMAIN LastEntries(entries)
    BY <1>1
  <2>2. PICK i \in DOMAIN entries :
           /\ entries[i].key = x
           /\ entries[i].item # None
           /\ LastEntries(entries)[x] = entries[i].item
           /\ \A j \in DOMAIN entries :
                entries[j].key = x /\ entries[j].item # None => j <= i
    BY <1>3, <2>1, LastEntriesItem, Zenon
  <2>3. i \in DOMAIN decls /\ decls[i].host = x
    BY <1>4, <2>2
  <2>4. chain[k].proxies[x] = RuleOf(decls[i], host.secrets)
    BY <1>1, <1>4, <2>2, <2>3
  <2>5. \A j \in DOMAIN decls : decls[j].host = x => j <= i
    BY <1>4, <1>5, <2>2
  <2> QED
    BY <2>3, <2>4, <2>5
<1> QED
  BY <1>6, <1>7

Items(list) == {list[i].item : i \in DOMAIN list}
RenderedAll(templates, secrets) == {Rendered(t, secrets) : t \in templates}

LEMMA RenderedItems ==
  ASSUME NEW list, NEW secrets
  PROVE  Items(AllRendered(list, secrets)) = RenderedAll(Items(list), secrets)
<1> DEFINE all == AllRendered(list, secrets)
<1>1. DOMAIN all = DOMAIN list
        /\ \A i \in DOMAIN list : all[i].item = Rendered(list[i].item, secrets)
  BY DEF AllRendered
<1> HIDE DEF all
<1>2. Items(all) = RenderedAll(Items(list), secrets)
  BY <1>1 DEF Items, RenderedAll
<1> QED
  BY <1>2 DEF all

\* The values of a rule are its declaration's templates, rendered.
LEMMA ValuesOfRule ==
  ASSUME NEW d \in ProxyDecl, NEW h, IsHost(h), Resolvable(d, h.secrets)
  PROVE  /\ RuleOf(d, h.secrets).action = d.action
         /\ Values(RuleOf(d, h.secrets)) = RenderedAll(Templates(d), h.secrets)
<1> DEFINE rule == RuleOf(d, h.secrets)
           said == IF d.auth = None THEN {} ELSE Range(d.auth.parts)
           given == IF rule.auth = None THEN {} ELSE Range(rule.auth.parts)
<1>1. /\ rule.action = d.action
      /\ rule.headers = AllRendered(d.headers, h.secrets)
      /\ rule.params = AllRendered(d.params, h.secrets)
      /\ rule.auth = AuthOf(d.auth, h.secrets)
  BY DEF RuleOf
<1>2. /\ Items(rule.headers) = RenderedAll(Items(d.headers), h.secrets)
      /\ Items(rule.params) = RenderedAll(Items(d.params), h.secrets)
  BY <1>1, RenderedItems
<1>3. given = RenderedAll(said, h.secrets)
  <2>1. CASE d.auth = None
    BY <1>1, <2>1 DEF AuthOf, RenderedAll
  <2>2. CASE d.auth # None
    <3> DEFINE parts == [i \in DOMAIN d.auth.parts |-> Rendered(d.auth.parts[i], h.secrets)]
    <3>1. rule.auth = [scheme |-> d.auth.scheme, parts |-> parts]
      BY <1>1, <2>2 DEF AuthOf
    <3>2. rule.auth # None
      <4>1. d.auth \in AuthDecl
        BY <2>2 DEF ProxyDecl, Option
      <4>2. AuthOf(d.auth, h.secrets) \in Auth
        BY <2>2, <4>1, AuthPresent DEF Resolvable
      <4> QED
        BY <1>1, <4>2, AbsentRuleAssumption
    <3>3. Range(parts) = RenderedAll(Range(d.auth.parts), h.secrets)
      BY DEF Range, RenderedAll
    <3>4. rule.auth.parts = parts
      BY <3>1
    <3> QED
      BY <2>2, <3>2, <3>3, <3>4
  <2> QED
    BY <2>1, <2>2
<1>4. /\ Values(rule) = (Items(rule.headers) \cup Items(rule.params)) \cup given
      /\ Templates(d) = (Items(d.headers) \cup Items(d.params)) \cup said
  BY Zenon DEF Values, Templates, Items
<1> HIDE DEF rule, said, given
<1>5. Values(rule) = RenderedAll(Templates(d), h.secrets)
  BY <1>2, <1>3, <1>4 DEF RenderedAll
<1> QED
  BY <1>1, <1>5 DEF rule

LEMMA RulesDone ==
  ASSUME TypeInv, FoldInv
  PROVE  RulesAsDeclared
<1> DEFINE Final(e) == \A o \in RulesWritten :
                         WrittenRule(o).host = WrittenRule(e).host => ~Later(o, e)
<1> SUFFICES ASSUME pc = "done"
             PROVE  /\ DOMAIN result.proxies = {WrittenRule(e).host : e \in RulesWritten}
                    /\ \A e \in RulesWritten :
                         Final(e) =>
                           LET rule == result.proxies[WrittenRule(e).host]
                           IN  /\ rule.action = WrittenRule(e).action
                               /\ Values(rule) = {Rendered(t, host.secrets) :
                                                    t \in Templates(WrittenRule(e))}
  BY Zenon DEF RulesAsDeclared
<1>0. LayerCount \in Nat /\ Layers = 1 .. LayerCount
  BY DoneChain DEF Layers
<1>1. /\ DOMAIN result.proxies = Keys(chain, LayerCount, "proxies")
      /\ \A x \in DOMAIN result.proxies :
           result.proxies[x] =
             chain[Max(Having(chain, LayerCount, "proxies", x))]["proxies"][x]
  <2>1. result.proxies = Merged.proxies
    BY DoneResult
  <2> QED
    BY <2>1 DEF Merged, FoldOf, Laid
<1>2. DOMAIN result.proxies = {WrittenRule(e).host : e \in RulesWritten}
  <2>1. ASSUME NEW x \in DOMAIN result.proxies
        PROVE  x \in {WrittenRule(e).host : e \in RulesWritten}
    <3>1. PICK k \in Layers : x \in DOMAIN chain[k].proxies
      BY <1>0, <1>1 DEF Keys
    <3>2. PICK i \in DOMAIN Wrote(k).proxies : Wrote(k).proxies[i].host = x
      BY <3>1, LayerRules
    <3>3. <<k, i>> \in RulesWritten /\ WrittenRule(<<k, i>>).host = x
      BY <3>2 DEF RulesWritten, WrittenRule
    <3> QED
      BY <3>3
  <2>2. ASSUME NEW e \in RulesWritten
        PROVE  WrittenRule(e).host \in DOMAIN result.proxies
    <3>1. PICK k \in Layers : e \in {k} \X DOMAIN Wrote(k).proxies
      BY DEF RulesWritten
    <3>2. PICK i \in DOMAIN Wrote(k).proxies : e = <<k, i>>
      BY <3>1
    <3>3. WrittenRule(e).host \in DOMAIN chain[k].proxies
      BY <3>2, LayerRules DEF WrittenRule
    <3> QED
      BY <1>0, <1>1, <3>3 DEF Keys
  <2> QED
    BY <2>1, <2>2
<1>3. ASSUME NEW e \in RulesWritten, Final(e)
      PROVE  LET rule == result.proxies[WrittenRule(e).host]
             IN  /\ rule.action = WrittenRule(e).action
                 /\ Values(rule) = {Rendered(t, host.secrets) :
                                      t \in Templates(WrittenRule(e))}
  <2>0. PICK k \in Layers : e \in {k} \X DOMAIN Wrote(k).proxies
    BY DEF RulesWritten
  <2>1. PICK i \in DOMAIN Wrote(k).proxies : e = <<k, i>>
    BY <2>0
  <2> DEFINE x == WrittenRule(e).host
             H == Having(chain, LayerCount, "proxies", x)
  <2>2. x = Wrote(k).proxies[i].host /\ WrittenRule(e) = Wrote(k).proxies[i]
    BY <2>1 DEF WrittenRule
  <2>3. x \in DOMAIN chain[k].proxies
    BY <2>2, LayerRules
  <2>4. ASSUME NEW j \in Layers, x \in DOMAIN chain[j].proxies
        PROVE  j <= k
    <3>1. PICK l \in DOMAIN Wrote(j).proxies : Wrote(j).proxies[l].host = x
      BY <2>4, LayerRules
    <3>2. <<j, l>> \in RulesWritten /\ WrittenRule(<<j, l>>).host = x
      BY <3>1 DEF RulesWritten, WrittenRule
    <3>3. ~Later(<<j, l>>, e)
      BY <1>3, <3>2
    <3>4. j \in Nat /\ k \in Nat
      BY <1>0
    <3> QED
      BY <2>1, <3>3, <3>4 DEF Later
  <2>5. Max(H) = k
    <3>1. k \in H /\ H \subseteq Nat /\ \A j \in H : j <= k
      BY <1>0, <2>3, <2>4 DEF Having
    <3> QED
      BY <3>1, MaxIs
  <2>6. result.proxies[x] = chain[k].proxies[x]
    BY <1>0, <1>1, <2>3, <2>5 DEF Keys
  <2>7. PICK l \in DOMAIN Wrote(k).proxies :
          /\ Wrote(k).proxies[l].host = x
          /\ chain[k].proxies[x] = RuleOf(Wrote(k).proxies[l], host.secrets)
          /\ \A j \in DOMAIN Wrote(k).proxies :
               Wrote(k).proxies[j].host = x => j <= l
    BY <2>3, LayerRules
  <2>8. Wrote(k).proxies \in Seq(ProxyDecl)
    BY LayerIsWritten DEF IsDecl, IsProxyDecls
  <2>9. l = i
    <3>1. i <= l
      BY <2>2, <2>7
    <3>2. <<k, l>> \in RulesWritten /\ WrittenRule(<<k, l>>).host = x
      BY <2>7 DEF RulesWritten, WrittenRule
    <3>3. ~Later(<<k, l>>, e)
      BY <1>3, <3>2
    <3>4. i \in Nat /\ l \in Nat
      BY <2>8, LenProperties
    <3>5. ~(l > i)
      BY <2>1, <3>3 DEF Later
    <3> QED
      BY <3>1, <3>4, <3>5
  <2> DEFINE d == Wrote(k).proxies[i]
  <2>10. result.proxies[x] = RuleOf(d, host.secrets)
    BY <2>6, <2>7, <2>9
  <2>11. d \in ProxyDecl /\ Resolvable(d, host.secrets)
    <3>1. Renderable(Layer(k), host) /\ Layer(k).proxies = Wrote(k).proxies
      BY DoneChain, LayerIsWritten
    <3> QED
      BY <2>8, <3>1, Element DEF Renderable
  <2>12. /\ RuleOf(d, host.secrets).action = d.action
         /\ Values(RuleOf(d, host.secrets)) =
              {Rendered(t, host.secrets) : t \in Templates(d)}
    BY <2>11, DoneChain, ValuesOfRule DEF RenderedAll
  <2> HIDE DEF x
  <2>13. /\ result.proxies[x].action = WrittenRule(e).action
         /\ Values(result.proxies[x]) =
              {Rendered(t, host.secrets) : t \in Templates(WrittenRule(e))}
    BY <2>2, <2>10, <2>12
  <2> QED
    BY <2>13, Zenon DEF x
<1> HIDE DEF Final
<1> QED
  BY <1>2, <1>3

\* A host's rule is its last declaration's, whole, and no host has a rule or a
\* secret of another's, whatever the layers declare.
THEOREM RulesAlwaysAsDeclared == Spec => []RulesAsDeclared
  BY FoldIsClosedForm, RulesDone, PTL

-----------------------------------------------------------------------------
(* PATH.                                                                   *)

Rests(s) == [i \in DOMAIN s |-> s[i].rest]

LEMMA RestsTyped ==
  ASSUME NEW s \in Seq(Written)
  PROVE  Rests(s) \in Seq(Path) /\ Len(Rests(s)) = Len(s)
<1>1. \A i \in DOMAIN s : Rests(s)[i] \in Path
  <2> TAKE i \in DOMAIN s
  <2>1. s[i] \in Written
    BY Element
  <2> QED
    BY <2>1 DEF Rests, Written
<1>2. Rests(s) = [i \in DOMAIN s |-> Rests(s)[i]]
  BY DEF Rests
<1>3. Rests(s) \in Seq(Path)
  BY <1>1, <1>2, Mapped
<1>4. DOMAIN Rests(s) = 1 .. Len(s) /\ DOMAIN Rests(s) = 1 .. Len(Rests(s))
  BY <1>3, LenProperties DEF Rests
<1>5. Len(s) \in Nat /\ Len(Rests(s)) \in Nat
  BY <1>3, LenProperties
<1> QED
  BY <1>3, <1>4, <1>5

LEMMA RestsConcat ==
  ASSUME NEW s \in Seq(Written), NEW t \in Seq(Written)
  PROVE  Rests(s \o t) = Rests(s) \o Rests(t)
<1> DEFINE m == Len(s)
           n == Len(t)
           u == s \o t
           v == Rests(s) \o Rests(t)
<1>1. /\ u \in Seq(Written) /\ Len(u) = m + n
      /\ m \in Nat /\ n \in Nat
  BY LenProperties, ConcatProperties
<1>2. /\ Rests(s) \in Seq(Path) /\ Rests(t) \in Seq(Path)
      /\ Len(Rests(s)) = m /\ Len(Rests(t)) = n
  BY RestsTyped
<1>3. v \in Seq(Path) /\ Len(v) = m + n
  <2>1. v \in Seq(Path) /\ Len(v) = Len(Rests(s)) + Len(Rests(t))
    BY <1>2, ConcatProperties
  <2> QED
    BY <1>2, <2>1
<1>4. Rests(u) \in Seq(Path) /\ Len(Rests(u)) = m + n
  BY <1>1, RestsTyped
<1>5. ASSUME NEW i \in 1 .. m + n
      PROVE  Rests(u)[i] = v[i]
  <2>1. Rests(u)[i] = u[i].rest
    BY <1>1, LenProperties DEF Rests
  <2>2. CASE i <= m
    <3>1. u[i] = s[i] /\ v[i] = Rests(s)[i]
      BY <1>1, <1>2, <2>2, ConcatProperties
    <3>2. Rests(s)[i] = s[i].rest
      BY <1>1, <2>2, LenProperties DEF Rests
    <3> QED
      BY <2>1, <3>1, <3>2
  <2>3. CASE i > m
    <3>1. u[i] = t[i - m] /\ v[i] = Rests(t)[i - m]
      BY <1>1, <1>2, <2>3, ConcatProperties
    <3>2. i - m \in DOMAIN t
      BY <1>1, <2>3, LenProperties
    <3>3. Rests(t)[i - m] = t[i - m].rest
      BY <3>2 DEF Rests
    <3> QED
      BY <2>1, <3>1, <3>3
  <2>4. i <= m \/ i > m
    BY <1>1
  <2> QED
    BY <2>2, <2>3, <2>4
<1> HIDE DEF u, v, m, n
<1>6. Rests(u) = v
  <2>1. \A i \in 1 .. Len(Rests(u)) : Rests(u)[i] = v[i]
    BY <1>4, <1>5
  <2> QED
    BY <1>3, <1>4, <2>1, SeqEqual
<1> QED
  BY <1>6 DEF u, v

LEMMA RestsReverse ==
  ASSUME NEW s \in Seq(Written)
  PROVE  Rests(Reverse(s)) = Reverse(Rests(s))
<1>1. Len(Rests(s)) = Len(s) /\ Len(s) \in Nat
  BY RestsTyped, LenProperties
<1>2. ASSUME NEW i \in 1 .. Len(s)
      PROVE  s[(Len(s) - i) + 1].rest = Rests(s)[(Len(s) - i) + 1]
  <2>1. (Len(s) - i) + 1 \in DOMAIN s
    BY <1>1, LenProperties
  <2> QED
    BY <2>1 DEF Rests
<1>3. Reverse(s) = [i \in 1 .. Len(s) |-> s[(Len(s) - i) + 1]]
  BY DEF Reverse
<1>4. Reverse(Rests(s)) = [i \in 1 .. Len(s) |-> Rests(s)[(Len(s) - i) + 1]]
  BY <1>1 DEF Reverse
<1>5. Rests(Reverse(s)) = [i \in 1 .. Len(s) |-> s[(Len(s) - i) + 1].rest]
  BY <1>3 DEF Rests
<1> QED
  BY <1>2, <1>4, <1>5

LEMMA ReverseTyped ==
  ASSUME NEW S, NEW s \in Seq(S)
  PROVE  Reverse(s) \in Seq(S)
<1>1. Len(s) \in Nat /\ DOMAIN s = 1 .. Len(s)
  BY LenProperties
<1>2. ASSUME NEW i \in 1 .. Len(s)
      PROVE  s[(Len(s) - i) + 1] \in S
  <2>1. (Len(s) - i) + 1 \in DOMAIN s
    BY <1>1
  <2> QED
    BY <2>1, Element
<1>3. Reverse(s) \in [1 .. Len(s) -> S]
  BY <1>2 DEF Reverse
<1> QED
  BY <1>1, <1>3, SeqDef

\* The paths of the joined lists are the joined lists of the paths.
LEMMA RestsJoined ==
  ASSUME NEW c, NEW N \in Nat, NEW f, \A k \in 1 .. N : c[k][f] \in Seq(Written)
  PROVE  /\ Joined(c, N, f) \in Seq(Written)
         /\ Rests(Joined(c, N, f)) = FlattenSeq([k \in 1 .. N |-> Rests(c[k][f])])
<1> DEFINE T(n) == [k \in 1 .. n |-> Rests(c[k][f])]
           S == {n \in Nat : n <= N =>
                   /\ Joined(c, n, f) \in Seq(Written)
                   /\ Rests(Joined(c, n, f)) = FlattenSeq(T(n))}
<1>1. 0 \in S
  <2>1. T(0) = <<>> /\ [k \in 1 .. 0 |-> c[k][f]] = <<>>
    OBVIOUS
  <2>2. Joined(c, 0, f) = <<>> /\ FlattenSeq(T(0)) = <<>>
    BY <2>1, FlattenEmpty DEF Joined
  <2>3. Rests(<<>>) = <<>>
    BY DEF Rests
  <2>4. <<>> \in Seq(Written)
    OBVIOUS
  <2> HIDE DEF T
  <2> QED
    BY <2>2, <2>3, <2>4
<1>2. ASSUME NEW n \in Nat, n \in S
      PROVE  n + 1 \in S
  <2> SUFFICES ASSUME n + 1 <= N
               PROVE  /\ Joined(c, n + 1, f) \in Seq(Written)
                      /\ Rests(Joined(c, n + 1, f)) = FlattenSeq(T(n + 1))
    OBVIOUS
  <2>1. \A k \in 1 .. n + 1 : c[k][f] \in Seq(Written)
    OBVIOUS
  <2>2. /\ Joined(c, n, f) \in Seq(Written)
        /\ Joined(c, n + 1, f) \in Seq(Written)
        /\ Joined(c, n + 1, f) = Joined(c, n, f) \o c[n + 1][f]
    BY <2>1, JoinedMore
  <2>3. c[n + 1][f] \in Seq(Written)
    BY <2>1
  <2>4. Rests(Joined(c, n + 1, f)) = Rests(Joined(c, n, f)) \o Rests(c[n + 1][f])
    BY <2>2, <2>3, RestsConcat
  <2>5. Rests(Joined(c, n, f)) = FlattenSeq(T(n))
    BY <1>2
  <2>6. \A k \in 1 .. n + 1 : Rests(c[k][f]) \in Seq(Path)
    BY <2>1, RestsTyped
  <2>7. FlattenSeq(T(n + 1)) = FlattenSeq(T(n)) \o Rests(c[n + 1][f])
    <3> DEFINE s == T(n)
               t == T(n + 1)
    <3>1. s \in [1 .. n -> Seq(Path)] /\ t \in [1 .. n + 1 -> Seq(Path)]
      BY <2>6
    <3>2. (\A i \in 1 .. n : s[i] = t[i]) /\ t[n + 1] = Rests(c[n + 1][f])
      OBVIOUS
    <3> HIDE DEF s, t
    <3>3. FlattenSeq(t) = FlattenSeq(s) \o t[n + 1]
      BY <3>1, <3>2, FlattenMore
    <3> QED
      BY <3>2, <3>3 DEF s, t
  <2> QED
    BY <2>2, <2>4, <2>5, <2>7
<1> HIDE DEF S
<1>3. \A n \in Nat : n \in S
  BY <1>1, <1>2, Induction
<1> QED
  BY <1>3 DEF S

\* A list of paths, as the layer's writer means them.
AsMeant(k, list) == [i \in DOMAIN list |-> Meant(k, list[i])]

LEMMA ExpandedMeans ==
  ASSUME NEW k, k <= Len(order), NEW list \in Seq(Written)
  PROVE  Rests(Expanded(list, host.home)) = AsMeant(k, list)
<1>1. ASSUME NEW i \in DOMAIN list
      PROVE  Expand(list[i], host.home).rest = Meant(k, list[i])
  <2>1. list[i] \in Written
    BY Element
  <2> QED
    BY <2>1 DEF Expand, Meant, Abs, Written
<1>2. Rests(Expanded(list, host.home)) =
        [i \in DOMAIN list |-> Expand(list[i], host.home).rest]
  BY DEF Rests, Expanded
<1> QED
  BY <1>1, <1>2 DEF AsMeant

LEMMA AsMeantTyped ==
  ASSUME IsHost(host), NEW k, NEW list \in Seq(Written)
  PROVE  AsMeant(k, list) \in Seq(Path)
<1>1. ASSUME NEW i \in DOMAIN list
      PROVE  Meant(k, list[i]) \in Path
  <2>1. list[i] \in Written
    BY Element
  <2>2. list[i].rest \in Path /\ host.home \in Path
    BY <2>1 DEF Written, IsHost
  <2>3. host.home \o list[i].rest \in Path
    BY <2>2, ConcatProperties DEF Path
  <2> QED
    BY <2>2, <2>3 DEF Meant
<1>2. AsMeant(k, list) = [i \in DOMAIN list |-> AsMeant(k, list)[i]]
        /\ \A i \in DOMAIN list : AsMeant(k, list)[i] \in Path
  BY <1>1 DEF AsMeant
<1> QED
  BY <1>2, Mapped

\* What a layer says of PATH is what its writer means.
LEMMA LayerPaths ==
  ASSUME TypeInv, FoldInv, pc = "done", NEW k \in Layers
  PROVE  /\ Rests(chain[k].path_add) = AsMeant(k, Wrote(k).path_add)
         /\ (chain[k].path = None) <=> (PathOf(k) = None)
         /\ chain[k].path # None => Rests(chain[k].path) = PathOf(k)
<1> DEFINE d == Wrote(k)
           l == Layer(k)
<1>1. chain[k].path_add = l.path_add /\ chain[k].path = l.path
  <2>1. chain[k] = Resolved(l, host)
    BY DoneChain
  <2> QED
    BY <2>1 DEF Resolved
<1>2. /\ d.path_add \in Seq(Written) /\ d.path \in Option(Seq(Written))
  BY LayerIsWritten DEF IsDecl, IsEnvVarDecls
<1>3. IsHost(host) /\ host.home \in Path
  BY DoneChain DEF IsHost
<1>4. PathOf(k) = IF d.path = None THEN None ELSE AsMeant(k, d.path)
  BY DEF PathOf, AsMeant
<1>5. d.path # None => /\ d.path \in Seq(Written)
                       /\ AsMeant(k, d.path) # None
  <2>1. ASSUME d.path # None
        PROVE  d.path \in Seq(Written) /\ AsMeant(k, d.path) # None
    <3>1. d.path \in Seq(Written)
      BY <1>2, <2>1 DEF Option
    <3>2. AsMeant(k, d.path) \in Seq(Path)
      BY <1>3, <3>1, AsMeantTyped
    <3> QED
      BY <3>1, <3>2, AbsentAssumption
  <2> QED
    BY <2>1
<1>6. CASE k <= Len(order)
  <2>1. l = Normalized(d, host.home) /\ IsDecl(d)
    BY <1>6, LayerIsWritten
  <2>2. /\ l.path_add = Expanded(d.path_add, host.home)
        /\ l.path = IF d.path = None THEN None ELSE Expanded(d.path, host.home)
    BY <2>1 DEF Normalized, IsDecl
  <2>3. Rests(l.path_add) = AsMeant(k, d.path_add)
    BY <1>2, <1>6, <2>2, ExpandedMeans
  <2>4. CASE d.path = None
    BY <1>1, <1>4, <2>2, <2>3, <2>4
  <2>5. CASE d.path # None
    <3>1. Rests(l.path) = AsMeant(k, d.path)
      BY <1>5, <1>6, <2>2, <2>5, ExpandedMeans
    <3>2. l.path # None
      <4>1. Expanded(d.path, host.home) \in Seq(Written)
        BY <1>3, <1>5, <2>5, ExpandedWritten
      <4> QED
        BY <2>2, <2>5, <4>1, AbsentAssumption
    <3> QED
      BY <1>1, <1>4, <1>5, <2>3, <2>5, <3>1, <3>2
  <2> QED
    BY <2>4, <2>5
<1>7. CASE ~(k <= Len(order))
  <2>1. l = d
    BY <1>7, LayerIsWritten
  <2>2. ASSUME NEW list
        PROVE  Rests(list) = AsMeant(k, list)
    BY <1>7 DEF Rests, AsMeant, Meant
  <2> QED
    BY <1>1, <1>4, <1>5, <2>1, <2>2
<1> QED
  BY <1>6, <1>7

LEMMA PathDone ==
  ASSUME TypeInv, FoldInv
  PROVE  PathAsDeclared
<1> DEFINE Adds(k) == [i \in DOMAIN Wrote(k).path_add |->
                         Meant(k, Wrote(k).path_add[i])]
           additions == FlattenSeq([k \in Layers |-> Adds(k)])
           PATH == result.vars["PATH"]
           default == <<CanonicalPath[1].rest>>
<1> SUFFICES ASSUME pc = "done",
                    \A k \in Layers : \A i \in DOMAIN Wrote(k).env :
                      Wrote(k).env[i].name # "PATH"
             PROVE  Rests(PATH) = Reverse(additions) \o LastWord(PathOf, default)
  BY DEF PathAsDeclared, Rests
<1>1. /\ LayerCount \in Nat /\ Layers = 1 .. LayerCount
      /\ \A k \in Layers : IsProfile(chain[k])
      /\ IsProfile(Merged)
  BY DoneChain DEF Layers
<1>2. "PATH" \notin DOMAIN Merged.vars
  <2>1. ASSUME NEW k \in Layers
        PROVE  "PATH" \notin DOMAIN chain[k].vars
    BY LayerVars
  <2>2. DOMAIN Merged.vars = Keys(chain, LayerCount, "vars")
    BY DEF Merged, FoldOf, Laid
  <2> QED
    BY <1>1, <2>1, <2>2 DEF Keys
<1>3. PATH = PathValue(Merged.path, Merged.path_add)
  BY <1>2, DoneVars
<1>4. /\ Merged.path_add = Joined(chain, LayerCount, "path_add")
      /\ Merged.path = Said(chain, LayerCount, "path")
  BY DEF Merged, FoldOf
<1>5. Merged.path_add \in Seq(Written) /\ Merged.path \in Option(Seq(Written))
  BY <1>1 DEF IsProfile, IsEnvVars
<1>6. PATH = Reverse(Merged.path_add) \o Or(Merged.path, CanonicalPath)
  <2>1. DOMAIN Merged.path_add = 1 .. Len(Merged.path_add)
          /\ Len(Merged.path_add) \in Nat
    BY <1>5, LenProperties
  <2>2. [i \in DOMAIN Merged.path_add |->
           Merged.path_add[Len(Merged.path_add) + 1 - i]] = Reverse(Merged.path_add)
    BY <2>1 DEF Reverse
  <2> QED
    BY <1>3, <2>2 DEF PathValue
<1>7. CanonicalPath \in Seq(Written) /\ Rests(CanonicalPath) = default
  <2>1. Text("canonical") \in Written
    BY TextWritten, WordAssumption
  <2>2. CanonicalPath \in Seq(Written)
    BY <2>1 DEF CanonicalPath
  <2>3. DOMAIN CanonicalPath = {1}
    BY DEF CanonicalPath
  <2>4. Rests(CanonicalPath) = <<CanonicalPath[1].rest>>
    BY <2>3 DEF Rests
  <2> QED
    BY <2>2, <2>4
<1>8. Or(Merged.path, CanonicalPath) \in Seq(Written)
  BY <1>5, <1>7 DEF Or, Option
<1>9. Rests(PATH) = Reverse(Rests(Merged.path_add))
                      \o Rests(Or(Merged.path, CanonicalPath))
  <2>1. Reverse(Merged.path_add) \in Seq(Written)
    BY <1>5, ReverseTyped
  <2>2. Rests(Reverse(Merged.path_add)) = Reverse(Rests(Merged.path_add))
    BY <1>5, RestsReverse
  <2> QED
    BY <1>6, <1>8, <2>1, <2>2, RestsConcat
<1>10. Rests(Merged.path_add) = additions
  <2>1. \A k \in 1 .. LayerCount : chain[k]["path_add"] \in Seq(Written)
    BY <1>1 DEF IsProfile, IsEnvVars
  <2>2. Rests(Merged.path_add) =
          FlattenSeq([k \in 1 .. LayerCount |-> Rests(chain[k]["path_add"])])
    BY <1>1, <1>4, <2>1, RestsJoined
  <2>3. ASSUME NEW k \in 1 .. LayerCount
        PROVE  Rests(chain[k]["path_add"]) = Adds(k)
    BY <1>1, LayerPaths DEF AsMeant
  <2> HIDE DEF Adds
  <2>4. [k \in 1 .. LayerCount |-> Rests(chain[k]["path_add"])] =
          [k \in Layers |-> Adds(k)]
    BY <1>1, <2>3
  <2> QED
    BY <2>2, <2>4
<1>11. Rests(Or(Merged.path, CanonicalPath)) = LastWord(PathOf, default)
  <2> DEFINE said == {k \in Layers : PathOf(k) # None}
  <2>1. LastWord(PathOf, default) =
          IF said = {} THEN default ELSE PathOf(Max(said))
    BY DEF LastWord
  <2>2. Saying(chain, LayerCount, "path") = said
    <3>1. \A k \in Layers : (chain[k].path = None) <=> (PathOf(k) = None)
      BY LayerPaths
    <3> QED
      BY <1>1, <3>1 DEF Saying
  <2>3. Merged.path = IF said = {} THEN None ELSE chain[Max(said)]["path"]
    BY <1>4, <2>2 DEF Said
  <2>4. CASE said = {}
    BY <1>7, <2>1, <2>3, <2>4 DEF Or
  <2>5. CASE said # {}
    <3>1. Max(said) \in said
      BY <1>1, <2>5, MaxExists
    <3>2. /\ Max(said) \in Layers /\ PathOf(Max(said)) # None
      BY <3>1
    <3>3. /\ chain[Max(said)].path # None
          /\ Rests(chain[Max(said)].path) = PathOf(Max(said))
      BY <3>2, LayerPaths
    <3> HIDE DEF said
    <3> QED
      BY <2>1, <2>3, <2>5, <3>3 DEF Or
  <2> QED
    BY <2>4, <2>5
<1> QED
  BY <1>9, <1>10, <1>11

\* PATH has every layer's additions once, the last one first, before the last
\* override or the default, however many layers there are, unless one of them
\* sets PATH itself.
THEOREM PathAlwaysAsDeclared == Spec => []PathAsDeclared
  BY FoldIsClosedForm, PathDone, PTL

-----------------------------------------------------------------------------
(* What is printed is read.  A program's reading of its argv is an         *)
(* iteration, too: its state after i tokens is Scan(argv)[i].              *)

\* One token of argv, read after r.
ReadToken(r, argv, i) ==
  CASE r.end # 0 -> r
    [] r.end = 0 /\ r.due > 0 ->
         [r EXCEPT !.flags[Len(r.flags)] = Append(@, argv[i]), !.due = @ - 1]
    [] r.end = 0 /\ r.due = 0 /\ argv[i] = "--" -> [r EXCEPT !.end = i]
    [] OTHER -> [r EXCEPT !.flags = Append(@, <<argv[i]>>),
                          !.due = Operands(argv[i])]

Unread == [flags |-> <<>>, due |-> 0, end |-> 0]
Scans(f, argv, n) ==
  f = [i \in 0 .. n |-> IF i = 0 THEN Unread ELSE ReadToken(f[i - 1], argv, i)]
Scan(argv) == CHOOSE f : Scans(f, argv, Len(argv))

LEMMA ScansExists ==
  ASSUME NEW argv, NEW n \in Nat
  PROVE  \E f : Scans(f, argv, n)
<1> DEFINE S == {k \in Nat : \E f : Scans(f, argv, k)}
<1>1. 0 \in S
  <2> DEFINE f == [i \in 0 .. 0 |-> Unread]
  <2>1. f = [i \in 0 .. 0 |-> IF i = 0 THEN Unread ELSE ReadToken(f[i - 1], argv, i)]
    OBVIOUS
  <2> QED
    BY <2>1 DEF Scans
<1>2. ASSUME NEW k \in Nat, k \in S
      PROVE  k + 1 \in S
  <2>1. PICK f : Scans(f, argv, k)
    BY <1>2
  <2> DEFINE g == [i \in 0 .. k + 1 |->
                     IF i = k + 1 THEN ReadToken(f[k], argv, k + 1) ELSE f[i]]
  <2>2. ASSUME NEW i \in 0 .. k + 1
        PROVE  g[i] = IF i = 0 THEN Unread ELSE ReadToken(g[i - 1], argv, i)
    <3>1. CASE i = k + 1
      BY <3>1
    <3>2. CASE i # k + 1
      <4>1. f[i] = IF i = 0 THEN Unread ELSE ReadToken(f[i - 1], argv, i)
        BY <2>1, <3>2 DEF Scans
      <4> QED
        BY <4>1, <3>2
    <3> QED
      BY <3>1, <3>2
  <2>3. g = [i \in 0 .. k + 1 |->
               IF i = 0 THEN Unread ELSE ReadToken(g[i - 1], argv, i)]
    BY <2>2
  <2>4. Scans(g, argv, k + 1)
    BY <2>3 DEF Scans
  <2> QED
    BY <2>4
<1> HIDE DEF S
<1>3. n \in S
  BY <1>1, <1>2, Induction
<1> QED
  BY <1>3 DEF S

LEMMA ReadingIsScan ==
  ASSUME NEW argv
  PROVE  Reading(argv) = Scan(argv)[Len(argv)]
BY Zenon DEF Reading, Scan, Scans, ReadToken, Unread

\* Token by token.
LEMMA ScanStep ==
  ASSUME NEW argv, Len(argv) \in Nat
  PROVE  /\ Scan(argv)[0] = Unread
         /\ \A i \in 1 .. Len(argv) :
              Scan(argv)[i] = ReadToken(Scan(argv)[i - 1], argv, i)
<1> DEFINE f == Scan(argv)
<1>1. Scans(f, argv, Len(argv))
  BY ScansExists DEF Scan
<1> HIDE DEF f
<1>2. f[0] = Unread
  BY <1>1 DEF Scans
<1>3. ASSUME NEW i \in 1 .. Len(argv)
      PROVE  f[i] = ReadToken(f[i - 1], argv, i)
  BY <1>1 DEF Scans
<1> QED
  BY <1>2, <1>3 DEF f

-----------------------------------------------------------------------------
Read(flags, due) == [flags |-> flags, due |-> due, end |-> 0]

LEMMA ReadFlag ==
  ASSUME NEW flags, NEW argv, NEW i, argv[i] # "--"
  PROVE  ReadToken(Read(flags, 0), argv, i) =
           Read(Append(flags, <<argv[i]>>), Operands(argv[i]))
<1> DEFINE r == Read(flags, 0)
<1>1. r.end = 0 /\ r.due = 0 /\ r.flags = flags
  BY DEF Read
<1>2. ReadToken(r, argv, i) =
        [r EXCEPT !.flags = Append(@, <<argv[i]>>), !.due = Operands(argv[i])]
  BY <1>1 DEF ReadToken
<1> QED
  BY <1>2 DEF Read

LEMMA AppendIs ==
  ASSUME NEW S, NEW s \in Seq(S), NEW x \in S, NEW t \in Seq(S),
         Len(t) = Len(s) + 1, \A i \in 1 .. Len(s) : t[i] = s[i],
         t[Len(s) + 1] = x
  PROVE  Append(s, x) = t
<1> DEFINE a == Append(s, x)
<1>1. /\ a \in Seq(S) /\ Len(a) = Len(t) /\ Len(s) \in Nat
      /\ \A i \in 1 .. Len(s) : a[i] = s[i]
      /\ a[Len(s) + 1] = x
  BY AppendProperties, LenProperties
<1> HIDE DEF a
<1>2. \A i \in 1 .. Len(a) : a[i] = t[i]
  BY <1>1
<1>3. a = t
  BY <1>1, <1>2, SeqEqual
<1> QED
  BY <1>3 DEF a

LEMMA AppendLast ==
  ASSUME NEW T, NEW flags \in Seq(T), NEW f \in T, NEW g \in T
  PROVE  [Append(flags, f) EXCEPT ![Len(Append(flags, f))] = g] = Append(flags, g)
<1> DEFINE a == Append(flags, f)
           c == [a EXCEPT ![Len(a)] = g]
           n == Len(flags)
<1>1. /\ n \in Nat /\ a \in Seq(T) /\ Len(a) = n + 1
      /\ \A i \in 1 .. n : a[i] = flags[i]
  BY AppendProperties, LenProperties
<1> HIDE DEF a, n
<1>2. Len(a) \in 1 .. Len(a)
  BY <1>1
<1>3. /\ c \in Seq(T) /\ Len(c) = n + 1
      /\ \A i \in 1 .. n + 1 : c[i] = IF i = n + 1 THEN g ELSE a[i]
  BY <1>1, <1>2, ExceptSeq
<1> HIDE DEF c
<1>4. Append(flags, g) = c
  BY <1>1, <1>3, AppendIs DEF n
<1> QED
  BY <1>4 DEF c, a

LEMMA ReadOperand ==
  ASSUME NEW S, NEW flags \in Seq(Seq(S)), NEW g \in Seq(S), NEW argv, NEW i,
         argv[i] \in S, NEW d \in Nat, d > 0
  PROVE  ReadToken(Read(Append(flags, g), d), argv, i) =
           Read(Append(flags, Append(g, argv[i])), d - 1)
<1> DEFINE a == Append(flags, g)
           r == Read(a, d)
           h == Append(g, argv[i])
<1>1. r.end = 0 /\ r.due = d /\ r.flags = a
  BY DEF Read
<1>2. ReadToken(r, argv, i) =
        [r EXCEPT !.flags[Len(r.flags)] = Append(@, argv[i]), !.due = @ - 1]
  BY <1>1 DEF ReadToken
<1>3. a[Len(a)] = g
  BY AppendProperties, LenProperties
<1>4. h \in Seq(S)
  BY AppendProperties
<1> HIDE DEF h
<1>5. [a EXCEPT ![Len(a)] = h] = Append(flags, h)
  BY <1>4, AppendLast
<1> HIDE DEF a
<1>6. ReadToken(r, argv, i) = Read([a EXCEPT ![Len(a)] = h], d - 1)
  BY <1>1, <1>2, <1>3 DEF Read, h
<1> QED
  BY <1>5, <1>6 DEF a, h

\* A flag as bwrap and pasta take it: with the operands it has.
IsFlag(f, S) ==
  /\ f \in Seq(S)
  /\ f[1] # "--"
  /\ Len(f) = 1 + Operands(f[1])

LEMMA ReadWhole ==
  ASSUME NEW S, NEW argv \in Seq(S), NEW flags \in Seq(Seq(S)), NEW o \in Nat,
         NEW f, IsFlag(f, S), o + Len(f) <= Len(argv),
         \A j \in 1 .. Len(f) : argv[o + j] = f[j],
         Scan(argv)[o] = Read(flags, 0)
  PROVE  Scan(argv)[o + Len(f)] = Read(Append(flags, f), 0)
<1> DEFINE scan == Scan(argv)
           n == Operands(f[1])
<1>1. n \in 0 .. 2
  BY DEF Operands
<1>2. Len(argv) \in Nat /\ f \in Seq(S) /\ Len(f) = 1 + n /\ f[1] # "--"
  BY DEF IsFlag
<1>3. \A i \in 1 .. Len(argv) : scan[i] = ReadToken(scan[i - 1], argv, i)
  BY <1>2, ScanStep
<1>4. \A j \in 1 .. Len(f) : f[j] \in S /\ argv[o + j] \in S
  BY <1>2, Element
<1> HIDE DEF scan, n
<1>5. scan[o + 1] = Read(Append(flags, <<f[1]>>), n)
  <2>1. argv[o + 1] = f[1] /\ o + 1 \in 1 .. Len(argv) /\ (o + 1) - 1 = o
    BY <1>1, <1>2
  <2>2. scan[o + 1] = ReadToken(scan[o], argv, o + 1)
    BY <1>3, <2>1
  <2> QED
    BY <1>2, <2>1, <2>2, ReadFlag DEF scan, n
<1>6. CASE n = 0
  <2>1. f = <<f[1]>>
    BY <1>2, <1>6
  <2> QED
    BY <1>2, <1>5, <1>6, <2>1 DEF scan
<1>7. ASSUME n > 0
      PROVE  scan[o + 2] = Read(Append(flags, <<f[1], f[2]>>), n - 1)
  <2>1. argv[o + 2] = f[2] /\ o + 2 \in 1 .. Len(argv) /\ (o + 2) - 1 = o + 1
    BY <1>1, <1>2, <1>7
  <2>2. scan[o + 2] = ReadToken(scan[o + 1], argv, o + 2)
    BY <1>3, <2>1
  <2>3. <<f[1]>> \in Seq(S) /\ argv[o + 2] \in S /\ n \in Nat
    BY <1>1, <1>2, <1>4, <1>7
  <2> DEFINE g == <<f[1]>>
             x == o + 2
  <2>5. Append(g, argv[x]) = <<f[1], f[2]>>
    <3> DEFINE one == <<f[1]>>
               two == <<f[1], f[2]>>
    <3>1. /\ one \in Seq(S) /\ two \in Seq(S) /\ f[2] \in S
          /\ Len(one) = 1 /\ Len(two) = 2
          /\ one[1] = f[1] /\ two[1] = f[1] /\ two[2] = f[2]
      BY <2>1, <2>3
    <3> HIDE DEF one, two
    <3>2. /\ Len(two) = Len(one) + 1 /\ two[Len(one) + 1] = f[2]
          /\ \A i \in 1 .. Len(one) : two[i] = one[i]
      BY <3>1
    <3>3. Append(one, f[2]) = two
      BY <3>1, <3>2, AppendIs
    <3> QED
      BY <2>1, <3>3 DEF one, two
  <2>6. g \in Seq(S) /\ argv[x] \in S
    BY <2>3
  <2> HIDE DEF g, x
  <2>7. ReadToken(Read(Append(flags, g), n), argv, x) =
          Read(Append(flags, Append(g, argv[x])), n - 1)
    BY <1>7, <2>3, <2>6, ReadOperand
  <2>4. ReadToken(Read(Append(flags, <<f[1]>>), n), argv, o + 2) =
          Read(Append(flags, <<f[1], f[2]>>), n - 1)
    BY <2>5, <2>7 DEF g, x
  <2> QED
    BY <1>5, <2>2, <2>4
<1>8. CASE n = 1
  <2>1. f = <<f[1], f[2]>>
    BY <1>2, <1>8
  <2>2. o + Len(f) = o + 2 /\ n - 1 = 0
    BY <1>2, <1>8
  <2> DEFINE two == <<f[1], f[2]>>
  <2>3. f = two /\ scan[o + 2] = Read(Append(flags, two), n - 1)
    BY <1>7, <1>8, <2>1
  <2> HIDE DEF two
  <2>4. scan[o + Len(f)] = Read(Append(flags, f), 0)
    BY <2>2, <2>3
  <2> QED
    BY <2>4 DEF scan
<1>9. CASE n = 2
  <2>1. argv[o + 3] = f[3] /\ o + 3 \in 1 .. Len(argv) /\ (o + 3) - 1 = o + 2
    BY <1>2, <1>9
  <2>2. scan[o + 3] = ReadToken(scan[o + 2], argv, o + 3)
    BY <1>3, <2>1
  <2>3. <<f[1], f[2]>> \in Seq(S) /\ argv[o + 3] \in S
    BY <1>2, <1>4, <1>9
  <2> DEFINE g == <<f[1], f[2]>>
             x == o + 3
  <2>5. Append(g, argv[x]) = f
    <3> DEFINE two == <<f[1], f[2]>>
    <3>1. /\ two \in Seq(S) /\ f[3] \in S /\ Len(two) = 2 /\ Len(f) = 3
          /\ two[1] = f[1] /\ two[2] = f[2]
      BY <1>2, <1>9, <2>1, <2>3
    <3> HIDE DEF two
    <3>2. /\ Len(f) = Len(two) + 1 /\ f[Len(two) + 1] = f[3]
          /\ \A i \in 1 .. Len(two) : f[i] = two[i]
      BY <3>1
    <3>3. Append(two, f[3]) = f
      BY <1>2, <3>1, <3>2, AppendIs
    <3> QED
      BY <2>1, <3>3 DEF two
  <2>8. g \in Seq(S) /\ argv[x] \in S /\ 1 \in Nat /\ 1 > 0
    BY <2>3
  <2> HIDE DEF g, x
  <2>9. ReadToken(Read(Append(flags, g), 1), argv, x) =
          Read(Append(flags, Append(g, argv[x])), 1 - 1)
    BY <2>8, ReadOperand
  <2>4. ReadToken(Read(Append(flags, <<f[1], f[2]>>), 1), argv, o + 3) =
          Read(Append(flags, f), 1 - 1)
    BY <2>5, <2>9 DEF g, x
  <2>6. scan[o + 2] = Read(Append(flags, <<f[1], f[2]>>), 1)
    BY <1>7, <1>9
  <2>7. o + Len(f) = o + 3 /\ 1 - 1 = 0
    BY <1>2, <1>9
  <2> QED
    BY <2>2, <2>4, <2>6, <2>7 DEF scan
<1> QED
  BY <1>1, <1>6, <1>8, <1>9

Starts(argv, tokens) ==
  Len(tokens) <= Len(argv) /\ \A j \in 1 .. Len(tokens) : argv[j] = tokens[j]
FlagLists(n, S) == {fs \in [1 .. n -> Seq(S)] : \A i \in 1 .. n : IsFlag(fs[i], S)}

\* All the flags that are written are read, one by one and with what is theirs.
LEMMA ReadsFlags ==
  ASSUME NEW S
  PROVE  \A n \in Nat : \A fs \in FlagLists(n, S) : \A argv \in Seq(S) :
           Starts(argv, FlattenSeq(fs)) =>
             Scan(argv)[Len(FlattenSeq(fs))] = Read(fs, 0)
<1> DEFINE T == {n \in Nat : \A fs \in FlagLists(n, S) : \A argv \in Seq(S) :
                   Starts(argv, FlattenSeq(fs)) =>
                     Scan(argv)[Len(FlattenSeq(fs))] = Read(fs, 0)}
<1>1. 0 \in T
  <2>1. SUFFICES ASSUME NEW fs \in FlagLists(0, S), NEW argv \in Seq(S)
                 PROVE  Scan(argv)[Len(FlattenSeq(fs))] = Read(fs, 0)
    OBVIOUS
  <2>2. fs = <<>>
    BY DEF FlagLists
  <2>3. FlattenSeq(fs) = <<>>
    BY <2>2, FlattenEmpty
  <2>4. Scan(argv)[0] = Unread
    BY ScanStep, LenProperties
  <2> QED
    BY <2>2, <2>3, <2>4 DEF Read, Unread
<1>2. ASSUME NEW n \in Nat, n \in T
      PROVE  n + 1 \in T
  <2>1. SUFFICES ASSUME NEW fs \in FlagLists(n + 1, S), NEW argv \in Seq(S),
                        Starts(argv, FlattenSeq(fs))
                 PROVE  Scan(argv)[Len(FlattenSeq(fs))] = Read(fs, 0)
    OBVIOUS
  <2> DEFINE g == [i \in 1 .. n |-> fs[i]]
             f == fs[n + 1]
             all == FlattenSeq(fs)
             some == FlattenSeq(g)
  <2>2. /\ fs \in [1 .. n + 1 -> Seq(S)] /\ g \in [1 .. n -> Seq(S)]
        /\ \A i \in 1 .. n : g[i] = fs[i]
        /\ n + 1 \in 1 .. n + 1
    BY DEF FlagLists
  <2>3. g \in FlagLists(n, S) /\ IsFlag(f, S)
    BY <2>2 DEF FlagLists
  <2>4. f \in Seq(S) /\ g \in Seq(Seq(S)) /\ Len(g) = n /\ fs \in Seq(Seq(S))
        /\ Len(fs) = n + 1
    BY <2>2, <2>3 DEF IsFlag
  <2> HIDE DEF g
  <2>5. some \in Seq(S) /\ all = some \o f
    BY <2>2, FlattenMore
  <2> HIDE DEF some, all, f
  <2>6. /\ Len(all) = Len(some) + Len(f) /\ Len(some) \in Nat /\ Len(f) \in Nat
        /\ \A j \in 1 .. Len(some) : all[j] = some[j]
        /\ \A j \in 1 .. Len(f) : all[Len(some) + j] = f[j]
    BY <2>4, <2>5, ConcatProperties, LenProperties
  <2>7. Len(all) <= Len(argv) /\ \A j \in 1 .. Len(all) : argv[j] = all[j]
    BY <2>1 DEF Starts, all
  <2>8. Len(argv) \in Nat
    BY LenProperties
  <2>9. Starts(argv, some)
    <3>1. Len(some) <= Len(argv)
      BY <2>6, <2>7, <2>8
    <3>2. \A j \in 1 .. Len(some) : argv[j] = some[j]
      BY <2>6, <2>7
    <3> QED
      BY <3>1, <3>2 DEF Starts
  <2>10. Scan(argv)[Len(some)] = Read(g, 0)
    BY <1>2, <2>3, <2>9 DEF some
  <2>11. \A j \in 1 .. Len(f) : argv[Len(some) + j] = f[j]
    BY <2>6, <2>7
  <2>12. Scan(argv)[Len(some) + Len(f)] = Read(Append(g, f), 0)
    BY <2>3, <2>4, <2>6, <2>7, <2>10, <2>11, ReadWhole
  <2>13. Append(g, f) = fs
    <3>1. Len(fs) = Len(g) + 1 /\ \A i \in 1 .. Len(g) : fs[i] = g[i]
      BY <2>2, <2>4
    <3>2. fs[Len(g) + 1] = f
      BY <2>4 DEF f
    <3> QED
      BY <2>4, <3>1, <3>2, AppendIs
  <2> QED
    BY <2>6, <2>12, <2>13 DEF all
<1> HIDE DEF T
<1>3. \A n \in Nat : n \in T
  BY <1>1, <1>2, Induction
<1> QED
  BY <1>3 DEF T

\* What follows "--" is not read.
LEMMA ReadsNoMore ==
  ASSUME NEW S, NEW argv \in Seq(S), NEW e \in 1 .. Len(argv),
         Scan(argv)[e].end # 0
  PROVE  Scan(argv)[Len(argv)] = Scan(argv)[e]
<1>1. Len(argv) \in Nat
  BY LenProperties
<1> DEFINE scan == Scan(argv)
           T == {n \in Nat : e + n <= Len(argv) => scan[e + n] = scan[e]}
<1>2. 0 \in T
  BY <1>1
<1>3. ASSUME NEW n \in Nat, n \in T
      PROVE  n + 1 \in T
  <2>1. SUFFICES ASSUME e + (n + 1) <= Len(argv)
                 PROVE  scan[e + (n + 1)] = scan[e]
    OBVIOUS
  <2>2. scan[e + n] = scan[e]
    BY <1>1, <1>3, <2>1
  <2>3. e + (n + 1) \in 1 .. Len(argv) /\ (e + (n + 1)) - 1 = e + n
    BY <1>1, <2>1
  <2>4. scan[e + (n + 1)] = ReadToken(scan[e + n], argv, e + (n + 1))
    BY <1>1, <2>3, ScanStep
  <2> HIDE DEF scan
  <2>5. scan[e].end # 0
    BY DEF scan
  <2> QED
    BY <2>2, <2>4, <2>5 DEF ReadToken
<1> HIDE DEF T
<1>4. Len(argv) - e \in Nat
  BY <1>1
<1>5. Len(argv) - e \in T
  BY <1>2, <1>3, <1>4, Induction
<1>6. e + (Len(argv) - e) = Len(argv)
  BY <1>1
<1> QED
  BY <1>1, <1>5, <1>6 DEF T

\* bwrap and pasta read what was written: the flags with their operands, and
\* after "--" the child's command line, whatever is in it.
THEOREM ReadsBack ==
  ASSUME NEW S, "--" \in S, NEW n \in Nat, NEW fs \in FlagLists(n, S),
         NEW rest \in Seq(S)
  PROVE  LET argv == FlattenSeq(fs) \o <<"--">> \o rest
         IN  /\ argv \in Seq(S)
             /\ Reading(argv).flags = fs
             /\ ChildOf(argv) = rest
<1> DEFINE flat == FlattenSeq(fs)
           mark == <<"--">>
           start == flat \o mark
           argv == start \o rest
           e == Len(flat) + 1
<1>1. flat \in Seq(S)
  <2>1. fs \in [1 .. n -> Seq(S)]
    BY DEF FlagLists
  <2> DEFINE g == [i \in 1 .. n + 1 |-> IF i = n + 1 THEN <<>> ELSE fs[i]]
  <2>2. g \in [1 .. n + 1 -> Seq(S)] /\ \A i \in 1 .. n : fs[i] = g[i]
    BY <2>1
  <2> HIDE DEF g
  <2> QED
    BY <2>1, <2>2, FlattenMore
<1>2. mark \in Seq(S) /\ Len(mark) = 1 /\ mark[1] = "--"
  OBVIOUS
<1> HIDE DEF flat, mark
<1>3. /\ start \in Seq(S) /\ Len(start) = Len(flat) + 1 /\ Len(flat) \in Nat
      /\ \A j \in 1 .. Len(flat) : start[j] = flat[j]
      /\ start[Len(flat) + 1] = "--"
  <2>1. Len(flat) \in Nat
    BY <1>1, LenProperties
  <2>2. /\ start \in Seq(S) /\ Len(start) = Len(flat) + Len(mark)
        /\ \A j \in 1 .. Len(flat) + Len(mark) :
             start[j] = IF j <= Len(flat) THEN flat[j] ELSE mark[j - Len(flat)]
    BY <1>1, <1>2, ConcatProperties
  <2> HIDE DEF start
  <2> QED
    BY <1>2, <2>1, <2>2
<1> HIDE DEF start
<1>4. /\ argv \in Seq(S) /\ Len(argv) = Len(start) + Len(rest)
      /\ Len(rest) \in Nat /\ Len(argv) \in Nat
      /\ \A j \in 1 .. Len(start) : argv[j] = start[j]
      /\ \A j \in 1 .. Len(rest) : argv[Len(start) + j] = rest[j]
  <2>1. Len(start) \in Nat /\ Len(rest) \in Nat
    BY <1>3, LenProperties
  <2>2. /\ argv \in Seq(S) /\ Len(argv) = Len(start) + Len(rest)
        /\ \A j \in 1 .. Len(start) + Len(rest) :
             argv[j] = IF j <= Len(start) THEN start[j] ELSE rest[j - Len(start)]
    BY <1>3, ConcatProperties
  <2> HIDE DEF argv
  <2>3. \A j \in 1 .. Len(rest) :
          Len(start) + j \in 1 .. Len(start) + Len(rest) /\ ~(Len(start) + j <= Len(start))
            /\ (Len(start) + j) - Len(start) = j
    BY <2>1
  <2> QED
    BY <2>1, <2>2, <2>3
<1> HIDE DEF argv
<1>5. Starts(argv, flat)
  BY <1>3, <1>4 DEF Starts
<1>6. Scan(argv)[Len(flat)] = Read(fs, 0)
  BY <1>4, <1>5, ReadsFlags DEF flat
<1>7. e \in 1 .. Len(argv) /\ e - 1 = Len(flat) /\ argv[e] = "--" /\ e # 0
  BY <1>3, <1>4
<1>8. Scan(argv)[e] = ReadToken(Scan(argv)[e - 1], argv, e)
  BY <1>4, <1>7, ScanStep
<1> HIDE DEF e
<1>9. Scan(argv)[e] = ReadToken(Read(fs, 0), argv, e)
  BY <1>6, <1>7, <1>8
<1>10. Scan(argv)[e] = [Read(fs, 0) EXCEPT !.end = e]
  <2>1. Read(fs, 0).end = 0 /\ Read(fs, 0).due = 0
    BY DEF Read
  <2> HIDE DEF e
  <2> QED
    BY <1>7, <1>9, <2>1 DEF ReadToken
<1>11. Scan(argv)[e].end = e /\ Scan(argv)[e].flags = fs
  BY <1>10 DEF Read
<1>12. Reading(argv) = Scan(argv)[e]
  BY <1>4, <1>7, <1>11, ReadsNoMore, ReadingIsScan
<1>13. ChildOf(argv) = SubSeq(argv, e + 1, Len(argv))
  BY <1>7, <1>11, <1>12 DEF ChildOf
<1>14. SubSeq(argv, e + 1, Len(argv)) = rest
  <2> DEFINE c == SubSeq(argv, e + 1, Len(argv))
  <2>0. e = Len(start) /\ Len(start) \in Nat
    BY <1>3 DEF e
  <2>1. \A i \in e + 1 .. Len(argv) : argv[i] \in S
    BY <1>4, <2>0, LenProperties
  <2>2. e + 1 \in Int /\ Len(argv) \in Int
    BY <1>4, <2>0
  <2>3. /\ c \in Seq(S)
        /\ Len(c) = IF e + 1 <= Len(argv) THEN Len(argv) - (e + 1) + 1 ELSE 0
        /\ \A i \in 1 .. Len(argv) - (e + 1) + 1 : c[i] = argv[(e + 1) + i - 1]
    BY <2>1, <2>2, SubSeqProperties
  <2> HIDE DEF c
  <2>4. Len(c) = Len(rest)
    BY <1>4, <2>0, <2>3
  <2>5. \A i \in 1 .. Len(c) : c[i] = rest[i]
    <3>1. SUFFICES ASSUME NEW i \in 1 .. Len(c)
                   PROVE  c[i] = rest[i]
      OBVIOUS
    <3>2. i \in 1 .. Len(rest) /\ i \in 1 .. Len(argv) - (e + 1) + 1
      BY <1>4, <2>0, <2>4
    <3>3. (e + 1) + i - 1 = Len(start) + i
      BY <2>0, <3>2
    <3> QED
      BY <1>4, <2>3, <3>2, <3>3
  <2>6. c = rest
    BY <2>3, <2>4, <2>5, SeqEqual
  <2> QED
    BY <2>6 DEF c
<1>15. /\ argv \in Seq(S)
       /\ Reading(argv).flags = fs
       /\ ChildOf(argv) = rest
  BY <1>4, <1>11, <1>12, <1>13, <1>14
<1> QED
  BY <1>15 DEF argv, start, mark, flat

-----------------------------------------------------------------------------
Kept(fs, names) ==
  FlattenSeq([i \in DOMAIN fs |->
    IF fs[i][1] \in names THEN <<fs[i]>> ELSE <<>>])

LEMMA FlaggedIsKept ==
  ASSUME NEW argv, NEW names
  PROVE  Flagged(argv, names) = Kept(Reading(argv).flags, names)
BY DEF Flagged, Kept

LEMMA KeptEmpty ==
  ASSUME NEW names
  PROVE  Kept(<<>>, names) = <<>>
<1>1. [i \in DOMAIN <<>> |-> IF <<>>[i][1] \in names THEN <<<<>>[i]>> ELSE <<>>] = <<>>
  OBVIOUS
<1> QED
  BY <1>1, FlattenEmpty DEF Kept

LEMMA KeptMore ==
  ASSUME NEW T, NEW names, NEW fs \in Seq(T), NEW f \in T
  PROVE  /\ Kept(fs, names) \in Seq(T)
         /\ Kept(Append(fs, f), names) =
              IF f[1] \in names THEN Append(Kept(fs, names), f) ELSE Kept(fs, names)
<1> DEFINE more == Append(fs, f)
           One(g) == IF g[1] \in names THEN <<g>> ELSE <<>>
           n == Len(fs)
           s == [i \in DOMAIN fs |-> One(fs[i])]
           t == [i \in DOMAIN more |-> One(more[i])]
<1>1. n \in Nat /\ DOMAIN fs = 1 .. n /\ \A i \in 1 .. n : fs[i] \in T
  BY LenProperties
<1>2. /\ more \in Seq(T) /\ Len(more) = n + 1 /\ more[n + 1] = f
      /\ \A i \in 1 .. n : more[i] = fs[i]
  BY AppendProperties
<1>3. DOMAIN more = 1 .. n + 1 /\ \A i \in 1 .. n + 1 : more[i] \in T
  BY <1>2, LenProperties
<1>4. \A g \in T : One(g) \in Seq(T)
  OBVIOUS
<1> HIDE DEF One, more, n
<1>5. s \in [1 .. n -> Seq(T)] /\ t \in [1 .. n + 1 -> Seq(T)]
  BY <1>1, <1>3, <1>4
<1>6. (\A i \in 1 .. n : s[i] = t[i]) /\ t[n + 1] = One(f)
  BY <1>1, <1>2, <1>3
<1> HIDE DEF s, t
<1>7. FlattenSeq(s) \in Seq(T) /\ FlattenSeq(t) = FlattenSeq(s) \o t[n + 1]
  BY <1>1, <1>5, <1>6, FlattenMore
<1>8. FlattenSeq(t) = IF f[1] \in names THEN Append(FlattenSeq(s), f) ELSE FlattenSeq(s)
  <2>1. CASE f[1] \in names
    <3>1. One(f) = <<f>>
      BY <2>1 DEF One
    <3>2. FlattenSeq(s) \o <<f>> = Append(FlattenSeq(s), f)
      BY <1>7, AppendIsConcat
    <3> QED
      BY <1>6, <1>7, <2>1, <3>1, <3>2
  <2>2. CASE f[1] \notin names
    <3>1. One(f) = <<>>
      BY <2>2 DEF One
    <3> QED
      BY <1>6, <1>7, <2>2, <3>1, ConcatEmptySeq
  <2> QED
    BY <2>1, <2>2
<1>9. Kept(fs, names) = FlattenSeq(s) /\ Kept(more, names) = FlattenSeq(t)
  BY Zenon DEF Kept, s, t, One
<1> QED
  BY <1>7, <1>8, <1>9 DEF more

\* A sequence without its last element, and with it again.
ButLast(s) == [i \in 1 .. Len(s) - 1 |-> s[i]]

LEMMA FrontAppend ==
  ASSUME NEW T, NEW n \in Nat, NEW s \in Seq(T), Len(s) = n + 1
  PROVE  /\ ButLast(s) \in Seq(T) /\ Len(ButLast(s)) = n
         /\ \A i \in 1 .. n : ButLast(s)[i] = s[i]
         /\ s[n + 1] \in T
         /\ s = Append(ButLast(s), s[n + 1])
<1> DEFINE r == ButLast(s)
<1>1. \A i \in 1 .. n + 1 : s[i] \in T
  BY LenProperties
<1>2. r \in Seq(T) /\ Len(r) = n /\ \A i \in 1 .. n : r[i] = s[i]
  BY <1>1 DEF ButLast
<1> HIDE DEF r
<1>3. s[n + 1] \in T
  BY <1>1
<1>4. Len(s) = Len(r) + 1 /\ (\A i \in 1 .. Len(r) : s[i] = r[i]) /\ s[Len(r) + 1] = s[n + 1]
  BY <1>2
<1>5. Append(r, s[n + 1]) = s
  BY <1>2, <1>3, <1>4, AppendIs
<1> QED
  BY <1>2, <1>3, <1>5 DEF r

LEMMA KeptConcat ==
  ASSUME NEW T, NEW names, NEW a \in Seq(T)
  PROVE  \A b \in Seq(T) : Kept(a \o b, names) = Kept(a, names) \o Kept(b, names)
<1> DEFINE S == {n \in Nat : \A b \in Seq(T) : Len(b) = n =>
                   Kept(a \o b, names) = Kept(a, names) \o Kept(b, names)}
<1>0. <<>> \in Seq(T) /\ Kept(a, names) \in Seq(T) /\ a \o <<>> = a
  <2>1. CASE T = {}
    <3>1. a = <<>>
      <4>1. Len(a) \in Nat /\ \A i \in 1 .. Len(a) : a[i] \in T
        BY LenProperties
      <4>2. Len(a) = 0
        BY <2>1, <4>1
      <4> QED
        BY <4>2
    <3>2. Kept(a, names) = <<>>
      BY <3>1, KeptEmpty
    <3> QED
      BY <3>2, ConcatEmptySeq
  <2>2. ASSUME NEW x \in T
        PROVE  Kept(a, names) \in Seq(T)
    BY KeptMore
  <2> QED
    BY <2>1, <2>2, ConcatEmptySeq
<1>1. 0 \in S
  <2>1. SUFFICES ASSUME NEW b \in Seq(T), Len(b) = 0
                 PROVE  Kept(a \o b, names) = Kept(a, names) \o Kept(b, names)
    OBVIOUS
  <2>2. b = <<>>
    BY <2>1
  <2> QED
    BY <1>0, <2>2, KeptEmpty, ConcatEmptySeq
<1>2. ASSUME NEW n \in Nat, n \in S
      PROVE  n + 1 \in S
  <2>1. SUFFICES ASSUME NEW b \in Seq(T), Len(b) = n + 1
                 PROVE  Kept(a \o b, names) = Kept(a, names) \o Kept(b, names)
    OBVIOUS
  <2> DEFINE r == ButLast(b)
             x == b[n + 1]
  <2>2. /\ r \in Seq(T) /\ x \in T /\ Len(r) = n /\ b = Append(r, x)
        /\ \A i \in 1 .. n : r[i] = b[i]
    BY <2>1, FrontAppend
  <2> HIDE DEF r, x
  <2>3. Kept(a \o r, names) = Kept(a, names) \o Kept(r, names)
    <3>1. \A c \in Seq(T) : Len(c) = n =>
            Kept(a \o c, names) = Kept(a, names) \o Kept(c, names)
      BY <1>2
    <3> QED
      BY <2>2, <3>1, Zenon
  <2>4. a \o r \in Seq(T)
    BY <2>2, ConcatProperties
  <2>5. a \o b = Append(a \o r, x)
    <3>1. a \o b = a \o (r \o <<x>>)
      BY <2>2, AppendIsConcat
    <3>2. <<x>> \in Seq(T)
      BY <2>2
    <3>3. (a \o r) \o <<x>> = a \o (r \o <<x>>)
      BY <2>2, <3>2, ConcatAssociative
    <3> QED
      BY <2>2, <2>4, <3>1, <3>3, AppendIsConcat
  <2> DEFINE ka == Kept(a, names)
             kr == Kept(r, names)
  <2>6. /\ Kept(b, names) = IF x[1] \in names THEN Append(kr, x) ELSE kr
        /\ kr \in Seq(T)
    <3>1. Kept(Append(r, x), names) =
            IF x[1] \in names THEN Append(Kept(r, names), x) ELSE Kept(r, names)
      BY <2>2, KeptMore
    <3>2. Kept(r, names) \in Seq(T)
      BY <2>2, KeptMore
    <3> QED
      BY <2>2, <3>1, <3>2, Zenon
  <2>7. Kept(a \o b, names) =
          IF x[1] \in names THEN Append(ka \o kr, x) ELSE ka \o kr
    <3> DEFINE ar == a \o r
    <3>0. ar \in Seq(T)
      BY <2>4
    <3> HIDE DEF ar
    <3>1. Kept(Append(ar, x), names) =
            IF x[1] \in names THEN Append(Kept(ar, names), x) ELSE Kept(ar, names)
      BY <2>2, <3>0, KeptMore
    <3> QED
      BY <2>3, <2>5, <3>1, Zenon DEF ar
  <2>8. Append(ka \o kr, x) = ka \o Append(kr, x)
    <3> HIDE DEF ka, kr
    <3>1. ka \in Seq(T) /\ ka \o kr \in Seq(T) /\ <<x>> \in Seq(T)
      BY <1>0, <2>2, <2>6, ConcatProperties DEF ka
    <3>2. Append(ka \o kr, x) = (ka \o kr) \o <<x>>
      BY <2>2, <3>1, AppendIsConcat
    <3>3. (ka \o kr) \o <<x>> = ka \o (kr \o <<x>>)
      BY <2>6, <3>1, ConcatAssociative, SMTT(30)
    <3> QED
      BY <2>2, <2>6, <3>2, <3>3, AppendIsConcat
  <2> QED
    BY <2>6, <2>7, <2>8
<1> HIDE DEF S
<1>3. \A n \in Nat : n \in S
  BY <1>1, <1>2, Induction
<1> QED
  BY <1>3, LenProperties DEF S

LEMMA KeptSame ==
  ASSUME NEW T, NEW names
  PROVE  /\ \A s \in Seq(T) :
              (\A i \in 1 .. Len(s) : s[i][1] \in names) => Kept(s, names) = s
         /\ \A s \in Seq(T) :
              (\A i \in 1 .. Len(s) : s[i][1] \notin names) => Kept(s, names) = <<>>
<1> DEFINE All(s) == \A i \in 1 .. Len(s) : s[i][1] \in names
           No(s) == \A i \in 1 .. Len(s) : s[i][1] \notin names
           S == {n \in Nat : \A s \in Seq(T) : Len(s) = n =>
                   /\ All(s) => Kept(s, names) = s
                   /\ No(s) => Kept(s, names) = <<>>}
<1>1. 0 \in S
  <2>1. SUFFICES ASSUME NEW s \in Seq(T), Len(s) = 0
                 PROVE  Kept(s, names) = s /\ Kept(s, names) = <<>>
    OBVIOUS
  <2>2. s = <<>>
    BY <2>1
  <2> QED
    BY <2>2, KeptEmpty
<1>2. ASSUME NEW n \in Nat, n \in S
      PROVE  n + 1 \in S
  <2>1. SUFFICES ASSUME NEW s \in Seq(T), Len(s) = n + 1
                 PROVE  /\ All(s) => Kept(s, names) = s
                        /\ No(s) => Kept(s, names) = <<>>
    OBVIOUS
  <2> DEFINE r == ButLast(s)
             x == s[n + 1]
  <2>2. /\ r \in Seq(T) /\ x \in T /\ Len(r) = n /\ s = Append(r, x)
        /\ \A i \in 1 .. n : r[i] = s[i]
    BY <2>1, FrontAppend
  <2> HIDE DEF r, x
  <2>3. Kept(s, names) =
          IF x[1] \in names THEN Append(Kept(r, names), x) ELSE Kept(r, names)
    <3>1. Kept(Append(r, x), names) =
            IF x[1] \in names THEN Append(Kept(r, names), x) ELSE Kept(r, names)
      BY <2>2, KeptMore
    <3> QED
      BY <2>2, <3>1, Zenon
  <2>4. (All(s) => All(r) /\ x[1] \in names) /\ (No(s) => No(r) /\ x[1] \notin names)
    BY <2>1, <2>2 DEF x
  <2>5. (All(r) => Kept(r, names) = r) /\ (No(r) => Kept(r, names) = <<>>)
    BY <1>2, <2>2
  <2> QED
    BY <2>2, <2>3, <2>4, <2>5
<1> HIDE DEF S
<1>3. \A n \in Nat : n \in S
  BY <1>1, <1>2, Induction
<1> QED
  BY <1>3, LenProperties DEF S

-----------------------------------------------------------------------------
(* --setenv, of every variable.                                            *)

SetEnv(env, n) == Pair("--setenv", n, env[n])
OneOf(names) == CHOOSE n \in names : TRUE

\* The fold, over the sets of names of a family.
Collects(f, env, family) ==
  f = [names \in family |->
         IF names = {} THEN <<>>
         ELSE Append(f[names \ {OneOf(names)}], SetEnv(env, OneOf(names)))]

UpTo(names, k) == {s \in SUBSET names : Cardinality(s) <= k}

LEMMA OneLess ==
  ASSUME NEW names, IsFiniteSet(names), NEW k \in Nat,
         NEW s \in UpTo(names, k), s # {}
  PROVE  /\ OneOf(s) \in s
         /\ k # 0
         /\ s \ {OneOf(s)} \in UpTo(names, k - 1)
         /\ s \ {OneOf(s)} \in UpTo(names, k)
<1>1. s \in SUBSET names /\ Cardinality(s) <= k
  BY DEF UpTo
<1>2. IsFiniteSet(s) /\ Cardinality(s) \in Nat /\ Cardinality(s) # 0
  BY <1>1, FS_Subset, FS_CardinalityType, FS_EmptySet
<1>3. OneOf(s) \in s
  BY DEF OneOf
<1>4. Cardinality(s \ {OneOf(s)}) = Cardinality(s) - 1
  BY <1>2, <1>3, FS_RemoveElement
<1> QED
  BY <1>1, <1>2, <1>3, <1>4 DEF UpTo

LEMMA CollectsExists ==
  ASSUME NEW env, NEW names, IsFiniteSet(names)
  PROVE  \E f : Collects(f, env, SUBSET names)
<1> DEFINE S == {k \in Nat : \E f : Collects(f, env, UpTo(names, k))}
           Next1(f, s) == Append(f[s \ {OneOf(s)}], SetEnv(env, OneOf(s)))
<1>1. 0 \in S
  <2> DEFINE f == [s \in UpTo(names, 0) |-> <<>>]
  <2>1. ASSUME NEW s \in UpTo(names, 0)
        PROVE  s = {}
    BY OneLess
  <2>2. f = [s \in UpTo(names, 0) |-> IF s = {} THEN <<>> ELSE Next1(f, s)]
    BY <2>1
  <2> QED
    BY <2>2, Zenon DEF Collects
<1>2. ASSUME NEW k \in Nat, k \in S
      PROVE  k + 1 \in S
  <2>1. PICK f : Collects(f, env, UpTo(names, k))
    BY <1>2
  <2> DEFINE now == UpTo(names, k)
             more == UpTo(names, k + 1)
             g == [s \in more |-> IF s = {} THEN <<>> ELSE Next1(f, s)]
  <2>2. ASSUME NEW s \in now
        PROVE  s \in more /\ g[s] = f[s]
    <3>1. s \in more
      <4>1. s \in SUBSET names /\ Cardinality(s) <= k
        BY DEF UpTo
      <4>2. Cardinality(s) \in Nat
        BY <4>1, FS_Subset, FS_CardinalityType
      <4>3. Cardinality(s) <= k + 1
        BY <4>1, <4>2
      <4> QED
        BY <4>1, <4>3 DEF UpTo
    <3>2. f[s] = IF s = {} THEN <<>> ELSE Next1(f, s)
      BY <2>1, Zenon DEF Collects
    <3>3. g[s] = IF s = {} THEN <<>> ELSE Next1(f, s)
      BY <3>1
    <3> QED
      BY <3>1, <3>2, <3>3, Zenon
  <2>3. ASSUME NEW s \in more, s # {}
        PROVE  Next1(f, s) = Next1(g, s)
    <3>1. (k + 1) - 1 = k /\ k + 1 \in Nat
      OBVIOUS
    <3>2. s \ {OneOf(s)} \in now
      <4>1. s \ {OneOf(s)} \in UpTo(names, (k + 1) - 1)
        BY <2>3, <3>1, OneLess
      <4> QED
        BY <3>1, <4>1
    <3>3. f[s \ {OneOf(s)}] = g[s \ {OneOf(s)}]
      BY <2>2, <3>2, Zenon
    <3> QED
      BY <3>3, Zenon
  <2>4. ASSUME NEW s \in more
        PROVE  g[s] = IF s = {} THEN <<>> ELSE Next1(g, s)
    <3>1. g[s] = IF s = {} THEN <<>> ELSE Next1(f, s)
      OBVIOUS
    <3> QED
      BY <2>3, <3>1, Zenon
  <2>5. DOMAIN g = more /\ g = [s \in more |-> g[s]]
    OBVIOUS
  <2> HIDE DEF g
  <2>6. g = [s \in more |-> IF s = {} THEN <<>> ELSE Next1(g, s)]
    BY <2>4, <2>5, Zenon
  <2>7. Collects(g, env, more)
    BY <2>6, Zenon DEF Collects
  <2> QED
    BY <2>7
<1> HIDE DEF S
<1>3. \A k \in Nat : k \in S
  BY <1>1, <1>2, Induction
<1>4. Cardinality(names) \in Nat
  BY FS_CardinalityType
<1>5. UpTo(names, Cardinality(names)) = SUBSET names
  BY FS_Subset DEF UpTo
<1> QED
  BY <1>3, <1>4, <1>5 DEF S

LEMMA EnvFlagsCollect ==
  ASSUME NEW env, IsFiniteSet(DOMAIN env)
  PROVE  \E f : /\ EnvFlags(env) = f[DOMAIN env]
                /\ Collects(f, env, SUBSET DOMAIN env)
<1> DEFINE f == CHOOSE g : Collects(g, env, SUBSET DOMAIN env)
<1>1. Collects(f, env, SUBSET DOMAIN env)
  BY CollectsExists
<1>2. EnvFlags(env) = f[DOMAIN env]
  BY Zenon DEF EnvFlags, FoldSet, MapThenFoldSet, Collects, OneOf, SetEnv
<1> QED
  BY <1>1, <1>2

EnvFlag(env) == {SetEnv(env, n) : n \in DOMAIN env}

\* Every variable is set, and nothing else is.
LEMMA EnvFlagsAll ==
  ASSUME NEW env, IsFiniteSet(DOMAIN env)
  PROVE  /\ EnvFlags(env) \in Seq(EnvFlag(env))
         /\ \A n \in DOMAIN env :
              \E i \in 1 .. Len(EnvFlags(env)) : EnvFlags(env)[i] = SetEnv(env, n)
<1> DEFINE D == DOMAIN env
           E == EnvFlag(env)
           Has(l, s) == \A n \in s : \E i \in 1 .. Len(l) : l[i] = SetEnv(env, n)
<1>1. PICK f : EnvFlags(env) = f[D] /\ Collects(f, env, SUBSET D)
  BY EnvFlagsCollect
<1>2. ASSUME NEW s \in SUBSET D
      PROVE  f[s] = IF s = {} THEN <<>>
                    ELSE Append(f[s \ {OneOf(s)}], SetEnv(env, OneOf(s)))
  BY <1>1, Zenon DEF Collects
<1> DEFINE S == {k \in Nat : \A s \in UpTo(D, k) : f[s] \in Seq(E) /\ Has(f[s], s)}
<1>3. 0 \in S
  <2>1. SUFFICES ASSUME NEW s \in UpTo(D, 0)
                 PROVE  f[s] \in Seq(E) /\ Has(f[s], s)
    OBVIOUS
  <2>2. s = {} /\ s \in SUBSET D
    BY OneLess DEF UpTo
  <2>3. f[s] = <<>>
    BY <1>2, <2>2
  <2> QED
    BY <2>2, <2>3
<1>4. ASSUME NEW k \in Nat, k \in S
      PROVE  k + 1 \in S
  <2>1. SUFFICES ASSUME NEW s \in UpTo(D, k + 1)
                 PROVE  f[s] \in Seq(E) /\ Has(f[s], s)
    OBVIOUS
  <2>2. s \in SUBSET D
    BY DEF UpTo
  <2>3. CASE s = {}
    <3>1. f[s] = <<>>
      BY <1>2, <2>2, <2>3
    <3>2. <<>> \in Seq(E)
      OBVIOUS
    <3>3. Has(<<>>, s)
      BY <2>3
    <3> QED
      BY <3>1, <3>2, <3>3, Zenon
  <2>4. CASE s # {}
    <3> DEFINE x == OneOf(s)
               r == s \ {x}
               l == f[r]
               e == SetEnv(env, x)
    <3>1. (k + 1) - 1 = k /\ k + 1 \in Nat
      OBVIOUS
    <3>2. x \in s /\ r \in UpTo(D, (k + 1) - 1)
      BY <2>4, <3>1, OneLess
    <3>3. r \in UpTo(D, k)
      BY <3>1, <3>2
    <3>4. l \in Seq(E) /\ Has(l, r)
      BY <1>4, <3>3
    <3>5. e \in E
      BY <2>2, <3>2 DEF EnvFlag
    <3>6. f[s] = Append(l, e)
      BY <1>2, <2>2, <2>4
    <3> HIDE DEF l, e, E
    <3>7. /\ f[s] \in Seq(E) /\ Len(f[s]) = Len(l) + 1 /\ f[s][Len(l) + 1] = e
          /\ \A i \in 1 .. Len(l) : f[s][i] = l[i]
          /\ Len(l) \in Nat
      BY <3>4, <3>5, <3>6, AppendProperties, LenProperties
    <3>8. ASSUME NEW n \in s
          PROVE  \E i \in 1 .. Len(f[s]) : f[s][i] = SetEnv(env, n)
      <4>1. CASE n = x
        <5>1. Len(l) + 1 \in 1 .. Len(f[s]) /\ f[s][Len(l) + 1] = SetEnv(env, n)
          BY <3>7, <4>1 DEF e
        <5> QED
          BY <5>1
      <4>2. CASE n # x
        <5>1. n \in r
          BY <4>2
        <5>2. PICK i \in 1 .. Len(l) : l[i] = SetEnv(env, n)
          BY <3>4, <5>1
        <5> QED
          BY <3>7, <5>2
      <4> QED
        BY <4>1, <4>2
    <3> QED
      BY <3>7, <3>8
  <2> QED
    BY <2>3, <2>4
<1> HIDE DEF S
<1>5. \A k \in Nat : k \in S
  BY <1>3, <1>4, Induction
<1>6. D \in UpTo(D, Cardinality(D)) /\ Cardinality(D) \in Nat
  BY FS_CardinalityType DEF UpTo
<1>7. f[D] \in Seq(E) /\ Has(f[D], D)
  <2>1. Cardinality(D) \in S
    BY <1>5, <1>6
  <2>2. \A s \in UpTo(D, Cardinality(D)) : f[s] \in Seq(E) /\ Has(f[s], s)
    BY <2>1 DEF S
  <2> QED
    BY <1>6, <2>2
<1> QED
  BY <1>1, <1>7

\* What bwrap makes of them is the map again.
LEMMA EnvFlagsGiveBack ==
  ASSUME NEW env, IsFiniteSet(DOMAIN env), env = [n \in DOMAIN env |-> env[n]],
         \A n \in DOMAIN env : env[n] # None
  PROVE  LET sets == EnvFlags(env)
         IN  Upsert(NoEntries, LastEntries([i \in DOMAIN sets |->
               [key |-> sets[i][2], item |-> sets[i][3]]])) = env
<1> DEFINE sets == EnvFlags(env)
           entries == [i \in DOMAIN sets |-> [key |-> sets[i][2], item |-> sets[i][3]]]
           E == [key : DOMAIN env, item : {env[n] : n \in DOMAIN env}]
           N == Len(sets)
           read == LastEntries(entries)
<1>1. /\ sets \in Seq(EnvFlag(env)) /\ DOMAIN sets = 1 .. N /\ N \in Nat
      /\ \A n \in DOMAIN env : \E i \in 1 .. N : sets[i] = SetEnv(env, n)
  BY EnvFlagsAll, LenProperties
<1>2. \A i \in 1 .. N : \E n \in DOMAIN env : sets[i] = SetEnv(env, n)
  BY <1>1, Element DEF EnvFlag
<1> HIDE DEF sets, N
<1>3. ASSUME NEW i \in 1 .. N
      PROVE  /\ entries[i].key \in DOMAIN env
             /\ entries[i].item = env[entries[i].key]
             /\ entries[i] \in E
  <2>1. PICK n \in DOMAIN env : sets[i] = SetEnv(env, n)
    BY <1>2
  <2>2. sets[i][2] = n /\ sets[i][3] = env[n]
    BY <2>1 DEF SetEnv, Pair
  <2>3. entries[i] = [key |-> n, item |-> env[n]]
    BY <1>1, <2>2
  <2>4. entries[i].key = n /\ entries[i].item = env[n]
    BY <2>3
  <2>5. entries[i] \in E
    <3> DEFINE e == [key |-> n, item |-> env[n]]
    <3>1. e \in E
      OBVIOUS
    <3> QED
      BY <2>3, <3>1, Zenon
  <2> QED
    BY <2>4, <2>5
<1>4. DOMAIN entries = 1 .. N
  BY <1>1
<1>5. entries \in Seq(E)
  <2>1. entries \in [1 .. N -> E]
    BY <1>1, <1>3
  <2> HIDE DEF entries, E
  <2> QED
    BY <1>1, <2>1, SeqDef
<1>6. ASSUME NEW n \in DOMAIN env
      PROVE  \E i \in 1 .. N : entries[i].key = n
  <2>1. PICK i \in 1 .. N : sets[i] = SetEnv(env, n)
    BY <1>1
  <2>2. entries[i].key = n
    BY <1>1, <2>1 DEF SetEnv, Pair
  <2> QED
    BY <2>2
<1> HIDE DEF entries, E
<1>7. DOMAIN read = DOMAIN env
  <2>1. DOMAIN read = {entries[i].key : i \in {j \in DOMAIN entries : entries[j].item # None}}
    BY LastEntriesKeys
  <2>2. \A j \in DOMAIN entries : entries[j].item # None
    BY <1>3, <1>4
  <2>3. DOMAIN read = {entries[i].key : i \in DOMAIN entries}
    BY <2>1, <2>2
  <2>4. \A i \in DOMAIN entries : entries[i].key \in DOMAIN env
    BY <1>3, <1>4
  <2>5. \A n \in DOMAIN env : \E i \in DOMAIN entries : entries[i].key = n
    BY <1>4, <1>6
  <2> HIDE DEF read
  <2> QED
    BY <2>3, <2>4, <2>5, ZenonT(40)
<1>8. ASSUME NEW n \in DOMAIN env
      PROVE  read[n] = env[n]
  <2>1. n \in DOMAIN LastEntries(entries)
    BY <1>7
  <2>2. PICK i \in DOMAIN entries : /\ entries[i].key = n
                                    /\ entries[i].item # None
                                    /\ LastEntries(entries)[n] = entries[i].item
    BY <1>5, <2>1, LastEntriesItem
  <2> QED
    BY <1>3, <1>4, <2>2
<1> HIDE DEF read
<1>9. Upsert(NoEntries, read) = [n \in DOMAIN env |-> env[n]]
  BY <1>7, <1>8 DEF Upsert, NoEntries
<1>10. Upsert(NoEntries, read) = env
  BY <1>9
<1> QED
  BY <1>10 DEF read, entries, sets

-----------------------------------------------------------------------------
(* The two command lines.                                                  *)

\* The words of bwrap_argv and pasta_argv, and the command of ViewAsDeclared.
FlagWords ==
  {"sh", "--", "bwrap", "none", "--unshare-all", "--share-net", "--die-with-parent",
   "--new-session", "--clearenv", "--setenv", "--bind", "--ro-bind",
   "--symlink", "--tmpfs", "--dev", "--proc", "--chdir", "--config-net",
   "--no-map-gw", "--no-dhcp", "--no-dhcpv6", "--no-ra", "--foreground", "-t",
   "-T"}

Token(p) ==
  FlagWords \cup STRING \cup DOMAIN p.vars \cup Seq(Written) \cup Path
    \cup {PastaSpec(p.forwards)}

\* A flag alone, with one operand and with two.
LEMMA FlagOfOne ==
  ASSUME NEW S, NEW f \in S, f # "--", Operands(f) = 0
  PROVE  IsFlag(<<f>>, S)
<1>1. <<f>> \in Seq(S) /\ Len(<<f>>) = 1 /\ <<f>>[1] = f
  OBVIOUS
<1> QED
  BY <1>1 DEF IsFlag

LEMMA FlagOfTwo ==
  ASSUME NEW S, NEW f \in S, NEW a \in S, f # "--", Operands(f) = 1
  PROVE  IsFlag(Single(f, a), S)
<1>1. Single(f, a) \in Seq(S) /\ Len(Single(f, a)) = 2 /\ Single(f, a)[1] = f
  BY DEF Single
<1> QED
  BY <1>1 DEF IsFlag

LEMMA FlagOfThree ==
  ASSUME NEW S, NEW f \in S, NEW a \in S, NEW b \in S, f # "--", Operands(f) = 2
  PROVE  IsFlag(Pair(f, a, b), S)
<1>1. Pair(f, a, b) \in Seq(S) /\ Len(Pair(f, a, b)) = 3 /\ Pair(f, a, b)[1] = f
  BY DEF Pair
<1> QED
  BY <1>1 DEF IsFlag

MountFlags == {"--ro-bind", "--bind", "--symlink", "--tmpfs", "--dev", "--proc"}

\* A mount is a flag, which bwrap reads as that mount.
LEMMA MountReadBack ==
  ASSUME NEW m \in Mount, NEW S, FlagWords \subseteq S, Path \subseteq S
  PROVE  /\ IsFlag(MountTokens(m), S)
         /\ MountTokens(m)[1] \in MountFlags
         /\ BwrapMount(MountTokens(m)) = m
<1>1. m.sandbox \in S /\ m.host \in S
  BY EmptySeq DEF Mount, Path
<1>2. CASE m.kind = "mount"
  <2>1. m \in [sandbox : Path, kind : {"mount"}, host : Path, access : Access]
    BY <1>2 DEF Mount
  <2>2. m = Bind(m.sandbox, m.host, m.access) /\ m.access \in {"ro", "rw"}
    BY <2>1 DEF Bind, Access
  <2>3. CASE m.access = "ro"
    <3>1. MountTokens(m) = Pair("--ro-bind", m.host, m.sandbox)
      BY <1>2, <2>3 DEF MountTokens
    <3>2. IsFlag(Pair("--ro-bind", m.host, m.sandbox), S)
      BY <1>1, FlagOfThree DEF Operands, FlagWords
    <3>3. BwrapMount(Pair("--ro-bind", m.host, m.sandbox)) = m
      BY <2>2, <2>3 DEF BwrapMount, Pair
    <3> QED
      BY <3>1, <3>2, <3>3 DEF Pair, MountFlags
  <2>4. CASE m.access = "rw"
    <3>1. MountTokens(m) = Pair("--bind", m.host, m.sandbox)
      BY <1>2, <2>4 DEF MountTokens
    <3>2. IsFlag(Pair("--bind", m.host, m.sandbox), S)
      BY <1>1, FlagOfThree DEF Operands, FlagWords
    <3>3. BwrapMount(Pair("--bind", m.host, m.sandbox)) = m
      BY <2>2, <2>4 DEF BwrapMount, Pair
    <3> QED
      BY <3>1, <3>2, <3>3 DEF Pair, MountFlags
  <2> QED
    BY <2>2, <2>3, <2>4
<1>3. CASE m.kind = "symlink"
  <2>1. m = [sandbox |-> m.sandbox, kind |-> "symlink", host |-> m.host, access |-> None]
    BY <1>3 DEF Mount
  <2>2. MountTokens(m) = Pair("--symlink", m.host, m.sandbox)
    BY <1>3 DEF MountTokens
  <2>3. IsFlag(Pair("--symlink", m.host, m.sandbox), S)
    BY <1>1, FlagOfThree DEF Operands, FlagWords
  <2>4. BwrapMount(Pair("--symlink", m.host, m.sandbox)) = m
    BY <2>1 DEF BwrapMount, Pair
  <2> QED
    BY <2>2, <2>3, <2>4 DEF Pair, MountFlags
<1>4. ASSUME m.kind \in {"dev", "proc", "tmpfs"}
      PROVE  /\ IsFlag(MountTokens(m), S)
             /\ MountTokens(m)[1] \in MountFlags
             /\ BwrapMount(MountTokens(m)) = m
  <2>1. m = Special(m.sandbox, m.kind)
    BY <1>4 DEF Mount, Special
  <2>2. CASE m.kind = "dev"
    <3>1. MountTokens(m) = Single("--dev", m.sandbox)
      BY <2>2 DEF MountTokens
    <3>2. IsFlag(Single("--dev", m.sandbox), S)
      BY <1>1, FlagOfTwo DEF Operands, FlagWords
    <3>3. BwrapMount(Single("--dev", m.sandbox)) = m
      BY <2>1, <2>2 DEF BwrapMount, Single
    <3> QED
      BY <3>1, <3>2, <3>3 DEF Single, MountFlags
  <2>3. CASE m.kind = "proc"
    <3>1. MountTokens(m) = Single("--proc", m.sandbox)
      BY <2>3 DEF MountTokens
    <3>2. IsFlag(Single("--proc", m.sandbox), S)
      BY <1>1, FlagOfTwo DEF Operands, FlagWords
    <3>3. BwrapMount(Single("--proc", m.sandbox)) = m
      BY <2>1, <2>3 DEF BwrapMount, Single
    <3> QED
      BY <3>1, <3>2, <3>3 DEF Single, MountFlags
  <2>4. CASE m.kind = "tmpfs"
    <3>1. MountTokens(m) = Single("--tmpfs", m.sandbox)
      BY <2>4 DEF MountTokens
    <3>2. IsFlag(Single("--tmpfs", m.sandbox), S)
      BY <1>1, FlagOfTwo DEF Operands, FlagWords
    <3>3. BwrapMount(Single("--tmpfs", m.sandbox)) = m
      BY <2>1, <2>4 DEF BwrapMount, Single
    <3> QED
      BY <3>1, <3>2, <3>3 DEF Single, MountFlags
  <2> QED
    BY <1>4, <2>2, <2>3, <2>4
<1>5. m.kind \in {"mount", "symlink", "dev", "proc", "tmpfs"}
  BY DEF Mount
<1> QED
  BY <1>2, <1>3, <1>4, <1>5

Flags(S) == {f \in Seq(S) : IsFlag(f, S)}

LEMMA FlagSeq ==
  ASSUME NEW S, NEW fs \in Seq(Flags(S))
  PROVE  Len(fs) \in Nat /\ fs \in FlagLists(Len(fs), S)
<1>1. Len(fs) \in Nat /\ fs \in [1 .. Len(fs) -> Flags(S)]
  BY LenProperties
<1>2. \A i \in 1 .. Len(fs) : fs[i] \in Seq(S) /\ IsFlag(fs[i], S)
  BY <1>1 DEF Flags
<1>3. fs \in [1 .. Len(fs) -> Seq(S)]
  BY <1>1, <1>2
<1> QED
  BY <1>1, <1>2, <1>3 DEF FlagLists

FirstFlags ==
  << <<"--unshare-all">>, <<"--share-net">>, <<"--die-with-parent">>,
     <<"--new-session">> >>
OpeningFlags ==
  << <<"--unshare-all">>, <<"--share-net">>, <<"--die-with-parent">>,
     <<"--new-session">>, <<"--clearenv">> >>
MountList(p) == [i \in DOMAIN p.mounts |-> MountTokens(p.mounts[i])]
ChdirFlags(dir) == <<Single("--chdir", dir)>>

LEMMA OpeningFlagsKept ==
  ASSUME NEW S, FlagWords \subseteq S
  PROVE  /\ OpeningFlags \in Seq(Flags(S))
         /\ Kept(OpeningFlags, {"--clearenv"}) # <<>>
         /\ Kept(OpeningFlags, {"--setenv"}) = <<>>
         /\ Kept(OpeningFlags, MountFlags) = <<>>
<1>1. \A f \in {"--unshare-all", "--share-net", "--die-with-parent",
                "--new-session", "--clearenv"} :
        f \in S /\ f # "--" /\ Operands(f) = 0
  BY DEF FlagWords, Operands
<1>2. \A f \in {"--unshare-all", "--share-net", "--die-with-parent",
                "--new-session", "--clearenv"} : <<f>> \in Flags(S)
  BY <1>1, FlagOfOne DEF IsFlag, Flags
<1>3. OpeningFlags \in Seq(Flags(S)) /\ FirstFlags \in Seq(Flags(S))
  BY <1>2 DEF OpeningFlags, FirstFlags
<1>4. OpeningFlags = Append(FirstFlags, <<"--clearenv">>)
  <2>1. /\ Len(OpeningFlags) = Len(FirstFlags) + 1
        /\ \A i \in 1 .. Len(FirstFlags) : OpeningFlags[i] = FirstFlags[i]
        /\ OpeningFlags[Len(FirstFlags) + 1] = <<"--clearenv">>
    BY DEF OpeningFlags, FirstFlags
  <2> QED
    BY <1>2, <1>3, <2>1, AppendIs
<1>5. Kept(OpeningFlags, {"--clearenv"}) # <<>>
  <2> DEFINE kept == Kept(FirstFlags, {"--clearenv"})
             f == <<"--clearenv">>
  <2>1. kept \in Seq(Flags(S)) /\ f \in Flags(S) /\ f[1] = "--clearenv"
    BY <1>2, <1>3, KeptMore
  <2>2. Kept(OpeningFlags, {"--clearenv"}) = Append(kept, f)
    BY <1>2, <1>3, <1>4, <2>1, KeptMore
  <2>3. Append(kept, f) # <<>>
    <3> HIDE DEF kept, f
    <3>1. Len(Append(kept, f)) = Len(kept) + 1 /\ Len(kept) \in Nat
      BY <2>1, AppendProperties, LenProperties
    <3> QED
      BY <3>1
  <2> QED
    BY <2>2, <2>3
<1>6. \A i \in 1 .. Len(OpeningFlags) :
        OpeningFlags[i][1] \notin {"--setenv"} \cup MountFlags
  BY DEF OpeningFlags, MountFlags
<1>7. Kept(OpeningFlags, {"--setenv"}) = <<>>
  <2>1. \A i \in 1 .. Len(OpeningFlags) : OpeningFlags[i][1] \notin {"--setenv"}
    BY <1>6
  <2> QED
    BY <1>3, <2>1, KeptSame
<1>8. Kept(OpeningFlags, MountFlags) = <<>>
  <2>1. \A i \in 1 .. Len(OpeningFlags) : OpeningFlags[i][1] \notin MountFlags
    BY <1>6
  <2> QED
    BY <1>3, <2>1, KeptSame
<1> QED
  BY <1>3, <1>5, <1>7, <1>8

LEMMA OneOpening ==
  ASSUME NEW T, OpeningFlags \in Seq(T)
  PROVE  T # {}
<1>1. OpeningFlags[1] \in T
  <2>1. Len(OpeningFlags) = 5
    BY DEF OpeningFlags
  <2> QED
    BY <2>1, LenProperties
<1> QED
  BY <1>1

LEMMA KeptTyped ==
  ASSUME NEW T, NEW fs \in Seq(T), NEW names, T # {}
  PROVE  Kept(fs, names) \in Seq(T)
<1>1. PICK f : f \in T
  OBVIOUS
<1> QED
  BY <1>1, KeptMore

\* The flags of one kind, written in a row: a filter for it keeps them all, any
\* other none.
LEMMA KeptAll ==
  ASSUME NEW T, NEW fs \in Seq(T), NEW kind,
         \A i \in 1 .. Len(fs) : fs[i][1] \in kind
  PROVE  Kept(fs, kind) = fs
BY KeptSame

LEMMA KeptNone ==
  ASSUME NEW T, NEW fs \in Seq(T), NEW kind, NEW other, kind \cap other = {},
         \A i \in 1 .. Len(fs) : fs[i][1] \in kind
  PROVE  Kept(fs, other) = <<>>
<1>1. \A i \in 1 .. Len(fs) : fs[i][1] \notin other
  OBVIOUS
<1> QED
  BY <1>1, KeptSame

\* What the two command lines are made of, and where it may come from.
Told(p, S) ==
  /\ IsProfile(p)
  /\ IsFiniteSet(DOMAIN p.vars)
  /\ FlagWords \subseteq S /\ Path \subseteq S
  /\ DOMAIN p.vars \subseteq S
  /\ \A n \in DOMAIN p.vars : p.vars[n] \in S

LEMMA MountListKept ==
  ASSUME NEW p, NEW S, Told(p, S)
  PROVE  /\ MountList(p) \in Seq(Flags(S))
         /\ \A i \in 1 .. Len(MountList(p)) : MountList(p)[i][1] \in MountFlags
         /\ [i \in DOMAIN MountList(p) |-> BwrapMount(MountList(p)[i])] = p.mounts
<1> DEFINE ms == p.mounts
           list == MountList(p)
<1>1. ms \in Seq(Mount)
  BY DEF Told, IsProfile, IsMounts
<1>2. list = [i \in DOMAIN ms |-> MountTokens(ms[i])]
  BY DEF MountList
<1> HIDE DEF ms, list
<1>3. ASSUME NEW i \in DOMAIN ms
      PROVE  /\ list[i] = MountTokens(ms[i])
             /\ MountTokens(ms[i]) \in Flags(S)
             /\ MountTokens(ms[i])[1] \in MountFlags
             /\ BwrapMount(MountTokens(ms[i])) = ms[i]
  <2>1. ms[i] \in Mount
    BY <1>1, Element
  <2>2. FlagWords \subseteq S /\ Path \subseteq S
    BY DEF Told
  <2>3. /\ IsFlag(MountTokens(ms[i]), S)
        /\ MountTokens(ms[i])[1] \in MountFlags
        /\ BwrapMount(MountTokens(ms[i])) = ms[i]
    BY <2>1, <2>2, MountReadBack
  <2>4. MountTokens(ms[i]) \in Flags(S)
    BY <2>3 DEF Flags, IsFlag
  <2> QED
    BY <1>2, <2>3, <2>4
<1>4. list \in Seq(Flags(S))
  <2>1. list = [i \in DOMAIN ms |-> list[i]]
    BY <1>2
  <2>2. \A i \in DOMAIN ms : list[i] \in Flags(S)
    BY <1>3
  <2> QED
    BY <1>1, <2>1, <2>2, Mapped
<1>5. DOMAIN list = DOMAIN ms
  BY <1>2
<1>6. \A i \in 1 .. Len(list) : list[i][1] \in MountFlags
  <2>1. DOMAIN list = 1 .. Len(list)
    BY <1>4, LenProperties
  <2> QED
    BY <1>3, <1>5, <2>1
<1>7. [i \in DOMAIN list |-> BwrapMount(list[i])] = ms
  <2>1. ms = [i \in DOMAIN ms |-> ms[i]]
    BY <1>1
  <2>2. \A i \in DOMAIN ms : BwrapMount(list[i]) = ms[i]
    BY <1>3
  <2>3. [i \in DOMAIN list |-> BwrapMount(list[i])] = [i \in DOMAIN ms |-> ms[i]]
    BY <1>5, <2>2
  <2> QED
    BY <2>1, <2>3
<1> QED
  BY <1>4, <1>6, <1>7 DEF ms, list

LEMMA EnvFlagsKept ==
  ASSUME NEW p, NEW S, Told(p, S)
  PROVE  /\ EnvFlags(p.vars) \in Seq(Flags(S))
         /\ \A i \in 1 .. Len(EnvFlags(p.vars)) :
              EnvFlags(p.vars)[i][1] \in {"--setenv"}
<1> DEFINE E == EnvFlag(p.vars)
           sets == EnvFlags(p.vars)
<1>1. sets \in Seq(E)
  BY EnvFlagsAll DEF Told
<1>2. ASSUME NEW f \in E
      PROVE  f \in Flags(S) /\ f[1] = "--setenv"
  <2>1. PICK n \in DOMAIN p.vars : f = SetEnv(p.vars, n)
    BY DEF EnvFlag
  <2>2. f = Pair("--setenv", n, p.vars[n])
    BY <2>1 DEF SetEnv
  <2>3. "--setenv" \in S /\ n \in S /\ p.vars[n] \in S
    BY DEF Told, FlagWords
  <2>4. "--setenv" # "--" /\ Operands("--setenv") = 2
    BY DEF Operands
  <2>5. IsFlag(Pair("--setenv", n, p.vars[n]), S)
    BY <2>3, <2>4, FlagOfThree
  <2> QED
    BY <2>2, <2>5 DEF Flags, IsFlag, Pair
<1> HIDE DEF E, sets
<1>3. Len(sets) \in Nat /\ \A i \in 1 .. Len(sets) : sets[i] \in E
  BY <1>1, LenProperties
<1>4. sets \in Seq(Flags(S))
  <2>1. sets = [i \in DOMAIN sets |-> sets[i]]
    BY <1>1
  <2>2. \A i \in DOMAIN sets : sets[i] \in Flags(S)
    BY <1>1, <1>2, Element
  <2> QED
    BY <1>1, <2>1, <2>2, Mapped
<1>5. \A i \in 1 .. Len(sets) : sets[i][1] \in {"--setenv"}
  BY <1>2, <1>3
<1> QED
  BY <1>4, <1>5 DEF sets

LEMMA ChdirFlagsKept ==
  ASSUME NEW S, FlagWords \subseteq S, NEW dir \in S
  PROVE  /\ ChdirFlags(dir) \in Seq(Flags(S))
         /\ \A i \in 1 .. Len(ChdirFlags(dir)) : ChdirFlags(dir)[i][1] \in {"--chdir"}
<1>1. IsFlag(Single("--chdir", dir), S)
  <2>1. "--chdir" \in S /\ "--chdir" # "--" /\ Operands("--chdir") = 1
    BY DEF FlagWords, Operands
  <2> QED
    BY <2>1, FlagOfTwo
<1>2. Single("--chdir", dir) \in Flags(S) /\ Single("--chdir", dir)[1] = "--chdir"
  BY <1>1 DEF Flags, IsFlag, Single
<1> QED
  BY <1>2 DEF ChdirFlags

\* A filter of four lists, one after the other.
KeptOf(whole, a, b, c, d) ==
  \A names : Kept(whole, names) =
    Kept(a, names) \o Kept(b, names) \o Kept(c, names) \o Kept(d, names)

LEMMA KeptFour ==
  ASSUME NEW T, NEW a \in Seq(T), NEW b \in Seq(T), NEW c \in Seq(T), NEW d \in Seq(T),
         NEW whole, whole = a \o b \o c \o d
  PROVE  whole \in Seq(T) /\ KeptOf(whole, a, b, c, d)
<1>1. a \o b \in Seq(T)
  BY ConcatProperties
<1> DEFINE ab == a \o b
<1> HIDE DEF ab
<1>2. ab \in Seq(T)
  BY <1>1 DEF ab
<1>3. ab \o c \in Seq(T)
  BY <1>2, ConcatProperties
<1> DEFINE abc == ab \o c
<1> HIDE DEF abc
<1>4. abc \in Seq(T)
  BY <1>3 DEF abc
<1>5. abc \o d \in Seq(T)
  BY <1>4, ConcatProperties
<1>6. whole = abc \o d
  BY DEF abc, ab
<1>7. ASSUME NEW names
      PROVE  Kept(whole, names) =
               Kept(a, names) \o Kept(b, names) \o Kept(c, names) \o Kept(d, names)
  <2>1. Kept(abc \o d, names) = Kept(abc, names) \o Kept(d, names)
    BY <1>4, KeptConcat
  <2>2. Kept(abc, names) = Kept(ab, names) \o Kept(c, names)
    BY <1>2, KeptConcat DEF abc
  <2>3. Kept(ab, names) = Kept(a, names) \o Kept(b, names)
    BY KeptConcat DEF ab
  <2> QED
    BY <1>6, <2>1, <2>2, <2>3
<1> QED
  BY <1>5, <1>6, <1>7 DEF KeptOf

\* bwrap's flags: each filter of its reader finds the list it is for.
LEMMA BwrapFlagsKept ==
  ASSUME NEW p, NEW S, Told(p, S), NEW dir \in S
  PROVE  /\ BwrapFlags(p, dir) \in Seq(Flags(S))
         /\ Kept(BwrapFlags(p, dir), {"--setenv"}) = EnvFlags(p.vars)
         /\ Kept(BwrapFlags(p, dir), MountFlags) = MountList(p)
         /\ Kept(BwrapFlags(p, dir), {"--clearenv"}) # <<>>
<1> DEFINE T == Flags(S)
           open == OpeningFlags
           sets == EnvFlags(p.vars)
           list == MountList(p)
           chdir == ChdirFlags(dir)
           Set == {"--setenv"}
           Clear == {"--clearenv"}
           Dir == {"--chdir"}
           Mounts == MountFlags
           whole == open \o sets \o list \o chdir
<1>1. BwrapFlags(p, dir) = whole
  BY DEF BwrapFlags, OpeningFlags, MountList, ChdirFlags
<1>2. FlagWords \subseteq S
  BY DEF Told
<1>3. open \in Seq(T) /\ sets \in Seq(T) /\ list \in Seq(T) /\ chdir \in Seq(T)
  BY <1>2, OpeningFlagsKept, EnvFlagsKept, MountListKept, ChdirFlagsKept
<1>4. \A i \in 1 .. Len(sets) : sets[i][1] \in Set
  <2>1. \A i \in 1 .. Len(EnvFlags(p.vars)) :
          EnvFlags(p.vars)[i][1] \in {"--setenv"}
    BY EnvFlagsKept
  <2> QED
    BY <2>1
<1>5. \A i \in 1 .. Len(list) : list[i][1] \in Mounts
  BY MountListKept
<1>6. \A i \in 1 .. Len(chdir) : chdir[i][1] \in Dir
  <2>1. \A i \in 1 .. Len(ChdirFlags(dir)) : ChdirFlags(dir)[i][1] \in {"--chdir"}
    BY <1>2, ChdirFlagsKept
  <2> QED
    BY <2>1
<1>7. Kept(open, Clear) # <<>> /\ Kept(open, Set) = <<>> /\ Kept(open, Mounts) = <<>>
  BY <1>2, OpeningFlagsKept
<1>8. /\ Set \cap Mounts = {} /\ Set \cap Clear = {} /\ Mounts \cap Clear = {}
      /\ Mounts \cap Set = {}
      /\ Dir \cap Set = {} /\ Dir \cap Mounts = {} /\ Dir \cap Clear = {}
  BY DEF MountFlags
<1>9. T # {}
  BY <1>3, OneOpening
<1> HIDE DEF T, open, sets, list, chdir, Set, Clear, Dir, Mounts
<1>10. Kept(sets, Set) = sets /\ Kept(list, Mounts) = list
  BY <1>3, <1>4, <1>5, KeptAll
<1>11. Kept(sets, Mounts) = <<>> /\ Kept(sets, Clear) = <<>>
  BY <1>3, <1>4, <1>8, KeptNone
<1>12. Kept(list, Set) = <<>> /\ Kept(list, Clear) = <<>>
  BY <1>3, <1>5, <1>8, KeptNone
<1>13. Kept(chdir, Set) = <<>> /\ Kept(chdir, Mounts) = <<>> /\ Kept(chdir, Clear) = <<>>
  BY <1>3, <1>6, <1>8, KeptNone
<1>14. whole = open \o sets \o list \o chdir
  OBVIOUS
<1> HIDE DEF whole
<1>15. whole \in Seq(T) /\ KeptOf(whole, open, sets, list, chdir)
  BY <1>3, <1>14, KeptFour
<1>16. \A s \in Seq(T) : <<>> \o s = s /\ s \o <<>> = s
  BY ConcatEmptySeq
<1>17. <<>> \in Seq(T) /\ Kept(open, Clear) \in Seq(T)
  BY <1>3, <1>9, KeptTyped, EmptySeq
<1>18. Kept(whole, Set) = sets
  <2>1. Kept(whole, Set) = <<>> \o sets \o <<>> \o <<>>
    BY <1>7, <1>10, <1>12, <1>13, <1>15 DEF KeptOf
  <2> QED
    BY <1>3, <1>16, <2>1
<1>19. Kept(whole, Mounts) = list
  <2>1. Kept(whole, Mounts) = <<>> \o <<>> \o list \o <<>>
    BY <1>7, <1>10, <1>11, <1>13, <1>15 DEF KeptOf
  <2>2. <<>> \o <<>> = <<>>
    BY <1>16, <1>17
  <2> QED
    BY <1>3, <1>16, <2>1, <2>2
<1>20. Kept(whole, Clear) # <<>>
  <2> DEFINE kept == Kept(open, Clear)
  <2>1. Kept(whole, Clear) = kept \o <<>> \o <<>> \o <<>>
    BY <1>11, <1>12, <1>13, <1>15 DEF KeptOf
  <2>2. kept \o <<>> = kept
    BY <1>16, <1>17
  <2> QED
    BY <1>7, <2>1, <2>2
<1> QED
  BY <1>1, <1>15, <1>18, <1>19, <1>20 DEF sets, list, T, Set, Mounts, Clear

LEMMA PastaFlagsTyped ==
  ASSUME NEW p, NEW S, Told(p, S), PastaSpec(p.forwards) \in S
  PROVE  PastaFlags(p) \in Seq(Flags(S))
<1> DEFINE spec == IF p.forwards = <<>> THEN <<>> ELSE PastaSpec(p.forwards)
<1>1. FlagWords \subseteq S /\ <<>> \in S
  BY EmptySeq DEF Told, Path
<1>2. spec \in S
  BY <1>1
<1>3. \A f \in {"--config-net", "--no-map-gw", "--no-dhcp", "--no-dhcpv6",
                "--no-ra", "--foreground"} :
        f \in S /\ f # "--" /\ Operands(f) = 0
  BY <1>1 DEF FlagWords, Operands
<1>4. \A f \in {"--config-net", "--no-map-gw", "--no-dhcp", "--no-dhcpv6",
                "--no-ra", "--foreground"} : <<f>> \in Flags(S)
  BY <1>3, FlagOfOne DEF IsFlag, Flags
<1>5. IsFlag(Single("-t", "none"), S) /\ IsFlag(Single("-T", spec), S)
  <2>1. /\ "-t" \in S /\ "-t" # "--" /\ Operands("-t") = 1
        /\ "-T" \in S /\ "-T" # "--" /\ Operands("-T") = 1
        /\ "none" \in S
    BY <1>1 DEF FlagWords, Operands
  <2> HIDE DEF spec
  <2> QED
    BY <1>2, <2>1, FlagOfTwo
<1>6. Single("-t", "none") \in Flags(S) /\ Single("-T", spec) \in Flags(S)
  BY <1>5 DEF IsFlag, Flags
<1>7. PastaFlags(p) =
        << <<"--config-net">>, <<"--no-map-gw">>, <<"--no-dhcp">>,
           <<"--no-dhcpv6">>, <<"--no-ra">>, <<"--foreground">>,
           Single("-t", "none"), Single("-T", spec) >>
  BY DEF PastaFlags
<1> HIDE DEF spec
<1> QED
  BY <1>4, <1>6, <1>7

LEMMA TokenTold ==
  ASSUME NEW p, IsProfile(p), IsFiniteSet(DOMAIN p.vars)
  PROVE  Told(p, Token(p)) /\ PastaSpec(p.forwards) \in Token(p)
<1>1. \A n \in DOMAIN p.vars : p.vars[n] \in Seq(Written)
  BY DEF IsProfile, IsEnvVars
<1> QED
  BY <1>1 DEF Told, Token

\* What is printed is read: bwrap and pasta read back the flags, and the command
\* behind them.
LEMMA BwrapReadsBack ==
  ASSUME NEW p, IsProfile(p), IsFiniteSet(DOMAIN p.vars),
         NEW dir \in Path, NEW tokens \in Seq(Token(p))
  PROVE  LET argv == BwrapArgv(p, dir, tokens)
         IN  /\ argv \in Seq(Token(p))
             /\ Reading(argv).flags = BwrapFlags(p, dir)
             /\ ChildOf(argv) = tokens
<1> DEFINE S == Token(p)
           fs == BwrapFlags(p, dir)
<1>1. Told(p, S) /\ dir \in S /\ "--" \in S
  BY TokenTold DEF Token, FlagWords
<1>2. fs \in Seq(Flags(S))
  BY <1>1, BwrapFlagsKept
<1>3. BwrapArgv(p, dir, tokens) = FlattenSeq(fs) \o <<"--">> \o tokens
  BY DEF BwrapArgv
<1> HIDE DEF S, fs
<1>4. Len(fs) \in Nat /\ fs \in FlagLists(Len(fs), S)
  BY <1>2, FlagSeq
<1>5. tokens \in Seq(S)
  BY DEF S
<1> QED
  BY <1>1, <1>3, <1>4, <1>5, ReadsBack DEF S, fs

LEMMA PastaReadsBack ==
  ASSUME NEW p, IsProfile(p), IsFiniteSet(DOMAIN p.vars),
         NEW child \in Seq(Token(p))
  PROVE  ChildOf(PastaArgv(p, child)) = child
<1> DEFINE S == Token(p)
           fs == PastaFlags(p)
<1>1. Told(p, S) /\ PastaSpec(p.forwards) \in S /\ "--" \in S
  BY TokenTold DEF Token, FlagWords
<1>2. fs \in Seq(Flags(S))
  BY <1>1, PastaFlagsTyped
<1>3. PastaArgv(p, child) = FlattenSeq(fs) \o <<"--">> \o child
  BY DEF PastaArgv
<1> HIDE DEF S, fs
<1>4. Len(fs) \in Nat /\ fs \in FlagLists(Len(fs), S)
  BY <1>2, FlagSeq
<1>5. child \in Seq(S)
  BY DEF S
<1> QED
  BY <1>1, <1>3, <1>4, <1>5, ReadsBack DEF S

LEMMA BwrapGives ==
  ASSUME NEW p, IsProfile(p), IsFiniteSet(DOMAIN p.vars),
         NEW dir \in Path, NEW tokens \in Seq(Token(p)), NEW inherited
  PROVE  LET argv == BwrapArgv(p, dir, tokens)
         IN  /\ BwrapEnv(argv, inherited) = p.vars
             /\ BwrapMounts(argv) = p.mounts
<1> DEFINE S == Token(p)
           argv == BwrapArgv(p, dir, tokens)
<1>1. Reading(argv).flags = BwrapFlags(p, dir)
  BY BwrapReadsBack
<1>2. Told(p, S) /\ dir \in S
  BY TokenTold DEF Token
<1> HIDE DEF argv, S
<1>3. /\ Flagged(argv, {"--setenv"}) = EnvFlags(p.vars)
      /\ Flagged(argv, MountFlags) = MountList(p)
      /\ Flagged(argv, {"--clearenv"}) # <<>>
  BY <1>1, <1>2, BwrapFlagsKept, FlaggedIsKept
<1>4. BwrapMounts(argv) = p.mounts
  <2>1. Flagged(argv, {"--ro-bind", "--bind", "--symlink", "--tmpfs", "--dev",
                       "--proc"}) = MountList(p)
    BY <1>3 DEF MountFlags
  <2>2. [i \in DOMAIN MountList(p) |-> BwrapMount(MountList(p)[i])] = p.mounts
    BY <1>2, MountListKept
  <2> QED
    BY <2>1, <2>2 DEF BwrapMounts
<1>5. BwrapEnv(argv, inherited) = p.vars
  <2> DEFINE sets == EnvFlags(p.vars)
             entries == [i \in DOMAIN sets |-> [key |-> sets[i][2], item |-> sets[i][3]]]
  <2>1. BwrapEnv(argv, inherited) = Upsert(NoEntries, LastEntries(entries))
    BY <1>3 DEF BwrapEnv
  <2>2. p.vars = [n \in DOMAIN p.vars |-> p.vars[n]]
    BY DEF IsProfile, IsEnvVars, IsMap
  <2>3. \A n \in DOMAIN p.vars : p.vars[n] # None
    BY AbsentAssumption DEF IsProfile, IsEnvVars
  <2>4. Upsert(NoEntries, LastEntries(entries)) = p.vars
    BY <2>2, <2>3, EnvFlagsGiveBack
  <2> QED
    BY <2>1, <2>4
<1> QED
  BY <1>4, <1>5 DEF argv

-----------------------------------------------------------------------------
(* The environment is finite.                                              *)

LEMMA ImageFinite ==
  ASSUME NEW f, IsFiniteSet(DOMAIN f)
  PROVE  IsFiniteSet({f[x] : x \in DOMAIN f})
<1> DEFINE T == {f[x] : x \in DOMAIN f}
           g == [x \in DOMAIN f |-> f[x]]
<1>1. g \in [DOMAIN f -> T] /\ \A t \in T : \E x \in DOMAIN f : g[x] = t
  OBVIOUS
<1>2. g \in Surjection(DOMAIN f, T)
  BY <1>1 DEF Surjection
<1> HIDE DEF g, T
<1>3. IsFiniteSet(T)
  BY <1>2, FS_Surjection
<1> QED
  BY <1>3 DEF T

LEMMA LayerVarsFinite ==
  ASSUME TypeInv, FoldInv, pc = "done", NEW k \in Layers
  PROVE  IsFiniteSet(DOMAIN chain[k].vars)
<1> DEFINE env == Wrote(k).env
           names == [i \in DOMAIN env |-> env[i].name]
<1>1. env \in Seq(EnvVarDecl)
  BY LayerIsWritten DEF IsDecl, IsEnvVarDecls
<1>2. IsFiniteSet(DOMAIN env)
  <2> HIDE DEF env
  <2>1. DOMAIN env = 1 .. Len(env) /\ Len(env) \in Nat
    BY <1>1, LenProperties
  <2> QED
    BY <2>1, FS_Interval
<1>3. IsFiniteSet({names[i] : i \in DOMAIN names})
  BY <1>2, ImageFinite
<1>4. DOMAIN chain[k].vars \subseteq {names[i] : i \in DOMAIN names}
  <2>1. DOMAIN chain[k].vars =
              {Wrote(k).env[i].name :
                 i \in {j \in DOMAIN Wrote(k).env : Gives(<<k, j>>)}}
    BY LayerVars
  <2> QED
    BY <2>1
<1> HIDE DEF names
<1> QED
  BY <1>3, <1>4, FS_Subset

LEMMA MergedVarsFinite ==
  ASSUME TypeInv, FoldInv, pc = "done"
  PROVE  IsFiniteSet(DOMAIN Merged.vars)
<1> DEFINE names == [k \in Layers |-> DOMAIN chain[k].vars]
           All == {names[k] : k \in DOMAIN names}
<1>1. IsFiniteSet(DOMAIN names)
  <2>1. LayerCount \in Nat
    BY DoneChain
  <2>2. IsFiniteSet(Layers)
    BY <2>1, FS_Interval DEF Layers
  <2> QED
    BY <2>2
<1>2. IsFiniteSet(All)
  BY <1>1, ImageFinite
<1>3. \A k \in Layers : IsFiniteSet(DOMAIN chain[k].vars)
  BY LayerVarsFinite
<1>4. \A T \in All : IsFiniteSet(T)
  BY <1>3
<1>5. DOMAIN Merged.vars = UNION All
  <2>1. Merged.vars = Laid(chain, LayerCount, "vars")
    BY DEF Merged, FoldOf
  <2>2. DOMAIN Merged.vars = UNION {DOMAIN chain[k]["vars"] : k \in 1 .. LayerCount}
    BY <2>1 DEF Laid, Keys
  <2>3. All = {DOMAIN chain[k]["vars"] : k \in 1 .. LayerCount}
    BY DEF Layers
  <2> HIDE DEF All
  <2> QED
    BY <2>2, <2>3
<1> HIDE DEF All
<1> QED
  BY <1>2, <1>4, <1>5, FS_UNION

LEMMA ResultVarsFinite ==
  ASSUME TypeInv, FoldInv, pc = "done"
  PROVE  IsFiniteSet(DOMAIN result.vars)
<1> DEFINE base == VarsBase(Merged, host)
           inventory == Upsert(base, Merged.vars)
<1>1. IsFiniteSet(DOMAIN base)
  <2>1. DOMAIN base = {"PATH"} \cup (({"HOME"} \cup Inherited) \cap DOMAIN host.env)
    BY DEF VarsBase
  <2>2. IsFiniteSet(DOMAIN host.env)
    BY DoneChain DEF IsHost
  <2> DEFINE ours == ({"HOME"} \cup Inherited) \cap DOMAIN host.env
  <2>3. ours \in SUBSET DOMAIN host.env
    OBVIOUS
  <2> HIDE DEF ours
  <2>4. IsFiniteSet(ours)
    BY <2>2, <2>3, FS_Subset
  <2>5. IsFiniteSet(ours \cup {"PATH"})
    BY <2>4, FS_AddElement
  <2>6. DOMAIN base = ours \cup {"PATH"}
    BY <2>1 DEF ours
  <2> QED
    BY <2>5, <2>6
<1>2. IsFiniteSet(DOMAIN inventory)
  <2>1. DOMAIN inventory = DOMAIN base \cup DOMAIN Merged.vars
    BY DEF Upsert
  <2> HIDE DEF base, inventory
  <2> QED
    BY <1>1, <2>1, MergedVarsFinite, FS_Union
<1>3. CASE command # "run"
  <2>1. result.vars = inventory
    BY <1>3, DoneResult
  <2> QED
    BY <1>2, <2>1
<1>4. CASE command = "run"
  <2>1. result.vars = Upsert(inventory, ProxyProfile.vars)
    BY <1>4, DoneResult
  <2>2. DOMAIN ProxyProfile.vars = ProxyVars /\ IsFiniteSet(ProxyVars)
    BY ProxyProfileRest, NamesAssumption
  <2> HIDE DEF inventory
  <2>3. DOMAIN result.vars = DOMAIN inventory \cup ProxyVars
    BY <2>1, <2>2 DEF Upsert
  <2> QED
    BY <1>2, <2>2, <2>3, FS_Union
<1> QED
  BY <1>3, <1>4

-----------------------------------------------------------------------------
(* The command and its environment.                                        *)

LEMMA HeadTail ==
  ASSUME NEW S, NEW x \in S, NEW s \in Seq(S)
  PROVE  /\ <<x>> \o s \in Seq(S)
         /\ Head(<<x>> \o s) = x
         /\ Tail(<<x>> \o s) = s
<1> DEFINE one == <<x>>
           t == one \o s
<1>1. one \in Seq(S) /\ Len(one) = 1 /\ one[1] = x
  OBVIOUS
<1> HIDE DEF one
<1>2. t \in Seq(S) /\ Len(t) = 1 + Len(s) /\ Len(s) \in Nat
  BY <1>1, ConcatProperties, LenProperties, ZenonT(40)
<1>3. t[1] = x /\ \A i \in 1 .. Len(s) : t[i + 1] = s[i]
  <2>1. \A i \in 1 .. Len(one) + Len(s) :
          t[i] = IF i <= Len(one) THEN one[i] ELSE s[i - Len(one)]
    BY <1>1, ConcatProperties
  <2> HIDE DEF t
  <2>2. t[1] = x
    BY <1>1, <1>2, <2>1
  <2>3. ASSUME NEW i \in 1 .. Len(s)
        PROVE  t[i + 1] = s[i]
    BY <1>1, <1>2, <2>1
  <2> QED
    BY <2>2, <2>3
<1> HIDE DEF t
<1>4. Head(t) = t[1]
  BY <1>2, HeadTailProperties
<1>5. t # <<>>
  BY <1>2
<1>6. /\ Tail(t) \in Seq(S)
      /\ Len(Tail(t)) = Len(t) - 1
      /\ \A i \in 1 .. Len(Tail(t)) : Tail(t)[i] = t[i + 1]
  BY <1>2, <1>5, HeadTailProperties
<1>7. Tail(t) = s
  BY <1>2, <1>3, <1>6, SeqEqual
<1> QED
  BY <1>2, <1>3, <1>4, <1>7 DEF t, one

LEMMA CommandDone ==
  ASSUME TypeInv, FoldInv
  PROVE  CommandReaches
<1> SUFFICES ASSUME pc = "done", NEW tokens \in Commands
             PROVE  LET child == ChildOf(Pasta(tokens))
                        argv == Tail(child)
                    IN  /\ Head(child) = "bwrap"
                        /\ ChildOf(argv) = tokens
                        /\ BwrapEnv(argv, host.env) = result.vars
  BY DEF CommandReaches
<1> DEFINE dir == IF host.cwd = None THEN <<>> ELSE host.cwd
           S == Token(result)
           line == Bwrap(tokens)
<1>1. IsProfile(result) /\ IsFiniteSet(DOMAIN result.vars)
  BY ResultVarsFinite DEF TypeInv, Results
<1>2. dir \in Path
  BY DoneChain, EmptySeq DEF IsHost, Option, Path
<1>3. tokens \in Seq(S)
  <2>1. tokens \in Seq(STRING) /\ STRING \subseteq S
    BY CommandsAssumption DEF Token
  <2> HIDE DEF S
  <2>2. Len(tokens) \in Nat /\ DOMAIN tokens = 1 .. Len(tokens)
          /\ \A i \in DOMAIN tokens : tokens[i] \in STRING
    BY <2>1, LenProperties, Element
  <2>3. tokens = [i \in DOMAIN tokens |-> tokens[i]]
    BY <2>1
  <2>4. \A i \in DOMAIN tokens : tokens[i] \in S
    BY <2>1, <2>2
  <2> QED
    BY <2>1, <2>3, <2>4, Mapped
<1>4. line = BwrapArgv(result, dir, tokens)
  BY DEF Bwrap
<1> HIDE DEF dir
<1>5. line \in Seq(S) /\ ChildOf(line) = tokens
  BY <1>1, <1>2, <1>3, <1>4, BwrapReadsBack
<1>6. BwrapEnv(line, host.env) = result.vars
  BY <1>1, <1>2, <1>3, <1>4, BwrapGives
<1>7. "bwrap" \in S
  BY DEF Token, FlagWords
<1> DEFINE child == <<"bwrap">> \o line
<1>8. Pasta(tokens) = PastaArgv(result, child)
  BY DEF Pasta
<1> HIDE DEF line
<1>9. child \in Seq(S) /\ Head(child) = "bwrap" /\ Tail(child) = line
  BY <1>5, <1>7, HeadTail
<1> HIDE DEF child
<1>10. ChildOf(PastaArgv(result, child)) = child
  BY <1>1, <1>9, PastaReadsBack
<1> QED
  BY <1>5, <1>6, <1>8, <1>9, <1>10

\* The user's command reaches the sandbox as it is, behind both command lines,
\* with the inventory for its environment, whatever the command, the layers and
\* the host.
THEOREM CommandAlwaysReaches == Spec => []CommandReaches
  BY FoldIsClosedForm, CommandDone, PTL

-----------------------------------------------------------------------------
(* Paths under paths.                                                      *)

LEMMA UnderIs ==
  ASSUME NEW place \in Path, NEW path \in Path
  PROVE  Under(path, place) <=>
           (/\ Len(place) <= Len(path)
            /\ \A i \in 1 .. Len(place) : place[i] = path[i])
<1> DEFINE n == Len(place)
<1>1. n \in Nat /\ Len(path) \in Nat
  BY LenProperties DEF Path
<1>2. Under(path, place) <=>
        (n <= Len(path) /\ SubSeq(place, 1, n) = SubSeq(path, 1, n))
  BY DEF Under, IsPrefix
<1>3. ASSUME n <= Len(path)
      PROVE  /\ SubSeq(place, 1, n) \in Seq(Word) /\ SubSeq(path, 1, n) \in Seq(Word)
             /\ Len(SubSeq(place, 1, n)) = n /\ Len(SubSeq(path, 1, n)) = n
             /\ \A i \in 1 .. n : SubSeq(place, 1, n)[i] = place[i]
             /\ \A i \in 1 .. n : SubSeq(path, 1, n)[i] = path[i]
  BY <1>1, <1>3, SubSeqProperties DEF Path
<1>4. ASSUME Under(path, place)
      PROVE  n <= Len(path) /\ \A i \in 1 .. n : place[i] = path[i]
  BY <1>2, <1>3, <1>4
<1>5. ASSUME n <= Len(path), \A i \in 1 .. n : place[i] = path[i]
      PROVE  Under(path, place)
  <2> DEFINE s == SubSeq(place, 1, n)
             t == SubSeq(path, 1, n)
  <2>1. /\ s \in Seq(Word) /\ t \in Seq(Word) /\ Len(s) = n /\ Len(t) = n
        /\ \A i \in 1 .. n : s[i] = t[i]
    BY <1>3, <1>5
  <2> HIDE DEF s, t
  <2>2. s = t
    BY <2>1, SeqEqual
  <2> QED
    BY <1>2, <1>5, <2>2 DEF s, t
<1> QED
  BY <1>4, <1>5

\* A place and what is below it make the path.
LEMMA PlaceBelow ==
  ASSUME NEW place \in Path, NEW path \in Path, Under(path, place)
  PROVE  place \o Below(path, place) = path
<1> DEFINE n == Len(place)
           rest == SubSeq(path, n + 1, Len(path))
<1>1. /\ n \in Nat /\ Len(path) \in Nat /\ n <= Len(path)
      /\ \A i \in 1 .. n : place[i] = path[i]
  BY UnderIs, LenProperties DEF Path
<1>2. /\ rest \in Seq(Word)
      /\ Len(rest) = Len(path) - n
      /\ \A i \in 1 .. Len(path) - n : rest[i] = path[n + i]
  <2>1. CASE n + 1 <= Len(path)
    BY <1>1, <2>1, SubSeqProperties DEF Path
  <2>2. CASE n = Len(path)
    BY <1>1, <2>2, SubSeqProperties DEF Path
  <2> QED
    BY <1>1, <2>1, <2>2
<1> DEFINE t == place \o rest
<1> HIDE DEF rest
<1>3. /\ t \in Seq(Word) /\ Len(t) = n + Len(rest)
      /\ \A i \in 1 .. n + Len(rest) :
           t[i] = IF i <= n THEN place[i] ELSE rest[i - n]
  BY <1>2, ConcatProperties DEF Path
<1> HIDE DEF t
<1>4. Len(t) = Len(path)
  BY <1>1, <1>2, <1>3
<1>5. ASSUME NEW i \in 1 .. Len(path)
      PROVE  t[i] = path[i]
  <2>1. CASE i <= n
    BY <1>1, <1>2, <1>3, <2>1
  <2>2. CASE ~(i <= n)
    <3>1. i - n \in 1 .. Len(path) - n /\ n + (i - n) = i
      BY <1>1, <2>2
    <3>2. t[i] = rest[i - n]
      BY <1>1, <1>2, <1>3, <2>2
    <3> QED
      BY <1>2, <3>1, <3>2
  <2> QED
    BY <2>1, <2>2
<1>6. t = path
  BY <1>3, <1>4, <1>5, SeqEqual DEF Path
<1> QED
  BY <1>6 DEF t, rest, Below

-----------------------------------------------------------------------------
(* What a list of mounts shows.                                            *)

Covers(mounts, path) == {i \in DOMAIN mounts : Under(path, mounts[i].sandbox)}

ShownBy(m, path) ==
  Shown(m.kind, IF m.kind = "mount" THEN m.host \o Below(path, m.sandbox) ELSE <<>>,
        m.access)

LEMMA SeesIs ==
  ASSUME NEW mounts, NEW path
  PROVE  Sees(mounts, path) =
           IF Covers(mounts, path) = {} THEN Nothing
           ELSE ShownBy(mounts[Max(Covers(mounts, path))], path)
BY DEF Sees, Covers, ShownBy

LEMMA SeesAt ==
  ASSUME NEW mounts \in Seq(Mount), NEW path, NEW k \in Covers(mounts, path),
         \A j \in Covers(mounts, path) : j <= k
  PROVE  Sees(mounts, path) = ShownBy(mounts[k], path)
<1> DEFINE C == Covers(mounts, path)
<1>1. C \subseteq Nat
  BY LenProperties DEF Covers
<1> HIDE DEF C
<1>2. Max(C) = k
  BY <1>1, MaxIs DEF C
<1>3. C # {}
  BY DEF C
<1> QED
  BY <1>2, <1>3, SeesIs DEF C

\* Two lists, one after the other: the second covers the first.
LEMMA SeesConcat ==
  ASSUME NEW a \in Seq(Mount), NEW b \in Seq(Mount), NEW path
  PROVE  /\ a \o b \in Seq(Mount)
         /\ (Covers(a \o b, path) = {}) <=>
              (Covers(a, path) = {} /\ Covers(b, path) = {})
         /\ Sees(a \o b, path) =
              IF Covers(b, path) = {} THEN Sees(a, path) ELSE Sees(b, path)
<1> DEFINE ab == a \o b
           m == Len(a)
           n == Len(b)
<1>1. /\ ab \in Seq(Mount) /\ Len(ab) = m + n /\ m \in Nat /\ n \in Nat
      /\ \A i \in 1 .. m + n : ab[i] = IF i <= m THEN a[i] ELSE b[i - m]
  BY ConcatProperties, LenProperties
<1>2. DOMAIN a = 1 .. m /\ DOMAIN b = 1 .. n /\ DOMAIN ab = 1 .. m + n
  BY <1>1, LenProperties
<1> HIDE DEF ab
<1>3. \A i \in 1 .. m : ab[i] = a[i]
  BY <1>1
<1>4. \A i \in 1 .. n : m + i \in 1 .. m + n /\ ab[m + i] = b[i]
  <2> SUFFICES ASSUME NEW i \in 1 .. n
               PROVE  m + i \in 1 .. m + n /\ ab[m + i] = b[i]
    OBVIOUS
  <2>1. m + i \in 1 .. m + n /\ ~(m + i <= m) /\ (m + i) - m = i
    BY <1>1
  <2> QED
    BY <1>1, <2>1
<1>5. \A i \in 1 .. m : i \in Covers(ab, path) <=> i \in Covers(a, path)
  BY <1>1, <1>2, <1>3 DEF Covers
<1>6. \A i \in 1 .. n : m + i \in Covers(ab, path) <=> i \in Covers(b, path)
  BY <1>1, <1>2, <1>4 DEF Covers
<1>7. \A j \in Covers(ab, path) : j \in 1 .. m \/ (j - m \in 1 .. n /\ m + (j - m) = j)
  BY <1>1, <1>2 DEF Covers
<1>8. Covers(a, path) \subseteq 1 .. m /\ Covers(b, path) \subseteq 1 .. n
        /\ Covers(ab, path) \subseteq 1 .. m + n
  BY <1>2 DEF Covers
<1>9. (Covers(ab, path) = {}) <=> (Covers(a, path) = {} /\ Covers(b, path) = {})
  BY <1>1, <1>5, <1>6, <1>7, <1>8
<1>10. CASE Covers(b, path) = {}
  <2>1. Covers(ab, path) = Covers(a, path)
    BY <1>5, <1>6, <1>7, <1>8, <1>10
  <2>2. CASE Covers(a, path) = {}
    BY <1>10, <2>1, <2>2, SeesIs DEF ab
  <2>3. CASE Covers(a, path) # {}
    <3>1. Max(Covers(a, path)) \in Covers(a, path)
      BY <1>1, <1>8, <2>3, MaxExists
    <3>2. ab[Max(Covers(a, path))] = a[Max(Covers(a, path))]
      BY <1>3, <1>8, <3>1
    <3>3. Sees(ab, path) = Sees(a, path)
      BY <2>1, <3>2, SeesIs
    <3> QED
      BY <1>1, <1>9, <1>10, <3>3 DEF ab
  <2> QED
    BY <1>1, <1>9, <1>10, <2>2, <2>3 DEF ab
<1>11. CASE Covers(b, path) # {}
  <2> DEFINE k == Max(Covers(b, path))
  <2>1. k \in Covers(b, path) /\ \A j \in Covers(b, path) : j <= k
    BY <1>1, <1>8, <1>11, MaxExists
  <2>2. k \in 1 .. n
    BY <1>8, <2>1
  <2> HIDE DEF k
  <2>3. m + k \in Covers(ab, path)
    BY <1>6, <2>1, <2>2
  <2>4. \A j \in Covers(ab, path) : j <= m + k
    <3> SUFFICES ASSUME NEW j \in Covers(ab, path)
                 PROVE  j <= m + k
      OBVIOUS
    <3>1. CASE j \in 1 .. m
      BY <1>1, <2>2, <3>1
    <3>2. CASE j - m \in 1 .. n /\ m + (j - m) = j
      <4>1. j - m \in Covers(b, path)
        BY <1>6, <3>2
      <4>2. j - m <= k
        BY <2>1, <4>1
      <4>3. j \in 1 .. m + n
        BY <1>8
      <4> QED
        BY <1>1, <2>2, <4>2, <4>3
    <3> QED
      BY <1>7, <3>1, <3>2
  <2>5. Sees(ab, path) = ShownBy(ab[m + k], path)
    BY <1>1, <2>3, <2>4, SeesAt
  <2>6. Sees(b, path) = ShownBy(b[k], path)
    BY <2>1, SeesAt
  <2>7. Sees(ab, path) = Sees(b, path)
    BY <1>4, <2>2, <2>5, <2>6
  <2> QED
    BY <1>1, <1>9, <1>11, <2>7 DEF ab
<1> QED
  BY <1>10, <1>11

\* A list of one mount.
LEMMA SeesOne ==
  ASSUME NEW m \in Mount, NEW path
  PROVE  /\ <<m>> \in Seq(Mount)
         /\ (Covers(<<m>>, path) = {}) <=> ~Under(path, m.sandbox)
         /\ Under(path, m.sandbox) => Sees(<<m>>, path) = ShownBy(m, path)
<1> DEFINE one == <<m>>
<1>1. one \in Seq(Mount) /\ DOMAIN one = {1} /\ one[1] = m
  OBVIOUS
<1> HIDE DEF one
<1>2. (Covers(one, path) = {}) <=> ~Under(path, m.sandbox)
  BY <1>1 DEF Covers
<1>3. ASSUME Under(path, m.sandbox)
      PROVE  Sees(one, path) = ShownBy(m, path)
  <2>1. 1 \in Covers(one, path) /\ \A j \in Covers(one, path) : j <= 1
    BY <1>1, <1>3 DEF Covers
  <2> QED
    BY <1>1, <2>1, SeesAt
<1> QED
  BY <1>1, <1>2, <1>3 DEF one

-----------------------------------------------------------------------------
(* The mounts the layers declare.                                          *)

AccessOf(w) == IF w.access = None THEN "ro" ELSE w.access

\* What a path under a declared mount's place is to show.
ShownOf(m, path) ==
  Shown("mount", Meant(m[1], WrittenMount(m).host) \o Below(path, Place(m)),
        AccessOf(WrittenMount(m)))

LEMMA ExpandMeans ==
  ASSUME NEW k \in Layers, NEW path \in Written, k <= Len(order)
  PROVE  Expand(path, host.home).rest = Meant(k, path)
BY DEF Expand, Meant, Abs

LEMMA LayerMount ==
  ASSUME TypeInv, FoldInv, pc = "done", NEW k \in Layers
  PROVE  /\ chain[k].mounts \in Seq(Mount)
         /\ DOMAIN chain[k].mounts = DOMAIN Wrote(k).mounts
         /\ \A i \in DOMAIN Wrote(k).mounts :
              LET m == <<k, i>>
              IN  chain[k].mounts[i] =
                    Bind(Place(m), Meant(k, WrittenMount(m).host),
                         AccessOf(WrittenMount(m)))
<1> DEFINE d == Wrote(k)
           l == Layer(k)
<1>1. /\ chain[k] = Resolved(l, host) /\ IsProfile(chain[k])
      /\ IsDecl(d) /\ IsDecl(l) /\ IsHost(host)
      /\ k <= Len(order) => l = Normalized(d, host.home)
      /\ ~(k <= Len(order)) => l = d
  BY DoneChain, LayerIsWritten
<1>2. chain[k].mounts = [i \in DOMAIN l.mounts |-> MountOf(l.mounts[i])]
  BY <1>1 DEF Resolved
<1>3. d.mounts \in Seq(MountDecl)
  BY <1>1 DEF IsDecl, IsMountDecls
<1>4. ASSUME NEW i \in DOMAIN d.mounts
      PROVE  MountOf(d.mounts[i]).access = AccessOf(d.mounts[i])
  BY DEF MountOf, Bind, AccessOf
<1>5. CASE k <= Len(order)
  <2>1. l.mounts = [i \in DOMAIN d.mounts |-> NormalizedMount(d.mounts[i], host.home)]
    BY <1>1, <1>5 DEF Normalized, IsDecl
  <2>2. ASSUME NEW i \in DOMAIN d.mounts
        PROVE  MountOf(NormalizedMount(d.mounts[i], host.home)) =
                 Bind(Place(<<k, i>>), Meant(k, WrittenMount(<<k, i>>).host),
                      AccessOf(WrittenMount(<<k, i>>)))
    <3> DEFINE w == d.mounts[i]
               n == NormalizedMount(w, host.home)
    <3>1. w \in MountDecl
      BY <1>3, Element
    <3>2. WrittenMount(<<k, i>>) = w
      BY DEF WrittenMount
    <3> HIDE DEF w
    <3>3. /\ w.host \in Written /\ w.sandbox \in Option(Written)
          /\ n.host = Expand(w.host, host.home)
          /\ n.sandbox = IF w.sandbox = None THEN None
                                            ELSE Expand(w.sandbox, host.home)
          /\ n.access = w.access
      BY <3>1 DEF MountDecl, NormalizedMount
    <3>4. n.host.rest = Meant(k, w.host)
      BY <1>5, <3>3, ExpandMeans
    <3>5. Place(<<k, i>>) = Meant(k, IF w.sandbox = None THEN w.host ELSE w.sandbox)
      BY <3>2 DEF Place
    <3> DEFINE goal == Bind(Place(<<k, i>>), Meant(k, w.host), AccessOf(w))
    <3> HIDE DEF n
    <3>6. ASSUME w.sandbox = None
          PROVE  MountOf(n) = goal
      BY <3>3, <3>4, <3>5, <3>6 DEF MountOf, AccessOf
    <3>7. ASSUME w.sandbox # None
          PROVE  MountOf(n) = goal
      <4>1. w.sandbox \in Written
        BY <3>3, <3>7 DEF Option
      <4>2. Expand(w.sandbox, host.home) \in Written
        BY <1>1, <4>1, ExpandWritten DEF IsHost
      <4>3. n.sandbox # None /\ n.sandbox = Expand(w.sandbox, host.home)
        BY <3>3, <3>7, <4>2, AbsentAssumption
      <4>4. n.sandbox.rest = Meant(k, w.sandbox)
        BY <1>5, <4>1, <4>3, ExpandMeans
      <4> QED
        BY <3>3, <3>4, <3>5, <3>7, <4>3, <4>4 DEF MountOf, AccessOf
    <3> QED
      BY <3>2, <3>6, <3>7 DEF n, w
  <2>3. DOMAIN l.mounts = DOMAIN d.mounts
          /\ \A i \in DOMAIN d.mounts :
               l.mounts[i] = NormalizedMount(d.mounts[i], host.home)
    BY <2>1
  <2>4. DOMAIN chain[k].mounts = DOMAIN d.mounts
          /\ \A i \in DOMAIN d.mounts : chain[k].mounts[i] =
               MountOf(NormalizedMount(d.mounts[i], host.home))
    BY <1>2, <2>3
  <2>5. chain[k].mounts \in Seq(Mount)
    BY <1>1 DEF IsProfile, IsMounts
  <2> QED
    BY <2>2, <2>4, <2>5
<1>6. CASE ~(k <= Len(order))
  <2>1. l = d
    BY <1>1, <1>6
  <2>2. ASSUME NEW i \in DOMAIN d.mounts
        PROVE  MountOf(d.mounts[i]) =
                 Bind(Place(<<k, i>>), Meant(k, WrittenMount(<<k, i>>).host),
                      AccessOf(WrittenMount(<<k, i>>)))
    <3>1. WrittenMount(<<k, i>>) = d.mounts[i]
      BY DEF WrittenMount
    <3>2. \A path : Meant(k, path) = path.rest
      BY <1>6 DEF Meant
    <3>3. Place(<<k, i>>) = IF d.mounts[i].sandbox = None
                              THEN d.mounts[i].host.rest ELSE d.mounts[i].sandbox.rest
      BY <3>1, <3>2 DEF Place
    <3> QED
      BY <3>1, <3>2, <3>3 DEF MountOf, AccessOf
  <2>3. DOMAIN chain[k].mounts = DOMAIN d.mounts
          /\ \A i \in DOMAIN d.mounts : chain[k].mounts[i] = MountOf(d.mounts[i])
    BY <1>2, <2>1
  <2>4. chain[k].mounts \in Seq(Mount)
    BY <1>1 DEF IsProfile, IsMounts
  <2> QED
    BY <2>2, <2>3, <2>4
<1> QED
  BY <1>5, <1>6

\* The declared mounts of the first n layers that a path is under, and the last
\* of some mounts.
CoveringUpTo(n, path) ==
  {m \in MountsWritten : m[1] <= n /\ Under(path, Place(m))}
Topmost(top, C) == top \in C /\ \A o \in C : o = top \/ Later(top, o)

\* The first n layers' mounts show what the last of them declared.
ShowsLast(n, path) ==
  LET mounts == Joined(chain, n, "mounts")
      C == CoveringUpTo(n, path)
  IN  /\ mounts \in Seq(Mount)
      /\ (Covers(mounts, path) = {}) <=> (C = {})
      /\ C # {} => \E top \in C : /\ Topmost(top, C)
                                  /\ Sees(mounts, path) = ShownOf(top, path)

LEMMA WrittenIs ==
  ASSUME NEW m
  PROVE  m \in MountsWritten <=>
           \E k \in Layers : \E i \in DOMAIN Wrote(k).mounts : m = <<k, i>>
BY DEF MountsWritten

LEMMA ShowsNone ==
  ASSUME NEW path, LayerCount \in Nat
  PROVE  ShowsLast(0, path)
<1>1. Joined(chain, 0, "mounts") = <<>>
  <2>1. [k \in 1 .. 0 |-> chain[k]["mounts"]] = <<>>
    OBVIOUS
  <2> QED
    BY <2>1, FlattenEmpty DEF Joined
<1>2. Covers(<<>>, path) = {}
  BY DEF Covers
<1>3. CoveringUpTo(0, path) = {}
  <2>1. ASSUME NEW m \in MountsWritten, m[1] <= 0
        PROVE  FALSE
    <3>1. PICK k \in Layers : \E i \in DOMAIN Wrote(k).mounts : m = <<k, i>>
      BY WrittenIs
    <3>2. m[1] = k
      BY <3>1
    <3> QED
      BY <2>1, <3>2 DEF Layers
  <2> QED
    BY <2>1 DEF CoveringUpTo
<1>4. <<>> \in Seq(Mount)
  BY EmptySeq
<1> QED
  BY <1>1, <1>2, <1>3, <1>4 DEF ShowsLast

\* One more layer's mounts cover those before them.
LEMMA ShowsMore ==
  ASSUME TypeInv, FoldInv, pc = "done", NEW path, NEW n \in Nat,
         n + 1 \in Layers, ShowsLast(n, path)
  PROVE  ShowsLast(n + 1, path)
<1> DEFINE a == Joined(chain, n, "mounts")
           b == chain[n + 1].mounts
           d == Wrote(n + 1).mounts
           C == CoveringUpTo(n, path)
           D == CoveringUpTo(n + 1, path)
<1>1. LayerCount \in Nat /\ \A k \in Layers : IsProfile(chain[k])
  BY DoneChain
<1>2. /\ Joined(chain, n + 1, "mounts") = a \o b
      /\ a \in Seq(Mount)
  <2>1. \A k \in 1 .. n + 1 : chain[k]["mounts"] \in Seq(Mount)
    BY <1>1 DEF Layers, IsProfile, IsMounts
  <2>2. Joined(chain, n + 1, "mounts") =
          Joined(chain, n, "mounts") \o chain[n + 1]["mounts"]
    BY <2>1, JoinedMore
  <2>3. Joined(chain, n, "mounts") \in Seq(Mount)
    BY <2>1, JoinedMore
  <2> QED
    BY <2>2, <2>3
<1>3. /\ b \in Seq(Mount) /\ DOMAIN b = DOMAIN d
      /\ \A i \in DOMAIN d :
           b[i] = Bind(Place(<<n + 1, i>>),
                       Meant(n + 1, WrittenMount(<<n + 1, i>>).host),
                       AccessOf(WrittenMount(<<n + 1, i>>)))
  BY LayerMount
<1>4. /\ (Covers(a, path) = {}) <=> (C = {})
      /\ C # {} => \E top \in C : Topmost(top, C) /\ Sees(a, path) = ShownOf(top, path)
  BY DEF ShowsLast
<1>5. ASSUME NEW i \in DOMAIN d
      PROVE  b[i].sandbox = Place(<<n + 1, i>>)
  <2> DEFINE m == <<n + 1, i>>
  <2>1. b[i] = Bind(Place(m), Meant(n + 1, WrittenMount(m).host),
                    AccessOf(WrittenMount(m)))
    BY <1>3
  <2> HIDE DEF b, m
  <2>2. b[i].sandbox = Place(m)
    BY <2>1 DEF Bind
  <2> QED
    BY <2>2 DEF m
<1>6. \A i \in DOMAIN d : i \in Covers(b, path) <=> <<n + 1, i>> \in D
  <2> SUFFICES ASSUME NEW i \in DOMAIN d
               PROVE  i \in Covers(b, path) <=> <<n + 1, i>> \in D
    OBVIOUS
  <2>1. <<n + 1, i>> \in MountsWritten
    BY WrittenIs
  <2>2. <<n + 1, i>>[1] <= n + 1
    OBVIOUS
  <2> QED
    BY <1>3, <1>5, <2>1, <2>2 DEF Covers, CoveringUpTo
<1>7. ASSUME NEW m \in D
      PROVE  m \in C \/ \E i \in DOMAIN d : m = <<n + 1, i>>
  <2>1. PICK k \in Layers : \E i \in DOMAIN Wrote(k).mounts : m = <<k, i>>
    BY WrittenIs DEF CoveringUpTo
  <2>2. m[1] = k /\ k \in Nat /\ k <= n + 1
    BY <2>1 DEF CoveringUpTo, Layers
  <2>3. CASE k = n + 1
    BY <2>1, <2>3
  <2>4. CASE k # n + 1
    BY <2>2, <2>4 DEF CoveringUpTo
  <2> QED
    BY <2>3, <2>4
<1>8. C \subseteq D /\ \A m \in C : m[1] \in Nat /\ m[1] <= n
  <2> SUFFICES ASSUME NEW m \in C
               PROVE  m \in D /\ m[1] \in Nat /\ m[1] <= n
    OBVIOUS
  <2>1. PICK k \in Layers : \E i \in DOMAIN Wrote(k).mounts : m = <<k, i>>
    BY WrittenIs DEF CoveringUpTo
  <2>2. m[1] \in Nat /\ m[1] <= n
    BY <2>1 DEF CoveringUpTo, Layers
  <2> QED
    BY <2>2 DEF CoveringUpTo
<1>9. Covers(b, path) \subseteq DOMAIN d
  BY <1>3 DEF Covers
<1> HIDE DEF a, b, C, D
<1>10. /\ a \o b \in Seq(Mount)
       /\ (Covers(a \o b, path) = {}) <=>
            (Covers(a, path) = {} /\ Covers(b, path) = {})
       /\ Sees(a \o b, path) =
            IF Covers(b, path) = {} THEN Sees(a, path) ELSE Sees(b, path)
  BY <1>2, <1>3, SeesConcat
<1>11. (Covers(a \o b, path) = {}) <=> (D = {})
  BY <1>4, <1>6, <1>7, <1>8, <1>9, <1>10
<1>12. ASSUME D # {}, Covers(b, path) = {}
       PROVE  \E top \in D : Topmost(top, D) /\ Sees(a \o b, path) = ShownOf(top, path)
  <2>1. D = C
    BY <1>6, <1>7, <1>8, <1>9, <1>12
  <2> QED
    BY <1>4, <1>10, <1>12, <2>1
<1>13. ASSUME Covers(b, path) # {}
       PROVE  \E top \in D : Topmost(top, D) /\ Sees(a \o b, path) = ShownOf(top, path)
  <2> DEFINE k == Max(Covers(b, path))
             top == <<n + 1, k>>
  <2>1. Len(b) \in Nat /\ Covers(b, path) \subseteq 1 .. Len(b)
    BY <1>3, LenProperties DEF Covers
  <2>2. k \in Covers(b, path) /\ \A j \in Covers(b, path) : j <= k
    BY <1>13, <2>1, MaxExists
  <2> HIDE DEF k
  <2>3. k \in DOMAIN d /\ k \in Nat
    BY <1>9, <2>1, <2>2
  <2>4. top \in D
    BY <1>6, <2>2, <2>3
  <2>5. ASSUME NEW o \in D
        PROVE  o = top \/ Later(top, o)
    <3>1. CASE o \in C
      <4>1. o[1] \in Nat /\ o[1] <= n /\ top[1] = n + 1
        BY <1>8, <3>1
      <4>2. top[1] > o[1]
        BY <4>1
      <4> QED
        BY <4>2 DEF Later
    <3>2. CASE \E i \in DOMAIN d : o = <<n + 1, i>>
      <4>1. PICK i \in DOMAIN d : o = <<n + 1, i>>
        BY <3>2
      <4>2. i \in Covers(b, path)
        BY <1>6, <2>5, <4>1
      <4>3. i <= k /\ i \in Nat
        BY <2>1, <2>2, <4>2
      <4>4. CASE i = k
        BY <4>1, <4>4
      <4>5. CASE i # k
        <5>1. k > i
          BY <2>3, <4>3, <4>5
        <5>2. top[1] = o[1] /\ top[2] = k /\ o[2] = i
          BY <4>1
        <5> QED
          BY <5>1, <5>2 DEF Later
      <4> QED
        BY <4>4, <4>5
    <3> QED
      BY <1>7, <3>1, <3>2
  <2>6. Sees(b, path) = ShownBy(b[k], path)
    BY <1>3, <2>2, SeesAt
  <2>7. b[k] = Bind(Place(top), Meant(n + 1, WrittenMount(top).host),
                    AccessOf(WrittenMount(top)))
    BY <1>3, <2>3
  <2>8. ShownBy(b[k], path) = ShownOf(top, path)
    BY <2>7 DEF ShownBy, ShownOf, Bind
  <2>9. Topmost(top, D)
    BY <2>4, <2>5 DEF Topmost
  <2> HIDE DEF top
  <2> QED
    BY <1>10, <1>13, <2>4, <2>6, <2>8, <2>9
<1>14. (D # {}) => \E top \in D : Topmost(top, D)
                                   /\ Sees(a \o b, path) = ShownOf(top, path)
  BY <1>12, <1>13
<1>15. Joined(chain, n + 1, "mounts") = a \o b
  BY <1>2
<1>16. D = CoveringUpTo(n + 1, path)
  BY DEF D
<1> QED
  BY <1>10, <1>11, <1>14, <1>15, <1>16 DEF ShowsLast

\* All the layers' mounts together.
LEMMA ShowsAll ==
  ASSUME TypeInv, FoldInv, pc = "done", NEW path
  PROVE  ShowsLast(LayerCount, path)
<1> DEFINE S == {n \in Nat : n <= LayerCount => ShowsLast(n, path)}
<1>1. LayerCount \in Nat
  BY DoneChain
<1>2. 0 \in S
  BY <1>1, ShowsNone
<1>3. ASSUME NEW n \in Nat, n \in S
      PROVE  n + 1 \in S
  <2> SUFFICES ASSUME n + 1 <= LayerCount
               PROVE  ShowsLast(n + 1, path)
    OBVIOUS
  <2>1. ShowsLast(n, path)
    BY <1>1, <1>3
  <2>2. n + 1 \in Layers
    BY <1>1 DEF Layers
  <2> QED
    BY <2>1, <2>2, ShowsMore
<1> HIDE DEF S
<1>4. \A n \in Nat : n \in S
  BY <1>2, <1>3, Induction
<1> QED
  BY <1>1, <1>4 DEF S

-----------------------------------------------------------------------------
(* The baseline.                                                           *)

LEMMA UnderOne ==
  ASSUME NEW x \in Word, NEW path \in Path
  PROVE  /\ Under(path, <<x>>) <=> (path # <<>> /\ Head(path) = x)
         /\ Under(path, <<x>>) => <<x>> \o Below(path, <<x>>) = path
<1> DEFINE one == <<x>>
<1>1. one \in Path /\ Len(one) = 1 /\ one[1] = x
  BY DEF Path
<1>2. Len(path) \in Nat /\ (path # <<>> <=> Len(path) # 0)
  BY LenProperties, EmptySeq DEF Path
<1>3. path # <<>> => Head(path) = path[1]
  BY HeadTailProperties DEF Path
<1> HIDE DEF one
<1>4. Under(path, one) <=> (Len(one) <= Len(path) /\ \A i \in 1 .. Len(one) : one[i] = path[i])
  BY <1>1, UnderIs
<1>5. Under(path, one) <=> (1 <= Len(path) /\ path[1] = x)
  BY <1>1, <1>2, <1>4
<1>6. Under(path, one) => one \o Below(path, one) = path
  BY <1>1, PlaceBelow
<1> QED
  BY <1>2, <1>3, <1>5, <1>6 DEF one

\* The names of the baseline's places, in their order.
Tops == <<"usr", "bin", "sbin", "lib", "lib64", "etc", "dev", "proc", "tmp">>

LEMMA SystemTops ==
  /\ DOMAIN SystemBaseline = 1 .. 9
  /\ \A i \in 1 .. 9 : SystemBaseline[i].sandbox = <<Tops[i]>>
  /\ \A i \in 1 .. 9 : Tops[i] \in Word
  /\ \A i, j \in 1 .. 9 : Tops[i] = Tops[j] => i = j
<1>1. DOMAIN SystemBaseline = 1 .. 9
  BY DEF SystemBaseline
<1>2. \A i \in 1 .. 9 : SystemBaseline[i].sandbox = <<Tops[i]>>
  BY DEF SystemBaseline, Tops, Bind, Symlink, Special
<1>3. \A i \in 1 .. 9 : Tops[i] \in Word
  BY WordAssumption DEF Tops
<1>4. \A i, j \in 1 .. 9 : Tops[i] = Tops[j] => i = j
  BY DEF Tops
<1> QED
  BY <1>1, <1>2, <1>3, <1>4

LEMMA SystemShows ==
  ASSUME NEW path \in Path
  PROVE  Sees(SystemBaseline, path) = System(path)
<1> DEFINE C == Covers(SystemBaseline, path)
<1>1. SystemBaseline \in Seq(Mount)
  BY SystemBaselineTyped
<1>2. \A i \in 1 .. 9 : i \in C <=> (path # <<>> /\ Head(path) = Tops[i])
  <2> SUFFICES ASSUME NEW i \in 1 .. 9
               PROVE  i \in C <=> (path # <<>> /\ Head(path) = Tops[i])
    OBVIOUS
  <2>1. i \in C <=> Under(path, <<Tops[i]>>)
    BY SystemTops DEF Covers
  <2>2. Tops[i] \in Word
    BY SystemTops
  <2> QED
    BY <2>1, <2>2, UnderOne
<1>3. C \subseteq 1 .. 9
  BY SystemTops DEF Covers
<1>4. ASSUME NEW i \in C
      PROVE  /\ Sees(SystemBaseline, path) = ShownBy(SystemBaseline[i], path)
             /\ i \in 1 .. 9 /\ path # <<>> /\ Head(path) = Tops[i]
             /\ <<Tops[i]>> \o Below(path, <<Tops[i]>>) = path
  <2>1. \A j \in C : j = i
    BY <1>2, <1>3, SystemTops
  <2>2. \A j \in C : j <= i
    BY <1>3, <2>1
  <2>3. Sees(SystemBaseline, path) = ShownBy(SystemBaseline[i], path)
    BY <1>1, <2>2, SeesAt
  <2>4. i \in 1 .. 9 /\ path # <<>> /\ Head(path) = Tops[i]
    BY <1>2, <1>3
  <2>5. Tops[i] \in Word
    BY <2>4, SystemTops
  <2>6. <<Tops[i]>> \o Below(path, <<Tops[i]>>) = path
    BY <2>4, <2>5, UnderOne
  <2> QED
    BY <2>3, <2>4, <2>6
<1>5. CASE C = {}
  <2>1. Sees(SystemBaseline, path) = Nothing
    BY <1>5, SeesIs
  <2>2. path = <<>> \/ \A i \in 1 .. 9 : Head(path) # Tops[i]
    BY <1>2, <1>5
  <2>3. path = <<>> \/ Head(path) \notin {"usr", "bin", "sbin", "lib", "lib64",
                                          "etc", "dev", "proc", "tmp"}
    BY <2>2 DEF Tops
  <2> QED
    BY <2>1, <2>3 DEF System
<1>6. ASSUME NEW i \in C
      PROVE  Sees(SystemBaseline, path) = System(path)
  <2>1. i \in 1 .. 9 /\ path # <<>> /\ Head(path) = Tops[i]
          /\ <<Tops[i]>> \o Below(path, <<Tops[i]>>) = path
    BY <1>4, <1>6
  <2>2. Sees(SystemBaseline, path) = ShownBy(SystemBaseline[i], path)
    BY <1>4, <1>6
  <2> HIDE DEF C
  <2>3. CASE i \in {1, 6}
    <3>1. /\ Tops[i] \in {"usr", "etc"}
          /\ SystemBaseline[i] = Bind(<<Tops[i]>>, <<Tops[i]>>, "ro")
      BY <2>3 DEF Tops, SystemBaseline
    <3> DEFINE m == SystemBaseline[i]
    <3>2. m.kind = "mount" /\ m.host = <<Tops[i]>> /\ m.sandbox = <<Tops[i]>>
            /\ m.access = "ro"
      BY <3>1 DEF Bind
    <3> HIDE DEF m
    <3>3. ShownBy(m, path) = Shown("mount", path, "ro")
      BY <2>1, <3>2 DEF ShownBy
    <3> QED
      BY <2>1, <2>2, <3>1, <3>3 DEF System, m
  <2>4. CASE i \in {2, 3, 4, 5}
    <3>1. /\ Tops[i] \in {"bin", "sbin", "lib", "lib64"}
          /\ SystemBaseline[i] = Symlink(Tops[i])
      BY <2>4 DEF Tops, SystemBaseline
    <3>2. ShownBy(SystemBaseline[i], path) = Shown("symlink", <<>>, None)
      BY <3>1 DEF ShownBy, Symlink
    <3> QED
      BY <2>1, <2>2, <3>1, <3>2 DEF System
  <2>5. CASE i \in {7, 8}
    <3>1. /\ Tops[i] \in {"dev", "proc"}
          /\ SystemBaseline[i] = Special(<<Tops[i]>>, Tops[i])
      BY <2>5 DEF Tops, SystemBaseline
    <3>2. ShownBy(SystemBaseline[i], path) = Shown(Tops[i], <<>>, None)
      BY <3>1 DEF ShownBy, Special
    <3> QED
      BY <2>1, <2>2, <3>1, <3>2 DEF System
  <2>6. CASE i = 9
    <3>1. Tops[i] = "tmp" /\ SystemBaseline[i] = Special(<<"tmp">>, "tmpfs")
      BY <2>6 DEF Tops, SystemBaseline
    <3>2. ShownBy(SystemBaseline[i], path) = Shown("tmpfs", <<>>, None)
      BY <3>1 DEF ShownBy, Special
    <3> QED
      BY <2>1, <2>2, <3>1, <3>2 DEF System
  <2>7. i \in {1, 6} \/ i \in {2, 3, 4, 5} \/ i \in {7, 8} \/ i = 9
    BY <2>1
  <2> QED
    BY <2>3, <2>4, <2>5, <2>6, <2>7
<1> QED
  BY <1>5, <1>6

\* The project's access mode is that of the last layer that has a word on it.
LEMMA ReadonlyDone ==
  ASSUME TypeInv, FoldInv, pc = "done"
  PROVE  /\ FromReadonly(Merged.readonly) = LastWord(ReadonlyOf, "rw")
         /\ FromReadonly(Merged.readonly) \in Access
<1> DEFINE said == {k \in Layers : ReadonlyOf(k) # None}
<1>1. LastWord(ReadonlyOf, "rw") = IF said = {} THEN "rw" ELSE ReadonlyOf(Max(said))
  BY DEF LastWord
<1>2. \A k \in Layers : chain[k].readonly = ReadonlyOf(k)
  <2> SUFFICES ASSUME NEW k \in Layers
               PROVE  chain[k].readonly = ReadonlyOf(k)
    OBVIOUS
  <2>1. chain[k] = Resolved(Layer(k), host) /\ Layer(k).readonly = Wrote(k).readonly
    BY DoneChain, LayerIsWritten
  <2> QED
    BY <2>1 DEF Resolved, ReadonlyOf
<1>3. LayerCount \in Nat /\ Layers = 1 .. LayerCount
  BY DoneChain DEF Layers
<1>4. Saying(chain, LayerCount, "readonly") = said
  BY <1>2, <1>3 DEF Saying
<1>5. Merged.readonly = IF said = {} THEN None ELSE chain[Max(said)]["readonly"]
  BY <1>4 DEF Merged, FoldOf, Said
<1>6. CASE said = {}
  <2>1. Merged.readonly # "ro"
    BY <1>5, <1>6, AbsentAssumption DEF Access
  <2> QED
    BY <1>1, <1>6, <2>1 DEF FromReadonly, Access
<1>7. CASE said # {}
  <2>1. Max(said) \in said
    BY <1>3, <1>7, MaxExists
  <2>2. Max(said) \in Layers /\ ReadonlyOf(Max(said)) # None
    BY <2>1
  <2> HIDE DEF said
  <2>3. Merged.readonly = ReadonlyOf(Max(said))
    BY <1>2, <1>5, <1>7, <2>2
  <2>4. Merged.readonly \in Option(Access)
    BY DoneChain DEF IsProfile, IsMounts
  <2>5. Merged.readonly \in {"ro", "rw"}
    BY <2>2, <2>3, <2>4 DEF Option, Access
  <2> QED
    BY <1>1, <1>7, <2>3, <2>5 DEF FromReadonly, Access
<1> QED
  BY <1>6, <1>7

\* What Mounts::base_config shows.
BaseShown(path) ==
  IF host.cwd # None /\ Under(path, host.cwd)
    THEN Shown("mount", path, LastWord(ReadonlyOf, "rw"))
  ELSE IF Under(path, host.home)
    THEN Shown("tmpfs", <<>>, None)
  ELSE System(path)

LEMMA BaseShows ==
  ASSUME TypeInv, FoldInv, pc = "done", NEW path \in Path
  PROVE  /\ MountsBase(Merged.readonly, host) \in Seq(Mount)
         /\ Sees(MountsBase(Merged.readonly, host), path) = BaseShown(path)
<1> DEFINE home == Special(host.home, "tmpfs")
           mode == FromReadonly(Merged.readonly)
           project == Bind(host.cwd, host.cwd, mode)
           first == SystemBaseline \o <<home>>
           last == IF host.cwd = None THEN <<>> ELSE <<project>>
<1>1. /\ host.home \in Path /\ host.cwd \in Option(Path)
      /\ mode = LastWord(ReadonlyOf, "rw") /\ mode \in Access
  BY DoneChain, ReadonlyDone DEF IsHost
<1>2. home \in Mount /\ home.sandbox = host.home
        /\ ShownBy(home, path) = Shown("tmpfs", <<>>, None)
  BY <1>1 DEF Special, Mount, ShownBy
<1>3. MountsBase(Merged.readonly, host) = first \o last
  BY DEF MountsBase
<1>4. SystemBaseline \in Seq(Mount) /\ Sees(SystemBaseline, path) = System(path)
  BY SystemBaselineTyped, SystemShows
<1> HIDE DEF home
<1>5. /\ <<home>> \in Seq(Mount)
      /\ (Covers(<<home>>, path) = {}) <=> ~Under(path, host.home)
      /\ Under(path, host.home) => Sees(<<home>>, path) = Shown("tmpfs", <<>>, None)
  BY <1>2, SeesOne
<1> DEFINE blank == <<home>>
<1> HIDE DEF blank
<1>6. /\ first \in Seq(Mount)
      /\ Sees(first, path) = IF Under(path, host.home)
                               THEN Shown("tmpfs", <<>>, None) ELSE System(path)
  <2>1. /\ blank \in Seq(Mount)
        /\ (Covers(blank, path) = {}) <=> ~Under(path, host.home)
        /\ Under(path, host.home) => Sees(blank, path) = Shown("tmpfs", <<>>, None)
    BY <1>5 DEF blank
  <2>2. /\ SystemBaseline \o blank \in Seq(Mount)
        /\ Sees(SystemBaseline \o blank, path) =
             IF Covers(blank, path) = {} THEN Sees(SystemBaseline, path)
                                         ELSE Sees(blank, path)
    BY <1>4, <2>1, SeesConcat
  <2>3. first = SystemBaseline \o blank
    BY DEF blank
  <2> HIDE DEF first
  <2> QED
    BY <1>4, <2>1, <2>2, <2>3
<1> HIDE DEF first
<1>7. CASE host.cwd = None
  <2>1. first \o last = first
    BY <1>6, <1>7, ConcatEmptySeq
  <2> QED
    BY <1>3, <1>6, <1>7, <2>1 DEF BaseShown
<1>8. CASE host.cwd # None
  <2>1. host.cwd \in Path
    BY <1>1, <1>8 DEF Option
  <2>2. project \in Mount /\ project.sandbox = host.cwd
    BY <1>1, <2>1, BindIsMount DEF Bind
  <2>3. Under(path, host.cwd) => ShownBy(project, path) = Shown("mount", path, mode)
    <3>1. ASSUME Under(path, host.cwd)
          PROVE  host.cwd \o Below(path, host.cwd) = path
      BY <2>1, <3>1, PlaceBelow
    <3> QED
      BY <3>1 DEF ShownBy, Bind
  <2>4. last = <<project>>
    BY <1>8
  <2> HIDE DEF project, last
  <2>5. /\ last \in Seq(Mount)
        /\ (Covers(last, path) = {}) <=> ~Under(path, host.cwd)
        /\ Under(path, host.cwd) => Sees(last, path) = Shown("mount", path, mode)
    BY <2>2, <2>3, <2>4, SeesOne
  <2>6. /\ first \o last \in Seq(Mount)
        /\ Sees(first \o last, path) =
             IF Covers(last, path) = {} THEN Sees(first, path) ELSE Sees(last, path)
    BY <1>6, <2>5, SeesConcat
  <2> HIDE DEF mode
  <2>7. Sees(first \o last, path) = BaseShown(path)
    <3>1. CASE Under(path, host.cwd)
      BY <1>1, <1>8, <2>5, <2>6, <3>1 DEF BaseShown
    <3>2. CASE ~Under(path, host.cwd)
      BY <1>6, <2>5, <2>6, <3>2 DEF BaseShown
    <3> QED
      BY <3>1, <3>2
  <2> QED
    BY <1>3, <2>6, <2>7
<1> QED
  BY <1>7, <1>8

\* Of the mounts over a path there is one last.
LEMMA TopmostIs ==
  ASSUME LayerCount \in Nat, TypeInv, FoldInv, pc = "done",
         NEW C, C \subseteq MountsWritten, NEW top, Topmost(top, C)
  PROVE  (CHOOSE m \in C : \A o \in C : o = m \/ Later(m, o)) = top
<1> DEFINE it == CHOOSE m \in C : \A o \in C : o = m \/ Later(m, o)
<1>1. it \in C /\ \A o \in C : o = it \/ Later(it, o)
  BY DEF Topmost
<1> HIDE DEF it
<1>2. top \in C /\ (it = top \/ Later(top, it))
  BY <1>1 DEF Topmost
<1>3. top = it \/ Later(it, top)
  BY <1>1, <1>2
<1>4. \A m \in MountsWritten : m[1] \in Nat /\ m[2] \in Nat
  <2> SUFFICES ASSUME NEW m \in MountsWritten
               PROVE  m[1] \in Nat /\ m[2] \in Nat
    OBVIOUS
  <2>1. PICK k \in Layers : \E i \in DOMAIN Wrote(k).mounts : m = <<k, i>>
    BY WrittenIs
  <2>2. PICK i \in DOMAIN Wrote(k).mounts : m = <<k, i>>
    BY <2>1
  <2>3. Wrote(k).mounts \in Seq(MountDecl)
    BY LayerIsWritten DEF IsDecl, IsMountDecls
  <2>4. k \in Nat /\ i \in Nat
    BY <2>3, LenProperties DEF Layers
  <2> QED
    BY <2>2, <2>4
<1>5. it[1] \in Nat /\ it[2] \in Nat /\ top[1] \in Nat /\ top[2] \in Nat
  BY <1>1, <1>2, <1>4
<1>6. ~(Later(top, it) /\ Later(it, top))
  BY <1>5 DEF Later
<1> QED
  BY <1>2, <1>3, <1>6 DEF it

LEMMA BundleTyped == BundlePath \in Path /\ BundleFile \in Path
<1>1. "tmp" \in Word /\ "bundle" \in Word /\ "hostbundle" \in Word
  BY WordAssumption
<1> QED
  BY <1>1, TwoPath DEF BundlePath, BundleFile

LEMMA ViewDone ==
  ASSUME TypeInv, FoldInv
  PROVE  ViewAsDeclared
<1> SUFFICES ASSUME pc = "done", NEW path \in Probes
             PROVE  Sees(BwrapMounts(Bwrap(<<"sh">>)), path) = Promised(path)
  BY DEF ViewAsDeclared
<1>1. path \in Path
  BY CommandsAssumption
<1>2. BwrapMounts(Bwrap(<<"sh">>)) = result.mounts
  <2> DEFINE dir == IF host.cwd = None THEN <<>> ELSE host.cwd
             tokens == <<"sh">>
  <2>1. IsProfile(result) /\ IsFiniteSet(DOMAIN result.vars)
    BY ResultVarsFinite DEF TypeInv, Results
  <2>2. dir \in Path
    BY DoneChain, EmptySeq DEF IsHost, Option, Path
  <2>3. tokens \in Seq(Token(result))
    <3>1. "sh" \in Token(result)
      BY DEF Token, FlagWords
    <3> QED
      BY <3>1
  <2>4. Bwrap(tokens) = BwrapArgv(result, dir, tokens)
    BY DEF Bwrap
  <2> HIDE DEF dir, tokens
  <2>5. BwrapMounts(Bwrap(tokens)) = result.mounts
    BY <2>1, <2>2, <2>3, <2>4, BwrapGives
  <2> QED
    BY <2>5 DEF tokens
<1> DEFINE base == MountsBase(Merged.readonly, host)
           ours == Merged.mounts
           bundle == IF command = "run" THEN ProxyProfile.mounts ELSE <<>>
           C == CoveringUpTo(LayerCount, path)
<1>3. result.mounts = (base \o ours) \o bundle
  BY DoneResult
<1>4. base \in Seq(Mount) /\ Sees(base, path) = BaseShown(path)
  BY <1>1, BaseShows
<1>5. /\ ours \in Seq(Mount)
      /\ (Covers(ours, path) = {}) <=> (C = {})
      /\ C # {} => \E top \in C : Topmost(top, C) /\ Sees(ours, path) = ShownOf(top, path)
  <2>1. ours = Joined(chain, LayerCount, "mounts")
    BY DEF Merged, FoldOf
  <2>2. ShowsLast(LayerCount, path)
    BY ShowsAll
  <2> HIDE DEF ours
  <2> QED
    BY <2>1, <2>2 DEF ShowsLast
<1>6. C = {m \in MountsWritten : Under(path, Place(m))}
  <2>1. ASSUME NEW m \in MountsWritten
        PROVE  m[1] <= LayerCount
    <3>1. PICK k \in Layers : \E i \in DOMAIN Wrote(k).mounts : m = <<k, i>>
      BY WrittenIs
    <3> QED
      BY <3>1, DoneChain DEF Layers
  <2> QED
    BY <2>1 DEF CoveringUpTo
<1> DEFINE top == CHOOSE m \in C : \A o \in C : o = m \/ Later(m, o)
<1>7. Promised(path) =
        IF command = "run" /\ Under(path, BundlePath)
          THEN Shown("mount", BundleFile \o Below(path, BundlePath), "ro")
        ELSE IF C # {} THEN ShownOf(top, path)
        ELSE BaseShown(path)
  <2> DEFINE D == {m \in MountsWritten : Under(path, Place(m))}
             topD == CHOOSE m \in D : \A o \in D : o = m \/ Later(m, o)
  <2>1. Promised(path) =
          IF command = "run" /\ Under(path, BundlePath)
            THEN Shown("mount", BundleFile \o Below(path, BundlePath), "ro")
          ELSE IF D # {} THEN ShownOf(topD, path)
          ELSE BaseShown(path)
    BY Zenon DEF Promised, ShownOf, AccessOf, BaseShown
  <2>2. C = D
    BY <1>6
  <2> HIDE DEF C, D
  <2>3. topD = top
    BY <2>2
  <2> HIDE DEF topD, top
  <2> QED
    BY <2>1, <2>2, <2>3
<1>8. C # {} => Sees(ours, path) = ShownOf(top, path)
  <2>1. ASSUME C # {}
        PROVE  Sees(ours, path) = ShownOf(top, path)
    <3>1. PICK m \in C : Topmost(m, C) /\ Sees(ours, path) = ShownOf(m, path)
      BY <1>5, <2>1
    <3>2. C \subseteq MountsWritten /\ LayerCount \in Nat
      BY <1>6, DoneChain
    <3>3. top = m
      BY <3>1, <3>2, TopmostIs
    <3> QED
      BY <3>1, <3>3
  <2> QED
    BY <2>1
<1> HIDE DEF top, base, ours, C
<1>9. /\ base \o ours \in Seq(Mount)
      /\ Sees(base \o ours, path) = IF C # {} THEN ShownOf(top, path)
                                              ELSE BaseShown(path)
  <2>1. /\ base \o ours \in Seq(Mount)
        /\ Sees(base \o ours, path) =
             IF Covers(ours, path) = {} THEN Sees(base, path) ELSE Sees(ours, path)
    BY <1>4, <1>5, SeesConcat
  <2> QED
    BY <1>4, <1>5, <1>8, <2>1
<1>10. CASE command # "run"
  <2>1. result.mounts = base \o ours
    BY <1>3, <1>9, <1>10, ConcatEmptySeq
  <2> QED
    BY <1>2, <1>7, <1>9, <1>10, <2>1
<1>11. CASE command = "run"
  <2> DEFINE m == Bind(BundlePath, BundleFile, "ro")
             both == base \o ours
  <2>1. bundle = <<m>>
    BY <1>11 DEF ProxyProfile
  <2>2. BundlePath \in Path /\ BundleFile \in Path
    BY WordAssumption, BundleTyped
  <2>3. m \in Mount /\ m.sandbox = BundlePath
          /\ ShownBy(m, path) = Shown("mount", BundleFile \o Below(path, BundlePath), "ro")
    BY <2>2, BindIsMount DEF Bind, ShownBy, Access
  <2> HIDE DEF m
  <2>4. /\ <<m>> \in Seq(Mount)
        /\ (Covers(<<m>>, path) = {}) <=> ~Under(path, BundlePath)
        /\ Under(path, BundlePath) =>
             Sees(<<m>>, path) =
               Shown("mount", BundleFile \o Below(path, BundlePath), "ro")
    BY <2>3, SeesOne
  <2> HIDE DEF bundle
  <2>5. /\ bundle \in Seq(Mount)
        /\ (Covers(bundle, path) = {}) <=> ~Under(path, BundlePath)
        /\ Under(path, BundlePath) =>
             Sees(bundle, path) =
               Shown("mount", BundleFile \o Below(path, BundlePath), "ro")
    BY <2>1, <2>4
  <2>6. both \in Seq(Mount) /\ result.mounts = both \o bundle
    BY <1>3, <1>9
  <2>7. Sees(both, path) = IF C # {} THEN ShownOf(top, path) ELSE BaseShown(path)
    BY <1>9
  <2> HIDE DEF both
  <2>8. Sees(both \o bundle, path) =
          IF Covers(bundle, path) = {} THEN Sees(both, path) ELSE Sees(bundle, path)
    BY <2>5, <2>6, SeesConcat
  <2>9. CASE Under(path, BundlePath)
    BY <1>2, <1>7, <1>11, <2>5, <2>6, <2>8, <2>9
  <2>10. CASE ~Under(path, BundlePath)
    BY <1>2, <1>7, <2>5, <2>6, <2>7, <2>8, <2>10
  <2> QED
    BY <2>9, <2>10
<1> QED
  BY <1>10, <1>11

\* Wherever the command looks, it sees the bundle, else the last mount declared
\* over the path, else the project, a blank home or the system's baseline,
\* however many layers mount however much over each other.
THEOREM ViewAlwaysAsDeclared == Spec => []ViewAsDeclared
  BY FoldIsClosedForm, ViewDone, PTL
=============================================================================
