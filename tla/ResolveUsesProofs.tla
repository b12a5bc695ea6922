------------------------- MODULE ResolveUsesProofs -------------------------
(***************************************************************************)
(* Proofs about the walk of ResolveUses, for every set of names, every     *)
(* configuration and every request.                                        *)
(*                                                                         *)
(* The heart of the invariant is a division of the names entered: each is  *)
(* either an active call or already in `order`, never both.  What a call   *)
(* has gone through of its list is then in `order`, or is the call it is   *)
(* waiting for; and of the places gone through no two name the same        *)
(* profile.                                                                *)
(***************************************************************************)
EXTENDS ResolveUses, FiniteSetTheorems, TLAPS

Depth == Len(stack)

\* The names whose lists the walk has begun.
Entered == {Cli} \cup seen

\* Every variable in its type, the calls' loop indices within their lists.
Typed ==
  /\ TypeOK
  /\ \A c \in Entered : next[c] <= Len(Uses(c)) + 1
  /\ \A c \in Caller \ Entered : next[c] = 1

\* The active calls are distinct; the outermost is the command line's.
Calls ==
  /\ Depth \in Nat \ {0}
  /\ stack[1] = Cli
  /\ \A k \in 2 .. Depth : stack[k] \in seen
  /\ \A k, l \in 1 .. Depth : stack[k] = stack[l] => k = l

\* A name entered is in `order` or an active call, and not both.
Division ==
  /\ Range(order) \subseteq seen
  /\ \A n \in seen : n \in Range(order) \/ \E k \in 2 .. Depth : stack[k] = n
  /\ \A k \in 1 .. Depth : stack[k] \notin Range(order)

\* What an active call has gone through is done, or is the call it waits for.
GoneThrough ==
  \A k \in 1 .. Depth : \A i \in 1 .. next[stack[k]] - 1 :
    \/ Uses(stack[k])[i] \in Range(order)
    \/ k < Depth /\ Uses(stack[k])[i] = stack[k + 1]

\* A profile in `order` has gone through its list.
Completed == \A n \in Range(order) : next[n] = Len(Uses(n)) + 1

\* Every name entered was named in a place gone through, ...
Named ==
  \A n \in seen : \E c \in Entered : \E i \in 1 .. next[c] - 1 : Uses(c)[i] = n

\* ... every place gone through names a name entered, ...
NamesEntered ==
  \A c \in Entered : \A i \in 1 .. next[c] - 1 : Uses(c)[i] \in seen

\* ... and no two of them name the same.
NamedOnce ==
  \A c, d \in Entered : \A i \in 1 .. next[c] - 1, j \in 1 .. next[d] - 1 :
    Uses(c)[i] = Uses(d)[j] => c = d /\ i = j

\* A walk that succeeded has gone through the command line's list.
Finished ==
  outcome = Ok => Depth = 1 /\ next[Cli] = Len(requested) + 1

IInv ==
  /\ Typed
  /\ Calls
  /\ Division
  /\ DepsFirst
  /\ GoneThrough
  /\ Completed
  /\ Named
  /\ NamesEntered
  /\ NamedOnce
  /\ seen \subseteq Reach(Cli)
  /\ Finished
  /\ RefusedForCause

-----------------------------------------------------------------------------
(* What the types say of the lists.                                        *)

\* The lists are sequences of names.
LEMMA UsesTyped ==
  ASSUME TypeOK
  PROVE  /\ Defined \subseteq Name
         /\ requested \in Seq(Name)
         /\ \A n \in Defined : config[n] \in Seq(Name)
         /\ \A c \in Defined \cup {Cli} : Uses(c) \in Seq(Name)
         /\ Cli \notin Defined
<1>1. config \in Configs /\ requested \in Requests
  BY DEF TypeOK
<1>2. Defined \subseteq Name /\ config \in [Defined -> Seq(Name)]
  BY <1>1, ConfigsAssumption DEF Defined
<1>3. requested \in Seq(Name)
  BY <1>1, RequestsAssumption
<1>4. Cli \notin Defined
  BY <1>2, NameAssumption
<1> QED
  BY <1>2, <1>3, <1>4 DEF Uses

\* The innermost call has a list, and its index is within it or just past.
LEMMA TopFacts ==
  ASSUME Typed, Calls
  PROVE  /\ Depth \in Nat \ {0}
         /\ Top = stack[Depth]
         /\ Top \in Entered
         /\ Top \in Caller
         /\ Top # Cli => Top \in seen /\ Depth > 1
         /\ Top = Cli => Depth = 1
         /\ Uses(Top) \in Seq(Name)
         /\ next[Top] \in Nat \ {0}
         /\ MoreToVisit => /\ next[Top] \in 1 .. Len(Uses(Top))
                           /\ next[Top] \in DOMAIN Uses(Top)
                           /\ Candidate \in Name
         /\ ~MoreToVisit => next[Top] = Len(Uses(Top)) + 1
<1>1. Depth \in Nat \ {0} /\ Top = stack[Depth]
  BY DEF Calls, Depth, Top
<1>2. Top \in Entered
  <2>1. CASE Depth = 1
    BY <1>1, <2>1 DEF Calls, Entered
  <2>2. CASE Depth # 1
    BY <1>1, <2>2 DEF Calls, Entered
  <2> QED
    BY <2>1, <2>2
<1>3. seen \subseteq Defined /\ next \in [Caller -> Nat \ {0}]
  BY DEF Typed, TypeOK
<1>4. Defined \subseteq Name /\ Cli \notin Defined
  BY UsesTyped DEF Typed
<1>5. Top \in Caller
  BY <1>2, <1>3, <1>4 DEF Entered, Caller
<1>6. Top # Cli => Top \in seen /\ Depth > 1
  BY <1>1, <1>2 DEF Calls, Entered
<1>7. Top = Cli => Depth = 1
  <2>1. Cli \notin seen
    BY <1>3, <1>4
  <2>2. Depth # 1 => stack[Depth] \in seen
    BY <1>1 DEF Calls
  <2> QED
    BY <1>1, <2>1, <2>2
<1>8. Uses(Top) \in Seq(Name)
  BY <1>2, <1>3, UsesTyped DEF Typed, Entered
<1>9. next[Top] \in Nat \ {0} /\ next[Top] <= Len(Uses(Top)) + 1
  BY <1>2, <1>3, <1>5 DEF Typed
<1>10. Len(Uses(Top)) \in Nat /\ DOMAIN Uses(Top) = 1 .. Len(Uses(Top))
  BY <1>8
<1>11. ASSUME MoreToVisit
       PROVE  /\ next[Top] \in 1 .. Len(Uses(Top))
              /\ next[Top] \in DOMAIN Uses(Top)
              /\ Candidate \in Name
  BY <1>8, <1>9, <1>10, <1>11 DEF MoreToVisit, Candidate
<1>12. ASSUME ~MoreToVisit
       PROVE  next[Top] = Len(Uses(Top)) + 1
  BY <1>9, <1>10, <1>12 DEF MoreToVisit
<1> QED
  BY <1>1, <1>2, <1>5, <1>6, <1>7, <1>8, <1>9, <1>11, <1>12

-----------------------------------------------------------------------------
(* What is reached.                                                        *)

\* What the request or a reached profile names is reached.
LEMMA ReachStep ==
  ASSUME TypeOK,
         NEW c \in Users,
         NEW i \in DOMAIN Uses(c)
  PROVE  Uses(c)[i] \in Reach(Cli)
<1>1. c \in Defined \cup {Cli}
  BY DEF Users
<1>2. Uses(c)[i] \in Name
  BY <1>1, UsesTyped
<1>3. ASSUME NEW S \in SUBSET Name, ClosedUnder(S, Cli)
      PROVE  Uses(c)[i] \in S
  <2>1. CASE c = Cli
    BY <1>3, <2>1 DEF ClosedUnder, Range
  <2>2. CASE c # Cli
    <3>1. c \in Reach(Cli) \cap Defined
      BY <2>2 DEF Users
    <3>2. c \in S
      BY <1>3, <3>1 DEF Reach
    <3>3. Range(config[c]) \subseteq S
      BY <1>3, <3>1, <3>2 DEF ClosedUnder
    <3>4. Uses(c) = config[c]
      BY <2>2 DEF Uses
    <3> QED
      BY <3>3, <3>4 DEF Range
  <2> QED
    BY <2>1, <2>2
<1> QED
  BY <1>2, <1>3 DEF Reach

\* What is reached is in every closed set.
LEMMA ReachLeast ==
  ASSUME NEW S \in SUBSET Name, ClosedUnder(S, Cli)
  PROVE  Reach(Cli) \subseteq S
  BY DEF Reach

\* The configuration and the request decide what is reached.
LEMMA ReachConstant ==
  ASSUME config' = config, requested' = requested
  PROVE  /\ Defined' = Defined
         /\ \A c : Uses(c)' = Uses(c)
         /\ Reach(Cli)' = Reach(Cli)
         /\ Users' = Users
         /\ \A n : Mentions(n)' = Mentions(n)
<1>1. Defined' = Defined
  BY DEF Defined
<1>2. \A c : Uses(c)' = Uses(c)
  BY DEF Uses
<1>3. Reach(Cli)' = Reach(Cli)
  BY <1>1 DEF Reach, ClosedUnder, Uses
<1>4. Users' = Users
  BY <1>1, <1>3 DEF Users
<1>5. \A n : Mentions(n)' = Mentions(n)
  BY <1>4 DEF Mentions, Uses
<1> QED
  BY <1>1, <1>2, <1>3, <1>4, <1>5

-----------------------------------------------------------------------------
(* The invariant.                                                          *)

\* The walk begins with nothing entered.
LEMMA InitInv == Init => IInv
<1> SUFFICES ASSUME Init
             PROVE  IInv
  OBVIOUS
<1>1. TypeOK
  <2>1. stack \in Seq(Caller) /\ order \in Seq(Defined)
    BY DEF Init, Caller
  <2>2. next \in [Caller -> Nat \ {0}]
    BY DEF Init
  <2>3. outcome = Walking
    BY DEF Init
  <2> QED
    BY <2>1, <2>2, <2>3 DEF Init, TypeOK
<1>2. Uses(Cli) \in Seq(Name)
  BY <1>1, UsesTyped
<1>3. Entered = {Cli} /\ next = [c \in Caller |-> 1] /\ Cli \in Caller
  BY DEF Entered, Init, Caller
<1>4. Typed
  BY <1>1, <1>2, <1>3 DEF Typed
<1>5. Depth = 1 /\ stack[1] = Cli
  BY DEF Init, Depth
<1>6. Calls
  BY <1>5 DEF Calls
<1>7. order = <<>> /\ Range(order) = {} /\ seen = {}
  BY DEF Init, Range
<1>8. Division /\ DepsFirst /\ Completed
  BY <1>7 DEF Division, DepsFirst, Completed
<1>9. next[Cli] = 1
  BY <1>3
<1>10. GoneThrough
  BY <1>5, <1>9 DEF GoneThrough
<1>11. Named /\ NamesEntered /\ NamedOnce
  BY <1>3, <1>7, <1>9 DEF Named, NamesEntered, NamedOnce
<1>12. Finished /\ RefusedForCause
  BY DEF Init, Finished, RefusedForCause, Walking, Ok, UnknownProfile,
         RepeatedProfile
<1> QED
  BY <1>4, <1>6, <1>7, <1>8, <1>10, <1>11, <1>12 DEF IInv

\* A step that only decides the outcome leaves the walk as it was.
LEMMA Decided ==
  ASSUME IInv,
         UNCHANGED <<config, requested, stack, next, seen, order>>,
         outcome' \in {Walking, Ok} \cup {UnknownProfile(n) : n \in Name}
                        \cup {RepeatedProfile(n) : n \in Name},
         Finished',
         RefusedForCause'
  PROVE  IInv'
<1>1. TypeOK'
  <2>1. config' \in Configs /\ requested' \in Requests
    BY DEF IInv, Typed, TypeOK
  <2>2. Defined' = Defined
    BY DEF Defined
  <2>3. stack' \in Seq(Caller) /\ next' \in [Caller -> Nat \ {0}]
    BY DEF IInv, Typed, TypeOK
  <2>4. seen' \subseteq Defined' /\ order' \in Seq(Defined')
    BY <2>2 DEF IInv, Typed, TypeOK
  <2> QED
    BY <2>1, <2>3, <2>4 DEF TypeOK, Walking, Ok, UnknownProfile,
                            RepeatedProfile, Caller
<1>2. /\ Entered' = Entered
      /\ \A c : Uses(c)' = Uses(c)
      /\ Reach(Cli)' = Reach(Cli)
      /\ Depth' = Depth
      /\ Range(order)' = Range(order)
  BY ReachConstant DEF Entered, Depth, Range
<1>3. Typed'
  BY <1>1, <1>2 DEF IInv, Typed, Caller
<1>4. Calls' /\ Division'
  BY <1>2 DEF IInv, Calls, Division
<1>5. DepsFirst'
  BY DEF IInv, DepsFirst, Range
<1>6. GoneThrough' /\ Completed'
  BY <1>2 DEF IInv, GoneThrough, Completed
<1>7. Named' /\ NamesEntered' /\ NamedOnce'
  BY <1>2 DEF IInv, Named, NamesEntered, NamedOnce
<1>8. (seen \subseteq Reach(Cli))'
  BY <1>2 DEF IInv
<1> QED
  BY <1>3, <1>4, <1>5, <1>6, <1>7, <1>8 DEF IInv

\* The names entered are users, whose lists count.
LEMMA EnteredAreUsers ==
  ASSUME IInv
  PROVE  Entered \subseteq Users
  BY DEF IInv, Typed, TypeOK, Entered, Users

\* The entry considered is a mention of the candidate, and it is reached.
LEMMA CandidateMentioned ==
  ASSUME IInv, MoreToVisit
  PROVE  /\ Candidate \in Reach(Cli)
         /\ <<Top, next[Top]>> \in Mentions(Candidate)
<1>1. TypeOK /\ Typed /\ Calls
  BY DEF IInv, Typed
<1>2. Top \in Users
  BY <1>1, TopFacts, EnteredAreUsers
<1>3. next[Top] \in DOMAIN Uses(Top)
  BY <1>1, TopFacts
<1>4. Candidate \in Reach(Cli)
  BY <1>1, <1>2, <1>3, ReachStep DEF Candidate
<1>5. <<Top, next[Top]>> \in Mentions(Candidate)
  BY <1>2, <1>3 DEF Mentions, Candidate
<1> QED
  BY <1>4, <1>5

\* A missing profile ends the walk, and it is reached.
LEMMA StepFailUnknown == IInv /\ FailUnknown => IInv'
<1> SUFFICES ASSUME IInv, FailUnknown
             PROVE  IInv'
  OBVIOUS
<1>1. Typed /\ Calls /\ MoreToVisit /\ Candidate \notin Defined
  BY DEF IInv, FailUnknown
<1>2. Candidate \in Name
  BY <1>1, TopFacts
<1>3. UNCHANGED <<config, requested, stack, next, seen, order>>
  BY DEF FailUnknown
<1>4. outcome' = UnknownProfile(Candidate)
  BY DEF FailUnknown
<1>5. Finished'
  BY <1>4 DEF Finished, Ok, UnknownProfile
<1>6. Reach(Cli)' = Reach(Cli) /\ Defined' = Defined
  BY <1>3, ReachConstant
<1>7. ASSUME NEW n \in Name, outcome' = UnknownProfile(n)
      PROVE  n \in Reach(Cli) \ Defined
  <2>1. n = Candidate
    BY <1>4, <1>7 DEF UnknownProfile
  <2> QED
    BY <1>1, <2>1, CandidateMentioned
<1>8. \A n \in Name : outcome' # RepeatedProfile(n)
  BY <1>4 DEF UnknownProfile, RepeatedProfile
<1>9. RefusedForCause'
  BY <1>6, <1>7, <1>8 DEF RefusedForCause, UnknownProfile, RepeatedProfile
<1> QED
  BY <1>2, <1>3, <1>4, <1>5, <1>9, Decided

\* A name already entered ends the walk: it has a place that was gone through
\* and the place considered now, which are two.
LEMMA StepFailRepeated == IInv /\ FailRepeated => IInv'
<1> SUFFICES ASSUME IInv, FailRepeated
             PROVE  IInv'
  OBVIOUS
<1>1. Typed /\ TypeOK /\ Calls /\ MoreToVisit
  BY DEF IInv, Typed, FailRepeated
<1>2. Candidate \in Name /\ Candidate \in Defined /\ Candidate \in seen
  BY <1>1, TopFacts DEF FailRepeated
<1>3. UNCHANGED <<config, requested, stack, next, seen, order>>
  BY DEF FailRepeated
<1>4. outcome' = RepeatedProfile(Candidate)
  BY DEF FailRepeated
<1>5. Finished'
  BY <1>4 DEF Finished, Ok, RepeatedProfile
<1>6. /\ Reach(Cli)' = Reach(Cli)
      /\ Defined' = Defined
      /\ \A n : Mentions(n)' = Mentions(n)
  BY <1>3, ReachConstant
<1>7. PICK c \in Entered : \E i \in 1 .. next[c] - 1 : Uses(c)[i] = Candidate
  BY <1>2 DEF IInv, Named
<1>8. PICK i \in 1 .. next[c] - 1 : Uses(c)[i] = Candidate
  BY <1>7
<1>9. c \in Users /\ c \in Caller /\ Uses(c) \in Seq(Name)
  <2>1. c \in Users
    BY EnteredAreUsers
  <2>2. c \in Defined \cup {Cli}
    BY <2>1 DEF Users
  <2> QED
    BY <1>1, <2>1, <2>2, UsesTyped DEF Caller
<1>10. next[c] \in Nat /\ next[c] <= Len(Uses(c)) + 1
  BY <1>1, <1>9 DEF Typed, TypeOK
<1>11. i \in DOMAIN Uses(c) /\ i # next[c]
  BY <1>8, <1>9, <1>10
<1>12. <<c, i>> \in Mentions(Candidate)
  BY <1>8, <1>9, <1>11 DEF Mentions
<1>13. <<Top, next[Top]>> \in Mentions(Candidate) /\ Candidate \in Reach(Cli)
  BY <1>1, CandidateMentioned
<1>14. <<c, i>> # <<Top, next[Top]>>
  BY <1>11
<1>15. ASSUME NEW n \in Name, outcome' = RepeatedProfile(n)
       PROVE  /\ n \in Reach(Cli) \cap Defined
              /\ \E l, m \in Mentions(n) : l # m
  <2>1. n = Candidate
    BY <1>4, <1>15 DEF RepeatedProfile
  <2> QED
    BY <1>2, <1>12, <1>13, <1>14, <2>1
<1>16. \A n \in Name : outcome' # UnknownProfile(n)
  BY <1>4 DEF UnknownProfile, RepeatedProfile
<1>17. RefusedForCause'
  BY <1>6, <1>15, <1>16 DEF RefusedForCause, UnknownProfile, RepeatedProfile
<1> QED
  BY <1>2, <1>3, <1>4, <1>5, <1>17, Decided

\* The outermost loop ends with the one call left.
LEMMA StepFinish == IInv /\ Finish => IInv'
<1> SUFFICES ASSUME IInv, Finish
             PROVE  IInv'
  OBVIOUS
<1>1. Typed /\ Calls /\ ~MoreToVisit /\ Top = Cli
  BY DEF IInv, Finish
<1>2. UNCHANGED <<config, requested, stack, next, seen, order>>
  BY DEF Finish
<1>3. outcome' = Ok
  BY DEF Finish
<1>4. Depth = 1 /\ next[Cli] = Len(requested) + 1
  BY <1>1, TopFacts DEF Uses
<1>5. Finished'
  BY <1>2, <1>4 DEF Finished, Depth
<1>6. RefusedForCause'
  BY <1>3 DEF RefusedForCause, Ok, UnknownProfile, RepeatedProfile
<1> QED
  BY <1>2, <1>3, <1>5, <1>6, Decided

\* `order` alone decides whether it is in order.
LEMMA DepsFirstStays ==
  ASSUME DepsFirst, config' = config, order' = order
  PROVE  DepsFirst'
  BY DEF DepsFirst, Range

\* A call for a name not yet entered: the name joins the active calls, and
\* its place the places gone through.
LEMMA StepDescend == IInv /\ Descend => IInv'
<1> SUFFICES ASSUME IInv, Descend
             PROVE  IInv'
  OBVIOUS
<1> DEFINE t == Top
           u == Candidate
<1>1. Typed /\ TypeOK /\ Calls /\ MoreToVisit
  BY DEF IInv, Typed, Descend
<1>2. /\ Depth \in Nat \ {0}
      /\ t = stack[Depth]
      /\ t \in Entered
      /\ t \in Caller
      /\ Uses(t) \in Seq(Name)
      /\ next[t] \in Nat \ {0}
      /\ next[t] \in 1 .. Len(Uses(t))
      /\ u \in Name
  BY <1>1, TopFacts
<1>3. u \in Defined /\ u \notin seen /\ u = Uses(t)[next[t]]
  BY DEF Descend, Candidate
<1>4. /\ UNCHANGED <<config, requested, order>>
      /\ seen' = seen \cup {u}
      /\ next' = [next EXCEPT ![t] = @ + 1]
      /\ stack' = Append(stack, u)
      /\ outcome = Walking /\ outcome' = Walking
  BY DEF Descend, InProgress
<1>5. /\ Defined' = Defined
      /\ \A c : Uses(c)' = Uses(c)
      /\ Reach(Cli)' = Reach(Cli)
  BY <1>4, ReachConstant
<1>6. /\ stack \in Seq(Caller) /\ next \in [Caller -> Nat \ {0}]
      /\ seen \subseteq Defined /\ Defined \subseteq Name /\ Cli \notin Defined
  BY <1>1, UsesTyped DEF TypeOK
<1>7. u \in Caller /\ u # Cli /\ u \notin Entered /\ u # t
  BY <1>2, <1>3, <1>6 DEF Caller, Entered
<1>8. /\ Depth' = Depth + 1
      /\ \A k \in 1 .. Depth : stack'[k] = stack[k]
      /\ stack'[Depth + 1] = u
      /\ stack' \in Seq(Caller)
  BY <1>4, <1>6, <1>7 DEF Depth
<1>9. /\ next' \in [Caller -> Nat \ {0}]
      /\ next'[t] = next[t] + 1
      /\ \A c \in Caller \ {t} : next'[c] = next[c]
  BY <1>2, <1>4, <1>6
<1>10. next[u] = 1 /\ next'[u] = 1
  BY <1>1, <1>7, <1>9 DEF Typed
<1>11. Entered' = Entered \cup {u} /\ Entered \subseteq Caller
  BY <1>4, <1>6 DEF Entered, Caller
<1>12. Range(order)' = Range(order)
  BY <1>4 DEF Range
<1>13. Typed'
  <2>1. TypeOK'
    <3>1. seen' \subseteq Defined'
      BY <1>3, <1>4, <1>5, <1>6
    <3>2. order' \in Seq(Defined')
      BY <1>1, <1>4, <1>5 DEF TypeOK
    <3>3. config' \in Configs /\ requested' \in Requests
      BY <1>1, <1>4 DEF TypeOK
    <3> QED
      BY <1>4, <1>8, <1>9, <3>1, <3>2, <3>3 DEF TypeOK, Caller, Walking
  <2>2. ASSUME NEW c \in Entered'
        PROVE  next'[c] <= Len(Uses(c)') + 1
    <3>1. CASE c = t
      BY <1>2, <1>5, <1>9, <3>1
    <3>2. CASE c = u
      <4>1. Uses(u) \in Seq(Name)
        BY <1>1, <1>3, UsesTyped
      <4> QED
        BY <1>5, <1>10, <3>2, <4>1
    <3>3. CASE c # t /\ c # u
      <4>1. c \in Entered /\ next'[c] = next[c]
        BY <1>9, <1>11, <3>3
      <4> QED
        BY <1>1, <1>5, <4>1 DEF Typed
    <3> QED
      BY <3>1, <3>2, <3>3
  <2>3. ASSUME NEW c \in Caller \ Entered'
        PROVE  next'[c] = 1
    BY <1>1, <1>2, <1>9, <1>11 DEF Typed
  <2> QED
    BY <2>1, <2>2, <2>3 DEF Typed, Caller
<1>14. Calls'
  <2>1. Depth' \in Nat \ {0} /\ stack'[1] = Cli
    BY <1>1, <1>2, <1>8 DEF Calls
  <2>2. ASSUME NEW k \in 2 .. Depth'
        PROVE  stack'[k] \in seen'
    <3>1. CASE k = Depth + 1
      BY <1>4, <1>8, <3>1
    <3>2. CASE k # Depth + 1
      <4>1. k \in 2 .. Depth /\ k \in 1 .. Depth
        BY <1>2, <1>8, <3>2
      <4>2. stack'[k] = stack[k] /\ stack[k] \in seen
        BY <1>1, <1>8, <4>1 DEF Calls
      <4> QED
        BY <1>4, <4>2
    <3> QED
      BY <3>1, <3>2
  <2>3. ASSUME NEW k \in 1 .. Depth
        PROVE  stack[k] # u
    <3>1. stack[k] \in Entered
      BY <1>1 DEF Calls, Entered
    <3> QED
      BY <1>7, <3>1
  <2>4. ASSUME NEW k \in 1 .. Depth', NEW l \in 1 .. Depth',
               stack'[k] = stack'[l]
        PROVE  k = l
    BY <1>1, <1>2, <1>8, <2>3, <2>4 DEF Calls
  <2> QED
    BY <2>1, <2>2, <2>4 DEF Calls
<1>15. Division'
  <2>1. Division
    BY DEF IInv
  <2>2. Range(order)' \subseteq seen'
    BY <1>4, <1>12, <2>1 DEF Division
  <2>3. ASSUME NEW n \in seen', n \notin Range(order)
        PROVE  \E k \in 2 .. Depth' : stack'[k] = n
    <3>1. CASE n = u
      <4>1. Depth + 1 \in 2 .. Depth'
        BY <1>2, <1>8
      <4> QED
        BY <1>8, <3>1, <4>1
    <3>2. CASE n # u
      <4>1. PICK k \in 2 .. Depth : stack[k] = n
        BY <1>4, <2>1, <2>3, <3>2 DEF Division
      <4>2. k \in 2 .. Depth' /\ stack'[k] = n
        BY <1>2, <1>8, <4>1
      <4> QED
        BY <4>2
    <3> QED
      BY <3>1, <3>2
  <2>4. ASSUME NEW k \in 1 .. Depth'
        PROVE  stack'[k] \notin Range(order)
    BY <1>2, <1>3, <1>8, <2>1 DEF Division
  <2> QED
    BY <1>12, <2>2, <2>3, <2>4 DEF Division
<1>16. DepsFirst'
  BY <1>4, DepsFirstStays DEF IInv
<1>17. GoneThrough'
  <2>1. SUFFICES ASSUME NEW k \in 1 .. Depth',
                        NEW i \in 1 .. next'[stack'[k]] - 1
                 PROVE  \/ Uses(stack'[k])[i] \in Range(order)
                        \/ k < Depth' /\ Uses(stack'[k])[i] = stack'[k + 1]
    BY <1>5, <1>12 DEF GoneThrough
  <2>2. CASE k = Depth + 1
    BY <1>8, <1>10, <2>2
  <2>3. CASE k = Depth
    <3>1. stack'[k] = t /\ stack'[k + 1] = u /\ k < Depth'
      BY <1>2, <1>8, <2>3
    <3>2. i \in 1 .. next[t]
      BY <1>2, <1>9, <3>1
    <3>3. CASE i = next[t]
      BY <1>3, <3>1, <3>3
    <3>4. CASE i # next[t]
      <4>1. i \in 1 .. next[t] - 1
        BY <1>2, <3>2, <3>4
      <4>2. k \in 1 .. Depth /\ ~(k < Depth)
        BY <1>2, <2>3
      <4>3. i \in 1 .. next[stack[k]] - 1
        BY <1>2, <2>3, <4>1
      <4>4. Uses(stack[k])[i] \in Range(order)
        BY <4>2, <4>3 DEF IInv, GoneThrough
      <4> QED
        BY <1>2, <2>3, <3>1, <4>4
    <3> QED
      BY <3>3, <3>4
  <2>4. CASE k # Depth /\ k # Depth + 1
    <3>1. k \in 1 .. Depth /\ k + 1 \in 1 .. Depth /\ k < Depth' /\ k < Depth
      BY <1>2, <1>8, <2>4
    <3>2. stack'[k] = stack[k] /\ stack'[k + 1] = stack[k + 1]
      BY <1>8, <3>1
    <3>3. stack[k] # t /\ stack[k] \in Caller
      BY <1>1, <1>2, <1>6, <2>4, <3>1 DEF Calls, Depth
    <3>4. i \in 1 .. next[stack[k]] - 1
      BY <1>9, <3>2, <3>3
    <3>5. \/ Uses(stack[k])[i] \in Range(order)
          \/ Uses(stack[k])[i] = stack[k + 1]
      BY <3>1, <3>4 DEF IInv, GoneThrough
    <3> QED
      BY <3>1, <3>2, <3>5
  <2> QED
    BY <1>2, <1>8, <2>2, <2>3, <2>4
<1>18. Completed'
  <2>1. ASSUME NEW n \in Range(order)
        PROVE  next'[n] = Len(Uses(n)) + 1
    <3>1. n \in seen /\ n # t
      BY <1>2 DEF IInv, Division
    <3>2. n \in Caller /\ next'[n] = next[n]
      BY <1>6, <1>9, <3>1 DEF Caller
    <3> QED
      BY <3>2 DEF IInv, Completed
  <2> QED
    BY <1>5, <1>12, <2>1 DEF Completed
<1>19. ASSUME NEW c \in Entered', NEW i \in 1 .. next'[c] - 1
       PROVE  \/ c = t /\ i = next[t] /\ Uses(c)[i] = u
              \/ c \in Entered /\ i \in 1 .. next[c] - 1
  <2>1. CASE c = t
    BY <1>2, <1>3, <1>9, <2>1
  <2>2. CASE c = u
    BY <1>10, <2>2
  <2>3. CASE c # t /\ c # u
    BY <1>9, <1>11, <2>3
  <2> QED
    BY <2>1, <2>2, <2>3
<1>20. \A c \in Entered : c \in Entered' /\ next'[c] \in {next[c], next[c] + 1}
  BY <1>2, <1>9, <1>11
<1>21. Named'
  <2>1. ASSUME NEW n \in seen'
        PROVE  \E c \in Entered' : \E i \in 1 .. next'[c] - 1 : Uses(c)[i] = n
    <3>1. CASE n = u
      <4>1. t \in Entered' /\ next[t] \in 1 .. next'[t] - 1
        BY <1>2, <1>9, <1>11
      <4> QED
        BY <1>3, <3>1, <4>1
    <3>2. CASE n # u
      <4>1. PICK c \in Entered : \E i \in 1 .. next[c] - 1 : Uses(c)[i] = n
        BY <1>4, <3>2 DEF IInv, Named
      <4>2. PICK i \in 1 .. next[c] - 1 : Uses(c)[i] = n
        BY <4>1
      <4>3. next[c] \in Nat
        BY <1>6, <1>11
      <4>4. i \in 1 .. next'[c] - 1
        BY <1>20, <4>3
      <4> QED
        BY <1>20, <4>2, <4>4
    <3> QED
      BY <3>1, <3>2
  <2> QED
    BY <1>5, <2>1 DEF Named
<1>22. NamesEntered'
  <2>1. ASSUME NEW c \in Entered', NEW i \in 1 .. next'[c] - 1
        PROVE  Uses(c)[i] \in seen'
    BY <1>4, <1>19 DEF IInv, NamesEntered
  <2> QED
    BY <1>5, <2>1 DEF NamesEntered
<1>23. NamedOnce'
  <2>1. ASSUME NEW c \in Entered', NEW i \in 1 .. next'[c] - 1,
               NEW d \in Entered', NEW j \in 1 .. next'[d] - 1,
               Uses(c)[i] = Uses(d)[j]
        PROVE  c = d /\ i = j
    <3>1. CASE Uses(c)[i] = u
      <4>1. ASSUME NEW e \in Entered, NEW k \in 1 .. next[e] - 1
            PROVE  Uses(e)[k] # u
        BY <1>3 DEF IInv, NamesEntered
      <4>2. c = t /\ i = next[t]
        BY <1>19, <3>1, <4>1
      <4>3. d = t /\ j = next[t]
        BY <1>19, <2>1, <3>1, <4>1
      <4> QED
        BY <4>2, <4>3
    <3>2. CASE Uses(c)[i] # u
      <4>1. c \in Entered /\ i \in 1 .. next[c] - 1
        BY <1>19, <3>2
      <4>2. d \in Entered /\ j \in 1 .. next[d] - 1
        BY <1>19, <2>1, <3>2
      <4> QED
        BY <2>1, <4>1, <4>2 DEF IInv, NamedOnce
    <3> QED
      BY <3>1, <3>2
  <2> QED
    BY <1>5, <2>1 DEF NamedOnce
<1>24. (seen \subseteq Reach(Cli))'
  BY <1>1, <1>4, <1>5, CandidateMentioned DEF IInv
<1>25. Finished' /\ RefusedForCause'
  BY <1>4 DEF Finished, RefusedForCause, Walking, Ok, UnknownProfile,
              RepeatedProfile
<1> QED
  BY <1>13, <1>14, <1>15, <1>16, <1>17, <1>18, <1>21, <1>22, <1>23, <1>24,
     <1>25 DEF IInv

\* The innermost call passes from the active calls to `order`, after all it
\* has gone through.
LEMMA StepReturn == IInv /\ Return => IInv'
<1> SUFFICES ASSUME IInv, Return
             PROVE  IInv'
  OBVIOUS
<1> DEFINE t == Top
<1>1. Typed /\ TypeOK /\ Calls /\ Division /\ ~MoreToVisit /\ t # Cli
  BY DEF IInv, Typed, Return
<1>2. /\ Depth \in Nat \ {0} /\ Depth > 1
      /\ t = stack[Depth]
      /\ t \in seen
      /\ Uses(t) \in Seq(Name)
      /\ next[t] = Len(Uses(t)) + 1
  BY <1>1, TopFacts
<1>3. /\ UNCHANGED <<config, requested, next, seen>>
      /\ order' = Append(order, t)
      /\ stack' = SubSeq(stack, 1, Len(stack) - 1)
      /\ outcome = Walking /\ outcome' = Walking
  BY DEF Return, InProgress, Popped
<1>4. /\ Defined' = Defined
      /\ \A c : Uses(c)' = Uses(c)
      /\ Reach(Cli)' = Reach(Cli)
      /\ Entered' = Entered
  BY <1>3, ReachConstant DEF Entered
<1>5. /\ stack \in Seq(Caller) /\ next \in [Caller -> Nat \ {0}]
      /\ order \in Seq(Defined)
      /\ seen \subseteq Defined /\ Defined \subseteq Name /\ Cli \notin Defined
  BY <1>1, UsesTyped DEF TypeOK
<1>6. /\ Depth' = Depth - 1
      /\ \A k \in 1 .. Depth' : k \in 1 .. Depth /\ stack'[k] = stack[k]
      /\ stack' \in Seq(Caller)
  <2>1. Len(stack) = Depth
    BY DEF Depth
  <2> QED
    BY <1>2, <1>3, <1>5, <2>1 DEF Depth
<1>7. /\ order' \in Seq(Defined)
      /\ Len(order) \in Nat
      /\ DOMAIN order = 1 .. Len(order)
      /\ DOMAIN order' = 1 .. Len(order) + 1
      /\ \A p \in 1 .. Len(order) : order'[p] = order[p]
      /\ order'[Len(order) + 1] = t
  BY <1>2, <1>3, <1>5
<1>8. Range(order)' = Range(order) \cup {t}
  <2>1. ASSUME NEW n \in Range(order')
        PROVE  n \in Range(order) \cup {t}
    BY <1>7, <2>1 DEF Range
  <2>2. ASSUME NEW n \in Range(order)
        PROVE  n \in Range(order')
    BY <1>7, <2>2 DEF Range
  <2>3. t \in Range(order')
    BY <1>7 DEF Range
  <2> QED
    BY <2>1, <2>2, <2>3
<1>9. t \notin Range(order)
  BY <1>1, <1>2 DEF Division
<1>10. ASSUME NEW i \in DOMAIN Uses(t)
       PROVE  Uses(t)[i] \in Range(order)
  <2>1. i \in 1 .. next[stack[Depth]] - 1
    BY <1>2
  <2>2. Depth \in 1 .. Depth /\ ~(Depth < Depth)
    BY <1>2
  <2>3. Uses(stack[Depth])[i] \in Range(order)
    BY <2>1, <2>2 DEF IInv, GoneThrough
  <2> QED
    BY <1>2, <2>3
<1>11. Typed'
  <2>1. TypeOK'
    <3>1. order' \in Seq(Defined') /\ seen' \subseteq Defined'
      BY <1>3, <1>4, <1>5, <1>7
    <3>2. config' \in Configs /\ requested' \in Requests
      BY <1>1, <1>3 DEF TypeOK
    <3>3. next' \in [Caller -> Nat \ {0}]
      BY <1>3, <1>5
    <3> QED
      BY <1>3, <1>6, <3>1, <3>2, <3>3 DEF TypeOK, Caller, Walking
  <2>2. \A c \in Entered' : next'[c] <= Len(Uses(c)') + 1
    BY <1>1, <1>3, <1>4 DEF Typed
  <2>3. \A c \in Caller \ Entered' : next'[c] = 1
    BY <1>1, <1>3, <1>4 DEF Typed
  <2> QED
    BY <2>1, <2>2, <2>3 DEF Typed, Caller
<1>12. Calls'
  <2>1. Depth' \in Nat \ {0} /\ stack'[1] = Cli
    BY <1>1, <1>2, <1>6 DEF Calls
  <2>2. ASSUME NEW k \in 2 .. Depth'
        PROVE  stack'[k] \in seen'
    <3>1. k \in 1 .. Depth' /\ k \in 2 .. Depth
      BY <1>2, <1>6
    <3>2. stack[k] \in seen
      BY <1>1, <3>1 DEF Calls
    <3> QED
      BY <1>3, <1>6, <3>1, <3>2
  <2>3. \A k, l \in 1 .. Depth' : stack'[k] = stack'[l] => k = l
    BY <1>1, <1>6 DEF Calls
  <2> QED
    BY <2>1, <2>2, <2>3 DEF Calls
<1>13. ASSUME NEW k \in 1 .. Depth'
       PROVE  stack'[k] # t
  BY <1>1, <1>2, <1>6 DEF Calls
<1>14. Division'
  <2>1. Range(order)' \subseteq seen'
    BY <1>1, <1>2, <1>3, <1>8 DEF Division
  <2>2. ASSUME NEW n \in seen, n \notin Range(order) \cup {t}
        PROVE  \E k \in 2 .. Depth' : stack'[k] = n
    <3>1. PICK k \in 2 .. Depth : stack[k] = n
      BY <1>1, <2>2 DEF Division
    <3>2. k # Depth
      BY <1>2, <2>2, <3>1
    <3>3. k \in 2 .. Depth' /\ k \in 1 .. Depth'
      BY <1>2, <1>6, <3>1, <3>2
    <3> QED
      BY <1>6, <3>1, <3>3
  <2>3. ASSUME NEW k \in 1 .. Depth'
        PROVE  stack'[k] \notin Range(order) \cup {t}
    BY <1>1, <1>6, <1>13 DEF Division
  <2> QED
    BY <1>3, <1>8, <2>1, <2>2, <2>3 DEF Division
<1>15. DepsFirst'
  <2>1. \A p \in DOMAIN order : order[p] # t
    BY <1>9 DEF Range
  <2>2. ASSUME NEW p \in DOMAIN order', NEW q \in DOMAIN order',
               order'[p] = order'[q]
        PROVE  p = q
    <3>1. CASE p \in DOMAIN order /\ q \in DOMAIN order
      BY <1>7, <2>2, <3>1 DEF IInv, DepsFirst
    <3>2. CASE p = Len(order) + 1 \/ q = Len(order) + 1
      BY <1>7, <2>1, <2>2, <3>2
    <3> QED
      BY <1>7, <3>1, <3>2
  <2>3. ASSUME NEW p \in DOMAIN order'
        PROVE  Range(config[order'[p]]) \subseteq {order'[q] : q \in 1 .. p - 1}
    <3>1. CASE p \in DOMAIN order
      <4>1. Range(config[order[p]]) \subseteq {order[q] : q \in 1 .. p - 1}
        BY <3>1 DEF IInv, DepsFirst
      <4>2. \A q \in 1 .. p - 1 : order'[q] = order[q]
        BY <1>7, <3>1
      <4>3. order'[p] = order[p]
        BY <1>7, <3>1
      <4> QED
        BY <4>1, <4>2, <4>3
    <3>2. CASE p = Len(order) + 1
      <4>1. order'[p] = t /\ config[t] = Uses(t)
        BY <1>1, <1>7, <3>2 DEF Uses
      <4>2. ASSUME NEW n \in Range(Uses(t))
            PROVE  \E q \in 1 .. p - 1 : order'[q] = n
        <5>1. n \in Range(order)
          BY <1>10, <4>2 DEF Range
        <5>2. PICK q \in 1 .. Len(order) : order[q] = n
          BY <1>7, <5>1 DEF Range
        <5> QED
          BY <1>7, <3>2, <5>2
      <4> QED
        BY <4>1, <4>2
    <3> QED
      BY <1>7, <3>1, <3>2
  <2> QED
    BY <1>3, <2>2, <2>3, ZenonT(40) DEF DepsFirst, Range
<1>16. GoneThrough'
  <2>1. ASSUME NEW k \in 1 .. Depth', NEW i \in 1 .. next[stack[k]] - 1
        PROVE  \/ Uses(stack[k])[i] \in Range(order) \cup {t}
               \/ k < Depth' /\ Uses(stack[k])[i] = stack'[k + 1]
    <3>1. k \in 1 .. Depth
      BY <1>6
    <3>2. \/ Uses(stack[k])[i] \in Range(order)
          \/ k < Depth /\ Uses(stack[k])[i] = stack[k + 1]
      BY <3>1 DEF IInv, GoneThrough
    <3>3. CASE k = Depth'
      <4>1. k + 1 = Depth
        BY <1>2, <1>6, <3>3
      <4> QED
        BY <1>2, <3>2, <4>1
    <3>4. CASE k # Depth'
      <4>1. k < Depth' /\ k + 1 \in 1 .. Depth'
        BY <1>2, <1>6, <3>4
      <4> QED
        BY <1>6, <3>2, <4>1
    <3> QED
      BY <3>3, <3>4
  <2> QED
    BY <1>3, <1>4, <1>6, <1>8, <2>1, ZenonT(40) DEF GoneThrough
<1>17. Completed'
  BY <1>2, <1>3, <1>4, <1>8 DEF IInv, Completed
<1>18. Named' /\ NamesEntered' /\ NamedOnce'
  BY <1>3, <1>4 DEF IInv, Named, NamesEntered, NamedOnce
<1>19. (seen \subseteq Reach(Cli))'
  BY <1>3, <1>4 DEF IInv
<1>20. Finished' /\ RefusedForCause'
  BY <1>3 DEF Finished, RefusedForCause, Walking, Ok, UnknownProfile,
              RepeatedProfile
<1> QED
  BY <1>11, <1>12, <1>14, <1>15, <1>16, <1>17, <1>18, <1>19, <1>20 DEF IInv

\* Nothing changes.
LEMMA StepStutter == IInv /\ UNCHANGED vars => IInv'
<1> SUFFICES ASSUME IInv, UNCHANGED vars
             PROVE  IInv'
  OBVIOUS
<1>1. UNCHANGED <<config, requested, stack, next, seen, order>>
  BY DEF vars
<1>2. outcome' = outcome
  BY DEF vars
<1>3. outcome' \in {Walking, Ok} \cup {UnknownProfile(n) : n \in Name}
                     \cup {RepeatedProfile(n) : n \in Name}
  BY <1>2 DEF IInv, Typed, TypeOK
<1>4. /\ Reach(Cli)' = Reach(Cli)
      /\ Defined' = Defined
      /\ \A n : Mentions(n)' = Mentions(n)
  BY <1>1, ReachConstant
<1>5. Finished'
  BY <1>1, <1>2 DEF IInv, Finished, Depth, Ok
<1>6. RefusedForCause'
  BY <1>2, <1>4 DEF IInv, RefusedForCause, UnknownProfile, RepeatedProfile
<1> QED
  BY <1>1, <1>3, <1>5, <1>6, Decided

\* Every action keeps the invariant.
THEOREM Invariant == Spec => []IInv
<1>1. Init => IInv
  BY InitInv
<1>2. IInv /\ [Next]_vars => IInv'
  BY StepFailUnknown, StepFailRepeated, StepDescend, StepReturn, StepFinish,
     StepStutter DEF Next
<1> QED
  BY <1>1, <1>2, PTL DEF Spec

-----------------------------------------------------------------------------
(* What follows from it.                                                   *)

\* The walk stays in its types; in particular only profiles are pushed.
THEOREM TypeCorrect == Spec => []TypeOK
<1>1. IInv => TypeOK
  BY DEF IInv, Typed
<1> QED
  BY <1>1, Invariant, PTL

\* Whatever the configuration, each profile pushed is new and comes after
\* those it uses.
THEOREM PushedAfterDeps == Spec => []DepsFirst
<1>1. IInv => DepsFirst
  BY DEF IInv
<1> QED
  BY <1>1, Invariant, PTL

\* Once the outermost loop is done, the names entered are those in `order`.
LEMMA AllInOrder ==
  ASSUME IInv, outcome = Ok
  PROVE  seen = Range(order)
<1>1. Depth = 1
  BY DEF IInv, Finished
<1>2. ~ \E k \in 2 .. Depth : TRUE
  BY <1>1
<1> QED
  BY <1>2 DEF IInv, Division

\* Then every list begun has been gone through, and the names entered are
\* those reached.
LEMMA AllGoneThrough ==
  ASSUME IInv, outcome = Ok
  PROVE  /\ seen = Reach(Cli)
         /\ Reach(Cli) \subseteq Defined
         /\ Users = Entered
         /\ \A c \in Entered : /\ c \in Defined \cup {Cli}
                               /\ Uses(c) \in Seq(Name)
                               /\ DOMAIN Uses(c) = 1 .. next[c] - 1
                               /\ Range(Uses(c)) \subseteq seen
<1>1. TypeOK /\ seen \subseteq Defined /\ Defined \subseteq Name
  BY UsesTyped DEF IInv, Typed, TypeOK
<1>2. \A c \in Entered : c \in Defined \cup {Cli} /\ Uses(c) \in Seq(Name)
  BY <1>1, UsesTyped DEF Entered
<1>3. ASSUME NEW c \in Entered
      PROVE  DOMAIN Uses(c) = 1 .. next[c] - 1
  <2>1. next[c] = Len(Uses(c)) + 1
    BY AllInOrder DEF IInv, Finished, Completed, Entered, Uses
  <2> QED
    BY <1>2, <2>1
<1>4. ASSUME NEW c \in Entered
      PROVE  Range(Uses(c)) \subseteq seen
  BY <1>3 DEF IInv, NamesEntered, Range
<1>5. ClosedUnder(seen, Cli)
  <2>1. Range(Uses(Cli)) \subseteq seen
    BY <1>4 DEF Entered
  <2>2. ASSUME NEW n \in seen
        PROVE  Range(config[n]) \subseteq seen
    <3>1. n # Cli
      BY <1>1, UsesTyped
    <3> QED
      BY <1>4, <3>1 DEF Entered, Uses
  <2> QED
    BY <2>1, <2>2 DEF ClosedUnder
<1>6. seen = Reach(Cli)
  BY <1>1, <1>5, ReachLeast DEF IInv
<1>7. Users = Entered
  BY <1>1, <1>6 DEF Users, Entered
<1> QED
  BY <1>1, <1>2, <1>3, <1>4, <1>6, <1>7

\* An acceptance is of exactly the profiles reached, each named once.
THEOREM AcceptsExactly == Spec => []AcceptedExactly
<1>1. ASSUME IInv, outcome = Ok
      PROVE  /\ Range(order) = Reach(Cli)
             /\ Reach(Cli) \subseteq Defined
             /\ \A n \in Reach(Cli) : \A l, m \in Mentions(n) : l = m
  <2>1. Range(order) = Reach(Cli) /\ Reach(Cli) \subseteq Defined
    BY <1>1, AllInOrder, AllGoneThrough
  <2>2. ASSUME NEW n \in Reach(Cli), NEW l \in Mentions(n), NEW m \in Mentions(n)
        PROVE  l = m
    <3>1. Users = Entered
      BY <1>1, AllGoneThrough
    <3>2. PICK c \in Entered :
            \E x \in DOMAIN Uses(c) : l = <<c, x>> /\ Uses(c)[x] = n
      BY <3>1 DEF Mentions
    <3>2a. PICK i \in DOMAIN Uses(c) : l = <<c, i>> /\ Uses(c)[i] = n
      BY <3>2
    <3>3. PICK d \in Entered :
            \E x \in DOMAIN Uses(d) : m = <<d, x>> /\ Uses(d)[x] = n
      BY <3>1 DEF Mentions
    <3>3a. PICK j \in DOMAIN Uses(d) : m = <<d, j>> /\ Uses(d)[j] = n
      BY <3>3
    <3>4. i \in 1 .. next[c] - 1 /\ j \in 1 .. next[d] - 1
      BY <1>1, AllGoneThrough
    <3>5. c = d /\ i = j
      BY <1>1, <3>2a, <3>3a, <3>4 DEF IInv, NamedOnce
    <3> QED
      BY <3>2a, <3>3a, <3>5
  <2> QED
    BY <2>1, <2>2
<1>2. IInv => AcceptedExactly
  BY <1>1 DEF AcceptedExactly
<1> QED
  BY <1>2, Invariant, PTL

\* A refusal names a profile that is missing, or named twice, among those the
\* request reaches.
THEOREM RefusesForCause == Spec => []RefusedForCause
<1>1. IInv => RefusedForCause
  BY DEF IInv
<1> QED
  BY <1>1, Invariant, PTL

\* No chain of calls is longer than the profiles are many.
THEOREM DepthStaysBounded == Spec => []DepthBounded
<1>1. ASSUME IInv
      PROVE  DepthBounded
  <2>1. TypeOK /\ Calls /\ seen \subseteq Defined /\ Defined \subseteq Name
    BY <1>1, UsesTyped DEF IInv, Typed, TypeOK
  <2>2. IsFiniteSet(Defined)
    BY <2>1, NameAssumption, FS_Subset
  <2>3. Depth \in Nat \ {0}
    BY <2>1 DEF Calls
  <2> DEFINE f == [k \in 2 .. Depth |-> stack[k]]
  <2>4. f \in Injection(2 .. Depth, Defined)
    <3>1. \A k \in 2 .. Depth : k \in 1 .. Depth /\ stack[k] \in Defined
      BY <2>1, <2>3 DEF Calls
    <3>2. \A k, l \in 2 .. Depth : stack[k] = stack[l] => k = l
      BY <2>1, <3>1 DEF Calls
    <3> QED
      BY <3>1, <3>2 DEF Injection, IsInjective
  <2>5. Cardinality(2 .. Depth) <= Cardinality(Defined)
    BY <2>2, <2>4, FS_Injection DEF ExistsInjection
  <2>6. Cardinality(2 .. Depth) = Depth - 1
    <3>1. Cardinality(2 .. Depth) = IF 2 > Depth THEN 0 ELSE Depth - 2 + 1
      BY <2>3, FS_Interval
    <3> QED
      BY <2>3, <3>1
  <2>7. Cardinality(Defined) \in Nat
    BY <2>2, FS_CardinalityType
  <2> QED
    BY <2>3, <2>5, <2>6, <2>7 DEF DepthBounded, Depth
<1> QED
  BY <1>1, Invariant, PTL

-----------------------------------------------------------------------------
(***************************************************************************)
(* The order of the profiles that do not use each other.                   *)
(*                                                                         *)
(* DepsFirst does not say which of two entries of a list comes first, nor  *)
(* that what the one uses stays clear of what the other uses.  A second    *)
(* invariant, on top of IInv, says that `order` is a postorder of the      *)
(* calls: the entries of a list are pushed in the list's order, and what   *)
(* is pushed between an entry and the profile that lists it is used by     *)
(* that profile.                                                           *)
(***************************************************************************)
\* What c has named so far.
GoneBy(c) == {Uses(c)[i] : i \in 1 .. next[c] - 1}

\* An active call is used by those that wait for it.
Nested == \A k, l \in 1 .. Depth : k < l => stack[l] \in Reach(stack[k])

\* An entry of a list is pushed after those before it.
InListOrder ==
  \A c \in Entered : \A i, j \in 1 .. next[c] - 1 :
    i < j /\ Uses(c)[j] \in Range(order) => Before(Uses(c)[i], Uses(c)[j])

\* Between an entry and the profile that lists it come profiles the latter
\* uses.
Uninterrupted ==
  \A p, q \in DOMAIN order : \A n \in Entered :
    p < q /\ order[p] \in GoneBy(n) /\ n \notin {order[r] : r \in 1 .. q}
      => order[q] \in Reach(n)

OrderInv == Nested /\ InListOrder /\ Uninterrupted

-----------------------------------------------------------------------------
(* What a profile reaches.                                                 *)

\* A list's entries are reached by whoever has the list.
LEMMA ListReached ==
  ASSUME TypeOK,
         NEW c \in Defined \cup {Cli},
         NEW i \in DOMAIN Uses(c)
  PROVE  Uses(c)[i] \in Reach(c)
<1>1. Uses(c)[i] \in Name
  BY UsesTyped
<1>2. ASSUME NEW S \in SUBSET Name, ClosedUnder(S, c)
      PROVE  Uses(c)[i] \in S
  BY <1>2 DEF ClosedUnder, Range
<1> QED
  BY <1>1, <1>2 DEF Reach

\* What a profile that is reached reaches is reached.
LEMMA ReachTransitive ==
  ASSUME TypeOK,
         NEW c,
         NEW n \in Reach(c) \cap Defined,
         NEW m \in Reach(n)
  PROVE  m \in Reach(c)
<1>1. m \in Name
  BY DEF Reach
<1>2. ASSUME NEW S \in SUBSET Name, ClosedUnder(S, c)
      PROVE  m \in S
  <2>1. n \in S
    BY <1>2 DEF Reach
  <2>2. Uses(n) = config[n]
    <3>1. n # Cli
      BY UsesTyped
    <3> QED
      BY <3>1 DEF Uses
  <2>3. ClosedUnder(S, n)
    BY <1>2, <2>1, <2>2 DEF ClosedUnder
  <2> QED
    BY <2>3 DEF Reach
<1> QED
  BY <1>1, <1>2 DEF Reach

\* What is reached is named, by the one that reaches it or by a profile that
\* is reached as well.
LEMMA ReachedIsNamed ==
  ASSUME TypeOK,
         NEW c \in Defined \cup {Cli},
         NEW m \in Reach(c)
  PROVE  \E d \in {c} \cup (Reach(c) \cap Defined) : m \in Range(Uses(d))
<1> SUFFICES ASSUME \A d \in {c} \cup (Reach(c) \cap Defined) :
                      m \notin Range(Uses(d))
             PROVE  FALSE
  OBVIOUS
<1> DEFINE S == Reach(c) \ {m}
<1>1. Cli \notin Defined
  BY UsesTyped
<1>2. Range(Uses(c)) \subseteq Reach(c)
  BY ListReached DEF Range
<1>3. ASSUME NEW n \in S \cap Defined
      PROVE  Range(config[n]) \subseteq S
  <2>1. Uses(n) = config[n]
    BY <1>1 DEF Uses
  <2>2. Range(Uses(n)) \subseteq Reach(n)
    BY ListReached DEF Range
  <2>3. Reach(n) \subseteq Reach(c)
    BY ReachTransitive
  <2> QED
    BY <2>1, <2>2, <2>3
<1>4. ClosedUnder(S, c)
  BY <1>2, <1>3 DEF ClosedUnder
<1>5. S \in SUBSET Name
  BY DEF Reach
<1>6. m \in S
  <2>1. \A T \in SUBSET Name : ClosedUnder(T, c) => m \in T
    BY DEF Reach
  <2> HIDE DEF S
  <2> QED
    BY <1>4, <1>5, <2>1
<1> QED
  BY <1>6

\* The configuration and the request decide what every list reaches.
LEMMA ReachesSame ==
  ASSUME config' = config, requested' = requested
  PROVE  \A c : Reach(c)' = Reach(c)
<1>1. Defined' = Defined
  BY DEF Defined
<1> QED
  BY <1>1 DEF Reach, ClosedUnder, Uses

-----------------------------------------------------------------------------
(* The second invariant.                                                   *)

\* The walk begins with one call and an empty result.
LEMMA InitOrderInv == Init => OrderInv
<1> SUFFICES ASSUME Init
             PROVE  OrderInv
  OBVIOUS
<1>1. Depth = 1 /\ order = <<>> /\ DOMAIN order = {} /\ Range(order) = {}
  BY DEF Init, Depth, Range
<1>2. Nested
  BY <1>1 DEF Nested
<1>3. InListOrder /\ Uninterrupted
  BY <1>1 DEF InListOrder, Uninterrupted
<1> QED
  BY <1>2, <1>3 DEF OrderInv

\* The walk stands still.
LEMMA OrderStays ==
  ASSUME OrderInv,
         UNCHANGED <<config, requested, stack, next, seen, order>>
  PROVE  OrderInv'
<1>1. \A c : Uses(c)' = Uses(c) /\ Reach(c)' = Reach(c)
  BY ReachesSame, ReachConstant
<1>2. Depth' = Depth /\ Entered' = Entered /\ Range(order)' = Range(order)
  BY DEF Depth, Entered, Range
<1>3. Nested'
  BY <1>1, <1>2 DEF OrderInv, Nested
<1>4. \A x, y : Before(x, y)' <=> Before(x, y)
  BY DEF Before
<1>5. InListOrder'
  BY <1>1, <1>2, <1>4 DEF OrderInv, InListOrder
<1>6. \A c : GoneBy(c)' = GoneBy(c)
  BY <1>1 DEF GoneBy
<1>7. Uninterrupted'
  BY <1>1, <1>2, <1>6 DEF OrderInv, Uninterrupted
<1> QED
  BY <1>3, <1>5, <1>7 DEF OrderInv

\* A call for a new name: its user waits for it, and its place is the last
\* one its user has gone through, with nothing pushed for it yet.
LEMMA OrderDescend == IInv /\ OrderInv /\ Descend => OrderInv'
<1> SUFFICES ASSUME IInv, OrderInv, Descend
             PROVE  OrderInv'
  OBVIOUS
<1> DEFINE t == Top
           u == Candidate
<1>1. Typed /\ TypeOK /\ Calls /\ Division /\ MoreToVisit
  BY DEF IInv, Typed, Descend
<1>2. /\ Depth \in Nat \ {0}
      /\ t = stack[Depth]
      /\ t \in Entered
      /\ t \in Caller
      /\ Uses(t) \in Seq(Name)
      /\ next[t] \in Nat \ {0}
      /\ next[t] \in DOMAIN Uses(t)
      /\ u \in Name
  BY <1>1, TopFacts
<1>3. u \in Defined /\ u \notin seen /\ u = Uses(t)[next[t]]
  BY DEF Descend, Candidate
<1>4. /\ UNCHANGED <<config, requested, order>>
      /\ seen' = seen \cup {u}
      /\ next' = [next EXCEPT ![t] = @ + 1]
      /\ stack' = Append(stack, u)
  BY DEF Descend
<1>5. \A c : Uses(c)' = Uses(c) /\ Reach(c)' = Reach(c)
  BY <1>4, ReachesSame, ReachConstant
<1>6. /\ stack \in Seq(Caller) /\ next \in [Caller -> Nat \ {0}]
      /\ seen \subseteq Defined /\ Defined \subseteq Name /\ Cli \notin Defined
  BY <1>1, UsesTyped DEF TypeOK
<1>7. u \in Caller /\ u # t /\ u \notin Entered /\ Entered \subseteq Caller
  BY <1>2, <1>3, <1>6 DEF Caller, Entered
<1>8. /\ Depth' = Depth + 1
      /\ \A k \in 1 .. Depth : stack'[k] = stack[k]
      /\ stack'[Depth + 1] = u
  BY <1>4, <1>6, <1>7 DEF Depth
<1>9. /\ next'[t] = next[t] + 1
      /\ \A c \in Caller \ {t} : next'[c] = next[c]
      /\ next'[u] = 1
  BY <1>1, <1>2, <1>4, <1>6, <1>7 DEF Typed
<1>10. u \notin Range(order) /\ Range(order)' = Range(order)
  BY <1>1, <1>3, <1>4 DEF Division, Range
<1>11. ASSUME NEW c \in Entered', NEW i \in 1 .. next'[c] - 1
       PROVE  \/ Uses(c)[i] = u
              \/ c \in Entered /\ i \in 1 .. next[c] - 1
  <2>1. CASE c = t
    BY <1>2, <1>3, <1>9, <2>1
  <2>2. CASE c = u
    BY <1>9, <2>2
  <2>3. CASE c # t /\ c # u
    <3>1. c \in Entered
      BY <1>4, <2>3 DEF Entered
    <3> QED
      BY <1>7, <1>9, <2>3, <3>1
  <2> QED
    BY <2>1, <2>2, <2>3
<1>12. Nested'
  <2>1. u \in Reach(t)
    <3>1. t \in Defined \cup {Cli}
      BY <1>2, <1>6 DEF Entered
    <3> QED
      BY <1>1, <1>2, <1>3, <3>1, ListReached
  <2>2. ASSUME NEW k \in 1 .. Depth
        PROVE  u \in Reach(stack[k])
    <3>1. CASE k = Depth
      BY <1>2, <2>1, <3>1
    <3>2. CASE k # Depth
      <4>1. k < Depth /\ Depth \in 1 .. Depth
        BY <1>2, <3>2
      <4>2. t \in Reach(stack[k])
        BY <1>2, <4>1 DEF OrderInv, Nested
      <4>3. t \in Defined
        <5>1. Depth \in 2 .. Depth
          BY <1>2, <4>1
        <5> QED
          BY <1>1, <1>2, <1>6, <5>1 DEF Calls
      <4> QED
        BY <1>1, <2>1, <4>2, <4>3, ReachTransitive
    <3> QED
      BY <3>1, <3>2
  <2>3. ASSUME NEW k \in 1 .. Depth', NEW l \in 1 .. Depth', k < l
        PROVE  stack'[l] \in Reach(stack'[k])
    <3>1. k \in 1 .. Depth /\ stack'[k] = stack[k]
      BY <1>2, <1>8, <2>3
    <3>2. CASE l = Depth + 1
      BY <1>8, <2>2, <3>1, <3>2
    <3>3. CASE l # Depth + 1
      <4>1. l \in 1 .. Depth /\ stack'[l] = stack[l]
        BY <1>2, <1>8, <3>3
      <4> QED
        BY <2>3, <3>1, <4>1 DEF OrderInv, Nested
    <3> QED
      BY <3>2, <3>3
  <2> QED
    BY <1>5, <2>3 DEF Nested
<1>13. InListOrder'
  <2>1. ASSUME NEW c \in Entered',
               NEW i \in 1 .. next'[c] - 1, NEW j \in 1 .. next'[c] - 1,
               i < j, Uses(c)[j] \in Range(order)
        PROVE  Before(Uses(c)[i], Uses(c)[j])
    <3>1. c \in Entered /\ j \in 1 .. next[c] - 1
      BY <1>10, <1>11, <2>1
    <3>2. i \in 1 .. next[c] - 1
      BY <1>6, <1>7, <2>1, <3>1
    <3> QED
      BY <2>1, <3>1, <3>2 DEF OrderInv, InListOrder
  <2>2. \A x, y : Before(x, y)' <=> Before(x, y)
    BY <1>4 DEF Before
  <2> QED
    BY <1>5, <1>10, <2>1, <2>2 DEF InListOrder
<1>14. Uninterrupted'
  <2>1. ASSUME NEW p \in DOMAIN order, NEW q \in DOMAIN order,
               NEW n \in Entered', p < q,
               NEW i \in 1 .. next'[n] - 1, Uses(n)[i] = order[p],
               n \notin {order[r] : r \in 1 .. q}
        PROVE  order[q] \in Reach(n)
    <3>1. order[p] # u
      BY <1>10 DEF Range
    <3>2. n \in Entered /\ i \in 1 .. next[n] - 1
      BY <1>11, <2>1, <3>1
    <3>3. order[p] \in GoneBy(n)
      BY <2>1, <3>2 DEF GoneBy
    <3> QED
      BY <2>1, <3>2, <3>3 DEF OrderInv, Uninterrupted
  <2> QED
    BY <1>4, <1>5, <2>1 DEF Uninterrupted, GoneBy
<1> QED
  BY <1>12, <1>13, <1>14 DEF OrderInv

\* A call that returns is pushed last: after whatever its user named before
\* it, and, for every call still active, as a profile that call uses.
LEMMA OrderReturn == IInv /\ OrderInv /\ Return => OrderInv'
<1> SUFFICES ASSUME IInv, OrderInv, Return
             PROVE  OrderInv'
  OBVIOUS
<1> DEFINE t == Top
<1>1. Typed /\ TypeOK /\ Calls /\ Division /\ ~MoreToVisit /\ t # Cli
  BY DEF IInv, Typed, Return
<1>2. /\ Depth \in Nat \ {0} /\ Depth > 1
      /\ t = stack[Depth]
  BY <1>1, TopFacts
<1>3. /\ UNCHANGED <<config, requested, next, seen>>
      /\ order' = Append(order, t)
      /\ stack' = SubSeq(stack, 1, Len(stack) - 1)
  BY DEF Return, Popped
<1>4. /\ \A c : Uses(c)' = Uses(c) /\ Reach(c)' = Reach(c)
      /\ Entered' = Entered
  BY <1>3, ReachesSame, ReachConstant DEF Entered
<1>5. /\ stack \in Seq(Caller)
      /\ order \in Seq(Defined)
      /\ seen \subseteq Defined /\ Cli \notin Defined
      /\ t \in Defined
  BY <1>1, <1>2, UsesTyped DEF TypeOK, Calls
<1>6. /\ Depth' = Depth - 1
      /\ \A k \in 1 .. Depth' : k \in 1 .. Depth /\ stack'[k] = stack[k]
  <2>1. Len(stack) = Depth
    BY DEF Depth
  <2> QED
    BY <1>2, <1>3, <1>5, <2>1 DEF Depth
<1>7. /\ Len(order) \in Nat
      /\ DOMAIN order = 1 .. Len(order)
      /\ DOMAIN order' = 1 .. Len(order) + 1
      /\ \A p \in 1 .. Len(order) : order'[p] = order[p]
      /\ order'[Len(order) + 1] = t
  BY <1>3, <1>5
<1>8. t \notin Range(order)
  BY <1>1, <1>2 DEF Division
<1>9. ASSUME NEW n \in Entered, n \notin Range(order)
      PROVE  \E k \in 1 .. Depth : stack[k] = n
  <2>1. CASE n = Cli
    BY <1>1, <1>2, <2>1 DEF Calls
  <2>2. CASE n # Cli
    <3>1. PICK k \in 2 .. Depth : stack[k] = n
      BY <1>1, <1>9, <2>2 DEF Division, Entered
    <3> QED
      BY <3>1
  <2> QED
    BY <2>1, <2>2
<1>10. Nested'
  <2>1. ASSUME NEW k \in 1 .. Depth', NEW l \in 1 .. Depth', k < l
        PROVE  stack'[l] \in Reach(stack'[k])
    BY <1>6, <2>1 DEF OrderInv, Nested
  <2> QED
    BY <1>4, <2>1 DEF Nested
<1>11. ASSUME NEW c \in Entered,
              NEW i \in 1 .. next[c] - 1, NEW j \in 1 .. next[c] - 1,
              i < j, Uses(c)[j] = t
       PROVE  Uses(c)[i] \in Range(order)
  <2>1. c \notin Range(order)
    <3>1. SUFFICES ASSUME c \in Range(order)
                   PROVE  FALSE
      OBVIOUS
    <3>2. c \in Defined /\ Uses(c) = config[c]
      BY <1>5, <3>1 DEF Range, Uses
    <3>3. Range(config[c]) \subseteq Range(order)
      <4>1. PICK p \in DOMAIN order : order[p] = c
        BY <3>1 DEF Range
      <4>2. Range(config[c]) \subseteq {order[q] : q \in 1 .. p - 1}
        BY <4>1 DEF IInv, DepsFirst
      <4>3. {order[q] : q \in 1 .. p - 1} \subseteq Range(order)
        BY <1>7, <4>1 DEF Range
      <4> QED
        BY <4>2, <4>3
    <3>4. j \in DOMAIN Uses(c)
      <4>1. next[c] = Len(Uses(c)) + 1
        BY <3>1 DEF IInv, Completed
      <4>2. Uses(c) \in Seq(Name)
        BY <1>1, <3>2, UsesTyped
      <4> QED
        BY <4>1, <4>2
    <3>5. t \in Range(order)
      BY <1>11, <3>2, <3>3, <3>4 DEF Range
    <3> QED
      BY <1>8, <3>5
  <2>2. PICK k \in 1 .. Depth : stack[k] = c
    BY <1>9, <2>1
  <2>3. Uses(c)[j] = stack[k + 1]
    BY <1>8, <1>11, <2>2 DEF IInv, GoneThrough
  <2>4. Uses(c)[i] # stack[k + 1]
    BY <1>11, <2>3 DEF IInv, NamedOnce
  <2> QED
    BY <2>2, <2>4 DEF IInv, GoneThrough
<1>12. ASSUME NEW x, NEW y, Before(x, y)
       PROVE  \E p, q \in DOMAIN order' :
                p < q /\ order'[p] = x /\ order'[q] = y
  BY <1>7, <1>12 DEF Before
<1>13. ASSUME NEW x \in Range(order)
       PROVE  \E p, q \in DOMAIN order' :
                p < q /\ order'[p] = x /\ order'[q] = t
  <2>1. PICK p \in DOMAIN order : order[p] = x
    BY DEF Range
  <2> QED
    BY <1>7, <2>1
<1>14. InListOrder'
  <2> DEFINE Earlier(x, y) ==
               \E p, q \in DOMAIN order' : p < q /\ order'[p] = x /\ order'[q] = y
  <2>1. ASSUME NEW c \in Entered,
               NEW i \in 1 .. next[c] - 1, NEW j \in 1 .. next[c] - 1,
               i < j, Uses(c)[j] \in Range(order')
        PROVE  Earlier(Uses(c)[i], Uses(c)[j])
    <3>1. CASE Uses(c)[j] = t
      <4>1. Uses(c)[i] \in Range(order)
        BY <1>11, <2>1, <3>1
      <4> QED
        BY <1>13, <3>1, <4>1
    <3>2. CASE Uses(c)[j] # t
      <4>1. Uses(c)[j] \in Range(order)
        BY <1>7, <2>1, <3>2 DEF Range
      <4>2. Before(Uses(c)[i], Uses(c)[j])
        BY <2>1, <4>1 DEF OrderInv, InListOrder
      <4> QED
        BY <1>12, <4>2
    <3> QED
      BY <3>1, <3>2
  <2>2. \A c \in Entered' : \A i, j \in 1 .. next'[c] - 1 :
          i < j /\ Uses(c)'[j] \in Range(order') =>
            Earlier(Uses(c)'[i], Uses(c)'[j])
    <3> HIDE DEF Earlier
    <3> QED
      BY <1>3, <1>4, <2>1
  <2> QED
    BY <2>2 DEF InListOrder, Range, Before
<1>15. Uninterrupted'
  <2>1. ASSUME NEW p \in DOMAIN order', NEW q \in DOMAIN order',
               NEW n \in Entered, p < q,
               order'[p] \in GoneBy(n),
               n \notin {order'[r] : r \in 1 .. q}
        PROVE  order'[q] \in Reach(n)
    <3>1. CASE q = Len(order) + 1
      <4>1. n \notin Range(order) /\ n # t
        BY <1>7, <2>1, <3>1 DEF Range
      <4>2. PICK k \in 1 .. Depth : stack[k] = n
        BY <1>9, <4>1
      <4>3. k < Depth /\ Depth \in 1 .. Depth
        BY <1>2, <4>1, <4>2
      <4>4. t \in Reach(n)
        BY <1>2, <4>2, <4>3 DEF OrderInv, Nested
      <4> QED
        BY <1>7, <3>1, <4>4
    <3>2. CASE q # Len(order) + 1
      <4>1. /\ p \in DOMAIN order /\ q \in DOMAIN order
            /\ order'[p] = order[p] /\ order'[q] = order[q]
            /\ \A r \in 1 .. q : order'[r] = order[r]
        BY <1>7, <2>1, <3>2
      <4>2. n \notin {order[r] : r \in 1 .. q}
        BY <2>1, <4>1
      <4> QED
        BY <2>1, <4>1, <4>2 DEF OrderInv, Uninterrupted
    <3> QED
      BY <3>1, <3>2
  <2>2. \A n : GoneBy(n)' = GoneBy(n)
    BY <1>3, <1>4 DEF GoneBy
  <2> QED
    BY <1>4, <2>1, <2>2 DEF Uninterrupted
<1> QED
  BY <1>10, <1>14, <1>15 DEF OrderInv

\* Every action keeps the second invariant as well.
THEOREM OrderInvariant == Spec => [](IInv /\ OrderInv)
<1>1. Init => IInv /\ OrderInv
  BY InitInv, InitOrderInv
<1>2. IInv /\ [Next]_vars => IInv'
  BY StepFailUnknown, StepFailRepeated, StepDescend, StepReturn, StepFinish,
     StepStutter DEF Next
<1>3. ASSUME OrderInv,
             FailUnknown \/ FailRepeated \/ Finish \/ UNCHANGED vars
      PROVE  OrderInv'
  <2>1. UNCHANGED <<config, requested, stack, next, seen, order>>
    BY <1>3 DEF FailUnknown, FailRepeated, Finish, vars
  <2> QED
    BY <1>3, <2>1, OrderStays
<1>4. (IInv /\ OrderInv) /\ [Next]_vars => OrderInv'
  BY <1>3, OrderDescend, OrderReturn DEF Next
<1> QED
  BY <1>1, <1>2, <1>4, PTL DEF Spec

-----------------------------------------------------------------------------
(* What follows from it, once a walk has succeeded.                        *)

\* What a profile reaches stands before it: no profile reaches itself.
LEMMA ReachedBefore ==
  ASSUME IInv, outcome = Ok,
         NEW n \in Reach(Cli),
         NEW m \in Reach(n)
  PROVE  Before(m, n)
<1>1. PICK p \in DOMAIN order : order[p] = n
  BY AllInOrder, AllGoneThrough DEF Range
<1>2. order \in Seq(Defined) /\ Defined \subseteq Name /\ Cli \notin Defined
  BY UsesTyped DEF IInv, Typed, TypeOK
<1>3. Len(order) \in Nat /\ DOMAIN order = 1 .. Len(order)
  BY <1>2
<1> DEFINE S == {order[q] : q \in 1 .. p - 1}
<1>4. S \in SUBSET Name
  BY <1>1, <1>2, <1>3
<1>5. Range(Uses(n)) \subseteq S
  <2>1. Uses(n) = config[n]
    BY <1>1, <1>2 DEF Uses
  <2> QED
    BY <1>1, <2>1 DEF IInv, DepsFirst
<1>6. ASSUME NEW q \in 1 .. p - 1
      PROVE  Range(config[order[q]]) \subseteq S
  <2>1. q \in DOMAIN order
    BY <1>1, <1>3
  <2>2. Range(config[order[q]]) \subseteq {order[r] : r \in 1 .. q - 1}
    BY <2>1 DEF IInv, DepsFirst
  <2>3. \A r \in 1 .. q - 1 : r \in 1 .. p - 1
    BY <1>1, <1>3
  <2> QED
    BY <2>2, <2>3
<1>7. ClosedUnder(S, n)
  BY <1>5, <1>6 DEF ClosedUnder
<1>8. m \in S
  <2> HIDE DEF S
  <2> QED
    BY <1>4, <1>7 DEF Reach
<1>9. PICK q \in 1 .. p - 1 : order[q] = m
  BY <1>8
<1> QED
  BY <1>1, <1>3, <1>9 DEF Before

\* Nothing stands before itself.
LEMMA BeforeStrict ==
  ASSUME IInv, NEW x, Before(x, x)
  PROVE  FALSE
<1>1. order \in Seq(Defined)
  BY DEF IInv, Typed, TypeOK
<1>2. PICK p \in DOMAIN order, q \in DOMAIN order :
        p < q /\ order[p] = x /\ order[q] = x
  BY DEF Before
<1>3. p = q
  BY <1>2 DEF IInv, DepsFirst
<1> QED
  BY <1>1, <1>2, <1>3

\* What an entry of a list reaches does not reach, or have, that list.
LEMMA NotAbove ==
  ASSUME IInv, outcome = Ok,
         NEW c \in Users,
         NEW j \in DOMAIN Uses(c)
  PROVE  c \notin Below(Uses(c)[j])
<1> SUFFICES ASSUME c \in Below(Uses(c)[j])
             PROVE  FALSE
  OBVIOUS
<1> DEFINE v == Uses(c)[j]
<1>1. TypeOK /\ Cli \notin Name
  BY NameAssumption DEF IInv, Typed
<1>2. c \in Defined \cup {Cli} /\ Uses(c) \in Seq(Name)
  BY AllGoneThrough
<1>3. v \in Name /\ v \in Reach(c)
  BY <1>1, <1>2, ListReached
<1>4. c \in Name
  BY <1>3 DEF Below, Reach
<1>5. c \in Reach(Cli) \cap Defined
  BY <1>1, <1>4 DEF Users
<1>6. v \in Reach(Cli) \cap Defined
  BY <1>1, <1>3, <1>5, AllGoneThrough, ReachTransitive
<1>7. c \in Reach(c)
  <2>1. CASE c = v
    BY <1>3, <2>1
  <2>2. CASE c \in Reach(v)
    BY <1>1, <1>3, <1>6, <2>2, ReachTransitive
  <2> QED
    BY <2>1, <2>2 DEF Below
<1>8. Before(c, c)
  BY <1>5, <1>7, ReachedBefore
<1> QED
  BY <1>8, BeforeStrict

\* Of two entries of a list, everything the later one reaches is pushed after
\* the earlier one.
LEMMA BelowAfter ==
  ASSUME IInv, OrderInv, outcome = Ok,
         NEW c \in Users,
         NEW i \in DOMAIN Uses(c), NEW j \in DOMAIN Uses(c), i < j,
         NEW a \in DOMAIN order, order[a] = Uses(c)[i],
         NEW y \in Below(Uses(c)[j])
  PROVE  \E b \in DOMAIN order : a < b /\ order[b] = y
<1> DEFINE u == Uses(c)[i]
           v == Uses(c)[j]
           P == {order[r] : r \in 1 .. a}
           Q == Below(v) \ P
<1>1. /\ TypeOK /\ order \in Seq(Defined)
      /\ Defined \subseteq Name /\ Cli \notin Defined
  BY UsesTyped DEF IInv, Typed, TypeOK
<1>2. Len(order) \in Nat /\ DOMAIN order = 1 .. Len(order)
  BY <1>1
<1>3. /\ Users = Entered
      /\ Range(order) = Reach(Cli)
      /\ Reach(Cli) \subseteq Defined
      /\ \A d \in Entered : /\ d \in Defined \cup {Cli}
                            /\ DOMAIN Uses(d) = 1 .. next[d] - 1
  BY AllInOrder, AllGoneThrough
<1>4. v \in Reach(Cli) /\ u \in Reach(Cli)
  BY <1>1, ReachStep
<1>5. Below(v) \subseteq Reach(Cli)
  BY <1>1, <1>3, <1>4, ReachTransitive DEF Below
<1>6. c \notin Below(v)
  BY NotAbove
<1>7. v \notin P
  <2>1. SUFFICES ASSUME NEW r \in 1 .. a, order[r] = v
                 PROVE  FALSE
    OBVIOUS
  <2>2. v \in Range(order) /\ i \in 1 .. next[c] - 1 /\ j \in 1 .. next[c] - 1
    BY <1>3, <1>4
  <2>3. Before(u, v)
    BY <1>3, <2>2 DEF OrderInv, InListOrder
  <2>4. PICK p \in DOMAIN order, q \in DOMAIN order :
          p < q /\ order[p] = u /\ order[q] = v
    BY <2>3 DEF Before
  <2>5. r \in DOMAIN order
    BY <1>2
  <2>6. p = a /\ q = r
    BY <2>1, <2>4, <2>5 DEF IInv, DepsFirst
  <2> QED
    BY <1>2, <2>4, <2>6
<1>8. ASSUME NEW m \in Below(v), m \notin P,
             NEW k \in DOMAIN Uses(m), Uses(m)[k] \in P
      PROVE  FALSE
  <2>1. m \in Reach(Cli) \cap Defined /\ m \in Entered
    BY <1>3, <1>5 DEF Users
  <2>2. PICK p \in 1 .. a : order[p] = Uses(m)[k]
    BY <1>8
  <2>3. p \in DOMAIN order
    BY <1>2
  <2>4. CASE p = a
    <3>1. Uses(m)[k] = Uses(c)[i]
      BY <2>2, <2>4
    <3>2. i \in 1 .. next[c] - 1 /\ k \in 1 .. next[m] - 1
      BY <1>3, <1>8, <2>1
    <3>3. m = c
      BY <1>3, <2>1, <3>1, <3>2 DEF IInv, NamedOnce
    <3> QED
      BY <1>6, <1>8, <3>3
  <2>5. CASE p # a
    <3>1. p < a
      BY <1>2, <2>5
    <3>2. order[p] \in GoneBy(m)
      BY <1>3, <2>1, <2>2 DEF GoneBy
    <3>3. u \in Reach(m)
      BY <1>8, <2>1, <2>3, <3>1, <3>2 DEF OrderInv, Uninterrupted
    <3>4. PICK d \in {m} \cup (Reach(m) \cap Defined) : u \in Range(Uses(d))
      BY <1>1, <2>1, <3>3, ReachedIsNamed
    <3>5. d \in Below(v) /\ d \in Entered
      <4>1. CASE d = m
        BY <2>1, <4>1
      <4>2. CASE d # m
        <5>1. d \in Reach(m) \cap Defined
          BY <3>4, <4>2
        <5>2. v \in Defined
          BY <1>3, <1>4
        <5>3. d \in Reach(v)
          <6>1. CASE m = v
            BY <5>1, <6>1
          <6>2. CASE m # v
            <7>1. m \in Reach(v) \cap Defined
              BY <2>1, <6>2 DEF Below
            <7> QED
              BY <1>1, <5>1, <7>1, ReachTransitive
          <6> QED
            BY <6>1, <6>2
        <5>4. d \in Reach(Cli)
          BY <1>1, <2>1, <5>1, ReachTransitive
        <5> QED
          BY <1>3, <5>1, <5>3, <5>4 DEF Below, Users
      <4> QED
        BY <4>1, <4>2
    <3>6. PICK l \in DOMAIN Uses(d) : Uses(d)[l] = u
      BY <3>4 DEF Range
    <3>7. i \in 1 .. next[c] - 1 /\ l \in 1 .. next[d] - 1
      BY <1>3, <3>5, <3>6
    <3>8. d = c
      BY <1>3, <3>5, <3>6, <3>7 DEF IInv, NamedOnce
    <3> QED
      BY <1>6, <3>5, <3>8
  <2> QED
    BY <2>4, <2>5
<1>9. y \notin P
  <2>1. Q \in SUBSET Name
    BY <1>1, <1>3, <1>5
  <2>2. ASSUME NEW m \in Q
        PROVE  Range(Uses(m)) \subseteq Q
    <3>1. m \in Below(v) /\ m \notin P /\ m \in Reach(Cli) \cap Defined
      BY <1>3, <1>5
    <3>2. ASSUME NEW k \in DOMAIN Uses(m)
          PROVE  Uses(m)[k] \in Below(v)
      <4>1. Uses(m)[k] \in Reach(m)
        BY <1>1, <3>1, ListReached
      <4>2. CASE m = v
        BY <4>1, <4>2 DEF Below
      <4>3. CASE m # v
        <5>1. m \in Reach(v) \cap Defined
          BY <3>1, <4>3 DEF Below
        <5> QED
          BY <1>1, <4>1, <5>1, ReachTransitive DEF Below
      <4> QED
        BY <4>2, <4>3
    <3>3. ASSUME NEW k \in DOMAIN Uses(m)
          PROVE  Uses(m)[k] \notin P
      BY <1>8, <3>1
    <3> QED
      BY <3>2, <3>3 DEF Range
  <2>3. v \in Q
    BY <1>7 DEF Below
  <2>4. ClosedUnder(Q, v)
    <3>1. ASSUME NEW n \in Q \cap Defined
          PROVE  Range(config[n]) \subseteq Q
      <4>1. config[n] = Uses(n)
        BY <1>1 DEF Uses
      <4> QED
        BY <2>2, <4>1
    <3> QED
      BY <2>2, <2>3, <3>1 DEF ClosedUnder
  <2>5. Reach(v) \subseteq Q
    <3> HIDE DEF Q
    <3> QED
      BY <2>1, <2>4 DEF Reach
  <2> QED
    BY <2>3, <2>5 DEF Below
<1>10. PICK b \in DOMAIN order : order[b] = y
  BY <1>3, <1>5 DEF Range
<1>11. a < b
  BY <1>2, <1>9, <1>10
<1> QED
  BY <1>10, <1>11

\* The fold over an accepted request's profiles lets the later entry of any
\* list win, and with it everything it uses over everything the earlier one
\* uses.
THEOREM LaterEntriesAlwaysWin == Spec => []LaterEntriesWin
<1>1. ASSUME IInv, OrderInv, outcome = Ok,
             NEW c \in Users,
             NEW i \in DOMAIN Uses(c), NEW j \in DOMAIN Uses(c), i < j,
             NEW x \in Below(Uses(c)[i]), NEW y \in Below(Uses(c)[j])
      PROVE  Before(x, y)
  <2>1. TypeOK
    BY <1>1 DEF IInv, Typed
  <2>2. Uses(c)[i] \in Reach(Cli)
    BY <2>1, ReachStep
  <2>3. PICK a \in DOMAIN order : order[a] = Uses(c)[i]
    BY <1>1, <2>2, AllInOrder, AllGoneThrough DEF Range
  <2>4. PICK b \in DOMAIN order : a < b /\ order[b] = y
    BY <1>1, <2>3, BelowAfter
  <2>5. CASE x = Uses(c)[i]
    BY <2>3, <2>4, <2>5 DEF Before
  <2>6. CASE x \in Reach(Uses(c)[i])
    <3>1. Before(x, Uses(c)[i])
      BY <1>1, <2>2, <2>6, ReachedBefore
    <3>2. PICK p \in DOMAIN order, q \in DOMAIN order :
            p < q /\ order[p] = x /\ order[q] = Uses(c)[i]
      BY <3>1 DEF Before
    <3>3. q = a
      BY <1>1, <2>3, <3>2 DEF IInv, DepsFirst
    <3>4. order \in Seq(Defined)
      BY <2>1 DEF TypeOK
    <3>5. p < b
      BY <2>4, <3>2, <3>3, <3>4
    <3> QED
      BY <2>4, <3>2, <3>5 DEF Before
  <2> QED
    BY <2>5, <2>6 DEF Below
<1>2. IInv /\ OrderInv => LaterEntriesWin
  BY <1>1 DEF LaterEntriesWin
<1> QED
  BY <1>2, OrderInvariant, PTL
=============================================================================
