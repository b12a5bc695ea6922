---------------------------- MODULE ResolveUses ----------------------------
(***************************************************************************)
(* resolve_uses and resolve_uses_helper of config/config_file.rs: the      *)
(* depth-first walk of the profiles' `uses` lists that yields the profiles *)
(* in the order in which they are merged.                                  *)
(*                                                                         *)
(* The recursion is made explicit: `stack` holds the active calls, the     *)
(* loop of resolve_uses itself at the bottom, and next[c] is the loop      *)
(* index of the call for c.  One index per name suffices, because a name   *)
(* is entered at most once.                                                *)
(***************************************************************************)
EXTENDS Naturals, Sequences, FiniteSets, Functions

CONSTANTS
  Name,       \* profile names
  Cli,        \* the caller of resolve_uses: the command line's `-p` list
  Configs,    \* the configurations considered: uses lists of the profiles
  Requests    \* the requests considered: lists of names

ASSUME NameAssumption == IsFiniteSet(Name) /\ Cli \notin Name
ASSUME ConfigsAssumption ==
  \A f \in Configs : DOMAIN f \subseteq Name /\ f \in [DOMAIN f -> Seq(Name)]
ASSUME RequestsAssumption == Requests \subseteq Seq(Name)

VARIABLES
  config,     \* the `uses` list of each defined profile (constant)
  requested,  \* the requested names (constant)
  stack,      \* the active calls, innermost last
  next,       \* next[c]: which entry of c's list comes next
  seen,       \* the names entered so far
  order,      \* the result so far
  outcome     \* "walking", or how the walk ended

vars == <<config, requested, stack, next, seen, order, outcome>>

-----------------------------------------------------------------------------
Caller == Name \cup {Cli}
Defined == DOMAIN config

\* The list a call iterates over.
Uses(c) == IF c = Cli THEN requested ELSE config[c]

Walking == [kind |-> "walking", name |-> Cli]
Ok == [kind |-> "ok", name |-> Cli]
UnknownProfile(n) == [kind |-> "unknown", name |-> n]
RepeatedProfile(n) == [kind |-> "repeated", name |-> n]

Top == stack[Len(stack)]
Popped == SubSeq(stack, 1, Len(stack) - 1)
InProgress == outcome = Walking
MoreToVisit == next[Top] <= Len(Uses(Top))
\* A slip: the list is walked from its end.
CandidateFromEnd == Uses(Top)[Len(Uses(Top)) - next[Top] + 1]

\* The loop variable.
Candidate == Uses(Top)[next[Top]]

Init ==
  /\ config \in Configs
  /\ requested \in Requests
  /\ stack = <<Cli>>
  /\ next = [c \in Caller |-> 1]
  /\ seen = {}
  /\ order = <<>>
  /\ outcome = Walking

-----------------------------------------------------------------------------
(* Slips the properties are to catch.                                      *)

\* The failure names the user instead of the missing profile.
FailUnknownNamingUser ==
  /\ InProgress
  /\ MoreToVisit
  /\ Candidate \notin Defined
  /\ outcome' = IF Top = Cli THEN UnknownProfile(Candidate)
                             ELSE UnknownProfile(Top)
  /\ UNCHANGED <<config, requested, stack, next, seen, order>>

\* A profile already entered is skipped, not refused.
FailRepeatedSkipping ==
  /\ InProgress
  /\ MoreToVisit
  /\ Candidate \in Defined
  /\ Candidate \in seen
  /\ next' = [next EXCEPT ![Top] = @ + 1]
  /\ UNCHANGED <<config, requested, stack, seen, order, outcome>>

\* The same, before the loop's index moves on.
FailRepeatedSpinning ==
  /\ InProgress
  /\ MoreToVisit
  /\ Candidate \in Defined
  /\ Candidate \in seen
  /\ UNCHANGED vars

\* Every call pushes, the outermost one too.
ReturnAlways ==
  /\ InProgress
  /\ ~MoreToVisit
  /\ order' = Append(order, Top)
  /\ IF Top = Cli THEN outcome' = Ok /\ stack' = stack
                  ELSE stack' = Popped /\ outcome' = outcome
  /\ UNCHANGED <<config, requested, next, seen>>

\* The profile goes in front of what it uses.
ReturnPrepending ==
  /\ InProgress
  /\ ~MoreToVisit
  /\ Top # Cli
  /\ order' = <<Top>> \o order
  /\ stack' = Popped
  /\ UNCHANGED <<config, requested, next, seen, outcome>>

-----------------------------------------------------------------------------
\* get_key_value finds no such profile.
FailUnknown ==
  /\ InProgress
  /\ MoreToVisit
  /\ Candidate \notin Defined
  /\ outcome' = UnknownProfile(Candidate)
  /\ UNCHANGED <<config, requested, stack, next, seen, order>>

\* seen.insert returns false.
FailRepeated ==
  /\ InProgress
  /\ MoreToVisit
  /\ Candidate \in Defined
  /\ Candidate \in seen
  /\ outcome' = RepeatedProfile(Candidate)
  /\ UNCHANGED <<config, requested, stack, next, seen, order>>

\* The recursive call for the next entry.
Descend ==
  /\ InProgress
  /\ MoreToVisit
  /\ Candidate \in Defined
  /\ Candidate \notin seen
  /\ seen' = seen \cup {Candidate}
  /\ next' = [next EXCEPT ![Top] = @ + 1]
  /\ stack' = Append(stack, Candidate)
  /\ UNCHANGED <<config, requested, order, outcome>>

\* A call's loop is done: the profile follows everything it uses.
Return ==
  /\ InProgress
  /\ ~MoreToVisit
  /\ Top # Cli
  /\ order' = Append(order, Top)
  /\ stack' = Popped
  /\ UNCHANGED <<config, requested, next, seen, outcome>>

\* The outermost loop is done.
Finish ==
  /\ InProgress
  /\ ~MoreToVisit
  /\ Top = Cli
  /\ outcome' = Ok
  /\ UNCHANGED <<config, requested, stack, next, seen, order>>

Next == FailUnknown \/ FailRepeated \/ Descend \/ Return \/ Finish

Spec == Init /\ [][Next]_vars

\* A sequential program that keeps running.
FairSpec == Spec /\ WF_vars(Next)

-----------------------------------------------------------------------------
(***************************************************************************)
(* What the walk is to compute, said without a walk.                       *)
(***************************************************************************)
\* S holds what c uses and, of its defined members, what they use.
ClosedUnder(S, c) ==
  /\ Range(Uses(c)) \subseteq S
  /\ \A n \in S \cap Defined : Range(config[n]) \subseteq S

\* The names c uses, directly or through others.
Reach(c) == {n \in Name : \A S \in SUBSET Name : ClosedUnder(S, c) => n \in S}

\* A name and everything it uses.
Below(n) == {n} \cup Reach(n)

\* Whose lists count: the command line's and those of the reached profiles.
Users == {Cli} \cup (Reach(Cli) \cap Defined)

\* The places that name n.
Mentions(n) ==
  UNION {{<<c, i>> : i \in {j \in DOMAIN Uses(c) : Uses(c)[j] = n}} : c \in Users}

Before(x, y) ==
  \E p, q \in DOMAIN order : p < q /\ order[p] = x /\ order[q] = y

-----------------------------------------------------------------------------
\* Every variable stays in its type; the entries of `order` are profiles.
TypeOK ==
  /\ config \in Configs
  /\ requested \in Requests
  /\ stack \in Seq(Caller)
  /\ next \in [Caller -> Nat \ {0}]
  /\ seen \subseteq Defined
  /\ order \in Seq(Defined)
  /\ outcome \in {Walking, Ok} \cup {UnknownProfile(n) : n \in Name}
                   \cup {RepeatedProfile(n) : n \in Name}

\* What the comment on resolve_uses_helper says of its recursion: cyclic
\* `uses` lists included, no chain of calls is longer than the profiles are
\* many.
DepthBounded == Len(stack) <= 1 + Cardinality(Defined)

\* At every moment of the walk the profiles pushed so far are distinct and
\* each comes after all those it uses, which is what the right-biased fold
\* over them relies on.
DepsFirst ==
  /\ \A p, q \in DOMAIN order : order[p] = order[q] => p = q
  /\ \A p \in DOMAIN order :
       Range(config[order[p]]) \subseteq {order[q] : q \in 1 .. p - 1}

\* An accepted request yields exactly the profiles it reaches, all of them
\* defined and each named in one place only.
AcceptedExactly ==
  outcome = Ok =>
    /\ Range(order) = Reach(Cli)
    /\ Reach(Cli) \subseteq Defined
    /\ \A n \in Reach(Cli) : \A l, m \in Mentions(n) : l = m

\* A refusal has its cause in what the request reaches: a name without a
\* profile, or one that is named in two places (on a cycle, say).
RefusedForCause ==
  \A n \in Name :
    /\ outcome = UnknownProfile(n) => n \in Reach(Cli) \ Defined
    /\ outcome = RepeatedProfile(n) =>
         /\ n \in Reach(Cli) \cap Defined
         /\ \E l, m \in Mentions(n) : l # m

\* Of two entries of one list, the earlier and all it uses are applied before
\* the later and all it uses: the later one wins a conflict, wherever in the
\* two subtrees it arises.
LaterEntriesWin ==
  outcome = Ok =>
    \A c \in Users : \A i, j \in DOMAIN Uses(c) :
      i < j => \A x \in Below(Uses(c)[i]), y \in Below(Uses(c)[j]) :
                 Before(x, y)

\* The walk ends, on cyclic lists too.
Terminates == <>(outcome # Walking)
=============================================================================
