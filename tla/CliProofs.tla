------------------------------ MODULE CliProofs ------------------------------
(***************************************************************************)
(* What Cli promises of the declaration, of the words, of the preflight    *)
(* checks and of the exit code, for every set of command lines, every host *)
(* and every end of the sandbox.  The preflight and the exit code need     *)
(* only that a line is rejected or is not; the declaration and the words   *)
(* are about what clap and the values' grammars make of it.                *)
(***************************************************************************)
EXTENDS Cli, MapsProofs

-----------------------------------------------------------------------------
(* The inductive invariant.                                                *)

\* What each check sees on the host.
BwrapSeen == IF machine.bwrap = "ok" THEN "pass" ELSE "fail"
PastaSeen == IF machine.pasta = "ok" THEN "pass" ELSE "fail"
UsernsSeen ==
  IF machine.bwrap # "ok" THEN "skip"
  ELSE IF machine.sysctl # "1" \/ machine.userns THEN "pass" ELSE "fail"

Two ==
  << [name |-> "bwrap", outcome |-> BwrapSeen],
     [name |-> "pasta", outcome |-> PastaSeen] >>
All == Append(Two, [name |-> "userns", outcome |-> UsernsSeen])

\* The results there are at each step.
Seen ==
  /\ pc \in {"parse", "bwrap"} => results = <<>>
  /\ pc = "pasta" => results = << [name |-> "bwrap", outcome |-> BwrapSeen] >>
  /\ pc = "userns" => results = Two
  /\ pc = "report" => results = All

\* The steps of each command.
Course ==
  /\ line \in Lines
  /\ pc \in Steps
  /\ line.command = "show" => pc \in {"parse", "load", "ended"}
  /\ line.command = "check" => pc \notin {"load", "sandbox"}
  /\ pc \notin {"parse", "ended"} => ~Rejected(line.command, Parsed)
  /\ pc = "sandbox" \/ (pc = "load" /\ line.command = "run") => Ready

\* Before the end there is no report and no outcome.
Unended == pc # "ended" => report = None /\ outcome = None

\* What there is at the end.
Ended ==
  pc = "ended" =>
    \/ /\ exit = 2 /\ report = None /\ outcome = None
       /\ Rejected(line.command, Parsed)
    \/ /\ exit = 1 /\ report = None /\ outcome = None
       /\ line.command = "check" => ~Ready
    \/ /\ line.command # "show" /\ report = All /\ outcome = None
       /\ exit = IF Ready THEN 0 ELSE 1
       /\ Ready => line.command = "check"
       /\ ~Rejected(line.command, Parsed)
    \/ /\ line.command = "show" /\ exit = 0 /\ report = None /\ outcome = None
    \/ /\ line.command = "run" /\ report = None /\ outcome \in Outcomes
       /\ exit = ExitOf(outcome)

IInv == Seen /\ Course /\ Unended /\ Ended

-----------------------------------------------------------------------------
(* The checks.                                                             *)

LEMMA SecondAppended ==
  ASSUME NEW a, NEW b
  PROVE  Append(<<a>>, b) = <<a, b>>
<1>1. PICK S : S = {a, b}
  OBVIOUS
<1>2. PICK one : one = <<a>>
  OBVIOUS
<1>3. PICK two : two = <<a, b>>
  OBVIOUS
<1>4. one \in Seq(S) /\ Len(one) = 1 /\ one[1] = a /\ b \in S
  BY <1>1, <1>2
<1>5. two \in Seq(S) /\ Len(two) = 2 /\ two[1] = a /\ two[2] = b
  BY <1>1, <1>3
<1>6. Append(one, b) \in Seq(S)
  BY <1>4
<1>7. Len(Append(one, b)) = 2
  BY <1>4, SMTT(30)
<1>8. Append(one, b)[1] = a
  <2>1. \A i \in 1 .. Len(one) : Append(one, b)[i] = one[i]
    BY <1>4, AppendProperties
  <2>2. 1 \in 1 .. Len(one)
    BY <1>4
  <2> QED
    BY <2>1, <2>2, <1>4
<1>9. Append(one, b)[2] = b
  <2>1. Append(one, b)[Len(one) + 1] = b
    BY <1>4, AppendProperties
  <2>2. Len(one) + 1 = 2
    BY <1>4
  <2> QED
    BY <2>1, <2>2
<1>10. PICK longer : longer = Append(one, b)
  OBVIOUS
<1>11. longer \in Seq(S) /\ Len(longer) = Len(two)
  BY <1>5, <1>6, <1>7, <1>10
<1>12. \A i \in 1 .. Len(longer) : longer[i] = two[i]
  BY <1>5, <1>7, <1>8, <1>9, <1>10
<1>13. longer = two
  BY <1>5, <1>11, <1>12, SeqEqual
<1> QED
  BY <1>2, <1>3, <1>10, <1>13

LEMMA AllShape ==
  /\ Len(All) = 3 /\ DOMAIN All = 1 .. 3
  /\ All[1] = [name |-> "bwrap", outcome |-> BwrapSeen]
  /\ All[2] = [name |-> "pasta", outcome |-> PastaSeen]
  /\ All[3] = [name |-> "userns", outcome |-> UsernsSeen]
<1> DEFINE third == [name |-> "userns", outcome |-> UsernsSeen]
<1>1. /\ Two \in Seq({Two[1], Two[2]}) /\ Len(Two) = 2
      /\ Two[1] = [name |-> "bwrap", outcome |-> BwrapSeen]
      /\ Two[2] = [name |-> "pasta", outcome |-> PastaSeen]
  BY DEF Two
<1> HIDE DEF third
<1>2. All = Append(Two, third)
  BY DEF All, third
<1>3. Len(All) = 3 /\ All[1] = Two[1] /\ All[2] = Two[2] /\ All[3] = third
  BY <1>1, <1>2, SMTT(30)
<1>4. All \in Seq({Two[1], Two[2], third})
  BY <1>1, <1>2
<1>5. DOMAIN All = 1 .. 3
  BY <1>3, <1>4
<1> QED
  BY <1>1, <1>3, <1>5 DEF third

\* Some check fails exactly if something the sandbox needs does not work.
LEMMA FailedIffUnready ==
  ASSUME results = All
  PROVE  AnyFailed <=> ~Ready
<1>1. AnyFailed <=> BwrapSeen = "fail" \/ PastaSeen = "fail" \/ UsernsSeen = "fail"
  BY AllShape DEF AnyFailed
<1> QED
  BY <1>1 DEF BwrapSeen, PastaSeen, UsernsSeen, Ready

LEMMA UsernsIsSeen ==
  ASSUME results = Two
  PROVE  Userns = UsernsSeen
<1>1. results[1].outcome = BwrapSeen
  BY DEF Two
<1> QED
  BY <1>1 DEF Userns, UsernsSeen, BwrapSeen

-----------------------------------------------------------------------------
(* The invariant.                                                          *)

LEMMA InvInit == Init => IInv
BY DEF Init, IInv, Seen, Course, Unended, Ended, Steps

\* A step that leaves the line and the host alone, as all do, leaves what
\* depends on them.
LEMMA Constants ==
  ASSUME UNCHANGED <<line, machine>>
  PROVE  /\ Two' = Two /\ All' = All
         /\ << [name |-> "bwrap", outcome |-> BwrapSeen] >>' =
              << [name |-> "bwrap", outcome |-> BwrapSeen] >>
         /\ Ready' <=> Ready
         /\ Rejected(line.command, Parsed)' <=> Rejected(line.command, Parsed)
<1>1. Two' = Two /\ All' = All
  BY DEF Two, All, BwrapSeen, PastaSeen, UsernsSeen
<1>2. << [name |-> "bwrap", outcome |-> BwrapSeen] >>' =
        << [name |-> "bwrap", outcome |-> BwrapSeen] >>
  BY DEF BwrapSeen
<1>3. Ready' <=> Ready
  BY DEF Ready
<1>4. Rejected(line.command, Parsed)' <=> Rejected(line.command, Parsed)
  BY DEF Parsed
<1> QED
  BY <1>1, <1>2, <1>3, <1>4

LEMMA InvStep == IInv /\ [Next]_vars => IInv'
<1> SUFFICES ASSUME IInv, [Next]_vars PROVE IInv'
  OBVIOUS
<1>0. line.command \in {"run", "show", "check"}
  BY LinesAssumption DEF IInv, Course
<1> USE DEF IInv, Seen, Course, Unended, Ended, End, Goto, Steps
<1>1. CASE Reject
  BY <1>1, Constants DEF Reject
<1>2. CASE Accept
  BY <1>2, <1>0, Constants DEF Accept
<1>3. CASE ProbeBwrap
  <2>1. results' = << [name |-> "bwrap", outcome |-> BwrapSeen] >>
    BY <1>3 DEF ProbeBwrap, Result, BwrapSeen
  <2> QED
    BY <1>3, <1>0, <2>1, Constants DEF ProbeBwrap
<1>4. CASE ProbePasta
  <2>1. results' = Two
    <3>1. results = << [name |-> "bwrap", outcome |-> BwrapSeen] >>
      BY <1>4 DEF ProbePasta
    <3>2. results' = Append(results, [name |-> "pasta", outcome |-> PastaSeen])
      BY <1>4 DEF ProbePasta, Result, PastaSeen
    <3> QED
      BY <3>1, <3>2, SecondAppended DEF Two
  <2> QED
    BY <1>4, <1>0, <2>1, Constants DEF ProbePasta
<1>5. CASE CheckUserns
  <2>1. results' = All
    BY <1>5, UsernsIsSeen DEF CheckUserns, Result, All
  <2> QED
    BY <1>5, <1>0, <2>1, Constants DEF CheckUserns
<1>6. CASE UsernsFails
  <2>1. ~Ready
    BY <1>6, UsernsIsSeen DEF UsernsFails, UsernsSeen, Ready
  <2> QED
    BY <1>6, <2>1, Constants DEF UsernsFails
<1>7. CASE Report
  <2>1. AnyFailed <=> ~Ready
    BY <1>7, FailedIffUnready DEF Report
  <2> QED
    BY <1>7, <1>0, <2>1, Constants DEF Report
<1>8. CASE Proceed
  <2>1. Ready
    BY <1>8, FailedIffUnready DEF Proceed
  <2> QED
    BY <1>8, <2>1, Constants DEF Proceed
<1>9. CASE LoadFails
  BY <1>9, Constants DEF LoadFails
<1>10. CASE Load
  BY <1>10, <1>0, Constants DEF Load
<1>11. ASSUME NEW end \in Outcomes, Finish(end) PROVE IInv'
  BY <1>11, <1>0, Constants DEF Finish, ExitOf
<1>12. CASE UNCHANGED vars
  BY <1>12, Constants DEF vars, ExitOf
<1> QED
  BY <1>1, <1>2, <1>3, <1>4, <1>5, <1>6, <1>7, <1>8, <1>9, <1>10, <1>11, <1>12
  DEF Next

LEMMA Invariant == Spec => []IInv
BY InvInit, InvStep, PTL DEF Spec

-----------------------------------------------------------------------------
(* What is picked from a list.                                             *)

\* One element, or none; those of the first n.
OneOf(list, places, i) == IF i \in places THEN <<list[i]>> ELSE <<>>
PickedOf(list, places, n) == FlattenSeq([i \in 1 .. n |-> OneOf(list, places, i)])

LEMMA PickedAll ==
  ASSUME NEW T, NEW list \in Seq(T), NEW places
  PROVE  Picked(list, places) = PickedOf(list, places, Len(list))
<1>1. DOMAIN list = 1 .. Len(list)
  BY LenProperties
<1> QED
  BY <1>1, Zenon DEF Picked, PickedOf, OneOf

LEMMA PickedNone ==
  ASSUME NEW list, NEW places
  PROVE  PickedOf(list, places, 0) = <<>>
<1>1. [i \in 1 .. 0 |-> OneOf(list, places, i)] = <<>>
  OBVIOUS
<1> QED
  BY <1>1, FlattenEmpty DEF PickedOf

LEMMA PickedMore ==
  ASSUME NEW T, NEW list, NEW places, NEW n \in Nat,
         \A i \in 1 .. n + 1 : i \in places => list[i] \in T
  PROVE  /\ PickedOf(list, places, n) \in Seq(T)
         /\ PickedOf(list, places, n + 1) \in Seq(T)
         /\ PickedOf(list, places, n + 1) =
              PickedOf(list, places, n) \o OneOf(list, places, n + 1)
<1> DEFINE f == [i \in 1 .. n |-> OneOf(list, places, i)]
           g == [i \in 1 .. n + 1 |-> OneOf(list, places, i)]
<1>1. ASSUME NEW i \in 1 .. n + 1
      PROVE  OneOf(list, places, i) \in Seq(T)
  BY DEF OneOf
<1>2. f \in [1 .. n -> Seq(T)] /\ g \in [1 .. n + 1 -> Seq(T)]
  BY <1>1
<1>3. (\A i \in 1 .. n : f[i] = g[i]) /\ g[n + 1] = OneOf(list, places, n + 1)
  OBVIOUS
<1> HIDE DEF f, g
<1>4. /\ FlattenSeq(f) \in Seq(T) /\ FlattenSeq(g) \in Seq(T)
      /\ FlattenSeq(g) = FlattenSeq(f) \o g[n + 1]
  BY <1>2, <1>3, FlattenMore
<1>5. /\ PickedOf(list, places, n) = FlattenSeq(f)
      /\ PickedOf(list, places, n + 1) = FlattenSeq(g)
  BY DEF PickedOf, f, g
<1> QED
  BY <1>3, <1>4, <1>5

\* What is picked is what the list has at these places.
LEMMA PickedTyped ==
  ASSUME NEW U, NEW list \in Seq(U), NEW places,
         NEW T, \A i \in DOMAIN list : i \in places => list[i] \in T
  PROVE  Picked(list, places) \in Seq(T)
<1>0. Picked(list, places) = PickedOf(list, places, Len(list))
  BY PickedAll
<1>1. Len(list) \in Nat /\ DOMAIN list = 1 .. Len(list)
  BY LenProperties
<1>2. CASE Len(list) = 0
  <2>1. PickedOf(list, places, Len(list)) = <<>>
    BY <1>2, PickedNone
  <2>2. <<>> \in Seq(T)
    OBVIOUS
  <2> QED
    BY <1>0, <2>1, <2>2
<1>3. CASE Len(list) # 0
  <2>1. Len(list) - 1 \in Nat /\ (Len(list) - 1) + 1 = Len(list)
    BY <1>1, <1>3
  <2>2. \A i \in 1 .. (Len(list) - 1) + 1 : i \in places => list[i] \in T
    BY <1>1, <2>1
  <2>3. PickedOf(list, places, (Len(list) - 1) + 1) \in Seq(T)
    BY <2>1, <2>2, PickedMore
  <2> QED
    BY <1>0, <2>1, <2>3
<1> QED
  BY <1>1, <1>2, <1>3

\* Nothing is picked where there are no places.
LEMMA PickedSkips ==
  ASSUME NEW T, NEW list \in Seq(T), NEW places,
         NEW m \in Nat, NEW n \in Nat, m <= n, n <= Len(list),
         \A i \in places : ~(m < i /\ i <= n)
  PROVE  PickedOf(list, places, n) = PickedOf(list, places, m)
<1> DEFINE S == {k \in Nat : m + k <= n =>
                   PickedOf(list, places, m + k) = PickedOf(list, places, m)}
<1>1. 0 \in S
  OBVIOUS
<1>2. ASSUME NEW k \in Nat, k \in S
      PROVE  k + 1 \in S
  <2> SUFFICES ASSUME m + (k + 1) <= n
               PROVE  PickedOf(list, places, m + (k + 1)) = PickedOf(list, places, m)
    OBVIOUS
  <2>1. m + k \in Nat /\ (m + k) + 1 <= Len(list) /\ m + (k + 1) = (m + k) + 1
    BY LenProperties
  <2>2. PickedOf(list, places, m + k) = PickedOf(list, places, m)
    BY <1>2
  <2>3. /\ PickedOf(list, places, m + k) \in Seq(T)
        /\ PickedOf(list, places, (m + k) + 1) =
             PickedOf(list, places, m + k) \o OneOf(list, places, (m + k) + 1)
    <3>1. \A i \in 1 .. (m + k) + 1 : list[i] \in T
      BY <2>1, LenProperties
    <3> QED
      BY <2>1, <3>1, PickedMore
  <2>4. OneOf(list, places, (m + k) + 1) = <<>>
    BY <2>1 DEF OneOf
  <2>5. PickedOf(list, places, m + k) \o <<>> = PickedOf(list, places, m + k)
    BY <2>3, ConcatEmptySeq
  <2> QED
    BY <2>1, <2>2, <2>3, <2>4, <2>5
<1> HIDE DEF S
<1>3. \A k \in Nat : k \in S
  BY <1>1, <1>2, Induction
<1>4. n - m \in S /\ m + (n - m) = n
  BY <1>3
<1> QED
  BY <1>4 DEF S

\* All of the first n, and what follows left out: the list's beginning.
LEMMA PickedFront ==
  ASSUME NEW T, NEW list \in Seq(T), NEW places, NEW n \in Nat, n <= Len(list),
         1 .. n \subseteq places
  PROVE  /\ PickedOf(list, places, n) \in Seq(T)
         /\ Len(PickedOf(list, places, n)) = n
         /\ \A i \in 1 .. n : PickedOf(list, places, n)[i] = list[i]
<1> DEFINE p(k) == PickedOf(list, places, k)
           Good(k) == /\ p(k) \in Seq(T) /\ Len(p(k)) = k
                      /\ \A i \in 1 .. k : p(k)[i] = list[i]
           S == {k \in Nat : k <= n => Good(k)}
<1>1. 0 \in S
  <2>1. p(0) = <<>>
    BY PickedNone
  <2> HIDE DEF p
  <2>2. <<>> \in Seq(T) /\ Len(<<>>) = 0 /\ 1 .. 0 = {}
    OBVIOUS
  <2>3. Good(0)
    BY <2>1, <2>2
  <2> QED
    BY <2>3
<1>2. ASSUME NEW k \in Nat, k \in S
      PROVE  k + 1 \in S
  <2> SUFFICES ASSUME k + 1 <= n
               PROVE  Good(k + 1)
    OBVIOUS
  <2>1. Good(k)
    BY <1>2
  <2>2. p(k + 1) \in Seq(T) /\ p(k + 1) = p(k) \o OneOf(list, places, k + 1)
    <3>1. \A i \in 1 .. k + 1 : list[i] \in T
      BY LenProperties
    <3> QED
      BY <3>1, PickedMore
  <2>3. OneOf(list, places, k + 1) = <<list[k + 1]>> /\ list[k + 1] \in T
    BY LenProperties DEF OneOf
  <2> HIDE DEF p
  <2>4. p(k + 1) = Append(p(k), list[k + 1])
    BY <2>1, <2>2, <2>3, AppendIsConcat
  <2>5. /\ Len(p(k + 1)) = k + 1
        /\ \A i \in 1 .. k : p(k + 1)[i] = p(k)[i]
        /\ p(k + 1)[k + 1] = list[k + 1]
    <3> DEFINE s == p(k)
               a == Append(s, list[k + 1])
    <3>1. s \in Seq(T) /\ Len(s) = k /\ list[k + 1] \in T
      BY <2>1, <2>3
    <3> HIDE DEF s
    <3>2. /\ Len(a) = Len(s) + 1
          /\ \A i \in 1 .. Len(s) : a[i] = s[i]
          /\ a[Len(s) + 1] = list[k + 1]
      BY <3>1, AppendProperties
    <3>3. p(k + 1) = a
      BY <2>4 DEF s
    <3> HIDE DEF a
    <3> QED
      BY <3>1, <3>2, <3>3 DEF s
  <2> QED
    BY <2>1, <2>2, <2>5
<1> HIDE DEF S
<1>3. n \in S
  BY <1>1, <1>2, Induction
<1> QED
  BY <1>3 DEF S

-----------------------------------------------------------------------------
(* What the values' grammars make of a value.                              *)

\* A part of a list is a list of the same.
LEMMA Part ==
  ASSUME NEW T, NEW s \in Seq(T), NEW a \in Nat, NEW b \in Int,
         1 <= a, b <= Len(s)
  PROVE  SubSeq(s, a, b) \in Seq(T)
<1>1. Len(s) \in Nat /\ DOMAIN s = 1 .. Len(s) /\ \A i \in 1 .. Len(s) : s[i] \in T
  BY LenProperties
<1>3. CASE a <= b
  BY <1>1, <1>3, SubSeqProperties
<1>4. CASE b < a
  <2>1. SubSeq(s, a, b) = <<>>
    BY <1>4, SubSeqProperties
  <2> QED
    BY <2>1
<1> QED
  BY <1>3, <1>4

\* A value has at least one field, and all are made of its words.
LEMMA SplitTyped ==
  ASSUME NEW spec \in Seq(Word), NEW separator
  PROVE  /\ Split(spec, separator) \in Seq(Seq(Word))
         /\ Len(Split(spec, separator)) >= 1
<1> DEFINE places == {i \in DOMAIN spec : spec[i] = separator}
           list == [i \in DOMAIN spec |-> i]
           N == 0 .. Len(spec) + 1
           inner == Picked(list, places)
           cuts == <<0>> \o inner \o <<Len(spec) + 1>>
           f == [k \in 1 .. Len(cuts) - 1 |-> SubSeq(spec, cuts[k] + 1, cuts[k + 1] - 1)]
<1>1. Len(spec) \in Nat /\ DOMAIN spec = 1 .. Len(spec)
  BY LenProperties
<1>2. inner \in Seq(N)
  <2>1. list \in Seq(DOMAIN spec)
    BY <1>1
  <2>2. \A i \in DOMAIN list : list[i] \in N
    BY <1>1
  <2> QED
    BY <2>1, <2>2, PickedTyped
<1> HIDE DEF inner
<1>3. cuts \in Seq(N) /\ Len(cuts) = Len(inner) + 2
  <2>1. <<0>> \in Seq(N) /\ <<Len(spec) + 1>> \in Seq(N)
    BY <1>1
  <2> QED
    BY <1>2, <2>1
<1>4. Len(cuts) - 1 \in Nat /\ Len(cuts) - 1 >= 1
  BY <1>2, <1>3, LenProperties
<1> HIDE DEF cuts
<1>5. ASSUME NEW k \in 1 .. Len(cuts) - 1
      PROVE  SubSeq(spec, cuts[k] + 1, cuts[k + 1] - 1) \in Seq(Word)
  <2>1. cuts[k] \in N /\ cuts[k + 1] \in N
    BY <1>3, <1>4, LenProperties
  <2>2. cuts[k] + 1 \in Nat /\ 1 <= cuts[k] + 1 /\ cuts[k + 1] - 1 \in Int
        /\ cuts[k + 1] - 1 <= Len(spec)
    BY <1>1, <2>1
  <2> QED
    BY <2>2, Part
<1>6. f \in [1 .. Len(cuts) - 1 -> Seq(Word)]
  BY <1>5
<1>7. f \in Seq(Seq(Word)) /\ Len(f) = Len(cuts) - 1
  BY <1>4, <1>6
<1>8. Split(spec, separator) = f
  BY DEF Split, f, cuts, inner, list, places
<1> QED
  BY <1>4, <1>7, <1>8

LEMMA FieldTyped ==
  ASSUME NEW f \in Seq(Seq(Word)), NEW k \in Nat, 1 <= k, k <= Len(f)
  PROVE  /\ f[k] \in Seq(Word)
         /\ f[k] # <<>> => Head(f[k]) \in Word
<1>1. f[k] \in Seq(Word)
  BY LenProperties
<1> QED
  BY <1>1

\* MountDecl::from_str: both paths are absolute.
LEMMA MountParsed ==
  ASSUME NEW spec \in Seq(Word), MountFrom(spec) # None
  PROVE  /\ MountFrom(spec) \in MountDecl
         /\ MountFrom(spec).host.form = "abs"
         /\ MountFrom(spec).sandbox # None => MountFrom(spec).sandbox.form = "abs"
<1> DEFINE f == Split(spec, ":")
           m == [host |-> Abs(f[1]),
                 sandbox |-> IF Len(f) >= 2 THEN Abs(f[2]) ELSE None,
                 access |-> IF Len(f) = 3 THEN Head(f[3]) ELSE None]
<1>1. f \in Seq(Seq(Word)) /\ Len(f) \in Nat /\ Len(f) >= 1
  BY SplitTyped, LenProperties
<1>2. MountFrom(spec) = m /\ (Len(f) = 3 => f[3] \in {<<"ro">>, <<"rw">>})
  BY DEF MountFrom
<1> HIDE DEF f
<1>3. Abs(f[1]) \in Written /\ Abs(f[1]).form = "abs"
  BY <1>1, FieldTyped DEF Abs, Written, Path
<1>4. Len(f) >= 2 => Abs(f[2]) \in Written /\ Abs(f[2]).form = "abs"
  BY <1>1, FieldTyped DEF Abs, Written, Path
<1>5. Len(f) = 3 => Head(f[3]) \in Access
  BY <1>2 DEF Access
<1>6. m \in MountDecl
  BY <1>3, <1>4, <1>5 DEF MountDecl, Option
<1>7. m.host.form = "abs" /\ (m.sandbox # None => m.sandbox.form = "abs")
  BY <1>3, <1>4
<1> QED
  BY <1>2, <1>6, <1>7

\* The parts of the assumption on the grammars, for one word.
LEMMA WordGrammar ==
  ASSUME NEW word \in Word
  PROVE  /\ word \in STRING
         /\ NumberOf[word] # None => NumberOf[word] \in Nat
         /\ ActionNamed[word] # None => ActionNamed[word] \in Action
<1>1. word \in STRING
  BY Zenon, GrammarAssumption
<1>2. NumberOf[word] \in Option(Port) /\ ActionNamed[word] \in Option(Action)
  BY Zenon, GrammarAssumption
<1>3. NumberOf[word] = None \/ NumberOf[word] \in Port
  BY <1>2, Zenon DEF Option
<1>4. ActionNamed[word] = None \/ ActionNamed[word] \in Action
  BY <1>2, Zenon DEF Option
<1>5. Port \subseteq Nat
  BY DEF Port
<1> QED
  BY <1>1, <1>3, <1>4, <1>5, Zenon

LEMMA NumberTyped ==
  ASSUME NEW field \in Seq(Word)
  PROVE  Number(field) # None => Number(field) \in Nat
<1>1. Len(field) = 1 => Head(field) \in Word
  OBVIOUS
<1> QED
  BY <1>1, WordGrammar, Zenon DEF Number

\* ForwardDecl::from_str
LEMMA ForwardParsed ==
  ASSUME NEW spec \in Seq(Word), ForwardFrom(spec) # None
  PROVE  ForwardFrom(spec) \in ForwardDecl
<1> DEFINE f == Split(spec, ":")
           ports == [i \in DOMAIN f |-> Number(f[i])]
<1>1. f \in Seq(Seq(Word)) /\ Len(f) \in Nat /\ Len(f) >= 1 /\ DOMAIN f = 1 .. Len(f)
  BY SplitTyped, LenProperties
<1>2. /\ ForwardFrom(spec) = [host_port |-> ports[1],
              sandbox_port |-> IF Len(f) = 2 THEN ports[2] ELSE None]
      /\ \A i \in DOMAIN f : ports[i] # None
  BY DEF ForwardFrom
<1> HIDE DEF f
<1>3. \A i \in DOMAIN f : ports[i] \in Nat
  <2> TAKE i \in DOMAIN f
  <2>1. f[i] \in Seq(Word) /\ ports[i] = Number(f[i])
    BY <1>1, FieldTyped
  <2> QED
    BY <1>2, <2>1, NumberTyped
<1>4. ports[1] \in Nat /\ (Len(f) = 2 => ports[2] \in Nat)
  BY <1>1, <1>3
<1> QED
  BY <1>2, <1>4 DEF ForwardDecl, Option

\* EnvVarDecl::from_str
LEMMA EnvVarParsed ==
  ASSUME NEW spec \in Seq(Word)
  PROVE  EnvVarFrom(spec) \in EnvVarDecl
<1> DEFINE f == Split(spec, "=")
           name == IF f[1] = <<>> THEN "" ELSE Head(f[1])
           rest == SubSeq(spec, Len(f[1]) + 2, Len(spec))
           value == IF Len(f) = 1 THEN None ELSE <<[form |-> "text", rest |-> rest]>>
<1>1. f \in Seq(Seq(Word)) /\ Len(f) \in Nat /\ Len(f) >= 1
  BY SplitTyped, LenProperties
<1>2. EnvVarFrom(spec) = [name |-> name, value |-> value]
  BY DEF EnvVarFrom
<1> HIDE DEF f
<1>3. f[1] \in Seq(Word) /\ (f[1] # <<>> => Head(f[1]) \in Word)
  BY <1>1, FieldTyped
<1>4. name \in STRING
  <2>1. "" \in STRING
    BY Zenon, GrammarAssumption
  <2>2. CASE f[1] = <<>>
    BY <2>1, <2>2, Zenon
  <2>3. CASE f[1] # <<>>
    BY <1>3, <2>3, WordGrammar, Zenon
  <2> QED
    BY <2>2, <2>3
<1>5. rest \in Seq(Word)
  <2>1. Len(f[1]) + 2 \in Nat /\ 1 <= Len(f[1]) + 2 /\ Len(spec) \in Int
        /\ Len(spec) <= Len(spec)
    BY <1>3, LenProperties
  <2> QED
    BY <2>1, Part
<1> HIDE DEF rest
<1>6. value \in Option(Seq(Written))
  <2>1. [form |-> "text", rest |-> rest] \in Written
    BY <1>5 DEF Written, Path
  <2> QED
    BY <2>1 DEF Option
<1> HIDE DEF name, value
<1> QED
  BY <1>2, <1>4, <1>6 DEF EnvVarDecl

\* ProxyDecl::from_str
LEMMA ProxyParsed ==
  ASSUME NEW spec \in Seq(Word), ProxyFrom(spec) # None
  PROVE  ProxyFrom(spec) \in ProxyDecl
<1> DEFINE f == Split(spec, "=")
           at == Split(f[1], ":")
           host == IF Len(at[1]) = 1 THEN HostnameOf(Head(at[1])) ELSE None
           port == IF Len(at) = 2 THEN Number(at[2]) ELSE 443
           action == IF Len(f) = 1 THEN "allow"
                     ELSE IF Len(f[2]) = 1 THEN ActionNamed[Head(f[2])] ELSE None
<1>1. f \in Seq(Seq(Word)) /\ Len(f) \in Nat /\ Len(f) >= 1
  BY SplitTyped, LenProperties
<1>2. /\ ProxyFrom(spec) = [host |-> host, port |-> port, action |-> action,
                            headers |-> <<>>, params |-> <<>>, auth |-> None]
      /\ host # None /\ port # None /\ action # None
  BY DEF ProxyFrom
<1>9. Len(f) <= 2
  BY DEF ProxyFrom
<1> HIDE DEF f
<1>3. f[1] \in Seq(Word) /\ (Len(f) = 2 => f[2] \in Seq(Word))
  BY <1>1, FieldTyped
<1>4. at \in Seq(Seq(Word)) /\ Len(at) \in Nat /\ Len(at) >= 1
  BY <1>3, SplitTyped, LenProperties
<1> HIDE DEF at
<1>5. host \in Hostname
  <2>1. host = HostnameOf(Head(at[1]))
    BY <1>2
  <2>2. PICK text : text = Head(at[1])
    OBVIOUS
  <2>3. text \in HostText /\ Lower[text] # "" /\ host = Lower[text]
    BY <1>2, <2>1, <2>2, Zenon DEF HostnameOf
  <2>4. Lower[text] \in Hostname
    BY <2>3, Zenon DEF Hostname
  <2> QED
    BY <2>3, <2>4, Zenon
<1>6. port \in Nat
  <2>1. Len(at) = 2 => at[2] \in Seq(Word)
    BY <1>4, Element
  <2>2. Len(at) = 2 => port \in Nat
    BY <1>2, <2>1, NumberTyped, Zenon
  <2>3. Len(at) # 2 => port = 443
    OBVIOUS
  <2> QED
    BY <2>2, <2>3
<1>7. action \in Action
  <2>1. Len(f) = 1 \/ Len(f) = 2
    <3>1. \A l \in Nat : l >= 1 /\ l <= 2 => l = 1 \/ l = 2
      OBVIOUS
    <3> QED
      BY <1>1, <1>9, <3>1
  <2>2. Len(f) = 2 /\ Len(f[2]) = 1 => Head(f[2]) \in Word
    BY <1>3
  <2>3. CASE Len(f) = 1
    BY <2>3 DEF Action
  <2>4. CASE Len(f) # 1
    BY <1>2, <2>1, <2>2, <2>4, WordGrammar, SMTT(30)
  <2> QED
    BY <2>3, <2>4
<1> HIDE DEF host, port, action
<1>8. <<>> \in Seq([key : Word, item : Template])
  OBVIOUS
<1> QED
  BY <1>2, <1>5, <1>6, <1>7, <1>8 DEF ProxyDecl, Option

LEMMA ReadonlyParsed ==
  ASSUME NEW given, ReadonlyFrom(given) # "bad"
  PROVE  ReadonlyFrom(given) \in Option(Access)
BY DEF ReadonlyFrom, Option, Access

LEMMA WebParsed ==
  ASSUME NEW given \in Seq(Option(Seq(Word))), WebFrom(given) # "bad"
  PROVE  WebFrom(given) \in Option(Action)
<1>1. CASE given = <<>>
  BY <1>1 DEF WebFrom, Option
<1>2. CASE given # <<>>
  <2>1. given[1] \in Option(Seq(Word))
    BY <1>2
  <2>2. CASE given[1] = None
    BY <1>2, <2>2 DEF WebFrom, Option, Action
  <2>3. CASE given[1] # None
    <3>1. given[1] \in Seq(Word)
      BY <2>1, <2>3 DEF Option
    <3>2. Len(given[1]) = 1 => given[1][1] \in Word
      BY <3>1
    <3>3. /\ Len(given[1]) = 1 /\ ActionNamed[given[1][1]] # None
          /\ WebFrom(given) = ActionNamed[given[1][1]]
      BY <1>2, <2>3, Zenon DEF WebFrom
    <3> QED
      BY <3>2, <3>3, WordGrammar, Zenon DEF Option
  <2> QED
    BY <2>2, <2>3
<1> QED
  BY <1>1, <1>2

-----------------------------------------------------------------------------
(* What clap makes of a line.                                              *)

\* The rest of a line starts at one of its arguments, or after them all.
LEMMA TrailingTyped ==
  ASSUME NEW args \in Seq(Arg)
  PROVE  Trailing(args) \in 1 .. Len(args) + 1
<1> DEFINE n == Len(args)
           starts == {i \in DOMAIN args :
             \/ args[i].flag = "--"
             \/ /\ Positional(args, i) \/ args[i].flag = "unknown"
                /\ \E j \in 1 .. i - 1 : Positional(args, j)}
           S == starts \cup {n + 1}
           back == {(n + 2) - i : i \in S}
<1>1. n \in Nat /\ DOMAIN args = 1 .. n
  BY LenProperties
<1>2. S \subseteq 1 .. n + 1 /\ n + 1 \in S
  BY <1>1
<1>3. Trailing(args) = CHOOSE i \in S : \A j \in starts : i <= j
  BY Zenon DEF Trailing
<1> HIDE DEF starts, n
<1>4. back \subseteq 1 .. n + 1 /\ back # {} /\ n + 1 \in Nat
  BY <1>1, <1>2
<1>5. PICK b \in back : \A c \in back : c <= b
  BY <1>4, LastExists
<1>6. PICK i \in S : b = (n + 2) - i
  BY <1>5
<1>7. \A j \in starts : i <= j
  <2> TAKE j \in starts
  <2>1. j \in S /\ (n + 2) - j \in back
    OBVIOUS
  <2>2. (n + 2) - j <= (n + 2) - i
    BY <1>5, <1>6, <2>1
  <2> QED
    BY <1>1, <1>2, <2>1, <2>2
<1>8. (CHOOSE k \in S : \A j \in starts : k <= j) \in S
  BY <1>6, <1>7, Zenon
<1> QED
  BY <1>2, <1>3, <1>8 DEF n

\* Each flag clap reads is an argument that may be one.
LEMMA ReadTyped ==
  ASSUME NEW args \in Seq(Arg)
  PROVE  Read(args).flags \in Seq(Arg)
<1> DEFINE end == Trailing(args)
           early == 1 .. end - 1
           valued == [i \in DOMAIN args |->
             IF Bare(args[i]) /\ i + 1 \in early /\ args[i + 1].flag = "word"
               THEN [args[i] EXCEPT !.spec = args[i + 1].spec]
               ELSE args[i]]
           places == {i \in early : args[i].flag \in Known}
<1>1. Len(args) \in Nat /\ DOMAIN args = 1 .. Len(args)
  BY LenProperties
<1>2. end \in 1 .. Len(args) + 1
  BY TrailingTyped
<1> HIDE DEF end
<1>3. ASSUME NEW i \in DOMAIN args
      PROVE  valued[i] \in Arg
  <2>1. args[i] \in Arg
    BY <1>1, Element
  <2>2. CASE Bare(args[i]) /\ i + 1 \in early /\ args[i + 1].flag = "word"
    <3> DEFINE a == args[i]
               b == args[i + 1]
    <3>1. i + 1 \in DOMAIN args
      BY <1>1, <1>2, <2>2
    <3>2. b \in Arg
      BY <3>1, Element
    <3>3. b.spec \in Seq(Word)
      BY <2>2, <3>2 DEF Arg, Optional
    <3>4. a.flag \in Optional
      BY <2>2 DEF Bare
    <3>5. valued[i] = [a EXCEPT !.spec = b.spec]
      BY <2>2
    <3> HIDE DEF a, b
    <3>6. a \in Arg
      BY <2>1 DEF a
    <3> QED
      BY <3>3, <3>4, <3>5, <3>6 DEF Arg, Option
  <2>3. CASE ~(Bare(args[i]) /\ i + 1 \in early /\ args[i + 1].flag = "word")
    BY <2>1, <2>3
  <2> QED
    BY <2>2, <2>3
<1>4. valued \in Seq(Arg)
  <2>1. valued \in [1 .. Len(args) -> Arg]
    BY <1>1, <1>3
  <2> HIDE DEF valued
  <2> QED
    BY <1>1, <2>1, SeqDef
<1> HIDE DEF valued
<1>5. \A i \in DOMAIN valued : valued[i] \in Arg
  BY <1>4, Element
<1>6. Picked(valued, places) \in Seq(Arg)
  BY <1>4, <1>5, PickedTyped
<1>7. Read(args).flags = Picked(valued, places)
  BY Zenon DEF Read, end, early, valued, places
<1> QED
  BY <1>6, <1>7

\* A flag that must have a value has one.
LEMMA SpecsTyped ==
  ASSUME NEW flags \in Seq(Arg), NEW flag
  PROVE  /\ Specs(flags, flag) \in Seq(Option(Seq(Word)))
         /\ flag \in Known \ Optional => Specs(flags, flag) \in Seq(Seq(Word))
<1> DEFINE list == [i \in DOMAIN flags |-> flags[i].spec]
           places == {i \in DOMAIN flags : flags[i].flag = flag}
<1>1. Len(flags) \in Nat /\ DOMAIN flags = 1 .. Len(flags)
  BY LenProperties
<1>2. ASSUME NEW i \in DOMAIN flags
      PROVE  /\ flags[i].spec \in Option(Seq(Word))
             /\ flags[i].flag \in Known \ Optional => flags[i].spec \in Seq(Word)
  <2>1. flags[i] \in Arg
    BY Element
  <2> QED
    BY <2>1 DEF Arg, Option, Known, Optional, Single, Repeatable
<1>3. list \in Seq(Option(Seq(Word)))
  <2>1. list \in [1 .. Len(flags) -> Option(Seq(Word))]
    BY <1>1, <1>2
  <2> HIDE DEF list
  <2> QED
    BY <1>1, <2>1, SeqDef
<1>4. \A i \in DOMAIN list : list[i] \in Option(Seq(Word))
  BY <1>2
<1>5. flag \in Known \ Optional =>
        \A i \in DOMAIN list : i \in places => list[i] \in Seq(Word)
  BY <1>2
<1>6. Specs(flags, flag) = Picked(list, places)
  BY Zenon DEF Specs, list, places
<1> HIDE DEF list, places
<1>7. Picked(list, places) \in Seq(Option(Seq(Word)))
  BY <1>3, <1>4, PickedTyped
<1>8. flag \in Known \ Optional => Picked(list, places) \in Seq(Seq(Word))
  BY <1>3, <1>5, PickedTyped
<1> QED
  BY <1>6, <1>7, <1>8

\* ProfileDecl, of the flags.
LEMMA DeclFields ==
  ASSUME NEW flags
  PROVE  LET d == DeclOf(flags)
         IN  /\ DOMAIN d = {"mounts", "readonly", "forwards", "env", "path",
                            "path_add", "public_web", "proxies"}
             /\ d.mounts = EachBy(Specs(flags, "-m"), MountFrom)
             /\ d.readonly = ReadonlyFrom(Specs(flags, "--readonly"))
             /\ d.forwards = EachBy(Specs(flags, "-f"), ForwardFrom)
             /\ d.env = EachBy(Specs(flags, "-e"), EnvVarFrom)
             /\ d.path = PathFrom(Specs(flags, "--path"))
             /\ d.path_add = EachBy(Specs(flags, "-P"), DirFrom)
             /\ d.public_web = WebFrom(Specs(flags, "--public-web"))
             /\ d.proxies = EachBy(Specs(flags, "-p"), ProxyFrom)
BY DEF DeclOf, NothingDeclared

\* A list of parsed values.
LEMMA EachTyped ==
  ASSUME NEW S, NEW T, NEW list \in Seq(S), NEW each,
         each = [i \in DOMAIN list |-> each[i]],
         \A i \in DOMAIN list : each[i] \in T
  PROVE  each \in Seq(T) /\ DOMAIN each = DOMAIN list
<1>1. Len(list) \in Nat /\ DOMAIN list = 1 .. Len(list)
  BY LenProperties
<1>2. each \in [1 .. Len(list) -> T]
  BY <1>1, Zenon
<1> QED
  BY <1>1, <1>2, SeqDef

\* What is not rejected is a declaration the pipeline takes.
LEMMA DeclTyped ==
  ASSUME NEW command, NEW read, read.flags \in Seq(Arg), ~Rejected(command, read)
  PROVE  CliDecl(DeclOf(read.flags))
<1> DEFINE flags == read.flags
           d == DeclOf(flags)
           Given(flag) == Specs(flags, flag)
<1>1. /\ None \notin Range(d.mounts) /\ None \notin Range(d.forwards)
      /\ None \notin Range(d.proxies)
      /\ d.readonly # "bad" /\ d.public_web # "bad"
  BY DEF Rejected
<1>2. \A flag \in {"-m", "-f", "-e", "--path", "-P", "-p"} : Given(flag) \in Seq(Seq(Word))
  <2>1. {"-m", "-f", "-e", "--path", "-P", "-p"} \subseteq Known \ Optional
    BY DEF Known, Optional, Single, Repeatable
  <2> QED
    BY <2>1, SpecsTyped
<1>3. Given("--public-web") \in Seq(Option(Seq(Word)))
  BY SpecsTyped
<1> DEFINE ms == Given("-m")
           fs == Given("-f")
           es == Given("-e")
           as == Given("-P")
           ps == Given("-p")
<1>4. /\ d.mounts = [i \in DOMAIN ms |-> MountFrom(ms[i])]
      /\ d.forwards = [i \in DOMAIN fs |-> ForwardFrom(fs[i])]
      /\ d.env = [i \in DOMAIN es |-> EnvVarFrom(es[i])]
      /\ d.path_add = [i \in DOMAIN as |-> DirFrom(as[i])]
      /\ d.proxies = [i \in DOMAIN ps |-> ProxyFrom(ps[i])]
  BY DeclFields DEF EachBy
<1>5. /\ DOMAIN d = {"mounts", "readonly", "forwards", "env", "path",
                     "path_add", "public_web", "proxies"}
      /\ d.readonly = ReadonlyFrom(Given("--readonly"))
      /\ d.path = PathFrom(Given("--path"))
      /\ d.public_web = WebFrom(Given("--public-web"))
  BY DeclFields
<1>6. ms \in Seq(Seq(Word)) /\ fs \in Seq(Seq(Word)) /\ es \in Seq(Seq(Word))
      /\ as \in Seq(Seq(Word)) /\ ps \in Seq(Seq(Word))
      /\ Given("--path") \in Seq(Seq(Word))
  BY <1>2
<1> HIDE DEF d, ms, fs, es, as, ps, Given
<1>7. /\ d.mounts \in Seq(MountDecl)
      /\ \A i \in DOMAIN d.mounts :
           /\ d.mounts[i].host.form = "abs"
           /\ d.mounts[i].sandbox # None => d.mounts[i].sandbox.form = "abs"
  <2>1. ASSUME NEW i \in DOMAIN ms
        PROVE  /\ d.mounts[i] \in MountDecl
               /\ d.mounts[i].host.form = "abs"
               /\ d.mounts[i].sandbox # None => d.mounts[i].sandbox.form = "abs"
    <3>1. ms[i] \in Seq(Word)
      BY <1>6, Element
    <3>2. d.mounts[i] = MountFrom(ms[i]) /\ DOMAIN d.mounts = DOMAIN ms
      BY <1>4, Zenon
    <3>3. d.mounts[i] # None
      BY <1>1, <3>2, Zenon DEF Range
    <3> QED
      BY <3>1, <3>2, <3>3, MountParsed, Zenon
  <2>2. d.mounts = [i \in DOMAIN ms |-> d.mounts[i]]
    BY <1>4, Zenon
  <2>3. d.mounts \in Seq(MountDecl) /\ DOMAIN d.mounts = DOMAIN ms
    BY <1>6, <2>1, <2>2, EachTyped
  <2> QED
    BY <2>1, <2>3
<1>8. d.forwards \in Seq(ForwardDecl)
  <2>1. ASSUME NEW i \in DOMAIN fs
        PROVE  d.forwards[i] \in ForwardDecl
    <3>1. fs[i] \in Seq(Word)
      BY <1>6, Element
    <3>2. d.forwards[i] = ForwardFrom(fs[i]) /\ DOMAIN d.forwards = DOMAIN fs
      BY <1>4, Zenon
    <3>3. d.forwards[i] # None
      BY <1>1, <3>2, Zenon DEF Range
    <3> QED
      BY <3>1, <3>2, <3>3, ForwardParsed, Zenon
  <2>2. d.forwards = [i \in DOMAIN fs |-> d.forwards[i]]
    BY <1>4, Zenon
  <2> QED
    BY <1>6, <2>1, <2>2, EachTyped
<1>9. d.env \in Seq(EnvVarDecl)
  <2>1. ASSUME NEW i \in DOMAIN es
        PROVE  d.env[i] \in EnvVarDecl
    <3>1. es[i] \in Seq(Word)
      BY <1>6, Element
    <3>2. d.env[i] = EnvVarFrom(es[i])
      BY <1>4, Zenon
    <3> QED
      BY <3>1, <3>2, EnvVarParsed, Zenon
  <2>2. d.env = [i \in DOMAIN es |-> d.env[i]]
    BY <1>4, Zenon
  <2> QED
    BY <1>6, <2>1, <2>2, EachTyped
<1>10. d.proxies \in Seq(ProxyDecl)
  <2>1. ASSUME NEW i \in DOMAIN ps
        PROVE  d.proxies[i] \in ProxyDecl
    <3>1. ps[i] \in Seq(Word)
      BY <1>6, Element
    <3>2. d.proxies[i] = ProxyFrom(ps[i]) /\ DOMAIN d.proxies = DOMAIN ps
      BY <1>4, Zenon
    <3>3. d.proxies[i] # None
      BY <1>1, <3>2, Zenon DEF Range
    <3> QED
      BY <3>1, <3>2, <3>3, ProxyParsed, Zenon
  <2>2. d.proxies = [i \in DOMAIN ps |-> d.proxies[i]]
    BY <1>4, Zenon
  <2> QED
    BY <1>6, <2>1, <2>2, EachTyped
<1>11. \A spec \in Seq(Word) : DirFrom(spec) \in Written
  BY DEF DirFrom, Written, Path
<1>12. d.path_add \in Seq(Written)
  <2>1. ASSUME NEW i \in DOMAIN as
        PROVE  d.path_add[i] \in Written
    <3>1. as[i] \in Seq(Word)
      BY <1>6, Element
    <3>2. d.path_add[i] = DirFrom(as[i])
      BY <1>4, Zenon
    <3> QED
      BY <1>11, <3>1, <3>2, Zenon
  <2>2. d.path_add = [i \in DOMAIN as |-> d.path_add[i]]
    BY <1>4, Zenon
  <2> QED
    BY <1>6, <2>1, <2>2, EachTyped
<1>13. d.path \in Option(Seq(Written))
  <2>1. CASE Given("--path") = <<>>
    BY <1>5, <2>1 DEF PathFrom, Option
  <2>2. CASE Given("--path") # <<>>
    <3>1. Given("--path")[1] \in Seq(Word)
      BY <1>6, <2>2
    <3>2. d.path = <<DirFrom(Given("--path")[1])>>
      BY <1>5, <2>2 DEF PathFrom
    <3>3. DirFrom(Given("--path")[1]) \in Written
      BY <1>11, <3>1
    <3> QED
      BY <3>2, <3>3 DEF Option
  <2> QED
    BY <2>1, <2>2
<1>14. d.readonly \in Option(Access) /\ d.public_web \in Option(Action)
  <2>1. Given("--public-web") \in Seq(Option(Seq(Word)))
    BY <1>3 DEF Given
  <2> QED
    BY <1>1, <1>5, <2>1, ReadonlyParsed, WebParsed
<1>15. CliDecl(d)
  <2>1. IsMountDecls(d) /\ IsForwardDecls(d) /\ IsEnvVarDecls(d) /\ IsProxyDecls(d)
    BY <1>7, <1>8, <1>9, <1>10, <1>12, <1>13, <1>14, Zenon
    DEF IsMountDecls, IsForwardDecls, IsEnvVarDecls, IsProxyDecls
  <2> QED
    BY <1>5, <1>7, <2>1 DEF CliDecl, IsDecl
<1> QED
  BY <1>15 DEF d

LEMMA ParsedTyped ==
  ASSUME line \in Lines
  PROVE  /\ line.flags \in Seq(Arg) /\ line.words \in Seq(Arg)
         /\ Parsed.flags \in Seq(Arg)
<1>1. line.flags \in Seq(Arg) /\ line.words \in Seq(Arg)
  BY LinesAssumption
<1>2. line.flags \o line.words \in Seq(Arg)
  BY <1>1
<1> QED
  BY <1>1, <1>2, ReadTyped DEF Parsed

LEMMA TypeStep == TypeOK /\ [Next]_vars => TypeOK'
<1> SUFFICES ASSUME TypeOK, [Next]_vars PROVE TypeOK'
  OBVIOUS
<1> DEFINE Check == [name : {"bwrap", "pasta", "userns"}, outcome : {"pass", "fail", "skip"}]
<1>1. ASSUME NEW name \in {"bwrap", "pasta", "userns"},
             NEW seen \in {"pass", "fail", "skip"}, Result(name, seen)
      PROVE  results' \in Checks
  <2>1. [name |-> name, outcome |-> seen] \in Check
    OBVIOUS
  <2>2. results \in Seq(Check)
    BY DEF TypeOK, Checks
  <2> QED
    BY <1>1, <2>1, <2>2, AppendProperties DEF Result, Checks
<1>2. 0 \in Option(0 .. 255) /\ 1 \in Option(0 .. 255) /\ 2 \in Option(0 .. 255)
  BY DEF Option
<1> USE DEF End, Goto, Steps
<1>3. CASE Reject
  BY <1>2, <1>3 DEF Reject, TypeOK
<1>4. CASE Accept
  <2>1. CliDecl(decl')
    <3>1. Parsed.flags \in Seq(Arg)
      BY ParsedTyped DEF TypeOK
    <3>2. ~Rejected(line.command, Parsed) /\ decl' = DeclOf(Parsed.flags)
      BY <1>4 DEF Accept
    <3> QED
      BY <3>1, <3>2, DeclTyped
  <2> QED
    BY <1>4, <2>1 DEF Accept, TypeOK
<1>5. CASE ProbeBwrap
  <2>1. results' \in Checks
    BY <1>1, <1>5 DEF ProbeBwrap
  <2> QED
    BY <1>5, <2>1 DEF ProbeBwrap, TypeOK
<1>6. CASE ProbePasta
  <2>1. results' \in Checks
    BY <1>1, <1>6 DEF ProbePasta
  <2> QED
    BY <1>6, <2>1 DEF ProbePasta, TypeOK
<1>7. CASE CheckUserns
  <2>1. Userns \in {"pass", "fail", "skip"}
    BY DEF Userns
  <2>2. results' \in Checks
    BY <1>1, <1>7, <2>1 DEF CheckUserns
  <2> QED
    BY <1>7, <2>2 DEF CheckUserns, TypeOK
<1>8. CASE UsernsFails
  BY <1>2, <1>8 DEF UsernsFails, TypeOK
<1>9. CASE Report
  BY <1>2, <1>9 DEF Report, TypeOK, Option
<1>10. CASE Proceed
  BY <1>10 DEF Proceed, TypeOK
<1>11. CASE LoadFails
  BY <1>2, <1>11 DEF LoadFails, TypeOK
<1>12. CASE Load
  BY <1>2, <1>12 DEF Load, TypeOK
<1>13. ASSUME NEW end \in Outcomes, Finish(end)
       PROVE  TypeOK'
  <2>1. ExitOf(end) \in Option(0 .. 255)
    <3>1. end.code \in 0 .. 255
      BY OutcomesAssumption
    <3> QED
      BY <1>2, <3>1 DEF ExitOf, Option
  <2>2. outcome' \in Option(Outcomes)
    BY <1>13 DEF Finish, Option
  <2> QED
    BY <1>13, <2>1, <2>2 DEF Finish, TypeOK
<1>14. CASE UNCHANGED vars
  BY <1>14 DEF vars, TypeOK
<1> QED
  BY <1>3, <1>4, <1>5, <1>6, <1>7, <1>8, <1>9, <1>10, <1>11, <1>12, <1>13, <1>14
  DEF Next

-----------------------------------------------------------------------------
(* How a line that follows the rules is read.                              *)

\* Two lists, one after the other.
LEMMA ConcatIs ==
  ASSUME NEW T, NEW a \in Seq(T), NEW b \in Seq(T),
         NEW n \in Nat, n = Len(a), NEW m \in Nat, m = Len(b)
  PROVE  /\ a \o b \in Seq(T) /\ Len(a \o b) = n + m /\ DOMAIN (a \o b) = 1 .. n + m
         /\ \A i \in 1 .. n : (a \o b)[i] = a[i]
         /\ \A i \in 1 .. m : (a \o b)[n + i] = b[i]
<1>1. a \o b \in Seq(T) /\ Len(a \o b) = n + m
  BY ConcatProperties
<1>2. \A i \in 1 .. n + m : (a \o b)[i] = IF i <= n THEN a[i] ELSE b[i - n]
  BY ConcatProperties
<1>3. DOMAIN (a \o b) = 1 .. n + m
  BY <1>1, LenProperties
<1>4. \A i \in 1 .. n : i \in 1 .. n + m /\ i <= n
  OBVIOUS
<1>5. \A i \in 1 .. m : n + i \in 1 .. n + m /\ ~(n + i <= n) /\ (n + i) - n = i
  OBVIOUS
<1>6. \A i \in 1 .. n : (a \o b)[i] = a[i]
  BY <1>2, <1>4, Zenon
<1>7. \A i \in 1 .. m : (a \o b)[n + i] = b[i]
  <2> TAKE i \in 1 .. m
  <2>1. n + i \in 1 .. n + m /\ ~(n + i <= n) /\ (n + i) - n = i
    BY <1>5
  <2> QED
    BY <1>2, <2>1, Zenon
<1> QED
  BY <1>1, <1>3, <1>6, <1>7

\* With -- the rest begins there, else at the second word; all before it are
\* flags, none of which lacks a value that it could take from its right.
LEMMA PlainTrailing ==
  ASSUME line \in Lines, Plainly
  PROVE  LET args == line.flags \o line.words
             n == Len(line.flags)
             m == Len(line.words)
         IN  /\ Marked => Trailing(args) = n
             /\ ~Marked /\ m = 0 => Trailing(args) = n + 1
             /\ ~Marked /\ m > 0 => Trailing(args) = n + 2
             /\ \A i \in 1 .. n - 1 : args[i].flag \in Known
             /\ ~Marked => \A i \in 1 .. n : args[i].flag \in Known
             /\ ~Marked /\ m > 0 =>
                  /\ args[n + 1].flag = "word" /\ Positional(args, n + 1)
<1> DEFINE f == line.flags
           w == line.words
           n == Len(f)
           m == Len(w)
           args == f \o w
           Rests(i) == \/ args[i].flag = "--"
                       \/ /\ Positional(args, i) \/ args[i].flag = "unknown"
                          /\ \E j \in 1 .. i - 1 : Positional(args, j)
           starts == {i \in DOMAIN args : Rests(i)}
<1>1. /\ f \in Seq(Arg) /\ w \in Seq(Arg) /\ n \in Nat /\ m \in Nat
  BY ParsedTyped, LenProperties
<1>2. /\ args \in Seq(Arg) /\ Len(args) = n + m /\ DOMAIN args = 1 .. n + m
      /\ \A i \in 1 .. n : args[i] = f[i]
      /\ \A i \in 1 .. m : args[n + i] = w[i]
  <2>1. n = Len(f) /\ m = Len(w)
    OBVIOUS
  <2> HIDE DEF n, m, f, w
  <2> QED
    BY <1>1, <2>1, ConcatIs
<1>3. /\ \A i \in 1 .. n : f[i].flag \in Known \/ (i = n /\ Marked)
      /\ ~Marked =>
           /\ n > 0 => ~Bare(f[n])
           /\ m > 0 => w[1].flag = "word"
           /\ m > 1 => w[2].flag \in {"word", "unknown"}
  <2>1. w # <<>> <=> m > 0
    BY <1>1
  <2> QED
    BY <2>1 DEF Plainly
<1>4. Marked => n > 0 /\ f[n].flag = "--"
  BY <1>1 DEF Marked
<1>5. Trailing(args) = CHOOSE i \in starts \cup {Len(args) + 1} : \A j \in starts : i <= j
  BY Zenon DEF Trailing
<1>8. \A flag \in Known : flag # "--" /\ flag # "word" /\ flag # "unknown"
  BY DEF Known, Repeatable, Single, Optional
<1> HIDE DEF f, w, n, m, args
<1>6. \A i \in 1 .. n - 1 : args[i].flag \in Known
  <2> TAKE i \in 1 .. n - 1
  <2>1. i \in 1 .. n /\ i # n
    BY <1>1
  <2> QED
    BY <1>2, <1>3, <2>1, Zenon
<1>7. ~Marked => \A i \in 1 .. n : args[i].flag \in Known
  BY <1>2, <1>3, Zenon
<1>9. ASSUME NEW i \in 1 .. n + m, args[i].flag \in Known
      PROVE  i \notin starts
  BY <1>8, <1>9 DEF Positional
<1>10. ASSUME NEW k \in starts \cup {Len(args) + 1}, \A j \in starts : k <= j
       PROVE  Trailing(args) = k
  <2>1. \A l \in starts \cup {Len(args) + 1} :
          (\A j \in starts : l <= j) /\ l # k => FALSE
    <3>1. starts \subseteq 1 .. n + m /\ Len(args) + 1 = n + m + 1
      BY <1>2
    <3> HIDE DEF starts
    <3> QED
      BY <1>1, <1>10, <3>1
  <2> HIDE DEF starts
  <2> QED
    BY <1>5, <1>10, <2>1
<1>11. Marked => Trailing(args) = n
  <2> SUFFICES ASSUME Marked PROVE Trailing(args) = n
    OBVIOUS
  <2>1. n \in DOMAIN args /\ args[n].flag = "--"
    BY <1>1, <1>2, <1>4
  <2>2. n \in starts
    BY <2>1
  <2>3. \A j \in starts : n <= j
    <3>1. \A j \in starts : j \in 1 .. n + m
      BY <1>2
    <3>2. \A j \in 1 .. n - 1 : j \notin starts
      BY <1>1, <1>6, <1>9
    <3> HIDE DEF starts
    <3> QED
      BY <1>1, <3>1, <3>2
  <2> HIDE DEF starts
  <2> QED
    BY <1>10, <2>2, <2>3
<1>12. ~Marked /\ m = 0 => Trailing(args) = n + 1
  <2> SUFFICES ASSUME ~Marked, m = 0 PROVE Trailing(args) = n + 1
    OBVIOUS
  <2>1. \A j \in starts : j \in 1 .. n
    BY <1>1, <1>2
  <2>2. \A j \in 1 .. n : j \notin starts
    BY <1>1, <1>7, <1>9
  <2> HIDE DEF starts
  <2>3. n + 1 = Len(args) + 1 /\ \A j \in starts : n + 1 <= j
    BY <1>1, <1>2, <2>1, <2>2
  <2> QED
    BY <1>10, <2>3
<1>13. ~Marked /\ m > 0 => args[n + 1].flag = "word" /\ Positional(args, n + 1)
  <2> SUFFICES ASSUME ~Marked, m > 0
               PROVE  args[n + 1].flag = "word" /\ Positional(args, n + 1)
    OBVIOUS
  <2>1. args[n + 1] = w[1] /\ w[1].flag = "word"
    BY <1>1, <1>2, <1>3
  <2>2. n + 1 > 1 => ~Bare(args[(n + 1) - 1])
    <3>1. n > 0 => args[n] = f[n] /\ (n + 1) - 1 = n
      BY <1>1, <1>2
    <3> QED
      BY <1>1, <1>3, <3>1
  <2> QED
    BY <2>1, <2>2 DEF Positional
<1>14. ~Marked /\ m > 0 => Trailing(args) = n + 2
  <2> SUFFICES ASSUME ~Marked, m > 0 PROVE Trailing(args) = n + 2
    OBVIOUS
  <2>1. args[n + 1].flag = "word" /\ Positional(args, n + 1)
    BY <1>13
  <2>2. \A j \in 1 .. n : j \notin starts /\ ~Positional(args, j)
    <3> TAKE j \in 1 .. n
    <3>1. args[j].flag \in Known /\ j \in 1 .. n + m
      BY <1>1, <1>7
    <3> QED
      BY <1>8, <1>9, <3>1 DEF Positional
  <2>3. n + 1 \notin starts
    <3>1. ~\E j \in 1 .. (n + 1) - 1 : Positional(args, j)
      BY <1>1, <2>2
    <3> QED
      BY <2>1, <3>1
  <2>4. m > 1 => n + 2 \in starts
    <3> SUFFICES ASSUME m > 1 PROVE n + 2 \in starts
      OBVIOUS
    <3>1. args[n + 2] = w[2] /\ w[2].flag \in {"word", "unknown"}
      BY <1>1, <1>2, <1>3
    <3>2. n + 2 \in DOMAIN args /\ n + 1 \in 1 .. (n + 2) - 1 /\ (n + 2) - 1 = n + 1
      BY <1>1, <1>2
    <3>3. ~Bare(args[n + 1])
      BY <2>1 DEF Bare, Optional
    <3>4. Positional(args, n + 2) \/ args[n + 2].flag = "unknown"
      BY <3>1, <3>2, <3>3 DEF Positional
    <3> QED
      BY <2>1, <3>2, <3>4
  <2>5. \A j \in starts : j \in 1 .. n + m
    BY <1>2
  <2> HIDE DEF starts
  <2>6. \A j \in starts : n + 2 <= j
    BY <1>1, <2>2, <2>3, <2>5
  <2>7. n + 2 \in starts \cup {Len(args) + 1}
    BY <1>1, <1>2, <2>4
  <2> QED
    BY <1>10, <2>6, <2>7
<1> QED
  BY <1>6, <1>7, <1>11, <1>12, <1>13, <1>14 DEF args, n, m, f, w

\* A list is what follows another list in the two, one after the other.
LEMMA TailOfConcat ==
  ASSUME NEW T, NEW a \in Seq(T), NEW b \in Seq(T)
  PROVE  SubSeq(a \o b, Len(a) + 1, Len(a) + Len(b)) = b
<1> DEFINE c == a \o b
           n == Len(a)
           m == Len(b)
           d == SubSeq(c, n + 1, n + m)
<1>1. n \in Nat /\ m \in Nat
  BY LenProperties
<1>2. c \in Seq(T) /\ Len(c) = n + m /\ \A i \in 1 .. m : c[n + i] = b[i]
  <2>1. n = Len(a) /\ m = Len(b)
    OBVIOUS
  <2> HIDE DEF n, m
  <2> QED
    BY <1>1, <2>1, ConcatIs
<1>3. m = Len(b)
  OBVIOUS
<1> HIDE DEF c, n, m
<1>4. Len(d) = m /\ \A i \in 1 .. m : d[i] = c[n + i]
  <2>1. CASE m = 0
    <3>1. n + 1 \in Int /\ n + m \in Int /\ n + m < n + 1
      BY <1>1, <2>1
    <3>2. d = <<>>
      BY <3>1, SubSeqEmpty
    <3> HIDE DEF d
    <3> QED
      BY <2>1, <3>2
  <2>2. CASE m > 0
    BY <1>1, <1>2, <2>2, SubSeqProperties
  <2> QED
    BY <1>1, <2>1, <2>2
<1>5. d \in Seq(T)
  BY <1>1, <1>2, Part
<1> HIDE DEF d
<1>6. \A i \in 1 .. Len(d) : d[i] = b[i]
  BY <1>2, <1>4
<1>7. d = b
  BY <1>3, <1>4, <1>5, <1>6, SeqEqual
<1> QED
  BY <1>7 DEF d, c, n, m

\* A part of a list, and its first element apart.
LEMMA SubSeqFirst ==
  ASSUME NEW T, NEW s \in Seq(T), NEW a \in Nat, NEW b \in Nat,
         1 <= a, a <= b, b <= Len(s)
  PROVE  <<s[a]>> \o SubSeq(s, a + 1, b) = SubSeq(s, a, b)
<1> DEFINE one == <<s[a]>>
           tail == SubSeq(s, a + 1, b)
           whole == SubSeq(s, a, b)
           both == one \o tail
<1>1. Len(s) \in Nat /\ s[a] \in T
  BY LenProperties
<1>2. one \in Seq(T) /\ Len(one) = 1 /\ one[1] = s[a]
  BY <1>1
<1>3. tail \in Seq(T) /\ whole \in Seq(T)
  BY Part
<1>4. Len(tail) = b - a /\ \A i \in 1 .. b - a : tail[i] = s[a + i]
  <2>1. CASE a = b
    <3>1. tail = <<>>
      BY <2>1, SubSeqProperties
    <3> QED
      BY <2>1, <3>1
  <2>2. CASE a < b
    BY <2>2, SubSeqProperties
  <2> QED
    BY <2>1, <2>2
<1>5. Len(whole) = (b - a) + 1 /\ \A i \in 1 .. (b - a) + 1 : whole[i] = s[(a + i) - 1]
  BY SubSeqProperties
<1> HIDE DEF one, tail, whole
<1>6. /\ both \in Seq(T) /\ Len(both) = 1 + (b - a)
      /\ \A i \in 1 .. 1 : both[i] = one[i]
      /\ \A i \in 1 .. b - a : both[1 + i] = tail[i]
  <2>1. b - a \in Nat /\ b - a = Len(tail) /\ 1 = Len(one) /\ 1 \in Nat
    BY <1>2, <1>4
  <2> DEFINE p == b - a
             q == 1
  <2>2. p \in Nat /\ p = Len(tail) /\ q \in Nat /\ q = Len(one)
    BY <2>1
  <2>3. one \in Seq(T) /\ tail \in Seq(T)
    BY <1>2, <1>3
  <2> HIDE DEF p, q
  <2>4. /\ one \o tail \in Seq(T) /\ Len(one \o tail) = q + p
        /\ \A i \in 1 .. q : (one \o tail)[i] = one[i]
        /\ \A i \in 1 .. p : (one \o tail)[q + i] = tail[i]
    BY <2>2, <2>3, ConcatIs
  <2> QED
    BY <2>4 DEF p, q
<1> HIDE DEF both
<1>7. ASSUME NEW i \in 1 .. Len(both)
      PROVE  both[i] = whole[i]
  <2>1. CASE i = 1
    <3>1. 1 \in 1 .. (b - a) + 1 /\ (a + 1) - 1 = a /\ 1 \in 1 .. 1
      BY <1>4
    <3>2. both[1] = one[1] /\ whole[1] = s[a]
      BY <1>5, <1>6, <3>1
    <3> QED
      BY <1>2, <2>1, <3>2
  <2>2. CASE i > 1
    <3>1. i - 1 \in 1 .. b - a /\ 1 + (i - 1) = i /\ a + (i - 1) = (a + i) - 1
          /\ i \in 1 .. (b - a) + 1
      BY <1>6, <2>2
    <3>2. both[1 + (i - 1)] = tail[i - 1] /\ tail[i - 1] = s[a + (i - 1)]
      BY <1>4, <1>6, <3>1
    <3>3. whole[i] = s[(a + i) - 1]
      BY <1>5, <3>1
    <3> QED
      BY <3>1, <3>2, <3>3
  <2> QED
    BY <1>6, <2>1, <2>2
<1>8. both = whole
  <2>1. Len(both) = Len(whole)
    BY <1>4, <1>5, <1>6
  <2> QED
    BY <1>3, <1>6, <1>7, <2>1, SeqEqual
<1> QED
  BY <1>8 DEF both, whole, one, tail

\* What clap reads of a line that follows the rules.
LEMMA PlainRead ==
  ASSUME line \in Lines, Plainly
  PROVE  /\ Parsed.flags = IF Marked THEN Front(line.flags) ELSE line.flags
         /\ Parsed.words = line.words
         /\ ~Parsed.bad
<1> DEFINE f == line.flags
           w == line.words
           n == Len(f)
           m == Len(w)
           args == f \o w
           end == Trailing(args)
           early == 1 .. end - 1
           Takes(i) == Bare(args[i]) /\ i + 1 \in early /\ args[i + 1].flag = "word"
           valued == [i \in DOMAIN args |->
             IF Takes(i) THEN [args[i] EXCEPT !.spec = args[i + 1].spec]
                         ELSE args[i]]
           rest == IF end <= Len(args) /\ args[end].flag = "--" THEN end + 1 ELSE end
           flagged == {i \in early : args[i].flag \in Known}
           posed == {i \in early : Positional(args, i)}
           k == IF Marked THEN n - 1 ELSE n
<1>1. f \in Seq(Arg) /\ w \in Seq(Arg) /\ n \in Nat /\ m \in Nat
  BY ParsedTyped, LenProperties
<1>2. /\ args \in Seq(Arg) /\ Len(args) = n + m /\ DOMAIN args = 1 .. n + m
      /\ \A i \in 1 .. n : args[i] = f[i]
      /\ \A i \in 1 .. m : args[n + i] = w[i]
  <2>1. n = Len(f) /\ m = Len(w)
    OBVIOUS
  <2> HIDE DEF n, m, f, w
  <2> QED
    BY <1>1, <2>1, ConcatIs
<1>3. /\ Marked => end = n
      /\ ~Marked /\ m = 0 => end = n + 1
      /\ ~Marked /\ m > 0 => end = n + 2
      /\ \A i \in 1 .. n - 1 : args[i].flag \in Known
      /\ ~Marked => \A i \in 1 .. n : args[i].flag \in Known
      /\ ~Marked /\ m > 0 => args[n + 1].flag = "word" /\ Positional(args, n + 1)
  BY PlainTrailing
<1>4. Marked => n > 0 /\ f[n].flag = "--"
  BY <1>1 DEF Marked
<1>5. ~Marked => (n > 0 => ~Bare(f[n]))
  BY DEF Plainly
<1>6. Read(args) = [flags |-> Picked(valued, flagged),
                    words |-> Picked(args, posed) \o SubSeq(args, rest, Len(args)),
                    bad |-> \E i \in early : args[i].flag = "unknown"]
  BY Zenon DEF Read
<1>7. \A flag \in Known : flag # "--" /\ flag # "word" /\ flag # "unknown"
  BY DEF Known, Repeatable, Single, Optional
<1>8. Parsed = Read(args)
  BY DEF Parsed
<1> HIDE DEF f, w, n, m, args, end
<1>9. k \in Nat /\ k <= n /\ (\A i \in 1 .. k : args[i].flag \in Known)
  BY <1>1, <1>3, <1>4
<1>10. /\ end \in Nat /\ 1 .. k \subseteq early
       /\ \A i \in early : i \in 1 .. k \/ (i = n + 1 /\ ~Marked /\ m > 0)
       /\ early \subseteq 1 .. n + m
  BY <1>1, <1>3, <1>4
<1> HIDE DEF early
<1>11. \A i \in early : i \in 1 .. k \/ (i = n + 1 /\ args[i].flag = "word")
  BY <1>3, <1>10
<1> HIDE DEF k
\* Nothing unknown comes before the rest.
<1>12. ~\E i \in early : args[i].flag = "unknown"
  BY <1>7, <1>9, <1>11
\* No flag takes a value from its right.
<1>13. \A i \in DOMAIN args : i \in early => valued[i] = args[i]
  <2> SUFFICES ASSUME NEW i \in early, Takes(i)
               PROVE  FALSE
    OBVIOUS
  <2>1. args[i].flag \in Optional /\ i + 1 \in early /\ args[i + 1].flag = "word"
    BY DEF Bare
  <2>2. i + 1 \notin 1 .. k
    BY <1>7, <1>9, <2>1
  <2>3. i + 1 = n + 1 /\ ~Marked /\ m > 0
    BY <1>10, <2>1, <2>2
  <2>4. i = n /\ n > 0
    BY <1>1, <1>10, <2>3
  <2>5. args[n] = f[n]
    BY <1>1, <1>2, <2>4
  <2> QED
    BY <1>5, <2>3, <2>4, <2>5
<1>14. valued \in Seq(Arg) /\ Len(valued) = n + m /\ DOMAIN valued = 1 .. n + m
  <2>1. \A i \in 1 .. n + m : valued[i] \in Arg
    <3> TAKE i \in 1 .. n + m
    <3>1. args[i] \in Arg /\ DOMAIN args = 1 .. n + m
      BY <1>2, Element
    <3>2. CASE ~Takes(i)
      BY <3>1, <3>2
    <3>3. CASE Takes(i)
      <4>1. i + 1 \in DOMAIN args
        BY <1>2, <1>10, <3>3
      <4>2. args[i + 1] \in Arg
        BY <1>2, <4>1, Element
      <4>3. args[i + 1].spec \in Seq(Word)
        BY <3>3, <4>2 DEF Arg, Optional
      <4>4. args[i].flag \in Optional
        BY <3>3 DEF Bare
      <4>5. valued[i] = [args[i] EXCEPT !.spec = args[i + 1].spec]
        BY <3>1, <3>3
      <4> QED
        BY <3>1, <4>3, <4>4, <4>5 DEF Arg, Option
    <3> QED
      BY <3>2, <3>3
  <2>2. valued \in [1 .. n + m -> Arg]
    BY <1>2, <2>1
  <2> HIDE DEF valued
  <2> QED
    BY <1>1, <2>2, SeqDef
<1> HIDE DEF valued
\* All the flags before the rest are read, and nothing else.
<1>15. /\ Picked(valued, flagged) \in Seq(Arg) /\ Len(Picked(valued, flagged)) = k
       /\ \A i \in 1 .. k : Picked(valued, flagged)[i] = f[i]
  <2>1. Picked(valued, flagged) = PickedOf(valued, flagged, n + m)
    BY <1>14, PickedAll
  <2>2. 1 .. k \subseteq flagged
    BY <1>9, <1>10
  <2>3. \A i \in flagged : ~(k < i /\ i <= n + m)
    <3> TAKE i \in flagged
    <3>1. i \in 1 .. k
      BY <1>7, <1>11
    <3> QED
      BY <1>9, <3>1
  <2>4. k <= n + m /\ n + m \in Nat
    BY <1>1, <1>9
  <2> HIDE DEF flagged
  <2>5. PickedOf(valued, flagged, n + m) = PickedOf(valued, flagged, k)
    BY <1>9, <1>14, <2>3, <2>4, PickedSkips
  <2>6. /\ PickedOf(valued, flagged, k) \in Seq(Arg)
        /\ Len(PickedOf(valued, flagged, k)) = k
        /\ \A i \in 1 .. k : PickedOf(valued, flagged, k)[i] = valued[i]
    BY <1>9, <1>14, <2>2, <2>4, PickedFront
  <2>7. \A i \in 1 .. k : valued[i] = f[i]
    <3> TAKE i \in 1 .. k
    <3>1. i \in 1 .. n /\ i \in early /\ i \in DOMAIN args
      BY <1>1, <1>2, <1>9, <1>10
    <3> QED
      BY <1>2, <1>13, <3>1
  <2> QED
    BY <2>1, <2>5, <2>6, <2>7
<1>16. Picked(valued, flagged) = IF Marked THEN Front(f) ELSE f
  <2>1. CASE ~Marked
    <3>1. k = n
      BY <2>1 DEF k
    <3>2. Len(f) = n
      BY DEF n
    <3> QED
      BY <1>1, <1>15, <2>1, <3>1, <3>2, SeqEqual
  <2>2. CASE Marked
    <3>1. k = n - 1 /\ n > 0 /\ n = Len(f)
      BY <1>4, <2>2 DEF k, n
    <3>2. Front(f) = SubSeq(f, 1, n - 1)
      BY <3>1 DEF Front
    <3>3. /\ Front(f) \in Seq(Arg) /\ Len(Front(f)) = n - 1
          /\ \A i \in 1 .. n - 1 : Front(f)[i] = f[i]
      <4>1. CASE n = 1
        BY <3>1, <3>2, <4>1, SubSeqEmpty
      <4>2. CASE n > 1
        <5>1. \A i \in 1 .. n - 1 : f[i] \in Arg
          BY <1>1, <3>1, Element
        <5>2. 1 \in Int /\ n - 1 \in Int /\ 1 <= n - 1
          BY <1>1, <4>2
        <5> QED
          BY <3>2, <5>1, <5>2, SubSeqProperties
      <4> QED
        BY <1>1, <3>1, <4>1, <4>2
    <3> QED
      BY <1>15, <2>2, <3>1, <3>3, SeqEqual
  <2> QED
    BY <2>1, <2>2
\* The words: the first one before the rest, if it does not start with --.
<1>17. Picked(args, posed) \o SubSeq(args, rest, Len(args)) = w
  <2>1. Picked(args, posed) = PickedOf(args, posed, n + m)
    BY <1>2, PickedAll
  <2>2. \A i \in 1 .. k : i \notin posed
    BY <1>7, <1>9 DEF Positional
  <2>3. n + m \in Nat /\ k <= n + m
    BY <1>1, <1>9
  <2>4. PickedOf(args, posed, k) = <<>>
    <3>1. \A i \in posed : ~(0 < i /\ i <= k)
      <4> TAKE i \in posed
      <4>1. i \in early /\ i \in 1 .. n + m
        BY <1>10
      <4> QED
        BY <1>1, <1>9, <2>2, <4>1
    <3>2. 0 <= k /\ k <= Len(args)
      BY <1>2, <1>9, <2>3
    <3> HIDE DEF posed
    <3>3. PickedOf(args, posed, k) = PickedOf(args, posed, 0)
      BY <1>2, <1>9, <3>1, <3>2, PickedSkips
    <3> QED
      BY <3>3, PickedNone
  <2>5. CASE Marked \/ m = 0
    <3>1. Picked(args, posed) = <<>>
      <4>1. \A i \in posed : ~(k < i /\ i <= n + m)
        <5> TAKE i \in posed
        <5>1. i \in 1 .. k
          BY <1>1, <1>10, <2>5
        <5> QED
          BY <1>9, <5>1
      <4> HIDE DEF posed
      <4>2. PickedOf(args, posed, n + m) = PickedOf(args, posed, k)
        BY <1>2, <1>9, <2>3, <4>1, PickedSkips
      <4> QED
        BY <2>1, <2>4, <4>2
    <3>2. rest = n + 1
      <4>1. CASE Marked
        <5>1. end = n /\ n > 0 /\ args[n] = f[n] /\ f[n].flag = "--"
          BY <1>1, <1>2, <1>3, <1>4, <4>1
        <5> QED
          BY <1>1, <1>2, <5>1
      <4>2. CASE ~Marked
        <5>1. end = n + 1 /\ ~(end <= Len(args))
          BY <1>1, <1>2, <1>3, <2>5, <4>2
        <5> QED
          BY <5>1
      <4> QED
        BY <4>1, <4>2
    <3>3. SubSeq(args, n + 1, n + m) = w
      BY <1>1, <1>2, TailOfConcat DEF args, n, m
    <3>4. <<>> \o w = w
      BY <1>1, ConcatEmptySeq
    <3> QED
      BY <1>2, <3>1, <3>2, <3>3, <3>4
  <2>6. CASE ~Marked /\ m > 0
    <3>1. args[n + 1].flag = "word" /\ Positional(args, n + 1) /\ end = n + 2
      BY <1>3, <2>6
    <3>2. n + 1 \in posed
      BY <1>1, <3>1 DEF early
    <3>3. k = n
      BY <2>6 DEF k
    <3>4. PickedOf(args, posed, n + 1) = <<args[n + 1]>>
      <4>1. \A i \in 1 .. n + 1 : args[i] \in Arg
        BY <1>1, <1>2, <2>6, Element
      <4>2. PickedOf(args, posed, n + 1) =
              PickedOf(args, posed, n) \o OneOf(args, posed, n + 1)
        BY <1>1, <4>1, PickedMore
      <4>3. OneOf(args, posed, n + 1) = <<args[n + 1]>>
        BY <3>2 DEF OneOf
      <4>4. <<>> \o <<args[n + 1]>> = <<args[n + 1]>>
        BY ConcatEmptySeq
      <4> QED
        BY <2>4, <3>3, <4>2, <4>3, <4>4
    <3>5. Picked(args, posed) = <<args[n + 1]>>
      <4>1. \A i \in posed : ~(n + 1 < i /\ i <= n + m)
        BY <1>1, <1>10, <3>3
      <4>2. n + 1 \in Nat /\ n + 1 <= n + m
        BY <1>1, <2>6
      <4> HIDE DEF posed
      <4>3. PickedOf(args, posed, n + m) = PickedOf(args, posed, n + 1)
        BY <1>2, <2>3, <4>1, <4>2, PickedSkips
      <4> QED
        BY <2>1, <3>4, <4>3
    <3>6. rest = n + 2
      <4>1. n + 2 <= n + m => args[n + 2].flag # "--"
        BY <1>1, <1>2, <2>6 DEF Plainly, w, m
      <4> QED
        BY <1>2, <3>1, <4>1
    <3>7. <<args[n + 1]>> \o SubSeq(args, n + 2, n + m) = SubSeq(args, n + 1, n + m)
      BY <1>1, <1>2, <2>6, SubSeqFirst, SMTT(30)
    <3>8. SubSeq(args, n + 1, n + m) = w
      BY <1>1, <1>2, TailOfConcat DEF args, n, m
    <3> QED
      BY <1>2, <3>5, <3>6, <3>7, <3>8
  <2>7. m = 0 \/ m > 0
    BY <1>1
  <2> QED
    BY <2>5, <2>6, <2>7
<1> HIDE DEF rest, flagged, posed
<1> DEFINE bad == \E i \in early : args[i].flag = "unknown"
           flags == Picked(valued, flagged)
           words == Picked(args, posed) \o SubSeq(args, rest, Len(args))
<1>18. Parsed = [flags |-> flags, words |-> words, bad |-> bad]
  BY <1>6, <1>8, Zenon DEF flagged, posed, rest, valued
<1>19. ~bad /\ flags = (IF Marked THEN Front(f) ELSE f) /\ words = w
  BY <1>12, <1>16, <1>17
<1> HIDE DEF flags, words, bad
<1>20. Parsed.flags = flags /\ Parsed.words = words /\ Parsed.bad = bad
  BY <1>18
<1> QED
  BY <1>19, <1>20 DEF f, w

-----------------------------------------------------------------------------
(* Results.                                                                *)

\* cmd_run gets past its preflight only where bwrap, pasta and namespaces were
\* seen to work, and a report it or cmd_check prints names all that fails.
THEOREM PreflightAlwaysHolds == Spec => []PreflightHolds
<1>1. ASSUME IInv PROVE PreflightHolds
  <2>1. pc = "sandbox" \/ (pc = "load" /\ line.command = "run") => Ready
    BY <1>1 DEF IInv, Course
  <2>2. pc = "sandbox" \/ line.command = "show" => report = None
    BY <1>1 DEF IInv, Course, Unended, Ended
  <2>3. ASSUME report # None
        PROVE  report = All /\ (exit = 0 => line.command = "check")
    BY <1>1, <2>3 DEF IInv, Unended, Ended
  <2> DEFINE Failing(name) ==
        \E i \in DOMAIN report : report[i] = [name |-> name, outcome |-> "fail"]
  <2>4. ASSUME report = All
        PROVE  /\ [i \in DOMAIN report |-> report[i].name] = <<"bwrap", "pasta", "userns">>
               /\ Failing("bwrap") = (BwrapSeen = "fail")
               /\ Failing("pasta") = (PastaSeen = "fail")
               /\ Failing("userns") = (UsernsSeen = "fail")
    <3>1. DOMAIN report = {1, 2, 3}
      BY <2>4, AllShape
    <3>2. /\ report[1] = [name |-> "bwrap", outcome |-> BwrapSeen]
          /\ report[2] = [name |-> "pasta", outcome |-> PastaSeen]
          /\ report[3] = [name |-> "userns", outcome |-> UsernsSeen]
      BY <2>4, AllShape
    <3>3. [i \in DOMAIN report |-> report[i].name] = <<"bwrap", "pasta", "userns">>
      BY <3>1, <3>2
    <3>4. Failing("bwrap") <=> BwrapSeen = "fail"
      BY <3>1, <3>2
    <3>5. Failing("pasta") <=> PastaSeen = "fail"
      BY <3>1, <3>2
    <3>6. Failing("userns") <=> UsernsSeen = "fail"
      BY <3>1, <3>2
    <3> QED
      BY <3>3, <3>4, <3>5, <3>6
  <2> QED
    BY <2>1, <2>2, <2>3, <2>4
    DEF PreflightHolds, BwrapSeen, PastaSeen, UsernsSeen
<1> QED
  BY <1>1, Invariant, PTL

\* Whatever the lines, a declaration that clap makes of one is of the type the
\* pipeline takes, with absolute paths for its mounts, which nothing
\* normalizes later.
THEOREM TypeCorrect == Spec => []TypeOK
<1>1. Init => TypeOK
  <2>1. <<>> \in Checks
    BY DEF Checks
  <2> QED
    BY <2>1 DEF Init, TypeOK, Steps, Option
<1> QED
  BY <1>1, TypeStep, PTL DEF Spec

\* Whatever the line, if it follows the rules of Plainly then clap reads its
\* flags and its words as they were meant.
THEOREM AlwaysReadAsWritten == Spec => []ReadAsWritten
<1>1. ASSUME IInv PROVE ReadAsWritten
  BY <1>1, PlainRead DEF IInv, Course, ReadAsWritten
<1> QED
  BY <1>1, Invariant, PTL

\* main's exit code: 0 from check says that run's preflight would pass, 0 from
\* run that the sandboxed command ended with 0, and no code of its is lost.
THEOREM ExitAlwaysTells == Spec => []ExitTells
<1>1. ASSUME IInv PROVE ExitTells
  <2> SUFFICES ASSUME pc = "ended" PROVE ExitTells
    BY DEF ExitTells
  <2>1. None # [kind |-> "code", code |-> 0] /\ None \notin Outcomes
    BY OutcomesAssumption
  <2>2. ASSUME outcome \in Outcomes
        PROVE  /\ outcome = [kind |-> outcome.kind, code |-> outcome.code]
               /\ outcome.code \in 0 .. 255
    BY <2>2, OutcomesAssumption
  <2> QED
    BY <1>1, <2>1, <2>2 DEF IInv, Ended, ExitTells, ExitOf
<1> QED
  BY <1>1, Invariant, PTL

=============================================================================
