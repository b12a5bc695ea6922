-------------------------------- MODULE Maps --------------------------------
(***************************************************************************)
(* Options and BTreeMaps, as the configuration's code uses them.           *)
(***************************************************************************)
EXTENDS Naturals, Sequences

CONSTANT None   \* an Option that is absent

Option(S) == {None} \cup S

\* Option::or
Or(a, b) == IF a # None THEN a ELSE b

NoEntries == [n \in {} |-> <<>>]

IsMap(f, keys) == DOMAIN f = keys /\ f = [n \in keys |-> f[n]]

\* Upserts into a BTreeMap: what r has replaces what l has.
Upsert(l, r) ==
  [n \in DOMAIN l \cup DOMAIN r |-> IF n \in DOMAIN r THEN r[n] ELSE l[n]]

\* The map a loop of inserts builds: the last entry of a key stays.  An entry
\* with no item is skipped.
LastEntries(entries) ==
  LET given == {i \in DOMAIN entries : entries[i].item # None}
  IN  [n \in {entries[i].key : i \in given} |->
         entries[CHOOSE i \in given :
                   /\ entries[i].key = n
                   /\ \A j \in given : entries[j].key = n => j <= i].item]
=============================================================================
