------------------------------ MODULE MCGateway ------------------------------
(* Instances of Gateway for TLC. *)
EXTENDS Gateway, TLC

CONSTANTS c1, c2

Symmetry == Permutations(Conn)

Words == {"authorization", "Authorization", ":", "x-a", "X-A", "bad name", "k",
          "s1", "s2", "s3", "c", "nl"}
Escapes == [w \in Words |-> w]
Names == [w \in Words |-> CASE w = "Authorization" -> "authorization"
                            [] w = "X-A"           -> "x-a"
                            [] w = "bad name"      -> None
                            [] OTHER               -> w]
Clean == Words \ {"nl"}

HostTexts == {"h", "H", "g", "4", ""}
Lowercase == [t \in HostTexts |-> IF t = "H" THEN "h" ELSE t]
AddressTexts == {"4"}

-----------------------------------------------------------------------------
Item(key, word) == [key |-> key, item |-> <<word>>]
Plain(action) ==
  [port |-> 443, action |-> action, headers |-> <<>>, params |-> <<>>,
   auth |-> None]
Bearer(word) == [scheme |-> "bearer", parts |-> <<<<word>>>>]
Basic(user, word) == [scheme |-> "basic", parts |-> <<<<user>>, <<word>>>>]

\* Everything at once, names twice; a parameter the clients give as well; what
\* cannot be sent.
Full ==
  [Plain("allow") EXCEPT
     !.headers = <<Item("Authorization", "s1"), Item("X-A", "s1"), Item("x-a", "s2")>>,
     !.params = <<Item("k", "s1")>>,
     !.auth = Basic("s2", "s3")]
Unsendable ==
  [Plain("allow") EXCEPT
     !.headers = <<Item("Authorization", "s1"), Item("bad name", "s1"), Item("x-a", "nl")>>,
     !.auth = Bearer("nl")]
Param == [Plain("allow") EXCEPT !.params = <<Item("k", "s2")>>]

Policy(web, rules) == [public_web |-> web, proxies |-> rules]

AllPolicies ==
  { Policy("deny", [t \in {"h", "4"} |-> IF t = "h" THEN Full ELSE Plain("deny")]),
    Policy("allow", [t \in {"h"} |-> [Full EXCEPT !.action = "deny"]]),
    Policy("allow", [t \in {"h", "g", "4"} |-> IF t = "h" THEN Unsendable ELSE Param]),
    Policy("deny", [t \in {"h"} |-> Plain("allow")]) }

Asked(text, names, query, rebuilds) ==
  [host |-> text,
   headers |-> [n \in names |-> <<TextValue(<<"c">>), TextValue(<<"k">>)>>],
   query |-> query, rebuilds |-> rebuilds, dotted |-> TRUE]

AllRequests ==
  { Asked(None, {}, <<>>, TRUE),
    Asked("h", {"authorization", "x-a"}, <<Item("k", "c")>>, TRUE),
    Asked("H", {"x-a"}, <<Item("k", "c")>>, FALSE),
    Asked("4", {"k"}, <<>>, TRUE) }

=============================================================================
