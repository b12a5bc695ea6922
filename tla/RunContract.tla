---------------------------- MODULE RunContract ----------------------------
(***************************************************************************)
(* What `redoubtful run` promises its caller, seen from outside: a sandbox *)
(* may be started, it ends at most once and for a reason, and the run ends *)
(* with that ending, with an error of its own, or because it was killed.   *)
(* A code need not be the command's: what carries the command may fail,    *)
(* and its code is handed on in the same way (cmd/run.rs 208, 239-241).    *)
(* Only 0 tells for certain: the command ran and gave it.                  *)
(* Session is shown to implement it.                                       *)
(***************************************************************************)
EXTENDS Naturals

CONSTANTS
  Codes,    \* exit codes of commands
  Killers   \* signals that can kill the launcher

VARIABLES
  stage,    \* "preparing", "active" or "over"
  command,  \* how the user's command ended
  ending,   \* how the sandbox ended
  result    \* what the caller of `redoubtful run` observes

vars == <<stage, command, ending, result>>

NotEnded == [kind |-> "none", value |-> 0]
Killed == [kind |-> "signal", value |-> 9]
EndedWith(c) == [kind |-> "code", value |-> c]

NoResult == [kind |-> "none", value |-> 0]
Failure == [kind |-> "failed", value |-> 1]
Report(e) ==
  [kind |-> "reported", value |-> IF e.kind = "code" THEN e.value ELSE 1]

Init ==
  /\ stage = "preparing"
  /\ command = NotEnded
  /\ ending = NotEnded
  /\ result = NoResult

Launch ==
  /\ stage = "preparing"
  /\ stage' = "active"
  /\ UNCHANGED <<command, ending, result>>

\* Before anything was launched there is no command to end.
CommandEnds(c) ==
  /\ stage # "preparing"
  /\ command = NotEnded
  /\ command' = EndedWith(c)
  /\ UNCHANGED <<stage, ending, result>>

\* The sandbox ends with its command's code, it is killed, or it fails with
\* a code of its own, with the command or without.  It can outlive the
\* launcher.
SandboxEnds ==
  /\ stage # "preparing"
  /\ ending = NotEnded
  /\ \/ ending' = Killed
     \/ command # NotEnded /\ ending' = command
     \/ \E c \in Codes \ {0} : ending' = EndedWith(c)
  /\ UNCHANGED <<stage, command, result>>

Finish(r) ==
  /\ stage # "over"
  /\ stage' = "over"
  /\ result' = r
  /\ UNCHANGED <<command, ending>>

\* A result is reported only of a sandbox that has ended, and says how.
ReportEnding == ending # NotEnded /\ Finish(Report(ending))

Fail == Finish(Failure)

Kill == \E sig \in Killers : Finish([kind |-> sig, value |-> 0])

Next ==
  \/ Launch
  \/ \E c \in Codes : CommandEnds(c)
  \/ SandboxEnds
  \/ ReportEnding
  \/ Fail
  \/ Kill

Spec == Init /\ [][Next]_vars
=============================================================================
