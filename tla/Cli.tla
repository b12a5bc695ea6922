--------------------------------- MODULE Cli ---------------------------------
(***************************************************************************)
(* From the command line to the exit code: what clap makes of the          *)
(* arguments (src/cmd and the flags of src/config), the values' own        *)
(* grammars (the FromStr of MountDecl, ForwardDecl, EnvVarDecl and         *)
(* ProxyDecl), the preflight checks (src/check.rs) and what main makes of  *)
(* each command's result.  The profile pipeline and the sandbox are        *)
(* Layers and Session; here they succeed or fail.                          *)
(*                                                                         *)
(* A line is given as its writer means it: flags, then words (the command  *)
(* and its arguments).  A flag and its value are one argument; "unknown"   *)
(* is anything else that starts with a hyphen.  A value is the sequence of *)
(* its words and separators.  clap is external.                            *)
(***************************************************************************)
EXTENDS Profiles, SequencesExt

CONSTANTS
  Lines,        \* the command lines
  Machines,     \* the hosts
  Outcomes,     \* how the sandbox may end
  Absolute,     \* the words that start with /
  NumberOf,     \* str::parse::<u16>
  ActionNamed   \* ProxyAction::from_str

Repeatable == {"-m", "-f", "-e", "-P", "-p", "-u"}
Optional == {"--readonly", "--public-web"}   \* num_args = 0..=1
Single == Optional \cup {"--path", "--json"}
Known == Repeatable \cup Single
Arg ==
  [flag : Known \cup {"word"}, spec : Seq(Word)]
    \cup [flag : Optional \cup {"unknown", "--"}, spec : Option(Seq(Word))]

Port == 0 .. 65535

ASSUME GrammarAssumption ==
  /\ Absolute \subseteq Word /\ Word \cup {""} \subseteq STRING
  /\ NumberOf \in [Word -> Option(Port)]
  /\ ActionNamed \in [Word -> Option(Action)]
ASSUME LinesAssumption ==
  \A l \in Lines : /\ l.command \in {"run", "show", "check"}
                   /\ l.flags \in Seq(Arg) /\ l.words \in Seq(Arg)
ASSUME OutcomesAssumption ==
  /\ Outcomes \subseteq [kind : {"code", "other"}, code : 0 .. 255]
  /\ None \notin [kind : {"code", "other"}, code : 0 .. 255]

VARIABLES
  line,     \* the command line
  machine,  \* the host
  pc,       \* the step of the command
  decl,     \* the declaration the flags make, None before
  results,  \* the checks so far
  report,   \* the checks the printed report has, None if there is none
  outcome,  \* how the sandbox ended, None before
  exit      \* the exit code, None before

vars == <<line, machine, pc, decl, results, report, outcome, exit>>

-----------------------------------------------------------------------------
(* clap.  A bare flag with an optional value takes the next word for it.   *)
(* The rest is words from a -- on, or from the second positional on; what  *)
(* starts with a hyphen is one only after the first, and if it is no flag. *)

Bare(arg) == arg.flag \in Optional /\ arg.spec = None
Positional(args, i) == args[i].flag = "word" /\ (i > 1 => ~Bare(args[i - 1]))

\* A slip: without trailing_var_arg, only -- ends the flags.
TrailingMarked(args) ==
  LET starts == {i \in DOMAIN args : args[i].flag = "--"}
  IN  CHOOSE i \in starts \cup {Len(args) + 1} : \A j \in starts : i <= j

Trailing(args) ==
  LET starts ==
        {i \in DOMAIN args :
           \/ args[i].flag = "--"
           \/ /\ Positional(args, i) \/ args[i].flag = "unknown"
              /\ \E j \in 1 .. i - 1 : Positional(args, j)}
  IN  CHOOSE i \in starts \cup {Len(args) + 1} : \A j \in starts : i <= j

\* The elements of a list at some places, in their order.
Picked(list, places) ==
  FlattenSeq([i \in DOMAIN list |-> IF i \in places THEN <<list[i]>> ELSE <<>>])

Read(args) ==
  LET end == Trailing(args)
      early == 1 .. end - 1
      valued == [i \in DOMAIN args |->
                   IF Bare(args[i]) /\ i + 1 \in early /\ args[i + 1].flag = "word"
                     THEN [args[i] EXCEPT !.spec = args[i + 1].spec]
                     ELSE args[i]]
      rest == IF end <= Len(args) /\ args[end].flag = "--" THEN end + 1 ELSE end
  IN  [flags |-> Picked(valued, {i \in early : args[i].flag \in Known}),
       words |-> Picked(args, {i \in early : Positional(args, i)})
                   \o SubSeq(args, rest, Len(args)),
       bad |-> \E i \in early : args[i].flag = "unknown"]

Specs(flags, flag) ==
  Picked([i \in DOMAIN flags |-> flags[i].spec],
         {i \in DOMAIN flags : flags[i].flag = flag})

-----------------------------------------------------------------------------
(* The values' grammars; None is an error.                                 *)

\* str::split
Split(spec, separator) ==
  LET cuts == <<0>> \o Picked([i \in DOMAIN spec |-> i],
                              {i \in DOMAIN spec : spec[i] = separator})
                    \o <<Len(spec) + 1>>
  IN  [k \in 1 .. Len(cuts) - 1 |-> SubSeq(spec, cuts[k] + 1, cuts[k + 1] - 1)]

IsAbsolute(field) == field # <<>> /\ Head(field) \in Absolute

\* A slip: the sandbox's path goes unchecked.
MountFromAny(spec) ==
  LET f == Split(spec, ":")
  IN  IF Len(f) <= 3 /\ IsAbsolute(f[1])
        THEN [host |-> Abs(f[1]),
              sandbox |-> IF Len(f) >= 2 THEN [form |-> "other", rest |-> f[2]] ELSE None,
              access |-> IF Len(f) = 3 THEN "rw" ELSE None]
        ELSE None

\* HOST_PATH[:SANDBOX_PATH[:rw|:ro]]
MountFrom(spec) ==
  LET f == Split(spec, ":")
  IN  IF /\ Len(f) <= 3
         /\ IsAbsolute(f[1])
         /\ Len(f) >= 2 => IsAbsolute(f[2])
         /\ Len(f) = 3 => f[3] \in {<<"ro">>, <<"rw">>}
        THEN [host |-> Abs(f[1]),
              sandbox |-> IF Len(f) >= 2 THEN Abs(f[2]) ELSE None,
              access |-> IF Len(f) = 3 THEN Head(f[3]) ELSE None]
        ELSE None

Number(field) == IF Len(field) = 1 THEN NumberOf[Head(field)] ELSE None

\* HOST_PORT[:SANDBOX_PORT]
ForwardFrom(spec) ==
  LET f == Split(spec, ":")
      ports == [i \in DOMAIN f |-> Number(f[i])]
  IN  IF Len(f) <= 2 /\ \A i \in DOMAIN f : ports[i] # None
        THEN [host_port |-> ports[1],
              sandbox_port |-> IF Len(f) = 2 THEN ports[2] ELSE None]
        ELSE None

\* VAR[=VALUE]: split at the first =; the name is one word or none.
EnvVarFrom(spec) ==
  LET f == Split(spec, "=")
      name == IF f[1] = <<>> THEN "" ELSE Head(f[1])
  IN  [name |-> name,
       value |-> IF Len(f) = 1 THEN None
                 ELSE <<[form |-> "text",
                         rest |-> SubSeq(spec, Len(f[1]) + 2, Len(spec))]>>]

\* HOST[:PORT][=ACTION]
ProxyFrom(spec) ==
  LET f == Split(spec, "=")
      at == Split(f[1], ":")
      host == IF Len(at[1]) = 1 THEN HostnameOf(Head(at[1])) ELSE None
      port == IF Len(at) = 2 THEN Number(at[2]) ELSE 443
      action == IF Len(f) = 1 THEN "allow"
                ELSE IF Len(f[2]) = 1 THEN ActionNamed[Head(f[2])] ELSE None
  IN  IF Len(f) <= 2 /\ Len(at) <= 2 
         /\ host # None /\ port # None /\ action # None
        THEN [host |-> host, port |-> port, action |-> action,
              headers |-> <<>>, params |-> <<>>, auth |-> None]
        ELSE None

\* Of an option that cannot be given twice: its values, at most one.
ReadonlyFrom(given) ==
  CASE given = <<>>                         -> None
    [] given \in {<<None>>, <<<<"true">>>>} -> "ro"
    [] given = <<<<"false">>>>              -> "rw"
    [] OTHER                                -> "bad"

WebFrom(given) ==
  IF given = <<>> THEN None
  ELSE IF given[1] = None THEN "allow"
  ELSE IF Len(given[1]) = 1 /\ ActionNamed[given[1][1]] # None
         THEN ActionNamed[given[1][1]] ELSE "bad"

\* --path and -P are taken as they are.
DirFrom(spec) == [form |-> "text", rest |-> spec]
PathFrom(given) == IF given = <<>> THEN None ELSE <<DirFrom(given[1])>>

EachBy(list, parse(_)) == [i \in DOMAIN list |-> parse(list[i])]

\* ProfileDecl, of the flags; names to use are ResolveUses's.
DeclOf(flags) ==
  [NothingDeclared EXCEPT
     !.mounts = EachBy(Specs(flags, "-m"), MountFrom),
     !.readonly = ReadonlyFrom(Specs(flags, "--readonly")),
     !.forwards = EachBy(Specs(flags, "-f"), ForwardFrom),
     !.env = EachBy(Specs(flags, "-e"), EnvVarFrom),
     !.path = PathFrom(Specs(flags, "--path")),
     !.path_add = EachBy(Specs(flags, "-P"), DirFrom),
     !.public_web = WebFrom(Specs(flags, "--public-web")),
     !.proxies = EachBy(Specs(flags, "-p"), ProxyFrom)]

IllFormed(command, read) ==
  \/ read.bad
  \/ command = "run" /\ read.words = <<>>
  \/ command # "run" /\ read.words # <<>>
  \/ command = "check" /\ read.flags # <<>>
  \/ (command = "show") # (Len(Specs(read.flags, "--json")) = 1)
  \/ \E flag \in Single : Len(Specs(read.flags, flag)) > 1

\* clap's exit 2.
Rejected(command, read) ==
  LET d == DeclOf(read.flags)
  IN  \/ IllFormed(command, read)
      \/ None \in Range(d.mounts) \cup Range(d.forwards) \cup Range(d.proxies)
      \/ "bad" \in {d.readonly, d.public_web}

-----------------------------------------------------------------------------
Init ==
  /\ line \in Lines
  /\ machine \in Machines
  /\ pc = "parse"
  /\ decl = None
  /\ results = <<>>
  /\ report = None
  /\ outcome = None
  /\ exit = None

End(code) == pc' = "ended" /\ exit' = code
Goto(step) == pc' = step /\ UNCHANGED exit

Parsed == Read(line.flags \o line.words)

\* Cli::parse
Reject ==
  /\ pc = "parse"
  /\ Rejected(line.command, Parsed)
  /\ End(2)
  /\ UNCHANGED <<line, machine, decl, results, report, outcome>>

Accept ==
  /\ pc = "parse"
  /\ ~Rejected(line.command, Parsed)
  /\ decl' = DeclOf(Parsed.flags)
  /\ Goto(IF line.command = "show" THEN "load" ELSE "bwrap")
  /\ UNCHANGED <<line, machine, results, report, outcome>>

Result(name, seen) == results' = Append(results, [name |-> name, outcome |-> seen])

\* probe and path_check: --version succeeds and says something.
ProbeBwrap ==
  /\ pc = "bwrap"
  /\ Result("bwrap", IF machine.bwrap = "ok" THEN "pass" ELSE "fail")
  /\ Goto("pasta")
  /\ UNCHANGED <<line, machine, decl, report, outcome>>

ProbePasta ==
  /\ pc = "pasta"
  /\ Result("pasta", IF machine.pasta = "ok" THEN "pass" ELSE "fail")
  /\ Goto("userns")
  /\ UNCHANGED <<line, machine, decl, report, outcome>>

\* A slip: without bwrap there is nothing to skip.
UsernsUnskipped ==
  IF machine.sysctl = "1" THEN "fail" ELSE "pass"

\* check_userns
Userns ==
  CASE results[1].outcome # "pass"                -> "skip"
    [] results[1].outcome = "pass" /\ machine.sysctl # "1" -> "pass"
    [] OTHER -> IF machine.userns THEN "pass" ELSE "fail"

CheckUserns ==
  /\ pc = "userns"
  /\ Userns = "fail" => machine.exe = "ok"
  /\ Result("userns", Userns)
  /\ Goto("report")
  /\ UNCHANGED <<line, machine, decl, report, outcome>>

\* Its own executable cannot be named for the remedy.
UsernsFails ==
  /\ pc = "userns"
  /\ Userns = "fail" /\ machine.exe # "ok"
  /\ End(1)
  /\ UNCHANGED <<line, machine, decl, results, report, outcome>>

\* A slip: only the binaries count.
AnyMissing == \E i \in DOMAIN results \cap {1, 2} : results[i].outcome = "fail"

\* any_failed
AnyFailed == \E i \in DOMAIN results : results[i].outcome = "fail"

\* cmd_check, and cmd_run's preflight when something failed
Report ==
  /\ pc = "report"
  /\ line.command = "check" \/ AnyFailed
  /\ report' = results
  /\ End(IF AnyFailed THEN 1 ELSE 0)
  /\ UNCHANGED <<line, machine, decl, results, outcome>>

Proceed ==
  /\ pc = "report"
  /\ line.command = "run" /\ ~AnyFailed
  /\ Goto("load")
  /\ UNCHANGED <<line, machine, decl, results, report, outcome>>

\* ResolveContext::new, finalize_config_with_cli and, in run, what comes before
\* the sandbox: any error is miette's.
LoadFails ==
  /\ pc = "load"
  /\ End(1)
  /\ UNCHANGED <<line, machine, decl, results, report, outcome>>

Load ==
  /\ pc = "load"
  /\ IF line.command = "show" THEN End(0) ELSE Goto("sandbox")
  /\ UNCHANGED <<line, machine, decl, results, report, outcome>>

\* A slip: whatever fails exits with 1.
ExitOfAny(end) == IF end = [kind |-> "code", code |-> 0] THEN 0 ELSE 1

\* main: Ok, Error::Exit, any other error
ExitOf(end) == IF end.kind = "code" THEN end.code ELSE 1

Finish(end) ==
  /\ pc = "sandbox"
  /\ outcome' = end
  /\ End(ExitOf(end))
  /\ UNCHANGED <<line, machine, decl, results, report>>

Next ==
  \/ Reject \/ Accept
  \/ ProbeBwrap \/ ProbePasta \/ CheckUserns \/ UsernsFails
  \/ Report \/ Proceed \/ LoadFails \/ Load
  \/ \E end \in Outcomes : Finish(end)

Spec == Init /\ [][Next]_vars

-----------------------------------------------------------------------------
(* Properties.                                                             *)

Steps == {"parse", "bwrap", "pasta", "userns", "report", "load", "sandbox", "ended"}
Checks ==
  Seq([name : {"bwrap", "pasta", "userns"}, outcome : {"pass", "fail", "skip"}])

\* The declaration is one Layers takes.  Its mounts bypass the normalization
\* those of the file go through: none has a path that would need it.
CliDecl(d) ==
  /\ IsDecl(d)
  /\ \A i \in DOMAIN d.mounts :
       /\ d.mounts[i].host.form = "abs"
       /\ d.mounts[i].sandbox # None => d.mounts[i].sandbox.form = "abs"

TypeOK ==
  /\ line \in Lines /\ machine \in Machines /\ pc \in Steps
  /\ decl = None \/ CliDecl(decl)
  /\ results \in Checks
  /\ report \in Option(Checks)
  /\ outcome \in Option(Outcomes)
  /\ exit \in Option(0 .. 255)

Marked == line.flags # <<>> /\ line.flags[Len(line.flags)].flag = "--"

\* How a writer can be sure of being read: with -- before the command, or else
\* with no bare flag before a word and no flag of redoubtful's own right after
\* the command.
Plainly ==
  LET n == Len(line.flags)
  IN  /\ \A i \in 1 .. n : line.flags[i].flag \in Known \/ (i = n /\ Marked)
      /\ \/ Marked
         \/ /\ n > 0 => ~Bare(line.flags[n])
            /\ line.words # <<>> => line.words[1].flag = "word"
            /\ Len(line.words) > 1 => line.words[2].flag \in {"word", "unknown"}

\* Then each flag shapes the declaration, in its place among its like, and
\* nothing else does; and the words reach the sandbox as they are, whatever
\* flags they look like.
ReadAsWritten ==
  (pc = "parse" /\ Plainly) =>
    /\ Parsed.flags = IF Marked THEN Front(line.flags) ELSE line.flags
    /\ Parsed.words = line.words
    /\ ~Parsed.bad

\* bwrap and pasta work, and so do namespaces, as far as anyone can tell.
Ready ==
  /\ machine.bwrap = "ok" /\ machine.pasta = "ok"
  /\ machine.sysctl = "1" => machine.userns

\* run starts a sandbox only on a host where all that it needs was seen to
\* work, that a check was skipped notwithstanding.  A report has all three
\* checks, and names all that fails at once; run prints one exactly if it stops
\* for it, show never.
PreflightHolds ==
  /\ pc = "sandbox" \/ (pc = "load" /\ line.command = "run") => Ready
  /\ pc = "sandbox" \/ line.command = "show" => report = None
  /\ report # None =>
       LET Failing(name) ==
             \E i \in DOMAIN report : report[i] = [name |-> name, outcome |-> "fail"]
       IN  /\ [i \in DOMAIN report |-> report[i].name] = <<"bwrap", "pasta", "userns">>
           /\ Failing("bwrap") = (machine.bwrap # "ok")
           /\ Failing("pasta") = (machine.pasta # "ok")
           /\ Failing("userns") =
                (machine.bwrap = "ok" /\ machine.sysctl = "1" /\ ~machine.userns)
           /\ exit = 0 => line.command = "check"

\* The exit code tells a script what happened: check's is 0 exactly if its line
\* is well formed and the host passes run's preflight, run's exactly if the
\* sandboxed command's is, and the command's own code is never lost.
ExitTells ==
  pc = "ended" =>
    /\ line.command = "check" =>
         ((exit = 0) = (~Rejected("check", Parsed) /\ Ready))
    /\ line.command = "run" =>
         ((exit = 0) = (outcome = [kind |-> "code", code |-> 0]))
    /\ outcome # None /\ outcome.kind = "code" => exit = outcome.code

-----------------------------------------------------------------------------
(* What comments say, and the code does not keep.                          *)

\* run's Args: "Hyphen-prefixed args pass through as-is."
HyphenArgsPass ==
  (decl # None /\ line.command = "run") => Parsed.words = line.words
=============================================================================
