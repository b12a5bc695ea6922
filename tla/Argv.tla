-------------------------------- MODULE Argv --------------------------------
(***************************************************************************)
(* The command lines of bwrap and pasta (src/sandbox/argv.rs, bwrap.rs and *)
(* pasta.rs), and what the two programs read in them.  A token is a text   *)
(* (a flag, a name, a part of the user's command), a path or a value; the  *)
(* readers look at what stands where they expect a flag, which no operand  *)
(* reaches if the flags before it have the operands they take.             *)
(***************************************************************************)
EXTENDS Profiles, SequencesExt, FiniteSetsExt

-----------------------------------------------------------------------------
(* ArgvBuilder, bwrap_argv and pasta_argv.                                 *)

Single(flag, operand) == <<flag, operand>>
Pair(flag, a, b) == <<flag, a, b>>

\* A slip: the operands of a bind the other way round.
MountTokensSwapped(m) ==
  CASE m.kind = "mount" /\ m.access = "ro" -> Pair("--ro-bind", m.sandbox, m.host)
    [] m.kind = "mount" /\ m.access = "rw" -> Pair("--bind", m.sandbox, m.host)
    [] m.kind = "symlink"                  -> Pair("--symlink", m.host, m.sandbox)
    [] OTHER                               -> Single("--tmpfs", m.sandbox)

\* bwrap_argv: one mount
MountTokens(m) ==
  CASE m.kind = "mount" /\ m.access = "ro" -> Pair("--ro-bind", m.host, m.sandbox)
    [] m.kind = "mount" /\ m.access = "rw" -> Pair("--bind", m.host, m.sandbox)
    [] m.kind = "symlink"                  -> Pair("--symlink", m.host, m.sandbox)
    [] m.kind = "tmpfs"                    -> Single("--tmpfs", m.sandbox)
    [] m.kind = "dev"                      -> Single("--dev", m.sandbox)
    [] m.kind = "proc"                     -> Single("--proc", m.sandbox)

\* The variables are in some order of their names, the same each time.
EnvFlags(vars) ==
  FoldSet(LAMBDA n, flags : Append(flags, Pair("--setenv", n, vars[n])),
          <<>>, DOMAIN vars)

BwrapFlags(p, cwd) ==
  << <<"--unshare-all">>, <<"--share-net">>, <<"--die-with-parent">>,
     <<"--new-session">>, <<"--clearenv">> >>
    \o EnvFlags(p.vars)
    \o [i \in DOMAIN p.mounts |-> MountTokens(p.mounts[i])]
    \o << Single("--chdir", cwd) >>

\* A slip: the user's command is not set apart.
BwrapArgvUnmarked(p, cwd, tokens) == FlattenSeq(BwrapFlags(p, cwd)) \o tokens

\* tokens: the user's command and its arguments
BwrapArgv(p, cwd, tokens) ==
  FlattenSeq(BwrapFlags(p, cwd)) \o <<"--">> \o tokens

\* Forwards::format_for_pasta: a list of ports and of pairs of ports
PastaSpec(forwards) ==
  [i \in DOMAIN forwards |->
     IF forwards[i].host_port = forwards[i].sandbox_port
       THEN <<forwards[i].host_port>>
       ELSE <<forwards[i].host_port, forwards[i].sandbox_port>>]

PastaFlags(p) ==
  << <<"--config-net">>, <<"--no-map-gw">>, <<"--no-dhcp">>, <<"--no-dhcpv6">>,
     <<"--no-ra">>, <<"--foreground">>, Single("-t", "none"),
     Single("-T", IF p.forwards = <<>> THEN <<>> ELSE PastaSpec(p.forwards)) >>

PastaArgv(p, child) == FlattenSeq(PastaFlags(p)) \o <<"--">> \o child

-----------------------------------------------------------------------------
(* bwrap and pasta: what each reads.                                       *)

Operands(flag) ==
  CASE flag \in {"--setenv", "--bind", "--ro-bind", "--symlink"}      -> 2
    [] flag \in {"--tmpfs", "--dev", "--proc", "--chdir", "-t", "-T"} -> 1
    [] OTHER                                                          -> 0

\* One pass over argv: the flags so far, each with its operands; how many
\* operands are due; and where the flags ended, if they have.
Reading(argv) ==
  LET read[i \in 0 .. Len(argv)] ==
        IF i = 0 THEN [flags |-> <<>>, due |-> 0, end |-> 0]
        ELSE LET r == read[i - 1]
             IN  CASE r.end # 0 -> r
                   [] r.end = 0 /\ r.due > 0 ->
                        [r EXCEPT !.flags[Len(r.flags)] = Append(@, argv[i]),
                                  !.due = @ - 1]
                   [] r.end = 0 /\ r.due = 0 /\ argv[i] = "--" ->
                        [r EXCEPT !.end = i]
                   [] OTHER ->
                        [r EXCEPT !.flags = Append(@, <<argv[i]>>),
                                  !.due = Operands(argv[i])]
  IN  read[Len(argv)]

\* The flags of a set, in their order.
Flagged(argv, names) ==
  LET flags == Reading(argv).flags
  IN  FlattenSeq([i \in DOMAIN flags |->
        IF flags[i][1] \in names THEN <<flags[i]>> ELSE <<>>])

\* The child's command line: what follows "--".
ChildOf(argv) ==
  LET end == Reading(argv).end
  IN  IF end = 0 THEN <<>> ELSE SubSeq(argv, end + 1, Len(argv))

BwrapMount(flag) ==
  CASE flag[1] = "--ro-bind" -> Bind(flag[3], flag[2], "ro")
    [] flag[1] = "--bind"    -> Bind(flag[3], flag[2], "rw")
    [] flag[1] = "--symlink" ->
         [sandbox |-> flag[3], kind |-> "symlink", host |-> flag[2],
          access |-> None]
    [] flag[1] = "--tmpfs"   -> Special(flag[2], "tmpfs")
    [] flag[1] = "--dev"     -> Special(flag[2], "dev")
    [] flag[1] = "--proc"    -> Special(flag[2], "proc")

\* The filesystem operations, in the order bwrap performs them.
BwrapMounts(argv) ==
  LET flags == Flagged(argv, {"--ro-bind", "--bind", "--symlink", "--tmpfs",
                              "--dev", "--proc"})
  IN  [i \in DOMAIN flags |-> BwrapMount(flags[i])]

\* The environment: the host's, unless it is cleared, with what is set.
BwrapEnv(argv, inherited) ==
  LET sets == Flagged(argv, {"--setenv"})
  IN  Upsert(IF Flagged(argv, {"--clearenv"}) = <<>> THEN inherited ELSE NoEntries,
             LastEntries([i \in DOMAIN sets |->
                            [key |-> sets[i][2], item |-> sets[i][3]]]))
=============================================================================
