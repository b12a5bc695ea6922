---------------------------- MODULE SandboxView ----------------------------
(***************************************************************************)
(* What the sandboxed command sees of a profile that Layers built, once    *)
(* bwrap and pasta have read their command lines: bwrap performs the       *)
(* mounts in their order, and a later mount covers what an earlier one put *)
(* there.  The properties compare that view with what the user wrote,      *)
(* layer by layer.                                                         *)
(***************************************************************************)
EXTENDS Layers, Argv

CONSTANTS
  Probes,    \* the paths the command looks at
  Commands   \* the commands, with their arguments

ASSUME CommandsAssumption == Probes \subseteq Path /\ Commands \subseteq Seq(STRING)

-----------------------------------------------------------------------------
(* The command's view.                                                     *)

\* cmd_run: the bwrap command line; show's result is taken as one to run.
Bwrap(tokens) == BwrapArgv(result, IF host.cwd = None THEN <<>> ELSE host.cwd, tokens)
Pasta(tokens) == PastaArgv(result, <<"bwrap">> \o Bwrap(tokens))

Under(path, place) == IsPrefix(place, path)
Below(path, place) == SubSeq(path, Len(place) + 1, Len(path))

Shown(kind, from, access) == [kind |-> kind, host |-> from, access |-> access]
Nothing == Shown("none", <<>>, None)

Sees(mounts, path) ==
  LET covering == {i \in DOMAIN mounts : Under(path, mounts[i].sandbox)}
      top == mounts[Max(covering)]
  IN  IF covering = {} THEN Nothing
      ELSE Shown(top.kind,
                 IF top.kind = "mount"
                   THEN top.host \o Below(path, top.sandbox) ELSE <<>>,
                 top.access)

-----------------------------------------------------------------------------
(* What the user wrote, in the order of the layers.                        *)

Wrote(k) == IF k <= Len(order) THEN config[order[k]] ELSE cli

\* A path as its writer means it: ~ is the home in the file, where the shell
\* does not expand it.
Meant(k, path) ==
  IF k <= Len(order) /\ path.form = "home" THEN host.home \o path.rest
                                           ELSE path.rest

Layers == 1 .. LayerCount
MountsWritten == UNION {{k} \X DOMAIN Wrote(k).mounts : k \in Layers}
WrittenMount(m) == Wrote(m[1]).mounts[m[2]]
Place(m) ==
  LET w == WrittenMount(m)
  IN  Meant(m[1], IF w.sandbox = None THEN w.host ELSE w.sandbox)
Later(a, b) == a[1] > b[1] \/ (a[1] = b[1] /\ a[2] > b[2])

\* The last layer's word on an option, or the given default.
LastWord(word(_), default) ==
  LET said == {k \in Layers : word(k) # None}
  IN  IF said = {} THEN default ELSE word(Max(said))

ReadonlyOf(k) == Wrote(k).readonly
PathOf(k) ==
  IF Wrote(k).path = None THEN None
  ELSE [i \in DOMAIN Wrote(k).path |-> Meant(k, Wrote(k).path[i])]

\* What is there without any declaration: the host's /usr and /etc, to read;
\* the links into /usr; /dev, /proc and an empty /tmp.
System(path) ==
  LET top == Head(path)
  IN  CASE path = <<>>                             -> Nothing
        [] path # <<>> /\ top \in {"usr", "etc"}    -> Shown("mount", path, "ro")
        [] path # <<>> /\ top \in {"bin", "sbin", "lib", "lib64"} ->
             Shown("symlink", <<>>, None)
        [] path # <<>> /\ top \in {"dev", "proc"}   -> Shown(top, <<>>, None)
        [] path # <<>> /\ top = "tmp"              -> Shown("tmpfs", <<>>, None)
        [] OTHER                                  -> Nothing

\* What a path of the sandbox is to show.
Promised(path) ==
  LET covering == {m \in MountsWritten : Under(path, Place(m))}
      top == CHOOSE m \in covering : \A o \in covering : o = m \/ Later(m, o)
      w == WrittenMount(top)
  IN  IF command = "run" /\ Under(path, BundlePath)
        THEN Shown("mount", BundleFile \o Below(path, BundlePath), "ro")
      ELSE IF covering # {}
        THEN Shown("mount",
                   Meant(top[1], w.host) \o Below(path, Place(top)),
                   IF w.access = None THEN "ro" ELSE w.access)
      ELSE IF host.cwd # None /\ Under(path, host.cwd)
        THEN Shown("mount", path, LastWord(ReadonlyOf, "rw"))
      ELSE IF Under(path, host.home)
        THEN Shown("tmpfs", <<>>, None)
      ELSE System(path)

\* Wherever the command looks, it sees the bundle at the bundle's place, else
\* the last mount declared over the path, else the project as its last toggle
\* says, else a blank home, else the system's baseline: whatever the layers
\* mount over each other (the order of Mounts::base_config, merge_right_biased
\* and proxy_profile).
ViewAsDeclared ==
  pc = "done" =>
    LET mounts == BwrapMounts(Bwrap(<<"sh">>))
    IN  \A path \in Probes : Sees(mounts, path) = Promised(path)

\* Whatever the command and its arguments look like, they reach the sandbox as
\* they are, through both command lines, and no flag of theirs is taken for
\* one of bwrap's or pasta's; of the host's environment the command has what
\* the inventory holds and nothing else.
CommandReaches ==
  pc = "done" =>
    \A tokens \in Commands :
      LET child == ChildOf(Pasta(tokens))
          argv == Tail(child)
      IN  /\ Head(child) = "bwrap"
          /\ ChildOf(argv) = tokens
          /\ BwrapEnv(argv, host.env) = result.vars

\* PATH has each layer's additions once, the last one first, before the last
\* override or the default; unless a layer sets PATH itself.
PathAsDeclared ==
  LET additions == FlattenSeq([k \in Layers |->
        [i \in DOMAIN Wrote(k).path_add |-> Meant(k, Wrote(k).path_add[i])]])
      value == [i \in DOMAIN result.vars["PATH"] |-> result.vars["PATH"][i].rest]
  IN  (/\ pc = "done"
       /\ \A k \in Layers : \A i \in DOMAIN Wrote(k).env :
            Wrote(k).env[i].name # "PATH")
      => value = Reverse(additions) \o LastWord(PathOf, <<CanonicalPath[1].rest>>)

\* The entries of the layers, and which of them have a value here.
VarsWritten == UNION {{k} \X DOMAIN Wrote(k).env : k \in Layers}
WrittenVar(e) == Wrote(e[1]).env[e[2]]
Gives(e) ==
  WrittenVar(e).value # None \/ WrittenVar(e).name \in DOMAIN host.env
Given(e) == IF WrittenVar(e).value # None THEN WrittenVar(e).value
                                          ELSE host.env[WrittenVar(e).name]

\* No variable reaches the command, the host's or another, unless it is one of
\* the curated names, one of the proxy's, or a chosen layer or the command line
\* names it.
NothingUnasked ==
  pc = "done" =>
    DOMAIN result.vars \subseteq
      {"HOME", "PATH"} \cup Inherited \cup ProxyVars
        \cup {WrittenVar(e).name : e \in VarsWritten}

\* Within and across layers, a variable that is not one of the proxy's has the
\* value of the last entry that gives it one; a passthrough of what the host
\* does not have gives none.
LastEntryWins ==
  pc = "done" =>
    \A e \in VarsWritten :
      (/\ Gives(e)
       /\ WrittenVar(e).name \notin ProxyVars
       /\ \A o \in VarsWritten :
            Later(o, e) /\ WrittenVar(o).name = WrittenVar(e).name => ~Gives(o))
      => /\ WrittenVar(e).name \in DOMAIN result.vars
         /\ result.vars[WrittenVar(e).name] = Given(e)

\* The environment, in run and in show, is what the layers and the curated list
\* give, no more and no less, the proxy's own names apart: those are the
\* proxy's in run (LastLayerWins), and what show makes of them is ShowTellsRun's.
VarsAsDeclared == NothingUnasked /\ LastEntryWins

\* The ports the command reaches are those the layers forward to themselves,
\* in their order, and in run the proxy's.
ForwardsAsDeclared ==
  pc = "done" =>
    result.forwards =
      FlattenSeq([k \in Layers |->
        [i \in DOMAIN Wrote(k).forwards |-> ForwardOf(Wrote(k).forwards[i])]])
      \o (IF command = "run" THEN ProxyProfile.forwards ELSE <<>>)

\* The declarations of the proxy's rules, by their layer and place.
RulesWritten == UNION {{k} \X DOMAIN Wrote(k).proxies : k \in Layers}
WrittenRule(e) == Wrote(e[1]).proxies[e[2]]
Templates(d) ==
  {d.headers[i].item : i \in DOMAIN d.headers}
    \cup {d.params[i].item : i \in DOMAIN d.params}
    \cup (IF d.auth = None THEN {} ELSE Range(d.auth.parts))
Values(rule) ==
  {rule.headers[i].item : i \in DOMAIN rule.headers}
    \cup {rule.params[i].item : i \in DOMAIN rule.params}
    \cup (IF rule.auth = None THEN {} ELSE Range(rule.auth.parts))

\* A host's rule is its last declaration's, whole: of another declaration of
\* the host, an earlier one or one for another port, no secret is left in it,
\* and no host has a rule, or a secret, of another's.
RulesAsDeclared ==
  LET Final(e) == \A o \in RulesWritten :
                    WrittenRule(o).host = WrittenRule(e).host => ~Later(o, e)
  IN  pc = "done" =>
        /\ DOMAIN result.proxies = {WrittenRule(e).host : e \in RulesWritten}
        /\ \A e \in {o \in RulesWritten : Final(o)} :
             LET rule == result.proxies[WrittenRule(e).host]
             IN  /\ rule.action = WrittenRule(e).action
                 /\ Values(rule) = {Rendered(t, host.secrets) :
                                      t \in Templates(WrittenRule(e))}

-----------------------------------------------------------------------------
(* What comments say, and the code does not keep.                          *)

\* ResolveContext: a declaration's templates "get plain `String` values back":
\* a secret is put into the request as the secrets file has it.
SecretsArePlain ==
  LET Plain(template) ==
        [i \in DOMAIN template |->
           IF template[i].kind = "text" THEN template[i].of
                                        ELSE host.secrets[template[i].of]]
  IN  pc = "done" =>
        \A k \in Layers : \A i \in DOMAIN Wrote(k).proxies :
          LET d == Wrote(k).proxies[i]
          IN  Values(result.proxies[d.host]) = {Plain(t) : t \in Templates(d)}

\* show: "describes exactly what `run -p X` would build", "exactly the same
\* entries the running sandbox sees": of the environment, what run's merge of
\* the proxy's profile makes of the same finalized profile.
ShowTellsRun ==
  (pc = "done" /\ command = "show") =>
    result.vars = Merge(merged, ProxyProfile).vars
=============================================================================
