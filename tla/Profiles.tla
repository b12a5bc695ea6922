------------------------------ MODULE Profiles ------------------------------
(***************************************************************************)
(* The profile algebra of src/config: what a declared profile is expanded  *)
(* to (NormalizeConfigPaths), when it is valid and what it resolves to     *)
(* (Decl), how resolved profiles merge and what finalize lays below the    *)
(* merged one (Finalize).  The four domains (mounts, forwards, environment *)
(* and proxies) are fields of one record here.                             *)
(*                                                                         *)
(* A path is the sequence of its names from the root.  A path as written   *)
(* has a form: "abs" (/x), "home" (~ and ~/x), "double" (~//x) or "other"  *)
(* (~user/x, x).  A value of a variable is a sequence of pieces, which are *)
(* paths as written, or texts: so the value of PATH is a list of them.     *)
(* The name "NUL" stands for one with a NUL in it.                         *)
(***************************************************************************)
EXTENDS ProxyRules, Sequences, FiniteSets

CONSTANTS
  Inherited,   \* PASSTHROUGH_NAMES and the names that start with LC_
  UrlVars,     \* the names proxy_env_vars gives the proxy's address
  DirectVars,  \* NO_PROXY and no_proxy
  BundleVars,  \* the names proxy_profile gives the bundle's path
  ProxyPort    \* the port of the proxy's listener

ProxyVars == UrlVars \cup DirectVars \cup BundleVars

ASSUME NamesAssumption ==
  /\ {"HOME", "PATH"} \cap (Inherited \cup ProxyVars) = {}
  /\ Inherited \cap ProxyVars = {}
  /\ {"", "NUL"} \cap (Inherited \cup ProxyVars) = {}
  /\ IsFiniteSet(ProxyVars)

ASSUME WordAssumption ==
  {"usr", "bin", "sbin", "lib", "lib64", "etc", "dev", "proc", "tmp", "bundle",
   "hostbundle", "canonical", "loopback", "proxy"} \subseteq Word

ASSUME ProxyPortAssumption == ProxyPort \in Nat \ {0}

-----------------------------------------------------------------------------
Abs(path) == [form |-> "abs", rest |-> path]
Text(text) == [form |-> "text", rest |-> <<text>>]

CanonicalPath == <<Text("canonical")>>
BundlePath == <<"tmp", "bundle">>           \* CA_BUNDLE_SANDBOX_PATH
BundleFile == <<"tmp", "hostbundle">>   \* the temp file on the host

-----------------------------------------------------------------------------
(* Declared profiles.                                                      *)

\* expand_tilde, of a path it does not refuse: home.join of an absolute rest
\* is that rest.
Expand(path, home) ==
  CASE path.form = "home"   -> Abs(home \o path.rest)
    [] path.form = "double" -> Abs(path.rest)
    [] OTHER                -> path

Expanded(list, home) == [i \in DOMAIN list |-> Expand(list[i], home)]

\* The paths normalize_config_paths visits.
WrittenPaths(d) ==
  {d.mounts[i].host : i \in DOMAIN d.mounts}
    \cup ({d.mounts[i].sandbox : i \in DOMAIN d.mounts} \ {None})
    \cup (IF d.path = None THEN {} ELSE {d.path[i] : i \in DOMAIN d.path})
    \cup {d.path_add[i] : i \in DOMAIN d.path_add}

Expandable(d) == \A path \in WrittenPaths(d) : path.form # "other"

\* normalize_config_paths, when no path is refused: of one mount, and of all.
NormalizedMount(m, home) ==
  [m EXCEPT !.host = Expand(@, home),
            !.sandbox = IF @ = None THEN None ELSE Expand(@, home)]

Normalized(d, home) ==
  [d EXCEPT
     !.mounts = [i \in DOMAIN d.mounts |-> NormalizedMount(d.mounts[i], home)],
     !.path = IF @ = None THEN None ELSE Expanded(@, home),
     !.path_add = Expanded(@, home)]

\* validate: what is mounted exists; no port is 0; a name is not empty and has
\* no NUL in it.  Of a proxy declaration nothing is checked.
ValidMount(m, host) == m.host.rest \in host.files
ValidForward(f) == f.host_port # 0 /\ f.sandbox_port # 0
ValidEnvVar(e) == e.name \notin {"", "NUL"}

Valid(d, host) ==
  /\ \A i \in DOMAIN d.mounts : ValidMount(d.mounts[i], host)
  /\ \A i \in DOMAIN d.forwards : ValidForward(d.forwards[i])
  /\ \A i \in DOMAIN d.env : ValidEnvVar(d.env[i])

Bind(at, from, access) ==
  [sandbox |-> at, kind |-> "mount", host |-> from, access |-> access]

\* A slip: the access mode is taken as written.
MountOfBare(m) ==
  Bind(IF m.sandbox = None THEN m.host.rest ELSE m.sandbox.rest,
       m.host.rest, m.access)

\* MountDecl::resolve
MountOf(m) ==
  Bind(IF m.sandbox = None THEN m.host.rest ELSE m.sandbox.rest,
       m.host.rest,
       IF m.access = None THEN "ro" ELSE m.access)

\* ForwardDecl::resolve
ForwardOf(f) ==
  [host_port |-> f.host_port,
   sandbox_port |-> IF f.sandbox_port = None THEN f.host_port
                                             ELSE f.sandbox_port]

\* EnvVarDecl::resolve: the literal, or the host's value if it has one.
ValueOf(e, host) ==
  IF e.value # None THEN e.value
  ELSE IF e.name \in DOMAIN host.env THEN host.env[e.name] ELSE None

\* EnvVarDecls::resolve: an unset passthrough is no entry.
VarsOf(env, host) ==
  LastEntries([i \in DOMAIN env |->
    [key |-> env[i].name, item |-> ValueOf(env[i], host)]])

\* No template of the profile fails.
Renderable(d, host) ==
  \A i \in DOMAIN d.proxies : Resolvable(d.proxies[i], host.secrets)

\* ProfileDecl::resolve, when no template fails.
Resolved(d, host) ==
  [mounts |-> [i \in DOMAIN d.mounts |-> MountOf(d.mounts[i])],
   readonly |-> d.readonly,
   forwards |-> [i \in DOMAIN d.forwards |-> ForwardOf(d.forwards[i])],
   vars |-> VarsOf(d.env, host),
   path |-> d.path,
   path_add |-> d.path_add,
   public_web |-> d.public_web,
   proxies |-> RulesOf(d.proxies, host.secrets)]

-----------------------------------------------------------------------------
(* Resolved profiles.                                                      *)

Default ==
  [mounts |-> <<>>, readonly |-> None, forwards |-> <<>>, vars |-> NoEntries,
   path |-> None, path_add |-> <<>>, public_web |-> None,
   proxies |-> NoEntries]

\* Slips of the merge: an Option taken from the right even if absent; lists
\* the other way round.
MergeTakingRight(l, r) ==
  [mounts |-> l.mounts \o r.mounts,
   readonly |-> r.readonly,
   forwards |-> l.forwards \o r.forwards,
   vars |-> Upsert(l.vars, r.vars),
   path |-> r.path,
   path_add |-> l.path_add \o r.path_add,
   public_web |-> r.public_web,
   proxies |-> Upsert(l.proxies, r.proxies)]

MergePrepending(l, r) ==
  [mounts |-> r.mounts \o l.mounts,
   readonly |-> Or(r.readonly, l.readonly),
   forwards |-> r.forwards \o l.forwards,
   vars |-> Upsert(l.vars, r.vars),
   path |-> Or(r.path, l.path),
   path_add |-> r.path_add \o l.path_add,
   public_web |-> Or(r.public_web, l.public_web),
   proxies |-> Upsert(l.proxies, r.proxies)]

\* merge_right_biased
Merge(l, r) ==
  [mounts |-> l.mounts \o r.mounts,
   readonly |-> Or(r.readonly, l.readonly),
   forwards |-> l.forwards \o r.forwards,
   vars |-> Upsert(l.vars, r.vars),
   path |-> Or(r.path, l.path),
   path_add |-> l.path_add \o r.path_add,
   public_web |-> Or(r.public_web, l.public_web),
   proxies |-> Upsert(l.proxies, r.proxies)]

Special(at, kind) ==
  [sandbox |-> at, kind |-> kind, host |-> <<>>, access |-> None]
Symlink(name) ==
  [sandbox |-> <<name>>, kind |-> "symlink", host |-> <<"usr", name>>,
   access |-> None]

\* push_system_baseline
SystemBaseline ==
  << Bind(<<"usr">>, <<"usr">>, "ro"), Symlink("bin"), Symlink("sbin"),
     Symlink("lib"), Symlink("lib64"), Bind(<<"etc">>, <<"etc">>, "ro"),
     Special(<<"dev">>, "dev"), Special(<<"proc">>, "proc"),
     Special(<<"tmp">>, "tmpfs") >>

\* MountAccess::from_readonly
FromReadonly(readonly) == IF readonly = "ro" THEN "ro" ELSE "rw"

\* A slip: the project is bound before the home is blanked.
MountsBaseBlankingLast(readonly, host) ==
  SystemBaseline
    \o (IF host.cwd = None THEN <<>>
        ELSE <<Bind(host.cwd, host.cwd, FromReadonly(readonly))>>)
    \o <<Special(host.home, "tmpfs")>>

\* Mounts::base_config; home_dir() has an answer in every run of the pipeline.
MountsBase(readonly, host) ==
  SystemBaseline
    \o <<Special(host.home, "tmpfs")>>
    \o (IF host.cwd = None THEN <<>>
        ELSE <<Bind(host.cwd, host.cwd, FromReadonly(readonly))>>)

\* PATH: the additions, the last one first, then the override or the default.
PathValue(path, path_add) ==
  [i \in DOMAIN path_add |-> path_add[Len(path_add) + 1 - i]]
    \o Or(path, CanonicalPath)

\* A slip: the host's variables pass by themselves.
VarsBaseInheriting(p, host) ==
  [n \in {"PATH"} \cup DOMAIN host.env |->
     IF n = "PATH" THEN PathValue(p.path, p.path_add) ELSE host.env[n]]

\* EnvVars::base_config
VarsBase(p, host) ==
  [n \in {"PATH"} \cup (({"HOME"} \cup Inherited) \cap DOMAIN host.env) |->
     IF n = "PATH" THEN PathValue(p.path, p.path_add) ELSE host.env[n]]

\* base_config of the merged profile p; Proxies' is to allow the public web.
Base(p, host) ==
  [Default EXCEPT !.mounts = MountsBase(p.readonly, host),
                  !.vars = VarsBase(p, host),
                  !.public_web = "allow"]

\* clear_extra_fields
Cleared(p) == [p EXCEPT !.readonly = None, !.path = None, !.path_add = <<>>]

\* A slip: cleared before the baseline is built from what is cleared.
FinalizedTooLate(p, host) == Merge(Base(Cleared(p), host), Cleared(p))

\* finalize
Finalized(p, host) == Merge(Base(p, host), Cleared(p))

\* proxy_env_vars
ProxyEnv ==
  [n \in UrlVars \cup DirectVars |->
     IF n \in DirectVars THEN <<Text("loopback")>> ELSE <<Text("proxy")>>]

\* proxy_profile
ProxyProfile ==
  [Default EXCEPT
     !.mounts = <<Bind(BundlePath, BundleFile, "ro")>>,
     !.forwards = <<[host_port |-> ProxyPort, sandbox_port |-> ProxyPort]>>,
     !.vars = Upsert(ProxyEnv, [n \in BundleVars |-> <<Abs(BundlePath)>>])]

-----------------------------------------------------------------------------
(* The types.                                                              *)

Path == Seq(Word)
Written == [form : {"abs", "home", "double", "other", "text"}, rest : Path]
Access == {"ro", "rw"}

ASSUME AbsentAssumption ==
  /\ None \notin Access \cup Written
  /\ None \notin Seq(Written) /\ None \notin Seq(Path)

MountDecl == [host : Written, sandbox : Option(Written), access : Option(Access)]
ForwardDecl == [host_port : Nat, sandbox_port : Option(Nat)]
EnvVarDecl == [name : STRING, value : Option(Seq(Written))]

IsMountDecls(d) == d.mounts \in Seq(MountDecl) /\ d.readonly \in Option(Access)
IsForwardDecls(d) == d.forwards \in Seq(ForwardDecl)
IsEnvVarDecls(d) ==
  /\ d.env \in Seq(EnvVarDecl)
  /\ d.path \in Option(Seq(Written))
  /\ d.path_add \in Seq(Written)
IsProxyDecls(d) ==
  d.public_web \in Option(Action) /\ d.proxies \in Seq(ProxyDecl)

\* ProfileDecl; the command line's paths are never normalized.
IsDecl(d) ==
  /\ DOMAIN d = {"mounts", "readonly", "forwards", "env", "path", "path_add",
                 "public_web", "proxies"}
  /\ IsMountDecls(d) /\ IsForwardDecls(d) /\ IsEnvVarDecls(d) /\ IsProxyDecls(d)

\* What a profile without keys, or a command line without flags, declares.
NothingDeclared ==
  [mounts |-> <<>>, readonly |-> None, forwards |-> <<>>, env |-> <<>>,
   path |-> None, path_add |-> <<>>, public_web |-> None, proxies |-> <<>>]

IsHost(h) ==
  /\ h.home \in Path
  /\ h.cwd \in Option(Path)
  /\ IsFiniteSet(DOMAIN h.env)
  /\ \A n \in DOMAIN h.env : h.env[n] \in Seq(Written)
  /\ \A n \in DOMAIN h.secrets : h.secrets[n] \in Word

Mount ==
  [sandbox : Path, kind : {"mount"}, host : Path, access : Access]
    \cup
  [sandbox : Path, kind : {"symlink"}, host : Path, access : {None}]
    \cup
  [sandbox : Path, kind : {"dev", "proc", "tmpfs"}, host : {<<>>}, access : {None}]

Forward == [host_port : Nat, sandbox_port : Nat]

Fields == {"mounts", "readonly", "forwards", "vars", "path", "path_add",
           "public_web", "proxies"}

IsMounts(p) == p.mounts \in Seq(Mount) /\ p.readonly \in Option(Access)
IsForwards(p) == p.forwards \in Seq(Forward)
IsEnvVars(p) ==
  /\ IsMap(p.vars, DOMAIN p.vars)
  /\ \A n \in DOMAIN p.vars : p.vars[n] \in Seq(Written)
  /\ p.path \in Option(Seq(Written))
  /\ p.path_add \in Seq(Written)
IsProxies(p) ==
  /\ p.public_web \in Option(Action)
  /\ IsMap(p.proxies, DOMAIN p.proxies)
  /\ \A n \in DOMAIN p.proxies : p.proxies[n] \in ProxyRule

\* Profile
IsProfile(p) ==
  IsMap(p, Fields) /\ IsMounts(p) /\ IsForwards(p) /\ IsEnvVars(p) /\ IsProxies(p)
=============================================================================
