------------------------------ MODULE MCLayers ------------------------------
(* Instances of Layers and SandboxView for TLC. *)
EXTENDS SandboxView

Symmetry == Permutations(Profile)

Words == {"usr", "bin", "sbin", "lib", "lib64", "etc", "dev", "proc", "tmp",
          "bundle", "hostbundle", "canonical", "loopback", "proxy",
          "home", "me", "you", "proj", "sub", "deep", "key", "srv", "gone", "x",
          "opt", "a", "b", "c", "d", "e", "u", "host", "token", "k&y", "k&amp;y"}

\* A secret with a character handlebars escapes, and hosts in both cases.
Escapes == [w \in Words |-> IF w = "k&y" THEN "k&amp;y" ELSE w]
HostTexts == {"h", "H", "g"}
Lowercase == [t \in HostTexts |-> IF t = "H" THEN "h" ELSE t]

Empty == NothingDeclared

Tilde(path) == [form |-> "home", rest |-> path]
Double(path) == [form |-> "double", rest |-> path]
Other(path) == [form |-> "other", rest |-> path]

Home == <<"home", "me">>
Project == <<"home", "me", "proj">>
Secret == <<"home", "me", "key">>

HostFiles ==
  { <<"usr">>, <<"etc">>, <<"home">>, Home, Project, Secret, <<"srv">>,
    <<"tmp">>, <<"home", "me", "proj", "sub">> }
HostEnv == [n \in {"HOME", "LANG", "TOKEN"} |->
              IF n = "HOME" THEN <<Abs(Home)>> ELSE <<Text("host")>>]

Secrets == [n \in {"token", "key"} |-> IF n = "key" THEN "k&y" ELSE "x"]

Host(cwd, env) ==
  [home |-> Home, cwd |-> cwd, env |-> env, files |-> HostFiles,
   secrets |-> Secrets]
HostIn(cwd) == Host(cwd, HostEnv)
HostNoHomeVar == Host(Project, [n \in {"LANG"} |-> <<Text("host")>>])

-----------------------------------------------------------------------------
(* Declarations of variables, PATH, forwards and proxies. *)

Set(name, text) == [name |-> name, value |-> <<Text(text)>>]
Pass(name) == [name |-> name, value |-> None]
Env(entries) == [Empty EXCEPT !.env = entries]

Piece1(kind, of) == <<[kind |-> kind, of |-> of]>>
Entry1(key, template) == <<[key |-> key, item |-> template]>>
Bare(name, port, action) ==
  [host |-> HostnameOf(name), port |-> port, action |-> action,
   headers |-> <<>>, params |-> <<>>, auth |-> None]
Rule(name, port, action, template) ==
  [Bare(name, port, action) EXCEPT !.headers = Entry1("a", template)]
Bearer(name, template) ==
  [Bare(name, 443, "allow") EXCEPT
     !.auth = [scheme |-> "bearer", parts |-> <<template>>],
     !.params = Entry1("b", Piece1("text", "c"))]
Rules(entries) == [Empty EXCEPT !.proxies = entries]

EnvDecls ==
  { Empty,
    Env(<<Set("TOKEN", "a"), Pass("TOKEN")>>),
    Env(<<Set("X", "a"), Pass("X"), Set("LANG", "b")>>),
    Env(<<Set("X", "c"), Set("X", "d")>>),
    Env(<<Set("HTTPS_PROXY", "u"), Set("PATH", "u")>>),
    Env(<<Set("", "u")>>),
    [Empty EXCEPT !.path = <<Abs(<<"opt">>), Tilde(<<"bin">>)>>,
                  !.path_add = <<Tilde(<<"a">>)>>],
    [Empty EXCEPT !.path_add = <<Abs(<<"b">>), Abs(<<"c">>)>>],
    [Empty EXCEPT !.path_add = <<Other(<<"d">>)>>] }

EnvCliDecls ==
  { Empty,
    Env(<<Pass("TOKEN"), Set("SSL_CERT_FILE", "u")>>),
    Env(<<Set("X", "e")>>),
    Env(<<Set("NUL", "u")>>),
    [Empty EXCEPT !.path_add = <<Other(<<"d">>)>>],
    [Empty EXCEPT !.path = <<Tilde(<<"bin">>)>>] }

EnvHosts == {HostIn(Project), HostNoHomeVar}

RuleDecls ==
  { Empty,
    [Empty EXCEPT !.forwards = <<[host_port |-> 1, sandbox_port |-> None],
                                 [host_port |-> 1, sandbox_port |-> 2]>>],
    [Empty EXCEPT !.forwards = <<[host_port |-> 2, sandbox_port |-> 0]>>],
    [Rules(<<Rule("h", 443, "allow", Piece1("secret", "token"))>>)
       EXCEPT !.public_web = "deny"],
    [Empty EXCEPT !.public_web = "allow"],
    Rules(<<Bare("h", 80, "allow"), Rule("H", 443, "deny", Piece1("raw", "key"))>>),
    Rules(<<Rule("h", 80, "allow", Piece1("text", "d")),
            Bearer("g", Piece1("secret", "token")), Bare("H", 443, "allow")>>),
    Rules(<<Bearer("g", Piece1("secret", "gone"))>>),
    Rules(<<Rule("g", 443, "deny", Piece1("broken", "x"))>>) }

\* No flag gives a destination something to inject.
RuleCliDecls ==
  {d \in RuleDecls : \A i \in DOMAIN d.proxies : Templates(d.proxies[i]) = {}}
    \cup {Rules(<<Bare("g", 443, "deny"), Bare("H", 80, "allow")>>)}

RuleHosts == {HostIn(Project), HostIn(None)}

-----------------------------------------------------------------------------
(* Declarations of mounts. *)

At(from, place, access) == [host |-> from, sandbox |-> place, access |-> access]
Mounts(entries) == [Empty EXCEPT !.mounts = entries]

MountDecls ==
  { Empty,
    Mounts(<<At(Tilde(<<"key">>), None, None)>>),
    Mounts(<<At(Abs(<<"srv">>), Tilde(<<"proj", "sub">>), "rw"),
             At(Abs(<<"srv">>), Abs(<<"tmp">>), None)>>),
    Mounts(<<At(Abs(<<"gone">>), Abs(<<"srv">>), None)>>),
    Mounts(<<At(Other(<<"key">>), None, None)>>),
    [Mounts(<<At(Tilde(<<>>), None, "rw")>>) EXCEPT !.readonly = "ro"],
    [Empty EXCEPT !.readonly = "ro"],
    [Empty EXCEPT !.readonly = "rw"] }

MountCliDecls ==
  { Empty,
    Mounts(<<At(Abs(<<"srv">>), Abs(BundlePath), "rw")>>),
    Mounts(<<At(Abs(Secret), Abs(Project), None),
             At(Abs(<<"srv">>), Abs(Secret), "rw")>>),
    Mounts(<<At(Abs(<<"gone">>), Abs(<<"srv">>), None)>>),
    [Empty EXCEPT !.readonly = "ro"] }

MountHosts == {HostIn(c) : c \in {Project, Home, <<"home">>, <<"srv">>, None}}

MountProbes ==
  { Home, Secret, Project, <<"home", "me", "proj", "sub">>, <<"home", "you">>,
    <<"home", "me", "proj", "sub", "deep">>, <<"srv">>, <<"srv", "x">>,
    <<"tmp">>, BundlePath, <<>>, <<"usr", "bin">>, <<"lib64">>, <<"dev">> }

\* Commands that look like flags of bwrap's and pasta's.
MountCommands == {<<"sh">>, <<"--bind", "--", "--setenv">>, <<"-T", "none">>}

-----------------------------------------------------------------------------
(* The instances: a family of declarations with its command lines and hosts. *)

Families ==
  { [decls |-> EnvDecls, cli |-> EnvCliDecls, hosts |-> EnvHosts],
    [decls |-> RuleDecls, cli |-> RuleCliDecls, hosts |-> RuleHosts],
    [decls |-> MountDecls, cli |-> MountCliDecls, hosts |-> MountHosts] }

AllDecls == UNION {f.decls : f \in Families}
AllCliDecls == UNION {f.cli : f \in Families}
AllHosts == UNION {f.hosts : f \in Families}

FamilyInit ==
  /\ \E f \in Families :
       config \in [Profile -> f.decls] /\ cli \in f.cli /\ host \in f.hosts
  /\ Init

FamilySpec == FamilyInit /\ [][Next]_vars

-----------------------------------------------------------------------------
(* Small sets for what the comments say. *)

NoProbes == {}
KeyDecls == {Rules(<<Rule("h", 443, "allow", Piece1(k, "key"))>>) : k \in {"secret", "raw"}}
ProxyDecls == {Empty, Env(<<Set("HTTPS_PROXY", "u"), Set("X", "a")>>)}
Plain == {Empty}
=============================================================================
