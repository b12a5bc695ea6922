-------------------------------- MODULE MCCli --------------------------------
(* Instances of Cli for TLC. *)
EXTENDS Cli

Words == {"usr", "bin", "sbin", "lib", "lib64", "etc", "dev", "proc", "tmp",
          "bundle", "hostbundle", "canonical", "loopback", "proxy",
          "/a", "/b", "x", "ro", "rw", ":", "=", "0", "80", "443", "70000",
          "allow", "DENY", "true", "false", "h", "H", "A", "sh", "py"}
Escapes == [w \in Words |-> w]
HostTexts == {"h", "H", "x", "/a"}
Lowercase == [t \in HostTexts |-> IF t = "H" THEN "h" ELSE t]
AbsoluteWords == {"/a", "/b"}
Numbers == [w \in Words |-> CASE w = "0" -> 0 [] w = "80" -> 80 [] w = "443" -> 443
                              [] OTHER -> None]
Actions == [w \in Words |-> CASE w = "allow" -> "allow" [] w = "DENY" -> "deny"
                              [] OTHER -> None]

Flag(flag, spec) == [flag |-> flag, spec |-> spec]
Word1(word) == Flag("word", <<word>>)
Sh == <<Word1("sh")>>

-----------------------------------------------------------------------------
(* Values, well written and not. *)

Values(flag) ==
  CASE flag = "-m" -> { <<"/a">>, <<"/a", ":", "/b">>, <<"/a", ":", "/b", ":", "rw">>,
                        <<"/a", ":", "/b", ":", "x">>, <<"/a", ":", "x">>,
                        <<"/a", ":">>, <<":", "/b">>, <<"x">>, <<"/a", ":", ":", "ro">>,
                        <<"/a", ":", "/b", ":", "ro", ":", "x">> }
    [] flag = "-f" -> { <<"80">>, <<"80", ":", "443">>, <<"0", ":", "80">>, <<"70000">>,
                        <<"80", ":">>, <<"80", ":", "80", ":", "80">> }
    [] flag = "-e" -> { <<"A">>, <<"A", "=">>, <<"A", "=", "x", "=", "x">>, <<"=", "x">>, <<>> }
    [] flag = "-p" -> { <<"H">>, <<"h", ":", "80">>, <<"h", "=", "DENY">>,
                        <<"h", ":", "80", "=", "allow">>, <<"h", "=", "x">>,
                        <<":", "80">>, <<"h", ":", "x">>, <<"h", "=", "allow", "=", "x">>,
                        <<"h", ":", "80", ":", "80">> }
    [] flag = "--readonly" -> {None, <<"true">>, <<"false">>, <<"x">>}
    [] flag = "--public-web" -> {None, <<"allow">>, <<"DENY">>, <<"x">>}
    [] flag = "--json" -> {<<>>}
    [] OTHER -> {<<"/a", ":", "/b">>}

OneFlag == UNION {{<<Flag(f, v)>> : v \in Values(f)} : f \in Known}

\* Flags among each other, and bare ones before what they may take.
SomeFlags ==
  { <<>>, <<Flag("--", None)>>, <<Flag("unknown", None)>>,
    <<Flag("-m", <<"/b">>), Flag("-e", <<"A">>), Flag("-m", <<"/a">>)>>,
    <<Flag("--readonly", None), Flag("-m", <<"/a">>)>>,
    <<Flag("--readonly", None), Flag("--readonly", <<"false">>)>>,
    <<Flag("--public-web", None), Flag("--", None)>>,
    <<Flag("--public-web", None), Flag("--readonly", None)>> }

SomeWords ==
  { <<>>, Sh, <<Word1("true"), Word1("sh")>>,
    Sh \o <<Flag("unknown", <<"x">>), Flag("-m", <<"/a">>)>>,
    Sh \o <<Word1("x"), Flag("--", None), Flag("--readonly", None)>>,
    Sh \o <<Flag("-m", <<"x">>)>>, Sh \o <<Flag("-m", <<"/a">>)>>,
    Sh \o <<Flag("--", None), Word1("x")>> }

L(command, flags, words) == [command |-> command, flags |-> flags, words |-> words]
Json == <<Flag("--json", <<>>)>>

AllLines ==
  {L("run", f, Sh) : f \in OneFlag}
    \cup {L("run", f, w) : f \in SomeFlags, w \in SomeWords}
    \cup {L("show", f \o Json, <<>>) : f \in OneFlag \cup SomeFlags}
    \cup {L("show", <<>>, Sh), L("check", <<>>, <<>>), L("check", Json, <<>>),
          L("check", <<Flag("--", None)>>, <<>>)}

AllMachines ==
  [bwrap : {"ok", "missing"}, pasta : {"ok", "mute"}, sysctl : {"absent", "1"},
   userns : BOOLEAN, exe : {"ok", "unnamed"}]

Ends == [kind : {"code"}, code : {0, 1, 255}] \cup {[kind |-> "other", code |-> 9]}

-----------------------------------------------------------------------------
FineMachine == {[bwrap |-> "ok", pasta |-> "ok", sysctl |-> "0", userns |-> TRUE, exe |-> "ok"]}
RunLines == {L("run", <<>>, Sh \o <<Flag(f, <<"/a">>)>>) : f \in {"unknown", "-m"}}
=============================================================================
