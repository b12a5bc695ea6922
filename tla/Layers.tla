------------------------------- MODULE Layers -------------------------------
(***************************************************************************)
(* finalize_config_with_cli of config_file.rs, and what cmd_run and        *)
(* cmd_show do with its result: the profiles of the configuration file are *)
(* normalized, some of them are chosen, validated and resolved together    *)
(* with the command line's, the results are folded and finalized; run      *)
(* merges the proxy's profile on top.                                      *)
(*                                                                         *)
(* How the file comes to be is LoadOrInit's subject and which profiles are *)
(* chosen, in which order, that of ResolveUses: here it is any sequence of *)
(* distinct profiles.                                                      *)
(***************************************************************************)
EXTENDS Profiles, FiniteSets

CONSTANTS
  Profile,   \* the names of the profiles in the file
  Decls,     \* what a profile of the file may declare
  CliDecls,  \* what the command line may declare
  Hosts      \* the hosts: home, cwd, environment and files

VARIABLES
  config,     \* the profiles of the file
  cli,        \* the command line's
  host,       \* the host, which does not change meanwhile
  command,    \* "run" or "show"
  pc,
  profiles,   \* the profiles, normalized as far as it has come
  todo,       \* the profiles yet to be normalized
  order,      \* the names resolve_uses chose
  at,         \* the loops' position
  chain,      \* the resolved layers
  merged,     \* the fold's accumulator, then the finalized profile
  result      \* what show prints, or what run starts the sandbox with

inputs == <<config, cli, host, command>>
vars == <<inputs, pc, profiles, todo, order, at, chain, merged, result>>

-----------------------------------------------------------------------------
\* What resolve_uses may return.
Selections ==
  {s \in UNION {[1 .. n -> Profile] : n \in 0 .. Cardinality(Profile)} :
     \A i, j \in DOMAIN s : s[i] = s[j] => i = j}

\* The layers: the chosen profiles, then the command line.
LayerCount == Len(order) + 1
Layer(k) == IF k <= Len(order) THEN profiles[order[k]] ELSE cli

Init ==
  /\ config \in [Profile -> Decls]
  /\ cli \in CliDecls
  /\ host \in Hosts
  /\ command \in {"run", "show"}
  /\ pc = "begin"
  /\ profiles = config
  /\ todo = Profile
  /\ order = <<>>
  /\ at = 1
  /\ chain = <<>>
  /\ merged = Default
  /\ result = Default

-----------------------------------------------------------------------------
(* Slips the properties are to catch.                                      *)

\* Only the file's profiles are validated.
ValidatedAllOfFile ==
  /\ pc = "validating"
  /\ at = LayerCount
  /\ pc' = "resolving"
  /\ at' = 1
  /\ UNCHANGED <<inputs, profiles, todo, order, chain, merged, result>>

-----------------------------------------------------------------------------
Stop ==
  /\ pc' = "failed"
  /\ UNCHANGED <<inputs, profiles, todo, order, at, chain, merged, result>>

\* run asks for the working directory first, show only within base_config.
Begin ==
  /\ pc = "begin"
  /\ command = "run" => host.cwd # None
  /\ pc' = "normalizing"
  /\ UNCHANGED <<inputs, profiles, todo, order, at, chain, merged, result>>

NoCwd ==
  /\ pc = "begin"
  /\ command = "run" /\ host.cwd = None
  /\ Stop

\* The profiles come in the order of a HashMap: any.
Normalize(p) ==
  /\ pc = "normalizing"
  /\ p \in todo
  /\ Expandable(profiles[p])
  /\ profiles' = [profiles EXCEPT ![p] = Normalized(@, host.home)]
  /\ todo' = todo \ {p}
  /\ UNCHANGED <<inputs, pc, order, at, chain, merged, result>>

NormalizeFails(p) ==
  /\ pc = "normalizing"
  /\ p \in todo
  /\ ~Expandable(profiles[p])
  /\ Stop

Choose ==
  /\ pc = "normalizing"
  /\ todo = {}
  /\ order' \in Selections
  /\ pc' = "validating"
  /\ UNCHANGED <<inputs, profiles, todo, at, chain, merged, result>>

ChooseFails ==
  /\ pc = "normalizing"
  /\ todo = {}
  /\ Stop

Validate ==
  /\ pc = "validating"
  /\ at <= LayerCount
  /\ Valid(Layer(at), host)
  /\ at' = at + 1
  /\ UNCHANGED <<inputs, pc, profiles, todo, order, chain, merged, result>>

ValidateFails ==
  /\ pc = "validating"
  /\ at <= LayerCount
  /\ ~Valid(Layer(at), host)
  /\ Stop

ValidatedAll ==
  /\ pc = "validating"
  /\ at > LayerCount
  /\ pc' = "resolving"
  /\ at' = 1
  /\ UNCHANGED <<inputs, profiles, todo, order, chain, merged, result>>

Resolve ==
  /\ pc = "resolving"
  /\ at <= LayerCount
  /\ Renderable(Layer(at), host)
  /\ chain' = Append(chain, Resolved(Layer(at), host))
  /\ at' = at + 1
  /\ UNCHANGED <<inputs, pc, profiles, todo, order, merged, result>>

\* A template of a proxy declaration cannot be rendered.
ResolveFails ==
  /\ pc = "resolving"
  /\ at <= LayerCount
  /\ ~Renderable(Layer(at), host)
  /\ Stop

ResolvedAll ==
  /\ pc = "resolving"
  /\ at > LayerCount
  /\ pc' = "folding"
  /\ at' = 1
  /\ UNCHANGED <<inputs, profiles, todo, order, chain, merged, result>>

\* merge_all_right_biased
Fold ==
  /\ pc = "folding"
  /\ at <= Len(chain)
  /\ merged' = Merge(merged, chain[at])
  /\ at' = at + 1
  /\ UNCHANGED <<inputs, pc, profiles, todo, order, chain, result>>

\* The pipeline's last step.
Finalize ==
  /\ pc = "folding"
  /\ at > Len(chain)
  /\ merged' = Finalized(merged, host)
  /\ pc' = IF command = "run" THEN "starting" ELSE "showing"
  /\ UNCHANGED <<inputs, profiles, todo, order, at, chain, result>>

\* show prints it.
Show ==
  /\ pc = "showing"
  /\ result' = merged
  /\ pc' = "done"
  /\ UNCHANGED <<inputs, profiles, todo, order, at, chain, merged>>

\* run starts the proxy and merges its profile on top.
Serve ==
  /\ pc = "starting"
  /\ result' = Merge(merged, ProxyProfile)
  /\ pc' = "done"
  /\ UNCHANGED <<inputs, profiles, todo, order, at, chain, merged>>

ServeFails ==
  /\ pc = "starting"
  /\ Stop

Ended ==
  /\ pc \in {"done", "failed"}
  /\ UNCHANGED vars

Next ==
  \/ Begin \/ NoCwd
  \/ \E p \in Profile : Normalize(p) \/ NormalizeFails(p)
  \/ Choose \/ ChooseFails
  \/ Validate \/ ValidateFails \/ ValidatedAll
  \/ Resolve \/ ResolveFails \/ ResolvedAll
  \/ Fold \/ Finalize
  \/ Show \/ Serve \/ ServeFails
  \/ Ended

Spec == Init /\ [][Next]_vars

-----------------------------------------------------------------------------
ASSUME InputsAssumption ==
  /\ IsFiniteSet(Profile)
  /\ \A d \in Decls \cup CliDecls : IsDecl(d)
  /\ \A h \in Hosts : IsHost(h)

NormalDecls == {Normalized(d, host.home) : d \in Decls}

\* Every variable stays in its type: no mount is left without a place or an
\* access mode, no forward without its second port.
TypeOK ==
  /\ config \in [Profile -> Decls]
  /\ cli \in CliDecls
  /\ host \in Hosts
  /\ command \in {"run", "show"}
  /\ pc \in {"begin", "normalizing", "validating", "resolving", "folding",
             "showing", "starting", "done", "failed"}
  /\ profiles \in [Profile -> Decls \cup NormalDecls]
  /\ todo \subseteq Profile
  /\ order \in Selections
  /\ at \in 1 .. LayerCount + 1
  /\ chain \in Seq({Resolved(d, host) :
       d \in {e \in NormalDecls \cup CliDecls : Renderable(e, host)}})
  /\ Len(chain) <= LayerCount /\ \A k \in DOMAIN chain : IsProfile(chain[k])
  /\ IsProfile(merged)
  /\ IsProfile(result)

IsLast(k, ks) == k \in ks /\ \A j \in ks : j <= k

Reserved == IF command = "run" THEN ProxyVars ELSE {}

\* The last layer that says something of a variable, of a host or of a toggle
\* has its way: over every layer before it, over the baseline, and, unless it
\* is a variable of the proxy's, over what run adds; there the proxy has it
\* (merge_right_biased and its order of use in finalize and cmd_run).
LastLayerWins ==
  pc = "done" =>
    /\ \A n \in Reserved : result.vars[n] = ProxyProfile.vars[n]
    /\ \A k \in DOMAIN chain :
       /\ \A n \in DOMAIN chain[k].vars \ Reserved :
            IsLast(k, {j \in DOMAIN chain : n \in DOMAIN chain[j].vars})
              => n \in DOMAIN result.vars /\ result.vars[n] = chain[k].vars[n]
       /\ \A n \in DOMAIN chain[k].proxies :
            IsLast(k, {j \in DOMAIN chain : n \in DOMAIN chain[j].proxies})
              => /\ n \in DOMAIN result.proxies
                 /\ result.proxies[n] = chain[k].proxies[n]
       /\ IsLast(k, {j \in DOMAIN chain : chain[j].public_web # None})
            => result.public_web = chain[k].public_web

\* What is shown or run has passed the checks, whichever layer it is from: no
\* path of any profile of the file, used or not, was refused; what is bound
\* existed, no port is 0 and no variable is without a name.
Screened ==
  pc = "done" =>
    /\ \A p \in Profile : Expandable(config[p])
    /\ \A i \in DOMAIN result.mounts :
         result.mounts[i].kind = "mount" =>
           result.mounts[i].host \in
             host.files \cup {host.cwd, BundleFile, <<"usr">>, <<"etc">>}
    /\ \A i \in DOMAIN result.forwards :
         result.forwards[i].host_port # 0 /\ result.forwards[i].sandbox_port # 0
    /\ {"", "NUL"} \cap DOMAIN result.vars = {}
=============================================================================
