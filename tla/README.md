# redoubtful: a TLA+ model of the launcher and its configuration

`redoubtful` runs a coding agent inside a Linux sandbox. The launcher reads a
configuration, starts a credential-injecting proxy inside its own process, and
spawns `pasta`, which spawns `bwrap`, which runs the user's command. The
command sees the mounts, the environment and the network that the
configuration and the command line ask for, and nothing else.

This directory holds TLA+ modules for that program, the TLC configurations
that check them on small instances, and proofs of their main theorems. Every
definition stands for lines of the Rust source; `PROJECT.json` ("map") names
them.

Contents: [1 Inventory](#1-inventory), [2 Structure](#2-structure-of-the-project),
[3 The models](#3-the-models), [4 Runs](#4-runs-and-their-bounds),
[5 Fairness](#5-fairness), [6 Findings](#6-where-the-code-and-its-comments-disagree),
[7 Proofs](#7-proofs), [8 What is not modelled](#8-what-is-not-modelled).

## 1 Inventory

Paths are relative to `src/src/`. The program is single-threaded (`main.rs` 59:
`tokio`, `current_thread`); concurrency is between the launcher's task, the
proxy's tasks, the processes below it, the signals, and other `redoubtful`
processes on the same configuration files.

| component | source | state | operations | what makes it hard | correct when |
|---|---|---|---|---|---|
| command line and exit codes | `main.rs`, `cmd/`, the flags of `config/` | the arguments | `Cli::parse`, each value's `FromStr`, `main` | optional values, trailing arguments, four sources of exit codes | what is written is what is read; a script can trust the code |
| preflight checks | `check.rs`, `cmd/check.rs` | results | `run_all_checks`, the report | checks that depend on others, checks that cannot run | `run` goes on exactly where all it needs works |
| run session | `cmd/run.rs`, `main.rs` | program point, handlers, the child, its wait status | preflight, resolve, start the proxy, spawn, install handlers, `select!`, shut down, report | signals at every step; fork, exec and `PR_SET_PDEATHSIG` are three steps; a `?` with a live child; ending of three processes | nothing survives or is left behind, the exit code is the command's, a signal ends the session |
| proxy lifecycle | `sandbox/proxy.rs` 70-235 | listener, CA bundle file, task, connections | `start_proxy`, `ProxyHandle::shutdown`, drop | graceful drain without a timeout; a task nobody watches | it outlives the sandbox, and not the launcher |
| request routing and injection | `sandbox/proxy.rs` 470-565, `sandbox/rewrite.rs` | the rules; each connection's CONNECT | `handle_request`, `should_intercept_connect`, `Rewrite::apply` | decided in separate calls from separate parses of the host; three writers of one header | a denied host is not reached, credentials go to their host only, and whole |
| leaf certificate cache | `sandbox/proxy.rs` 285-400 | LRU of 10 configurations | `gen_server_config` | eviction while in use, hits that reorder, hosts in two cases | the leaf is for the host asked for, the oldest goes |
| config and secrets file loading | `config/config_file.rs` 50-95, `config/resolve_context.rs` | the two files | `load_or_init`, `write_default` | several first runs at once, no lock, crashes, an editor | a first run loads the default, overlapping ones leave it whole |
| uses resolution | `config/config_file.rs` 215-272 | `seen`, `order`, the call stack | `resolve_uses`, `resolve_uses_helper` | cycles, diamonds, depth | an order in which what a profile uses comes first, or a refusal with a cause |
| profile pipeline | `config/config_file.rs` 140-215, `config/profile.rs`, `config/mod.rs` | the profiles, the resolved layers, the merged profile | normalize, validate, resolve, merge, finalize | order of the steps decides every conflict; error exits | the last layer wins, nothing is applied unchecked |
| mounts | `config/mount.rs`, `config/mounts.rs` | list of mounts, `readonly` | the steps above | later mounts cover earlier ones | the command sees what was declared |
| environment variables | `config/env_var.rs`, `config/env_vars.rs` | map of variables, `path`, `path_add` | the same | passthroughs, `PATH`, `HOME` | last entry wins, nothing leaks |
| forwards | `config/forward.rs`, `config/forwards.rs` | list of ports | the same | zero ports, default ports, the order of a pair | those declared, in order |
| proxy rules, template rendering | `config/proxy.rs`, `config/proxies.rs`, `hostname.rs`, `config/resolve_context.rs` | rule of each host, `public_web`, the secrets | the same, `render`, `should_allow`, `should_mitm` | one key for each host, whatever the port or case; templates that fail | the last rule of a host wins, whole |
| argv assembly | `sandbox/argv.rs`, `bwrap.rs`, `pasta.rs` | - | `bwrap_argv`, `pasta_argv`, `format_for_pasta` | flags and the user's words in one list; order of the mounts | the two programs read what was meant |
| show command | `cmd/show.rs` | - | `cmd_show` | stale against `run` | shows the pipeline's profile |
| CA bundle text | `sandbox/ca_bundle.rs` | - | `write_sandbox_ca_bundle` | pure text | both sets of certificates are in it |
| errors and diagnostics | `errors.rs`, `prelude.rs` | - | - | pure text, but for the exit code | - |
| pasta, bwrap, hudsucker, kernel, clap | external | - | - | everything above | assumed, see section 3 |

They interact as follows. `main` parses the line and calls a command. `cmd_run`
calls the checks, then the pipeline (which loads both files, resolves `uses`,
and folds the layers), then `start_proxy` with the finalized proxy rules; it
merges `proxy_profile` (bundle mount, forward, variables) into the profile and
builds the two argument lists; it spawns `pasta` and waits. The bundle file is
shared with `bwrap` by its path, the listener with the command by its port; the
launcher, `pasta` and `bwrap` are tied by death signals. Meanwhile the proxy's
handler and its certificate authority serve the command's connections under
the rules. `cmd_show` calls the pipeline and prints; `cmd_check` the checks.

The hazards of this code, with the line where each bites and the properties
that cover it, are in `PROJECT.json` ("hazards").

## 2 Structure of the project

```
Maps <- ProxyRules <- Profiles <- Layers --+
            ^              ^               +- SandboxView <- MCLayers
            |              +--- Argv ------+
            |              +--- Cli <- MCCli
            +- Rewrite <- Egress
                  ^          | (refined by)
                  +----- Gateway <- MCGateway
RunContract (refined by) Session <- MCSession
ResolveUses <- MCResolveUses            LoadOrInit
```

An arrow is EXTENDS. Pure operators (`Maps`, `ProxyRules`, `Profiles`, `Argv`,
`Rewrite`) are apart from the state machines that use them, so that the rules
`Layers` resolves are the ones `Gateway` serves, and the declarations `Cli`
makes of flags are the ones `Layers` takes (`CliDecl` in `Cli!TypeOK`). Two
abstract specifications say what a user of the program may rely on:
`RunContract` (one run, its child, its result) and `Egress` (what leaves the
sandbox). Proofs are in `...Proofs` modules beside what they are about:
`SandboxViewProofs` extends `LayersProofs`, which extends `MapsProofs`, as
`GatewayProofs` and `CliProofs` do; the others stand alone. The MC modules hold only what
gives the constants their values.

## 3 The models

### Session, RunContract

`launcher` is the program point of `cmd_run`: `preflight`, `resolve`, `bind`,
`bundle`, `connect`, `spawn` (setup, in program order), `forking`, `sigint`,
`sigterm`, `wait` (it owns a child), `shutdown`, `render` (the good end),
`unwind` (a `?` on its way to `main`), `gone`. Each launcher action is one
step of the code between two points where something else can happen.

| variable | stands for |
|---|---|
| `exit` | how the process ended: a status it reported, an error of its own, a signal |
| `proxy`, `conns`, `bundle` | the listener and task, its open connections, the `NamedTempFile` |
| `handlers`, `pending` | installed `tokio::signal` handlers; signals noted, not yet received |
| `pasta`, `tether`, `doom`, `status` | the child; is its `PR_SET_PDEATHSIG` tied to the launcher; signals on their way to it; its wait status |
| `bwrap`, `leash`, `code` | the sandbox (`done`: its command ended, `failed`: it never ran it); is `--die-with-parent` tied to pasta; the code bwrap ended with, the command's or its own |

Signals, the terminal's Ctrl-C (the whole process group), SIGKILL, fork / prctl
/ exec of pasta, the failure of any `?`, the failure of exec, the exit of the
command, failures of pasta's and bwrap's own, connections and a failing proxy
task interleave at will. Four external
parties are modelled from the flags and calls the source uses them with:
pasta stays in the foreground and hands on the inner command's code
(`--foreground`), or fails at any step with a nonzero code of its own
(`PastaFails`: namespaces, the tap interface, a `-T` port); bwrap asks to die
with pasta (`--die-with-parent`), and cannot be executed or fails in its setup
with a code of its own (`BwrapFails`), always so when the source of a
`--ro-bind` is missing; hudsucker's graceful shutdown ends with its last
connection, and the kernel delivers death signals and closes the
sockets of dead processes. The proxy task is polled only while the launcher
awaits, because the runtime has one thread.

`RunContract` is the promise a caller of `redoubtful run` sees: a sandbox may
be launched, it ends at most once, and the run reports that ending, fails, or
is killed. The sandbox ends as its command did, is killed, or fails with a code of
its own, since `cmd_run` hands on pasta's code whoever gave it (239-241): a
caller can trust only 0 to be the command's. `Session` implements it under the
mapping written at `Contract` (`stage` from `launcher` and `pasta`, `command`
from `bwrap` and `code`, `ending` from `status`, `result` from `exit`).

### ResolveUses

The recursion of `resolve_uses_helper` is an explicit `stack` of callers;
`next[c]` is the loop index of the call for `c`. `Descend`, `Return`,
`FailUnknown`, `FailRepeated` and `Finish` are the branches of the loop. What
the walk is to compute is said without a walk: `Reach(c)` is the least set
closed under `uses`, defined by quantifying over all closed sets.

### LoadOrInit

Each process runs `load_or_init` on one file: open, read chunk by chunk, parse;
or on `NotFound` create the directory, create or truncate the file, write chunk
by chunk at its own offset, and read again. A chunk is a part of the default
text, a hole (zero bytes, of a writer that was overtaken by a truncation) or
the user's. Any system call may fail, any process may be killed, and the user
may save the file in between. There is no lock in the code, so there is none
here. Reading and writing chunk by chunk is what the system permits; it is
finer than what a short file usually meets. `foundFile` and `stopped` are
history variables: they appear in no guard.

### ProxyRules, Profiles, Layers

`Profiles` is the algebra of `config/`: what a declaration is normalized to
(tilde expansion), when it is valid, what it resolves to, how two resolved
profiles merge, what `finalize` adds below and `proxy_profile` on top. The four
domains (mounts, forwards, environment, proxies) are fields of one record; each
field is translated from its own file. A path is the sequence of its names;
a path as written has a form: absolute, `~/x`, `~//x`, or a refused one. Values
of variables are sequences of pieces, so `PATH` keeps its order. The names that
`PASSTHROUGH_NAMES` and `proxy_env_vars` list are constants, one representative
of each class in the runs.

`ProxyRules` is what a proxy declaration resolves to and what the rules say of
a host. A template is a sequence of pieces: a text, `{{secret}}`, `{{{secret}}}`
or something that does not parse; `Escaped` is the escape function the code
leaves at its default. `HostnameOf` is the only way to a canonical host, as in
the code.

`Layers` is `finalize_config_with_cli` step by step (the normalization of
*every* profile, in the `HashMap`'s unknown order; then choose, validate each,
resolve each, fold), the error exits of each step, and the last step of
`cmd_show` or `cmd_run`. Which profiles are chosen is any sequence of distinct
ones: that is what `ResolveUses` guarantees.

### Argv, SandboxView

`Argv` writes the two command lines flag by flag (`BwrapFlags`, `PastaFlags`) and
lays them end to end before `--` and the child's words. It reads them back the
way `bwrap` and `pasta` do (external: `Reading`, one pass from left to right in
which a flag claims the operands it takes, until a `--` where a flag could
stand). `SandboxView` says what the command sees: `Sees` performs the mounts
that were read, in order; `Promised` says from the declarations alone what each
path should show, without merging anything, down to the system's baseline
(`System`). The contents of symlinks are not followed. When the working directory is the home
or above it, the project is bound over the blank home: `mounts.rs` 316-318
documents this as a known limitation, and `Promised` says the same.

### Cli

A command line is the flags, then the words, as its writer means them; `Read`
is what clap makes of the two put together (external, from the derive
attributes in the source: `num_args = 0..=1`, `trailing_var_arg`,
`allow_hyphen_values`). The `FromStr` of mounts, forwards, variables and
proxies split their values at `:` and `=`; a value is the sequence of its words
and separators. After parsing, `pc` walks through the preflight, the pipeline
(one step here) and the sandbox (one step, with any of `Outcomes`), as each
command does, and `exit` is what `main` makes of it.

### Gateway, Rewrite, Egress

Each connection of the sandbox to the proxy is `open`, has `asked` for a CONNECT
that passed, is `read` (decrypted, with the leaf it was shown, or plain) or is
tunnelled (`raw`, or `unknown` if the client spoke neither TLS nor GET, which
hudsucker never intercepts). `last` is the last thing that left the proxy, and
`since` a history variable: which authorities a leaf was asked for since the last
time one was for which other. It is in no guard; `OldestGoes` says with it that
what is evicted is what was used longest ago, wherever it stood in the list. The
handler and the authority do not await in the middle and the runtime has one
thread, so each call is one step; steps of different connections interleave at
will. hudsucker is external: which calls it makes, and that it gives requests
it reads inside a CONNECT that CONNECT's authority.

`Rewrite` is `inject_headers`, `merge_query_params` and `inject_auth` in their
order; a request's header has a list of values, as a `HeaderMap` has. `Egress`
is the promise: it knows no cache, no certificates, no spelling of hosts and no
order of injection, only which host is reached and which values each header and
the query carry. It leaves open what becomes of a client's parameter under a key
of the rule's, where code and comments differ (`gateway_query`, section 6). `Gateway` implements it under the mapping at `Promise`.

## 4 Runs and their bounds

| run | checks | bounds, and why they suffice |
|---|---|---|
| `session` | `TypeOK`, `SandboxCovered`, `TetherHolds`, `NothingLeftBehind`, `ExitFidelity`; `SignalEndsSession`, `SandboxEndEndsSession`, `ChainUnwinds`, `KeepsContract` | codes 0, 1, 42: success, the code a diagnostic also uses, one that only a command gives; 2 connections, so that one can close while one is open. All else is finite. 16 059 states |
| `uses` | `TypeOK`, `DepsFirst`, `AcceptedExactly`, `RefusedForCause`, `LaterEntriesWin`; `Terminates` | every configuration of up to 3 profiles with up to 2 entries, every request of up to 2 names: self-use, cycles of 2 and 3, diamonds, unknown names, repeats. 130 882 states |
| `load` | `TypeOK`, `WritersConverge`, `LoneFirstRunLoadsDefault`, `NothingMisplaced`; `LoadsEnd` | 2 processes, a default of 3 chunks, 2 saves: two writers at different offsets, a truncation under a reader, holes of two chunks. Starts without a file, with an empty one and with the user's. 117 000 states |
| `layers` | `TypeOK`, `LastLayerWins`, `PathAsDeclared`, `VarsAsDeclared`, `ForwardsAsDeclared`, `RulesAsDeclared`, `ViewAsDeclared`, `CommandReaches`, `Screened` | 2 profiles and a command line, so up to 3 layers, in both orders; three families of declarations (`Families`): variables and `PATH`; forwards and rules with templates of every kind; mounts, looked at from fourteen paths, in five working directories, with commands that look like flags. Families are not mixed, as no operator relates them. 128 603 states |
| `gateway` | `TypeOK`, `DeniedUnreached`, `SecretsStayHome`, `ReadIffInjecting`, `LeafIsTheHosts`; `OldestGoes`, `PromiseKept` | 2 connections, two hosts, one of them in two cases, an address and the empty host, on one port (which the code treats as a part of the cache's key and no more): three hosts that may be decrypted against a capacity of 2, so hits, reordering and eviction all happen; four policies, with a rule that injects everything at once, one that cannot be sent, denials over an allowing default and the reverse. 20 105 states |
| `cli` | `TypeOK`, `ReadAsWritten`, `PreflightHolds`, `ExitTells` | every flag with well and ill written values, flags before and after the command in every position that clap distinguishes, every combination of what the host has, codes 0, 1, 255 and a signal. 21 194 states |
| `session_race`, `load_edits`, `layers_escape`, `layers_show`, `gateway_query`, `cli_hyphen` | one property each, violated | section 6 |

What they show, beyond types. **session**: whatever arrives when, a child the
launcher still owns has its proxy and its bundle; error paths may abandon a live
child because the kernel then signals it; a launcher that ends by itself leaves
no file and no listener; the code reported is the child's, be it the command's
or of a failure of pasta's or bwrap's, and 0 means that the command ran and
exited 0; a received signal ends the session, and shutdown
cannot hang because connections end with pasta. **uses**: accepted requests
yield exactly what they reach, once, dependencies first, and of two entries of
a list everything under the later one comes later (so it wins every conflict);
refusals have a cause. **load**: overlapping first runs leave the whole default
once all have written; what a process reads is at worst the default with holes,
cut, or the user's. **layers**: the result is what the declarations say, layer
by layer, computed independently of the merge; bwrap and pasta read of their
command lines what the profile has, whatever the user's command looks like.
**gateway**: the separate decisions about one host agree, in whatever case it
is written and whichever call makes them; injection puts exactly the rule's
values into the request of the rule's host; a cached leaf is always for the
right host, and the one evicted is the least recently used. **cli**: a line that follows simple rules (`Plainly`) is read as
written; the report names everything that fails; the exit code tells.

`PROJECT.json` pairs every property with a mutant of the code's definitions (a
dropped handler, a reset that comes too early, an `Option` taken from the wrong
side) which the run must reject. The mutants are the definitions under "Slips"
and next to the definition they change; no next-state relation uses them.

Deadlock is not checked where the system may stop: a session, a walk, a load
and a command end. `Layers` has an explicit `Ended` step instead, and `Gateway`
serves for ever.

## 5 Fairness

- `Session`: the launcher's own steps, `pasta`'s, `bwrap`'s setup and death, and
  the drain keep going (`WF`), because they are code that runs or a kernel that
  delivers. `ForwardSignal(sig)` and `WaitReturns` have conditions of their own:
  `tokio::select!` polls its branches in random order and starves no ready one.
  `PastaSignaled` likewise: a pending signal is delivered. Nobody is obliged to
  send a signal, to end the command, to open or close a connection, or to fail.
- `ResolveUses`: weak fairness of `Next`, a sequential program that runs.
- `LoadOrInit`: weak fairness of each process's own `Step`; nobody has to start,
  to be killed, to fail or to edit. The user's edits are bounded by `MaxEdits`:
  a file that grows forever under a reader is excluded.
- `Layers`, `Cli`, no liveness: their steps are bounded by what they walk.
- `Gateway`, none: the sandbox may stop using the proxy at any time, and nothing
  the proxy owes it is owed before it asks.

## 6 Where the code and its comments disagree

Each is a run that finds the counterexample; `PROJECT.json` quotes both sides.

| run | the code | the comment or document |
|---|---|---|
| `session_race` | `PR_SET_PDEATHSIG` is asked for by the child after the fork: a launcher that dies in between leaves pasta running (`cmd/run.rs` 185) | "no race window" (153-155) |
| `load_edits` | the default is written with a truncating `fs::write` whatever is there by then (`config_file.rs` 90) | "we don't re-init over user-edited state" (122-123) |
| `layers_escape` | Handlebars keeps its HTML escape: a secret with `&` or `=` is injected altered (`resolve_context.rs` 77) | templates give "plain `String` values back" (55-59) |
| `layers_show` | `show` prints the finalized profile, to which only `run` adds the proxy's: its variables are left out, or have the value of the user's profile (`cmd/show.rs` 57, `cmd/run.rs` 118-123) | "exactly the same entries the running sandbox sees" (`bwrap.rs` 128-130), "identical env state" (`env_vars.rs` 53-57), "exactly what `run -p X` would build" (`cmd/show.rs` 53-56) |
| `gateway_query` | `append_pair` leaves a client's parameter with the same key before the injected one (`rewrite.rs` 106) | "the injected value winning per key" (51-54, 79-80) |
| `cli_hyphen` | `trailing_var_arg` begins with the first *argument*: `run python -m pytest` gives `-m` to `redoubtful` (`cmd/run.rs` 60) | "Hyphen-prefixed args pass through as-is" (56-57) |

Met while modelling, and followed in the models as the code has them, without a
run of their own:

- A remap `-f 8080:9090` becomes pasta's `-T 8080:9090` (`forwards.rs` 125), which
  listens on 8080 inside and connects to 9090 outside, where `host_port` is the
  "TCP port on host loopback to forward from" (`forward.rs` 147-150).
- A bare `--readonly` takes the next word for its value (`mounts.rs` 98), where
  "`--readonly` (no value) still means `Some(true)`" (93-94). `Plainly` in `Cli`
  therefore asks for no bare flag before a word.
- `docs/ARCHITECTURE.md` 310 has the run exit "with the user command's exit code",
  and `cmd/run.rs` 231 has the command be "what ran"; a failure of pasta's or
  bwrap's is reported with its own code as if it were the command's (239-241).
- A signal before the handlers are there ends the launcher and leaves the bundle
  file; `docs/ARCHITECTURE.md` 310 has it removed "on exit or signal".
- `HOME` comes from the variable, the blanked directory from `home_dir`, which
  may also ask the password database (`env_vars.rs` 370-375).
- The rest of `~//srv` is absolute, and `join` drops the home (`config/mod.rs`
  189-192: "it's never absolute").
- A bracketed IPv6 literal does not parse as an `IpAddr`, so its leaf has a DNS
  name (`proxy.rs` 357-365); `Addresses` is the set of texts that do parse.
- `proxies.rs` 82-83 calls `public_web` always set after the merge; it may be
  `None`, which `should_allow` treats as a denial.
- `check.rs` 156-157 names a failing `current_exe` the only error; a path that
  is not UTF-8 is another. Both are `UsernsFails`.

## 7 Proofs

TLAPS checks these for all values of the constants that satisfy the named
assumptions beside their declarations. These say that inputs are of their
types, that sets that are finite in the program are (profiles, the proxy's
variables, the host's environment), that paths looked at are paths and a command
is a list of texts (`CommandsAssumption`), and that an absent option is none of
the values it stands in for (`NoneAssumption`, `OutcomesAssumption`,
`AbsentAssumption`). TLC evaluates all of them on the runs.

- **`SessionProofs`**: `TypeCorrect`, `Covered`, `Tethered`, `LeavesNothing`,
  `FaithfulExit` and `ImplementsContract` (every step of `Session` is a step
  of `RunContract` or a stutter). All follow from one inductive invariant,
  `IInv`. The properties alone are not inductive: they speak of a few phases,
  so `ProxyByPhase` and `PastaByPhase` say for every phase what the
  launcher has built by then; `PastaConsistent` ties the child's status,
  tether and sandbox to each other (a wait status has the code 0 only if the
  command ended with it); `ExitConsistent` says what each kind of end
  left. Connections and the bound on them play no part.
- **`ResolveUsesProofs`**: `TypeCorrect`, `PushedAfterDeps`, `AcceptsExactly`,
  `RefusesForCause`, `DepthStaysBounded`. `IInv` divides the names entered into
  the active calls and the order (`Division`), says that all an active call has
  gone through is in the order except the call it waits for (`GoneThrough`),
  that profiles in the order have gone through their lists (`Completed`), and
  that places gone through and names entered correspond one to one (`Named`,
  `NamesEntered`, `NamedOnce`). Exactness then follows because the order is a
  closed set and `Reach` the least one; depth because the calls on the stack
  are distinct defined names. `LaterEntriesAlwaysWin` needs a second invariant,
  that the walk is a postorder (`OrderInv`): active calls are used by those below
  them, the entries of a list are pushed in its order, and what comes between an
  entry and the profile that lists it is used by that profile.
- **`MapsProofs`** holds the lemmas that the others share: maps and the loops
  that build them; induction over the naturals in the form the provers can use,
  about a *set* of numbers instead of a predicate (`Induction`), with which the
  equations of `FoldSeq`-like functions and of `FlattenSeq` are unfolded; equal
  sequences, places in flattened lists, and that the last entry of a key exists.
- **`LayersProofs`**: first the algebra of the profiles. `Merge` is associative
  and `Default` its identity on both sides, so only the order of the layers
  counts, not how the code groups them (the fold, the baseline below and the
  proxy on top); normalization, resolution, merging and finalization keep their
  types. Then `TypeCorrect`, from `TypeInv` (the inputs stay what they
  were; each profile is the file's or its normalization, and all are normalized
  when `todo` is empty; the chain has a layer for each position passed; results
  are profiles), `LastLayerAlwaysWins`: while folding, the accumulator holds the
  word of the last of the layers folded so far (`Holds(merged, at - 1)`);
  merging a layer extends it by one, and what `finalize` puts below and the
  proxy on top keeps it; and `AllScreened`: the layers before `at` are valid
  while validating, all are while resolving, and a valid layer's mounts, ports
  and names are good ones, which merging keeps (`Passed`).
- **`SandboxViewProofs`**: what the command finds is what was declared, for any
  number of layers and declarations. Three arguments carry it.
  *The closed form.* `FoldInv` says that the accumulator is at every step
  `FoldOf(at - 1)`, computed from the layers at once: lists flattened, options
  the last one given, maps the last item of each key (`FoldIsClosedForm`). Each
  of `ForwardsAlwaysAsDeclared`, `VarsAlwaysAsDeclared`, `RulesAlwaysAsDeclared`
  and `PathAlwaysAsDeclared` then compares that closed form with the property's,
  by what finalizing puts around it.
  *Print and read.* `ReadsBack`: of flags that have just the operands they take,
  printed end to end before `--`, the reader finds those flags and that child,
  whatever the operands and the child's words are. The induction is over the
  flags printed so far: after them the reader owes no operand and has not ended.
  `CommandAlwaysReaches` uses it twice, as pasta's line carries bwrap's, and
  needs that the environment is finite: only of a finite set of names does a
  `--setenv` each print all of them.
  *Covering.* What two lists of mounts show together is what the second shows
  where it covers the path and what the first shows elsewhere (`SeesIs` and the
  lemmas after it). `ShowsLast` adds one layer at a time: what a path shows is
  the last mount declared over it. `ViewAlwaysAsDeclared` puts under it what the
  baseline shows and above it the bundle.
- **`GatewayProofs`**: `TypeCorrect`, `DeniedNeverReached`, `ReadOnlyToInject`,
  `LeavesAreTheHosts`, `OnlyOldestGoes`, `SecretsNeverStray` and
  `ImplementsEgress`, for every policy, any number of connections and every
  capacity. `IInv` says that a connection is as far as the policy lets *its own*
  host go (`ConnSound`), that what left last was so too and is what the handler
  makes of what it was given (`LastSound`), and that the cache holds one entry
  for each key, each for its own host (`Sound`), in the order of the last uses as
  the history has them (`Ordered`), from which `OnlyOldestGoes` follows. The
  properties alone speak only
  of `last` and could not see where a tunnel or a leaf came from. The refinement
  is one lemma for each action; its core is that the three passes of `Rewrite`,
  in their order, yield what `Egress` says in one (`Carries`).
- **`LoadOrInitProofs`**: `TypeCorrect`, `NeverMisplaced`, `Converges`,
  `LoneLoadsDefault`, for any number of processes, edits and crashes and every
  length of the default. `Converging` is the argument: once a process that found
  no file has created it, either the file is whole or some writer *upholds* it,
  that is, everything up to that writer's own offset is in place. A truncation
  makes its author such a writer; a chunk of one never harms what another
  upholds, because both write the same chunk at the same place; a writer that
  ends upholds the whole. `Loneliness` follows one process alone step by step,
  `Places` says that no chunk is ever in another's place, `Creation` who can have
  found what.
- **`CliProofs`**: `PreflightAlwaysHolds` and `ExitAlwaysTells`, whose invariant
  says for each step what results there are (`Seen`), which steps each command
  takes (`Course`) and how each of the five ends looks (`Ended`); of clap they
  need only that a line is rejected or is not. The other two open that up, for
  lines of any length. `TypeCorrect`: whatever clap does not reject is a
  declaration the pipeline takes, with absolute paths for its mounts. Each
  `FromStr` yields an error or a declaration of its type (`MountParsed`,
  `ForwardParsed`, `EnvVarParsed`, `ProxyParsed`), from what `Split` does to any
  value: at least one field, each made of the value's words (`SplitTyped`); and
  a flag that must have a value has one (`SpecsTyped`).
  `AlwaysReadAsWritten`: of a line that follows the rules the flags and the words
  are read as they were meant. `PlainTrailing` finds where the trailing words of
  such a line begin: at its `--`, after its flags if there is no command, or
  else with the command's first argument. `PlainRead` then says what is picked
  before that place: every flag, none with a value from its right, and the
  command's name. Both rest on `PickedFront` and `PickedSkips`, the induction
  over the places of a list.

Liveness (`SignalEndsSession`, `SandboxEndEndsSession`, `ChainUnwinds`,
`Terminates`, `LoadsEnd`) is only model-checked: it is out of the prover's reach,
as is ENABLED. Every invariant and action property that a passing run checks is
the statement of a theorem.

Three of the proofs changed the model. `NothingUnasked`, a part of `VarsAsDeclared`,
once asked that no variable *with the host's value* be there unasked; that is
false for a host that already has the very value `run` gives a variable of the
proxy's, which no run had. It now bounds the names themselves, whatever their
values, and counts the proxy's among them. `VarsAsDeclared` is silent about the
values of those: `LastLayerWins` has them for `run`, and `layers_show` for `show`. The type `Mount` once let `/dev`,
`/proc` and a tmpfs carry a host path; no code makes such a mount, and since
their flags print none, it could not be read back. `Mount` is now as tight as
the code. `Arg` once let a flag that needs a value come without one, a line that
clap refuses before it looks at any other; `Arg` now has such a flag only with
its value. `Picked` and `Split` are written with `FlattenSeq`, a fold, where they
had `SelectSeq`, a recursive operator no proof could unfold.

## 8 What is not modelled

- The parsing of TOML: a file's text becomes declarations in one step that may
  fail. What parsing refuses never reaches the pipeline.
- hudsucker's CONNECT inside a CONNECT and its WebSockets, the bodies of
  requests, the TLS of the connection to the destination: no code under `src/`
  does anything with them. Whether a URI can be rebuilt is an input of the
  request (`rebuilds`), not computed from its characters.
- Keys, signatures and validity of certificates; the search for the system's
  bundle and the concatenation of PEM texts (one step that may fail).
- handlebars' helpers and blocks, of which the program's files use none.
- Diagnostics, reports, logging, the JSON of `show`, and a failure to write them
  to the terminal: text.
- `is_proxy_server_needed` (`proxies.rs`), which nothing calls.
- Changes of the host's files between validation and `bwrap`'s mounts, except
  the bundle's, which may be gone by then (`BwrapMounts`).
- Reuse of process ids and signals other than SIGINT, SIGTERM and SIGKILL.
