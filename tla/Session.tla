------------------------------ MODULE Session ------------------------------
(***************************************************************************)
(* One `redoubtful run`: the launcher process (cmd/run.rs, main.rs), the   *)
(* proxy task and CA-bundle temp file it owns (sandbox/proxy.rs,           *)
(* sandbox/ca_bundle.rs), and the two external processes below it,         *)
(*                                                                         *)
(*      redoubtful -> pasta -> bwrap (with the user command inside it).    *)
(*                                                                         *)
(* The launcher runs its steps in program order; around it the kernel, the *)
(* terminal, pasta, bwrap and the clients of the proxy interleave freely.  *)
(* pasta, bwrap and the proxy's connections are external: they are         *)
(* modelled from the flags and calls with which src/ uses them.            *)
(***************************************************************************)
EXTENDS Naturals

CONSTANTS
  Codes,      \* exit codes a sandboxed command can end with
  MaxConns    \* bound on simultaneously open client connections of the proxy

ASSUME CodesAssumption == {0, 1} \subseteq Codes /\ Codes \subseteq 0 .. 255
ASSUME MaxConnsAssumption == MaxConns \in Nat

VARIABLES
  launcher,   \* where cmd_run is
  exit,       \* how the launcher process ended
  proxy,      \* the proxy listener / task
  bundle,     \* does the CA-bundle temp file exist?
  handlers,   \* signals of the launcher with an installed handler
  pending,    \* handled signals not yet received by the select! loop
  pasta,      \* the child process
  tether,     \* is pasta's PDEATHSIG tied to the launcher?
  doom,       \* signals sent to pasta
  status,     \* the wait status of pasta
  bwrap,      \* the sandbox below pasta
  leash,      \* is bwrap's death signal tied to pasta?
  code,       \* exit code of bwrap: its command's, or that of its failure
  conns       \* open client connections of the proxy

hostVars == <<handlers, pending>>
proxyVars == <<proxy, bundle, conns>>
childVars == <<pasta, tether, doom, status>>
bwrapVars == <<bwrap, leash, code>>
vars == <<launcher, exit, proxyVars, hostVars, childVars, bwrapVars>>

-----------------------------------------------------------------------------
Signals == {"INT", "TERM"}

\* Phases before the child exists, in program order.
SetupPhases == {"preflight", "resolve", "bind", "bundle", "connect", "spawn"}
\* Phases in which cmd_run owns a child it has not yet waited for.
GuardPhases == {"forking", "sigint", "sigterm", "wait"}
Phases == SetupPhases \cup GuardPhases
            \cup {"shutdown", "render", "unwind", "gone"}

NoStatus == [kind |-> "none", value |-> 0]
Exited(c) == [kind |-> "code", value |-> c]
Signaled == [kind |-> "signal", value |-> 9]
Statuses == {NoStatus, Signaled} \cup {Exited(c) : c \in Codes}

\* Slips of ExitOf: the shell's 128 + n, and an unwrap_or(0).
ExitOfShell(s) == IF s.kind = "code" THEN s.value ELSE 128 + s.value
ExitOfDefault(s) == IF s.kind = "code" THEN s.value ELSE 0

\* The exit code cmd_run and main give for a wait status: the child's own
\* code, and 1 (a rendered diagnostic) for a child ended by a signal.
ExitOf(s) == IF s.kind = "code" THEN s.value ELSE 1

NoExit == [kind |-> "none", value |-> 0]
Reported(s) == [kind |-> "reported", value |-> ExitOf(s)]
Failed == [kind |-> "failed", value |-> 1]
KilledBy(sig) == [kind |-> sig, value |-> 0]
Exits == {NoExit, Failed} \cup {KilledBy(sig) : sig \in Signals \cup {"KILL"}}
           \cup {[kind |-> "reported", value |-> c] : c \in Codes}

PastaLive == pasta \in {"forked", "armed", "running"}
BwrapLive == bwrap \in {"forked", "setup", "running"}
Alive == launcher # "gone"

TypeOK ==
  /\ launcher \in Phases
  /\ exit \in Exits
  /\ proxy \in {"none", "bound", "serving", "failed", "draining", "stopped"}
  /\ bundle \in BOOLEAN
  /\ handlers \subseteq Signals
  /\ pending \subseteq Signals
  /\ pasta \in {"none", "forked", "armed", "running", "refused", "dead"}
  /\ tether \in BOOLEAN
  /\ doom \subseteq Signals \cup {"KILL"}
  /\ status \in Statuses
  /\ bwrap \in {"none", "forked", "setup", "running", "done", "failed", "killed"}
  /\ leash \in BOOLEAN
  /\ code \in Codes
  /\ conns \in 0 .. MaxConns

Init ==
  /\ launcher = "preflight"
  /\ exit = NoExit
  /\ proxy = "none"
  /\ bundle = FALSE
  /\ handlers = {}
  /\ pending = {}
  /\ pasta = "none"
  /\ tether = FALSE
  /\ doom = {}
  /\ status = NoStatus
  /\ bwrap = "none"
  /\ leash = FALSE
  /\ code = 0
  /\ conns = 0

-----------------------------------------------------------------------------
(***************************************************************************)
(* How the launcher process ends.  Whatever ends it, the kernel closes its *)
(* sockets and, if pasta's PDEATHSIG is tied to it, sends pasta SIGTERM.   *)
(***************************************************************************)
Send(sigs) == doom' = IF PastaLive THEN doom \cup sigs ELSE doom

\* A slip: set_pdeathsig(None), which clears the request.
PdeathSignalCleared == {}

PdeathSignal == IF tether THEN {"TERM"} ELSE {}

Ends(how) ==
  /\ launcher' = "gone"
  /\ exit' = how
  /\ proxy' = IF proxy = "none" THEN "none" ELSE "stopped"
  /\ conns' = 0
  /\ UNCHANGED <<hostVars, pasta, tether, status, bwrapVars>>

\* A `?` in cmd_run: the error propagates to main, dropping on the way the
\* ProxyHandle, if there is one yet.  Its NamedTempFile is deleted and its
\* shutdown sender is dropped, but nothing waits for the proxy task.
Unwind ==
  /\ launcher' = "unwind"
  /\ bundle' = FALSE
  /\ proxy' = CASE proxy = "bound" -> "stopped"
                [] proxy = "serving" -> "draining"
                [] OTHER -> proxy
  /\ UNCHANGED <<exit, conns, hostVars, childVars, bwrapVars>>

-----------------------------------------------------------------------------
(***************************************************************************)
(* The launcher, in program order.                                         *)
(***************************************************************************)
Advance(from, to) ==
  /\ launcher = from
  /\ launcher' = to

\* run_all_checks and any_failed: a failed check exits 1.
Preflight ==
  /\ Advance("preflight", "resolve")
  /\ UNCHANGED <<exit, proxyVars, hostVars, childVars, bwrapVars>>

\* current_dir, ResolveContext::new, finalize_config_with_cli.
ResolveProfile ==
  /\ Advance("resolve", "bind")
  /\ UNCHANGED <<exit, proxyVars, hostVars, childVars, bwrapVars>>

\* start_proxy binds its listener before anything else: from here on the
\* kernel queues connections.
BindListener ==
  /\ Advance("bind", "bundle")
  /\ proxy' = "bound"
  /\ UNCHANGED <<exit, bundle, conns, hostVars, childVars, bwrapVars>>

\* build_throwaway_ca, find_system_ca_bundle, write_sandbox_ca_bundle.
WriteBundle ==
  /\ Advance("bundle", "connect")
  /\ bundle' = TRUE
  /\ UNCHANGED <<exit, proxy, conns, hostVars, childVars, bwrapVars>>

\* A slip: the NamedTempFile is not kept in the handle and is dropped when
\* start_proxy returns.
SpawnProxyTaskDropsBundle ==
  /\ Advance("connect", "spawn")
  /\ proxy' = "serving"
  /\ bundle' = FALSE
  /\ UNCHANGED <<exit, conns, hostVars, childVars, bwrapVars>>

\* build_upstream_connector, Proxy::builder and tokio::spawn; then the
\* argvs are assembled.
SpawnProxyTask ==
  /\ Advance("connect", "spawn")
  /\ proxy' = "serving"
  /\ UNCHANGED <<exit, bundle, conns, hostVars, childVars, bwrapVars>>

\* Command::spawn forks and then blocks until the child has executed pasta
\* or has reported why it could not.
ForkPasta ==
  /\ Advance("spawn", "forking")
  /\ pasta' = "forked"
  /\ UNCHANGED <<exit, proxyVars, hostVars, tether, doom, status, bwrapVars>>

SpawnReturns ==
  /\ launcher = "forking"
  /\ pasta \in {"running", "dead"}
  /\ Advance("forking", "sigint")
  /\ UNCHANGED <<exit, proxyVars, hostVars, childVars, bwrapVars>>

InstallHandler(sig, from, to) ==
  /\ Advance(from, to)
  /\ handlers' = handlers \cup {sig}
  /\ UNCHANGED <<exit, proxyVars, pending, childVars, bwrapVars>>

InstallSigint == InstallHandler("INT", "sigint", "sigterm")
InstallSigterm == InstallHandler("TERM", "sigterm", "wait")

\* A slip: the branch logs the signal and never kills the child.
ForwardSignalSwallowed(sig) ==
  /\ launcher = "wait"
  /\ sig \in pending
  /\ pending' = pending \ {sig}
  /\ UNCHANGED <<launcher, exit, proxyVars, handlers, childVars, bwrapVars>>

\* The select! branches: a received signal makes start_kill send SIGKILL to
\* a child that can still receive it, and the loop goes around.
ForwardSignal(sig) ==
  /\ launcher = "wait"
  /\ sig \in pending
  /\ pending' = pending \ {sig}
  /\ Send({"KILL"})
  /\ UNCHANGED <<launcher, exit, proxyVars, handlers, pasta, tether, status,
                 bwrapVars>>

\* Slips: the proxy is awaited without being told to stop, and the loop is
\* left on a signal without waiting for the child.
WaitReturnsSilently ==
  /\ pasta = "dead"
  /\ Advance("wait", "shutdown")
  /\ UNCHANGED <<exit, proxyVars, hostVars, childVars, bwrapVars>>

WaitReturnsEarly ==
  /\ pasta = "dead" \/ pending # {}
  /\ Advance("wait", "shutdown")
  /\ proxy' = IF proxy = "serving" THEN "draining" ELSE proxy
  /\ UNCHANGED <<exit, bundle, conns, hostVars, childVars, bwrapVars>>

\* child.wait() resolves; ProxyHandle::shutdown then signals the proxy task.
WaitReturns ==
  /\ pasta = "dead"
  /\ Advance("wait", "shutdown")
  /\ proxy' = IF proxy = "serving" THEN "draining" ELSE proxy
  /\ UNCHANGED <<exit, bundle, conns, hostVars, childVars, bwrapVars>>

\* A slip: the temp file is persisted instead of dropped.
ShutdownReturnsKeepsBundle ==
  /\ proxy \in {"stopped", "failed"}
  /\ Advance("shutdown", "render")
  /\ UNCHANGED <<exit, proxyVars, hostVars, childVars, bwrapVars>>

\* The proxy task has been awaited; the end of `shutdown` drops the handle
\* and with it the bundle file.
ShutdownReturns ==
  /\ proxy \in {"stopped", "failed"}
  /\ Advance("shutdown", "render")
  /\ bundle' = FALSE
  /\ UNCHANGED <<exit, proxy, conns, hostVars, childVars, bwrapVars>>

\* The final match on the wait status, and main's mapping of its result.
RenderStatus ==
  /\ launcher = "render"
  /\ Ends(Reported(status))
  /\ Send(PdeathSignal)
  /\ UNCHANGED bundle

\* Any fallible step but the blocked spawn can fail...
StepFails ==
  /\ launcher \in SetupPhases \cup {"sigint", "sigterm", "wait"}
  /\ Unwind

\* ... and spawn fails when the child reports that it could not execute.
SpawnFails ==
  /\ launcher = "forking"
  /\ pasta = "refused"
  /\ Unwind

\* main renders the error and returns.
ReportFailure ==
  /\ launcher = "unwind"
  /\ Ends(Failed)
  /\ Send(PdeathSignal)
  /\ UNCHANGED bundle

LauncherStep ==
  \/ Preflight \/ ResolveProfile
  \/ BindListener \/ WriteBundle \/ SpawnProxyTask
  \/ ForkPasta \/ SpawnReturns \/ SpawnFails
  \/ InstallSigint \/ InstallSigterm
  \/ \E sig \in Signals : ForwardSignal(sig)
  \/ WaitReturns \/ ShutdownReturns \/ RenderStatus \/ ReportFailure

-----------------------------------------------------------------------------
(***************************************************************************)
(* Signals to the launcher.  Without a handler SIGINT and SIGTERM kill it, *)
(* with one they are recorded for the select! loop; SIGKILL always kills.  *)
(***************************************************************************)
Dies(sig) == Ends(KilledBy(sig)) /\ UNCHANGED bundle

Notes(sig) ==
  /\ pending' = pending \cup {sig}
  /\ UNCHANGED <<launcher, exit, proxyVars, handlers, pasta, tether, status,
                 bwrapVars>>

\* kill(1) aimed at the launcher alone.
SignalLauncher(sig) ==
  /\ Alive
  /\ IF sig \in handlers
       THEN Notes(sig) /\ UNCHANGED doom
       ELSE Dies(sig) /\ Send(PdeathSignal)

KillLauncher == Alive /\ Dies("KILL") /\ Send(PdeathSignal)

\* Ctrl-C: the terminal sends SIGINT to the whole foreground process group,
\* pasta included.
Interrupt ==
  /\ Alive
  /\ IF "INT" \in handlers
       THEN Notes("INT") /\ Send({"INT"})
       ELSE Dies("INT") /\ Send({"INT"} \cup PdeathSignal)

-----------------------------------------------------------------------------
(***************************************************************************)
(* pasta.  The pre_exec hook runs in the forked child: prctl ties          *)
(* PDEATHSIG to whatever process is the parent at that moment.             *)
(***************************************************************************)
\* A slip: the hook is not installed.
SkipPdeathsig ==
  /\ pasta = "forked"
  /\ pasta' = "armed"
  /\ UNCHANGED <<launcher, exit, proxyVars, hostVars, tether, doom, status,
                 bwrapVars>>

ArmPdeathsig ==
  /\ pasta = "forked"
  /\ pasta' = "armed"
  /\ tether' = Alive
  /\ UNCHANGED <<launcher, exit, proxyVars, hostVars, doom, status, bwrapVars>>

ExecPasta ==
  /\ pasta = "armed"
  /\ pasta' = "running"
  /\ UNCHANGED <<launcher, exit, proxyVars, hostVars, tether, doom, status,
                 bwrapVars>>

\* The hook or the execve fails: the child reports it and exits.
ExecRefused ==
  /\ pasta \in {"forked", "armed"}
  /\ pasta' = "refused"
  /\ UNCHANGED <<launcher, exit, proxyVars, hostVars, tether, doom, status,
                 bwrapVars>>

\* With pasta gone, so are the connections it forwarded.
PastaEnds(s) ==
  /\ pasta' = "dead"
  /\ status' = s
  /\ conns' = 0
  /\ UNCHANGED <<launcher, exit, proxy, bundle, hostVars, tether, doom,
                 bwrapVars>>

PastaSignaled == PastaLive /\ doom # {} /\ PastaEnds(Signaled)

\* --foreground keeps pasta until bwrap ends; it hands on the code, whether
\* that is the user's command's or bwrap's own.
PastaRelays ==
  /\ pasta = "running"
  /\ bwrap \in {"done", "failed"}
  /\ PastaEnds(Exited(code))

\* pasta fails on its own account: no namespace, no tap interface, a -T port
\* that is taken, or an error at run time.
PastaFails(c) == pasta = "running" /\ c # 0 /\ PastaEnds(Exited(c))

StartBwrap ==
  /\ pasta = "running"
  /\ bwrap = "none"
  /\ bwrap' = "forked"
  /\ UNCHANGED <<launcher, exit, proxyVars, hostVars, childVars, leash, code>>

PastaStep ==
  \/ ArmPdeathsig \/ ExecPasta \/ PastaSignaled \/ PastaRelays \/ StartBwrap

-----------------------------------------------------------------------------
(***************************************************************************)
(* bwrap, with --die-with-parent: like pasta's, the request ties it to     *)
(* the parent of that moment, and pasta may already be gone.               *)
(***************************************************************************)
BwrapAsksToDie ==
  /\ bwrap = "forked"
  /\ bwrap' = "setup"
  /\ leash' = PastaLive
  /\ UNCHANGED <<launcher, exit, proxyVars, hostVars, childVars, code>>

\* The mounts: --ro-bind of the bundle needs its source to exist.
BwrapMounts ==
  /\ bwrap = "setup"
  /\ bundle
  /\ bwrap' = "running"
  /\ UNCHANGED <<launcher, exit, proxyVars, hostVars, childVars, leash, code>>

\* bwrap cannot be executed, or a step of its setup fails: the user's command
\* never runs, and the code is not the command's.
BwrapFails(c) ==
  /\ bwrap \in {"forked", "setup"}
  /\ c # 0
  /\ bwrap' = "failed"
  /\ code' = c
  /\ UNCHANGED <<launcher, exit, proxyVars, hostVars, childVars, leash>>

BwrapStep == BwrapAsksToDie \/ BwrapMounts \/ \E c \in Codes : BwrapFails(c)

CommandExits(c) ==
  /\ bwrap = "running"
  /\ bwrap' = "done"
  /\ code' = c
  /\ UNCHANGED <<launcher, exit, proxyVars, hostVars, childVars, leash>>

BwrapKilled ==
  /\ bwrap \in {"setup", "running"}
  /\ leash
  /\ pasta = "dead"
  /\ bwrap' = "killed"
  /\ UNCHANGED <<launcher, exit, proxyVars, hostVars, childVars, leash, code>>

-----------------------------------------------------------------------------
(***************************************************************************)
(* The proxy task and its connections.                                     *)
(***************************************************************************)
OpenConn ==
  /\ bwrap = "running"
  /\ PastaLive
  /\ proxy = "serving"
  /\ conns < MaxConns
  /\ conns' = conns + 1
  /\ UNCHANGED <<launcher, exit, proxy, bundle, hostVars, childVars, bwrapVars>>

CloseConn ==
  /\ conns > 0
  /\ conns' = conns - 1
  /\ UNCHANGED <<launcher, exit, proxy, bundle, hostVars, childVars, bwrapVars>>

\* The graceful shutdown ends when the last connection has; the runtime
\* polls the task only where the launcher awaits.
DrainProxy ==
  /\ launcher = "shutdown"
  /\ proxy = "draining"
  /\ conns = 0
  /\ proxy' = "stopped"
  /\ UNCHANGED <<launcher, exit, bundle, conns, hostVars, childVars, bwrapVars>>

\* The task logs a fatal error and returns; nothing watches it.
ProxyFails ==
  /\ launcher \in {"wait", "shutdown"}
  /\ proxy \in {"serving", "draining"}
  /\ proxy' = "failed"
  /\ conns' = 0
  /\ UNCHANGED <<launcher, exit, bundle, hostVars, childVars, bwrapVars>>

-----------------------------------------------------------------------------
Next ==
  \/ LauncherStep
  \/ StepFails
  \/ \E sig \in Signals : SignalLauncher(sig)
  \/ KillLauncher
  \/ Interrupt
  \/ PastaStep
  \/ ExecRefused
  \/ \E c \in Codes : PastaFails(c)
  \/ BwrapStep
  \/ \E c \in Codes : CommandExits(c)
  \/ BwrapKilled
  \/ OpenConn
  \/ CloseConn
  \/ DrainProxy
  \/ ProxyFails

Spec == Init /\ [][Next]_vars

\* The launcher, the kernel, pasta, bwrap's setup and the drain keep going,
\* and tokio's select! starves no ready branch (it polls them in random
\* order).  Nobody is obliged to send a signal, to end the command, to fail,
\* to open a connection or to close one.
Fairness ==
  /\ WF_vars(LauncherStep)
  /\ WF_vars(WaitReturns)
  /\ \A sig \in Signals : WF_vars(ForwardSignal(sig))
  /\ WF_vars(PastaStep)
  /\ WF_vars(PastaSignaled)
  /\ WF_vars(BwrapStep)
  /\ WF_vars(BwrapKilled)
  /\ WF_vars(DrainProxy)

FairSpec == Spec /\ Fairness

-----------------------------------------------------------------------------
\* While cmd_run holds a child it may still have to wait for, the child's
\* proxy has not been told to stop and the bundle that bwrap mounts exists:
\* start_proxy completes before the spawn and shutdown follows the wait
\* (cmd/run.rs 118-229).
SandboxCovered ==
  launcher \in GuardPhases /\ PastaLive
    => bundle /\ proxy \in {"serving", "failed"}

\* Once spawn has returned, a live pasta is tied to the launcher: an error
\* path of cmd_run can give up on the child without killing it because the
\* exit that follows makes the kernel signal it (cmd/run.rs 185-205).
TetherHolds ==
  /\ launcher \in {"sigint", "sigterm", "wait", "unwind"} /\ PastaLive
       => tether
  /\ exit.kind = "failed" /\ PastaLive => "TERM" \in doom

\* A launcher that ends by itself, on success, on the command's failure or
\* on an error of its own, leaves no temp file and no listener behind, and a
\* launcher that reports a status leaves no pasta (cmd/run.rs 229-249,
\* proxy.rs 122-129).
NothingLeftBehind ==
  exit.kind \in {"reported", "failed"}
    => /\ ~bundle
       /\ proxy \in {"none", "stopped"}
       /\ exit.kind = "reported" => ~PastaLive

\* The exit code is that of the wait status, whatever signals arrived
\* before, between or after; and success means that the user's command
\* itself ran and exited 0 (cmd/run.rs 239-249, main.rs 64-71).
ExitFidelity ==
  exit.kind = "reported"
    => /\ status # NoStatus
       /\ exit.value = ExitOf(status)
       /\ exit.value = 0 => bwrap = "done" /\ code = 0

\* A signal that reached a handler ends the session: the loop forwards it,
\* or the session was already ending (cmd/run.rs 206-229).
SignalEndsSession == pending # {} ~> ~Alive

\* When the sandbox ends the launcher ends too: the shutdown of the proxy
\* cannot hang on a connection, since the connections ended with pasta
\* (cmd/run.rs 208-229, proxy.rs 122-129).
SandboxEndEndsSession == pasta = "dead" ~> ~Alive

\* The death chain of cmd/run.rs 157-161, once both links are tied.
ChainUnwinds ==
  ~Alive /\ tether /\ leash ~> ~PastaLive /\ ~BwrapLive

\* The run keeps the contract its caller relies on: it reports exactly how
\* the sandbox ended, or fails or is killed.  What the sandbox ends with is
\* the command's code, or one that pasta or bwrap gave without it, and then
\* never 0 (cmd/run.rs 192-249).
Contract == INSTANCE RunContract WITH
  Killers <- Signals \cup {"KILL"},
  stage <- IF ~Alive THEN "over"
           ELSE IF pasta = "none" THEN "preparing" ELSE "active",
  command <- IF bwrap = "done" THEN Exited(code) ELSE NoStatus,
  ending <- status,
  result <- exit

KeepsContract == Contract!Spec

-----------------------------------------------------------------------------
(***************************************************************************)
(* What the comments say, and the code does not do.                                                                     *)
(***************************************************************************)
\* cmd/run.rs 153-155: "When redoubtful dies, the kernel sends pasta SIGTERM
\* directly -- no bookkeeping on our side, no race window."
NoRaceWindow == ~Alive ~> ~PastaLive
=============================================================================
