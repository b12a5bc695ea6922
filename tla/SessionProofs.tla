--------------------------- MODULE SessionProofs ---------------------------
(***************************************************************************)
(* The safety of Session for every set of codes and every bound on         *)
(* connections, and its refinement of RunContract.                         *)
(***************************************************************************)
EXTENDS Session, TLAPS

-----------------------------------------------------------------------------
(* The inductive invariant: where each phase of cmd_run finds the things   *)
(* it owns.                                                                *)

\* The proxy and the bundle, phase by phase.
ProxyByPhase ==
  /\ launcher \in {"preflight", "resolve", "bind"}
       => proxy = "none" /\ ~bundle
  /\ launcher = "bundle" => proxy = "bound" /\ ~bundle
  /\ launcher = "connect" => proxy = "bound" /\ bundle
  /\ launcher \in {"spawn", "forking", "sigint", "sigterm"}
       => proxy = "serving" /\ bundle
  /\ launcher = "wait" => proxy \in {"serving", "failed"} /\ bundle
  /\ launcher = "render" => proxy \in {"stopped", "failed"} /\ ~bundle
  /\ launcher = "unwind" => ~bundle
  /\ launcher = "gone" => proxy \in {"none", "stopped"}

\* The child, phase by phase.
PastaByPhase ==
  /\ launcher \in SetupPhases => pasta = "none"
  /\ launcher = "forking" => pasta # "none"
  /\ launcher \in {"sigint", "sigterm", "wait"} => pasta \in {"running", "dead"}
  /\ launcher \in {"shutdown", "render"} => pasta = "dead"
  /\ launcher = "unwind" => pasta \in {"none", "refused", "running", "dead"}

\* The child itself.  A code is the command's if it is 0; any other may be
\* that of a failure, which a bwrap that failed never leaves without one.
PastaConsistent ==
  /\ pasta \in {"armed", "running"} /\ Alive => tether
  /\ status # NoStatus <=> pasta = "dead"
  /\ status = Exited(0) => bwrap = "done" /\ code = 0
  /\ bwrap = "failed" => code # 0
  /\ bwrap # "none" => pasta \in {"running", "dead"}

\* What the end of the launcher left.
ExitConsistent ==
  /\ exit = NoExit <=> Alive
  /\ exit.kind = "reported"
       => pasta = "dead" /\ ~bundle /\ exit = Reported(status)
  /\ exit.kind = "failed" => ~bundle /\ (PastaLive => "TERM" \in doom)

IInv ==
  /\ TypeOK
  /\ ProxyByPhase
  /\ PastaByPhase
  /\ PastaConsistent
  /\ ExitConsistent

LEMMA IInvInit == Init => IInv
<1> SUFFICES ASSUME Init PROVE IInv
  OBVIOUS
<1>1. TypeOK
  <2>1. code \in Codes /\ conns \in 0 .. MaxConns
    BY CodesAssumption, MaxConnsAssumption DEF Init
  <2>2. exit \in Exits /\ status \in Statuses
    BY DEF Init, Exits, Statuses
  <2>3. launcher \in Phases
    BY DEF Init, Phases, SetupPhases
  <2>4. QED
    BY <2>1, <2>2, <2>3 DEF Init, TypeOK
<1>2. ProxyByPhase /\ PastaByPhase
  BY DEF Init, ProxyByPhase, PastaByPhase, SetupPhases
<1>3. PastaConsistent /\ ExitConsistent
  BY DEF Init, PastaConsistent, ExitConsistent, NoStatus, NoExit, Exited, Alive
<1>4. QED
  BY <1>1, <1>2, <1>3 DEF IInv

\* What the kernel's signal delivery keeps well typed: the marks on pasta, a
\* recorded signal, and the launcher's death.
LEMMA SendType ==
  ASSUME TypeOK, NEW sigs \in SUBSET (Signals \cup {"KILL"}), Send(sigs)
  PROVE  doom' \subseteq Signals \cup {"KILL"}
BY DEF TypeOK, Send

LEMMA NotesType ==
  ASSUME TypeOK, NEW sig \in Signals, Notes(sig),
         doom' \subseteq Signals \cup {"KILL"}
  PROVE  TypeOK'
BY DEF TypeOK, Notes, proxyVars, bwrapVars

LEMMA DiesType ==
  ASSUME TypeOK, NEW sig \in Signals \cup {"KILL"}, Dies(sig),
         doom' \subseteq Signals \cup {"KILL"}
  PROVE  TypeOK'
<1>1. exit' \in Exits
  BY DEF Dies, Ends, Exits
<1>2. launcher' \in Phases
  BY DEF Dies, Ends, Phases
<1>3. conns' \in 0 .. MaxConns
  BY MaxConnsAssumption DEF Dies, Ends
<1>4. QED
  BY <1>1, <1>2, <1>3 DEF TypeOK, Dies, Ends, hostVars, bwrapVars

\* Every step of the launcher, the kernel, pasta, bwrap and the proxy
\* preserves the invariant.
LEMMA IInvStep == IInv /\ [Next]_vars => IInv'
<1> SUFFICES ASSUME IInv, [Next]_vars PROVE IInv'
  OBVIOUS
<1> USE CodesAssumption, MaxConnsAssumption
    DEF IInv, TypeOK, ProxyByPhase, PastaByPhase, PastaConsistent,
        ExitConsistent, Phases, SetupPhases, GuardPhases, Exits, NoExit,
        Statuses, NoStatus, Signaled, Exited, PastaLive, Alive, Signals,
        hostVars, proxyVars, childVars, bwrapVars
<1>1. CASE Preflight
  BY <1>1 DEF Preflight, Advance
<1>2. CASE ResolveProfile
  BY <1>2 DEF ResolveProfile, Advance
<1>3. CASE BindListener
  BY <1>3 DEF BindListener, Advance
<1>4. CASE WriteBundle
  BY <1>4 DEF WriteBundle, Advance
<1>5. CASE SpawnProxyTask
  BY <1>5 DEF SpawnProxyTask, Advance
<1>6. CASE ForkPasta
  BY <1>6 DEF ForkPasta, Advance
<1>7. CASE SpawnReturns
  BY <1>7 DEF SpawnReturns, Advance
<1>8. CASE SpawnFails
  BY <1>8 DEF SpawnFails, Unwind
<1>9. CASE InstallSigint
  BY <1>9 DEF InstallSigint, InstallHandler, Advance
<1>10. CASE InstallSigterm
  BY <1>10 DEF InstallSigterm, InstallHandler, Advance
<1>11. ASSUME NEW sig \in Signals, ForwardSignal(sig) PROVE IInv'
  BY <1>11 DEF ForwardSignal, Send
<1>12. CASE WaitReturns
  BY <1>12 DEF WaitReturns, Advance
<1>13. CASE ShutdownReturns
  BY <1>13 DEF ShutdownReturns, Advance
<1>14. CASE RenderStatus
  BY <1>14 DEF RenderStatus, Ends, Send, PdeathSignal, Reported, ExitOf
<1>15. CASE ReportFailure
  BY <1>15 DEF ReportFailure, Ends, Send, PdeathSignal, Failed
<1>16. CASE StepFails
  <2>1. TypeOK'
    BY <1>16 DEF StepFails, Unwind
  <2>2. (ProxyByPhase /\ PastaByPhase)'
    BY <1>16 DEF StepFails, Unwind
  <2>3. (PastaConsistent /\ ExitConsistent)'
    BY <1>16 DEF StepFails, Unwind
  <2>4. QED
    BY <2>1, <2>2, <2>3
<1>17. ASSUME NEW sig \in Signals, SignalLauncher(sig) PROVE IInv'
  <2>1. CASE sig \in handlers
    <3>1. TypeOK'
      BY <1>17, <2>1, NotesType DEF SignalLauncher
    <3>2. (ProxyByPhase /\ PastaByPhase)'
      BY <1>17, <2>1 DEF SignalLauncher, Notes
    <3>3. (PastaConsistent /\ ExitConsistent)'
      BY <1>17, <2>1 DEF SignalLauncher, Notes
    <3>4. QED
      BY <3>1, <3>2, <3>3
  <2>2. CASE sig \notin handlers
    <3>1. TypeOK'
      BY <1>17, <2>2, DiesType, SendType DEF SignalLauncher, PdeathSignal
    <3>2. (ProxyByPhase /\ PastaByPhase)'
      BY <1>17, <2>2 DEF SignalLauncher, Dies, Ends
    <3>3. (PastaConsistent /\ ExitConsistent)'
      BY <1>17, <2>2 DEF SignalLauncher, Dies, KilledBy, Ends
    <3>4. QED
      BY <3>1, <3>2, <3>3
  <2>3. QED
    BY <2>1, <2>2
<1>18. CASE KillLauncher
  BY <1>18 DEF KillLauncher, Dies, KilledBy, Ends, Send, PdeathSignal
<1>19. CASE Interrupt
  <2>1. CASE "INT" \in handlers
    <3>1. TypeOK'
      BY <1>19, <2>1, NotesType, SendType DEF Interrupt
    <3>2. (ProxyByPhase /\ PastaByPhase)'
      BY <1>19, <2>1 DEF Interrupt, Notes, Send
    <3>3. (PastaConsistent /\ ExitConsistent)'
      BY <1>19, <2>1 DEF Interrupt, Notes, Send
    <3>4. QED
      BY <3>1, <3>2, <3>3
  <2>2. CASE "INT" \notin handlers
    <3>1. TypeOK'
      BY <1>19, <2>2, DiesType, SendType DEF Interrupt, PdeathSignal
    <3>2. (ProxyByPhase /\ PastaByPhase)'
      BY <1>19, <2>2 DEF Interrupt, Dies, Ends
    <3>3. (PastaConsistent /\ ExitConsistent)'
      BY <1>19, <2>2 DEF Interrupt, Dies, KilledBy, Ends
    <3>4. QED
      BY <3>1, <3>2, <3>3
  <2>3. QED
    BY <2>1, <2>2
<1>20. CASE ArmPdeathsig
  BY <1>20 DEF ArmPdeathsig
<1>21. CASE ExecPasta
  BY <1>21 DEF ExecPasta
<1>22. CASE ExecRefused
  BY <1>22 DEF ExecRefused
<1>23. CASE PastaSignaled
  BY <1>23 DEF PastaSignaled, PastaEnds
<1>24. CASE PastaRelays
  BY <1>24 DEF PastaRelays, PastaEnds
<1>25. CASE StartBwrap
  BY <1>25 DEF StartBwrap
<1>26. ASSUME NEW c \in Codes, PastaFails(c) PROVE IInv'
  BY <1>26 DEF PastaFails, PastaEnds
<1>27. ASSUME NEW c \in Codes, BwrapFails(c) PROVE IInv'
  BY <1>27 DEF BwrapFails
<1>28. CASE BwrapAsksToDie
  BY <1>28 DEF BwrapAsksToDie
<1>29. CASE BwrapMounts
  BY <1>29 DEF BwrapMounts
<1>30. ASSUME NEW c \in Codes, CommandExits(c) PROVE IInv'
  BY <1>30 DEF CommandExits
<1>31. CASE BwrapKilled
  BY <1>31 DEF BwrapKilled
<1>32. CASE OpenConn
  BY <1>32 DEF OpenConn
<1>33. CASE CloseConn
  BY <1>33 DEF CloseConn
<1>34. CASE DrainProxy
  BY <1>34 DEF DrainProxy
<1>35. CASE ProxyFails
  BY <1>35 DEF ProxyFails
<1>36. CASE UNCHANGED vars
  BY <1>36 DEF vars
<1>37. QED
  BY <1>1, <1>2, <1>3, <1>4, <1>5, <1>6, <1>7, <1>8, <1>9, <1>10, <1>11,
     <1>12, <1>13, <1>14, <1>15, <1>16, <1>17, <1>18, <1>19, <1>20,
     <1>21, <1>22, <1>23, <1>24, <1>25, <1>26, <1>27, <1>28, <1>29,
     <1>30, <1>31, <1>32, <1>33, <1>34, <1>35, <1>36
  DEF Next, LauncherStep, PastaStep, BwrapStep

LEMMA IInvAlways == Spec => []IInv
  BY IInvInit, IInvStep, PTL DEF Spec

-----------------------------------------------------------------------------
\* Every variable keeps its type, whatever interleaves.
THEOREM TypeCorrect == Spec => []TypeOK
<1>1. IInv => TypeOK
  BY DEF IInv
<1>2. QED
  BY <1>1, IInvAlways, PTL

\* While cmd_run holds a live child, the child's proxy and bundle are there.
THEOREM Covered == Spec => []SandboxCovered
<1>1. IInv => SandboxCovered
  BY DEF IInv, ProxyByPhase, SandboxCovered, GuardPhases
<1>2. QED
  BY <1>1, IInvAlways, PTL

\* Once spawn has returned, a live pasta is tied to the launcher, and an
\* error return of the launcher has signalled it.
THEOREM Tethered == Spec => []TetherHolds
<1>1. IInv => TetherHolds
  BY DEF IInv, PastaByPhase, PastaConsistent, ExitConsistent, TetherHolds,
         PastaLive, Alive
<1>2. QED
  BY <1>1, IInvAlways, PTL

\* A launcher that ends by itself leaves no bundle, no listener, and after a
\* report no pasta.
THEOREM LeavesNothing == Spec => []NothingLeftBehind
<1>1. IInv => NothingLeftBehind
  BY DEF IInv, ProxyByPhase, ExitConsistent, NothingLeftBehind, PastaLive,
         Alive, NoExit
<1>2. QED
  BY <1>1, IInvAlways, PTL

\* The reported exit code is that of the wait status, and 0 only for a
\* command that ran and exited 0, whatever else fails.
THEOREM FaithfulExit == Spec => []ExitFidelity
<1>1. IInv => ExitFidelity
  BY DEF IInv, TypeOK, Statuses, Exited, Signaled, NoStatus, PastaConsistent,
         ExitConsistent, ExitFidelity, Reported, ExitOf
<1>2. QED
  BY <1>1, IInvAlways, PTL

-----------------------------------------------------------------------------
\* What the contract observes of a session; a step that leaves it alone is a
\* stutter of the contract.
Quiet ==
  /\ Alive' <=> Alive
  /\ pasta' = "none" <=> pasta = "none"
  /\ bwrap' = "done" <=> bwrap = "done"
  /\ bwrap = "done" => code' = code
  /\ status' = status
  /\ exit' = exit

LEMMA QuietStutters == Quiet => UNCHANGED Contract!vars
  BY DEF Quiet, Contract!vars, Exited, Alive

\* The launcher's own steps but its last one, and those of its environment
\* that the contract does not see.
LEMMA QuietSteps ==
  ASSUME IInv,
         \/ Preflight \/ ResolveProfile \/ BindListener \/ WriteBundle
         \/ SpawnProxyTask \/ SpawnReturns \/ SpawnFails
         \/ InstallSigint \/ InstallSigterm
         \/ \E sig \in Signals : ForwardSignal(sig)
         \/ WaitReturns \/ ShutdownReturns \/ StepFails
         \/ ArmPdeathsig \/ ExecPasta \/ ExecRefused
         \/ StartBwrap \/ BwrapAsksToDie \/ BwrapMounts \/ BwrapKilled
         \/ \E c \in Codes : BwrapFails(c)
         \/ OpenConn \/ CloseConn \/ DrainProxy \/ ProxyFails
         \/ UNCHANGED vars
  PROVE  Quiet
<1> USE DEF Quiet, Alive, hostVars, proxyVars, childVars, bwrapVars, Advance
<1>1. CASE Preflight \/ ResolveProfile \/ BindListener \/ WriteBundle
             \/ SpawnProxyTask
  BY <1>1 DEF Preflight, ResolveProfile, BindListener, WriteBundle,
              SpawnProxyTask
<1>2. CASE SpawnReturns \/ InstallSigint \/ InstallSigterm
  BY <1>2 DEF SpawnReturns, InstallSigint, InstallSigterm, InstallHandler
<1>3. CASE SpawnFails \/ StepFails
  BY <1>3 DEF SpawnFails, StepFails, Unwind, SetupPhases
<1>4. CASE \E sig \in Signals : ForwardSignal(sig)
  BY <1>4 DEF ForwardSignal
<1>5. CASE WaitReturns \/ ShutdownReturns
  BY <1>5 DEF WaitReturns, ShutdownReturns
<1>6. CASE ArmPdeathsig \/ ExecPasta \/ ExecRefused
  BY <1>6 DEF ArmPdeathsig, ExecPasta, ExecRefused
<1>7. CASE \/ StartBwrap \/ BwrapAsksToDie \/ BwrapMounts \/ BwrapKilled
           \/ \E c \in Codes : BwrapFails(c)
  BY <1>7 DEF StartBwrap, BwrapAsksToDie, BwrapMounts, BwrapKilled, BwrapFails
<1>8. CASE OpenConn \/ CloseConn \/ DrainProxy \/ ProxyFails
  BY <1>8 DEF OpenConn, CloseConn, DrainProxy, ProxyFails
<1>9. CASE UNCHANGED vars
  BY <1>9 DEF vars
<1>10. QED
  BY <1>1, <1>2, <1>3, <1>4, <1>5, <1>6, <1>7, <1>8, <1>9

\* The launcher's death is the contract's Kill.
LEMMA DeathIsKill ==
  ASSUME Alive, NEW sig \in Signals \cup {"KILL"}, Dies(sig)
  PROVE  Contract!Kill
BY DEF Dies, Ends, KilledBy, Contract!Kill, Contract!Finish, Alive, bwrapVars

LEMMA ContractStep == IInv /\ [Next]_vars => [Contract!Next]_(Contract!vars)
<1> SUFFICES ASSUME IInv, [Next]_vars PROVE [Contract!Next]_(Contract!vars)
  OBVIOUS
<1>1. CASE ForkPasta
  <2>1. Contract!Launch
    BY <1>1 DEF IInv, PastaByPhase, SetupPhases, ForkPasta, Advance, Alive,
                bwrapVars, Contract!Launch
  <2>2. QED
    BY <2>1 DEF Contract!Next
<1>2. CASE RenderStatus
  <2>1. Contract!ReportEnding
    BY <1>2 DEF IInv, PastaByPhase, PastaConsistent, RenderStatus, Ends,
                Reported, ExitOf, Alive, NoStatus, bwrapVars,
                Contract!ReportEnding, Contract!Finish, Contract!Report,
                Contract!NotEnded
  <2>2. QED
    BY <2>1 DEF Contract!Next
<1>3. CASE ReportFailure
  <2>1. Contract!Fail
    BY <1>3 DEF ReportFailure, Ends, Failed, Alive, bwrapVars, Contract!Fail,
                Contract!Finish, Contract!Failure
  <2>2. QED
    BY <2>1 DEF Contract!Next
<1>4. ASSUME NEW sig \in Signals, SignalLauncher(sig)
      PROVE  [Contract!Next]_(Contract!vars)
  <2>1. CASE sig \in handlers
    <3>1. Quiet
      BY <1>4, <2>1 DEF SignalLauncher, Notes, Quiet, Alive, bwrapVars
    <3>2. QED
      BY <3>1, QuietStutters
  <2>2. CASE sig \notin handlers
    <3>1. Contract!Kill
      BY <1>4, <2>2, DeathIsKill DEF SignalLauncher
    <3>2. QED
      BY <3>1 DEF Contract!Next
  <2>3. QED
    BY <2>1, <2>2
<1>5. CASE KillLauncher
  <2>1. Contract!Kill
    BY <1>5, DeathIsKill DEF KillLauncher
  <2>2. QED
    BY <2>1 DEF Contract!Next
<1>6. CASE Interrupt
  <2>1. CASE "INT" \in handlers
    <3>1. Quiet
      BY <1>6, <2>1 DEF Interrupt, Notes, Quiet, Alive, bwrapVars
    <3>2. QED
      BY <3>1, QuietStutters
  <2>2. CASE "INT" \notin handlers
    <3>1. Contract!Kill
      BY <1>6, <2>2, DeathIsKill DEF Interrupt, Signals
    <3>2. QED
      BY <3>1 DEF Contract!Next
  <2>3. QED
    BY <2>1, <2>2
<1>7. CASE PastaSignaled \/ PastaRelays \/ \E c \in Codes : PastaFails(c)
  <2>1. Contract!SandboxEnds
    <3>1. /\ status = NoStatus /\ pasta # "none"
          /\ UNCHANGED <<launcher, exit, bwrap, code>>
          /\ pasta' = "dead"
      BY <1>7 DEF IInv, PastaConsistent, PastaLive, PastaSignaled,
                  PastaRelays, PastaFails, PastaEnds, bwrapVars
    <3>2. \/ status' = Signaled
          \/ bwrap = "done" /\ status' = Exited(code)
          \/ \E c \in Codes \ {0} : status' = Exited(c)
      BY <1>7 DEF IInv, TypeOK, PastaConsistent, PastaSignaled, PastaRelays,
                  PastaFails, PastaEnds
    <3>3. QED
      BY <3>1, <3>2 DEF Signaled, Exited, Alive, NoStatus,
         Contract!SandboxEnds, Contract!NotEnded, Contract!Killed,
         Contract!EndedWith
  <2>2. QED
    BY <2>1 DEF Contract!Next
<1>8. ASSUME NEW c \in Codes, CommandExits(c)
      PROVE  [Contract!Next]_(Contract!vars)
  <2>1. Contract!CommandEnds(c)
    BY <1>8 DEF CommandExits, IInv, PastaConsistent, Exited, Alive, NoStatus,
                childVars, Contract!CommandEnds, Contract!NotEnded,
                Contract!EndedWith
  <2>2. QED
    BY <2>1 DEF Contract!Next
<1>9. CASE \/ Preflight \/ ResolveProfile \/ BindListener \/ WriteBundle
           \/ SpawnProxyTask \/ SpawnReturns \/ SpawnFails
           \/ InstallSigint \/ InstallSigterm
           \/ \E sig \in Signals : ForwardSignal(sig)
           \/ WaitReturns \/ ShutdownReturns \/ StepFails
           \/ ArmPdeathsig \/ ExecPasta \/ ExecRefused
           \/ StartBwrap \/ BwrapAsksToDie \/ BwrapMounts \/ BwrapKilled
           \/ \E c \in Codes : BwrapFails(c)
           \/ OpenConn \/ CloseConn \/ DrainProxy \/ ProxyFails
           \/ UNCHANGED vars
  <2>1. Quiet
    BY <1>9, QuietSteps
  <2>2. QED
    BY <2>1, QuietStutters
<1>10. QED
  <2>1. CASE LauncherStep
    BY <1>1, <1>2, <1>3, <1>9, <2>1 DEF LauncherStep
  <2>2. CASE PastaStep \/ \E c \in Codes : PastaFails(c)
    BY <1>7, <1>9, <2>2 DEF PastaStep
  <2>3. CASE BwrapStep
    BY <1>9, <2>3 DEF BwrapStep
  <2>4. QED
    BY <1>4, <1>5, <1>6, <1>8, <1>9, <2>1, <2>2, <2>3 DEF Next

\* The session implements the contract, the failures of pasta and of bwrap
\* included.
THEOREM ImplementsContract == Spec => KeepsContract
<1>1. Init => Contract!Init
  BY DEF Init, Contract!Init, Alive, NoStatus, NoExit, Contract!NotEnded,
         Contract!NoResult
<1>2. QED
  BY <1>1, ContractStep, IInvAlways, PTL DEF Spec, KeepsContract, Contract!Spec
=============================================================================
