------------------------------- MODULE HostFiles -------------------------------
(***************************************************************************)
(* The server and the files of its host: the registries that it reads from *)
(* the ax checkout, and the state files of the runs.  They have nothing in *)
(* common but the process, which comes up when both configuration files    *)
(* have been read and ends for both at once.  A behaviour therefore serves *)
(* either creates, while git changes the files, or triggers and polls.     *)
(***************************************************************************)
EXTENDS ConfigRegistry

CONSTANTS
  Runs   \* the runs that are triggered

VARIABLES
  serves,  \* "creates" or "runs"
  file, wrapper, said, overlap, cut, runPc, run, seen

Smm == INSTANCE SmmRuns WITH pc <- runPc

runVars  == << file, wrapper, said, overlap, cut, runPc, run, seen >>
hostVars == << vars, serves, runVars >>

HostInit == Init /\ Smm!Init /\ serves \in { "creates", "runs" }

\* Steps of the registries, and of the runs; a request needs a listener.
Creates(A) == serves = "creates" /\ A /\ UNCHANGED << serves, runVars >>
Serves(A)  == serves = "runs" /\ Up /\ A /\ UNCHANGED << serves, vars >>

CreateStep(p) == Creates(Create(p) \/ Step(p))
BootStep      == (Boot \/ Step(Main)) /\ UNCHANGED << serves, runVars >>
Clock(r)      == Creates(Expire(r))
Git(r)        == Creates(Checkout(r))

Ask(p, r)     == Serves(Smm!Trigger(p, r))
Look(r)       == \E p \in Procs : Serves(Smm!Poll(p, r))
RunStep(p)    == Serves(Smm!Step(p))

\* The wrapper needs no server.
Wrapper(r) == serves = "runs" /\ Smm!Live(r) /\ UNCHANGED << serves, vars >>

HostRestart == Restart /\ Smm!Restart /\ UNCHANGED serves

HostNext ==
  \/ \E p \in Procs : CreateStep(p) \/ RunStep(p)
  \/ BootStep
  \/ \E r \in Regs : Clock(r) \/ Git(r)
  \/ \E p \in Procs, r \in Runs : Ask(p, r)
  \/ \E r \in Runs : Look(r) \/ Wrapper(r)
  \/ HostRestart

\* Goroutines run, time passes, a server that has ended is started again and a
\* wrapper comes to an end.  Clients: creates keep coming, and so do polls.
HostFairness ==
  /\ \A p \in Procs : WF_hostVars(CreateStep(p)) /\ WF_hostVars(RunStep(p))
  /\ WF_hostVars(BootStep)
  /\ \A r \in Regs : WF_hostVars(Clock(r))
  /\ \A r \in Runs : SF_hostVars(Look(r)) /\ WF_hostVars(Wrapper(r))

HostSpec == HostInit /\ [][HostNext]_hostVars /\ HostFairness

\* Every variable of both parts has its type.
HostTypeOK == TypeOK /\ Smm!TypeOK /\ serves \in { "creates", "runs" }

\* See SmmRuns.
LastWordStands == Smm!LastWordStands

\* See SmmRuns.
RunEnds == Smm!RunEnds
=============================================================================
