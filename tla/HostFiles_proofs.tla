--------------------------- MODULE HostFiles_proofs ---------------------------
(* The theorems about the registries and about the runs carry over to the    *)
(* server that is made of both.                                              *)
EXTENDS HostFiles, ConfigRegistry_proofs

SmmP == INSTANCE SmmRuns_proofs WITH pc <- runPc

\* What the server does with the registries is what ConfigRegistry allows.
LEMMA RegistryPart == HostSpec => Spec
<1>1. HostInit => Init
  BY DEF HostInit
<1>2. [HostNext]_hostVars => [Next]_vars
  BY DEF HostNext, CreateStep, RunStep, BootStep, Clock, Git, Ask, Look, Wrapper,
         HostRestart, Creates, Serves, Next, hostVars, Everyone
<1> QED
  BY <1>1, <1>2, PTL DEF HostSpec, Spec

\* Served by the whole server, whatever its runs do: no edition of a file is
\* taken for read that was not read.
THEOREM HostMissesNothing == HostSpec => []NothingIsMissed
BY RegistryPart, NoEditionIsMissed, PTL

\* Served by the whole server: creates use rules as fresh as the debounce allows.
THEOREM HostUsesFreshRules == HostSpec => []FreshRulesApply
BY RegistryPart, FreshRulesAreUsed, PTL

\* A step of the server is, for the runs, a step of SmmRuns or none.
LEMMA RunsStep == [HostNext]_hostVars => [Smm!Next]_(Smm!vars)
<1> SUFFICES ASSUME [HostNext]_hostVars PROVE [Smm!Next]_(Smm!vars)
  OBVIOUS
<1>1. ASSUME NEW p \in Everyone, Create(p) \/ Step(p) PROVE restarts' = restarts
  BY <1>1 DEF Create, Step, Window, Lock, Pulled, Guard, Stat, ReadFile, Install, Use
<1>2. CASE \/ \E p \in Procs : CreateStep(p)
           \/ BootStep
           \/ \E r \in Regs : Clock(r) \/ Git(r)
           \/ UNCHANGED hostVars
  <2>1. UNCHANGED << runVars, restarts >>
    BY <1>1, <1>2 DEF CreateStep, BootStep, Clock, Git, Creates, Boot, Expire, Checkout,
                      Everyone, hostVars, vars
  <2> QED
    BY <2>1 DEF runVars, Smm!vars
<1>3. CASE \E p \in Procs : RunStep(p)
  BY <1>3 DEF RunStep, Serves, Smm!Next
<1>4. CASE \/ \E p \in Procs, r \in Runs : Ask(p, r)
           \/ \E r \in Runs : Look(r) \/ Wrapper(r)
  BY <1>4 DEF Ask, Look, Wrapper, Serves, Smm!Next
<1>5. CASE HostRestart
  BY <1>5 DEF HostRestart, Smm!Next
<1> QED
  BY <1>2, <1>3, <1>4, <1>5 DEF HostNext

\* The runs of this module and those of the module of their proofs are the same.
LEMMA SameRuns ==
  /\ Smm!Init <=> SmmP!Init
  /\ [Smm!Next]_(Smm!vars) <=> [SmmP!Next]_(SmmP!vars)
  BY DEF Smm!Init, Smm!Absent, Smm!Next, Smm!vars, Smm!Trigger, Smm!Poll,
         Smm!Step, Smm!Live, Smm!Restart, Smm!Seed, Smm!Seeded, Smm!Start,
         Smm!StartFails, Smm!Pid, Smm!Pidded, Smm!Probe, Smm!Mark,
         Smm!Marked, Smm!Reply, Smm!Begins, Smm!Finishes, Smm!Exits,
         Smm!Says, Smm!AboutToWrite, Smm!Gone, Smm!Lost, Smm!Watches,
         Smm!Written, Smm!Goto, Smm!Truncate, Smm!Queued, Smm!Unreadable,
         SmmP!Init, SmmP!Absent, SmmP!Next, SmmP!vars, SmmP!Trigger,
         SmmP!Poll, SmmP!Step, SmmP!Live, SmmP!Restart, SmmP!Seed,
         SmmP!Seeded, SmmP!Start, SmmP!StartFails, SmmP!Pid, SmmP!Pidded,
         SmmP!Probe, SmmP!Mark, SmmP!Marked, SmmP!Reply, SmmP!Begins,
         SmmP!Finishes, SmmP!Exits, SmmP!Says, SmmP!AboutToWrite, SmmP!Gone,
         SmmP!Lost, SmmP!Watches, SmmP!Written, SmmP!Goto, SmmP!Truncate,
         SmmP!Queued, SmmP!Unreadable

\* Served by the whole server: the invariants of the runs.
LEMMA RunsInvariance == HostSpec => [](SmmP!PlaceInv /\ SmmP!ShowInv)
<1>1. HostInit => SmmP!PlaceInv /\ SmmP!ShowInv
  BY SameRuns, SmmP!InitHolds DEF HostInit
<1>2. SmmP!PlaceInv /\ SmmP!ShowInv /\ [HostNext]_hostVars
        => (SmmP!PlaceInv /\ SmmP!ShowInv)'
  BY SameRuns, RunsStep, SmmP!NextHolds
<1> QED
  BY <1>1, <1>2, PTL DEF HostSpec

\* Served by the whole server, restarts included: what a state file shows of a
\* run is the wrapper's last word, but for the exceptions that SmmRuns names.
THEOREM HostLastWordStands == HostSpec => []LastWordStands
<1>1. SmmP!PlaceInv /\ SmmP!ShowInv => SmmP!LastWordStands
  BY SmmP!Implied
<1>2. SmmP!LastWordStands => LastWordStands
  BY DEF LastWordStands, SmmP!LastWordStands, Smm!LastWordStands,
         Smm!BeingWritten, SmmP!BeingWritten, Smm!Lost, SmmP!Lost
<1> QED
  BY <1>1, <1>2, RunsInvariance, PTL

\* The variables of both parts keep their types in the whole server.
THEOREM HostTypeCorrect == HostSpec => []HostTypeOK
<1> DEFINE Sides == serves \in { "creates", "runs" }
<1>1. HostInit => Sides
  BY DEF HostInit
<1>2. Sides /\ [HostNext]_hostVars => Sides'
  BY DEF HostNext, CreateStep, RunStep, BootStep, Clock, Git, Ask, Look, Wrapper,
         HostRestart, Creates, Serves, hostVars
<1>3. SmmP!PlaceInv /\ SmmP!ShowInv => SmmP!TypeOK
  BY SmmP!Implied
<1>4. SmmP!TypeOK => Smm!TypeOK
  BY DEF SmmP!TypeOK, Smm!TypeOK, Smm!State, SmmP!State, Smm!Statuses, SmmP!Statuses,
         Smm!Absent, SmmP!Absent, Smm!Unreadable, SmmP!Unreadable, Smm!Lost, SmmP!Lost
<1>5. TypeOK /\ Smm!TypeOK /\ Sides => HostTypeOK
  BY DEF HostTypeOK
<1> HIDE DEF Sides
<1> QED
  BY <1>1, <1>2, <1>3, <1>4, <1>5, RunsInvariance, RegistryPart, TypeCorrect, PTL
     DEF HostSpec
=============================================================================
