---------------------------- MODULE ConfigRegistry ----------------------------
(***************************************************************************)
(* TaskownersRegistry and WorkflowRegistry: what the server remembers of   *)
(* taskowners.yaml and workflows.yaml, and how a create refreshes it.      *)
(* The two are the same code over another file, so a registry is a number  *)
(* here, in the order in which CreateTask reloads them.                    *)
(*                                                                         *)
(* The files belong to git: any pull (of a reload, of POST /exec, of a     *)
(* trigger, of subtasks-from-plan, of an operator) may change them at any  *)
(* time.  git replaces a file by removing it, creating it anew and writing *)
(* it, so a file goes through editions: 3n is whole, 3n + 1 is missing,    *)
(* 3n + 2 is there in part.  Every edition that is there has an mtime of   *)
(* its own, so the edition also stands for the mtime.                      *)
(***************************************************************************)
EXTENDS Integers

CONSTANTS
  Procs,       \* goroutines that serve creates
  Main,        \* the goroutine of runServe
  None,        \* nobody holds reloadMu
  NumRegs,     \* the code has 2
  Last,        \* bounds the editions of each file
  Broken,      \* the whole editions that are not valid YAML
  MaxRestarts  \* bounds the restarts of the server

ASSUME RegistryAssumption ==
  /\ Main \notin Procs /\ None \notin Procs \cup { Main }
  /\ NumRegs \in Nat \ {0} /\ Last \in [1 .. NumRegs -> { n \in Nat : n >= 3 }]
  /\ MaxRestarts \in Nat

Regs == 1 .. NumRegs
Everyone == Procs \cup { Main }
NoTime == 0                     \* the zero mtime, and the fallback rules

VARIABLES
  disk,     \* the edition of each file
  mem,      \* what each registry holds: the mtime it took and what it parsed
  fresh,    \* lastPull is less than pullDebounce ago
  holder,   \* who holds reloadMu
  failed,   \* the last reload met a file that was missing, torn or broken
  pc, at,   \* where a goroutine is, and in which registry
  stat,     \* the mtime reparseLocked has taken
  got,      \* what it has read and parsed
  since,    \* the edition on disk when this create found the window expired
  restarts

vars == << disk, mem, fresh, holder, failed, pc, at, stat, got, since, restarts >>

Whole(e)   == e % 3 = 0
Missing(e) == e % 3 = 1
Torn(e)    == e % 3 = 2

\* yaml.Unmarshal and the checks of every rule; part of a file may be valid.
Parses(e) == IF Torn(e) THEN BOOLEAN ELSE { e \notin Broken }

\* Mutant: mtime is compared with the zero time, not with the file's.
HasTime(r) == mem[r].mtime # NoTime

\* The mtime guard of Reload.
Same(r) == mem[r].mtime = disk[r]

Init ==
  /\ disk = [r \in Regs |-> 3]
  /\ mem = [r \in Regs |-> [ mtime |-> NoTime, content |-> NoTime ]]
  /\ fresh = [r \in Regs |-> FALSE]
  /\ holder = [r \in Regs |-> None]
  /\ failed = [r \in Regs |-> FALSE]
  /\ pc = [p \in Everyone |-> IF p = Main THEN "down" ELSE "idle"]
  /\ at = [p \in Everyone |-> 1]
  /\ stat = [p \in Everyone |-> NoTime]
  /\ got = [p \in Everyone |-> NoTime]
  /\ since = [p \in Everyone |-> [r \in Regs |-> NoTime]]
  /\ restarts = 0

-----------------------------------------------------------------------------
(* The world outside: git, and the clock. *)

Checkout(r) ==
  /\ disk[r] < Last[r]
  /\ disk' = [disk EXCEPT ![r] = @ + 1]
  /\ UNCHANGED << mem, fresh, holder, failed, pc, at, stat, got, since, restarts >>

Expire(r) ==
  /\ fresh[r]
  /\ fresh' = [fresh EXCEPT ![r] = FALSE]
  /\ UNCHANGED << disk, mem, holder, failed, pc, at, stat, got, since, restarts >>

-----------------------------------------------------------------------------
(* Steps of a goroutine. *)

Up == pc[Main] = "up"

Goto(p, where) == pc' = [pc EXCEPT ![p] = where]

\* The return of Reload or of reparseLocked, with an error or without: the
\* deferred unlock, and on to the next registry.  Its variables are gone.
Return(p) ==
  LET r == at[p] IN
  /\ stat' = [stat EXCEPT ![p] = NoTime]
  /\ got' = [got EXCEPT ![p] = NoTime]
  /\ holder' = [holder EXCEPT ![r] = IF @ = p THEN None ELSE @]
  /\ IF r < NumRegs
     THEN /\ at' = [at EXCEPT ![p] = r + 1]
          /\ Goto(p, IF p = Main THEN "stat2" ELSE "window")
     ELSE /\ UNCHANGED at
          /\ Goto(p, IF p = Main THEN "up" ELSE "use")

\* An error that CreateTask ignores and that ends runServe.
Fail(p) ==
  /\ failed' = [failed EXCEPT ![at[p]] = TRUE]
  /\ IF p = Main THEN Goto(p, "down") /\ UNCHANGED << at, holder, stat, got >>
                 ELSE Return(p)

Create(p) ==
  /\ Up /\ p # Main /\ pc[p] = "idle"
  /\ Goto(p, "window")
  /\ UNCHANGED << disk, mem, fresh, holder, failed, at, stat, got, since, restarts >>

\* The fast path: has this registry pulled within the last minute?
Window(p) ==
  /\ pc[p] = "window"
  /\ IF fresh[at[p]]
     THEN Return(p) /\ UNCHANGED since
     ELSE /\ since' = [since EXCEPT ![p][at[p]] = disk[at[p]]]
          /\ Goto(p, "lock") /\ UNCHANGED << at, holder, stat, got >>
  /\ UNCHANGED << disk, mem, fresh, failed, restarts >>

\* Mutant: no single flight.
FreeAlways(r) == TRUE

Free(r) == holder[r] = None

\* reloadMu, and the second look at lastPull under it.
Lock(p) ==
  /\ pc[p] = "lock" /\ Free(at[p])
  /\ IF fresh[at[p]]
     THEN Return(p)
     ELSE /\ holder' = [holder EXCEPT ![at[p]] = p]
          /\ Goto(p, "pull") /\ UNCHANGED << at, stat, got >>
  /\ UNCHANGED << disk, mem, fresh, failed, since, restarts >>

\* git pull is over, well or not; lastPull is set in both cases.
Pulled(p) ==
  /\ pc[p] = "pull"
  /\ fresh' = [fresh EXCEPT ![at[p]] = TRUE]
  /\ Goto(p, "stat1")
  /\ UNCHANGED << disk, mem, holder, failed, at, stat, got, since, restarts >>

\* The Stat of Reload: no file, keep what there is; nothing new, nothing to do.
Guard(p) ==
  LET r == at[p] IN
  /\ pc[p] = "stat1"
  /\ \/ Missing(disk[r]) /\ Return(p) /\ failed' = [failed EXCEPT ![r] = TRUE]
     \/ Same(r) /\ Return(p) /\ failed' = [failed EXCEPT ![r] = FALSE]
     \/ /\ ~Missing(disk[r]) /\ ~Same(r)
        /\ Goto(p, "stat2") /\ UNCHANGED << at, holder, failed, stat, got >>
  /\ UNCHANGED << disk, mem, fresh, since, restarts >>

\* The Stat of reparseLocked: no file, no rules.
Stat(p) ==
  LET r == at[p] IN
  /\ pc[p] = "stat2"
  /\ \/ /\ Missing(disk[r])
        /\ mem' = [mem EXCEPT ![r] = [ mtime |-> NoTime, content |-> NoTime ]]
        /\ failed' = [failed EXCEPT ![r] = TRUE]
        /\ Return(p)
     \/ /\ ~Missing(disk[r])
        /\ stat' = [stat EXCEPT ![p] = disk[r]]
        /\ Goto(p, "read")
        /\ UNCHANGED << mem, failed, at, holder, got >>
  /\ UNCHANGED << disk, fresh, since, restarts >>

ReadFile(p) ==
  LET r == at[p] IN
  /\ pc[p] = "read"
  /\ \/ Missing(disk[r]) /\ Fail(p)
     \/ ~Missing(disk[r]) /\ FALSE \in Parses(disk[r]) /\ Fail(p)
     \/ /\ ~Missing(disk[r]) /\ TRUE \in Parses(disk[r])
        /\ got' = [got EXCEPT ![p] = disk[r]]
        /\ Goto(p, "install")
        /\ UNCHANGED << at, holder, failed, stat >>
  /\ UNCHANGED << disk, mem, fresh, since, restarts >>

\* Mutant: the mtime is taken when the rules are installed.
TakenLate(p) == [ mtime |-> disk[at[p]], content |-> got[p] ]

Taken(p) == [ mtime |-> stat[p], content |-> got[p] ]

Install(p) ==
  /\ pc[p] = "install"
  /\ mem' = [mem EXCEPT ![at[p]] = Taken(p)]
  /\ failed' = [failed EXCEPT ![at[p]] = FALSE]
  /\ Return(p)
  /\ UNCHANGED << disk, fresh, since, restarts >>

\* validate, resolveOwner and deriveWorkflow read both registries.
Use(p) ==
  /\ pc[p] = "use"
  /\ Goto(p, "idle")
  /\ at' = [at EXCEPT ![p] = 1]
  /\ since' = [since EXCEPT ![p] = [r \in Regs |-> NoTime]]
  /\ UNCHANGED << disk, mem, fresh, holder, failed, stat, got, restarts >>

-----------------------------------------------------------------------------
(* The process. *)

\* LoadTaskowners and LoadWorkflows, before anything listens.
Boot ==
  /\ pc[Main] = "down"
  /\ at' = [at EXCEPT ![Main] = 1]
  /\ Goto(Main, "stat2")
  /\ UNCHANGED << disk, mem, fresh, holder, failed, stat, got, since, restarts >>

\* Nothing of a registry outlives the process.
Restart ==
  /\ Up /\ restarts < MaxRestarts
  /\ restarts' = restarts + 1
  /\ mem' = [r \in Regs |-> [ mtime |-> NoTime, content |-> NoTime ]]
  /\ fresh' = [r \in Regs |-> FALSE]
  /\ holder' = [r \in Regs |-> None]
  /\ failed' = [r \in Regs |-> FALSE]
  /\ pc' = [p \in Everyone |-> IF p = Main THEN "down" ELSE "idle"]
  /\ at' = [p \in Everyone |-> 1]
  /\ stat' = [p \in Everyone |-> NoTime]
  /\ got' = [p \in Everyone |-> NoTime]
  /\ since' = [p \in Everyone |-> [r \in Regs |-> NoTime]]
  /\ UNCHANGED disk

Step(p) ==
  \/ Window(p) \/ Lock(p) \/ Pulled(p) \/ Guard(p) \/ Stat(p)
  \/ ReadFile(p) \/ Install(p) \/ Use(p)

Next ==
  \/ \E p \in Procs : Create(p)
  \/ \E p \in Everyone : Step(p)
  \/ \E r \in Regs : Checkout(r) \/ Expire(r)
  \/ Boot \/ Restart

Spec == Init /\ [][Next]_vars

-----------------------------------------------------------------------------
(* Properties. *)

UnderLock == { "pull", "stat1", "stat2", "read", "install" }

\* Every variable has its type, and whoever pulls, stats or reads for a create
\* holds reloadMu of that registry: no two do it at once.
TypeOK ==
  /\ disk \in [Regs -> Nat]
  /\ mem \in [Regs -> [ mtime : Nat, content : Nat ]]
  /\ fresh \in [Regs -> BOOLEAN] /\ failed \in [Regs -> BOOLEAN]
  /\ holder \in [Regs -> Procs \cup { None }]
  /\ pc \in [Everyone -> { "down", "up", "idle", "window", "lock", "pull",
                           "stat1", "stat2", "read", "install", "use" }]
  /\ at \in [Everyone -> Regs]
  /\ stat \in [Everyone -> Nat] /\ got \in [Everyone -> Nat]
  /\ since \in [Everyone -> [Regs -> Nat]]
  /\ \A p \in Procs : pc[p] \in UnderLock => holder[at[p]] = p
  /\ restarts \in 0 .. MaxRestarts

\* Whenever the mtime guard would skip a file, the registry holds just what is
\* in it, although the file may change between any two of the two Stats, the
\* read and the installation, and although a torn file may have been installed.
NothingIsMissed ==
  \A r \in Regs : Same(r) => mem[r].content = disk[r]

\* "freshly pushed rules take at most a minute to appear": a create that finds
\* the window expired, whoever then does the pull for it, works with rules that
\* are no older than the file was at that moment, unless the last reload of that
\* registry met a file that was missing, torn or broken.
FreshRulesApply ==
  \A p \in Procs, r \in Regs :
    pc[p] = "use" => mem[r].content >= since[p][r] \/ failed[r]

\* When the files have come to rest as whole valid ones and creates keep coming,
\* every registry ends up with its file for good: a torn or missing file that a
\* reload met on the way, a failed boot or a restart does no lasting harm.  All
\* files are meant: with one that does not parse no server starts.
CatchesUp ==
  <>[](\A r \in Regs : Whole(disk[r]) /\ disk[r] \notin Broken) =>
    <>[](\A r \in Regs : mem[r].content = disk[r])
=============================================================================
