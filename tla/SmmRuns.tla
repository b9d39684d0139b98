-------------------------------- MODULE SmmRuns --------------------------------
(***************************************************************************)
(* POST /smm/trigger and GET /smm/runs/{id}: a run is a process of its own *)
(* and a state file that the server and that process both write.           *)
(*                                                                         *)
(* The wrapper, scripts/smm-run.sh, is not in the repository.  What it     *)
(* does is taken from the comments of store.go: it flips the file from     *)
(* queued to running before the job and to done or failed after it, and it *)
(* may be killed at any point.  Whether it puts its PID into the file or   *)
(* keeps the one it finds is left open.                                    *)
(*                                                                         *)
(* os.WriteFile truncates the file and then writes it, so a reader may     *)
(* find it empty; when both sides write at the same time either content,   *)
(* or a mixture that does not parse, may be what stays.                    *)
(***************************************************************************)
EXTENDS Naturals

CONSTANTS
  Procs,       \* goroutines that serve requests
  Runs,        \* run ids; randomHex8 makes each one new
  MaxRestarts  \* bounds the restarts of the server

VARIABLES
  file,     \* the state file of each run
  wrapper,  \* the process of each run
  said,     \* the last status the wrapper has written
  overlap,  \* the wrapper wrote while a request was about to
  cut,      \* the server ended between truncating the file and writing it
  pc, run,  \* where a goroutine is, and for which run
  seen,     \* what a poll has read, and then what it answers
  restarts

vars == << file, wrapper, said, overlap, cut, pc, run, seen, restarts >>

Statuses == { "queued", "running", "done", "failed" }

\* SMMRunState: exit is 0 or the code of the job ("own"), -1 ("lost"), absent.
State == [ status : Statuses, pid : BOOLEAN, exit : { "none", "own", "lost" } ]

Absent     == [ status |-> "absent", pid |-> FALSE, exit |-> "none" ]
Unreadable == [ status |-> "unreadable", pid |-> FALSE, exit |-> "none" ]

Queued(pid) == [ status |-> "queued", pid |-> pid, exit |-> "none" ]

Init ==
  /\ file = [r \in Runs |-> Absent]
  /\ wrapper = [r \in Runs |-> "none"]
  /\ said = [r \in Runs |-> "nothing"]
  /\ overlap = [r \in Runs |-> FALSE]
  /\ cut = [r \in Runs |-> FALSE]
  /\ pc = [p \in Procs |-> "idle"]
  /\ run \in [Procs -> Runs]
  /\ seen = [p \in Procs |-> Absent]
  /\ restarts = 0

\* os.WriteFile, second half; two polls write the same, and as much.
Written(r, content) ==
  IF file[r] \in { Unreadable, content } THEN { content }
  ELSE { content, file[r], Unreadable }

Goto(p, where) == pc' = [pc EXCEPT ![p] = where]

Truncate(p, next) ==
  /\ file' = [file EXCEPT ![run[p]] = Unreadable]
  /\ Goto(p, next)
  /\ UNCHANGED << wrapper, said, overlap, cut, run, seen, restarts >>

-----------------------------------------------------------------------------
(* TriggerSMM. *)

\* Checks of job and parameters, git pull and MkdirAll are over.
Trigger(p, r) ==
  /\ pc[p] = "idle" /\ file[r] = Absent
  /\ \A q \in Procs : run[q] = r => pc[q] \notin { "seed", "seeding" }
  /\ run' = [run EXCEPT ![p] = r]
  /\ Goto(p, "seed")
  /\ UNCHANGED << file, wrapper, said, overlap, cut, seen, restarts >>

Seed(p) == pc[p] = "seed" /\ Truncate(p, "seeding")

Seeded(p) ==
  /\ pc[p] = "seeding"
  /\ file' = [file EXCEPT ![run[p]] = Queued(FALSE)]
  /\ Goto(p, "start")
  /\ UNCHANGED << wrapper, said, overlap, cut, run, seen, restarts >>

Start(p) ==
  /\ pc[p] = "start"
  /\ wrapper' = [wrapper EXCEPT ![run[p]] = "started"]
  /\ Goto(p, "pid")
  /\ UNCHANGED << file, said, overlap, cut, run, seen, restarts >>

\* The log cannot be created or the wrapper cannot be started: 500, and the
\* state file stays as it is.
StartFails(p) ==
  /\ pc[p] = "start"
  /\ Goto(p, "idle")
  /\ UNCHANGED << file, wrapper, said, overlap, cut, run, seen, restarts >>

Pid(p) == pc[p] = "pid" /\ Truncate(p, "piding")

\* The seed again, with the PID; after it cmd.Wait runs, and the answer is 202.
Pidded(p) ==
  /\ pc[p] = "piding"
  /\ \E f \in Written(run[p], Queued(TRUE)) : file' = [file EXCEPT ![run[p]] = f]
  /\ Goto(p, "idle")
  /\ UNCHANGED << wrapper, said, overlap, cut, run, seen, restarts >>

-----------------------------------------------------------------------------
(* GetSMMRun. *)

\* Mutant: the PID is probed whatever the status is.
WatchesAll(st) == st.pid

\* Mutant: the watchdog looks after runs that have not begun.
WatchesQueued(st) == st.status = "queued" /\ st.pid

Watches(st) == st.status = "running" /\ st.pid

\* 404 when there is no file, 500 when it does not parse.
Poll(p, r) ==
  /\ pc[p] = "idle"
  /\ run' = [run EXCEPT ![p] = r]
  /\ seen' = [seen EXCEPT ![p] = file[r]]
  /\ Goto(p, IF Watches(file[r]) THEN "probe" ELSE "reply")
  /\ UNCHANGED << file, wrapper, said, overlap, cut, restarts >>

\* kill -0 finds a process until it has been waited for, which the trigger's
\* goroutine begins after its last write and init does when the server is gone.
Gone(r) ==
  /\ wrapper[r] = "dead"
  /\ \A p \in Procs : run[p] = r => pc[p] \notin { "pid", "piding" }

Lost == [ status |-> "failed", pid |-> TRUE, exit |-> "lost" ]

Probe(p) ==
  /\ pc[p] = "probe"
  /\ IF Gone(run[p])
     THEN seen' = [seen EXCEPT ![p] = Lost] /\ Goto(p, "mark")
     ELSE UNCHANGED seen /\ Goto(p, "reply")
  /\ UNCHANGED << file, wrapper, said, overlap, cut, run, restarts >>

Mark(p) == pc[p] = "mark" /\ Truncate(p, "marking")

Marked(p) ==
  /\ pc[p] = "marking"
  /\ \E f \in Written(run[p], Lost) : file' = [file EXCEPT ![run[p]] = f]
  /\ Goto(p, "reply")
  /\ UNCHANGED << wrapper, said, overlap, cut, run, seen, restarts >>

\* The log tail is read and the state is sent.
Reply(p) ==
  /\ pc[p] = "reply"
  /\ seen' = [seen EXCEPT ![p] = Absent]
  /\ Goto(p, "idle")
  /\ UNCHANGED << file, wrapper, said, overlap, cut, run, restarts >>

-----------------------------------------------------------------------------
(* The wrapper. *)

\* Requests that have looked at the file, or written it, and will write it again.
AboutToWrite(r) ==
  \E p \in Procs :
    run[p] = r /\ pc[p] \in { "pid", "piding", "probe", "mark", "marking" }

Says(r, status, exit) ==
  /\ \E pid \in { TRUE, file[r].pid } :
       file' = [file EXCEPT ![r] = [ status |-> status, pid |-> pid, exit |-> exit ]]
  /\ said' = [said EXCEPT ![r] = status]
  /\ overlap' = [overlap EXCEPT ![r] = @ \/ AboutToWrite(r)]
  /\ UNCHANGED << cut, pc, run, seen, restarts >>

Begins(r) ==
  /\ wrapper[r] = "started"
  /\ wrapper' = [wrapper EXCEPT ![r] = "running"]
  /\ Says(r, "running", "none")

Finishes(r) ==
  /\ wrapper[r] = "running"
  /\ wrapper' = [wrapper EXCEPT ![r] = "finished"]
  /\ \E status \in { "done", "failed" } : Says(r, status, "own")

\* It has come to its end, or it is killed.
Exits(r) ==
  /\ wrapper[r] \in { "started", "running", "finished" }
  /\ wrapper' = [wrapper EXCEPT ![r] = "dead"]
  /\ UNCHANGED << file, said, overlap, cut, pc, run, seen, restarts >>

-----------------------------------------------------------------------------
\* The requests end where they are; setsid keeps the wrapper alive.
Restart ==
  /\ restarts < MaxRestarts
  /\ restarts' = restarts + 1
  /\ cut' = [r \in Runs |-> cut[r] \/
       \E p \in Procs : run[p] = r /\ pc[p] \in { "seeding", "piding", "marking" }]
  /\ pc' = [p \in Procs |-> "idle"]
  /\ seen' = [p \in Procs |-> Absent]
  /\ UNCHANGED << file, wrapper, said, overlap, run >>

Step(p) ==
  \/ Seed(p) \/ Seeded(p) \/ Start(p) \/ StartFails(p) \/ Pid(p) \/ Pidded(p)
  \/ Probe(p) \/ Mark(p) \/ Marked(p) \/ Reply(p)

Live(r) == Begins(r) \/ Finishes(r) \/ Exits(r)

Next ==
  \/ \E p \in Procs, r \in Runs : Trigger(p, r) \/ Poll(p, r)
  \/ \E p \in Procs : Step(p)
  \/ \E r \in Runs : Live(r)
  \/ Restart

Fairness ==
  /\ \A p \in Procs : WF_vars(Step(p))
  /\ \A r \in Runs : WF_vars(Live(r)) /\ SF_vars(\E p \in Procs : Poll(p, r))

Spec == Init /\ [][Next]_vars /\ Fairness

-----------------------------------------------------------------------------
(* Properties. *)

\* Every variable has its type, and a state that the server made up says so.
TypeOK ==
  /\ file \in [Runs -> State \cup { Absent, Unreadable }]
  /\ wrapper \in [Runs -> { "none", "started", "running", "finished", "dead" }]
  /\ said \in [Runs -> { "nothing", "running", "done", "failed" }]
  /\ overlap \in [Runs -> BOOLEAN] /\ cut \in [Runs -> BOOLEAN]
  /\ run \in [Procs -> Runs] /\ seen \in [Procs -> State \cup { Absent, Unreadable }]
  /\ pc \in [Procs -> { "idle", "seed", "seeding", "start", "pid", "piding",
                        "probe", "mark", "marking", "reply" }]
  /\ \A r \in Runs : file[r].exit = "lost" => file[r] = Lost
  /\ restarts \in Nat

BeingWritten(r) ==
  \E p \in Procs : run[p] = r /\ pc[p] \in { "pid", "piding", "marking" }

\* "Only the wrapper writes; the server only reads" is not so.  What remains of
\* it: the file shows the last word of the wrapper, or that the wrapper died at
\* the word "running", unless a request was about to write when the wrapper did,
\* or the server ended inside a write of its own.
LastWordStands ==
  \A r \in Runs :
    said[r] # "nothing" /\ ~BeingWritten(r) /\ ~overlap[r] /\ ~cut[r] =>
      \/ file[r].status = said[r]
      \/ file[r] = Lost /\ said[r] = "running" /\ wrapper[r] = "dead"

\* A run that has begun is shown as done or failed some day, be its wrapper
\* killed or the server restarted, with the same exceptions and one more: the
\* file has no PID, because the server ended before it had written one.
RunEnds ==
  \A r \in Runs :
    said[r] = "running" ~>
      \/ file[r].status \in { "done", "failed" }
      \/ overlap[r] \/ cut[r]
      \/ restarts > 0 /\ file[r].status = "running" /\ ~file[r].pid
=============================================================================
