---------------------------- MODULE SmmRuns_proofs ----------------------------
(* Proofs about SmmRuns, for any goroutines, runs and number of restarts. *)
EXTENDS SmmRuns, TLAPS

Triggering == { "seed", "seeding", "start", "pid", "piding" }
Places == Triggering \cup { "idle", "probe", "mark", "marking", "reply" }

(***************************************************************************)
(* Who may be where.  A run id has one trigger, which has not started the  *)
(* wrapper before "pid"; a poll marks only what is dead.                   *)
(***************************************************************************)
OneTrigger ==
  \A p, q \in Procs :
    run[p] = run[q] /\ pc[p] \in Triggering /\ pc[q] \in Triggering => p = q

Placed(p) ==
  /\ pc[p] \in { "seed", "seeding", "start" } => wrapper[run[p]] = "none"
  /\ pc[p] = "seed" => file[run[p]] = Absent
  /\ pc[p] \in { "seeding", "start", "pid", "piding" } => file[run[p]] # Absent
  /\ pc[p] \in { "mark", "marking" } => wrapper[run[p]] = "dead"

Grown(r) ==
  /\ wrapper[r] # "none" => file[r] # Absent
  /\ wrapper[r] \in { "none", "started" } => said[r] = "nothing"

PlaceInv ==
  /\ TypeOK /\ OneTrigger
  /\ \A p \in Procs : Placed(p)
  /\ \A r \in Runs : Grown(r)

(***************************************************************************)
(* What the file shows while nothing has written across a write.           *)
(***************************************************************************)
Clean(r) == ~overlap[r] /\ ~cut[r]
Marking(r) == \E p \in Procs : run[p] = r /\ pc[p] = "marking"

Knows(p) ==
  Clean(run[p]) =>
    /\ pc[p] \in { "pid", "piding" } => said[run[p]] = "nothing"
    /\ pc[p] \in { "probe", "mark", "marking" } => said[run[p]] = "running"

Shows(r) ==
  Clean(r) =>
    /\ said[r] = "nothing" => file[r].status \in { "absent", "unreadable", "queued" }
    /\ said[r] # "nothing" /\ Marking(r) => file[r] \in { Unreadable, Lost }
    /\ said[r] # "nothing" /\ ~Marking(r) =>
         \/ file[r].status = said[r]
         \/ file[r] = Lost /\ said[r] = "running" /\ wrapper[r] = "dead"

ShowInv == (\A p \in Procs : Knows(p)) /\ (\A r \in Runs : Shows(r))

USE DEF Absent, Unreadable, Lost, Queued

LEMMA InitHolds == Init => PlaceInv /\ ShowInv
<1> SUFFICES ASSUME Init PROVE PlaceInv /\ ShowInv
  OBVIOUS
<1>1. TypeOK
  BY DEF Init, TypeOK
<1>2. OneTrigger /\ \A p \in Procs : Placed(p) /\ Knows(p)
  BY DEF Init, OneTrigger, Placed, Knows, Triggering
<1>3. \A r \in Runs : Grown(r) /\ Shows(r)
  BY DEF Init, Grown, Shows
<1> QED
  BY <1>1, <1>2, <1>3 DEF PlaceInv, ShowInv

\* What a step of goroutine p does to everything but the file and the wrapper.
LEMMA Others ==
  ASSUME PlaceInv, NEW p \in Procs, NEW w, pc' = [pc EXCEPT ![p] = w]
  PROVE  pc'[p] = w /\ \A q \in Procs \ { p } : pc'[q] = pc[q]
BY DEF PlaceInv, TypeOK

LEMMA WrittenIs ==
  ASSUME PlaceInv, NEW r \in Runs, NEW c \in State, c.exit = "lost" => c = Lost,
         NEW f \in Written(r, c)
  PROVE  /\ f \in State \cup { Absent, Unreadable }
         /\ f.exit = "lost" => f = Lost
         /\ f \in { c, file[r], Unreadable }
         /\ file[r] \in { Unreadable, c } => f = c
BY DEF PlaceInv, TypeOK, Written

LEMMA TriggerHolds ==
  ASSUME PlaceInv, ShowInv, NEW p \in Procs,
         \E r \in Runs : Trigger(p, r)
  PROVE  PlaceInv' /\ ShowInv'
<1> PICK r \in Runs : Trigger(p, r)
  OBVIOUS
<1>1. /\ pc[p] = "idle" /\ file[r] = Absent /\ run' = [run EXCEPT ![p] = r]
      /\ pc' = [pc EXCEPT ![p] = "seed"]
      /\ \A q \in Procs : run[q] = r => pc[q] \notin { "seed", "seeding" }
      /\ UNCHANGED << file, wrapper, said, overlap, cut, seen, restarts >>
  BY DEF Trigger, Goto
<1>2. /\ pc'[p] = "seed" /\ run'[p] = r
      /\ \A q \in Procs \ { p } : pc'[q] = pc[q] /\ run'[q] = run[q]
  BY <1>1 DEF PlaceInv, TypeOK
<1>3. TypeOK'
  BY <1>1 DEF PlaceInv, TypeOK
<1>4. \A q \in Procs \ { p } : run[q] = r => pc[q] \notin Triggering
  BY <1>1 DEF PlaceInv, Placed, Triggering
<1>5. OneTrigger'
  BY <1>2, <1>4 DEF PlaceInv, OneTrigger
<1>6. (\A q \in Procs : Placed(q)') /\ (\A s \in Runs : Grown(s)')
  BY <1>1, <1>2 DEF PlaceInv, Placed, Grown, TypeOK
<1>7. \A q \in Procs : Knows(q)'
  BY <1>1, <1>2 DEF ShowInv, Knows, Clean
<1>8. \A s \in Runs : Shows(s)'
  <2>1. \A s \in Runs : Marking(s)' <=> Marking(s)
    BY <1>1, <1>2 DEF Marking
  <2> QED
    BY <1>1, <2>1 DEF ShowInv, Shows, Clean
<1> QED
  BY <1>3, <1>5, <1>6, <1>7, <1>8 DEF PlaceInv, ShowInv

\* A step of p changes the file and the process of its own run only.
LEMMA OwnRun ==
  ASSUME PlaceInv, ShowInv, NEW p \in Procs, NEW w \in Places,
         pc' = [pc EXCEPT ![p] = w], w \in Triggering => pc[p] \in Triggering,
         file' \in [Runs -> State \cup { Absent, Unreadable }],
         file'[run[p]].exit = "lost" => file'[run[p]] = Lost,
         wrapper' \in [Runs -> { "none", "started", "running", "finished", "dead" }],
         \A r \in Runs \ { run[p] } : file'[r] = file[r] /\ wrapper'[r] = wrapper[r],
         UNCHANGED << run, said, overlap, cut, restarts >>,
         seen' \in [Procs -> State \cup { Absent, Unreadable }],
         \A q \in Procs : run[q] = run[p] => Placed(q)',
         Grown(run[p])', Knows(p)', Shows(run[p])'
  PROVE  PlaceInv' /\ ShowInv'
<1>1. /\ run[p] \in Runs /\ pc'[p] = w /\ \A q \in Procs \ { p } : pc'[q] = pc[q]
  BY DEF PlaceInv, TypeOK
<1>2. TypeOK'
  <2>1. pc' \in [Procs -> { "idle", "seed", "seeding", "start", "pid", "piding",
                             "probe", "mark", "marking", "reply" }]
    BY DEF PlaceInv, TypeOK, Places, Triggering
  <2>2. \A r \in Runs : file'[r].exit = "lost" => file'[r] = Lost
    BY <1>1 DEF PlaceInv, TypeOK
  <2> QED
    BY <1>1, <2>1, <2>2 DEF PlaceInv, TypeOK
<1>3. OneTrigger'
  BY <1>1 DEF PlaceInv, OneTrigger
<1>4. \A q \in Procs : Placed(q)'
  <2> SUFFICES ASSUME NEW q \in Procs, run[q] # run[p] PROVE Placed(q)'
    OBVIOUS
  <2> QED
    BY <1>1 DEF PlaceInv, TypeOK, Placed
<1>5. \A r \in Runs : Grown(r)'
  BY <1>1 DEF PlaceInv, Grown
<1>6. \A q \in Procs : Knows(q)'
  BY <1>1 DEF ShowInv, Knows, Clean
<1>7. \A r \in Runs : Shows(r)'
  <2> SUFFICES ASSUME NEW r \in Runs, r # run[p] PROVE Shows(r)'
    OBVIOUS
  <2>1. Marking(r)' <=> Marking(r)
    BY <1>1 DEF Marking
  <2> QED
    BY <1>1, <2>1 DEF ShowInv, Shows, Clean
<1> QED
  BY <1>2, <1>3, <1>4, <1>5, <1>6, <1>7 DEF PlaceInv, ShowInv

LEMMA StepHolds ==
  ASSUME PlaceInv, ShowInv, NEW p \in Procs, Step(p)
  PROVE  PlaceInv' /\ ShowInv'
<1> DEFINE r == run[p]
<1>0. r \in Runs /\ file[r] \in State \cup { Absent, Unreadable }
      /\ (file[r].exit = "lost" => file[r] = Lost)
  BY DEF PlaceInv, TypeOK
<1>1. CASE Seed(p) \/ Pid(p) \/ Mark(p)
  <2>1. PICK w \in { "seeding", "piding", "marking" } :
          /\ pc[p] = (CASE w = "seeding" -> "seed" [] w = "piding" -> "pid" [] OTHER -> "mark")
          /\ pc' = [pc EXCEPT ![p] = w] /\ file' = [file EXCEPT ![r] = Unreadable]
          /\ UNCHANGED << wrapper, said, overlap, cut, run, seen, restarts >>
    BY <1>1 DEF Seed, Pid, Mark, Truncate, Goto
  <2>2. pc'[p] = w /\ \A q \in Procs \ { p } : pc'[q] = pc[q]
    BY <2>1, Others
  <2>3. /\ file'[r] = Unreadable /\ \A s \in Runs \ { r } : file'[s] = file[s]
        /\ file' \in [Runs -> State \cup { Absent, Unreadable }]
    BY <1>0, <2>1 DEF PlaceInv, TypeOK
  <2>4. \A q \in Procs : run[q] = r => Placed(q)'
    <3> SUFFICES ASSUME NEW q \in Procs, run[q] = r PROVE Placed(q)'
      OBVIOUS
    <3>1. CASE q = p
      BY <2>1, <2>2, <2>3, <3>1 DEF PlaceInv, Placed
    <3>2. CASE q # p
      <4>1. pc[q] # "seed"
        BY <2>1, <3>2 DEF PlaceInv, OneTrigger, Placed, Triggering
      <4> QED
        BY <2>1, <2>2, <2>3, <3>2, <4>1 DEF PlaceInv, Placed
    <3> QED
      BY <3>1, <3>2
  <2>5. Grown(r)' /\ Knows(p)'
    BY <1>0, <2>1, <2>2, <2>3 DEF PlaceInv, Grown, ShowInv, Knows, Clean
  <2>6. Shows(r)'
    <3>1. Clean(r) => w = "marking" \/ said[r] = "nothing"
      BY <1>0, <2>1 DEF PlaceInv, Placed, Grown, ShowInv, Knows
    <3>2. w = "marking" => Marking(r)'
      BY <2>1, <2>2 DEF Marking
    <3> QED
      BY <2>1, <2>3, <3>1, <3>2 DEF Shows, Clean
  <2> QED
    BY <2>1, <2>2, <2>3, <2>4, <2>5, <2>6, OwnRun DEF PlaceInv, TypeOK, Places, Triggering
<1>2. CASE StartFails(p) \/ Probe(p) \/ Reply(p)
  <2>1. PICK w \in { "idle", "mark", "reply" } :
          /\ pc' = [pc EXCEPT ![p] = w]
          /\ w = "mark" => pc[p] = "probe" /\ wrapper[r] = "dead"
          /\ UNCHANGED << file, wrapper, said, overlap, cut, run, restarts >>
          /\ pc[p] # "marking"
    BY <1>2 DEF StartFails, Probe, Reply, Gone, Goto
  <2>2. pc'[p] = w /\ \A q \in Procs \ { p } : pc'[q] = pc[q]
    BY <2>1, Others
  <2>3. seen' \in [Procs -> State \cup { Absent, Unreadable }]
    <3>1. Absent \in State \cup { Absent, Unreadable } /\ Lost \in State
      BY DEF State, Statuses
    <3> QED
      BY <1>2, <3>1 DEF StartFails, Probe, Reply, PlaceInv, TypeOK
  <2>4. \A q \in Procs : run[q] = r => Placed(q)'
    BY <2>1, <2>2 DEF PlaceInv, Placed
  <2>5. Grown(r)' /\ Knows(p)'
    BY <1>0, <2>1, <2>2 DEF PlaceInv, Grown, ShowInv, Knows, Clean
  <2>6. Shows(r)'
    <3>1. Marking(r)' <=> Marking(r)
      BY <2>1, <2>2 DEF Marking
    <3> QED
      BY <1>0, <2>1, <3>1 DEF ShowInv, Shows, Clean
  <2> QED
    BY <1>0, <2>1, <2>2, <2>3, <2>4, <2>5, <2>6, OwnRun DEF PlaceInv, TypeOK, Places, Triggering
<1>3. CASE Seeded(p)
  <2>1. /\ pc[p] = "seeding" /\ pc' = [pc EXCEPT ![p] = "start"]
        /\ file' = [file EXCEPT ![r] = Queued(FALSE)]
        /\ UNCHANGED << wrapper, said, overlap, cut, run, seen, restarts >>
    BY <1>3 DEF Seeded, Goto
  <2>2. pc'[p] = "start" /\ \A q \in Procs \ { p } : pc'[q] = pc[q]
    BY <2>1, Others
  <2>3. Queued(FALSE) \in State /\ Queued(FALSE) # Absent
    BY DEF State, Statuses
  <2>4. /\ file'[r] = Queued(FALSE) /\ \A s \in Runs \ { r } : file'[s] = file[s]
        /\ file' \in [Runs -> State \cup { Absent, Unreadable }]
    BY <1>0, <2>1, <2>3 DEF PlaceInv, TypeOK
  <2>5. \A q \in Procs : run[q] = r => Placed(q)'
    <3> SUFFICES ASSUME NEW q \in Procs, run[q] = r PROVE Placed(q)'
      OBVIOUS
    <3>1. CASE q = p
      BY <2>1, <2>2, <2>3, <2>4, <3>1 DEF PlaceInv, Placed
    <3>2. CASE q # p
      <4>1. pc[q] # "seed"
        BY <2>1, <3>2 DEF PlaceInv, OneTrigger, Triggering
      <4> QED
        BY <2>1, <2>2, <2>3, <2>4, <3>2, <4>1 DEF PlaceInv, Placed
    <3> QED
      BY <3>1, <3>2
  <2>6. said[r] = "nothing"
    BY <1>0, <2>1 DEF PlaceInv, Placed, Grown
  <2>7. Grown(r)' /\ Knows(p)' /\ Shows(r)'
    BY <1>0, <2>1, <2>2, <2>3, <2>4, <2>6 DEF PlaceInv, Grown, Knows, Shows
  <2> QED
    BY <1>0, <2>1, <2>2, <2>4, <2>5, <2>7, OwnRun DEF PlaceInv, TypeOK, Places, Triggering
<1>4. CASE Start(p)
  <2>1. /\ pc[p] = "start" /\ pc' = [pc EXCEPT ![p] = "pid"]
        /\ wrapper' = [wrapper EXCEPT ![r] = "started"]
        /\ UNCHANGED << file, said, overlap, cut, run, seen, restarts >>
    BY <1>4 DEF Start, Goto
  <2>2. pc'[p] = "pid" /\ \A q \in Procs \ { p } : pc'[q] = pc[q]
    BY <2>1, Others
  <2>3. /\ wrapper[r] = "none" /\ wrapper'[r] = "started" /\ said[r] = "nothing"
        /\ wrapper' \in [Runs -> { "none", "started", "running", "finished", "dead" }]
        /\ \A s \in Runs \ { r } : wrapper'[s] = wrapper[s]
    BY <1>0, <2>1 DEF PlaceInv, TypeOK, Placed, Grown
  <2>4. \A q \in Procs : run[q] = r => Placed(q)'
    <3> SUFFICES ASSUME NEW q \in Procs, run[q] = r PROVE Placed(q)'
      OBVIOUS
    <3>1. CASE q = p
      BY <2>1, <2>2, <3>1 DEF PlaceInv, Placed
    <3>2. CASE q # p
      <4>1. pc[q] \notin Triggering
        BY <2>1, <3>2 DEF PlaceInv, OneTrigger, Triggering
      <4> QED
        BY <2>1, <2>2, <2>3, <3>2, <4>1 DEF PlaceInv, Placed, Triggering
    <3> QED
      BY <3>1, <3>2
  <2>5. Grown(r)' /\ Knows(p)'
    BY <1>0, <2>1, <2>2, <2>3 DEF PlaceInv, Placed, Grown, Knows
  <2>6. Shows(r)'
    BY <1>0, <2>1, <2>3 DEF ShowInv, Shows, Clean
  <2> QED
    BY <1>0, <2>1, <2>2, <2>3, <2>4, <2>5, <2>6, OwnRun DEF PlaceInv, TypeOK, Places, Triggering
<1>5. CASE Pidded(p) \/ Marked(p)
  <2>0. PICK c \in { Queued(TRUE), Lost } :
          /\ \E f \in Written(r, c) : file' = [file EXCEPT ![r] = f]
          /\ pc' = [pc EXCEPT ![p] = IF c = Lost THEN "reply" ELSE "idle"]
          /\ pc[p] = IF c = Lost THEN "marking" ELSE "piding"
          /\ UNCHANGED << wrapper, said, overlap, cut, run, seen, restarts >>
    BY <1>5 DEF Pidded, Marked, Goto
  <2>1. PICK f \in Written(r, c) : file' = [file EXCEPT ![r] = f]
    BY <2>0
  <2>2. pc'[p] \in { "idle", "reply" } /\ \A q \in Procs \ { p } : pc'[q] = pc[q]
    BY <2>0, <2>1, Others
  <2>3. c \in State /\ c # Absent /\ (c.exit = "lost" => c = Lost)
    <3>1. Queued(TRUE) \in State /\ Queued(TRUE) # Absent /\ Queued(TRUE).exit = "none"
      BY DEF State, Statuses
    <3>2. Lost \in State /\ Lost # Absent
      BY DEF State, Statuses
    <3> QED
      BY <3>1, <3>2
  <2>4. /\ f \in State \cup { Absent, Unreadable } /\ (f.exit = "lost" => f = Lost)
        /\ f \in { c, file[r], Unreadable }
        /\ file[r] \in { Unreadable, c } => f = c
    BY <1>0, <2>3, WrittenIs
  <2>5. /\ file'[r] = f /\ \A s \in Runs \ { r } : file'[s] = file[s]
        /\ file' \in [Runs -> State \cup { Absent, Unreadable }]
    BY <1>0, <2>0, <2>1, <2>4 DEF PlaceInv, TypeOK
  <2>6. file[r] # Absent /\ f # Absent
    <3>1. file[r] # Absent
      <4>1. CASE pc[p] = "piding"
        BY <4>1 DEF PlaceInv, Placed
      <4>2. CASE pc[p] = "marking"
        BY <1>0, <4>2 DEF PlaceInv, Placed, Grown
      <4> QED
        BY <2>0, <4>1, <4>2
    <3>2. Unreadable # Absent
      <4>1. Unreadable.status = "unreadable" /\ Absent.status = "absent"
        OBVIOUS
      <4> QED
        BY <4>1
    <3> QED
      BY <2>3, <2>4, <3>1, <3>2
  <2>7. \A q \in Procs : run[q] = r => Placed(q)'
    BY <2>0, <2>1, <2>2, <2>5, <2>6 DEF PlaceInv, Placed
  <2>8. Grown(r)' /\ Knows(p)'
    BY <1>0, <2>0, <2>1, <2>2, <2>5, <2>6 DEF PlaceInv, Grown, Knows
  <2>9. Shows(r)'
    <3>1. CASE c = Lost
      <4>1. Marking(r) /\ wrapper[r] = "dead" /\ (Clean(r) => said[r] = "running")
        BY <1>0, <2>0, <2>1, <3>1 DEF PlaceInv, Placed, ShowInv, Knows, Marking
      <4>2. Clean(r) => f = Lost
        BY <1>0, <2>4, <3>1, <4>1 DEF ShowInv, Shows
      <4> QED
        BY <2>0, <2>1, <2>5, <4>1, <4>2 DEF Shows, Clean
    <3>2. CASE c # Lost
      <4>1. Clean(r) => said[r] = "nothing"
        BY <1>0, <2>0, <2>1, <3>2 DEF ShowInv, Knows
      <4>2. Clean(r) => f.status \in { "absent", "unreadable", "queued" }
        BY <1>0, <2>0, <2>1, <2>4, <3>2, <4>1 DEF ShowInv, Shows
      <4> QED
        BY <2>0, <2>1, <2>5, <4>1, <4>2 DEF Shows, Clean
    <3> QED
      BY <3>1, <3>2
  <2> QED
    BY <1>0, <2>0, <2>1, <2>2, <2>4, <2>5, <2>7, <2>8, <2>9, OwnRun
    DEF PlaceInv, TypeOK, Places, Triggering
<1> QED
  BY <1>1, <1>2, <1>3, <1>4, <1>5 DEF Step

LEMMA PollHolds ==
  ASSUME PlaceInv, ShowInv, NEW p \in Procs, NEW r \in Runs, Poll(p, r)
  PROVE  PlaceInv' /\ ShowInv'
<1>1. PICK w \in { "probe", "reply" } :
        /\ pc[p] = "idle" /\ pc' = [pc EXCEPT ![p] = w] /\ run' = [run EXCEPT ![p] = r]
        /\ w = "probe" => file[r].status = "running"
        /\ UNCHANGED << file, wrapper, said, overlap, cut, restarts >>
  BY DEF Poll, Goto, Watches
<1>2. /\ pc'[p] = w /\ run'[p] = r
      /\ \A q \in Procs \ { p } : pc'[q] = pc[q] /\ run'[q] = run[q]
  BY <1>1 DEF PlaceInv, TypeOK
<1>3. TypeOK'
  <2>1. seen' \in [Procs -> State \cup { Absent, Unreadable }]
    BY DEF Poll, PlaceInv, TypeOK
  <2> QED
    BY <1>1, <2>1 DEF PlaceInv, TypeOK
<1>4. OneTrigger' /\ \A q \in Procs : Placed(q)'
  BY <1>1, <1>2 DEF PlaceInv, OneTrigger, Placed, Triggering
<1>5. \A s \in Runs : Grown(s)' /\ Shows(s)'
  <2>1. \A s \in Runs : Marking(s)' <=> Marking(s)
    BY <1>1, <1>2 DEF Marking
  <2> QED
    BY <1>1, <2>1 DEF PlaceInv, Grown, ShowInv, Shows, Clean
<1>6. Clean(r) /\ w = "probe" => said[r] = "running"
  <2> SUFFICES ASSUME Clean(r), file[r].status = "running" PROVE said[r] = "running"
    BY <1>1
  <2>1. Unreadable.status = "unreadable" /\ Lost.status = "failed"
    OBVIOUS
  <2> QED
    BY <2>1 DEF ShowInv, Shows
<1>7. \A q \in Procs : Knows(q)'
  BY <1>1, <1>2, <1>6 DEF ShowInv, Knows, Clean
<1> QED
  BY <1>3, <1>4, <1>5, <1>7 DEF PlaceInv, ShowInv

LEMMA SaysHolds ==
  ASSUME PlaceInv, ShowInv, NEW r \in Runs,
         \/ Begins(r)
         \/ Finishes(r)
  PROVE  PlaceInv' /\ ShowInv'
<1>1. PICK st \in { "running", "done", "failed" }, x \in { "running", "finished" },
           e \in { "none", "own" }, pid \in BOOLEAN :
        /\ wrapper[r] \in { "started", "running" } /\ wrapper' = [wrapper EXCEPT ![r] = x]
        /\ file' = [file EXCEPT ![r] = [ status |-> st, pid |-> pid, exit |-> e ]]
        /\ said' = [said EXCEPT ![r] = st]
        /\ overlap' = [overlap EXCEPT ![r] = overlap[r] \/ AboutToWrite(r)]
        /\ UNCHANGED << cut, pc, run, seen, restarts >>
  <2>1. file[r].pid \in BOOLEAN
    <3>1. file[r] \in State \/ file[r] = Absent \/ file[r] = Unreadable
      BY DEF PlaceInv, TypeOK
    <3>2. Absent.pid = FALSE /\ Unreadable.pid = FALSE
      OBVIOUS
    <3> QED
      BY <3>1, <3>2 DEF State
  <2> QED
    BY <2>1 DEF Begins, Finishes, Says
<1>2. /\ file'[r] = [ status |-> st, pid |-> pid, exit |-> e ] /\ wrapper'[r] = x
      /\ said'[r] = st /\ (overlap'[r] <=> overlap[r] \/ AboutToWrite(r))
      /\ \A s \in Runs \ { r } : /\ file'[s] = file[s] /\ wrapper'[s] = wrapper[s]
                                 /\ said'[s] = said[s] /\ overlap'[s] = overlap[s]
  BY <1>1 DEF PlaceInv, TypeOK
<1>3. file'[r] \in State /\ file'[r] # Absent /\ file'[r].exit # "lost"
      /\ file'[r].status = st
  BY <1>2 DEF State, Statuses
<1>4. TypeOK'
  <2>1. file' \in [Runs -> State \cup { Absent, Unreadable }]
    BY <1>1, <1>2, <1>3 DEF PlaceInv, TypeOK
  <2>2. overlap' \in [Runs -> BOOLEAN]
    BY <1>1 DEF PlaceInv, TypeOK, AboutToWrite
  <2>3. \A s \in Runs : file'[s].exit = "lost" => file'[s] = Lost
    BY <1>2, <1>3 DEF PlaceInv, TypeOK
  <2> QED
    BY <1>1, <2>1, <2>2, <2>3 DEF PlaceInv, TypeOK
<1>5. OneTrigger' /\ \A p \in Procs : Placed(p)'
  BY <1>1, <1>2, <1>3 DEF PlaceInv, TypeOK, OneTrigger, Placed
<1>6. \A s \in Runs : Grown(s)'
  BY <1>1, <1>2, <1>3 DEF PlaceInv, Grown
<1>7. \A p \in Procs : Knows(p)'
  BY <1>1, <1>2 DEF PlaceInv, TypeOK, ShowInv, Knows, Clean, AboutToWrite
<1>8. \A s \in Runs : Shows(s)'
  <2>1. \A s \in Runs : Marking(s)' <=> Marking(s)
    BY <1>1 DEF Marking
  <2>2. Clean(r)' => ~Marking(r)
    BY <1>2 DEF Clean, AboutToWrite, Marking
  <2>3. Shows(r)'
    BY <1>2, <1>3, <2>1, <2>2 DEF Shows
  <2>4. ASSUME NEW s \in Runs \ { r } PROVE Shows(s)'
    BY <1>1, <1>2, <2>1 DEF ShowInv, Shows, Clean
  <2> QED
    BY <2>3, <2>4
<1> QED
  BY <1>4, <1>5, <1>6, <1>7, <1>8 DEF PlaceInv, ShowInv

LEMMA ExitHolds ==
  ASSUME PlaceInv, ShowInv, NEW r \in Runs, Exits(r)
  PROVE  PlaceInv' /\ ShowInv'
<1>1. /\ wrapper[r] \in { "started", "running", "finished" }
      /\ wrapper' = [wrapper EXCEPT ![r] = "dead"]
      /\ UNCHANGED << file, said, overlap, cut, pc, run, seen, restarts >>
  BY DEF Exits
<1>2. wrapper'[r] = "dead" /\ \A s \in Runs \ { r } : wrapper'[s] = wrapper[s]
  BY <1>1 DEF PlaceInv, TypeOK
<1>3. TypeOK'
  BY <1>1 DEF PlaceInv, TypeOK
<1>4. OneTrigger' /\ (\A p \in Procs : Placed(p)') /\ (\A s \in Runs : Grown(s)')
  BY <1>1, <1>2 DEF PlaceInv, TypeOK, OneTrigger, Placed, Grown
<1>5. (\A p \in Procs : Knows(p)') /\ (\A s \in Runs : Shows(s)')
  BY <1>1, <1>2 DEF ShowInv, Knows, Shows, Clean, Marking
<1> QED
  BY <1>3, <1>4, <1>5 DEF PlaceInv, ShowInv

LEMMA RestartHolds ==
  ASSUME PlaceInv, ShowInv, Restart
  PROVE  PlaceInv' /\ ShowInv'
<1>1. /\ \A p \in Procs : pc'[p] = "idle"
      /\ UNCHANGED << file, wrapper, said, overlap, run >>
  BY DEF Restart
<1>2. \A r \in Runs : Clean(r)' => Clean(r) /\ ~Marking(r)
  BY <1>1 DEF Restart, Clean, Marking
<1>3. TypeOK'
  BY DEF Restart, PlaceInv, TypeOK
<1>4. OneTrigger' /\ (\A p \in Procs : Placed(p)') /\ (\A r \in Runs : Grown(r)')
  BY <1>1 DEF PlaceInv, OneTrigger, Placed, Grown, Triggering
<1>5. (\A p \in Procs : Knows(p)') /\ (\A r \in Runs : Shows(r)')
  BY <1>1, <1>2 DEF ShowInv, Knows, Shows, Marking
<1> QED
  BY <1>3, <1>4, <1>5 DEF PlaceInv, ShowInv

LEMMA NextHolds ==
  ASSUME PlaceInv, ShowInv, [Next]_vars
  PROVE  PlaceInv' /\ ShowInv'
<1>1. CASE UNCHANGED vars
  BY <1>1 DEF vars, PlaceInv, TypeOK, OneTrigger, Placed, Grown, ShowInv, Knows, Shows,
              Clean, Marking
<1>2. CASE Next
  BY <1>2, TriggerHolds, PollHolds, StepHolds, SaysHolds, ExitHolds, RestartHolds
  DEF Next, Live
<1> QED
  BY <1>1, <1>2

LEMMA Implied == PlaceInv /\ ShowInv => TypeOK /\ LastWordStands
BY DEF PlaceInv, ShowInv, Shows, Clean, Marking, LastWordStands, BeingWritten

LEMMA Invariance == Spec => [](PlaceInv /\ ShowInv)
BY InitHolds, NextHolds, PTL DEF Spec

\* Types, and that -1 is the exit code of a run only in the state that the
\* watchdog makes up.
THEOREM TypeCorrect == Spec => []TypeOK
BY Implied, Invariance, PTL

\* The state file ends with what the wrapper said last, or shows a wrapper that
\* died while running as lost, unless a write crossed another or was cut off.
THEOREM TheLastWordStands == Spec => []LastWordStands
BY Implied, Invariance, PTL
=============================================================================
