------------------------- MODULE ConfigRegistry_proofs -------------------------
(* Proofs about ConfigRegistry, for any goroutines, registries and editions. *)
EXTENDS ConfigRegistry, TLAPS

(***************************************************************************)
(* Types and locks.  Who holds reloadMu is between the lock and the return *)
(* of Reload; before the server is up nobody serves a create.              *)
(***************************************************************************)
MainAt == { "down", "stat2", "read", "install", "up" }
ProcAt == { "idle", "window", "lock", "pull", "stat1", "stat2", "read", "install", "use" }

HoldersReload == \A r \in Regs : holder[r] # None =>
                   pc[holder[r]] \in UnderLock /\ at[holder[r]] = r

TypeInv ==
  /\ TypeOK
  /\ pc[Main] \in MainAt /\ \A p \in Procs : pc[p] \in ProcAt
  /\ HoldersReload
  /\ pc[Main] # "up" => \A p \in Procs : pc[p] = "idle"

LEMMA Distinct ==
  /\ Main \notin Procs /\ None \notin Procs /\ Main # None
  /\ NumRegs \in Nat /\ NumRegs >= 1 /\ MaxRestarts \in Nat
BY RegistryAssumption

\* Returning from Reload, or from the boot's reparse, keeps locks and types.
LEMMA ReturnTyped ==
  ASSUME TypeInv, NEW p \in Everyone, Return(p),
         pc[p] \notin { "down", "up", "idle", "use" },
         mem' \in [Regs -> [ mtime : Nat, content : Nat ]],
         failed' \in [Regs -> BOOLEAN], since' = since,
         UNCHANGED << disk, fresh, restarts >>
  PROVE  TypeInv'
<1> USE Distinct DEF Everyone
<1>1. /\ stat' \in [Everyone -> Nat] /\ got' \in [Everyone -> Nat]
      /\ at' \in [Everyone -> Regs] /\ holder' \in [Regs -> Procs \cup { None }]
  <2>1. stat' \in [Everyone -> Nat] /\ got' \in [Everyone -> Nat]
    BY DEF TypeInv, TypeOK, Return, NoTime
  <2>2. at[p] \in Regs /\ (at[p] < NumRegs => at[p] + 1 \in Regs)
    <3>1. at[p] \in Regs
      BY DEF TypeInv, TypeOK
    <3> QED
      BY <3>1 DEF Regs
  <2>3. at' \in [Everyone -> Regs]
    BY <2>2 DEF TypeInv, TypeOK, Return
  <2>4. holder' \in [Regs -> Procs \cup { None }]
    BY <2>2 DEF TypeInv, TypeOK, Return
  <2> QED
    BY <2>1, <2>3, <2>4
<1>2. /\ pc' \in [Everyone -> MainAt \cup ProcAt]
      /\ pc'[Main] \in MainAt /\ \A q \in Procs : pc'[q] \in ProcAt
  <2>1. PICK w \in { "stat2", "window", "up", "use" } :
          /\ pc' = [pc EXCEPT ![p] = w]
          /\ w \in IF p = Main THEN MainAt ELSE ProcAt
    BY DEF Return, Goto, MainAt, ProcAt
  <2>2. pc \in [Everyone -> MainAt \cup ProcAt]
    BY DEF TypeInv, TypeOK, MainAt, ProcAt
  <2> QED
    BY <2>1, <2>2 DEF TypeInv
<1>3. \A q \in Procs : pc'[q] \in UnderLock => holder'[at'[q]] = q
  BY DEF TypeInv, TypeOK, Return, Goto, UnderLock
<1>4. HoldersReload'
  <2> SUFFICES ASSUME NEW r \in Regs, holder'[r] # None
               PROVE  pc'[holder'[r]] \in UnderLock /\ at'[holder'[r]] = r
    BY DEF HoldersReload
  <2>1. holder'[r] = holder[r] /\ holder[r] # p
    BY DEF TypeInv, TypeOK, HoldersReload, Return
  <2>2. pc'[holder[r]] = pc[holder[r]] /\ at'[holder[r]] = at[holder[r]]
    BY <2>1 DEF TypeInv, TypeOK, Return, Goto
  <2> QED
    BY <2>1, <2>2 DEF TypeInv, HoldersReload
<1>5. pc'[Main] # "up" => \A q \in Procs : pc'[q] = "idle"
  <2>1. CASE p = Main
    BY <2>1 DEF TypeInv, TypeOK, Return, Goto, MainAt
  <2>2. CASE p # Main
    <3>1. pc'[Main] = pc[Main]
      BY <2>2 DEF TypeInv, TypeOK, Return, Goto
    <3>2. pc[Main] = "up"
      BY <2>2 DEF TypeInv
    <3> QED
      BY <3>1, <3>2
  <2> QED
    BY <2>1, <2>2
<1> QED
  BY <1>1, <1>2, <1>3, <1>4, <1>5 DEF TypeInv, TypeOK, MainAt, ProcAt

\* Going on from one place under the lock to another.
LEMMA GoOnTyped ==
  ASSUME TypeInv, NEW p \in Everyone, NEW w \in { "stat1", "stat2", "read", "install" },
         Goto(p, w), pc[p] \in UnderLock, p = Main => w \in MainAt,
         stat' \in [Everyone -> Nat], got' \in [Everyone -> Nat],
         fresh' \in [Regs -> BOOLEAN],
         UNCHANGED << disk, mem, holder, failed, at, since, restarts >>
  PROVE  TypeInv'
<1> USE Distinct
<1>1. pc' \in [Everyone -> MainAt \cup ProcAt] /\ pc'[Main] \in MainAt
      /\ \A q \in Procs : pc'[q] \in ProcAt
  BY DEF TypeInv, TypeOK, Goto, MainAt, ProcAt, Everyone
<1>2. \A q \in Procs : pc'[q] \in UnderLock => holder'[at'[q]] = q
  BY DEF TypeInv, TypeOK, Goto, UnderLock, Everyone
<1>3. HoldersReload'
  BY DEF TypeInv, TypeOK, HoldersReload, Goto, UnderLock, Everyone
<1>4. pc'[Main] # "up" => \A q \in Procs : pc'[q] = "idle"
  BY DEF TypeInv, TypeOK, Goto, UnderLock, Everyone
<1> QED
  BY <1>1, <1>2, <1>3, <1>4 DEF TypeInv, TypeOK, MainAt, ProcAt

LEMMA InitTyped == Init => TypeInv
BY Distinct DEF Init, TypeInv, TypeOK, HoldersReload, MainAt, ProcAt, UnderLock,
                Everyone, Regs, NoTime

\* The steps of one goroutine keep the types.
LEMMA StepTyped ==
  ASSUME TypeInv, NEW p \in Everyone, Step(p)
  PROVE  TypeInv'
<1> USE Distinct
<1>0. at[p] \in Regs /\ disk[at[p]] \in Nat
  BY DEF TypeInv, TypeOK
<1>1. CASE Window(p)
  <2>1. CASE fresh[at[p]]
    BY <1>1, <2>1, ReturnTyped DEF Window, TypeInv, TypeOK
  <2>2. CASE ~fresh[at[p]]
    <3>1. p # Main /\ p \in Procs
      BY <1>1 DEF Window, TypeInv, MainAt, Everyone
    <3>2. since' \in [Everyone -> [Regs -> Nat]]
      <4>1. since' = [since EXCEPT ![p] = [since[p] EXCEPT ![at[p]] = disk[at[p]]]]
        BY <1>1, <2>2 DEF Window
      <4>2. [since[p] EXCEPT ![at[p]] = disk[at[p]]] \in [Regs -> Nat]
        BY <1>0 DEF TypeInv, TypeOK
      <4> QED
        BY <4>1, <4>2 DEF TypeInv, TypeOK
    <3>3. pc' = [pc EXCEPT ![p] = "lock"] /\ UNCHANGED << at, holder >>
      BY <1>1, <2>2 DEF Window, Goto
    <3>4. HoldersReload'
      BY <1>1, <3>3 DEF Window, TypeInv, TypeOK, HoldersReload, UnderLock
    <3>5. pc' \in [Everyone -> MainAt \cup ProcAt] /\ pc'[Main] \in MainAt
          /\ \A q \in Procs : pc'[q] \in ProcAt
      BY <3>1, <3>3 DEF TypeInv, TypeOK, MainAt, ProcAt, Everyone
    <3>6. \A q \in Procs : pc'[q] \in UnderLock => holder'[at'[q]] = q
      BY <3>3 DEF TypeInv, TypeOK, UnderLock, Everyone
    <3>7. pc'[Main] # "up" => \A q \in Procs : pc'[q] = "idle"
      BY <1>1, <3>1, <3>3 DEF Window, TypeInv, TypeOK, Everyone
    <3> QED
      BY <1>1, <2>2, <3>2, <3>3, <3>4, <3>5, <3>6, <3>7
      DEF Window, TypeInv, TypeOK, MainAt, ProcAt
  <2> QED
    BY <2>1, <2>2
<1>2. CASE Lock(p)
  <2>1. CASE fresh[at[p]]
    BY <1>2, <2>1, ReturnTyped DEF Lock, TypeInv, TypeOK
  <2>2. CASE ~fresh[at[p]]
    <3>1. p # Main /\ p \in Procs
      BY <1>2 DEF Lock, TypeInv, MainAt, Everyone
    <3>2. /\ holder[at[p]] = None /\ holder' = [holder EXCEPT ![at[p]] = p]
          /\ pc' = [pc EXCEPT ![p] = "pull"] /\ at' = at
      BY <1>2, <2>2 DEF Lock, Goto, Free
    <3>3. holder' \in [Regs -> Procs \cup { None }]
      BY <3>1, <3>2 DEF TypeInv, TypeOK
    <3>4. pc' \in [Everyone -> MainAt \cup ProcAt] /\ pc'[Main] \in MainAt
          /\ \A q \in Procs : pc'[q] \in ProcAt
      BY <3>1, <3>2 DEF TypeInv, TypeOK, MainAt, ProcAt, Everyone
    <3>5. \A q \in Procs : pc'[q] \in UnderLock => holder'[at'[q]] = q
      BY <1>0, <3>1, <3>2 DEF TypeInv, TypeOK, UnderLock, Everyone
    <3>6. HoldersReload'
      <4> SUFFICES ASSUME NEW r \in Regs, holder'[r] # None
                   PROVE  pc'[holder'[r]] \in UnderLock /\ at'[holder'[r]] = r
        BY DEF HoldersReload
      <4>1. CASE r = at[p]
        BY <1>0, <3>1, <3>2, <4>1 DEF TypeInv, TypeOK, UnderLock
      <4>2. CASE r # at[p]
        <5>1. holder'[r] = holder[r] /\ holder[r] \in Procs /\ holder[r] # p
          BY <1>0, <3>2, <4>2 DEF TypeInv, TypeOK, HoldersReload
        <5> QED
          BY <3>2, <5>1 DEF TypeInv, TypeOK, HoldersReload, Everyone
      <4> QED
        BY <4>1, <4>2
    <3>7. pc'[Main] # "up" => \A q \in Procs : pc'[q] = "idle"
      BY <1>2, <3>1, <3>2 DEF Lock, TypeInv, TypeOK, Everyone
    <3> QED
      BY <1>2, <2>2, <3>2, <3>3, <3>4, <3>5, <3>6, <3>7
      DEF Lock, TypeInv, TypeOK, MainAt, ProcAt
  <2> QED
    BY <2>1, <2>2
<1>3. CASE Pulled(p)
  <2>1. p # Main
    BY <1>3 DEF Pulled, TypeInv, MainAt
  <2>2. fresh' \in [Regs -> BOOLEAN]
    BY <1>0, <1>3 DEF Pulled, TypeInv, TypeOK
  <2> QED
    BY <1>3, <2>1, <2>2, GoOnTyped DEF Pulled, TypeInv, TypeOK, UnderLock
<1>4. CASE Guard(p)
  <2>1. p # Main
    BY <1>4 DEF Guard, TypeInv, MainAt
  <2>2. CASE pc' = [pc EXCEPT ![p] = "stat2"] /\ UNCHANGED << at, holder, failed, stat, got >>
    BY <1>4, <2>1, <2>2, GoOnTyped DEF Guard, Goto, TypeInv, TypeOK, UnderLock
  <2>3. CASE Return(p) /\ \E b \in BOOLEAN : failed' = [failed EXCEPT ![at[p]] = b]
    <3>1. failed' \in [Regs -> BOOLEAN]
      BY <1>0, <2>3 DEF TypeInv, TypeOK
    <3> QED
      BY <1>4, <2>3, <3>1, ReturnTyped DEF Guard, TypeInv, TypeOK
  <2> QED
    BY <1>4, <2>2, <2>3 DEF Guard, Goto
<1>5. CASE Stat(p)
  <2>1. CASE Missing(disk[at[p]]) /\ Return(p)
    <3>1. failed' \in [Regs -> BOOLEAN] /\ mem' \in [Regs -> [ mtime : Nat, content : Nat ]]
      <4>1. /\ failed' = [failed EXCEPT ![at[p]] = TRUE]
            /\ mem' = [mem EXCEPT ![at[p]] = [ mtime |-> NoTime, content |-> NoTime ]]
        BY <1>5, <2>1 DEF Stat
      <4> QED
        BY <1>0, <4>1 DEF TypeInv, TypeOK, NoTime
    <3> QED
      BY <1>5, <2>1, <3>1, ReturnTyped DEF Stat, TypeInv, TypeOK
  <2>2. CASE Goto(p, "read") /\ stat' = [stat EXCEPT ![p] = disk[at[p]]]
             /\ UNCHANGED << mem, failed, at, holder, got >>
    <3>1. stat' \in [Everyone -> Nat]
      BY <1>0, <2>2 DEF TypeInv, TypeOK
    <3> QED
      BY <1>5, <2>2, <3>1, GoOnTyped DEF Stat, TypeInv, TypeOK, UnderLock, MainAt
  <2> QED
    BY <1>5, <2>1, <2>2 DEF Stat
<1>6. CASE ReadFile(p)
  <2>1. CASE Fail(p)
    <3>1. failed' \in [Regs -> BOOLEAN]
      BY <1>0, <2>1 DEF Fail, TypeInv, TypeOK
    <3>2. CASE p = Main
      BY <1>6, <2>1, <3>1, <3>2
      DEF ReadFile, Fail, Goto, TypeInv, TypeOK, HoldersReload, UnderLock, MainAt, Everyone
    <3>3. CASE p # Main
      BY <1>6, <2>1, <3>1, <3>3, ReturnTyped DEF ReadFile, Fail, TypeInv, TypeOK
    <3> QED
      BY <3>2, <3>3
  <2>2. CASE Goto(p, "install") /\ got' = [got EXCEPT ![p] = disk[at[p]]]
             /\ UNCHANGED << at, holder, failed, stat >>
    <3>1. got' \in [Everyone -> Nat]
      BY <1>0, <2>2 DEF TypeInv, TypeOK
    <3> QED
      BY <1>6, <2>2, <3>1, GoOnTyped DEF ReadFile, TypeInv, TypeOK, UnderLock, MainAt
  <2> QED
    BY <1>6, <2>1, <2>2 DEF ReadFile
<1>7. CASE Install(p)
  <2>1. failed' \in [Regs -> BOOLEAN] /\ mem' \in [Regs -> [ mtime : Nat, content : Nat ]]
    BY <1>0, <1>7 DEF Install, Taken, TypeInv, TypeOK
  <2> QED
    BY <1>7, <2>1, ReturnTyped DEF Install, TypeInv, TypeOK
<1>8. CASE Use(p)
  <2>1. p # Main /\ p \in Procs
    BY <1>8 DEF Use, TypeInv, MainAt, Everyone
  <2>2. at' \in [Everyone -> Regs] /\ since' \in [Everyone -> [Regs -> Nat]]
    <3>1. 1 \in Regs
      BY DEF Regs
    <3>2. [r \in Regs |-> NoTime] \in [Regs -> Nat]
      BY DEF NoTime
    <3> QED
      BY <1>8, <3>1, <3>2 DEF Use, TypeInv, TypeOK
  <2>3. pc' \in [Everyone -> MainAt \cup ProcAt] /\ pc'[Main] \in MainAt
        /\ \A q \in Procs : pc'[q] \in ProcAt
    BY <1>8, <2>1 DEF Use, Goto, TypeInv, TypeOK, MainAt, ProcAt, Everyone
  <2>4. HoldersReload'
    BY <1>8 DEF Use, Goto, TypeInv, TypeOK, HoldersReload, UnderLock, Everyone
  <2>5. \A q \in Procs : pc'[q] \in UnderLock => holder'[at'[q]] = q
    BY <1>8 DEF Use, Goto, TypeInv, TypeOK, UnderLock, Everyone
  <2>6. pc'[Main] # "up" => \A q \in Procs : pc'[q] = "idle"
    BY <1>8, <2>1 DEF Use, Goto, TypeInv, TypeOK, Everyone
  <2> QED
    BY <1>8, <2>2, <2>3, <2>4, <2>5, <2>6 DEF Use, TypeInv, TypeOK, MainAt, ProcAt
<1> QED
  BY <1>1, <1>2, <1>3, <1>4, <1>5, <1>6, <1>7, <1>8 DEF Step

LEMMA RestTyped ==
  ASSUME TypeInv,
         \/ \E p \in Procs : Create(p)
         \/ \E r \in Regs : Checkout(r) \/ Expire(r)
         \/ Boot \/ Restart
  PROVE  TypeInv'
<1> USE Distinct
<1>1. CASE \E p \in Procs : Create(p)
  <2> PICK p \in Procs : Create(p)
    BY <1>1
  <2>1. pc[Main] = "up" /\ pc[p] = "idle" /\ pc' = [pc EXCEPT ![p] = "window"]
        /\ UNCHANGED << disk, mem, fresh, holder, failed, at, stat, got, since, restarts >>
    BY DEF Create, Up, Goto
  <2>2. HoldersReload'
    BY <2>1 DEF TypeInv, TypeOK, HoldersReload, UnderLock, Everyone
  <2> QED
    BY <2>1, <2>2 DEF TypeInv, TypeOK, UnderLock, MainAt, ProcAt, Everyone
<1>2. CASE \E r \in Regs : Checkout(r)
  <2>1. disk' \in [Regs -> Nat]
    BY <1>2 DEF Checkout, TypeInv, TypeOK
  <2> QED
    BY <1>2, <2>1 DEF Checkout, TypeInv, TypeOK, HoldersReload
<1>3. CASE \E r \in Regs : Expire(r)
  BY <1>3 DEF Expire, TypeInv, TypeOK, HoldersReload
<1>4. CASE Boot
  <2>1. pc[Main] = "down" /\ pc' = [pc EXCEPT ![Main] = "stat2"] /\ at' = [at EXCEPT ![Main] = 1]
        /\ UNCHANGED << disk, mem, fresh, holder, failed, stat, got, since, restarts >>
    BY <1>4 DEF Boot, Goto
  <2>2. at' \in [Everyone -> Regs]
    <3>1. 1 \in Regs
      BY DEF Regs
    <3> QED
      BY <2>1, <3>1 DEF TypeInv, TypeOK
  <2>3. HoldersReload'
    BY <2>1 DEF TypeInv, TypeOK, HoldersReload, Everyone
  <2>4. \A p \in Procs : pc'[p] \in UnderLock => holder'[at'[p]] = p
    BY <2>1 DEF TypeInv, TypeOK, Everyone
  <2> QED
    BY <2>1, <2>2, <2>3, <2>4 DEF TypeInv, TypeOK, MainAt, ProcAt, Everyone
<1>5. CASE Restart
  BY <1>5 DEF Restart, TypeInv, TypeOK, HoldersReload, MainAt, ProcAt, UnderLock,
              Everyone, Regs, NoTime
<1> QED
  BY <1>1, <1>2, <1>3, <1>4, <1>5

LEMMA TypeInvariance == Spec => []TypeInv
<1>1. TypeInv /\ [Next]_vars => TypeInv'
  <2> SUFFICES ASSUME TypeInv, [Next]_vars PROVE TypeInv'
    OBVIOUS
  <2>1. CASE UNCHANGED vars
    BY <2>1 DEF vars, TypeInv, TypeOK, HoldersReload
  <2>2. CASE Next
    BY <2>2, StepTyped, RestTyped DEF Next
  <2> QED
    BY <2>1, <2>2
<1> QED
  BY <1>1, InitTyped, PTL DEF Spec

\* Types, and single flight: whoever pulls, stats or reads for a create holds
\* reloadMu of that registry, whatever boots, restarts and failures do.
THEOREM TypeCorrect == Spec => []TypeOK
<1>1. TypeInv => TypeOK
  BY DEF TypeInv
<1> QED
  BY <1>1, TypeInvariance, PTL

(***************************************************************************)
(* Editions.  What is kept as the mtime was taken before what is kept as   *)
(* the rules, and editions only grow.                                      *)
(***************************************************************************)
Kept(r) == /\ disk[r] >= 3
           /\ mem[r].mtime <= mem[r].content /\ mem[r].content <= disk[r]

EditionInv ==
  /\ \A r \in Regs : Kept(r)
  /\ \A p \in Everyone :
       /\ pc[p] \in { "read", "install" } => stat[p] <= disk[at[p]]
       /\ pc[p] = "install" => stat[p] <= got[p] /\ got[p] <= disk[at[p]]

LEMMA EditionInit == Init => EditionInv
<1> SUFFICES ASSUME Init PROVE EditionInv
  OBVIOUS
<1>1. \A r \in Regs : Kept(r)
  BY DEF Init, Kept, NoTime
<1>2. \A p \in Everyone : pc[p] \in { "down", "idle" }
  BY DEF Init
<1> QED
  BY <1>1, <1>2 DEF EditionInv

\* A step that leaves the files and what others have taken alone.
LEMMA EditionMove ==
  ASSUME TypeInv, EditionInv, NEW p \in Everyone, NEW w \in MainAt \cup ProcAt,
         Goto(p, w), w \notin { "read", "install" },
         disk' = disk, \A r \in Regs : Kept(r)',
         \A q \in Everyone \ { p } : /\ stat'[q] = stat[q] /\ got'[q] = got[q]
                                     /\ at'[q] = at[q]
  PROVE  EditionInv'
BY DEF TypeInv, TypeOK, EditionInv, Goto

\* Where a return leads.
LEMMA ReturnLeads ==
  ASSUME TypeInv, NEW p \in Everyone, Return(p)
  PROVE  /\ \E w \in { "stat2", "window", "up", "use" } : Goto(p, w)
         /\ \A q \in Everyone \ { p } : /\ stat'[q] = stat[q] /\ got'[q] = got[q]
                                        /\ at'[q] = at[q]
         /\ at[p] \in Regs
BY DEF TypeInv, TypeOK, Return, Goto

LEMMA EditionReturn ==
  ASSUME TypeInv, EditionInv, NEW p \in Everyone, Return(p),
         disk' = disk, \A r \in Regs : Kept(r)'
  PROVE  EditionInv'
BY ReturnLeads, EditionMove DEF MainAt, ProcAt

LEMMA EditionStep ==
  ASSUME TypeInv, EditionInv, NEW p \in Everyone, Step(p)
  PROVE  EditionInv'
<1>0. at[p] \in Regs /\ disk[at[p]] \in Nat /\ disk' = disk
  BY DEF TypeInv, TypeOK, Step, Window, Lock, Pulled, Guard, Stat, ReadFile, Install, Use
<1>1. mem' = mem => \A r \in Regs : Kept(r)'
  BY <1>0 DEF EditionInv, Kept
<1>2. CASE Window(p)
  BY <1>0, <1>1, <1>2, EditionReturn, EditionMove DEF Window, MainAt, ProcAt
<1>3. CASE Lock(p)
  BY <1>0, <1>1, <1>3, EditionReturn, EditionMove DEF Lock, MainAt, ProcAt
<1>4. CASE Pulled(p)
  BY <1>0, <1>1, <1>4, EditionMove DEF Pulled, MainAt, ProcAt
<1>5. CASE Guard(p)
  BY <1>0, <1>1, <1>5, EditionReturn, EditionMove DEF Guard, MainAt, ProcAt
<1>6. CASE Stat(p)
  <2>1. CASE Missing(disk[at[p]]) /\ Return(p)
    <3>1. mem' = [mem EXCEPT ![at[p]] = [ mtime |-> NoTime, content |-> NoTime ]]
      BY <1>6, <2>1 DEF Stat
    <3>2. \A r \in Regs : Kept(r)'
      BY <1>0, <3>1 DEF TypeInv, TypeOK, EditionInv, Kept, NoTime
    <3> QED
      BY <1>0, <2>1, <3>2, EditionReturn
  <2>2. CASE Goto(p, "read") /\ stat' = [stat EXCEPT ![p] = disk[at[p]]]
             /\ UNCHANGED << mem, at, got >>
    BY <1>0, <1>1, <2>2 DEF TypeInv, TypeOK, EditionInv, Goto
  <2> QED
    BY <1>6, <2>1, <2>2 DEF Stat
<1>7. CASE ReadFile(p)
  <2>1. CASE Fail(p)
    BY <1>0, <1>1, <1>7, <2>1, EditionReturn, EditionMove DEF ReadFile, Fail, MainAt, ProcAt
  <2>2. CASE Goto(p, "install") /\ got' = [got EXCEPT ![p] = disk[at[p]]]
             /\ pc[p] = "read" /\ UNCHANGED << mem, at, stat >>
    BY <1>0, <1>1, <2>2 DEF TypeInv, TypeOK, EditionInv, Goto
  <2> QED
    BY <1>7, <2>1, <2>2 DEF ReadFile
<1>8. CASE Install(p)
  <2>1. mem' = [mem EXCEPT ![at[p]] = [ mtime |-> stat[p], content |-> got[p] ]]
        /\ pc[p] = "install" /\ Return(p)
    BY <1>8 DEF Install, Taken
  <2>2. \A r \in Regs : Kept(r)'
    BY <1>0, <2>1 DEF TypeInv, TypeOK, EditionInv, Kept
  <2> QED
    BY <1>0, <2>1, <2>2, EditionReturn
<1>9. CASE Use(p)
  BY <1>0, <1>1, <1>9, EditionMove DEF Use, MainAt, ProcAt, TypeInv, TypeOK
<1> QED
  BY <1>2, <1>3, <1>4, <1>5, <1>6, <1>7, <1>8, <1>9 DEF Step

LEMMA EditionRest ==
  ASSUME TypeInv, EditionInv,
         \/ \E p \in Procs : Create(p)
         \/ \E r \in Regs : Checkout(r) \/ Expire(r)
         \/ Boot \/ Restart
  PROVE  EditionInv'
<1>1. CASE \E p \in Procs : Create(p)
  BY <1>1, EditionMove DEF Create, EditionInv, Kept, MainAt, ProcAt, Everyone
<1>2. CASE \E r \in Regs : Checkout(r)
  <2> PICK r \in Regs : Checkout(r)
    BY <1>2
  <2>1. \A s \in Regs : disk'[s] >= disk[s] /\ disk'[s] \in Nat /\ disk[s] \in Nat
    BY DEF Checkout, TypeInv, TypeOK
  <2>2. \A s \in Regs : Kept(s)'
    BY <2>1 DEF Checkout, TypeInv, TypeOK, EditionInv, Kept
  <2>3. ASSUME NEW p \in Everyone
        PROVE  /\ pc[p] \in { "read", "install" } => stat[p] <= disk'[at[p]]
               /\ pc[p] = "install" => got[p] <= disk'[at[p]]
    <3>1. at[p] \in Regs /\ stat[p] \in Nat /\ got[p] \in Nat
      BY DEF TypeInv, TypeOK
    <3> QED
      BY <2>1, <3>1 DEF EditionInv
  <2> QED
    BY <2>2, <2>3 DEF Checkout, EditionInv
<1>3. CASE \E r \in Regs : Expire(r)
  BY <1>3 DEF Expire, EditionInv, Kept
<1>4. CASE Boot
  BY <1>4, EditionMove DEF Boot, TypeInv, TypeOK, EditionInv, Kept, MainAt, ProcAt, Everyone
<1>5. CASE Restart
  <2>1. \A p \in Everyone : pc'[p] \in { "down", "idle" }
    BY <1>5 DEF Restart
  <2>2. \A r \in Regs : Kept(r)'
    BY <1>5 DEF Restart, TypeInv, TypeOK, EditionInv, Kept, NoTime
  <2> QED
    BY <2>1, <2>2 DEF EditionInv
<1> QED
  BY <1>1, <1>2, <1>3, <1>4, <1>5

LEMMA EditionInvariance == Spec => []EditionInv
<1>1. TypeInv /\ EditionInv /\ [Next]_vars => EditionInv'
  <2> SUFFICES ASSUME TypeInv, EditionInv, [Next]_vars PROVE EditionInv'
    OBVIOUS
  <2>1. CASE UNCHANGED vars
    BY <2>1 DEF vars, EditionInv, Kept
  <2>2. CASE Next
    BY <2>2, EditionStep, EditionRest DEF Next
  <2> QED
    BY <2>1, <2>2
<1> QED
  BY <1>1, EditionInit, TypeInvariance, PTL DEF Spec

\* Whatever git does between the two Stats, the read and the installation, a
\* file that the mtime guard skips is the file whose rules are in memory.
THEOREM NoEditionIsMissed == Spec => []NothingIsMissed
<1>1. TypeInv /\ EditionInv => NothingIsMissed
  BY DEF TypeInv, TypeOK, EditionInv, Kept, NothingIsMissed, Same
<1> QED
  BY <1>1, TypeInvariance, EditionInvariance, PTL

(***************************************************************************)
(* Freshness.  `since' is the edition a create found when its window had   *)
(* expired, zero while it has not looked.  Whoever waits for reloadMu and  *)
(* finds a fresh lastPull was overtaken by a whole reload that began after *)
(* it had looked: between the two the window was never fresh.              *)
(***************************************************************************)
Ahead(p, r)   == pc[p] = "idle" \/ r > at[p] \/ (r = at[p] /\ pc[p] = "window")
Past(p, r)    == r < at[p] \/ pc[p] = "use"
Waiting(p, r) == pc[p] = "lock" /\ at[p] = r /\ fresh[r]

Served(p, r) == mem[r].content >= since[p][r] \/ failed[r]

\* What q has read of r is new enough for every create that may live on it.
ReadsEnough(q, r) ==
  pc[q] = "install" /\ at[q] = r =>
    \A p \in Procs : p = q \/ Past(p, r) \/ Waiting(p, r) => got[q] >= since[p][r]

FreshInv ==
  /\ \A p \in Procs, r \in Regs :
       /\ since[p][r] <= disk[r]
       /\ Ahead(p, r) => since[p][r] = NoTime
       /\ Past(p, r) => Served(p, r)
       /\ Waiting(p, r) /\ holder[r] = None => Served(p, r)
  /\ \A q \in Procs, r \in Regs : ReadsEnough(q, r)

LEMMA FreshInit == Init => FreshInv
<1> SUFFICES ASSUME Init PROVE FreshInv
  OBVIOUS
<1>1. \A p \in Procs : pc[p] = "idle" /\ at[p] = 1
  BY Distinct DEF Init, Everyone
<1>2. \A p \in Procs, r \in Regs : since[p][r] = NoTime /\ r >= 1
  BY DEF Init, Everyone, Regs
<1>3. \A r \in Regs : disk[r] = 3 /\ mem[r].content = NoTime
  BY DEF Init
<1> QED
  BY <1>1, <1>2, <1>3 DEF FreshInv, Served, Past, Waiting, ReadsEnough, NoTime, Regs

\* Before the server is up nothing depends on the registries.
LEMMA FreshWhileIdle ==
  ASSUME TypeInv, TypeInv', FreshInv, \A p \in Procs : pc'[p] = "idle" /\ pc[p] = "idle",
         since' = since, disk' = disk
  PROVE  FreshInv'
<1>1. \A p \in Procs, r \in Regs : since'[p][r] = NoTime
  BY DEF FreshInv, Ahead
<1>2. \A r \in Regs : mem'[r].content \in Nat /\ disk'[r] \in Nat
  BY DEF TypeInv, TypeOK
<1> QED
  BY <1>1, <1>2 DEF FreshInv, Served, Waiting, ReadsEnough, NoTime

\* A return serves whoever it has to serve if what it leaves behind is served.
LEMMA FreshReturn ==
  ASSUME TypeInv, TypeInv', FreshInv, NEW p \in Procs, Return(p),
         pc[p] \notin { "idle", "use" },
         UNCHANGED << since, disk, fresh >>,
         \A s \in Regs \ { at[p] } : mem'[s] = mem[s] /\ failed'[s] = failed[s],
         \A q \in Procs :
           q = p \/ Past(q, at[p]) \/ (Waiting(q, at[p]) /\ holder'[at[p]] = None) =>
             mem'[at[p]].content >= since[q][at[p]] \/ failed'[at[p]],
         \/ since[p][at[p]] = NoTime
         \/ \A q \in Procs \ { p } : pc[q] = "install" => at[q] # at[p]
  PROVE  FreshInv'
<1> DEFINE r == at[p]
<1> USE Distinct
<1>1. r \in Regs /\ r \in 1 .. NumRegs /\ p \in Everyone /\ \A q \in Procs : q \in Everyone
  BY DEF TypeInv, TypeOK, Everyone, Regs
<1>2. \A q \in Procs \ { p } : pc'[q] = pc[q] /\ at'[q] = at[q] /\ got'[q] = got[q]
  BY <1>1 DEF TypeInv, TypeOK, Return, Goto
<1>3. \/ pc'[p] = "window" /\ at'[p] = r + 1 /\ r < NumRegs
      \/ pc'[p] = "use" /\ at'[p] = r /\ r = NumRegs
  <2>1. p # Main /\ r \in Int /\ NumRegs \in Int /\ r <= NumRegs
    BY <1>1
  <2>2. CASE r < NumRegs
    BY <1>1, <2>1, <2>2 DEF TypeInv, TypeOK, Return, Goto
  <2>3. CASE ~(r < NumRegs)
    <3>1. r = NumRegs
      BY <2>1, <2>3
    <3>2. pc' = [pc EXCEPT ![p] = "use"] /\ at' = at
      BY <2>1, <2>3 DEF Return, Goto
    <3> QED
      BY <1>1, <3>1, <3>2 DEF TypeInv, TypeOK
  <2> QED
    BY <2>2, <2>3
<1>4. \A s \in Regs \ { r } : holder'[s] = holder[s]
  BY <1>1 DEF TypeInv, TypeOK, Return
<1>5. ASSUME NEW q \in Procs, NEW s \in Regs
      PROVE  /\ Ahead(q, s)' => Ahead(q, s)
             /\ Past(q, s)' => Past(q, s) \/ (q = p /\ s = r)
             /\ Waiting(q, s)' => Waiting(q, s) /\ q # p
  <2>1. CASE q = p
    <3>1. s \in Int /\ s <= NumRegs /\ r \in Int
      BY <1>1 DEF Regs
    <3> QED
      BY <1>3, <2>1, <3>1 DEF Ahead, Past, Waiting
  <2>2. CASE q # p
    BY <1>2, <2>2 DEF Ahead, Past, Waiting
  <2> QED
    BY <2>1, <2>2
<1>6. ASSUME NEW q \in Procs, NEW s \in Regs
      PROVE  /\ since'[q][s] <= disk'[s]
             /\ Ahead(q, s)' => since'[q][s] = NoTime
             /\ Past(q, s)' => Served(q, s)'
             /\ Waiting(q, s)' /\ holder'[s] = None => Served(q, s)'
  <2>1. CASE s = r
    BY <1>5, <2>1 DEF FreshInv, Served
  <2>2. CASE s # r
    BY <1>4, <1>5, <2>2 DEF FreshInv, Served
  <2> QED
    BY <2>1, <2>2
<1>7. ASSUME NEW q \in Procs, NEW s \in Regs
      PROVE  ReadsEnough(q, s)'
  <2> SUFFICES ASSUME pc'[q] = "install", at'[q] = s, NEW u \in Procs,
                      u = q \/ Past(u, s)' \/ Waiting(u, s)'
               PROVE  got'[q] >= since'[u][s]
    BY DEF ReadsEnough
  <2>1. q # p /\ pc[q] = "install" /\ at[q] = s /\ got'[q] = got[q]
    BY <1>2, <1>3
  <2>2. u = q \/ Past(u, s) \/ Waiting(u, s) => got[q] >= since[u][s]
    BY <2>1 DEF FreshInv, ReadsEnough
  <2>3. CASE u = p /\ s = r
    <3>1. since[p][r] = NoTime
      BY <2>1, <2>3
    <3>2. got[q] \in Nat
      BY <1>1 DEF TypeInv, TypeOK
    <3> QED
      BY <2>1, <2>3, <3>1, <3>2 DEF NoTime
  <2>4. CASE ~(u = p /\ s = r)
    BY <1>5, <2>1, <2>2, <2>4
  <2> QED
    BY <2>3, <2>4
<1> QED
  BY <1>6, <1>7 DEF FreshInv

\* Whoever holds reloadMu goes on under it; nobody else can live on that registry.
LEMMA FreshMove ==
  ASSUME TypeInv, TypeInv', FreshInv, NEW p \in Procs,
         NEW w \in { "pull", "stat1", "stat2", "read", "install" },
         Goto(p, w), pc[p] # "idle", pc[p] # "use", holder'[at[p]] = p,
         \A s \in Regs \ { at[p] } : holder'[s] = holder[s] /\ fresh'[s] = fresh[s],
         UNCHANGED << disk, mem, failed, at, since >>,
         \A q \in Procs \ { p } : got'[q] = got[q],
         w = "install" => got'[p] = disk[at[p]]
  PROVE  FreshInv'
<1> USE Distinct
<1>1. at[p] \in Regs /\ p \in Everyone /\ \A q \in Procs : q \in Everyone
  BY DEF TypeInv, TypeOK, Everyone
<1>2. pc'[p] = w /\ \A q \in Procs \ { p } : pc'[q] = pc[q]
  BY <1>1 DEF TypeInv, TypeOK, Goto
<1>3. ASSUME NEW q \in Procs, NEW s \in Regs
      PROVE  /\ Ahead(q, s)' => Ahead(q, s)
             /\ Past(q, s)' => Past(q, s)
             /\ Waiting(q, s)' /\ s # at[p] => Waiting(q, s)
  BY <1>2 DEF Ahead, Past, Waiting
<1>4. ASSUME NEW q \in Procs, NEW s \in Regs
      PROVE  /\ since'[q][s] <= disk'[s]
             /\ Ahead(q, s)' => since'[q][s] = NoTime
             /\ Past(q, s)' => Served(q, s)'
             /\ Waiting(q, s)' /\ holder'[s] = None => Served(q, s)'
  BY <1>3 DEF FreshInv, Served
<1>5. ASSUME NEW q \in Procs, NEW s \in Regs
      PROVE  ReadsEnough(q, s)'
  <2> SUFFICES ASSUME pc'[q] = "install", at'[q] = s, NEW u \in Procs,
                      u = q \/ Past(u, s)' \/ Waiting(u, s)'
               PROVE  got'[q] >= since'[u][s]
    BY DEF ReadsEnough
  <2>1. holder'[s] = q
    BY DEF TypeInv, TypeOK, UnderLock
  <2>2. CASE q = p
    BY <1>2, <1>4, <2>2
  <2>3. CASE q # p
    <3>1. s # at[p] /\ pc[q] = "install" /\ at[q] = s
      BY <1>2, <2>1, <2>3
    <3> QED
      BY <1>3, <2>3, <3>1 DEF FreshInv, ReadsEnough
  <2> QED
    BY <2>2, <2>3
<1> QED
  BY <1>4, <1>5 DEF FreshInv

\* A return of the holder: it is alone, so what counts is what it leaves behind.
LEMMA HolderReturns ==
  ASSUME TypeInv, TypeInv', FreshInv, NEW p \in Procs, Return(p), pc[p] \in UnderLock,
         UNCHANGED << since, disk, fresh >>,
         \A s \in Regs \ { at[p] } : mem'[s] = mem[s] /\ failed'[s] = failed[s],
         \/ failed'[at[p]]
         \/ \A q \in Procs :
              q = p \/ Past(q, at[p]) \/ Waiting(q, at[p]) =>
                mem'[at[p]].content >= since[q][at[p]]
  PROVE  FreshInv'
<1>1. \A q \in Procs \ { p } : pc[q] = "install" => at[q] # at[p]
  BY DEF TypeInv, TypeOK, UnderLock
<1>2. pc[p] \notin { "idle", "use" }
  BY DEF UnderLock
<1> QED
  BY <1>1, <1>2, FreshReturn

LEMMA FreshStep ==
  ASSUME TypeInv, TypeInv', FreshInv, EditionInv, NEW p \in Procs, Step(p)
  PROVE  FreshInv'
<1> USE Distinct
<1>1. at[p] \in Regs /\ p \in Everyone /\ p # Main /\ \A q \in Procs : q \in Everyone
  BY DEF TypeInv, TypeOK, Everyone
<1>2. pc[p] \in UnderLock => holder[at[p]] = p
  BY DEF TypeInv, TypeOK
<1>3. CASE Window(p)
  <2>1. holder[at[p]] # p
    BY <1>1, <1>3 DEF Window, TypeInv, HoldersReload, UnderLock
  <2>2. CASE fresh[at[p]]
    <3>1. since[p][at[p]] = NoTime
      BY <1>1, <1>3 DEF Window, FreshInv, Ahead
    <3>2. Return(p) /\ pc[p] = "window" /\ UNCHANGED << disk, mem, fresh, failed, since >>
      BY <1>3, <2>2 DEF Window
    <3>3. holder'[at[p]] = holder[at[p]]
      BY <1>1, <2>1, <3>2 DEF TypeInv, TypeOK, Return
    <3>4. mem[at[p]].content \in Nat
      BY <1>1 DEF TypeInv, TypeOK
    <3>5. \A q \in Procs :
            q = p \/ Past(q, at[p]) \/ (Waiting(q, at[p]) /\ holder'[at[p]] = None) =>
              mem'[at[p]].content >= since[q][at[p]] \/ failed'[at[p]]
      BY <1>1, <3>1, <3>2, <3>3, <3>4 DEF FreshInv, Served, NoTime
    <3> QED
      BY <3>1, <3>2, <3>5, FreshReturn
  <2>3. CASE ~fresh[at[p]]
    <3>1. /\ pc' = [pc EXCEPT ![p] = "lock"] /\ pc[p] = "window"
          /\ since' = [since EXCEPT ![p][at[p]] = disk[at[p]]]
          /\ UNCHANGED << at, holder, stat, got, disk, mem, fresh, failed >>
      BY <1>3, <2>3 DEF Window, Goto
    <3>2. /\ pc'[p] = "lock" /\ \A q \in Procs \ { p } : pc'[q] = pc[q]
          /\ \A q \in Procs, s \in Regs : since'[q][s] =
               IF q = p /\ s = at[p] THEN disk[s] ELSE since[q][s]
      BY <1>1, <3>1 DEF TypeInv, TypeOK
    <3>3. ASSUME NEW q \in Procs, NEW s \in Regs
          PROVE  /\ Ahead(q, s)' => Ahead(q, s) /\ ~(q = p /\ s = at[p])
                 /\ Past(q, s)' => Past(q, s) /\ ~(q = p /\ s = at[p])
                 /\ Waiting(q, s)' => Waiting(q, s) /\ q # p
      BY <1>1, <2>3, <3>1, <3>2 DEF Ahead, Past, Waiting, Regs
    <3>4. ASSUME NEW q \in Procs, NEW s \in Regs
          PROVE  /\ since'[q][s] <= disk'[s]
                 /\ Ahead(q, s)' => since'[q][s] = NoTime
                 /\ Past(q, s)' => Served(q, s)'
                 /\ Waiting(q, s)' /\ holder'[s] = None => Served(q, s)'
      <4>1. disk[s] \in Nat /\ disk'[s] = disk[s]
        BY <3>1 DEF TypeInv, TypeOK
      <4> QED
        BY <3>1, <3>2, <3>3, <4>1 DEF FreshInv, Served
    <3>5. ASSUME NEW q \in Procs, NEW s \in Regs
          PROVE  ReadsEnough(q, s)'
      BY <3>1, <3>2, <3>3 DEF FreshInv, ReadsEnough
    <3> QED
      BY <3>4, <3>5 DEF FreshInv
  <2> QED
    BY <2>2, <2>3
<1>4. CASE Lock(p)
  <2>1. /\ pc[p] = "lock" /\ holder[at[p]] = None
        /\ UNCHANGED << disk, mem, fresh, failed, since >>
    BY <1>4 DEF Lock, Free
  <2>2. CASE fresh[at[p]]
    <3>1. Return(p)
      BY <1>4, <2>2 DEF Lock
    <3>2. Waiting(p, at[p])
      BY <2>1, <2>2 DEF Waiting
    <3>3. \A q \in Procs :
            q = p \/ Past(q, at[p]) \/ Waiting(q, at[p]) =>
              mem'[at[p]].content >= since[q][at[p]] \/ failed'[at[p]]
      BY <1>1, <2>1, <3>2 DEF FreshInv, Served
    <3>4. \A q \in Procs : pc[q] = "install" => at[q] # at[p]
      BY <1>1, <2>1 DEF TypeInv, TypeOK, UnderLock
    <3> QED
      BY <2>1, <3>1, <3>3, <3>4, FreshReturn
  <2>3. CASE ~fresh[at[p]]
    <3>1. /\ Goto(p, "pull") /\ UNCHANGED << at, stat, got >>
          /\ holder' = [holder EXCEPT ![at[p]] = p]
      BY <1>4, <2>3 DEF Lock
    <3>2. holder'[at[p]] = p /\ \A s \in Regs \ { at[p] } : holder'[s] = holder[s]
      BY <1>1, <3>1 DEF TypeInv, TypeOK
    <3> QED
      BY <2>1, <3>1, <3>2, FreshMove
  <2> QED
    BY <2>2, <2>3
<1>5. CASE Pulled(p)
  <2>1. /\ Goto(p, "stat1") /\ pc[p] = "pull"
        /\ UNCHANGED << disk, mem, holder, failed, at, stat, got, since >>
    BY <1>5 DEF Pulled
  <2>2. \A s \in Regs \ { at[p] } : holder'[s] = holder[s] /\ fresh'[s] = fresh[s]
    BY <1>5 DEF Pulled, TypeInv, TypeOK
  <2>3. holder'[at[p]] = p
    BY <1>2, <2>1 DEF UnderLock
  <2> QED
    BY <2>1, <2>2, <2>3, FreshMove
<1>6. CASE Guard(p)
  <2>0. /\ pc[p] = "stat1" /\ holder[at[p]] = p
        /\ UNCHANGED << disk, mem, fresh, since >>
    BY <1>2, <1>6 DEF Guard, UnderLock
  <2>1. CASE Missing(disk[at[p]]) /\ Return(p) /\ failed' = [failed EXCEPT ![at[p]] = TRUE]
    <3>1. failed'[at[p]] /\ \A s \in Regs \ { at[p] } : failed'[s] = failed[s]
      BY <1>1, <2>1 DEF TypeInv, TypeOK
    <3> QED
      BY <2>0, <2>1, <3>1, HolderReturns DEF UnderLock
  <2>2. CASE Same(at[p]) /\ Return(p) /\ failed' = [failed EXCEPT ![at[p]] = FALSE]
    <3>1. \A s \in Regs \ { at[p] } : failed'[s] = failed[s]
      BY <1>1, <2>2 DEF TypeInv, TypeOK
    <3>2. mem[at[p]].content = disk[at[p]]
      BY <1>1, <2>2 DEF TypeInv, TypeOK, EditionInv, Kept, Same
    <3>3. \A q \in Procs : mem'[at[p]].content >= since[q][at[p]]
      <4>1. \A q \in Procs : since[q][at[p]] \in Nat /\ disk[at[p]] \in Nat
        BY <1>1 DEF TypeInv, TypeOK
      <4> QED
        BY <1>1, <2>0, <3>2, <4>1 DEF FreshInv
    <3> QED
      BY <2>0, <2>2, <3>1, <3>3, HolderReturns DEF UnderLock
  <2>3. CASE Goto(p, "stat2") /\ UNCHANGED << at, holder, failed, stat, got >>
    BY <2>0, <2>3, FreshMove
  <2> QED
    BY <1>6, <2>1, <2>2, <2>3 DEF Guard
<1>7. CASE Stat(p)
  <2>0. pc[p] = "stat2" /\ holder[at[p]] = p /\ UNCHANGED << disk, fresh, since >>
    BY <1>2, <1>7 DEF Stat, UnderLock
  <2>1. CASE /\ Return(p) /\ failed' = [failed EXCEPT ![at[p]] = TRUE]
             /\ mem' = [mem EXCEPT ![at[p]] = [ mtime |-> NoTime, content |-> NoTime ]]
    <3>1. failed'[at[p]] /\ \A s \in Regs \ { at[p] } : mem'[s] = mem[s] /\ failed'[s] = failed[s]
      BY <1>1, <2>1 DEF TypeInv, TypeOK
    <3> QED
      BY <2>0, <2>1, <3>1, HolderReturns DEF UnderLock
  <2>2. CASE Goto(p, "read") /\ UNCHANGED << mem, failed, at, holder, got >>
    BY <2>0, <2>2, FreshMove
  <2> QED
    BY <1>7, <2>1, <2>2 DEF Stat
<1>8. CASE ReadFile(p)
  <2>0. pc[p] = "read" /\ holder[at[p]] = p /\ UNCHANGED << disk, mem, fresh, since >>
    BY <1>2, <1>8 DEF ReadFile, UnderLock
  <2>1. CASE Fail(p)
    <3>1. Return(p) /\ failed' = [failed EXCEPT ![at[p]] = TRUE]
      BY <1>1, <2>1 DEF Fail
    <3>2. failed'[at[p]] /\ \A s \in Regs \ { at[p] } : failed'[s] = failed[s]
      BY <1>1, <3>1 DEF TypeInv, TypeOK
    <3> QED
      BY <2>0, <3>1, <3>2, HolderReturns DEF UnderLock
  <2>2. CASE Goto(p, "install") /\ got' = [got EXCEPT ![p] = disk[at[p]]]
             /\ UNCHANGED << at, holder, failed, stat >>
    <3>1. got'[p] = disk[at[p]] /\ \A q \in Procs \ { p } : got'[q] = got[q]
      BY <1>1, <2>2 DEF TypeInv, TypeOK
    <3> QED
      BY <2>0, <2>2, <3>1, FreshMove
  <2> QED
    BY <1>8, <2>1, <2>2 DEF ReadFile
<1>9. CASE Install(p)
  <2>0. /\ pc[p] = "install" /\ Return(p) /\ UNCHANGED << disk, fresh, since >>
        /\ mem' = [mem EXCEPT ![at[p]] = [ mtime |-> stat[p], content |-> got[p] ]]
        /\ failed' = [failed EXCEPT ![at[p]] = FALSE]
    BY <1>9 DEF Install, Taken
  <2>1. /\ mem'[at[p]].content = got[p]
        /\ \A s \in Regs \ { at[p] } : mem'[s] = mem[s] /\ failed'[s] = failed[s]
    BY <1>1, <2>0 DEF TypeInv, TypeOK
  <2>2. \A q \in Procs :
          q = p \/ Past(q, at[p]) \/ Waiting(q, at[p]) => mem'[at[p]].content >= since[q][at[p]]
    BY <1>1, <2>0, <2>1 DEF FreshInv, ReadsEnough
  <2> QED
    BY <2>0, <2>1, <2>2, HolderReturns DEF UnderLock
<1>10. CASE Use(p)
  <2>1. /\ pc'[p] = "idle" /\ at'[p] = 1 /\ \A r \in Regs : since'[p][r] = NoTime
        /\ \A q \in Procs \ { p } : pc'[q] = pc[q] /\ at'[q] = at[q] /\ since'[q] = since[q]
        /\ UNCHANGED << disk, mem, fresh, holder, failed, got >>
    BY <1>1, <1>10 DEF Use, Goto, TypeInv, TypeOK
  <2>2. ASSUME NEW q \in Procs, NEW s \in Regs
        PROVE  /\ since'[q][s] <= disk'[s]
               /\ Ahead(q, s)' => since'[q][s] = NoTime
               /\ Past(q, s)' => Served(q, s)'
               /\ Waiting(q, s)' /\ holder'[s] = None => Served(q, s)'
    <3>1. disk[s] \in Nat /\ mem[s].content \in Nat /\ disk'[s] = disk[s] /\ mem'[s] = mem[s]
      BY <2>1 DEF TypeInv, TypeOK
    <3>2. CASE q = p
      BY <2>1, <3>1, <3>2 DEF Served, NoTime
    <3>3. CASE q # p
      BY <2>1, <3>3 DEF FreshInv, Served, Ahead, Past, Waiting
    <3> QED
      BY <3>2, <3>3
  <2>3. ASSUME NEW q \in Procs, NEW s \in Regs
        PROVE  ReadsEnough(q, s)'
    <3> SUFFICES ASSUME pc'[q] = "install", at'[q] = s, NEW u \in Procs,
                        u = q \/ Past(u, s)' \/ Waiting(u, s)'
                 PROVE  got'[q] >= since'[u][s]
      BY DEF ReadsEnough
    <3>1. q # p /\ pc[q] = "install" /\ at[q] = s /\ got'[q] = got[q] /\ got[q] \in Nat
      BY <1>1, <2>1 DEF TypeInv, TypeOK
    <3>2. CASE u = p
      BY <2>1, <3>1, <3>2 DEF NoTime
    <3>3. CASE u # p
      BY <2>1, <3>1, <3>3 DEF FreshInv, ReadsEnough, Past, Waiting
    <3> QED
      BY <3>2, <3>3
  <2> QED
    BY <2>2, <2>3 DEF FreshInv
<1> QED
  BY <1>3, <1>4, <1>5, <1>6, <1>7, <1>8, <1>9, <1>10 DEF Step

LEMMA FreshMain ==
  ASSUME TypeInv, TypeInv', FreshInv, Step(Main)
  PROVE  FreshInv'
<1> USE Distinct
<1>1. pc[Main] \in { "stat2", "read", "install" }
  BY DEF Step, Window, Lock, Pulled, Guard, Stat, ReadFile, Install, Use, TypeInv, MainAt
<1>2. since' = since /\ disk' = disk
  BY <1>1 DEF Step, Window, Lock, Pulled, Guard, Stat, ReadFile, Install, Use
<1>3. \A w : Goto(Main, w) => \A q \in Procs : pc'[q] = pc[q]
  BY DEF Goto, TypeInv, TypeOK, Everyone
<1>4. \A q \in Procs : pc'[q] = pc[q]
  BY <1>1, <1>3 DEF Step, Window, Lock, Pulled, Guard, Stat, ReadFile, Install, Use, Fail, Return
<1> QED
  BY <1>1, <1>2, <1>4, FreshWhileIdle DEF TypeInv

LEMMA FreshRest ==
  ASSUME TypeInv, TypeInv', FreshInv,
         \/ \E p \in Procs : Create(p)
         \/ \E r \in Regs : Checkout(r) \/ Expire(r)
         \/ Boot \/ Restart
  PROVE  FreshInv'
<1> USE Distinct
<1>1. CASE \E p \in Procs : Create(p)
  <2> PICK p \in Procs : Create(p)
    BY <1>1
  <2>1. /\ pc[p] = "idle" /\ pc'[p] = "window" /\ \A q \in Procs \ { p } : pc'[q] = pc[q]
        /\ UNCHANGED << disk, mem, fresh, holder, failed, at, got, since >>
    BY DEF Create, Goto, TypeInv, TypeOK, Everyone
  <2>2. \A r \in Regs : since[p][r] = NoTime
    BY <2>1 DEF FreshInv, Ahead
  <2>3. ASSUME NEW q \in Procs, NEW s \in Regs
        PROVE  /\ since'[q][s] <= disk'[s]
               /\ Ahead(q, s)' => since'[q][s] = NoTime
               /\ Past(q, s)' => Served(q, s)'
               /\ Waiting(q, s)' /\ holder'[s] = None => Served(q, s)'
    <3>1. mem[s].content \in Nat
      BY DEF TypeInv, TypeOK
    <3>2. CASE q = p
      BY <2>1, <2>2, <3>1, <3>2 DEF FreshInv, Served, NoTime
    <3>3. CASE q # p
      BY <2>1, <3>3 DEF FreshInv, Served, Ahead, Past, Waiting
    <3> QED
      BY <3>2, <3>3
  <2>4. ASSUME NEW q \in Procs, NEW s \in Regs
        PROVE  ReadsEnough(q, s)'
    <3> SUFFICES ASSUME pc'[q] = "install", at'[q] = s, NEW u \in Procs,
                        u = q \/ Past(u, s)' \/ Waiting(u, s)'
                 PROVE  got'[q] >= since'[u][s]
      BY DEF ReadsEnough
    <3>1. q # p /\ pc[q] = "install" /\ at[q] = s /\ got'[q] = got[q] /\ got[q] \in Nat
      BY <2>1 DEF TypeInv, TypeOK, Everyone
    <3>2. CASE u = p
      BY <2>1, <2>2, <3>1, <3>2 DEF NoTime
    <3>3. CASE u # p
      BY <2>1, <3>1, <3>3 DEF FreshInv, ReadsEnough, Past, Waiting
    <3> QED
      BY <3>2, <3>3
  <2> QED
    BY <2>3, <2>4 DEF FreshInv
<1>2. CASE \E r \in Regs : Checkout(r)
  <2> PICK r \in Regs : Checkout(r)
    BY <1>2
  <2>1. \A s \in Regs : disk'[s] >= disk[s] /\ disk[s] \in Nat /\ disk'[s] \in Nat
    BY DEF Checkout, TypeInv, TypeOK
  <2>2. ASSUME NEW q \in Procs, NEW s \in Regs
        PROVE  since[q][s] <= disk'[s]
    <3>1. since[q][s] \in Nat
      BY DEF TypeInv, TypeOK, Everyone
    <3> QED
      BY <2>1, <3>1 DEF FreshInv
  <2> QED
    BY <2>2 DEF Checkout, FreshInv, Ahead, Past, Waiting, Served, ReadsEnough
<1>3. CASE \E r \in Regs : Expire(r)
  <2> PICK r \in Regs : Expire(r)
    BY <1>3
  <2>1. \A s \in Regs : fresh'[s] => fresh[s]
    BY DEF Expire, TypeInv, TypeOK
  <2> QED
    BY <2>1 DEF Expire, FreshInv, Ahead, Past, Waiting, Served, ReadsEnough
<1>4. CASE Boot
  <2>1. pc[Main] = "down" /\ UNCHANGED << since, disk >>
    BY <1>4 DEF Boot
  <2>2. \A q \in Procs : pc'[q] = pc[q]
    BY <1>4 DEF Boot, Goto, TypeInv, TypeOK, Everyone
  <2> QED
    BY <2>1, <2>2, FreshWhileIdle DEF TypeInv
<1>5. CASE Restart
  <2>1. /\ \A q \in Procs : pc'[q] = "idle" /\ at'[q] = 1 /\ \A s \in Regs : since'[q][s] = NoTime
        /\ disk' = disk
    BY <1>5 DEF Restart, Everyone
  <2>2. \A s \in Regs : mem'[s].content \in Nat /\ disk[s] \in Nat
    BY DEF TypeInv, TypeOK
  <2> QED
    BY <2>1, <2>2 DEF FreshInv, Served, Waiting, ReadsEnough, NoTime
<1> QED
  BY <1>1, <1>2, <1>3, <1>4, <1>5

LEMMA FreshInvariance == Spec => []FreshInv
<1>1. TypeInv /\ TypeInv' /\ EditionInv /\ FreshInv /\ [Next]_vars => FreshInv'
  <2> SUFFICES ASSUME TypeInv, TypeInv', EditionInv, FreshInv, [Next]_vars
               PROVE  FreshInv'
    OBVIOUS
  <2>1. CASE UNCHANGED vars
    BY <2>1 DEF vars, FreshInv, Ahead, Past, Waiting, Served, ReadsEnough
  <2>2. CASE \E p \in Everyone : Step(p)
    BY <2>2, FreshStep, FreshMain DEF Everyone
  <2>3. CASE ~(\E p \in Everyone : Step(p)) /\ Next
    BY <2>3, FreshRest DEF Next
  <2> QED
    BY <2>1, <2>2, <2>3
<1> QED
  BY <1>1, FreshInit, TypeInvariance, EditionInvariance, PTL DEF Spec

\* A create that finds the debounce window expired works with rules as new as
\* the file was then, whoever pulls and reads for it, or the reload has failed.
THEOREM FreshRulesAreUsed == Spec => []FreshRulesApply
<1>1. TypeInv /\ FreshInv => FreshRulesApply
  BY DEF FreshInv, Past, Served, FreshRulesApply
<1> QED
  BY <1>1, TypeInvariance, FreshInvariance, PTL
=============================================================================
