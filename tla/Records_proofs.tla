---------------------------- MODULE Records_proofs ----------------------------
(* What is proved about sprints and frozen intents, for any number of        *)
(* goroutines, requests, sprints and tasks.                                  *)
EXTENDS Records, TLAPS

Filling == { "members", "commit" }

\* What a goroutine serves at each place.
Serving(p) ==
  /\ pc[p] \in { "check", "sprint" } => req[p].kind = "create"
  /\ pc[p] = "exists" => req[p].kind = "add"
  /\ pc[p] \in { "look", "shut" } => req[p].kind = "close"
  /\ pc[p] \in { "read", "archive", "freeze" } => req[p].kind = "freeze"
  /\ pc[p] = "write" => req[p].kind = "update"
  /\ pc[p] = "members" => req[p].kind \in { "create", "add" }
  /\ pc[p] = "commit" => req[p].kind \in { "create", "add", "freeze" }

\* Whoever is busy has a request, whose sprint is 1 where the kind has none.
Asked(p) ==
  pc[p] # "idle" =>
    /\ req[p] \in Request
    /\ req[p].kind \notin { "add", "close" } => req[p].sprint = 1

\* The row a create fills is the one it has inserted.
Inserted(p) ==
  pc[p] \in Filling /\ req[p].kind = "create" => newSprint[p] \in Sprints

PlaceInv == \A p \in Procs : Serving(p) /\ Asked(p) /\ Inserted(p)

TypeInv == TypeOK /\ PlaceInv

\* TypeOK in four parts.
RowTypes ==
  /\ sprint \in [Sprints -> [ status : { "OPEN", "CLOSED" }, closedAt : Nat ] \cup {Nil}]
  /\ members \subseteq Sprints \X Tasks
  /\ nextId \in 1 .. MaxSprints + 1 /\ clock \in Nat

Version == [ version : Nat, intent : Texts \cup {Nil} ]

IntentTypes ==
  /\ text \in Texts
  /\ intent \in Version
  /\ history \subseteq [ version : Nat, intent : Texts ]
  /\ seen \in [Procs -> [ text : Texts, now : Version ]]

DraftTypes ==
  /\ todo \in [Procs -> SUBSET UNION Scopes]
  /\ adding \in [Procs -> SUBSET (Sprints \X Tasks)]
  /\ newSprint \in [Procs -> 0 .. MaxSprints]

PlaceTypes ==
  /\ lock \in Procs \cup {Nil}
  /\ pc \in [Procs -> { "idle", "check", "sprint", "exists", "members", "look", "shut",
                        "read", "archive", "freeze", "write", "commit", "answer" }]
  /\ req \in [Procs -> Request \cup {Nil}]
  /\ code \in [Procs -> { "200", "closed", "400", "404", "422", "500", Nil }]
  /\ served \in 0 .. MaxRequests
  /\ overtaken \in [Procs -> BOOLEAN]

\* The steps of one goroutine.
Moves(p) ==
  \/ Receive(p) \/ CheckOpen(p) \/ InsertSprint(p) \/ SprintExists(p)
  \/ InsertMember(p) \/ LookAtSprint(p) \/ ReadIntent(p) \/ ArchiveIntent(p)
  \/ FreezeIntent(p) \/ Fail(p) \/ Answer(p)
  \/ \E c \in { "200", "500" } :
       CommitSprint(p, c) \/ ShutSprint(p, c) \/ CommitFreeze(p, c) \/ UpdateText(p, c)

LEMMA StepIsOfOne ==
  ASSUME [Next]_vars
  PROVE  UNCHANGED vars \/ \E p \in Procs : Moves(p)
BY DEF Next, Moves, Quiescent, Commit, CommitUnacked, Land

LEMMA Bounds ==
  /\ MaxSprints \in Nat /\ MaxSprints > 0 /\ MaxRequests \in Nat
  /\ "neither" \in Texts /\ Nil \notin Texts /\ Nil \notin Procs /\ Nil \notin Request
<1>1. MaxSprints \in Nat \ {0}
  BY RecordsAssumption
<1>2. /\ MaxRequests \in Nat /\ "neither" \in Texts
      /\ Nil \notin Texts /\ Nil \notin Procs /\ Nil \notin Request
  BY RecordsAssumption
<1> QED
  BY <1>1, <1>2

LEMMA TypeParts == TypeOK <=> RowTypes /\ IntentTypes /\ DraftTypes /\ PlaceTypes
BY DEF TypeOK, RowTypes, IntentTypes, DraftTypes, PlaceTypes, Version

LEMMA TypeInit == Init => TypeInv
<1> SUFFICES ASSUME Init PROVE TypeInv
  OBVIOUS
<1> USE Bounds DEF Init
<1>1. RowTypes
  BY DEF RowTypes, Sprints
<1>2. IntentTypes
  <2>1. Unfrozen \in Version
    BY DEF Unfrozen, Version
  <2> QED
    BY <2>1 DEF IntentTypes
<1>3. DraftTypes /\ PlaceTypes
  BY DEF DraftTypes, PlaceTypes
<1>4. PlaceInv
  BY DEF PlaceInv, Serving, Asked, Inserted, Filling
<1> QED
  BY <1>1, <1>2, <1>3, <1>4, TypeParts DEF TypeInv

\* What p leaves alone of the others.
Apart(p) ==
  \A q \in Procs \ {p} :
    /\ pc'[q] = pc[q] /\ req'[q] = req[q] /\ code'[q] = code[q]
    /\ newSprint'[q] = newSprint[q] /\ todo'[q] = todo[q] /\ adding'[q] = adding[q]
    /\ seen'[q] = seen[q]
    /\ overtaken[q] => overtaken'[q]

LEMMA TypeStep ==
  ASSUME TypeInv, NEW p \in Procs, Moves(p)
  PROVE  TypeInv' /\ Apart(p)
<1> DEFINE Mine == Serving(p)' /\ Asked(p)' /\ Inserted(p)'
           Goal == TypeInv' /\ Apart(p)
<1>a. RowTypes /\ IntentTypes /\ DraftTypes /\ PlaceTypes
  BY TypeParts DEF TypeInv
<1>b. Serving(p) /\ Asked(p) /\ Inserted(p)
  BY DEF TypeInv, PlaceInv
<1>d. pc[p] # "idle" => /\ req[p].scope \in SUBSET UNION Scopes
                       /\ req[p].sprint \in Sprints /\ req[p].text \in Texts
  BY <1>b DEF Asked, Request
<1>c. ASSUME RowTypes', IntentTypes', DraftTypes', PlaceTypes', Apart(p), Mine PROVE Goal
  <2>1. TypeOK'
    BY <1>c DEF TypeOK, RowTypes, IntentTypes, DraftTypes, PlaceTypes, Version
  <2>2. ASSUME NEW q \in Procs PROVE (Serving(q) /\ Asked(q) /\ Inserted(q))'
    <3>1. CASE q = p
      BY <1>c, <3>1
    <3>2. CASE q # p
      BY <1>c, <3>2 DEF Apart, TypeInv, PlaceInv, Serving, Asked, Inserted
    <3> QED
      BY <3>1, <3>2
  <2> QED
    BY <1>c, <2>1, <2>2 DEF TypeInv, PlaceInv
<1> SUFFICES Goal
  OBVIOUS
<1> HIDE DEF Goal
<1> USE Bounds DEF Goto, Reply, database, locals
<1>1. CASE Receive(p)
  <2>1. RowTypes' /\ IntentTypes' /\ DraftTypes'
    BY <1>a, <1>1 DEF Receive, RowTypes, IntentTypes, DraftTypes
  <2>2. PlaceTypes'
    BY <1>a, <1>b, <1>d, <1>1 DEF Receive, PlaceTypes, FirstStep, Request, AllKinds
  <2>3. Apart(p)
    BY <1>a, <1>1 DEF Receive, Apart, Overtake, PlaceTypes, DraftTypes, IntentTypes
  <2>4. Mine
    BY <1>a, <1>b, <1>1 DEF Receive, FirstStep, Request, AllKinds, PlaceTypes, DraftTypes, Serving, Asked, Inserted, Filling
  <2> QED
    BY <1>c, <2>1, <2>2, <2>3, <2>4
<1>2. CASE CheckOpen(p)
  <2>1. RowTypes' /\ IntentTypes' /\ DraftTypes'
    BY <1>a, <1>2 DEF CheckOpen, RowTypes, IntentTypes, DraftTypes
  <2>2. PlaceTypes'
    BY <1>a, <1>b, <1>d, <1>2 DEF CheckOpen, PlaceTypes
  <2>3. Apart(p)
    BY <1>a, <1>2 DEF CheckOpen, Apart, Overtake, PlaceTypes, DraftTypes, IntentTypes
  <2>4. Mine
    BY <1>a, <1>b, <1>2 DEF CheckOpen, PlaceTypes, DraftTypes, Serving, Asked, Inserted, Filling
  <2> QED
    BY <1>c, <2>1, <2>2, <2>3, <2>4
<1>3. CASE InsertSprint(p)
  <2>1. IntentTypes'
    BY <1>a, <1>3 DEF InsertSprint, IntentTypes
  <2>2. RowTypes'
    BY <1>a, <1>b, <1>d, <1>3 DEF InsertSprint, RowTypes, Sprints
  <2>3. DraftTypes'
    BY <1>a, <1>b, <1>d, <1>3 DEF InsertSprint, DraftTypes, Sprints, Serving, Sprints
  <2>4. PlaceTypes'
    BY <1>a, <1>b, <1>d, <1>3 DEF InsertSprint, PlaceTypes, Serving
  <2>5. Apart(p)
    BY <1>a, <1>3 DEF InsertSprint, Apart, Overtake, PlaceTypes, DraftTypes, IntentTypes
  <2>6. Mine
    BY <1>a, <1>b, <1>3 DEF InsertSprint, Sprints, PlaceTypes, DraftTypes, Serving, Asked, Inserted, Filling
  <2> QED
    BY <1>c, <2>1, <2>2, <2>3, <2>4, <2>5, <2>6
<1>4. CASE SprintExists(p)
  <2>1. RowTypes' /\ IntentTypes'
    BY <1>a, <1>4 DEF SprintExists, RowTypes, IntentTypes
  <2>2. DraftTypes'
    BY <1>a, <1>b, <1>d, <1>4 DEF SprintExists, DraftTypes
  <2>3. PlaceTypes'
    BY <1>a, <1>b, <1>d, <1>4 DEF SprintExists, PlaceTypes
  <2>4. Apart(p)
    BY <1>a, <1>4 DEF SprintExists, Apart, Overtake, PlaceTypes, DraftTypes, IntentTypes
  <2>5. Mine
    BY <1>a, <1>b, <1>4 DEF SprintExists, PlaceTypes, DraftTypes, Serving, Asked, Inserted, Filling
  <2> QED
    BY <1>c, <2>1, <2>2, <2>3, <2>4, <2>5
<1>5. CASE InsertMember(p)
  <2>1. RowTypes' /\ IntentTypes'
    BY <1>a, <1>5 DEF InsertMember, RowTypes, IntentTypes
  <2>2. DraftTypes'
    BY <1>a, <1>b, <1>d, <1>5 DEF InsertMember, DraftTypes, TargetOf, LeftAfter, Request, Inserted, Filling
  <2>3. PlaceTypes'
    BY <1>a, <1>b, <1>d, <1>5 DEF InsertMember, PlaceTypes
  <2>4. Apart(p)
    BY <1>a, <1>5 DEF InsertMember, Apart, Overtake, PlaceTypes, DraftTypes, IntentTypes
  <2>5. Mine
    BY <1>a, <1>b, <1>5 DEF InsertMember, LeftAfter, PlaceTypes, DraftTypes, Serving, Asked, Inserted, Filling
  <2> QED
    BY <1>c, <2>1, <2>2, <2>3, <2>4, <2>5
<1>6. CASE LookAtSprint(p)
  <2>1. RowTypes' /\ IntentTypes' /\ DraftTypes'
    BY <1>a, <1>6 DEF LookAtSprint, RowTypes, IntentTypes, DraftTypes
  <2>2. PlaceTypes'
    BY <1>a, <1>b, <1>d, <1>6 DEF LookAtSprint, PlaceTypes
  <2>3. Apart(p)
    BY <1>a, <1>6 DEF LookAtSprint, Apart, Overtake, PlaceTypes, DraftTypes, IntentTypes
  <2>4. Mine
    BY <1>a, <1>b, <1>6 DEF LookAtSprint, PlaceTypes, DraftTypes, Serving, Asked, Inserted, Filling
  <2> QED
    BY <1>c, <2>1, <2>2, <2>3, <2>4
<1>7. CASE ReadIntent(p)
  <2>1. RowTypes' /\ DraftTypes'
    BY <1>a, <1>7 DEF ReadIntent, RowTypes, DraftTypes
  <2>2. IntentTypes'
    BY <1>a, <1>b, <1>d, <1>7 DEF ReadIntent, IntentTypes
  <2>3. PlaceTypes'
    BY <1>a, <1>b, <1>d, <1>7 DEF ReadIntent, PlaceTypes
  <2>4. Apart(p)
    BY <1>a, <1>7 DEF ReadIntent, Apart, Overtake, PlaceTypes, DraftTypes, IntentTypes
  <2>5. Mine
    BY <1>a, <1>b, <1>7 DEF ReadIntent, PlaceTypes, DraftTypes, Serving, Asked, Inserted, Filling
  <2> QED
    BY <1>c, <2>1, <2>2, <2>3, <2>4, <2>5
<1>8. CASE ArchiveIntent(p)
  <2>1. RowTypes' /\ IntentTypes' /\ DraftTypes'
    BY <1>a, <1>8 DEF ArchiveIntent, RowTypes, IntentTypes, DraftTypes
  <2>2. PlaceTypes'
    BY <1>a, <1>b, <1>d, <1>8 DEF ArchiveIntent, PlaceTypes
  <2>3. Apart(p)
    BY <1>a, <1>8 DEF ArchiveIntent, Apart, Overtake, PlaceTypes, DraftTypes, IntentTypes
  <2>4. Mine
    BY <1>a, <1>b, <1>8 DEF ArchiveIntent, PlaceTypes, DraftTypes, Serving, Asked, Inserted, Filling
  <2> QED
    BY <1>c, <2>1, <2>2, <2>3, <2>4
<1>9. CASE FreezeIntent(p)
  <2>1. RowTypes' /\ IntentTypes' /\ DraftTypes'
    BY <1>a, <1>9 DEF FreezeIntent, RowTypes, IntentTypes, DraftTypes
  <2>2. PlaceTypes'
    BY <1>a, <1>b, <1>d, <1>9 DEF FreezeIntent, PlaceTypes
  <2>3. Apart(p)
    BY <1>a, <1>9 DEF FreezeIntent, Apart, Overtake, PlaceTypes, DraftTypes, IntentTypes
  <2>4. Mine
    BY <1>a, <1>b, <1>9 DEF FreezeIntent, PlaceTypes, DraftTypes, Serving, Asked, Inserted, Filling
  <2> QED
    BY <1>c, <2>1, <2>2, <2>3, <2>4
<1>10. ASSUME NEW c \in { "200", "500" }, CommitSprint(p, c) PROVE Goal
  <2>1. IntentTypes'
    BY <1>a, <1>10 DEF CommitSprint, IntentTypes
  <2>2. RowTypes'
    BY <1>a, <1>b, <1>d, <1>10 DEF CommitSprint, RowTypes, Inserted, Filling, DraftTypes
  <2>3. DraftTypes'
    BY <1>a, <1>b, <1>d, <1>10 DEF CommitSprint, DraftTypes
  <2>4. PlaceTypes'
    BY <1>a, <1>b, <1>d, <1>10 DEF CommitSprint, PlaceTypes, Overtake
  <2>5. Apart(p)
    BY <1>a, <1>10 DEF CommitSprint, Apart, Overtake, PlaceTypes, DraftTypes, IntentTypes
  <2>6. Mine
    BY <1>a, <1>b, <1>10 DEF CommitSprint, PlaceTypes, DraftTypes, Serving, Asked, Inserted, Filling
  <2> QED
    BY <1>c, <2>1, <2>2, <2>3, <2>4, <2>5, <2>6
<1>11. ASSUME NEW c \in { "200", "500" }, ShutSprint(p, c) PROVE Goal
  <2>1. IntentTypes' /\ DraftTypes'
    BY <1>a, <1>11 DEF ShutSprint, IntentTypes, DraftTypes
  <2>2. RowTypes'
    BY <1>a, <1>b, <1>d, <1>11 DEF ShutSprint, RowTypes
  <2>3. PlaceTypes'
    BY <1>a, <1>b, <1>d, <1>11 DEF ShutSprint, PlaceTypes, Overtake
  <2>4. Apart(p)
    BY <1>a, <1>11 DEF ShutSprint, Apart, Overtake, PlaceTypes, DraftTypes, IntentTypes
  <2>5. Mine
    BY <1>a, <1>b, <1>11 DEF ShutSprint, PlaceTypes, DraftTypes, Serving, Asked, Inserted, Filling
  <2> QED
    BY <1>c, <2>1, <2>2, <2>3, <2>4, <2>5
<1>12. ASSUME NEW c \in { "200", "500" }, CommitFreeze(p, c) PROVE Goal
  <2>1. RowTypes' /\ DraftTypes'
    BY <1>a, <1>12 DEF CommitFreeze, RowTypes, DraftTypes
  <2>2. IntentTypes'
    BY <1>a, <1>b, <1>d, <1>12 DEF CommitFreeze, IntentTypes, Version, NextVersion
  <2>3. PlaceTypes'
    BY <1>a, <1>b, <1>d, <1>12 DEF CommitFreeze, PlaceTypes, Overtake
  <2>4. Apart(p)
    BY <1>a, <1>12 DEF CommitFreeze, Apart, Overtake, PlaceTypes, DraftTypes, IntentTypes
  <2>5. Mine
    BY <1>a, <1>b, <1>12 DEF CommitFreeze, PlaceTypes, DraftTypes, Serving, Asked, Inserted, Filling
  <2> QED
    BY <1>c, <2>1, <2>2, <2>3, <2>4, <2>5
<1>13. ASSUME NEW c \in { "200", "500" }, UpdateText(p, c) PROVE Goal
  <2>1. RowTypes' /\ DraftTypes'
    BY <1>a, <1>13 DEF UpdateText, RowTypes, DraftTypes
  <2>2. IntentTypes'
    BY <1>a, <1>b, <1>d, <1>13 DEF UpdateText, IntentTypes
  <2>3. PlaceTypes'
    BY <1>a, <1>b, <1>d, <1>13 DEF UpdateText, PlaceTypes
  <2>4. Apart(p)
    BY <1>a, <1>13 DEF UpdateText, Apart, Overtake, PlaceTypes, DraftTypes, IntentTypes
  <2>5. Mine
    BY <1>a, <1>b, <1>13 DEF UpdateText, PlaceTypes, DraftTypes, Serving, Asked, Inserted, Filling
  <2> QED
    BY <1>c, <2>1, <2>2, <2>3, <2>4, <2>5
<1>14. CASE Fail(p)
  <2>1. RowTypes' /\ IntentTypes'
    BY <1>a, <1>14 DEF Fail, RowTypes, IntentTypes
  <2>2. DraftTypes'
    BY <1>a, <1>b, <1>d, <1>14 DEF Fail, DraftTypes
  <2>3. PlaceTypes'
    BY <1>a, <1>b, <1>d, <1>14 DEF Fail, PlaceTypes
  <2>4. Apart(p)
    BY <1>a, <1>14 DEF Fail, Apart, Overtake, PlaceTypes, DraftTypes, IntentTypes
  <2>5. Mine
    BY <1>a, <1>b, <1>14 DEF Fail, PlaceTypes, DraftTypes, Serving, Asked, Inserted, Filling
  <2> QED
    BY <1>c, <2>1, <2>2, <2>3, <2>4, <2>5
<1>15. CASE Answer(p)
  <2>1. RowTypes'
    BY <1>a, <1>15 DEF Answer, RowTypes
  <2>2. IntentTypes'
    BY <1>a, <1>b, <1>d, <1>15 DEF Answer, IntentTypes, Unfrozen, Version
  <2>3. DraftTypes'
    BY <1>a, <1>b, <1>d, <1>15 DEF Answer, DraftTypes
  <2>4. PlaceTypes'
    BY <1>a, <1>b, <1>d, <1>15 DEF Answer, PlaceTypes
  <2>5. Apart(p)
    BY <1>a, <1>15 DEF Answer, Apart, Overtake, PlaceTypes, DraftTypes, IntentTypes
  <2>6. Mine
    BY <1>a, <1>b, <1>15 DEF Answer, PlaceTypes, DraftTypes, Serving, Asked, Inserted, Filling
  <2> QED
    BY <1>c, <2>1, <2>2, <2>3, <2>4, <2>5, <2>6
<1> QED
  BY <1>1, <1>2, <1>3, <1>4, <1>5, <1>6, <1>7, <1>8, <1>9, <1>10, <1>11, <1>12, <1>13, <1>14, <1>15
     DEF Moves, Goal

LEMMA TypeInvariance == Spec => []TypeInv
<1>1. TypeInv /\ [Next]_vars => TypeInv'
  <2>1. ASSUME TypeInv, UNCHANGED vars PROVE TypeInv'
    BY <2>1 DEF vars, database, locals, TypeInv, TypeOK, PlaceInv, Serving, Asked, Inserted
  <2> QED
    BY <2>1, TypeStep, StepIsOfOne
<1> QED
  BY <1>1, TypeInit, PTL DEF Spec

\* Types, and that the ids, versions and rows that are written are real ones.
THEOREM TypeCorrect == Spec => []TypeOK
<1>1. TypeInv => TypeOK
  BY DEF TypeInv
<1> QED
  BY <1>1, TypeInvariance, PTL

-----------------------------------------------------------------------------
(* Not overtaken means that what was seen is still so. *)

Creating(p) ==
  pc[p] \in { "sprint", "members", "commit" } /\ req[p].kind = "create" => NoneOpen

Closing(p) ==
  pc[p] = "shut" => ~(sprint[req[p].sprint] # Nil /\ sprint[req[p].sprint].status = "CLOSED")

Freezing(p) ==
  pc[p] \in { "archive", "freeze", "commit" } /\ req[p].kind = "freeze" =>
    seen[p].now = intent

StillSo(p) == ~overtaken[p] => Creating(p) /\ Closing(p) /\ Freezing(p)

\* Every create that is under way has an id of its own.
IdsApart ==
  /\ \A p \in Procs : newSprint[p] < nextId
  /\ \A p, q \in Procs : p # q /\ newSprint[p] = newSprint[q] => newSprint[p] = 0

OverlapInv == IdsApart /\ \A p \in Procs : StillSo(p)

LEMMA OverlapInit == Init => OverlapInv
BY DEF Init, OverlapInv, IdsApart, StillSo, Creating, Closing, Freezing

LEMMA OverlapStep ==
  ASSUME TypeInv, OverlapInv, NEW p \in Procs, Moves(p)
  PROVE  OverlapInv'
<1>a. RowTypes /\ IntentTypes /\ DraftTypes /\ PlaceTypes
  BY TypeParts DEF TypeInv
<1>b. Serving(p) /\ Asked(p) /\ Inserted(p)
  BY DEF TypeInv, PlaceInv
<1>c. Apart(p)
  BY TypeStep
<1>d. StillSo(p)
  BY DEF OverlapInv
<1> USE Bounds DEF Goto, Reply, database, locals
<1>1. IdsApart'
  <2>1. CASE InsertSprint(p)
    BY <1>a, <1>c, <2>1 DEF InsertSprint, OverlapInv, IdsApart, Apart, Sprints, RowTypes, DraftTypes
  <2>2. CASE Answer(p)
    BY <1>a, <1>c, <2>2 DEF Answer, OverlapInv, IdsApart, Apart, RowTypes, DraftTypes
  <2>3. CASE ~InsertSprint(p) /\ ~Answer(p)
    <3>1. UNCHANGED << newSprint, nextId >>
      BY <2>3 DEF Moves, Receive, CheckOpen, SprintExists, InsertMember, LookAtSprint,
                  ReadIntent, ArchiveIntent, FreezeIntent, Fail, CommitSprint, ShutSprint,
                  CommitFreeze, UpdateText
    <3> QED
      BY <3>1 DEF OverlapInv, IdsApart
  <2> QED
    BY <2>1, <2>2, <2>3
<1>2. ASSUME NEW q \in Procs PROVE StillSo(q)'
  <2>1. CASE q # p /\ UNCHANGED << sprint, intent >>
    BY <1>c, <2>1 DEF OverlapInv, StillSo, Creating, Closing, Freezing, Apart, NoneOpen, Open
  <2>2. CASE q = p /\ (Receive(p) \/ Fail(p) \/ Answer(p))
    BY <1>a, <2>2 DEF Receive, Fail, Answer, FirstStep, StillSo, Creating, Closing, Freezing,
                      PlaceTypes, Request, AllKinds
  <2>3. CASE q = p /\ (CheckOpen(p) \/ InsertSprint(p) \/ InsertMember(p) \/ SprintExists(p))
    BY <1>a, <1>b, <1>d, <2>3 DEF CheckOpen, InsertSprint, InsertMember, SprintExists, Serving,
       StillSo, Creating, Closing, Freezing, NoneOpen, Open, PlaceTypes
  <2>4. CASE q = p /\ LookAtSprint(p)
    BY <1>a, <1>b, <2>4 DEF LookAtSprint, StillOpen, StillSo, Creating, Closing, Freezing,
                            PlaceTypes
  <2>5. CASE q = p /\ (ReadIntent(p) \/ ArchiveIntent(p) \/ FreezeIntent(p))
    BY <1>a, <1>b, <1>d, <2>5 DEF ReadIntent, ArchiveIntent, FreezeIntent, Serving, StillSo,
       Creating, Closing, Freezing, PlaceTypes, IntentTypes
  <2>6. ASSUME NEW c \in { "200", "500" }, CommitSprint(p, c) PROVE StillSo(q)'
    <3>1. CASE q = p
      BY <1>a, <2>6, <3>1 DEF CommitSprint, StillSo, Creating, Closing, Freezing, PlaceTypes
    <3>2. CASE q # p /\ req[p].kind = "create"
      <4>1. /\ overtaken[q] => overtaken'[q]
            /\ pc'[q] = pc[q] /\ req'[q] = req[q] /\ UNCHANGED intent /\ seen'[q] = seen[q]
        BY <1>c, <2>6, <3>2 DEF Apart, CommitSprint
      <4>2. Creating(q)' \/ overtaken'[q]
        <5>1. pc[q] # "idle" /\ req[q].kind = "create" => req[q] # Nil /\ req[q].sprint = 1
          BY DEF TypeInv, PlaceInv, Asked
        <5>2. req[p].sprint = 1
          BY <1>b, <2>6, <3>2 DEF Asked, CommitSprint
        <5> QED
          BY <1>a, <2>6, <3>2, <4>1, <5>1, <5>2 DEF CommitSprint, Overtake, Creating, PlaceTypes
      <4>3. Closing(q) => Closing(q)'
        <5>1. sprint' = [sprint EXCEPT ![newSprint[p]] = [ status |-> "OPEN", closedAt |-> 0 ]]
          BY <2>6, <3>2 DEF CommitSprint
        <5>2. pc[q] = "shut" => req[q].sprint \in Sprints
          BY DEF TypeInv, PlaceInv, Asked, Request
        <5> QED
          BY <1>a, <4>1, <5>1, <5>2 DEF Closing, RowTypes
      <4>4. Freezing(q) => Freezing(q)'
        BY <4>1 DEF Freezing
      <4>5. StillSo(q)
        BY DEF OverlapInv
      <4> QED
        BY <4>1, <4>2, <4>3, <4>4, <4>5 DEF StillSo
    <3>3. CASE q # p /\ req[p].kind # "create"
      BY <2>1, <2>6, <3>3 DEF CommitSprint
    <3> QED
      BY <3>1, <3>2, <3>3
  <2>7. ASSUME NEW c \in { "200", "500" }, ShutSprint(p, c) PROVE StillSo(q)'
    <3>1. CASE q = p
      BY <1>a, <2>7, <3>1 DEF ShutSprint, StillSo, Creating, Closing, Freezing, PlaceTypes
    <3>2. CASE q # p
      BY <1>a, <1>b, <1>c, <2>7, <3>2 DEF ShutSprint, Overtake, OverlapInv, StillSo, Creating,
         Closing, Freezing, NoneOpen, Open, PlaceTypes, RowTypes, Apart, Asked, Serving,
         TypeInv, PlaceInv, Request
    <3> QED
      BY <3>1, <3>2
  <2>8. ASSUME NEW c \in { "200", "500" }, CommitFreeze(p, c) PROVE StillSo(q)'
    <3>1. CASE q = p
      BY <1>a, <2>8, <3>1 DEF CommitFreeze, StillSo, Creating, Closing, Freezing, PlaceTypes
    <3>2. CASE q # p
      BY <1>a, <1>b, <1>c, <2>8, <3>2 DEF CommitFreeze, Overtake, OverlapInv, StillSo, Creating,
         Closing, Freezing, NoneOpen, Open, PlaceTypes, Apart, Asked, Serving, TypeInv, PlaceInv
    <3> QED
      BY <3>1, <3>2
  <2>9. ASSUME NEW c \in { "200", "500" }, UpdateText(p, c) PROVE StillSo(q)'
    BY <1>a, <2>1, <2>9 DEF UpdateText, StillSo, Creating, Closing, Freezing, PlaceTypes
  <2>10. CASE UNCHANGED << sprint, intent >>
    BY <2>1, <2>2, <2>3, <2>4, <2>5, <2>6, <2>7, <2>8, <2>9, <2>10 DEF Moves
  <2>11. CASE ~UNCHANGED << sprint, intent >>
    BY <2>6, <2>7, <2>8, <2>9, <2>11
       DEF Moves, Receive, CheckOpen, InsertSprint, SprintExists, InsertMember, LookAtSprint,
           ReadIntent, ArchiveIntent, FreezeIntent, Fail, Answer
  <2> QED
    BY <2>10, <2>11
<1> QED
  BY <1>1, <1>2 DEF OverlapInv

LEMMA OverlapInvariance == Spec => [](TypeInv /\ OverlapInv)
<1>1. TypeInv /\ OverlapInv /\ [Next]_vars => OverlapInv'
  <2>1. ASSUME OverlapInv, UNCHANGED vars PROVE OverlapInv'
    BY <2>1 DEF vars, database, locals, OverlapInv, IdsApart, StillSo, Creating, Closing,
                Freezing, NoneOpen, Open
  <2> QED
    BY <2>1, OverlapStep, StepIsOfOne
<1> QED
  BY <1>1, OverlapInit, TypeInvariance, PTL DEF Spec

\* A sprint is opened beside an OPEN one only by a create that another create
\* has overtaken after it looked, whoever adds, closes or fails in between.
THEOREM SecondOpenNeedsOverlap == Spec => TwoOpenNeedOverlap
<1> DEFINE Opens == \A p \in Procs : \A s, u \in Sprints :
             Open(s) /\ ~Open(u) /\ Open(u)' /\ newSprint[p] = u => overtaken[p]
<1>1. ASSUME TypeInv, OverlapInv, [Next]_vars PROVE Opens
  <2> SUFFICES ASSUME NEW p \in Procs, NEW s \in Sprints, NEW u \in Sprints,
                      Open(s), ~Open(u), Open(u)', newSprint[p] = u, ~overtaken[p]
               PROVE  FALSE
    OBVIOUS
  <2>1. PICK q \in Procs : Moves(q)
    BY <1>1, StepIsOfOne DEF vars, database, Open
  <2>2. RowTypes /\ DraftTypes
    BY <1>1, TypeParts DEF TypeInv
  <2>3. PICK c \in { "200", "500" } : CommitSprint(q, c) \/ ShutSprint(q, c)
    BY <2>1 DEF Moves, Receive, CheckOpen, InsertSprint, SprintExists, InsertMember, LookAtSprint,
                ReadIntent, ArchiveIntent, FreezeIntent, Fail, Answer, CommitFreeze, UpdateText,
                database, locals, Open
  <2>4. CASE ShutSprint(q, c)
    BY <2>2, <2>4 DEF ShutSprint, Open, RowTypes
  <2>5. CASE CommitSprint(q, c)
    <3>1. req[q].kind = "create" /\ newSprint[q] = u
      BY <2>2, <2>5 DEF CommitSprint, Open, RowTypes
    <3>2. q = p
      BY <1>1, <3>1, Bounds DEF OverlapInv, IdsApart, Sprints
    <3> QED
      BY <1>1, <2>5, <3>1, <3>2 DEF OverlapInv, StillSo, Creating, CommitSprint, NoneOpen
  <2> QED
    BY <2>3, <2>4, <2>5
<1> HIDE DEF Opens
<1>2. Spec => [][Opens]_vars
  BY <1>1, OverlapInvariance, PTL DEF Spec
<1> QED
  BY <1>2 DEF TwoOpenNeedOverlap, Opens

\* closed_at is written a second time only by a close that another close of the
\* same sprint has overtaken.
THEOREM SecondCloseNeedsOverlap == Spec => ClosedAtNeedsOverlap
<1> DEFINE Closes == \A p \in Procs : \A s \in Sprints :
             /\ sprint[s] # Nil /\ sprint[s].status = "CLOSED" /\ sprint'[s] # sprint[s]
             /\ pc[p] = "shut" /\ pc'[p] = "answer"
             => overtaken[p]
<1>1. ASSUME TypeInv, OverlapInv, [Next]_vars PROVE Closes
  <2> SUFFICES ASSUME NEW p \in Procs, NEW s \in Sprints, sprint[s] # Nil,
                      sprint[s].status = "CLOSED", sprint'[s] # sprint[s],
                      pc[p] = "shut", pc'[p] = "answer", ~overtaken[p]
               PROVE  FALSE
    OBVIOUS
  <2>1. PICK q \in Procs : Moves(q)
    BY <1>1, StepIsOfOne DEF vars, database
  <2>2. q = p
    BY <1>1, <2>1, TypeStep DEF Apart
  <2>3. PICK c \in { "200", "500" } : ShutSprint(p, c)
    BY <2>1, <2>2 DEF Moves, Receive, CheckOpen, InsertSprint, SprintExists, InsertMember,
                LookAtSprint, ReadIntent, ArchiveIntent, FreezeIntent, Fail, Answer, CommitFreeze,
                CommitSprint, UpdateText, database, locals
  <2>4. req[p].sprint = s
    BY <1>1, <2>3, TypeParts DEF ShutSprint, RowTypes, TypeInv
  <2> QED
    BY <1>1, <2>4 DEF OverlapInv, StillSo, Closing
<1> HIDE DEF Closes
<1>2. Spec => [][Closes]_vars
  BY <1>1, OverlapInvariance, PTL DEF Spec
<1> QED
  BY <1>2 DEF ClosedAtNeedsOverlap, Closes

\* A freeze-update that no other has overtaken archives what it replaces and
\* writes the version after it.
THEOREM LoneFreezesKeepHistory == Spec => FreezeLosesNothing
<1> DEFINE Keeps == \A p \in Procs :
             pc[p] = "commit" /\ intent' # intent /\ ~overtaken[p] /\ pc'[p] = "answer" =>
               IF intent.intent = Nil THEN intent'.version = 1
               ELSE intent \in history' /\ intent'.version = intent.version + 1
<1>1. ASSUME TypeInv, OverlapInv, [Next]_vars PROVE Keeps
  <2> SUFFICES ASSUME NEW p \in Procs, pc[p] = "commit", intent' # intent, ~overtaken[p],
                      pc'[p] = "answer"
               PROVE  IF intent.intent = Nil THEN intent'.version = 1
                      ELSE intent \in history' /\ intent'.version = intent.version + 1
    OBVIOUS
  <2>1. PICK q \in Procs : Moves(q)
    BY <1>1, StepIsOfOne DEF vars, database
  <2>2. q = p
    BY <1>1, <2>1, TypeStep DEF Apart
  <2>3. PICK c \in { "200", "500" } : CommitFreeze(p, c)
    BY <2>1, <2>2 DEF Moves, Receive, CheckOpen, InsertSprint, SprintExists, InsertMember,
                LookAtSprint, ReadIntent, ArchiveIntent, FreezeIntent, Fail, Answer, ShutSprint,
                CommitSprint, UpdateText, database, locals
  <2>4. seen[p].now = intent
    BY <1>1, <2>3 DEF OverlapInv, StillSo, Freezing, CommitFreeze
  <2> QED
    BY <2>3, <2>4 DEF CommitFreeze, NextVersion
<1> HIDE DEF Keeps
<1>2. Spec => [][Keeps]_vars
  BY <1>1, OverlapInvariance, PTL DEF Spec
<1> QED
  BY <1>2 DEF FreezeLosesNothing, Keeps

-----------------------------------------------------------------------------
(* The scope of a sprint. *)

IsIn(p, t) == << TargetOf(p), t >> \in members \cup adding[p]

\* What a request has gone through is in the table or in its draft, and nothing
\* that another open transaction has inserted is inserted again.
ScopeInv ==
  /\ \A p \in Procs : pc[p] \in Filling /\ req[p].kind \in { "create", "add" } =>
       /\ \A t \in req[p].scope \cap Tasks : t \in todo[p] \/ IsIn(p, t)
       /\ pc[p] = "commit" => todo[p] = {}
  /\ \A p \in Procs : pc[p] # "answer" => code[p] = Nil
  /\ ScopeIsIn

LEMMA ScopeInit == Init => ScopeInv /\ AddedOnce
BY DEF Init, ScopeInv, ScopeIsIn, AddedOnce, Filling

LEMMA ScopeStep ==
  ASSUME TypeInv, ScopeInv, AddedOnce, NEW p \in Procs, Moves(p)
  PROVE  ScopeInv' /\ AddedOnce'
<1>a. RowTypes /\ IntentTypes /\ DraftTypes /\ PlaceTypes
  BY TypeParts DEF TypeInv
<1>b. Serving(p) /\ Asked(p) /\ Inserted(p)
  BY DEF TypeInv, PlaceInv
<1>c. Apart(p)
  BY TypeStep
<1> DEFINE Through(q) == pc[q] \in Filling /\ req[q].kind \in { "create", "add" } =>
             /\ \A t \in req[q].scope \cap Tasks : t \in todo[q] \/ IsIn(q, t)
             /\ pc[q] = "commit" => todo[q] = {}
           Silent(q) == pc[q] # "answer" => code[q] = Nil
           Kept(q) == pc[q] = "answer" /\ code[q] = "200" /\ req[q].kind \in { "create", "add" } =>
             \A t \in req[q].scope \cap Tasks : << TargetOf(q), t >> \in members
<1>d. Through(p) /\ Silent(p) /\ Kept(p)
  BY DEF ScopeInv, ScopeIsIn
<1>e. members \subseteq members'
  BY DEF Moves, Receive, CheckOpen, InsertSprint, SprintExists, InsertMember, LookAtSprint,
         ReadIntent, ArchiveIntent, FreezeIntent, Fail, Answer, CommitSprint, ShutSprint,
         CommitFreeze, UpdateText, database
<1>f. ASSUME NEW q \in Procs, q # p PROVE Through(q)' /\ Silent(q)' /\ Kept(q)'
  BY <1>c, <1>e, <1>f DEF Apart, ScopeInv, ScopeIsIn, IsIn, TargetOf
<1> USE DEF Goto, Reply, database, locals
<1>1. Through(p)'
  <2>1. CASE Receive(p) \/ Fail(p) \/ Answer(p) \/ CheckOpen(p) \/ LookAtSprint(p)
             \/ ReadIntent(p) \/ ArchiveIntent(p) \/ FreezeIntent(p)
    BY <1>a, <1>b, <2>1 DEF Receive, Fail, Answer, CheckOpen, LookAtSprint, ReadIntent,
       ArchiveIntent, FreezeIntent, FirstStep, Request, AllKinds, Filling, PlaceTypes, Serving
  <2>2. CASE InsertSprint(p) \/ SprintExists(p)
    BY <1>a, <2>2 DEF InsertSprint, SprintExists, Filling, PlaceTypes, DraftTypes
  <2>3. CASE InsertMember(p)
    <3>1. PICK t \in todo[p] :
            /\ adding' = [adding EXCEPT ![p] =
                 IF t \notin Tasks \/ << TargetOf(p), t >> \in members THEN @
                 ELSE @ \cup { << TargetOf(p), t >> }]
            /\ todo' = [todo EXCEPT ![p] = LeftAfter(p, t)]
            /\ pc' = [pc EXCEPT ![p] = IF LeftAfter(p, t) = {} THEN "commit" ELSE "members"]
      BY <2>3 DEF InsertMember
    <3>2. pc[p] = "members" /\ UNCHANGED << members, req, newSprint >>
      BY <2>3 DEF InsertMember
    <3>3. req[p].kind \in { "create", "add" } => Through(p)'
      <4> SUFFICES ASSUME req[p].kind \in { "create", "add" } PROVE Through(p)'
        OBVIOUS
      <4>1. todo'[p] = todo[p] \ {t}
        BY <1>a, <3>1 DEF LeftAfter, DraftTypes
      <4>2. ASSUME NEW u \in req[p].scope \cap Tasks PROVE u \in todo'[p] \/ IsIn(p, u)'
        BY <1>a, <1>d, <3>1, <3>2, <4>1, <4>2 DEF IsIn, TargetOf, DraftTypes, Filling
      <4>3. pc'[p] = "commit" => todo'[p] = {}
        BY <1>a, <3>1, <4>1 DEF LeftAfter, PlaceTypes
      <4> QED
        BY <3>2, <4>2, <4>3
    <3> QED
      BY <3>2, <3>3
  <2>4. ASSUME NEW c \in { "200", "500" },
               CommitSprint(p, c) \/ ShutSprint(p, c) \/ CommitFreeze(p, c) \/ UpdateText(p, c)
        PROVE  Through(p)'
    BY <1>a, <2>4 DEF CommitSprint, ShutSprint, CommitFreeze, UpdateText, Filling, PlaceTypes
  <2> QED
    BY <2>1, <2>2, <2>3, <2>4 DEF Moves
<1>2. Silent(p)' /\ Kept(p)'
  <2>1. CASE Receive(p) \/ Fail(p) \/ Answer(p) \/ CheckOpen(p) \/ InsertSprint(p)
             \/ SprintExists(p) \/ InsertMember(p) \/ LookAtSprint(p)
             \/ ReadIntent(p) \/ ArchiveIntent(p) \/ FreezeIntent(p)
    BY <1>a, <1>d, <2>1 DEF Receive, Fail, Answer, CheckOpen, InsertSprint, SprintExists,
       InsertMember, LookAtSprint, ReadIntent, ArchiveIntent, FreezeIntent, FirstStep, Request,
       AllKinds, PlaceTypes
  <2>2. ASSUME NEW c \in { "200", "500" }, CommitSprint(p, c) PROVE Silent(p)' /\ Kept(p)'
    BY <1>a, <1>d, <2>2 DEF CommitSprint, IsIn, TargetOf, Filling, PlaceTypes
  <2>3. ASSUME NEW c \in { "200", "500" },
               ShutSprint(p, c) \/ CommitFreeze(p, c) \/ UpdateText(p, c)
        PROVE  Silent(p)' /\ Kept(p)'
    BY <1>a, <1>b, <2>3 DEF ShutSprint, CommitFreeze, UpdateText, Serving, PlaceTypes
  <2> QED
    BY <2>1, <2>2, <2>3 DEF Moves
<1>3. AddedOnce'
  <2>1. CASE InsertMember(p)
    BY <1>a, <2>1 DEF InsertMember, HeldUp, AddedOnce, DraftTypes
  <2>2. CASE Fail(p) \/ Answer(p)
    BY <1>a, <2>2 DEF Fail, Answer, AddedOnce, DraftTypes
  <2>3. ASSUME NEW c \in { "200", "500" }, CommitSprint(p, c) PROVE AddedOnce'
    BY <1>a, <2>3 DEF CommitSprint, AddedOnce, DraftTypes
  <2>4. CASE UNCHANGED << adding, members >>
    BY <2>4 DEF AddedOnce
  <2> QED
    BY <2>1, <2>2, <2>3, <2>4
       DEF Moves, Receive, CheckOpen, InsertSprint, SprintExists, LookAtSprint, ReadIntent,
           ArchiveIntent, FreezeIntent, ShutSprint, CommitFreeze, UpdateText
<1>4. \A q \in Procs : Through(q)' /\ Silent(q)' /\ Kept(q)'
  BY <1>1, <1>2, <1>f
<1> QED
  BY <1>3, <1>4 DEF ScopeInv, ScopeIsIn

LEMMA ScopeInvariance == Spec => [](ScopeInv /\ AddedOnce)
<1>1. TypeInv /\ ScopeInv /\ AddedOnce /\ [Next]_vars => ScopeInv' /\ AddedOnce'
  <2>1. ASSUME ScopeInv, AddedOnce, UNCHANGED vars PROVE ScopeInv' /\ AddedOnce'
    BY <2>1 DEF vars, database, locals, ScopeInv, ScopeIsIn, AddedOnce, IsIn, TargetOf, Filling
  <2> QED
    BY <2>1, ScopeStep, StepIsOfOne
<1> QED
  BY <1>1, ScopeInit, TypeInvariance, PTL DEF Spec

\* After a 200 of create or add, each task of the scope that exists is in the
\* sprint, also those that were skipped because another had inserted them.
THEOREM ScopeIsComplete == Spec => []ScopeIsIn
BY ScopeInvariance, PTL DEF ScopeInv

\* No pair of sprint and task is inserted by two, and none that is there already.
THEOREM NothingIsAddedTwice == Spec => []AddedOnce
BY ScopeInvariance, PTL
=============================================================================
