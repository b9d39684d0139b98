# backlog-server in TLA+

TLA+ models of `backlog-server` (Go, `src/`), the REST service that keeps a
backlog of tasks in PostgreSQL behind a Redis read cache. The models cover what
the server does between a request and its reply when several requests run at
once: TLC checks them on small instances, TLAPS proves part of what TLC checks
for every value of the constants. Every definition is translated from the Go
source; `PROJECT.json` names the lines under `"map"`.

Run a model with `tlc -config lifecycle.cfg MCTaskLifecycle.tla`, a proof with
`tlapm TaskLifecycle_proofs.tla`.

Contents: [the system](#1-the-system) · [the modules](#2-modules-and-code) ·
[the runs](#3-what-tlc-checks) · [the proofs](#4-what-is-proved) ·
[where the code and its comments differ](#5-where-the-code-and-its-comments-differ) ·
[limits](#6-what-is-not-modelled) · [plan](#7-plan)

## 1. The system

One Go process serves about forty HTTP routes. A handler runs in the goroutine of its
request, with a timeout, and reaches shared state in three places: the Postgres
database (through a pool, isolation level READ COMMITTED), Redis, and a counter
in memory. The Python CLI that the server replaces still writes to the same
database, directly or through `/exec`. The repository holds no schema of the
tables; the models assume of it only what the code itself relies on: primary
keys, id sequences, the unique index behind `ON CONFLICT (sprint_id, task_id)`.

### Components

| Component | State | Operations | What makes it correct |
|---|---|---|---|
| Task lifecycle (`store.go`) | `tasks` rows (status, owner, mode, closed_at, verified), `audit_trail` | advance, take, cancel, supersede, release, revision, verify, postmortem, update, merge | no gate is skipped, DONE needs approval, the audit trail explains the status, a closing that is overwritten leaves a trace, an answer says what happened |
| Reviews and gates (`store.go`) | `review_results` with `is_latest` | review-submit, aggregate-review, HasLatestVerdict | the newest verdict counts; a stage is only reached with the PASS it asks for |
| Read cache (`cache.go`, `cacheOrFetch`) | version counter, Redis entries under `version:key` with a TTL | get, set, Bump | an entry is stale only for a reason, and not for ever |
| NOTIFY listener (`notify.go`) | the LISTEN session | listen, reconnect, one Bump per notification | writes from outside the server invalidate the cache |
| Task creation (`create.go`, `SubtasksFromPlan`) | `tasks`, `task_edges`, the id sequence, the parent's status | create, subtasks-from-plan | ids that Python used are not drawn again; 200 means that the rows are there; routing uses rules that are fresh |
| Dependencies and merge (`rescore.go`, `MergeTasks`) | `blocked_by` of every open task | the rescore after DONE, merge | nobody waits for a finished task; concurrent rewrites of a list lose nothing |
| Scoring (`internal/scoring`) | none; scores written to the rows | RecalculateAll, RecalculateUnblocked | the result does not depend on the order of a Go map, cycles are harmless, the loop ends |
| Sprints (`store.go`) | `sprints`, `sprint_tasks` | create, add, close | one OPEN sprint, complete scopes, closed_at written once |
| Intent freezing (`FreezeUpdate`) | frozen_intent, intent_version, `tasks_intent_history` | freeze-update, update of note and why | every version that is replaced is archived, none is skipped |
| SMM runs (`TriggerSMM`, `GetSMMRun`) | one JSON state file per run, a detached wrapper process | trigger, poll (with a watchdog) | the file keeps the wrapper's last word; a run that has begun is shown as done or failed some day |
| Registries (`internal/config`) | parsed `taskowners.yaml` and `workflows.yaml` with their mtimes behind an RWMutex, `lastPull`, `reloadMu` | Load at the start, Reload (debounced, single flight, mtime guard) before a create, MatchRule, ValidateCustom | no edition of a file is taken for read that was not; a create works with rules as fresh as the debounce allows; a bad file does no lasting harm |
| Next, readiness, conflicts | none | GET /next/{agent} over the tasks and their stored scores | nothing an agent could work on is lost between blockers, sort and limit |
| Knowledge, session close | single INSERTs | add | validation |
| Search, history, anomalies, analytics | none | reads, cached | – |
| HTTP server, auth, exec proxy | none | routing, JSON, `X-Agent-Key`, running the Python CLI | one reply per outcome |
| EARS, signals, templates, client, CLI | none | text matching, request building | – |
| Startup and shutdown (`main.go`) | pool, cache, listener, registries, HTTP server | start, signal, drain | a new process does not read what the old one cached as its own, and ends up with the rules on disk |

### How they interact

Every write handler has the same shape:

```
GetTask (cache or SELECT)  ->  checks on that snapshot  ->  verdict lookups (advance)
   ->  BEGIN; UPDATE tasks ... WHERE id = $1; INSERT audit_trail; [rescore]; COMMIT
   ->  cache.Bump()  ->  GetTask again  ->  reply
```

The checks run before the transaction, on a row that may come from the cache,
and the UPDATE has no predicate on what was checked. The commit fires the
`tasks_changed` trigger, the listener bumps the version a second time. A DONE
rescores the open tasks in its transaction, creating a child reopens its parent
in the transaction of the child, and a merge rewrites the lists of others. The
exec proxy and the Python CLI write with no handler around them: the listener is
the only link to the cache.

A create reloads the two registries before it opens its transaction: a `git
pull` of the ax checkout at most once a minute, then a Stat, a second Stat, a
read and the installation of what was parsed. `POST /smm/trigger` seeds a state
file, starts a detached wrapper and writes the seed again with the wrapper's
PID; the wrapper writes the same file when it begins and when it ends, and a
poll that finds a running state whose PID is gone overwrites it with `failed`.
Nothing locks that file.

### What is hard

- *Interleavings.* Two handlers between check and UPDATE; two finishing advances that
  want each other's rows; a fill of the cache around a Bump; two creates around
  the serial guard; sprint and intent commands that look and then write.
- *Failure.* A lost acknowledgement of a COMMIT, a statement that aborts the
  transaction half way, a deadlock victim, a timeout between any two statements.
- *Ordering.* Ids drawn before a commit; notifications that are lost while the
  listener is down; a restart over a Redis that still has entries; the range
  loop over a map; a file that changes between two Stats and a read, or that two processes write.
- *Numbers.* Rounding, ties and a threshold of 0.1 that float64 decides; a cap of ten rounds.

`PROJECT.json` lists the hazards with their lines and the properties for each.

## 2. Modules and code

| Module | Models | Lines of the code |
|---|---|---|
| `Workflow` | the tables: advance maps, required reviews, terminal and takeable statuses | `store.go` 35-48, 499-637, 902-1048 |
| `TaskLifecycle` (extends `Workflow`) | sixteen commands, their reads, checks, gates, transactions, cache use, failures; of a merge the absorbed task | `store.go` 130-1480, 2110-2352; `rescore.go`; `handlers.go` |
| `CachePromise` | abstract cache: at most one entry per key, filled by a read, forgotten at any time | `cache.go`, `cacheOrFetch` |
| `ReadCache` | versioned keys, TTL, Bump, LISTEN/NOTIFY, foreign writes, restart | `cache.go`, `notify.go`, `store.go` 90-128 |
| `TaskGraph` | ids and `blocked_by`: create, subtasks, finish, cancel, supersede, merge, Python's inserts | `create.go`, `rescore.go`, `store.go` 2387-2692, 2825-3026 |
| `Scoring` | RecalculateAll: rounds, cycle guard, rounding, results | `scoring.go`, `reachability.go` |
| `NextRanking` (extends `Scoring`) | GET /next/{agent} on the stored scores, after commands that do not rescore: moves, edits, merges, creates | `store.go` 35-48, 284-433, 478-488, 2387-2692; `create.go` 229-300 |
| `Records` | sprints and frozen intents | `store.go` 2014-2233, 3813-4014, 4385-4411 |
| `ConfigRegistry` | both registries: boot, debounce, single flight, mtime guard, two Stats, read, installation; git, the clock, restarts | `taskowners.go` 61-236, `workflows.go` 86-237, `main.go` |
| `SmmRuns` | trigger, poll with watchdog, the state file in the two halves of `os.WriteFile`; the wrapper, which is external | `store.go` 3030-3224 |
| `HostFiles` (extends `ConfigRegistry`, instantiates `SmmRuns`) | the two in one server process that is restarted as a whole | `main.go` |
| `*_proofs` (of `TaskLifecycle`, `ReadCache`, `TaskGraph`, `Scoring`, `Records`, `ConfigRegistry`, `SmmRuns`, `HostFiles`) | theorems about the module of that name | – |
| `MC*` | instances for TLC | – |

How they fit: `TaskLifecycle` does not run the versioned cache. It uses the
abstract one, in which an entry may vanish at any time (`Forget`) and a fill
stores whatever its read fetched, however long ago; `ReadCache` is shown to implement
that (`PromiseKept`, checked and proved). `TaskGraph` takes a finished task from
the rescore of `TaskLifecycle` and leaves gates, audit and cache to it.
`Scoring` starts from the lists that `TaskGraph` leaves behind, and `NextRanking`
from the scores that `Scoring` leaves behind. `HostFiles` composes the registries and
the runs: they share nothing but the process, so a behaviour serves either creates
or runs (`serves`), and boot and restart belong to both.

### Correspondence

*State.* A table is a function from ids to rows (committed) plus, per
goroutine, a draft of what its open transaction has written; a row lock is the
goroutine that holds it. `pc[p]` is where the handler of goroutine `p` is, `snap[p]` the Go
variable its first read filled, `code[p]` the reply. Variables marked *history*
in the modules (such as `modes`, `crossed`, `rescored`, `overtaken`) exist for the properties only.

*Actions.* One action per stretch of code in which no other goroutine can
be seen: a statement to the database, a Redis call, a Bump, a reply. Go code between two of
them belongs to the action before or after it. READ COMMITTED is modelled as
Postgres defines it: a SELECT sees committed rows, an UPDATE waits for the
row lock, an INSERT of a key that another open transaction has inserted waits
for its end, `nextval` and `setval` are not undone by a rollback, and
`SELECT ... FOR UPDATE` re-reads a row it has waited for. `Commit` and
`CommitUnacked` differ in whether the acknowledgement arrives; `Fail` is a
timeout, a lost connection or (where locks can form a cycle) a deadlock victim,
possible between any two statements.

*Data.* Titles, notes, reasons and timestamps are left out or are tokens. `rev`
stands for `updated_at`. In `TaskGraph` the status `open` stands for every one
that the rescore selects. In `Scoring` a score is a number of tenths; lists of blockers are sets,
and so are the references of a task (the code would count a duplicate twice). In
`NextRanking` titles and reasons are left out. In `ConfigRegistry` the edition
of a file is a number that also stands for its mtime: `3n` whole, `3n + 1` missing, `3n + 2`
torn, the three states that git's unlink, create and write pass through. That
two editions have different mtimes is an assumption: a file system stamps in nanoseconds, but Linux takes
them from a clock that ticks every few milliseconds, so a torn and a whole edition written within one
tick may share an mtime, and the guard then keeps the torn one; no property covers that. The two registries are the same code, up to the fallback, over another file. In `Records`
note and why are one text, of which "neither" says that both are empty.

*float64.* `Scoring` does not compute in binary fractions. They matter in two
places and both are nondeterministic choices: a sum half way between two tenths
may round either way, and a difference of exactly one tenth may or may not be larger
than `0.1`. Both go the same way whenever the same potentials are summed: `fed` remembers
what a task was last computed from, and computing it from the same once more changes nothing.

*The wrapper.* `scripts/smm-run.sh` is not in the repository. `SmmRuns` takes from the
comments of `store.go` (3037-3040, 3077-3082, 3188-3190) that it flips the state file from
queued to running and then to done or failed, and leaves open whether it keeps the PID
it finds, and when it is killed.

## 3. What TLC checks

A run that is expected to pass:

| Run | Module, bounds | Shows |
|---|---|---|
| `lifecycle` | `TaskLifecycle`; 1 task waiting for approval, 2 goroutines, 3 requests of 9 kinds | `DoneWasReviewed`, `DoneByConsent`: no snapshot, cache entry or race carries a task past a gate nobody passed or to DONE without `--approve`. `AuditEndsAtStatus`, `OldValueWasReal`: the trail, read by id, ends at the status and its old values were real. `NewestVerdictIsLatest`: two overlapping submits never un-mark the newer one. `OverwrittenClosingShows`: where a command decided on an older row has opened a closed task, the `closed_at` it leaves comes with a break in the audit trail. `AnswerTellsTheTruth` |
| `commands` | `TaskLifecycle`; a fix, a think_task and a task without workflow, 2 agents, 2 modes, 2 verdicts, 2 requests of all 16 kinds | `DoneWasReviewed`, `AuditEndsAtStatus`, `AnswerTellsTheTruth` for every pair of commands; the task without workflow is in review, its mode decides its reviewers, and an update may write the mode between the snapshot and the commit of an advance |
| `answered` | `TaskLifecycle` with fairness; 2 tasks one approval away from DONE | `EveryRequestAnswered`, deadlocks in the rescore included |
| `cache` | `ReadCache` with fairness; 1 key, 2 clients, 2 writes, 1 restart, 2 entries | `StaleIsExcused`: an entry is stale for one of three reasons; `NoEntryFromTheFuture` across a restart; `StaleGoesAway`; `PromiseKept`: the refinement of `CachePromise` |
| `graph` | `TaskGraph`; ids 1..4, 3 waits for 1 and 2, Python has inserted past the sequence, 2 goroutines, 3 requests of 6 kinds | `CascadeComplete`, `OnlyTheFinishedVanish`: no scrub is lost, no list that somebody else changed is written back; `CollisionNeedsOverlap`: the serial guard fails only against another guard; `CreatedIsThere` |
| `scoring` | `NextRanking`; all lists over 3 tasks, cycles and self-blockers included, or the list of a closed and a not yet created task, base scores 1.5 and 40, 10 rounds; then one command (move, edit, merge or create) and one agent's question | `StopsByItself`, `NearItsEquation`, `ScoresAreExact`: for each order of the map in each round, the rounds end by themselves, and the stored scores are then the exact sums over the acyclic edges, within the tolerance. `NobodyForgotten`: what could be worked on is shown, listed as blocked, or cut for others worth as much |
| `hostfiles` | `HostFiles` with fairness; 2 goroutines, 2 registries, one replacement of `taskowners.yaml`, 1 run, 2 restarts | `NothingIsMissed`: the mtime guard never skips an edition that is not in memory; `FreshRulesApply`: a create that found the window expired uses rules no older than that moment; `CatchesUp`: once the files are at rest the registries agree with them for good. `LastWordStands`: the state file keeps the wrapper's last word but for three named overlaps; `RunEnds`: a run that began is shown as ended |
| `records` | `Records`; 2 goroutines, 4 requests of 5 kinds, 2 sprints, 2 tasks and an id without a task | `ScopeIsIn`, `AddedOnce`: inserts that wait for each other lose and double nothing; `TwoOpenNeedOverlap`, `ClosedAtNeedsOverlap`, `FreezeLosesNothing`: only requests that overlap break the rules |

Every property has a mutant in `PROJECT.json`: a change of one definition, of the
kind a bug in the mapped code would be, that TLC finds the property violated under.

### Why these bounds

- *Two goroutines.* Each race here is between a read and a write of one handler and one write of
  another. A third party only matters for the locks and the sequence, which the
  proofs treat for any number.
- *Three requests in `lifecycle` and `graph`.* Two that overlap, and one that
  prepares or uses what they leave (a verdict after a reopen, a create on the ids that
  a merge touched). `commands` trades the third request for all pairs of commands.
- *Start states.* A task waiting for approval, with a failing closure verdict, has
  every kind of gate still ahead; `ForkRow` has a task that waits for two others, so that
  two finishing advances rewrite one list; `StartSeq = 1` with ids 2 and 3 taken is what a
  Python insert leaves.
- *Four ids* leave one to be created and one for Python.
- *Scoring.* Three tasks make cycles of length 1, 2 and 3, a chain and both
  forks; 9 is an id that is not open. 1.5 produces ties when multiplied by 0.3, 40 makes
  differences well above the threshold. Three tasks settle long before ten rounds; how many rounds a
  deeper graph takes is what the proof of `StopsByItself` is about, and of a task that reaches as many
  others as there are rounds the property claims nothing.
- *Records.* Four requests are two overlapping ones, one before (the first sprint, the first
  intent) and one after.
- *Modes in `commands`.* `code` asks for the code reviewer, `think` for the content reviewer, and the task
  without workflow has passed the code and the closure reviewer: an update to `think` between the snapshot and the
  commit of its advance leaves it at a stage that its new mode would not have let it reach.
- *Next.* One command is enough to let a status, a list or a plan of today differ from the stored score, and to
  block a task that has a score or free one that has none; the proof has any number. The limit 2 is
  below the three or four tasks that an agent may own, so that the cut happens. The closed task has a
  negative score and may be reopened.
- *Host files.* One replacement passes all three states of a file, and a git that is
  killed leaves it in the middle for good; the second registry stays as it is and shows that
  one does not disturb the other. `Broken` is empty as a torn file that fails to parse takes the
  same branch. Of two restarts the second may come while what the first one left is read.
- *Cache.* Two writes tell "stale" from "older than stale"; one restart is what the claim
  about versions is about.

Symmetry is used over goroutines only, and not in runs that check liveness.
`CHECK_DEADLOCK FALSE` appears in `scoring.cfg` alone: the algorithm ends and the one question is
answered. `HostFiles` always has a next step; the other models stutter explicitly (`Quiescent`) when
the requests are used up.

### Fairness

`TaskLifecycle` assumes that a goroutine with a request is scheduled again (weak
fairness of `Step(p)`), and that Postgres grants a row lock to whoever keeps waiting
for it (strong fairness of `UpdateRow` and `Rescore`): its lock queue is ordered, and
`deadlock_timeout` breaks a cycle, which is `DeadlockVictim`, part of `Step`. Timeouts are not
assumed to fire. `ReadCache` assumes that a read or a handler under way goes on,
and that Redis ends a TTL; it does not assume that the LISTEN connection ever
comes back. `HostFiles` assumes that goroutines run, that the debounce window expires, that a
server that has ended is started again (`BootStep`; the service manager's part) and that a wrapper comes to an
end. `CatchesUp` also needs creates to keep coming, and `RunEnds` polls, since nothing else
makes the server look: weak fairness of `CreateStep`, strong fairness of `Look`, both
assumptions about clients. The other models state safety only.

## 4. What is proved

TLAPS proves the following for every value of the constants, from the named
assumptions in the modules (`ConfigAssumption`, `StartAssumption`, `CacheAssumption`,
`GraphAssumption`, `ScoringAssumption`, `RankingAssumption`, `RecordsAssumption`, `RegistryAssumption`), which say that the constants have their types,
that `Nil` and `None` are none of the values, and that the review rows the server starts on have distinct ids.
Of the tasks it finds nothing is assumed: the Python CLI and merges leave rows of every kind. A limit is positive, as the handler makes it
(`store.go` 304); of the graph of blockers nothing is assumed but that it is finite.

| Theorem | Property | Inductive invariant and why it is needed |
|---|---|---|
| `TaskLifecycle_proofs!TypeCorrect` | `TypeOK` | `TypeInv`: beyond types, which locals a goroutine has at which `pc` |
| `...!ReviewedBeforeDone` | `DoneWasReviewed` | `GateInv`: rows, cache entries and snapshots have all earned their status for a mode the task has had, the reviewers still to be asked are in `todo`, and who is past the gates has found every PASS. Needed since the decision is taken on a snapshot that may be arbitrarily old: verdicts and the modes a task has had are only ever added, so what was earned stays earned; excused are the reviewers that were missing when the server came up |
| `...!DoneNeedsConsent` | `DoneByConsent` | `Consenting`: a handler on its way to write DONE serves an advance with approval |
| `...!AuditTrailEndsAtStatus` | `AuditEndsAtStatus` | `AuditInv`: who holds a row lock has drawn its audit id after every committed one of that task, and drafts are what will be written |
| `ReadCache_proofs!TypeCorrect`, `NothingFromTheFuture` | `TypeOK`, `NoEntryFromTheFuture` | `VersionInv`: entries and fills in flight lie at or below the counter, one entry per version and key |
| `...!EveryStaleEntryIsExcused` | `StaleIsExcused` | `StaleInv`: what a client holds was fetched at the version it remembers, and a committed write owes a Bump until one comes |
| `...!KeepsThePromise` | `PromiseKept` | step simulation of `CachePromise` under the mapping of `ReadCache` |
| `TaskGraph_proofs!TypeCorrect` | `TypeOK` | `TypeInv`: per `pc`, what request, drafts and reads a goroutine has |
| `...!NoLoneCollision` | `CollisionNeedsOverlap` | `Behind`: unless a guard has crossed its own, the sequence lies at or past every id a goroutine saw when it read MAX(id), and the id it has drawn lies past them |
| `...!NoScrubIsLost` | `CascadeComplete` | `CascadeInv`: a draft is locked and is narrower than the committed list, and each row already scanned by a finishing advance is scrubbed in draft or table |
| `...!NothingElseVanishes` | `OnlyTheFinishedVanish` | `KeptInv`: a draft leaves out of the committed list nothing but the task being finished; it stays so since `CascadeInv` has the row locked, so writing it back is no loss |
| `...!CreatedMeansCommitted` | `CreatedIsThere` | `MadeInv`: the ids of a create are in its draft until it commits, as many as it has been through phases, and a 200 comes only with all of them committed |
| `TaskLifecycle_proofs!LostClosingsShow` | `OverwrittenClosingShows` | over `AuditInv`: a command writes an open status only if the row it read was not closed, so over a closed row its audit row carries an old status that is not where the trail stands, since the trail stands at the row's status; the break stays, as later audit ids are larger |
| `...!NewestCounts` | `NewestVerdictIsLatest` | `VerdictInv`: ids are drawn once, and what a submit un-marks are older rows of its own task and reviewer |
| `...!OldValuesAreReal` | `OldValueWasReal` | `OldInv`: every snapshot, cache entry and fill in flight holds a status that the task has had |
| `...!AnswersAreTrue` | `AnswerTellsTheTruth` | `TruthInv`: which replies are still possible at which `pc`, given what has been committed |
| `...!StaleReplyNeedsLateFill`, `LostPassNeedsLateVerdict`, `SecondLatestNeedsOverlap` | (conditions of `ReplyIsFresh`, `DoneOnLatestPass`, `OneLatestVerdict`) | `FreshInv`, `LookedUp`, `MarkedAll`: what a reply, an advance or a submit goes by is still so, under a condition on the behaviour that names the one overlap that can undo it; see section 5 |
| `TaskGraph_proofs!LoneMergesFreeDependents` | (condition of `MergedBlocksNobody`) | `MergedInv`: each list with the absorbed task in it is drafted without it or still to be written |
| `Scoring_proofs!TypesHold`, `LoopStopsByItself` | `TypeOK`, `StopsByItself` | `IInv`: the *rank* of a task is the number of others that it reaches by blocking, and whose values may come to it. In round n each task of rank n has its last inputs before it is visited or gets them then, since what it sums is of lower rank and no longer moves; so a round n that adopts a value shows a task of rank above n |
| `...!RoundsReachTheirEquations` | `NearItsEquation` | the part of `IInv` that says that every visited task is settled while a round has adopted nothing |
| `...!StoredScoresAreExact`, `ShallowScoresAreExact` | `ScoresAreExact` | `IInv`, then once more along the ranks: a settled task is off by its own rounding and by three tenths of what its inputs are off, which is what `Tolerance` adds up |
| `...!ReachableIsClosure`, `ReferenceIsExact` | – | about the operators: the search of the cycle guard finds the whole closure, and the reference `Exact` solves the equations without remainder, so that the theorems above compare with what they mean to |
| `...!NobodyIsForgotten` | `NobodyForgotten` | `RankIInv`: `IInv`, and the property as an invariant of the answer; that a cut list is the best of a sorted one is an argument about the sequence `SortedAndCut` leaves |
| `...!RankingImplementsScoring` | – | commands and requests leave the variables of `Scoring` alone |
| `Records_proofs!TypeCorrect` | `TypeOK` | `TypeInv`: at each `pc` the request, the sprint and the drafts that go with it |
| `...!ScopeIsComplete`, `NothingIsAddedTwice` | `ScopeIsIn`, `AddedOnce` | `ScopeInv`: a pair is drafted by one goroutine, and what of a scope is no longer to do is drafted by the goroutine itself, committed, or no task |
| `...!SecondOpenNeedsOverlap`, `SecondCloseNeedsOverlap`, `LoneFreezesKeepHistory` | `TwoOpenNeedOverlap`, `ClosedAtNeedsOverlap`, `FreezeLosesNothing` | `OverlapInv`: for a request that was not overtaken, what it has seen is still so |
| `ConfigRegistry_proofs!NoEditionIsMissed` | `NothingIsMissed` | `EditionInv`: an mtime that was taken is not newer than what is read after it, and an mtime that equals the file's was taken of the same edition |
| `...!FreshRulesAreUsed` | `FreshRulesApply` | `FreshInv`: whoever holds `reloadMu` will bring in an edition not older than any create that waits for it has seen |
| `SmmRuns_proofs!TheLastWordStands` | (as `LastWordStands` of `HostFiles`) | `ShowInv`: between its look and its write a request counts as about to write, so a word spoken meanwhile is an overlap; `PlaceInv`: where wrapper and trigger can be together |
| `HostFiles_proofs!HostTypeCorrect`, `HostMissesNothing`, `HostUsesFreshRules`, `HostLastWordStands` | `HostTypeOK`, `NothingIsMissed`, `FreshRulesApply`, `LastWordStands` | each step of the server is a step of `ConfigRegistry` or none, and a step of `SmmRuns` or none, so the invariants of the parts carry over |

Each invariant and each action property of a run is thus stated by a theorem. Only model-checked
are the four liveness properties (`EveryRequestAnswered`, `StaleGoesAway`, `CatchesUp`, `RunEnds`), since the
prover has no rule for fairness and ENABLED.

*Sums, depths and folds.* The theorems about `Scoring` need induction over numbers and over finite
sets, and the library's induction theorems take an operator as a parameter, which the provers cannot
instantiate. `Scoring_proofs` has its own two lemmas, `OnNat` and `OnSubsets`, which take the *set* of the numbers (or
subsets) that have the property instead: if it holds the first and, with each, the next, then it holds all. They
follow from the existence of a least element. What `SumFunctionOnSet` and the recursive functions of the module compute is
derived from them (`SumStep`, `IteratesExist`), so nothing about the folds of the community modules is
taken on trust but their definitions.

## 5. Where the code and its comments differ

Each has a run in which TLC finds the behaviour; the quoted comment is in
`PROJECT.json` under `"findings"`.

| Run, property | The code | The comment |
|---|---|---|
| `fresh_reply`, `ReplyIsFresh` | a read that began before the commit fills the cache after the Bump; the advance's refetch hits it | the reply after advance "is a fresh read" |
| `gate_race`, `DoneOnLatestPass` | a FAIL committed after the lookup does not stop the DONE | DONE needs "a latest task-closure-reviewer PASS verdict" |
| `two_latest`, `OneLatestVerdict` | two submits of one reviewer leave two rows latest | "Marks all prior ... rows ... as is_latest=FALSE" |
| `merge_blocks`, `MergedBlocksNobody` | a task merged with its own blocker goes on waiting for it | "dependents of B ... get B replaced with A" |

Each of the four is also proved to hold under a condition on the behaviour, for any number of goroutines; the
counterexample of each run breaks the condition, so it cannot be dropped altogether:

- `StaleReplyNeedsLateFill`: replies are fresh if no row from before a write waits to be stored while its reply is
  refetched (`NoLateFill`).
- `LostPassNeedsLateVerdict`: DONE is committed on a latest PASS if no reviewer that the advance has asked is about to commit
  anything but a PASS (`NoLateVerdict`).
- `SecondLatestNeedsOverlap`: one verdict per reviewer stays latest if no two submits are both between un-marking and commit
  (`SubmitsApart`).
- `LoneMergesFreeDependents`: nobody waits for a merged task if neither of the two did (`NeitherWaits`) and no other goroutine commits
  while the merge is under way (`MergesAlone`). The second condition is stronger than it has to be; the run breaks
  the first one.

More were seen and have no run of their own:

- Two sprint creates that both look before either commits leave two OPEN sprints (`store.go:3829`); the doc
  of CreateSprint says that it "enforces the 'one OPEN sprint at a time' invariant" (`store.go:3810`).
  `TwoOpenNeedOverlap` says that overlap is the only way.
- The second of two overlapping closes overwrites `closed_at` (`store.go:4006`), while the doc of CloseSprint
  promises the original one; `ClosedAtNeedsOverlap` says that overlap is the only way.
- A cancel that read its task before an approving advance committed overwrites DONE with CANCELLED
  (`store.go:1009`), while the comment at `store.go:977` says that cancel is an error on finished tasks.
- The closed task may also be opened again: a take, release or revision that read its task before the DONE or the
  cancel committed. `OverwrittenClosingShows` says that the `closed_at` it then keeps comes with a break in the audit
  trail. A cancel that a reopening overwrites (`create.go:202`), or a DONE under a cancel, shows in the trail only.
- update may write `mode` between the snapshot and the commit of an advance (`store.go:2113`), and the mode decides the
  reviewers of a task whose workflow is empty or not native: such a task reaches AWAITING_APPROVAL or DONE without the
  reviewers of its new mode. `DoneWasReviewed` is about some one mode the task has had. The same holds of a mode
  written after the gate, which asks nobody again.
- merge writes SUPERSEDED without `closed_at` (`store.go:2656`), which cancel and supersede set; so a closed task need not
  have one, and no property says so.
- merge gives a task blockers without a rescore (`store.go:2446`, `2587`), so a task listed as blocked may have a
  score, and a rescore counts blockers that are CANCELLED or SUPERSEDED, which `/next` does not, so one that is not
  blocked may have none.
- `round1` (`store.go:487`) cuts off towards zero: a negative rank may be off by one and a half tenths, which `NobodyForgotten`
  allows for.
- "Only the wrapper writes; the server only reads" (`store.go:3047`): the trigger writes the PID after the
  wrapper has started, and the watchdog writes `failed`. `LastWordStands` names what can be lost by it.
- A blocker that is MERGED or WONT-DO still counts as active for `/next`, whose terminal statuses are DONE, CANCELLED
  and SUPERSEDED.

## 6. What is not modelled

- The base score (impact, type detection, penalty, bonuses): per task and without interaction,
  an input of `Scoring`.
- Which files an aggregate review looks at (`ClassifyTrivial`, `git diff`); the model lets it decline.
- Validation and routing of a new task (`create.go` 310-550): which rule matches, and what ValidateCustom accepts. The
  model lets a create be refused and follows the rules only as far as which edition of them is used.
- The list fields other than `blocked_by` that a merge unions; `NextRanking` has whether `done_when` and `references` become
  non-empty by it, `TaskLifecycle` only that `done_when` may. The rows of the absorber and of the dependents, whose locks
  delay a merge further, are in `TaskGraph`.
- Of the fields of `update` all but owner and mode; a field that it refuses is a 422 at any time.
- What the Python CLI writes to a task while the server runs: it may set any status, and `custom_fields.required_reviews`, which no
  native command writes and which is therefore a constant (`CustomReviews`). `ReadCache` has its writes, `TaskGraph` its inserts.
- `detectConflicts`, which compares the files that the shown tasks name: a pure read.
- The 5 s that Shutdown gives requests, and the order in which pool, cache and listener close: a restart may come at any
  point, which includes every end that the grace period allows.
- Knowledge, session close, search, history, anomalies, analytics, EARS, signals, templates: single
  INSERTs, reads and text.
- Client, CLI, auth, JSON: one blocking call after the other. A client's retry is a second request in the models.
- The length of the reconnect backoff: the model lets the reconnect happen at any time.
- Deadlock detection in `TaskGraph` and `Records`: who waits in a cycle leaves it by `Fail`, like by a timeout.

## 7. Plan

Done, in the order of weight: `Workflow` and `TaskLifecycle` (the core), `CachePromise` and
`ReadCache`, `TaskGraph`, `Scoring`, `Records`, `ConfigRegistry`, `SmmRuns` and their composition `HostFiles`,
`NextRanking`, and the proofs above.

Next:

1. `MatchRule`, `SuggestMatches` and `ValidateCustom` as operators compared with a reference definition, and the
   routing of a new task on top of them (`create.go` 310-550).
2. Startup and shutdown in order: what a request under way meets when the pool closes (`main.go` 69-160).
3. The scores that a rescore writes, together with the lists it scrubs: `TaskGraph` and `Scoring` composed.
4. Proofs about whatever these add.
