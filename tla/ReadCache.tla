----------------------------- MODULE ReadCache -----------------------------
(***************************************************************************)
(* The read-through cache of internal/cache, cacheOrFetch of the store and *)
(* the LISTEN loop of internal/notify.                                     *)
(*                                                                         *)
(* Redis keys carry a version, an atomic counter of the server process.    *)
(* Bump increments it, which hides every entry at once; nothing is ever    *)
(* deleted, entries age out by their TTL.  The counter is read twice by    *)
(* one read: for the Get and, after the fetch, again for the Set.  A Bump  *)
(* that falls between the two lets a row fetched before a write be stored  *)
(* under the version that the write's Bump created (a straddling fill).    *)
(*                                                                         *)
(* Without the trigger (the server comes up without it when the role may   *)
(* not install it) no write notifies anybody, as if the link stayed down.  *)
(*                                                                         *)
(* Reading the counter and the Redis command that uses it are one step     *)
(* here: a Bump between the two gives what a Bump just after them gives.   *)
(***************************************************************************)
EXTENDS Naturals, FiniteSets

CONSTANTS
  Keys,         \* cache keys; each stands for the row, or the list, it holds
  Clients,      \* request goroutines
  None,         \* no entry, no key
  StartDb,      \* [Keys -> Nat], the revisions when the model starts
  MaxRev,       \* bound: the revision at which a row is not written any more
  MaxRestarts,  \* bound: how often the server process restarts
  MaxEntries    \* bound: how many entries Redis has room for

ASSUME CacheAssumption ==
  /\ StartDb \in [Keys -> Nat]
  /\ MaxRev \in Nat /\ MaxRestarts \in Nat /\ MaxEntries \in Nat
  /\ None \notin Nat \cup Keys

VARIABLES
  db,           \* the committed revision of each row, 0 while it does not exist
  ver,          \* Cache.ver
  redis,        \* the entries in Redis, of this and of earlier versions
  link,         \* the LISTEN connection: "up" or "down"
  pending,      \* notifications sent on it and not yet received
  at,           \* where a client is
  key,          \* the key it reads or writes
  held,         \* the revision it fetched, or answered with
  restarts,     \* restarts so far
  since,        \* history: the version at the time of a client's fetch
  dirty,        \* history: keys written since the last Bump
  lost          \* history: those of dirty whose notification was lost

client == << at, key, held, since >>
vars == << db, ver, redis, link, pending, client, restarts, dirty, lost >>

\* since is history: whether the entry's row was fetched under its version.
Entry == [ ver : Nat, key : Keys, rev : Nat \ {0}, since : Nat ]

\* Mutant: the key of a Get has no version in it.
ReachableAnyVersion(k) == { e \in redis : e.key = k }

\* What Get finds under the current version.
Reachable(k) == { e \in redis : e.ver = ver /\ e.key = k }

\* Set overwrites the entry of the same version and key.
Stored(e) ==
  { f \in redis : ~(f.ver = e.ver /\ f.key = e.key) } \cup {e}

Init ==
  /\ db = StartDb
  /\ ver = 1
  /\ redis = {}
  /\ link \in { "up", "down" }
  /\ pending = 0
  /\ at = [c \in Clients |-> "idle"]
  /\ key = [c \in Clients |-> None]
  /\ held = [c \in Clients |-> 0]
  /\ since = [c \in Clients |-> 0]
  /\ restarts = 0
  /\ dirty = {}
  /\ lost = {}

Goto(c, l) == at' = [at EXCEPT ![c] = l]

\* The request ends and its locals with it; what it answered is kept.
Return(c) ==
  /\ Goto(c, "idle")
  /\ key' = [key EXCEPT ![c] = None]
  /\ since' = [since EXCEPT ![c] = 0]

\* A write commits; the trigger notifies whoever listens at that moment.
Committed(k) ==
  /\ db[k] < MaxRev
  /\ db' = [db EXCEPT ![k] = @ + 1]
  /\ dirty' = dirty \cup {k}
  /\ IF link = "up"
       THEN pending' = pending + 1 /\ UNCHANGED lost
       ELSE lost' = lost \cup {k} /\ UNCHANGED pending

\* The version counter moves on, so no entry is under the current version.
BumpVersion ==
  /\ ver' = ver + 1
  /\ dirty' = {}
  /\ lost' = {}

-----------------------------------------------------------------------------
(* Reads: GetTask through cacheOrFetch. *)

Ask(c, k) ==
  /\ at[c] = "idle"
  /\ Goto(c, "get")
  /\ key' = [key EXCEPT ![c] = k]
  /\ UNCHANGED << db, ver, redis, link, pending, held, since, restarts, dirty, lost >>

Hit(c) ==
  /\ at[c] = "get"
  /\ \E e \in Reachable(key[c]) : held' = [held EXCEPT ![c] = e.rev]
  /\ Return(c)
  /\ UNCHANGED << db, ver, redis, link, pending, restarts, dirty, lost >>

\* Mutant: an absent row is stored like any other.
FetchKeepsAbsent(c) ==
  /\ at[c] = "get"
  /\ held' = [held EXCEPT ![c] = db[key[c]]]
  /\ since' = [since EXCEPT ![c] = ver]
  /\ Goto(c, "fill")
  /\ UNCHANGED << db, ver, redis, link, pending, key, restarts, dirty, lost >>

\* A miss, or an error of Redis, which counts as one.  An absent row is an
\* error of the fetch and is not stored.
Fetch(c) ==
  /\ at[c] = "get"
  /\ held' = [held EXCEPT ![c] = db[key[c]]]
  /\ IF db[key[c]] = 0
       THEN Return(c)
       ELSE /\ Goto(c, "fill")
            /\ since' = [since EXCEPT ![c] = ver]
            /\ UNCHANGED key
  /\ UNCHANGED << db, ver, redis, link, pending, restarts, dirty, lost >>

\* Set, under the version of now; its error is ignored.
Fill(c) ==
  LET e == [ ver |-> ver, key |-> key[c], rev |-> held[c], since |-> since[c] ] IN
  /\ at[c] = "fill"
  /\ \/ redis' = Stored(e) /\ Cardinality(redis') <= MaxEntries
     \/ UNCHANGED redis
  /\ Return(c)
  /\ UNCHANGED << db, ver, link, pending, held, restarts, dirty, lost >>

-----------------------------------------------------------------------------
(* Writes. *)

\* A handler of this server commits, then bumps, then reads its row again.
Write(c, k) ==
  /\ at[c] = "idle"
  /\ Committed(k)
  /\ Goto(c, "bump")
  /\ key' = [key EXCEPT ![c] = k]
  /\ UNCHANGED << ver, redis, link, held, since, restarts >>

Bump(c) ==
  /\ at[c] = "bump"
  /\ BumpVersion
  /\ Goto(c, "refetch")
  /\ UNCHANGED << db, redis, link, pending, key, held, since, restarts >>

Refetch(c) ==
  /\ at[c] = "refetch"
  /\ Goto(c, "get")
  /\ UNCHANGED << db, ver, redis, link, pending, key, held, since, restarts, dirty, lost >>

\* The Python CLI writes the same table and cannot bump; a commit of this
\* server whose acknowledgement is lost looks the same.
ForeignWrite(k) ==
  /\ Committed(k)
  /\ UNCHANGED << ver, redis, link, client, restarts >>

-----------------------------------------------------------------------------
(* The LISTEN connection, Redis and the process itself. *)

\* Mutant: the notification is received and nothing is bumped.
NotifiedIgnored ==
  /\ link = "up" /\ pending > 0
  /\ pending' = pending - 1
  /\ UNCHANGED << db, ver, redis, link, client, restarts, dirty, lost >>

\* WaitForNotification returns: one Bump for each notification.
Notified ==
  /\ link = "up" /\ pending > 0
  /\ pending' = pending - 1
  /\ BumpVersion
  /\ UNCHANGED << db, redis, link, client, restarts >>

\* What was sent on the connection and not received is gone with it.
Disconnect ==
  /\ link = "up"
  /\ link' = "down"
  /\ pending' = 0
  /\ lost' = IF pending > 0 THEN dirty ELSE lost
  /\ UNCHANGED << db, ver, redis, client, restarts, dirty >>

\* After the backoff: connect and LISTEN, and no Bump for what was missed.
Reconnect ==
  /\ link = "down"
  /\ link' = "up"
  /\ UNCHANGED << db, ver, redis, pending, client, restarts, dirty, lost >>

\* Mutant: entries are set without a TTL.
ExpireNever(e) == FALSE

\* The TTL of an entry ends.
Expire(e) ==
  /\ redis' = redis \ {e}
  /\ UNCHANGED << db, ver, link, pending, client, restarts, dirty, lost >>

\* Mutant: every process starts at version 1.
startVersionFixed == 1

\* A new process takes its first version from the clock: past every version
\* the old one reached, as long as the clock does not step back.
startVersion == ver + 1

Restart ==
  /\ restarts < MaxRestarts
  /\ restarts' = restarts + 1
  /\ ver' = startVersion
  /\ at' = [c \in Clients |-> "idle"]
  /\ key' = [c \in Clients |-> None]
  /\ since' = [c \in Clients |-> 0]
  /\ link' = "down"
  /\ pending' = 0
  /\ dirty' = {}
  /\ lost' = {}
  /\ UNCHANGED << db, redis, held >>

Next ==
  \/ \E c \in Clients :
       \/ Hit(c) \/ Fetch(c) \/ Fill(c) \/ Bump(c) \/ Refetch(c)
       \/ \E k \in Keys : Ask(c, k) \/ Write(c, k)
  \/ \E k \in Keys : ForeignWrite(k)
  \/ \E e \in redis : Expire(e)
  \/ Notified \/ Disconnect \/ Reconnect \/ Restart

Spec == Init /\ [][Next]_vars

\* A request in flight goes on, and Redis ends a TTL; nobody has to write, to
\* read, or to bring the LISTEN connection back.
Fairness ==
  /\ \A c \in Clients : WF_vars(Hit(c) \/ Fetch(c) \/ Fill(c) \/ Bump(c) \/ Refetch(c))
  /\ \A k \in Keys : WF_vars(\E e \in Reachable(k) : Expire(e))

FairSpec == Spec /\ Fairness

-----------------------------------------------------------------------------
(* Properties. *)

\* Every variable has its type; an absent row is never an entry.
TypeOK ==
  /\ db \in [Keys -> Nat]
  /\ ver \in Nat
  /\ redis \subseteq Entry
  /\ link \in { "up", "down" }
  /\ pending \in Nat
  /\ at \in [Clients -> { "idle", "get", "fill", "bump", "refetch" }]
  /\ key \in [Clients -> Keys \cup {None}]
  /\ held \in [Clients -> Nat]
  /\ since \in [Clients -> Nat]
  /\ restarts \in Nat
  /\ dirty \subseteq Keys
  /\ lost \subseteq dirty

\* No entry lies under a version that the counter has yet to reach, also not
\* one that an earlier process left behind: a version starts out empty, so
\* whatever is hit was stored by this process since its last Bump.
NoEntryFromTheFuture == \A e \in redis : e.ver <= ver

\* A Bump is on its way: a handler is about to call it, or a notification is
\* waiting to be received.
BumpOwed == pending > 0 \/ \E c \in Clients : at[c] = "bump"

\* An entry that hides a newer row has one of three excuses: its fill straddled
\* a Bump, a Bump for the write is still owed, or the notification was lost
\* while the LISTEN connection was down.  There is no fourth way to be stale.
StaleIsExcused ==
  \A k \in Keys : \A e \in Reachable(k) :
    e.rev < db[k] => e.since # e.ver \/ k \in lost \/ (k \in dirty /\ BumpOwed)

\* A stale entry does not stay ("cache will just rely on TTL for staleness"):
\* also without a working LISTEN connection it is gone at some time.
StaleGoesAway ==
  \A k \in Keys :
    (\E e \in Reachable(k) : e.rev < db[k])
      ~> ~(\E e \in Reachable(k) : e.rev < db[k])

\* The entry a read of k would hit.
EntryOf(k) ==
  IF Reachable(k) = {} THEN None ELSE (CHOOSE e \in Reachable(k) : TRUE).rev

Reading(c) == at[c] \in { "get", "fill" }

Promise ==
  INSTANCE CachePromise WITH
    entry <- [k \in Keys |-> EntryOf(k)],
    at    <- [c \in Clients |-> IF Reading(c) THEN at[c] ELSE "idle"],
    key   <- [c \in Clients |-> IF Reading(c) THEN key[c] ELSE None]

\* Versions, Redis entries that are never deleted, the TTL, LISTEN and restarts
\* together are a cache that holds at most one entry for each key, filled by a
\* read of this process and forgotten all at once: what TaskLifecycle.tla
\* takes the cache to be.
PromiseKept == Promise!Spec
=============================================================================
