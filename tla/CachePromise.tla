---------------------------- MODULE CachePromise ----------------------------
(***************************************************************************)
(* What the read cache promises its callers, with no version, Redis or     *)
(* LISTEN connection in sight: a key has at most one entry, the entry was  *)
(* fetched from the database by somebody, it may vanish at any time, and a *)
(* read answers with the entry or with what it fetches itself.  An absent  *)
(* row (revision 0) is never kept as an entry.                             *)
(*                                                                         *)
(* The promise says nothing of how old an entry is: that is the weakness   *)
(* the handlers of TaskLifecycle.tla live with.                            *)
(***************************************************************************)
EXTENDS Naturals

CONSTANTS
  Keys,      \* cache keys, one row each
  Clients,   \* request goroutines
  None       \* no entry, no key

VARIABLES
  db,        \* the committed revision of each row, 0 while it does not exist
  entry,     \* what a read would hit: a revision or None
  at,        \* where a client's read is: "idle", "get", "fill"
  key,       \* the key it reads, None while it reads nothing
  held       \* the revision it fetched, or answered with

vars == << db, entry, at, key, held >>

Init ==
  /\ db \in [Keys -> Nat]
  /\ entry = [k \in Keys |-> None]
  /\ at = [c \in Clients |-> "idle"]
  /\ key = [c \in Clients |-> None]
  /\ held = [c \in Clients |-> 0]

Write(k) ==
  /\ db' = [db EXCEPT ![k] = @ + 1]
  /\ UNCHANGED << entry, at, key, held >>

Forget(K) ==
  /\ entry' = [k \in Keys |-> IF k \in K THEN None ELSE entry[k]]
  /\ UNCHANGED << db, at, key, held >>

Ask(c, k) ==
  /\ at[c] = "idle"
  /\ at' = [at EXCEPT ![c] = "get"]
  /\ key' = [key EXCEPT ![c] = k]
  /\ UNCHANGED << db, entry, held >>

\* The read ends.
Done(c) ==
  /\ at' = [at EXCEPT ![c] = "idle"]
  /\ key' = [key EXCEPT ![c] = None]

Hit(c) ==
  /\ at[c] = "get" /\ entry[key[c]] # None
  /\ Done(c)
  /\ held' = [held EXCEPT ![c] = entry[key[c]]]
  /\ UNCHANGED << db, entry >>

\* An absent row is answered at once, any other goes on to be kept.
Fetch(c) ==
  /\ at[c] = "get"
  /\ held' = [held EXCEPT ![c] = db[key[c]]]
  /\ IF db[key[c]] = 0
       THEN Done(c)
       ELSE at' = [at EXCEPT ![c] = "fill"] /\ UNCHANGED key
  /\ UNCHANGED << db, entry >>

Fill(c) ==
  /\ at[c] = "fill"
  /\ Done(c)
  /\ entry' \in { entry, [entry EXCEPT ![key[c]] = held[c]] }
  /\ UNCHANGED << db, held >>

\* The process ends and every read in it with it.
Crash ==
  /\ entry' = [k \in Keys |-> None]
  /\ at' = [c \in Clients |-> "idle"]
  /\ key' = [c \in Clients |-> None]
  /\ UNCHANGED << db, held >>

Next ==
  \/ \E k \in Keys : Write(k)
  \/ \E K \in SUBSET Keys : Forget(K)
  \/ \E c \in Clients : Hit(c) \/ Fetch(c) \/ Fill(c) \/ \E k \in Keys : Ask(c, k)
  \/ Crash

Spec == Init /\ [][Next]_vars
=============================================================================
