-------------------------- MODULE ReadCache_proofs --------------------------
(***************************************************************************)
(* Proofs about ReadCache for any number of keys and clients, any rows the *)
(* server may start on and any values of the bounds.                       *)
(***************************************************************************)
EXTENDS ReadCache, TLAPS

(* Type correctness: a client that reads or writes has a key, and what is    *)
(* about to be stored is a row that was there.                               *)

WellFormed ==
  \A c \in Clients :
    /\ at[c] # "idle" => key[c] \in Keys
    /\ at[c] = "fill" => held[c] # 0

TypeInv == TypeOK /\ WellFormed

LEMMA TypeInit == Init => TypeInv
BY CacheAssumption DEF Init, TypeInv, TypeOK, WellFormed, Entry

LEMMA TypeStep == TypeInv /\ [Next]_vars => TypeInv'
<1>. SUFFICES ASSUME TypeInv, [Next]_vars
              PROVE  TypeInv'
  OBVIOUS
<1>. USE DEF TypeInv, TypeOK, WellFormed, Goto, Return, client
<1>1. ASSUME NEW c \in Clients, NEW k \in Keys, Ask(c, k)
      PROVE  TypeInv'
  BY <1>1 DEF Ask
<1>2. ASSUME NEW c \in Clients, Hit(c)
      PROVE  TypeInv'
  <2>1. \A e \in redis : e.rev \in Nat
    BY DEF Entry
  <2>. QED
    BY <1>2, <2>1 DEF Hit, Reachable
<1>3. ASSUME NEW c \in Clients, Fetch(c)
      PROVE  TypeInv'
  <2>1. db[key[c]] \in Nat
    BY <1>3 DEF Fetch
  <2>. QED
    BY <1>3, <2>1 DEF Fetch
<1>4. ASSUME NEW c \in Clients, Fill(c)
      PROVE  TypeInv'
  <2>1. [ ver |-> ver, key |-> key[c], rev |-> held[c], since |-> since[c] ] \in Entry
    BY <1>4 DEF Fill, Entry
  <2>. QED
    BY <1>4, <2>1 DEF Fill, Stored
<1>5. ASSUME NEW c \in Clients, NEW k \in Keys, Write(c, k)
      PROVE  TypeInv'
  BY <1>5 DEF Write, Committed
<1>6. ASSUME NEW c \in Clients, Bump(c) \/ Refetch(c)
      PROVE  TypeInv'
  BY <1>6 DEF Bump, Refetch, BumpVersion
<1>7. ASSUME NEW k \in Keys, ForeignWrite(k)
      PROVE  TypeInv'
  BY <1>7 DEF ForeignWrite, Committed
<1>8. ASSUME NEW e \in redis, Expire(e)
      PROVE  TypeInv'
  BY <1>8 DEF Expire
<1>9. CASE Notified
  BY <1>9 DEF Notified, BumpVersion
<1>10. CASE Disconnect \/ Reconnect
  BY <1>10 DEF Disconnect, Reconnect
<1>11. CASE Restart
  BY <1>11 DEF Restart, startVersion
<1>12. CASE UNCHANGED vars
  BY <1>12 DEF vars
<1>. HIDE DEF TypeInv
<1>. QED
  BY <1>1, <1>2, <1>3, <1>4, <1>5, <1>6, <1>7, <1>8, <1>9, <1>10, <1>11, <1>12 DEF Next

\* Every reachable state has the types the model says.
THEOREM TypeCorrect == Spec => []TypeOK
<1>1. TypeInv => TypeOK
  BY DEF TypeInv
<1>. QED
  BY TypeInit, TypeStep, <1>1, PTL DEF Spec

-----------------------------------------------------------------------------
(* Versions only grow, and every entry is stored under the current one.      *)

OneEntry ==
  \A e, f \in redis : e.ver = f.ver /\ e.key = f.key => e = f

VersionInv == NoEntryFromTheFuture /\ OneEntry

LEMMA VersionStep == TypeInv /\ VersionInv /\ [Next]_vars => VersionInv'
<1>. SUFFICES ASSUME TypeInv, VersionInv, [Next]_vars
              PROVE  VersionInv'
  OBVIOUS
<1>. USE DEF VersionInv, NoEntryFromTheFuture, OneEntry
<1>1. \A e \in redis : e.ver \in Nat
  BY DEF TypeInv, TypeOK, Entry
<1>2. ver \in Nat
  BY DEF TypeInv, TypeOK
<1>3. CASE redis' \subseteq redis /\ ver' \in { ver, ver + 1 }
  BY <1>1, <1>2, <1>3
<1>4. ASSUME NEW c \in Clients, Fill(c)
      PROVE  VersionInv'
  BY <1>1, <1>2, <1>4 DEF Fill, Stored
<1>5. (\E c \in Clients : Fill(c)) \/ (redis' \subseteq redis /\ ver' \in { ver, ver + 1 })
  BY DEF Next, Ask, Hit, Fetch, Write, Bump, Refetch, ForeignWrite, Notified, Disconnect,
     Reconnect, Expire, Restart, startVersion, BumpVersion, Committed, vars
<1>. QED
  BY <1>3, <1>4, <1>5

\* A version prefix is empty when the counter, or a new process, gets to it.
THEOREM NothingFromTheFuture == Spec => []NoEntryFromTheFuture
<1>1. Init => VersionInv
  BY DEF Init, VersionInv, NoEntryFromTheFuture, OneEntry
<1>2. VersionInv => NoEntryFromTheFuture
  BY DEF VersionInv
<1>. QED
  BY TypeInit, TypeStep, <1>1, VersionStep, <1>2, PTL DEF Spec

-----------------------------------------------------------------------------
(* Staleness.  The argument is about what was fetched under the current      *)
(* version: such a row is out of date only if its key was written since the  *)
(* last Bump, in an entry as well as in a client that is yet to store it.    *)

FetchedEarlier ==
  \A c \in Clients :
    at[c] = "fill" => /\ since[c] <= ver
                      /\ since[c] = ver /\ held[c] < db[key[c]] => key[c] \in dirty

StoredFresh ==
  \A e \in redis :
    e.ver = ver /\ e.since = ver /\ e.rev < db[e.key] => e.key \in dirty

\* For every key written since the last Bump, a Bump is owed or nobody was told.
DirtyIsOwed == \A k \in dirty : k \in lost \/ BumpOwed

StaleInv == FetchedEarlier /\ StoredFresh /\ DirtyIsOwed

LEMMA StaleInit == Init => StaleInv
BY DEF Init, StaleInv, FetchedEarlier, StoredFresh, DirtyIsOwed

\* What a version bump leaves: nothing was fetched or stored under the new one.
LEMMA StaleBump ==
  ASSUME TypeInv, VersionInv, StaleInv, UNCHANGED << db, redis, key, held >>,
         ver' = ver + 1, dirty' = {},
         \A c \in Clients : at'[c] = "fill" => at[c] = "fill" /\ since'[c] = since[c]
  PROVE  StaleInv'
<1>1. \A c \in Clients : since[c] \in Nat /\ ver \in Nat
  BY DEF TypeInv, TypeOK
<1>2. FetchedEarlier'
  BY <1>1 DEF StaleInv, FetchedEarlier
<1>3. StoredFresh'
  BY <1>1 DEF StoredFresh, VersionInv, NoEntryFromTheFuture, TypeInv, TypeOK, Entry
<1>. QED
  BY <1>2, <1>3 DEF StaleInv, DirtyIsOwed

\* What a committed write leaves: one more dirty key, and a Bump owed for it.
LEMMA StaleWrite ==
  ASSUME TypeInv, StaleInv, NEW k \in Keys, Committed(k),
         UNCHANGED << ver, redis, held, since >>,
         \A c \in Clients : at'[c] = "fill" => at[c] = "fill" /\ key'[c] = key[c],
         \A c \in Clients : at[c] = "bump" => at'[c] = "bump"
  PROVE  StaleInv'
<1>1. \A j \in Keys : j \notin dirty' => db'[j] = db[j]
  BY DEF Committed, TypeInv, TypeOK
<1>2. dirty' = dirty \cup {k}
  BY DEF Committed
<1>3. FetchedEarlier'
  BY <1>1, <1>2 DEF StaleInv, FetchedEarlier, TypeInv, WellFormed
<1>4. StoredFresh'
  BY <1>1, <1>2 DEF StaleInv, StoredFresh, TypeInv, TypeOK, Entry
<1>5. DirtyIsOwed'
  BY <1>2 DEF StaleInv, DirtyIsOwed, BumpOwed, Committed, TypeInv, TypeOK
<1>. QED
  BY <1>3, <1>4, <1>5 DEF StaleInv

LEMMA StaleStep == TypeInv /\ VersionInv /\ StaleInv /\ [Next]_vars => StaleInv'
<1>. SUFFICES ASSUME TypeInv, VersionInv, StaleInv, [Next]_vars
              PROVE  StaleInv'
  OBVIOUS
<1>. USE DEF Goto, Return, client
<1>1. ASSUME NEW c \in Clients, NEW k \in Keys, Ask(c, k)
      PROVE  StaleInv'
  BY <1>1 DEF Ask, StaleInv, FetchedEarlier, StoredFresh, DirtyIsOwed, BumpOwed, TypeInv, TypeOK
<1>2. ASSUME NEW c \in Clients, Hit(c)
      PROVE  StaleInv'
  BY <1>2 DEF Hit, StaleInv, FetchedEarlier, StoredFresh, DirtyIsOwed, BumpOwed, TypeInv, TypeOK
<1>3. ASSUME NEW c \in Clients, Fetch(c)
      PROVE  StaleInv'
  <2>1. db[key[c]] \in Nat /\ ver \in Nat
    BY <1>3 DEF Fetch, TypeInv, TypeOK, WellFormed
  <2>2. FetchedEarlier'
    BY <1>3, <2>1 DEF Fetch, StaleInv, FetchedEarlier, TypeInv, TypeOK
  <2>. QED
    BY <1>3, <2>2 DEF Fetch, StaleInv, StoredFresh, DirtyIsOwed, BumpOwed, TypeInv, TypeOK
<1>4. ASSUME NEW c \in Clients, Fill(c)
      PROVE  StaleInv'
  <2>. DEFINE e == [ ver |-> ver, key |-> key[c], rev |-> held[c], since |-> since[c] ]
  <2>1. redis' \subseteq redis \cup {e}
    BY <1>4 DEF Fill, Stored
  <2>2. e.ver = ver /\ e.since = ver /\ e.rev < db[e.key] => e.key \in dirty
    BY <1>4 DEF Fill, StaleInv, FetchedEarlier
  <2>3. StoredFresh'
    BY <1>4, <2>1, <2>2 DEF Fill, StaleInv, StoredFresh
  <2>. QED
    BY <1>4, <2>3 DEF Fill, StaleInv, FetchedEarlier, DirtyIsOwed, BumpOwed, TypeInv, TypeOK
<1>5. ASSUME NEW c \in Clients, NEW k \in Keys, Write(c, k)
      PROVE  StaleInv'
  BY <1>5, StaleWrite DEF Write, TypeInv, TypeOK
<1>6. ASSUME NEW k \in Keys, ForeignWrite(k)
      PROVE  StaleInv'
  BY <1>6, StaleWrite DEF ForeignWrite
<1>7. ASSUME NEW c \in Clients, Bump(c)
      PROVE  StaleInv'
  BY <1>7, StaleBump DEF Bump, BumpVersion, TypeInv, TypeOK
<1>8. CASE Notified
  BY <1>8, StaleBump DEF Notified, BumpVersion
<1>9. CASE Restart
  <2>1. FetchedEarlier' /\ DirtyIsOwed'
    BY <1>9 DEF Restart, FetchedEarlier, DirtyIsOwed
  <2>2. StoredFresh'
    BY <1>9 DEF Restart, startVersion, StoredFresh, VersionInv, NoEntryFromTheFuture,
       TypeInv, TypeOK, Entry
  <2>. QED
    BY <2>1, <2>2 DEF StaleInv
<1>10. ASSUME NEW c \in Clients, Refetch(c)
       PROVE  StaleInv'
  BY <1>10 DEF Refetch, StaleInv, FetchedEarlier, StoredFresh, DirtyIsOwed, BumpOwed, TypeInv, TypeOK
<1>11. CASE Disconnect
  <2>1. DirtyIsOwed'
    BY <1>11 DEF Disconnect, StaleInv, DirtyIsOwed, BumpOwed, TypeInv, TypeOK
  <2>. QED
    BY <1>11, <2>1 DEF Disconnect, StaleInv, FetchedEarlier, StoredFresh
<1>12. ASSUME Reconnect \/ UNCHANGED vars \/ \E e \in redis : Expire(e)
       PROVE  StaleInv'
  BY <1>12 DEF Reconnect, Expire, vars, StaleInv, FetchedEarlier, StoredFresh, DirtyIsOwed, BumpOwed
<1>. QED
  BY <1>1, <1>2, <1>3, <1>4, <1>5, <1>6, <1>7, <1>8, <1>9, <1>10, <1>11, <1>12 DEF Next

\* A stale entry straddled a Bump, or a Bump for it is owed, or nobody was told.
THEOREM EveryStaleEntryIsExcused == Spec => []StaleIsExcused
<1>1. Init => VersionInv
  BY DEF Init, VersionInv, NoEntryFromTheFuture, OneEntry
<1>2. StaleInv => StaleIsExcused
  BY DEF StaleInv, StoredFresh, DirtyIsOwed, StaleIsExcused, Reachable
<1>. QED
  BY TypeInit, TypeStep, <1>1, VersionStep, StaleInit, StaleStep, <1>2, PTL DEF Spec

-----------------------------------------------------------------------------
(* The promise.  Each step of the versioned cache is a step of the plain one *)
(* or invisible: a Bump forgets everything, a TTL one key at most, a Fill    *)
(* puts one entry where a read finds it.                                     *)

\* What a read of k can find is one entry at most.
LEMMA EntryFound ==
  ASSUME VersionInv, NEW k, NEW e \in Reachable(k)
  PROVE  EntryOf(k) = e.rev
<1>1. \A f \in Reachable(k) : f = e
  BY DEF Reachable, VersionInv, OneEntry
<1>. QED
  BY <1>1 DEF EntryOf

LEMMA EntryMissing ==
  ASSUME NEW k
  PROVE  Reachable(k) = {} => EntryOf(k) = None
BY DEF EntryOf

\* A new version starts without entries.
LEMMA NothingReachable ==
  ASSUME TypeInv, VersionInv, ver' = ver + 1, redis' = redis, NEW k \in Keys
  PROVE  EntryOf(k)' = None
<1>1. \A e \in redis : e.ver \in Nat /\ ver \in Nat
  BY DEF TypeInv, TypeOK, Entry
<1>2. Reachable(k)' = {}
  BY <1>1 DEF Reachable, VersionInv, NoEntryFromTheFuture
<1>. QED
  BY <1>2 DEF EntryOf

\* Nothing changes for a read as long as version and entries are the same.
LEMMA EntriesKept ==
  ASSUME UNCHANGED << ver, redis >>
  PROVE  \A k \in Keys : EntryOf(k)' = EntryOf(k)
BY DEF EntryOf, Reachable

LEMMA PromiseInit == Init => Promise!Init
BY CacheAssumption DEF Init, Promise!Init, EntryOf, Reachable, Reading

LEMMA PromiseStep ==
  TypeInv /\ VersionInv /\ VersionInv' /\ [Next]_vars => [Promise!Next]_(Promise!vars)
<1>. SUFFICES ASSUME TypeInv, VersionInv, VersionInv', [Next]_vars
              PROVE  Promise!Next \/ UNCHANGED Promise!vars
  OBVIOUS
<1>. USE DEF Goto, Return, Reading, client
<1>1. ASSUME NEW c \in Clients, NEW k \in Keys, Ask(c, k)
      PROVE  Promise!Ask(c, k)
  BY <1>1, EntriesKept DEF Ask, Promise!Ask, TypeInv, TypeOK
<1>2. ASSUME NEW c \in Clients, Hit(c)
      PROVE  Promise!Hit(c)
  <2>1. PICK e \in Reachable(key[c]) : held' = [held EXCEPT ![c] = e.rev]
    BY <1>2 DEF Hit
  <2>2. EntryOf(key[c]) = e.rev /\ e.rev # None /\ key[c] \in Keys
    BY <1>2, <2>1, EntryFound, CacheAssumption DEF Hit, Reachable, TypeInv, TypeOK, Entry, WellFormed
  <2>. QED
    BY <1>2, <2>1, <2>2, EntriesKept DEF Hit, Promise!Hit, Promise!Done, TypeInv, TypeOK
<1>3. ASSUME NEW c \in Clients, Fetch(c)
      PROVE  Promise!Fetch(c)
  BY <1>3, EntriesKept DEF Fetch, Promise!Fetch, Promise!Done, TypeInv, TypeOK
<1>4. ASSUME NEW c \in Clients, Fill(c)
      PROVE  Promise!Fill(c)
  <2>. DEFINE e == [ ver |-> ver, key |-> key[c], rev |-> held[c], since |-> since[c] ]
  <2>1. PICK j \in Keys : j = key[c]
    BY <1>4 DEF Fill, TypeInv, WellFormed
  <2>2. CASE UNCHANGED redis
    BY <1>4, <2>2, EntriesKept DEF Fill, Promise!Fill, Promise!Done, TypeInv, TypeOK
  <2>3. CASE redis' = Stored(e)
    <3>1. EntryOf(j)' = held[c]
      <4>1. { f \in redis' : f.ver = ver' /\ f.key = j } = {e}
        BY <1>4, <2>1, <2>3 DEF Fill, Stored
      <4>2. Reachable(j)' = {e}
        BY <4>1 DEF Reachable
      <4>3. \A x : x \in {e} => x.rev = held[c]
        OBVIOUS
      <4>. QED
        BY <4>2, <4>3 DEF EntryOf
    <3>2. ASSUME NEW k \in Keys \ {j}
          PROVE  EntryOf(k)' = EntryOf(k)
      <4>1. Reachable(k)' = Reachable(k)
        BY <1>4, <2>1, <2>3 DEF Fill, Stored, Reachable
      <4>. QED
        BY <4>1 DEF EntryOf
    <3>3. [k \in Keys |-> EntryOf(k)]' = [[k \in Keys |-> EntryOf(k)] EXCEPT ![j] = held[c]]
      BY <3>1, <3>2
    <3>. QED
      BY <1>4, <2>1, <3>3 DEF Fill, Promise!Fill, Promise!Done, TypeInv, TypeOK
  <2>. QED
    BY <1>4, <2>2, <2>3 DEF Fill
<1>5. ASSUME NEW c \in Clients, NEW k \in Keys, Write(c, k)
      PROVE  Promise!Write(k)
  BY <1>5, EntriesKept DEF Write, Committed, Promise!Write, TypeInv, TypeOK
<1>6. ASSUME NEW k \in Keys, ForeignWrite(k)
      PROVE  Promise!Write(k)
  BY <1>6, EntriesKept DEF ForeignWrite, Committed, Promise!Write
<1>7. ASSUME NEW c \in Clients, Bump(c)
      PROVE  \E K \in SUBSET Keys : Promise!Forget(K)
  <2>1. Promise!Forget(Keys)
    BY <1>7, NothingReachable DEF Bump, BumpVersion, Promise!Forget, TypeInv, TypeOK
  <2>. QED
    BY <2>1
<1>8. ASSUME NEW c \in Clients, Refetch(c)
      PROVE  \E k \in Keys : Promise!Ask(c, k)
  <2>1. PICK k \in Keys : k = key[c]
    BY <1>8 DEF Refetch, TypeInv, WellFormed
  <2>2. Promise!Ask(c, k)
    BY <1>8, <2>1, EntriesKept DEF Refetch, Promise!Ask, TypeInv, TypeOK
  <2>. QED
    BY <2>2
<1>9. ASSUME Notified
      PROVE  \E K \in SUBSET Keys : Promise!Forget(K)
  <2>1. Promise!Forget(Keys)
    BY <1>9, NothingReachable DEF Notified, BumpVersion, Promise!Forget
  <2>. QED
    BY <2>1
<1>10. ASSUME Disconnect \/ Reconnect
       PROVE  UNCHANGED Promise!vars
  BY <1>10, EntriesKept DEF Disconnect, Reconnect, Promise!vars
<1>11. ASSUME NEW e \in redis, Expire(e)
       PROVE  \E K \in SUBSET Keys : Promise!Forget(K)
  <2>. DEFINE K == { k \in Keys : e \in Reachable(k) }
  <2>1. ver' = ver /\ redis' = redis \ {e}
    BY <1>11 DEF Expire
  <2>2. ASSUME NEW k \in K
        PROVE  EntryOf(k)' = None
    <3>1. \A f \in Reachable(k) : f = e
      BY DEF Reachable, VersionInv, OneEntry
    <3>2. Reachable(k)' = {}
      BY <2>1, <3>1 DEF Reachable
    <3>. QED
      BY <3>2 DEF EntryOf
  <2>3. ASSUME NEW k \in Keys \ K
        PROVE  EntryOf(k)' = EntryOf(k)
    <3>1. Reachable(k)' = Reachable(k)
      BY <2>1 DEF Reachable
    <3>. QED
      BY <3>1 DEF EntryOf
  <2>4. Promise!Forget(K)
    BY <1>11, <2>2, <2>3 DEF Expire, Promise!Forget
  <2>. QED
    BY <2>4
<1>12. ASSUME Restart
       PROVE  Promise!Crash
  BY <1>12, NothingReachable DEF Restart, startVersion, Promise!Crash
<1>13. ASSUME UNCHANGED vars
       PROVE  UNCHANGED Promise!vars
  BY <1>13, EntriesKept DEF vars, Promise!vars
<1>14. CASE \E c \in Clients :
              \/ Hit(c) \/ Fetch(c) \/ Fill(c) \/ Bump(c) \/ Refetch(c)
              \/ \E k \in Keys : Ask(c, k) \/ Write(c, k)
  BY <1>1, <1>2, <1>3, <1>4, <1>5, <1>7, <1>8, <1>14 DEF Promise!Next
<1>15. CASE (\E k \in Keys : ForeignWrite(k)) \/ (\E e \in redis : Expire(e))
  BY <1>6, <1>11, <1>15 DEF Promise!Next
<1>16. CASE Notified \/ Disconnect \/ Reconnect \/ Restart \/ UNCHANGED vars
  BY <1>9, <1>10, <1>12, <1>13, <1>16 DEF Promise!Next
<1>. QED
  BY <1>14, <1>15, <1>16 DEF Next

\* The versioned cache implements the plain one, for all values of the bounds.
THEOREM KeepsThePromise == Spec => PromiseKept
<1>1. Init => VersionInv
  BY DEF Init, VersionInv, NoEntryFromTheFuture, OneEntry
<1>. QED
  BY TypeInit, TypeStep, <1>1, VersionStep, PromiseInit, PromiseStep, PTL
  DEF Spec, PromiseKept, Promise!Spec
=============================================================================
