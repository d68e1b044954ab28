----------------------------- MODULE TableCache -----------------------------
(***************************************************************************)
(* The cache of reduction tables in rabinkarp64.go, which the digests of   *)
(* all goroutines share: tablesFor(pol, windowsize), called by NewFromPol, *)
(* Write, Reset, BatchRoll and BatchBoundaries.  The lock is given up while*)
(* a table is built, so that two goroutines may build the same one.        *)
(*                                                                         *)
(* A table is identified with the index it was built for.  An access to    *)
(* the map takes time: it goes on while its goroutine is "looking" or      *)
(* "storing".                                                              *)
(***************************************************************************)
EXTENDS Integers, FiniteSets

CONSTANTS Goroutines, Pols, WindowSizes, Nil

ASSUME CacheAssumption == Nil \notin Goroutines

VARIABLES entries,   \* the map
          lock,      \* who holds the mutex, or Nil
          want,      \* the arguments of a goroutine's call
          tables,    \* its t, or Nil
          at         \* where it is in tablesFor, "idle" outside

cacheVars == <<entries, lock, want, tables, at>>

index == [pol : Pols, windowsize : WindowSizes]

CacheInit ==
    /\ entries = [i \in {} |-> Nil]
    /\ lock = Nil
    /\ want \in [Goroutines -> index]
    /\ tables = [g \in Goroutines |-> Nil]
    /\ at = [g \in Goroutines |-> "idle"]

Call(g) ==
    /\ at[g] = "idle"
    /\ \E i \in index : want' = [want EXCEPT ![g] = i]
    /\ at' = [at EXCEPT ![g] = "lookup"]
    /\ UNCHANGED <<entries, lock, tables>>

\* Mutant: the tables of a polynomial are cached whatever the window.
idxOfPol(g) == want[g].pol

idx(g) == want[g]

\* cache.Lock(), before either access.
Lock(g) ==
    /\ at[g] \in {"lookup", "store"}
    /\ lock = Nil
    /\ lock' = g
    /\ at' = [at EXCEPT ![g] = IF at[g] = "lookup" THEN "looking" ELSE "storing"]
    /\ UNCHANGED <<entries, want, tables>>

\* t, ok := cache.entries[idx]
Look(g) ==
    /\ at[g] = "looking"
    /\ tables' = [tables EXCEPT ![g] = IF idx(g) \in DOMAIN entries THEN entries[idx(g)] ELSE Nil]
    /\ at' = [at EXCEPT ![g] = "looked"]
    /\ UNCHANGED <<entries, lock, want>>

\* Mutant: only a hit returns.
UnlockAndBuild(g) ==
    /\ at[g] \in {"looked", "stored"}
    /\ lock' = Nil
    /\ at' = [at EXCEPT ![g] = IF tables[g] = Nil \/ at[g] = "stored"
                              THEN "building" ELSE "idle"]
    /\ UNCHANGED <<entries, want, tables>>

\* cache.Unlock(), then a hit, or a table that was stored, is returned.
Unlock(g) ==
    /\ at[g] \in {"looked", "stored"}
    /\ lock' = Nil
    /\ at' = [at EXCEPT ![g] = IF tables[g] = Nil THEN "building" ELSE "idle"]
    /\ UNCHANGED <<entries, want, tables>>

\* Mutant: the new table is stored without the lock.
BuildAndStore(g) ==
    /\ at[g] = "building"
    /\ tables' = [tables EXCEPT ![g] = want[g]]
    /\ at' = [at EXCEPT ![g] = "storing"]
    /\ UNCHANGED <<entries, lock, want>>

\* t = buildTables(pol, windowsize)
Build(g) ==
    /\ at[g] = "building"
    /\ tables' = [tables EXCEPT ![g] = want[g]]
    /\ at' = [at EXCEPT ![g] = "store"]
    /\ UNCHANGED <<entries, lock, want>>

\* cache.entries[idx] = t, whoever has stored one since.
Store(g) ==
    /\ at[g] = "storing"
    /\ entries' = [i \in DOMAIN entries \union {idx(g)} |->
                     IF i = idx(g) THEN tables[g] ELSE entries[i]]
    /\ at' = [at EXCEPT ![g] = "stored"]
    /\ UNCHANGED <<lock, want, tables>>

InCall(g) == Lock(g) \/ Look(g) \/ Unlock(g) \/ Build(g) \/ Store(g)

CacheNext == \E g \in Goroutines : Call(g) \/ InCall(g)

CacheSpec == CacheInit /\ [][CacheNext]_cacheVars

\* A goroutine in tablesFor is scheduled, and sync.Mutex starves nobody.
FairCache ==
    CacheSpec /\ \A g \in Goroutines : WF_cacheVars(InCall(g)) /\ SF_cacheVars(Lock(g))
-----------------------------------------------------------------------------
\* The map is not written while another goroutine accesses it, which Go does not
\* allow, though the lock is taken twice in a call.
MapGuarded ==
    \A g, h \in Goroutines :
        (g # h /\ at[g] = "storing") => at[h] \notin {"looking", "storing"}

\* A digest gets the tables of its own polynomial and window, whoever built them and
\* however often they were built ("cacheable for a given pol and windowsize", line 46).
OwnTables ==
    \A g \in Goroutines :
        (at[g] = "idle" /\ tables[g] # Nil) => tables[g] = want[g]

\* Every call returns.
CallsReturn == \A g \in Goroutines : at[g] # "idle" ~> at[g] = "idle"
=============================================================================
