------------------------------ MODULE Storage -------------------------------
(***************************************************************************)
(* The bounded store of one DHT layer (LayerStorage in crates/rtfsn-core/  *)
(* src/dht/storage.rs).  The value's data is left out: nothing looks at    *)
(* it.  Which of several oldest values is evicted depends on the order of  *)
(* a HashMap, so any of them may be.                                       *)
(***************************************************************************)
EXTENDS Integers, FiniteSets, Functions

CONSTANTS
    Key,
    MaxEntries, \* max_entries
    Stamp,      \* timestamps a value can carry, from whoever made it
    Ttl,        \* ttl_epochs a value can have
    MaxEpoch    \* bound: the last epoch

ASSUME StorageAssumption ==
    /\ IsFiniteSet(Key) /\ MaxEntries \in Nat
    /\ Stamp \subseteq Nat /\ Ttl \subseteq Nat /\ MaxEpoch \in Nat

VARIABLES
    store,      \* LayerStorage.store, a partial function
    now         \* the current epoch, of the caller

storageVars == <<store, now>>

StoredValue == [timestamp : Stamp, ttl : Ttl, origin : 0 .. MaxEpoch]

StorageInit == store = [k \in {} |-> k] /\ now = 0

(* evict_oldest *)
Oldest == {k \in DOMAIN store : \A l \in DOMAIN store :
              store[k].timestamp <= store[l].timestamp}

(* Faulty variant: the store fills up by one too many.                     *)
OverFull(k) == Cardinality(DOMAIN store) > MaxEntries /\ k \notin DOMAIN store

MustEvict(k) == Cardinality(DOMAIN store) >= MaxEntries /\ k \notin DOMAIN store

(* An empty store has nothing to evict, whatever its capacity.             *)
put(k, v) ==
    /\ \E gone \in IF MustEvict(k) /\ Oldest # {} THEN {{o} : o \in Oldest} ELSE {{}} :
          store' = [l \in (DOMAIN store \ gone) \cup {k} |->
                       IF l = k THEN v ELSE store[l]]
    /\ UNCHANGED now

remove_key(k) ==
    /\ store' = Restrict(store, DOMAIN store \ {k})
    /\ UNCHANGED now

Alive(v) == v.origin + v.ttl > now

(* FourLayerStorage::expire_all does the same to each of the four stores.  *)
expire ==
    /\ store' = Restrict(store, {k \in DOMAIN store : Alive(store[k])})
    /\ UNCHANGED now

EpochPasses == now < MaxEpoch /\ now' = now + 1 /\ UNCHANGED store

StorageNext ==
    \/ \E k \in Key, v \in StoredValue : put(k, v)
    \/ \E k \in Key : remove_key(k)
    \/ expire
    \/ EpochPasses

StorageSpec == StorageInit /\ [][StorageNext]_storageVars
-----------------------------------------------------------------------------
StorageTypeOK ==
    /\ DOMAIN store \subseteq Key /\ \A k \in DOMAIN store : store[k] \in StoredValue
    /\ now \in 0 .. MaxEpoch

(* The store never holds more than max_entries values (one, if that is     *)
(* zero), whatever is put, removed and expired in whatever order.          *)
StorageBounded ==
    Cardinality(DOMAIN store) <= IF MaxEntries = 0 THEN 1 ELSE MaxEntries
=============================================================================
