----------------------------- MODULE LeafCache -----------------------------
(***************************************************************************)
(* router/src/proxy/ca.rs, ProxyCa::certified_key_for_at: the leaf         *)
(* certificates the proxy presents, cached by host.  A CONNECT reads the   *)
(* clock, looks under the lock, signs a leaf outside it and takes the lock *)
(* again to store it; CONNECTs of one host and of others run at once, and  *)
(* each keeps the time it read at the start.                               *)
(*                                                                         *)
(* A leaf is the CONNECT that signed it: its validity ends Validity after  *)
(* the time that CONNECT read.                                             *)
(***************************************************************************)
EXTENDS Naturals, FiniteSets, Functions

CONSTANTS
  Connects,      \* calls of certified_key_for
  Hosts,
  HostOf,        \* the host each CONNECT names
  Capacity,      \* LEAF_CACHE_CAPACITY
  RefreshAfter,  \* LEAF_REFRESH_AFTER
  Validity,      \* LEAF_VALIDITY
  MaxDelay,      \* how long a call may take, signing and locks included
  NoLeaf,
  MaxClock       \* bound

LeafAssumption ==
  /\ HostOf \in [Connects -> Hosts]
  /\ Capacity \in Nat \ {0}
  /\ RefreshAfter \in Nat \ {0} /\ Validity \in Nat /\ MaxDelay \in Nat /\ MaxClock \in Nat
  /\ RefreshAfter + MaxDelay <= Validity
  /\ NoLeaf \notin Connects

VARIABLES
  clock,  \* the wall clock
  pc,
  now,    \* the time each call read
  cache,  \* host -> [leaf, refresh_at, last_used_at]
  got     \* the leaf each call returned

vars == <<clock, pc, now, cache, got>>

Entry == [leaf : Connects, refresh_at : Nat, last_used_at : 0..clock]

TypeOK ==
  /\ clock \in 0..MaxClock
  /\ pc \in [Connects -> {"new", "look", "sign", "store", "done", "failed"}]
  /\ now \in [Connects -> 0..clock]
  /\ \E cached \in SUBSET Hosts : cache \in [cached -> Entry]
  /\ got \in [Connects -> Connects \cup {NoLeaf}]

Init ==
  /\ clock = 0
  /\ pc = [c \in Connects |-> "new"]
  /\ now = [c \in Connects |-> 0]
  /\ cache = [h \in {} |-> NoLeaf]
  /\ got = [c \in Connects |-> NoLeaf]

-----------------------------------------------------------------------------
Inside(c) == pc[c] \in {"look", "sign", "store"}

\* Mutant of Fresh: a leaf is used until it expires.
FreshUntilExpiry(c, h) ==
  h \in DOMAIN cache /\ now[c] < cache[h].refresh_at + (Validity - RefreshAfter)

\* cache.get_mut(host).filter(|cached| now < cached.refresh_at)
Fresh(c, h) == h \in DOMAIN cache /\ now[c] < cache[h].refresh_at

\* The cached leaf is returned and marked as used.
Use(c) ==
  /\ cache' = [cache EXCEPT ![HostOf[c]].last_used_at = now[c]]
  /\ got' = [got EXCEPT ![c] = cache[HostOf[c]].leaf]
  /\ pc' = [pc EXCEPT ![c] = "done"]

\* A CONNECT arrives; OffsetDateTime::now_utc is read first.
Begin(c) ==
  /\ pc[c] = "new" /\ pc' = [pc EXCEPT ![c] = "look"]
  /\ now' = [now EXCEPT ![c] = clock]
  /\ UNCHANGED <<clock, cache, got>>

\* The first look under the lock.
Look(c) ==
  /\ pc[c] = "look"
  /\ IF Fresh(c, HostOf[c]) THEN Use(c)
     ELSE pc' = [pc EXCEPT ![c] = "sign"] /\ UNCHANGED <<cache, got>>
  /\ UNCHANGED <<clock, now>>

\* The key pair and the leaf are made with the lock released.
Sign(c) ==
  /\ pc[c] = "sign" /\ pc' = [pc EXCEPT ![c] = "store"]
  /\ UNCHANGED <<clock, now, cache, got>>

\* Making them failed.
SignFailed(c) ==
  /\ pc[c] = "sign" /\ pc' = [pc EXCEPT ![c] = "failed"]
  /\ UNCHANGED <<clock, now, cache, got>>

\* Mutant of Evicted: a full cache takes one more.
EvictedNone(kept) == {{}}

\* At the capacity, one of the least recently used entries.
Evicted(kept) ==
  IF Cardinality(kept) < Capacity THEN {{}}
  ELSE {{v} : v \in {u \in kept :
          \A h \in kept : cache[u].last_used_at <= cache[h].last_used_at}}

Kept(c) == {h \in DOMAIN cache : Fresh(c, h)}

Insert(c) == \E gone \in Evicted(Kept(c)) :
  /\ cache' = [h \in (Kept(c) \ gone) \cup {HostOf[c]} |->
       IF h = HostOf[c] THEN [leaf |-> c, refresh_at |-> now[c] + RefreshAfter, last_used_at |-> now[c]]
       ELSE cache[h]]
  /\ got' = [got EXCEPT ![c] = c]
  /\ pc' = [pc EXCEPT ![c] = "done"]

\* Mutant of Store: what was signed is stored without looking again.
StoreBlindly(c) ==
  /\ pc[c] = "store" /\ Insert(c)
  /\ UNCHANGED <<clock, now>>

\* Under the lock again: another CONNECT's leaf if there is one by now, or
\* the new one, with the entries this call finds due dropped.
Store(c) ==
  /\ pc[c] = "store"
  /\ IF Fresh(c, HostOf[c]) THEN Use(c) ELSE Insert(c)
  /\ UNCHANGED <<clock, now>>

Tick ==
  /\ clock < MaxClock /\ clock' = clock + 1
  /\ \A c \in Connects : Inside(c) => clock < now[c] + MaxDelay
  /\ UNCHANGED <<pc, now, cache, got>>

Ended == (\A c \in Connects : pc[c] \in {"done", "failed"}) /\ UNCHANGED vars

Next ==
  \/ \E c \in Connects : Begin(c) \/ Look(c) \/ Sign(c) \/ SignFailed(c) \/ Store(c)
  \/ Tick
  \/ Ended

Spec == Init /\ [][Next]_vars

-----------------------------------------------------------------------------
(***************************************************************************)
(* The cache holds at most LEAF_CACHE_CAPACITY leaves, whatever the        *)
(* CONNECTs that store at once read from the clock.                        *)
(***************************************************************************)
Bounded == Cardinality(DOMAIN cache) <= Capacity

(***************************************************************************)
(* The leaf a call returns is still valid when the call returns it, its    *)
(* own or another CONNECT's, although the call judged it by the time it    *)
(* read before it waited for the lock and signed.                          *)
(***************************************************************************)
ReturnsValid ==
  \A c \in Connects : got'[c] # got[c] => clock < now[got'[c]] + Validity

(***************************************************************************)
(* The clients of one host are shown one leaf while it is fresh: CONNECTs  *)
(* that race never replace it, and only a full cache drops it.             *)
(***************************************************************************)
FreshKept ==
  \A h \in DOMAIN cache : clock < cache[h].refresh_at =>
    IF h \in DOMAIN cache' THEN cache'[h].leaf = cache[h].leaf
    ELSE Cardinality(DOMAIN cache) >= Capacity
=============================================================================
