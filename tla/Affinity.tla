------------------------------ MODULE Affinity ------------------------------
(***************************************************************************)
(* crates/accounts/src/affinity.rs: Affinity<V, C>, the session affinity   *)
(* map shared by all request tasks of a pool.  One RwLock guards the map;  *)
(* each lock section is one step.  A lookup that finds a stale entry under *)
(* the read lock releases it and looks again under the write lock: other   *)
(* tasks run in between.  Stale entries are swept every GcEvery            *)
(* operations, counted by an atomic that is not guarded by the lock.       *)
(***************************************************************************)
EXTENDS Integers, FiniteSets

CONSTANTS Threads, Sessions, Values, Ttl, RetainedTtl, MaxTime, NoEntry,
          GcEvery       \* operations between two sweeps (gc_every, 1024)

\* with_clock_and_absolute_retention keeps the larger of the two ages, so a
\* live entry is always retained.
ASSUME TtlAssumption ==
    /\ Ttl \in Nat
    /\ RetainedTtl \in Nat
    /\ Ttl =< RetainedTtl
    /\ MaxTime \in Nat

ASSUME GcAssumption == GcEvery \in Nat \ {0}

ASSUME ThreadsAssumption == IsFiniteSet(Threads)

ASSUME NoEntryAssumption ==
    /\ NoEntry \notin Values
    /\ NoEntry \notin [value : Values, stamped_at : Nat]
    /\ NoEntry \notin [key : Sessions, value : Values \cup {NoEntry}]

VARIABLES
    clock,          \* Clock::now
    map,            \* the RwLock'ed HashMap: map[s] is an entry or NoEntry
    ops_since_gc,   \* the AtomicUsize
    pc,             \* pc[t]: where task t is in lookup or record
    arg,            \* arg[t]: the arguments of its call
    answer          \* answer[t]: what the last lookup of task t returned

vars == <<clock, map, ops_since_gc, pc, arg, answer>>

Mapped == [s \in Sessions |->
             IF map[s] # NoEntry /\ clock - map[s].stamped_at >= RetainedTtl
             THEN NoEntry ELSE map[s]]

\* The specification this module implements, with the stale entries hidden.
Abs == INSTANCE AffinityMap WITH bound <- Mapped

Entry   == Abs!Entry
Unknown == Abs!Unknown
Stale(e) == Abs!Stale(e, clock)

(***************************************************************************)
(* The arguments of a call: the key, and the value to record, which a      *)
(* lookup does not have.                                                   *)
(***************************************************************************)
Args   == [key : Sessions, value : Values \cup {NoEntry}]
Points == {"idle", "count", "reset", "sweep", "read", "recheck", "insert"}

TypeOK ==
    /\ clock \in 0..MaxTime
    /\ map \in [Sessions -> Entry \cup {NoEntry}]
    /\ ops_since_gc \in Nat
    /\ pc \in [Threads -> Points]
    /\ arg \in [Threads -> Args \cup {NoEntry}]
    /\ answer \in [Threads -> Abs!Answers]
    /\ \A t \in Threads :
          /\ pc[t] = "idle" <=> arg[t] = NoEntry
          /\ pc[t] \in {"read", "recheck"} => arg[t].value = NoEntry
          /\ pc[t] = "insert" => arg[t].value \in Values

Init ==
    /\ clock = 0
    /\ map = [s \in Sessions |-> NoEntry]
    /\ ops_since_gc = 0
    /\ pc = [t \in Threads |-> "idle"]
    /\ arg = [t \in Threads |-> NoEntry]
    /\ answer = [t \in Threads |-> Abs!Idle]

At(t, p) == pc[t] = p

Goto(t, p) == /\ pc' = [pc EXCEPT ![t] = p]
              /\ UNCHANGED arg

Call(t, s, v) == /\ At(t, "idle")
                 /\ pc' = [pc EXCEPT ![t] = "count"]
                 /\ arg' = [arg EXCEPT ![t] = [key |-> s, value |-> v]]

Return(t) == /\ pc' = [pc EXCEPT ![t] = "idle"]
             /\ arg' = [arg EXCEPT ![t] = NoEntry]

(***************************************************************************)
(* A task enters lookup(key) or record(key, value).                        *)
(***************************************************************************)
Lookup(t, s) ==
    /\ Call(t, s, NoEntry)
    /\ UNCHANGED <<clock, map, ops_since_gc, answer>>

Record(t, s, v) ==
    /\ Call(t, s, v)
    /\ UNCHANGED <<clock, map, ops_since_gc, answer>>

\* Mutant of Body: a lookup falls through to the insert of record.
BodyAlwaysInsert(t) == "insert"

\* Where a call goes once maybe_sweep_expired has returned.
Body(t) == IF arg[t].value = NoEntry THEN "read" ELSE "insert"

(***************************************************************************)
(* maybe_sweep_expired: fetch_add, and the early return below gc_every.    *)
(***************************************************************************)
CountOp(t) ==
    /\ At(t, "count")
    /\ ops_since_gc' = ops_since_gc + 1
    /\ Goto(t, IF ops_since_gc + 1 < GcEvery THEN Body(t) ELSE "reset")
    /\ UNCHANGED <<clock, map, answer>>

\* Mutant of ResetOps: the counter is never stored back to zero.
ResetOpsForgotten(t) ==
    /\ At(t, "reset")
    /\ Goto(t, "sweep")
    /\ UNCHANGED <<clock, map, ops_since_gc, answer>>

\* store(0): increments made since this task's fetch_add are discarded.
ResetOps(t) ==
    /\ At(t, "reset")
    /\ ops_since_gc' = 0
    /\ Goto(t, "sweep")
    /\ UNCHANGED <<clock, map, answer>>

\* Mutant of Sweep: the boundary age survives the sweep.
SweepOffByOne(t) ==
    /\ At(t, "sweep")
    /\ map' = [s \in Sessions |->
                 IF map[s] # NoEntry /\ Abs!Age(map[s], clock) > RetainedTtl
                 THEN NoEntry ELSE map[s]]
    /\ Goto(t, Body(t))
    /\ UNCHANGED <<clock, ops_since_gc, answer>>

\* retain, under the write lock.
Sweep(t) ==
    /\ At(t, "sweep")
    /\ map' = [s \in Sessions |-> IF Stale(map[s]) THEN NoEntry ELSE map[s]]
    /\ Goto(t, Body(t))
    /\ UNCHANGED <<clock, ops_since_gc, answer>>

(***************************************************************************)
(* lookup, the section under the read lock: an absent or a remembered      *)
(* entry is answered at once, a stale one needs the write lock.            *)
(***************************************************************************)
ReadLocked(t) ==
    LET e == map[arg[t].key]
    IN  /\ At(t, "read")
        /\ \/ /\ Stale(e)
              /\ Goto(t, "recheck")
              /\ UNCHANGED answer
           \/ /\ ~Stale(e)
              /\ answer' = [answer EXCEPT ![t] = Abs!AnswerFor(e, clock)]
              /\ Return(t)
        /\ UNCHANGED <<clock, map, ops_since_gc>>

\* Mutant of WriteLocked: the entry seen under the read lock is removed
\* without a second look.
WriteLockedBlindly(t) ==
    /\ At(t, "recheck")
    /\ map' = [map EXCEPT ![arg[t].key] = NoEntry]
    /\ answer' = [answer EXCEPT ![t] = Unknown]
    /\ Return(t)
    /\ UNCHANGED <<clock, ops_since_gc>>

\* lookup, the section under the write lock: the entry is looked at again.
WriteLocked(t) ==
    LET e == map[arg[t].key]
    IN  /\ At(t, "recheck")
        /\ map' = IF Stale(e) THEN [map EXCEPT ![arg[t].key] = NoEntry] ELSE map
        /\ answer' = [answer EXCEPT ![t] = Abs!AnswerFor(e, clock)]
        /\ Return(t)
        /\ UNCHANGED <<clock, ops_since_gc>>

\* record: the insert under the write lock.
Insert(t) ==
    /\ At(t, "insert")
    /\ map' = [map EXCEPT ![arg[t].key] =
                 [value |-> arg[t].value, stamped_at |-> clock]]
    /\ Return(t)
    /\ UNCHANGED <<clock, ops_since_gc, answer>>

Tick ==
    /\ clock < MaxTime
    /\ clock' = clock + 1
    /\ UNCHANGED <<map, ops_since_gc, pc, arg, answer>>

Step(t) == \/ CountOp(t) \/ ResetOps(t) \/ Sweep(t)
           \/ ReadLocked(t) \/ WriteLocked(t) \/ Insert(t)
Enter(t) == \/ \E s \in Sessions : Lookup(t, s)
            \/ \E s \in Sessions, v \in Values : Record(t, s, v)

Next == Tick \/ \E t \in Threads : Enter(t) \/ Step(t)

Spec == Init /\ [][Next]_vars

(***************************************************************************)
(* Fairness: a call that was entered runs to its end (no section blocks),  *)
(* and requests keep arriving, which is what "normal traffic" means in the *)
(* doc comment about the sweep.                                            *)
(***************************************************************************)
FairSpec == Spec /\ \A t \in Threads : WF_vars(Step(t)) /\ WF_vars(Enter(t))

-----------------------------------------------------------------------------
(***************************************************************************)
(* The counter of operations cannot run away although its reset is not     *)
(* atomic with the increment that triggers it: above GcEvery - 1 there is  *)
(* at most one increment for each task that is about to reset it           *)
(* (maybe_sweep_expired).                                                  *)
(***************************************************************************)
AboutToReset == {t \in Threads : At(t, "reset")}
OpsBounded == ops_since_gc =< GcEvery - 1 + Cardinality(AboutToReset)

(***************************************************************************)
(* Laziness is not observable: every behaviour of the locks, the double    *)
(* check and the sweep is one of a map that expires its entries on time.   *)
(* In particular a fresh binding recorded between the two looks of another *)
(* task's lookup survives it.                                              *)
(***************************************************************************)
ImplementsMap == Abs!Spec

(***************************************************************************)
(* "Fully stale retained entries are swept opportunistically during normal *)
(* traffic": a stale entry does not stay in the map for ever.              *)
(***************************************************************************)
StaleSwept == \A s \in Sessions : Stale(map[s]) ~> ~Stale(map[s])

=============================================================================
