---------------------------- MODULE AffinityMap ----------------------------
(***************************************************************************)
(* What the session affinity map of crates/accounts/src/affinity.rs        *)
(* promises to the account pools: a map from sessions to pool bindings     *)
(* whose entries expire by themselves.  An entry younger than Ttl is a     *)
(* Hit, one younger than RetainedTtl is remembered as Expired, and an      *)
(* older one is forgotten at the very instant its age reaches RetainedTtl. *)
(*                                                                         *)
(* Nothing here is lazy, and every operation is one step.  Module Affinity *)
(* describes the code (locks, double check, opportunistic sweep) and is    *)
(* shown to implement this specification.                                  *)
(***************************************************************************)
EXTENDS Integers

CONSTANTS
    Threads,      \* request tasks that use the map
    Sessions,     \* session ids, the keys
    Values,       \* what a session is bound to (a provider binding key)
    Ttl,          \* age below which a binding is live
    RetainedTtl,  \* age below which a binding is remembered as expired
    MaxTime,      \* bound of the model: the last tick of the clock
    NoEntry       \* the absence of an entry

Entry == [value : Values, stamped_at : Nat]

VARIABLES
    clock,    \* Clock::now
    bound,    \* bound[s]: the entry of session s, or NoEntry
    answer    \* answer[t]: what the last lookup of task t returned

vars == <<clock, bound, answer>>

(***************************************************************************)
(* The three results of Lookup<V>; Idle stands for "no lookup yet".        *)
(***************************************************************************)
Answers == [kind : {"idle", "unknown", "expired", "hit"},
            value : Values \cup {NoEntry}]

Idle    == [kind |-> "idle", value |-> NoEntry]
Unknown == [kind |-> "unknown", value |-> NoEntry]
Expired == [kind |-> "expired", value |-> NoEntry]
Hit(v)  == [kind |-> "hit", value |-> v]

Age(e, now)   == now - e.stamped_at
Stale(e, now) == e # NoEntry /\ Age(e, now) >= RetainedTtl
Live(e, now)  == e # NoEntry /\ Age(e, now) < Ttl

\* The entry as it is seen from outside: a stale one is no entry at all.
Visible(e, now) == IF Stale(e, now) THEN NoEntry ELSE e

\* The result of looking at entry e.
AnswerFor(e, now) ==
    IF Visible(e, now) = NoEntry THEN Unknown
    ELSE IF Live(e, now) THEN Hit(e.value)
    ELSE Expired

TypeOK ==
    /\ clock \in 0..MaxTime
    /\ bound \in [Sessions -> Entry \cup {NoEntry}]
    /\ answer \in [Threads -> Answers]

Init ==
    /\ clock = 0
    /\ bound = [s \in Sessions |-> NoEntry]
    /\ answer = [t \in Threads |-> Idle]

Lookup(t, s) ==
    /\ answer' = [answer EXCEPT ![t] = AnswerFor(bound[s], clock)]
    /\ UNCHANGED <<clock, bound>>

\* A zero retention makes an entry invisible as soon as it is written.
Record(s, v) ==
    /\ bound' = [bound EXCEPT ![s] =
                    Visible([value |-> v, stamped_at |-> clock], clock)]
    /\ UNCHANGED <<clock, answer>>

\* Time passes; the entries that reach RetainedTtl are gone.
Tick ==
    /\ clock < MaxTime
    /\ clock' = clock + 1
    /\ bound' = [s \in Sessions |-> Visible(bound[s], clock')]
    /\ UNCHANGED answer

Next ==
    \/ \E t \in Threads, s \in Sessions : Lookup(t, s)
    \/ \E s \in Sessions, v \in Values : Record(s, v)
    \/ Tick

Spec == Init /\ [][Next]_vars
=============================================================================
