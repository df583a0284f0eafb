---------------------------- MODULE AccountPool ----------------------------
(***************************************************************************)
(* The v2 account pool as concurrent requests use it:                      *)
(*   - crates/accounts/src/link/selection.rs: AccountPoolRuntime, the      *)
(*     pool-local round robin cursors, cooldowns and session affinity;     *)
(*   - crates/router/src/v2/selector.rs: V2AccountSelector, which asks the *)
(*     pool once per routing pass, and PoolAwareSend / ProxyPoolAwareSend, *)
(*     which report the result of the provider call back to the pool;      *)
(*   - the part of RetryPolicy that sends a request round again.           *)
(*                                                                         *)
(* Each access to state that requests share is one step: the cooldown      *)
(* mutex, the affinity map, a cursor's fetch_add.  A request therefore     *)
(* acts on a snapshot of the cooldowns that others may have changed.  The  *)
(* affinity map is used as module AffinityMap describes it, which module   *)
(* Affinity is proved to implement.                                        *)
(***************************************************************************)
EXTENDS Integers, Sequences, FiniteSets

CONSTANTS
    Requests,          \* request tasks (slots; a slot serves one after another)
    Active, Fallback,  \* the bindings of the two tiers of the pool
    Order,             \* Order[b]: position of b in its tier's list
    Sessions,          \* session ids
    NoSession,         \* a request that carries none
    NoBinding,         \* no binding selected, or no affinity
    Queries,           \* what requests may ask for, see Query
    Base,              \* failure_cooldown, in ticks
    Ttl,               \* live age of a session affinity, in ticks
    MaxRetries,        \* RetryPolicy::max_retries
    MaxCooldownExponent,  \* MAX_COOLDOWN_EXPONENT, 5
    FailureLimit,      \* where consecutive_failures saturates (u32::MAX)
    CursorModulus,     \* where a cursor wraps (2^64)
    ReadLag,           \* ticks between reading the clock and taking the lock
    MaxTime            \* bound of the model: the last tick of the clock

Bindings == Active \cup Fallback
Tiers == {"active", "fallback"}
Tier(t) == IF t = "active" THEN Active ELSE Fallback

(***************************************************************************)
(* A request's routing: the passes of select_managed (model candidates x   *)
(* discovery evidence x operations, in order), each with the bindings it   *)
(* matches and their score; the bindings whose provider the API key may    *)
(* use; whether the route relays; and whether the relay's own provider is  *)
(* refused before the pool is asked.                                       *)
(***************************************************************************)
Pass == [matching : SUBSET Bindings, rank : [Bindings -> Int]]
Query == [passes : Seq(Pass), allowed : SUBSET Bindings,
          relay : BOOLEAN, refused : BOOLEAN]

ASSUME TierAssumption ==
    /\ Active \cap Fallback = {}
    /\ IsFiniteSet(Active) /\ IsFiniteSet(Fallback)
    /\ Order \in [Bindings -> Nat]
    /\ \A b, c \in Bindings : Order[b] = Order[c] => b = c

ASSUME QueryAssumption ==
    /\ Queries # {}
    /\ \A q \in Queries : q \in Query /\ Len(q.passes) > 0

ASSUME NumberAssumption ==
    /\ Base \in Nat /\ Ttl \in Nat /\ MaxRetries \in Nat
    /\ MaxCooldownExponent \in 0..5
    /\ FailureLimit \in Nat \ {0} /\ CursorModulus \in Nat \ {0}
    /\ ReadLag \in Nat /\ MaxTime \in Nat

ASSUME NoneAssumption ==
    /\ NoSession \notin Sessions
    /\ NoBinding \notin Bindings

DefaultQuery == CHOOSE q \in Queries : TRUE

VARIABLES
    clock,      \* Instant::now
    failures,   \* BindingCooldown::consecutive_failures of each binding
    retry_at,   \* BindingCooldown::retry_at, 0 for None
    cursor,     \* active_cursor and fallback_cursor
    bound,      \* the affinity map: a binding and its stamp for each session
    pc,         \* where each request is
    session,    \* the session id it carries
    query,      \* its routing
    pass,       \* the routing pass it is in
    attempt,    \* the attempt it is in, from 0
    cooling,    \* its snapshot of the cooling bindings
    selected,   \* the binding it uses
    outcome,    \* how it ended
    served,     \* history: <<session, binding>> pairs that succeeded
    seen        \* history: the bindings each request has seen cooling

pool == <<failures, retry_at>>
local == <<session, query, pass, attempt>>   \* what a request keeps to its end
history == <<served, seen>>
vars == <<clock, failures, retry_at, cursor, bound, pc, session, query, pass,
          attempt, cooling, selected, outcome, served, seen>>

Points == {"idle", "snapshot", "affinity", "choose", "send", "bind"}
Outcomes == {"none", "served", "failed", "no_account", "denied", "cancelled"}

TypeOK ==
    /\ clock \in 0..MaxTime
    /\ failures \in [Bindings -> 0..FailureLimit]
    /\ retry_at \in [Bindings -> Nat]
    /\ cursor \in [Tiers -> 0..(CursorModulus - 1)]
    /\ bound \in [Sessions -> [value : Bindings \cup {NoBinding}, stamped_at : Nat]]
    /\ pc \in [Requests -> Points]
    /\ session \in [Requests -> Sessions \cup {NoSession}]
    /\ query \in [Requests -> Queries]
    /\ pass \in [Requests -> Nat \ {0}]
    /\ attempt \in [Requests -> 0..MaxRetries]
    /\ cooling \in [Requests -> SUBSET Bindings]
    /\ selected \in [Requests -> Bindings \cup {NoBinding}]
    /\ outcome \in [Requests -> Outcomes]
    /\ served \subseteq Sessions \X Bindings
    /\ seen \in [Requests -> SUBSET Bindings]

Init ==
    /\ clock = 0
    /\ failures = [b \in Bindings |-> 0]
    /\ retry_at = [b \in Bindings |-> 0]
    /\ cursor = [t \in Tiers |-> 0]
    /\ bound = [s \in Sessions |-> [value |-> NoBinding, stamped_at |-> 0]]
    /\ pc = [r \in Requests |-> "idle"]
    /\ session = [r \in Requests |-> NoSession]
    /\ query = [r \in Requests |-> DefaultQuery]
    /\ pass = [r \in Requests |-> 1]
    /\ attempt = [r \in Requests |-> 0]
    /\ cooling = [r \in Requests |-> {}]
    /\ selected = [r \in Requests |-> NoBinding]
    /\ outcome = [r \in Requests |-> "none"]
    /\ served = {}
    /\ seen = [r \in Requests |-> {}]

At(r, p) == pc[r] = p
Goto(r, p) == pc' = [pc EXCEPT ![r] = p]

\* acquire_ranked returns: its snapshot is gone.
DropSnapshot(r) == cooling' = [cooling EXCEPT ![r] = {}]

\* The request is over; its slot is free and its state dropped.
Finish(r, o) ==
    /\ Goto(r, "idle")
    /\ outcome' = [outcome EXCEPT ![r] = o]
    /\ session' = [session EXCEPT ![r] = NoSession]
    /\ pass' = [pass EXCEPT ![r] = 1]
    /\ attempt' = [attempt EXCEPT ![r] = 0]
    /\ selected' = [selected EXCEPT ![r] = NoBinding]
    /\ DropSnapshot(r)

\* It was answered, or dropped: nothing of it is left.
Answer(r, o) ==
    /\ Finish(r, o)
    /\ query' = [query EXCEPT ![r] = DefaultQuery]
    /\ seen' = [seen EXCEPT ![r] = {}]

\* It was turned away; what it asked for and what it saw is kept as history.
TurnAway(r, o) ==
    /\ Finish(r, o)
    /\ UNCHANGED <<query, seen>>

-----------------------------------------------------------------------------
(***************************************************************************)
(* What the code computes from a request's own state.                      *)
(***************************************************************************)
Matching(r) == query[r].passes[pass[r]].matching
Rank(r)     == query[r].passes[pass[r]].rank

\* The predicate given to acquire_ranked: the pass matches and the provider
\* is one the API key may use.
Eligible(r) == Matching(r) \cap query[r].allowed

\* The bindings that some pass of q matches (matching_binding_exists).
MatchingIn(q) == UNION {q.passes[i].matching : i \in DOMAIN q.passes}

\* managed_unavailable_outcome
Unavailable(q) ==
    IF MatchingIn(q) # {} /\ MatchingIn(q) \cap q.allowed = {}
    THEN "denied" ELSE "no_account"

\* select_tier: the eligible bindings of a tier that do not cool ...
Healthy(r, t) == (Tier(t) \cap Eligible(r)) \ cooling[r]

\* ... and those of the best rank among them.
Candidates(r, t) ==
    {b \in Healthy(r, t) : \A c \in Healthy(r, t) : Rank(r)[c] =< Rank(r)[b]}

\* The index of b in the candidates, which keep the order of the tier.
Index(b, C) == Cardinality({c \in C : Order[c] < Order[b]})

\* The session's live affinity, Lookup::Hit, or NoBinding.
LiveBinding(s) ==
    IF s # NoSession /\ clock - bound[s].stamped_at < Ttl
    THEN bound[s].value ELSE NoBinding

(***************************************************************************)
(* cooldown_duration: base * (1_u32 << exponent), with the exponent one    *)
(* less than the failures and at most MAX_COOLDOWN_EXPONENT.               *)
(***************************************************************************)
Shift == <<1, 2, 4, 8, 16, 32>>

Exponent(n) ==
    IF n - 1 > MaxCooldownExponent THEN MaxCooldownExponent
    ELSE IF n = 0 THEN 0 ELSE n - 1

CooldownDuration(n) == Base * Shift[Exponent(n) + 1]

-----------------------------------------------------------------------------
(***************************************************************************)
(* A request arrives in a free slot.                                       *)
(***************************************************************************)
Arrive(r, s, q) ==
    /\ At(r, "idle")
    /\ query' = [query EXCEPT ![r] = q]
    /\ seen' = [seen EXCEPT ![r] = {}]
    /\ \/ /\ ~q.refused
          /\ Goto(r, "snapshot")
          /\ session' = [session EXCEPT ![r] = s]
          /\ outcome' = [outcome EXCEPT ![r] = "none"]
       \/ /\ q.refused        \* select_relay, V2ProxyResolve: provider_allowed
          /\ outcome' = [outcome EXCEPT ![r] = "denied"]
          /\ UNCHANGED <<pc, session>>
    /\ UNCHANGED <<clock, pool, cursor, bound, pass, attempt, cooling, selected,
                   served>>

(***************************************************************************)
(* acquire_ranked, first part: read the clock, then copy the bindings that *)
(* cool at that instant under the cooldown lock.                           *)
(***************************************************************************)
Snapshot(r) ==
    /\ At(r, "snapshot")
    /\ \E now \in (clock - ReadLag)..clock :
         LET cold == {b \in Bindings : retry_at[b] > now}
         IN  /\ now >= 0
             /\ cooling' = [cooling EXCEPT ![r] = cold]
             /\ seen' = [seen EXCEPT ![r] = @ \cup cold]
    /\ Goto(r, "affinity")
    /\ UNCHANGED <<clock, pool, cursor, bound, local, selected, outcome, served>>

\* Mutant of UseAffinity: the sticky binding is not checked for eligibility.
UseAffinityUnchecked(r) ==
    LET b == LiveBinding(session[r])
    IN  /\ At(r, "affinity")
        /\ \/ /\ b # NoBinding /\ b \notin cooling[r]
              /\ selected' = [selected EXCEPT ![r] = b]
              /\ Goto(r, "send")
              /\ DropSnapshot(r)
           \/ /\ b = NoBinding \/ b \in cooling[r]
              /\ Goto(r, "choose")
              /\ UNCHANGED <<selected, cooling>>
        /\ UNCHANGED <<clock, pool, cursor, bound, local, outcome, history>>

(***************************************************************************)
(* acquire_ranked, second part: a live affinity to an eligible binding     *)
(* that does not cool wins over every rank.                                *)
(***************************************************************************)
UseAffinity(r) ==
    LET b == LiveBinding(session[r])
    IN  /\ At(r, "affinity")
        /\ \/ /\ b \in Eligible(r) \ cooling[r]
              /\ selected' = [selected EXCEPT ![r] = b]
              /\ Goto(r, "send")
              /\ DropSnapshot(r)
           \/ /\ b \notin Eligible(r) \ cooling[r]
              /\ Goto(r, "choose")
              /\ UNCHANGED <<selected, cooling>>
        /\ UNCHANGED <<clock, pool, cursor, bound, local, outcome, history>>

\* Mutant of Choose: the active cursor is not moved.
ChooseSameIndex(r, t) ==
    LET C == Candidates(r, t)
    IN  /\ At(r, "choose")
        /\ t = "fallback" => Healthy(r, "active") = {}
        /\ \E b \in C :
             /\ Index(b, C) = cursor[t] % Cardinality(C)
             /\ selected' = [selected EXCEPT ![r] = b]
        /\ Goto(r, "send")
        /\ DropSnapshot(r)
        /\ UNCHANGED <<clock, pool, cursor, bound, local, outcome, history>>

\* Mutant of Choose: the session is bound when the binding is chosen.
ChooseBindsSession(r, t) ==
    LET C == Candidates(r, t)
    IN  /\ At(r, "choose")
        /\ t = "fallback" => Healthy(r, "active") = {}
        /\ \E b \in C :
             /\ Index(b, C) = cursor[t] % Cardinality(C)
             /\ selected' = [selected EXCEPT ![r] = b]
             /\ bound' = [s \in Sessions |-> IF s = session[r]
                             THEN [value |-> b, stamped_at |-> clock] ELSE bound[s]]
        /\ cursor' = [cursor EXCEPT ![t] = (@ + 1) % CursorModulus]
        /\ Goto(r, "send")
        /\ DropSnapshot(r)
        /\ UNCHANGED <<clock, pool, local, outcome, history>>

(***************************************************************************)
(* acquire_ranked, third part: the active tier, else the fallback tier.    *)
(* The cursor moves only when there is a candidate.                        *)
(***************************************************************************)
Choose(r, t) ==
    LET C == Candidates(r, t)
    IN  /\ At(r, "choose")
        /\ t = "fallback" => Healthy(r, "active") = {}
        /\ \E b \in C :
             /\ Index(b, C) = cursor[t] % Cardinality(C)
             /\ selected' = [selected EXCEPT ![r] = b]
        /\ cursor' = [cursor EXCEPT ![t] = (@ + 1) % CursorModulus]
        /\ Goto(r, "send")
        /\ DropSnapshot(r)
        /\ UNCHANGED <<clock, pool, bound, local, outcome, history>>

\* Mutant of NextPass: the passes after the first are not tried.
NextPassOnlyFirst(r) ==
    /\ At(r, "choose")
    /\ \A t \in Tiers : Healthy(r, t) = {}
    /\ TurnAway(r, Unavailable(query[r]))
    /\ UNCHANGED <<clock, pool, cursor, bound, served>>

(***************************************************************************)
(* No candidate in either tier (PoolAcquire::CoolingDown or NoEligible):   *)
(* the selector goes on with its next pass; after the last one the request *)
(* fails at Resolve.                                                       *)
(***************************************************************************)
NextPass(r) ==
    /\ At(r, "choose")
    /\ \A t \in Tiers : Healthy(r, t) = {}
    /\ \/ /\ pass[r] < Len(query[r].passes)
          /\ pass' = [pass EXCEPT ![r] = @ + 1]
          /\ Goto(r, "snapshot")
          /\ DropSnapshot(r)
          /\ UNCHANGED <<session, query, attempt, selected, outcome, seen>>
       \/ /\ pass[r] = Len(query[r].passes)
          /\ TurnAway(r, Unavailable(query[r]))
    /\ UNCHANGED <<clock, pool, cursor, bound, served>>

-----------------------------------------------------------------------------
\* Mutant of RecordSuccess: the deadline is left in place.
RecordSuccessKeepsDeadline(r) ==
    /\ At(r, "send")
    /\ failures' = [failures EXCEPT ![selected[r]] = 0]
    /\ Goto(r, "bind")
    /\ UNCHANGED <<clock, retry_at, cursor, bound, local, cooling, selected, outcome,
                   history>>

(***************************************************************************)
(* The provider call succeeded: record_success resets the cooldown of the  *)
(* binding, whoever caused it, under the cooldown lock ...                 *)
(***************************************************************************)
RecordSuccess(r) ==
    /\ At(r, "send")
    /\ failures' = [failures EXCEPT ![selected[r]] = 0]
    /\ retry_at' = [retry_at EXCEPT ![selected[r]] = 0]
    /\ Goto(r, "bind")
    /\ UNCHANGED <<clock, cursor, bound, local, cooling, selected, outcome, history>>

\* ... and then binds the session to it under the affinity lock.
RecordAffinity(r) ==
    /\ At(r, "bind")
    /\ \/ /\ session[r] \in Sessions
          /\ bound' = [bound EXCEPT ![session[r]] =
                         [value |-> selected[r], stamped_at |-> clock]]
          /\ served' = served \cup {<<session[r], selected[r]>>}
       \/ /\ session[r] = NoSession
          /\ UNCHANGED <<bound, served>>
    /\ Answer(r, "served")
    /\ UNCHANGED <<clock, pool, cursor>>

\* Mutant of RecordFailure: the clock is read before the lock is taken.
RecordFailureEarlyClock(b) ==
    LET n == IF failures[b] = FailureLimit THEN FailureLimit ELSE failures[b] + 1
    IN  /\ failures' = [failures EXCEPT ![b] = n]
        /\ \E lag \in 0..ReadLag :
             /\ lag =< clock
             /\ retry_at' = [retry_at EXCEPT ![b] = clock - lag + CooldownDuration(n)]

\* record_failure, under the cooldown lock.
RecordFailure(b) ==
    LET n == IF failures[b] = FailureLimit THEN FailureLimit ELSE failures[b] + 1
    IN  /\ failures' = [failures EXCEPT ![b] = n]
        /\ retry_at' = [retry_at EXCEPT ![b] = clock + CooldownDuration(n)]

\* Mutant of Retry: one attempt too many.
RetryInclusive(r) ==
    /\ At(r, "send")
    /\ attempt[r] =< MaxRetries
    /\ RecordFailure(selected[r])
    /\ attempt' = [attempt EXCEPT ![r] = @ + 1]
    /\ pass' = [pass EXCEPT ![r] = 1]
    /\ seen' = [seen EXCEPT ![r] = {}]
    /\ selected' = [selected EXCEPT ![r] = NoBinding]
    /\ Goto(r, "snapshot")
    /\ UNCHANGED <<clock, cursor, bound, session, query, cooling, outcome, served>>

\* Mutant of Retry: the attempts are not counted.
RetryUncounted(r) ==
    /\ At(r, "send")
    /\ attempt[r] < MaxRetries
    /\ RecordFailure(selected[r])
    /\ UNCHANGED attempt
    /\ pass' = [pass EXCEPT ![r] = 1]
    /\ seen' = [seen EXCEPT ![r] = {}]
    /\ selected' = [selected EXCEPT ![r] = NoBinding]
    /\ Goto(r, "snapshot")
    /\ UNCHANGED <<clock, cursor, bound, session, query, cooling, outcome, served>>

(***************************************************************************)
(* The provider call failed and may be tried again: the binding is cooled  *)
(* and the runner starts another attempt, which resolves from scratch.     *)
(***************************************************************************)
Retry(r) ==
    /\ At(r, "send")
    /\ attempt[r] < MaxRetries
    /\ RecordFailure(selected[r])
    /\ attempt' = [attempt EXCEPT ![r] = @ + 1]
    /\ pass' = [pass EXCEPT ![r] = 1]
    /\ seen' = [seen EXCEPT ![r] = {}]
    /\ selected' = [selected EXCEPT ![r] = NoBinding]
    /\ Goto(r, "snapshot")
    /\ UNCHANGED <<clock, cursor, bound, session, query, cooling, outcome, served>>

\* The last attempt failed, or the method is not safe to replay.
GiveUp(r) ==
    /\ At(r, "send")
    /\ attempt[r] = MaxRetries \/ query[r].relay
    /\ RecordFailure(selected[r])
    /\ Answer(r, "failed")
    /\ UNCHANGED <<clock, cursor, bound, served>>

\* A relay forwards 401, 403, 408, 425, 429 and 5xx to the client as an answer
\* and cools the binding all the same.
RelayStatus(r) ==
    /\ At(r, "send")
    /\ query[r].relay
    /\ RecordFailure(selected[r])
    /\ Answer(r, "served")
    /\ UNCHANGED <<clock, cursor, bound, served>>

\* A permanent error (a 4xx of a managed route, a stage before Send) and a
\* request dropped at an await leave the pool alone.  acquire_ranked does not
\* await.
Abandon(r, o) ==
    /\ At(r, "send") \/ (At(r, "snapshot") /\ pass[r] = 1)
    /\ Answer(r, o)
    /\ UNCHANGED <<clock, pool, cursor, bound, served>>

Tick ==
    /\ clock < MaxTime
    /\ clock' = clock + 1
    /\ UNCHANGED <<pool, cursor, bound, pc, local, cooling, selected, outcome, history>>

Acquire(r) == Snapshot(r) \/ UseAffinity(r) \/ (\E t \in Tiers : Choose(r, t)) \/ NextPass(r)
Report(r) == \/ RecordSuccess(r) \/ RecordAffinity(r) \/ Retry(r) \/ GiveUp(r)
             \/ RelayStatus(r) \/ \E o \in {"failed", "cancelled"} : Abandon(r, o)
Enter(r) == \E s \in Sessions \cup {NoSession}, q \in Queries : Arrive(r, s, q)

Next == Tick \/ \E r \in Requests : Enter(r) \/ Acquire(r) \/ Report(r)

Spec == Init /\ [][Next]_vars

(***************************************************************************)
(* Fairness: a request task that can run is run, and a provider call comes *)
(* back (with an answer, an error, or by being dropped).                   *)
(***************************************************************************)
FairSpec == Spec /\ \A r \in Requests : WF_vars(Acquire(r)) /\ WF_vars(Report(r))

\* Traffic that goes on: every kind of request keeps arriving in every slot,
\* and is not dropped each time before it reaches the pool.
TrafficSpec ==
    FairSpec /\ \A r \in Requests, q \in Queries :
                  /\ SF_vars(\E s \in Sessions \cup {NoSession} : Arrive(r, s, q))
                  /\ SF_vars(query[r] = q /\ Snapshot(r))

-----------------------------------------------------------------------------
(***************************************************************************)
(* A binding has a deadline exactly when it has failed since its last      *)
(* success, and the deadline is never further away than the back-off its   *)
(* run of failures calls for (record_success, record_failure,              *)
(* cooldown_duration), however the reports of concurrent requests are      *)
(* interleaved.                                                            *)
(***************************************************************************)
CooldownBounded ==
    \A b \in Bindings :
       /\ failures[b] = 0 => retry_at[b] = 0
       /\ retry_at[b] =< clock + CooldownDuration(failures[b])

(***************************************************************************)
(* A session sticks only to a binding that has served that session: being  *)
(* selected is not enough ("creates or refreshes affinity only after the   *)
(* caller confirms the provider operation succeeded", record_success).     *)
(***************************************************************************)
AffinityEarned ==
    \A s \in Sessions :
       bound[s].value # NoBinding => <<s, bound[s].value>> \in served

(***************************************************************************)
(* A request is sent only with a binding that its own routing matches and  *)
(* its own API key may use, even when another request of the session, with *)
(* another key or model, bound the session to something else               *)
(* (acquire_ranked, select_managed).                                       *)
(***************************************************************************)
Usable(q) == MatchingIn(q) \cap q.allowed
SelectionAllowed ==
    \A r \in Requests :
       pc[r] \in {"send", "bind"} => selected[r] \in Usable(query[r])

(***************************************************************************)
(* A request is turned away only when it saw every binding it could have   *)
(* used cooling, and is told "denied" only when policy leaves it none      *)
(* (select_managed, managed_unavailable_outcome).                          *)
(***************************************************************************)
RefusalJustified ==
    \A r \in Requests :
       /\ outcome[r] = "no_account" => Usable(query[r]) \subseteq seen[r]
       /\ outcome[r] = "denied" => query[r].refused \/ Usable(query[r]) = {}

(***************************************************************************)
(* Another failure never brings a binding back earlier: a deadline moves   *)
(* towards the present only by a success (record_failure).                 *)
(***************************************************************************)
FailureNeverShortens ==
    [][\A b \in Bindings : retry_at'[b] < retry_at[b] => failures'[b] = 0]_vars

(***************************************************************************)
(* Every request ends, whatever cools meanwhile: the passes and the        *)
(* retries run out (select_managed, run_with).                             *)
(***************************************************************************)
RequestSettles == \A r \in Requests : pc[r] = "snapshot" ~> pc[r] = "idle"

(***************************************************************************)
(* "Equal-scored healthy accounts retain round-robin behavior" (README.md, *)
(* and the tests of select_tier): while traffic goes on, every healthy     *)
(* active binding of the best rank is used again and again.                *)
(***************************************************************************)
RoundRobinRetained ==
    \A b \in Active : []<>(\E r \in Requests : pc[r] = "send" /\ selected[r] = b)

(***************************************************************************)
(* However requests, sessions and keys interleave: a request is sent only  *)
(* with a binding its route and key give it, a session is bound only to    *)
(* what has served it, and a refusal is justified by every pass            *)
(* (acquire_ranked, record_success, select_managed).                       *)
(***************************************************************************)
RoutingSafe == TypeOK /\ SelectionAllowed /\ AffinityEarned /\ RefusalJustified

=============================================================================
