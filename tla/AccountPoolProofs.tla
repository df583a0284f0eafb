------------------------- MODULE AccountPoolProofs -------------------------
(***************************************************************************)
(* Proofs about the account pool: its type, the cooldown and affinity      *)
(* invariants, who may be selected and who may be turned away, for any     *)
(* number of bindings, requests, sessions and routes and any times.        *)
(***************************************************************************)
EXTENDS AccountPool, TLAPS

-----------------------------------------------------------------------------
(***************************************************************************)
(* cooldown_duration: a natural number that grows with the failures.       *)
(***************************************************************************)
LEMMA DurationType ==
    ASSUME NEW n \in Nat
    PROVE  CooldownDuration(n) \in Nat
<1>1. Exponent(n) \in 0..5
  BY NumberAssumption DEF Exponent
<1>2. Shift[Exponent(n) + 1] \in Nat
  BY <1>1 DEF Shift
<1> QED
  BY <1>2, NumberAssumption DEF CooldownDuration

LEMMA DurationMonotone ==
    ASSUME NEW m \in Nat, NEW n \in Nat, m =< n
    PROVE  CooldownDuration(m) =< CooldownDuration(n)
<1>1. /\ Exponent(m) \in 0..5 /\ Exponent(n) \in 0..5
      /\ Exponent(m) =< Exponent(n)
  BY NumberAssumption DEF Exponent
<1>2. \A i, j \in 0..5 : i =< j => Shift[i + 1] =< Shift[j + 1]
  BY DEF Shift
<1>3. \A i \in 0..5 : Shift[i + 1] \in Nat
  BY DEF Shift
<1>4. \A x, y \in Nat : x =< y => Base * x =< Base * y
  BY NumberAssumption
<1> QED
  BY <1>1, <1>2, <1>3, <1>4 DEF CooldownDuration

-----------------------------------------------------------------------------
(***************************************************************************)
(* What a pass of a known query gives.                                     *)
(***************************************************************************)
LEMMA PassType ==
    ASSUME NEW q \in Queries, NEW i \in 1..Len(q.passes)
    PROVE  /\ q.passes[i].matching \subseteq Bindings
           /\ q.passes[i].matching \cap q.allowed \subseteq Usable(q)
<1>1. q \in Query
  BY QueryAssumption
<1>2. q.passes \in Seq(Pass) /\ q.allowed \subseteq Bindings
  BY <1>1 DEF Query
<1>3. q.passes[i] \in Pass /\ i \in DOMAIN q.passes
  BY <1>2
<1>4. q.passes[i].matching \subseteq MatchingIn(q)
  BY <1>3 DEF MatchingIn
<1> QED
  BY <1>3, <1>4 DEF Pass, Usable

LEMMA UsableType ==
    ASSUME NEW q \in Queries
    PROVE  Usable(q) \subseteq Bindings
<1>1. q \in Query
  BY QueryAssumption
<1> QED
  BY <1>1 DEF Query, Usable

(***************************************************************************)
(* What each request keeps between its steps.  The passes it has left      *)
(* behind offered only bindings it saw cooling.                            *)
(***************************************************************************)
Offer(q, i) == q.passes[i].matching \cap q.allowed

RequestInv ==
    \A r \in Requests :
       /\ pass[r] \in 1..Len(query[r].passes)
       /\ pc[r] = "idle" => pass[r] = 1
       /\ pc[r] # "idle" => outcome[r] = "none"
       /\ pc[r] \in {"affinity", "choose"} => cooling[r] \subseteq seen[r]
       /\ pc[r] \in {"snapshot", "affinity", "choose"} =>
             \A i \in 1..(pass[r] - 1) : Offer(query[r], i) \subseteq seen[r]
       /\ pc[r] \in {"send", "bind"} => selected[r] \in Usable(query[r])

-----------------------------------------------------------------------------
\* The query of an idle slot is one of the queries.
LEMMA DefaultType == DefaultQuery \in Queries
  BY QueryAssumption DEF DefaultQuery

\* A binding that a request is sent with is a binding of the pool.
LEMMA SelectedType ==
    ASSUME TypeOK, RequestInv, NEW r \in Requests, pc[r] \in {"send", "bind"}
    PROVE  selected[r] \in Bindings
  BY UsableType DEF TypeOK, RequestInv

\* What the eligibility predicate accepts, the request may use.
LEMMA EligibleUsable ==
    ASSUME TypeOK, RequestInv, NEW r \in Requests
    PROVE  /\ Eligible(r) \subseteq Usable(query[r])
           /\ Eligible(r) \subseteq Bindings
<1>1. query[r] \in Queries /\ pass[r] \in 1..Len(query[r].passes)
  BY DEF TypeOK, RequestInv
<1> QED
  BY <1>1, PassType DEF Eligible, Matching

\* record_failure keeps the types of the cooldown state.
LEMMA FailureType ==
    ASSUME TypeOK, NEW b \in Bindings, RecordFailure(b)
    PROVE  /\ failures' \in [Bindings -> 0..FailureLimit]
           /\ retry_at' \in [Bindings -> Nat]
<1> DEFINE n == IF failures[b] = FailureLimit THEN FailureLimit ELSE failures[b] + 1
<1>0. failures[b] \in 0..FailureLimit
  BY DEF TypeOK
<1>1. n \in 0..FailureLimit /\ n \in Nat
  BY <1>0, NumberAssumption
<1>2. clock + CooldownDuration(n) \in Nat
  BY <1>1, DurationType, NumberAssumption DEF TypeOK
<1>3. /\ failures' = [failures EXCEPT ![b] = n]
      /\ retry_at' = [retry_at EXCEPT ![b] = clock + CooldownDuration(n)]
  BY DEF RecordFailure
<1>4. failures \in [Bindings -> 0..FailureLimit] /\ retry_at \in [Bindings -> Nat]
  BY DEF TypeOK
<1> HIDE DEF n
<1> QED
  BY <1>1, <1>2, <1>3, <1>4

(***************************************************************************)
(* Every step keeps the types.                                             *)
(***************************************************************************)
LEMMA TypeStep == TypeOK /\ RequestInv /\ [Next]_vars => TypeOK'
<1> SUFFICES ASSUME TypeOK, RequestInv, [Next]_vars PROVE TypeOK'
  OBVIOUS
<1>1. CASE Tick
  BY <1>1, NumberAssumption DEF Tick, TypeOK, pool, local, history
<1>2. ASSUME NEW r \in Requests, NEW s \in Sessions \cup {NoSession},
             NEW q \in Queries, Arrive(r, s, q)
      PROVE  TypeOK'
  BY <1>2 DEF Arrive, Goto, TypeOK, pool, Points, Outcomes
<1>3. ASSUME NEW r \in Requests, Snapshot(r) PROVE TypeOK'
  BY <1>3 DEF Snapshot, Goto, TypeOK, pool, local, Points
<1>4. ASSUME NEW r \in Requests, UseAffinity(r) PROVE TypeOK'
  <2>1. \/ \E b \in Bindings : selected' = [selected EXCEPT ![r] = b]
        \/ UNCHANGED selected
    BY <1>4, EligibleUsable DEF UseAffinity
  <2>2. \E p \in Points : pc' = [pc EXCEPT ![r] = p]
    BY <1>4 DEF UseAffinity, Goto, Points
  <2>3. cooling' = [cooling EXCEPT ![r] = {}] \/ UNCHANGED cooling
    BY <1>4 DEF UseAffinity, DropSnapshot
  <2>4. UNCHANGED <<clock, pool, cursor, bound, local, outcome, history>>
    BY <1>4 DEF UseAffinity
  <2> QED
    BY <2>1, <2>2, <2>3, <2>4 DEF TypeOK, pool, local, history
<1>5. ASSUME NEW r \in Requests, NEW t \in Tiers, Choose(r, t) PROVE TypeOK'
  <2>1. PICK b \in Candidates(r, t) : selected' = [selected EXCEPT ![r] = b]
    BY <1>5 DEF Choose
  <2>2. b \in Bindings
    BY <2>1, EligibleUsable DEF Candidates, Healthy
  <2>3. cursor' \in [Tiers -> 0..(CursorModulus - 1)]
    BY <1>5, NumberAssumption DEF Choose, TypeOK
  <2> QED
    BY <1>5, <2>1, <2>2, <2>3
       DEF Choose, Goto, DropSnapshot, TypeOK, pool, local, history, Points
<1>6. ASSUME NEW r \in Requests, NextPass(r) PROVE TypeOK'
  <2>1. Unavailable(query[r]) \in Outcomes
    BY DEF Unavailable, Outcomes
  <2>2. UNCHANGED <<clock, failures, retry_at, cursor, bound, served>>
    BY <1>6 DEF NextPass, pool
  <2>3. CASE pass' = [pass EXCEPT ![r] = @ + 1] /\ Goto(r, "snapshot") /\ DropSnapshot(r)
             /\ UNCHANGED <<session, query, attempt, selected, outcome, seen>>
    BY <2>2, <2>3 DEF Goto, DropSnapshot, TypeOK, Points
  <2>4. CASE TurnAway(r, Unavailable(query[r]))
    BY <2>1, <2>2, <2>4, NumberAssumption
       DEF TurnAway, Finish, Goto, DropSnapshot, TypeOK, Points
  <2> QED
    BY <1>6, <2>3, <2>4 DEF NextPass
<1>7. ASSUME NEW r \in Requests, RecordSuccess(r) PROVE TypeOK'
  BY <1>7, SelectedType, NumberAssumption
     DEF RecordSuccess, At, Goto, TypeOK, local, history, Points
<1>8. ASSUME NEW r \in Requests, RecordAffinity(r) PROVE TypeOK'
  <2>1. selected[r] \in Bindings
    BY <1>8, SelectedType DEF RecordAffinity, At
  <2>2. bound' \in [Sessions -> [value : Bindings \cup {NoBinding}, stamped_at : Nat]]
    BY <1>8, <2>1 DEF RecordAffinity, TypeOK
  <2>3. served' \subseteq Sessions \X Bindings
    BY <1>8, <2>1 DEF RecordAffinity, TypeOK
  <2> QED
    BY <1>8, <2>2, <2>3, DefaultType, NumberAssumption
       DEF RecordAffinity, Answer, Finish, Goto, DropSnapshot, TypeOK, pool, Points, Outcomes
<1>9. ASSUME NEW r \in Requests, Retry(r) PROVE TypeOK'
  <2>1. selected[r] \in Bindings /\ RecordFailure(selected[r])
    BY <1>9, SelectedType DEF Retry, At
  <2>2. /\ failures' \in [Bindings -> 0..FailureLimit]
        /\ retry_at' \in [Bindings -> Nat]
    BY <2>1, FailureType
  <2> QED
    BY <1>9, <2>2, NumberAssumption DEF Retry, Goto, TypeOK, Points
<1>10. ASSUME NEW r \in Requests, GiveUp(r) \/ RelayStatus(r) PROVE TypeOK'
  <2>1. selected[r] \in Bindings /\ RecordFailure(selected[r])
    BY <1>10, SelectedType DEF GiveUp, RelayStatus, At
  <2>2. /\ failures' \in [Bindings -> 0..FailureLimit]
        /\ retry_at' \in [Bindings -> Nat]
    BY <2>1, FailureType
  <2>3. PICK o \in {"failed", "served"} : Answer(r, o)
    BY <1>10 DEF GiveUp, RelayStatus
  <2>4. UNCHANGED <<clock, cursor, bound, served>>
    BY <1>10 DEF GiveUp, RelayStatus
  <2> QED
    BY <2>2, <2>3, <2>4, DefaultType, NumberAssumption
       DEF Answer, Finish, Goto, DropSnapshot, TypeOK, Points, Outcomes
<1>11. ASSUME NEW r \in Requests, NEW o \in {"failed", "cancelled"}, Abandon(r, o)
       PROVE  TypeOK'
  BY <1>11, DefaultType, NumberAssumption
     DEF Abandon, Answer, Finish, Goto, DropSnapshot, TypeOK, pool, Points, Outcomes
<1>12. CASE UNCHANGED vars
  BY <1>12 DEF vars, TypeOK
<1> QED
  BY <1>1, <1>2, <1>3, <1>4, <1>5, <1>6, <1>7, <1>8, <1>9, <1>10, <1>11, <1>12
     DEF Next, Enter, Acquire, Report

(***************************************************************************)
(* Every step keeps what the requests know.                                *)
(***************************************************************************)
LEMMA RequestStep == TypeOK /\ RequestInv /\ [Next]_vars => RequestInv'
<1> SUFFICES ASSUME TypeOK, RequestInv, [Next]_vars PROVE RequestInv'
  OBVIOUS
<1> DEFINE Inv(r) ==
       /\ pass[r] \in 1..Len(query[r].passes)
       /\ pc[r] = "idle" => pass[r] = 1
       /\ pc[r] # "idle" => outcome[r] = "none"
       /\ pc[r] \in {"affinity", "choose"} => cooling[r] \subseteq seen[r]
       /\ pc[r] \in {"snapshot", "affinity", "choose"} =>
             \A i \in 1..(pass[r] - 1) : Offer(query[r], i) \subseteq seen[r]
       /\ pc[r] \in {"send", "bind"} => selected[r] \in Usable(query[r])
<1>1. \A r \in Requests : Inv(r)
  BY DEF RequestInv
<1>2. SUFFICES ASSUME NEW k \in Requests PROVE Inv(k)'
  BY DEF RequestInv
<1>3. \A q \in Queries : Len(q.passes) \in Nat /\ 1 \in 1..Len(q.passes)
  BY QueryAssumption DEF Query
<1>4. k \in Requests /\ Inv(k) /\ query[k] \in Queries /\ pc[k] \in Points
  BY <1>1 DEF TypeOK
\* A step that leaves the request's own variables alone.
<1>5. ASSUME pc'[k] = pc[k], pass'[k] = pass[k], query'[k] = query[k],
             outcome'[k] = outcome[k], cooling'[k] = cooling[k],
             seen'[k] = seen[k], selected'[k] = selected[k]
      PROVE  Inv(k)'
  BY <1>4, <1>5
\* The request ends with an answer.
<1>6. ASSUME NEW r \in Requests, NEW o, Answer(r, o) PROVE Inv(k)'
  <2>1. CASE r = k
    BY <1>3, <1>6, <2>1, DefaultType DEF Answer, Finish, Goto, TypeOK
  <2>2. CASE r # k
    <3> HIDE DEF Inv
    <3> QED
      BY <1>5, <1>6, <2>2 DEF Answer, Finish, Goto, DropSnapshot, TypeOK
  <2> QED
    BY <2>1, <2>2
<1>7. CASE Tick
  BY <1>5, <1>7 DEF Tick, local, history
<1>8. ASSUME NEW r \in Requests, NEW s \in Sessions \cup {NoSession},
             NEW q \in Queries, Arrive(r, s, q)
      PROVE  Inv(k)'
  <2>1. CASE r = k
    BY <1>3, <1>4, <1>8, <2>1 DEF Arrive, At, Goto, TypeOK
  <2>2. CASE r # k
    <3> HIDE DEF Inv
    <3> QED
      BY <1>5, <1>8, <2>2 DEF Arrive, Goto, TypeOK
  <2> QED
    BY <2>1, <2>2
<1>9. ASSUME NEW r \in Requests, Snapshot(r) PROVE Inv(k)'
  <2>1. CASE r = k
    <3>1. PICK cold : /\ cooling' = [cooling EXCEPT ![r] = cold]
                      /\ seen' = [seen EXCEPT ![r] = @ \cup cold]
      BY <1>9 DEF Snapshot
    <3>2. /\ cooling'[k] \subseteq seen'[k] /\ seen[k] \subseteq seen'[k]
          /\ pc[k] = "snapshot" /\ pc'[k] = "affinity"
          /\ UNCHANGED <<session, query, pass, attempt, selected, outcome>>
      BY <1>9, <2>1, <3>1 DEF Snapshot, At, Goto, local, TypeOK
    <3> QED
      BY <1>4, <3>2
  <2>2. CASE r # k
    <3> HIDE DEF Inv
    <3> QED
      BY <1>5, <1>9, <2>2 DEF Snapshot, Goto, local, TypeOK
  <2> QED
    BY <2>1, <2>2
<1>10. ASSUME NEW r \in Requests, UseAffinity(r) PROVE Inv(k)'
  <2>1. CASE r = k
    <3>1. /\ UNCHANGED <<pass, query, outcome, seen>> /\ pc[k] = "affinity"
          /\ \/ pc'[k] = "send" /\ selected'[k] \in Eligible(k)
             \/ pc'[k] = "choose" /\ UNCHANGED <<selected, cooling>>
      BY <1>10, <2>1 DEF UseAffinity, At, Goto, local, history, TypeOK
    <3>2. Eligible(k) \subseteq Usable(query[k])
      BY EligibleUsable
    <3> QED
      BY <1>4, <3>1, <3>2
  <2>2. CASE r # k
    <3> HIDE DEF Inv
    <3> QED
      BY <1>5, <1>10, <2>2 DEF UseAffinity, Goto, DropSnapshot, local, history, TypeOK
  <2> QED
    BY <2>1, <2>2
<1>11. ASSUME NEW r \in Requests, NEW t \in Tiers, Choose(r, t) PROVE Inv(k)'
  <2>0. PICK b \in Candidates(r, t) : selected' = [selected EXCEPT ![r] = b]
    BY <1>11 DEF Choose
  <2>1. CASE r = k
    <3>1. /\ UNCHANGED <<pass, query, outcome, seen>> /\ pc[k] = "choose"
          /\ pc'[k] = "send" /\ selected'[k] \in Eligible(k)
      BY <1>11, <2>0, <2>1 DEF Choose, Candidates, Healthy, At, Goto, local, history, TypeOK
    <3>2. Eligible(k) \subseteq Usable(query[k])
      BY EligibleUsable
    <3> QED
      BY <1>4, <3>1, <3>2
  <2>2. CASE r # k
    <3> HIDE DEF Inv
    <3> QED
      BY <1>5, <1>11, <2>0, <2>2 DEF Choose, Goto, DropSnapshot, local, history, TypeOK
  <2> QED
    BY <2>1, <2>2
<1>12. ASSUME NEW r \in Requests, NextPass(r) PROVE Inv(k)'
  <2>1. CASE r = k /\ pass[k] < Len(query[k].passes)
    <3>1. /\ UNCHANGED <<query, outcome, seen, selected>> /\ pc[k] = "choose"
          /\ pc'[k] = "snapshot" /\ pass'[k] = pass[k] + 1
      BY <1>12, <2>1 DEF NextPass, At, Goto, TypeOK
    <3>2. Offer(query[k], pass[k]) \subseteq cooling[k]
      <4>1. Eligible(k) \subseteq Bindings
        BY EligibleUsable
      <4>2. \A t \in Tiers : (Tier(t) \cap Eligible(k)) \ cooling[k] = {}
        BY <1>12, <2>1 DEF NextPass, Healthy
      <4> QED
        BY <4>1, <4>2 DEF Tiers, Tier, Bindings, Eligible, Matching, Offer
    <3>3. \A i \in 1..pass[k] : Offer(query[k], i) \subseteq seen[k]
      BY <1>4, <3>1, <3>2
    <3> QED
      BY <1>3, <1>4, <2>1, <3>1, <3>3
  <2>2. CASE r = k /\ pass[k] = Len(query[k].passes)
    BY <1>3, <1>4, <1>12, <2>2 DEF NextPass, TurnAway, Finish, Goto, TypeOK
  <2>3. CASE r # k
    <3> HIDE DEF Inv
    <3> QED
      BY <1>5, <1>12, <2>3 DEF NextPass, TurnAway, Finish, Goto, DropSnapshot, TypeOK
  <2> QED
    BY <1>12, <2>1, <2>2, <2>3 DEF NextPass
<1>13. ASSUME NEW r \in Requests, RecordSuccess(r) PROVE Inv(k)'
  <2>1. /\ pc[r] = "send" /\ pc' = [pc EXCEPT ![r] = "bind"]
        /\ UNCHANGED <<pass, query, outcome, cooling, seen, selected>>
    BY <1>13 DEF RecordSuccess, At, Goto, local, history
  <2> QED
    BY <1>4, <2>1 DEF TypeOK
<1>14. ASSUME NEW r \in Requests, RecordAffinity(r) PROVE Inv(k)'
  BY <1>6, <1>14 DEF RecordAffinity
<1>15. ASSUME NEW r \in Requests, Retry(r) PROVE Inv(k)'
  <2>1. CASE r = k
    <3>1. /\ pc[k] = "send" /\ pc'[k] = "snapshot" /\ pass'[k] = 1
          /\ UNCHANGED <<query, outcome>>
      BY <1>15, <2>1 DEF Retry, At, Goto, TypeOK
    <3> QED
      BY <1>3, <1>4, <3>1
  <2>2. CASE r # k
    <3> HIDE DEF Inv
    <3> QED
      BY <1>5, <1>15, <2>2 DEF Retry, Goto, TypeOK
  <2> QED
    BY <2>1, <2>2
<1>16. ASSUME NEW r \in Requests, GiveUp(r) \/ RelayStatus(r) PROVE Inv(k)'
  BY <1>6, <1>16 DEF GiveUp, RelayStatus
<1>17. ASSUME NEW r \in Requests, NEW o \in {"failed", "cancelled"}, Abandon(r, o)
       PROVE  Inv(k)'
  BY <1>6, <1>17 DEF Abandon
<1>18. CASE UNCHANGED vars
  BY <1>5, <1>18 DEF vars
<1> HIDE DEF Inv
<1> QED
  BY <1>7, <1>8, <1>9, <1>10, <1>11, <1>12, <1>13, <1>14, <1>15, <1>16, <1>17, <1>18
     DEF Next, Enter, Acquire, Report

-----------------------------------------------------------------------------
LEMMA InitInv == Init => TypeOK /\ RequestInv
<1> SUFFICES ASSUME Init PROVE TypeOK /\ RequestInv
  OBVIOUS
<1>1. TypeOK
  BY DefaultType, NumberAssumption DEF Init, TypeOK, Tiers, Points, Outcomes
<1>2. Len(DefaultQuery.passes) \in Nat /\ 1 \in 1..Len(DefaultQuery.passes)
  BY DefaultType, QueryAssumption DEF Query
<1>3. RequestInv
  BY <1>2 DEF Init, RequestInv
<1> QED
  BY <1>1, <1>3

(***************************************************************************)
(* The type invariant of the pool and of its requests, and with it what    *)
(* each request knows between two steps.                                   *)
(***************************************************************************)
THEOREM TypeCorrect == Spec => [](TypeOK /\ RequestInv)
  BY InitInv, TypeStep, RequestStep, PTL DEF Spec

(***************************************************************************)
(* No interleaving of requests, sessions and keys sends a request with a   *)
(* binding its own route and key do not give it.                           *)
(***************************************************************************)
THEOREM SelectionAllowedCorrect == Spec => []SelectionAllowed
<1>1. RequestInv => SelectionAllowed
  BY DEF RequestInv, SelectionAllowed
<1> QED
  BY <1>1, TypeCorrect, PTL

(***************************************************************************)
(* A session is bound only to a binding that has served it.                *)
(***************************************************************************)
THEOREM AffinityEarnedCorrect == Spec => []AffinityEarned
<1>1. Init => AffinityEarned
  BY DEF Init, AffinityEarned
<1>2. TypeOK /\ AffinityEarned /\ [Next]_vars => AffinityEarned'
  <2> SUFFICES ASSUME TypeOK, AffinityEarned, [Next]_vars PROVE AffinityEarned'
    OBVIOUS
  <2>1. ASSUME NEW r \in Requests, RecordAffinity(r) PROVE AffinityEarned'
    BY <2>1 DEF RecordAffinity, AffinityEarned, TypeOK
  <2>2. CASE UNCHANGED <<bound, served>>
    BY <2>2 DEF AffinityEarned
  <2>3. \/ UNCHANGED <<bound, served>>
        \/ \E r \in Requests : RecordAffinity(r)
    BY DEF Next, Enter, Acquire, Report, Tick, Arrive, Snapshot, UseAffinity, Choose,
           NextPass, RecordSuccess, Retry, GiveUp, RelayStatus, Abandon, history, vars
  <2> QED
    BY <2>1, <2>2, <2>3
<1> QED
  BY <1>1, <1>2, TypeCorrect, PTL DEF Spec

-----------------------------------------------------------------------------
(***************************************************************************)
(* Three things may happen to the cooldown state in a step: nothing, a     *)
(* success of one binding, a failure of one binding.                       *)
(***************************************************************************)
ResetCooldown(b) ==
    /\ failures' = [failures EXCEPT ![b] = 0]
    /\ retry_at' = [retry_at EXCEPT ![b] = 0]

LEMMA CooldownSteps ==
    ASSUME TypeOK, RequestInv, [Next]_vars
    PROVE  /\ clock' \in Nat /\ clock =< clock'
           /\ \/ UNCHANGED <<failures, retry_at>>
              \/ UNCHANGED clock /\ \E b \in Bindings : ResetCooldown(b)
              \/ UNCHANGED clock /\ \E b \in Bindings : RecordFailure(b)
<1>1. clock \in Nat
  BY DEF TypeOK
<1>2. CASE Tick
  BY <1>1, <1>2 DEF Tick, pool
<1>3. ASSUME NEW r \in Requests, RecordSuccess(r)
      PROVE  UNCHANGED clock /\ \E b \in Bindings : ResetCooldown(b)
  BY <1>3, SelectedType DEF RecordSuccess, At, ResetCooldown
<1>4. ASSUME NEW r \in Requests, Retry(r) \/ GiveUp(r) \/ RelayStatus(r)
      PROVE  UNCHANGED clock /\ \E b \in Bindings : RecordFailure(b)
  <2>1. PICK b \in Bindings : b = selected[r]
    BY <1>4, SelectedType DEF Retry, GiveUp, RelayStatus, At
  <2>2. RecordFailure(b)
    BY <1>4, <2>1 DEF Retry, GiveUp, RelayStatus, RecordFailure
  <2> QED
    BY <1>4, <2>2 DEF Retry, GiveUp, RelayStatus
<1>5. ASSUME NEW r \in Requests,
             Enter(r) \/ Acquire(r) \/ RecordAffinity(r)
             \/ \E o \in {"failed", "cancelled"} : Abandon(r, o)
      PROVE  UNCHANGED <<clock, failures, retry_at>>
  BY <1>5 DEF Enter, Arrive, Acquire, Snapshot, UseAffinity, Choose, NextPass,
              RecordAffinity, Abandon, pool
<1>6. CASE UNCHANGED vars
  BY <1>1, <1>6 DEF vars
<1> QED
  BY <1>1, <1>2, <1>3, <1>4, <1>5, <1>6 DEF Next, Report

(***************************************************************************)
(* The cooldown of every binding is the back-off of its own run of         *)
(* failures, at most.                                                      *)
(***************************************************************************)
THEOREM CooldownBoundedCorrect == Spec => []CooldownBounded
<1>1. Init => CooldownBounded
  BY DurationType DEF Init, CooldownBounded
<1>2. TypeOK /\ RequestInv /\ CooldownBounded /\ [Next]_vars => CooldownBounded'
  <2> SUFFICES ASSUME TypeOK, RequestInv, CooldownBounded, [Next]_vars,
                      NEW b \in Bindings
               PROVE  /\ failures'[b] = 0 => retry_at'[b] = 0
                      /\ retry_at'[b] =< clock' + CooldownDuration(failures'[b])
    BY DEF CooldownBounded
  <2>1. /\ clock \in Nat /\ clock' \in Nat /\ clock =< clock'
        /\ failures[b] \in 0..FailureLimit /\ retry_at[b] \in Nat
        /\ failures[b] \in Nat
    BY CooldownSteps, NumberAssumption DEF TypeOK
  <2>2. /\ failures[b] = 0 => retry_at[b] = 0
        /\ retry_at[b] =< clock + CooldownDuration(failures[b])
        /\ CooldownDuration(failures[b]) \in Nat
    BY <2>1, DurationType DEF CooldownBounded
  <2>3. CASE failures'[b] = failures[b] /\ retry_at'[b] = retry_at[b]
    BY <2>1, <2>2, <2>3
  <2>4. ASSUME NEW c \in Bindings, ResetCooldown(c), UNCHANGED clock
        PROVE  /\ failures'[b] = 0 => retry_at'[b] = 0
               /\ retry_at'[b] =< clock' + CooldownDuration(failures'[b])
    <3>1. CASE b = c
      <4>1. failures'[b] = 0 /\ retry_at'[b] = 0
        BY <2>4, <3>1 DEF ResetCooldown, TypeOK
      <4>2. CooldownDuration(failures'[b]) \in Nat
        BY <4>1, DurationType
      <4> QED
        BY <2>1, <4>1, <4>2
    <3>2. CASE b # c
      BY <2>3, <2>4, <3>2 DEF ResetCooldown, TypeOK
    <3> QED
      BY <3>1, <3>2
  <2>5. ASSUME NEW c \in Bindings, RecordFailure(c), UNCHANGED clock
        PROVE  /\ failures'[b] = 0 => retry_at'[b] = 0
               /\ retry_at'[b] =< clock' + CooldownDuration(failures'[b])
    <3>1. CASE b = c
      <4> DEFINE n == IF failures[b] = FailureLimit THEN FailureLimit
                      ELSE failures[b] + 1
      <4>1. failures'[b] = n /\ retry_at'[b] = clock + CooldownDuration(n)
        BY <2>5, <3>1 DEF RecordFailure, TypeOK
      <4>2. n \in Nat /\ n # 0
        BY <2>1, NumberAssumption
      <4>3. CooldownDuration(n) \in Nat
        BY <4>2, DurationType
      <4> HIDE DEF n
      <4> QED
        BY <2>1, <2>5, <4>1, <4>2, <4>3
    <3>2. CASE b # c
      BY <2>3, <2>5, <3>2 DEF RecordFailure, TypeOK
    <3> QED
      BY <3>1, <3>2
  <2> QED
    BY <2>3, <2>4, <2>5, CooldownSteps
<1> QED
  BY <1>1, <1>2, TypeCorrect, PTL DEF Spec

(***************************************************************************)
(* A failure never brings a binding back earlier than it was due.          *)
(***************************************************************************)
THEOREM FailureNeverShortensCorrect == Spec => FailureNeverShortens
<1> DEFINE Longer == \A b \in Bindings : retry_at'[b] < retry_at[b] => failures'[b] = 0
<1>1. TypeOK /\ RequestInv /\ CooldownBounded /\ [Next]_vars => [Longer]_vars
  <2> SUFFICES ASSUME TypeOK, RequestInv, CooldownBounded, [Next]_vars,
                      NEW b \in Bindings, retry_at'[b] < retry_at[b]
               PROVE  failures'[b] = 0
    OBVIOUS
  <2>1. /\ clock \in Nat /\ retry_at[b] \in Nat /\ failures[b] \in 0..FailureLimit
        /\ failures[b] \in Nat
        /\ retry_at[b] =< clock + CooldownDuration(failures[b])
    BY NumberAssumption DEF TypeOK, CooldownBounded
  <2>2. CASE UNCHANGED <<failures, retry_at>>
    BY <2>1, <2>2
  <2>3. ASSUME NEW c \in Bindings, ResetCooldown(c) PROVE failures'[b] = 0
    BY <2>1, <2>3 DEF ResetCooldown, TypeOK
  <2>4. ASSUME NEW c \in Bindings, RecordFailure(c) PROVE FALSE
    <3>1. CASE b = c
      <4> DEFINE n == IF failures[b] = FailureLimit THEN FailureLimit
                      ELSE failures[b] + 1
      <4>1. retry_at'[b] = clock + CooldownDuration(n)
        BY <2>4, <3>1 DEF RecordFailure, TypeOK
      <4>2. n \in Nat /\ failures[b] =< n
        BY <2>1, NumberAssumption
      <4>3. /\ CooldownDuration(n) \in Nat /\ CooldownDuration(failures[b]) \in Nat
            /\ CooldownDuration(failures[b]) =< CooldownDuration(n)
        BY <2>1, <4>2, DurationType, DurationMonotone
      <4> HIDE DEF n
      <4> QED
        BY <2>1, <4>1, <4>3
    <3>2. CASE b # c
      BY <2>1, <2>4, <3>2 DEF RecordFailure, TypeOK
    <3> QED
      BY <3>1, <3>2
  <2> QED
    BY <2>2, <2>3, <2>4, CooldownSteps
<1> QED
  BY <1>1, TypeCorrect, CooldownBoundedCorrect, PTL DEF Spec, FailureNeverShortens

-----------------------------------------------------------------------------
\* After the last pass without a candidate, everything usable was seen cooling.
LEMMA AllSeen ==
    ASSUME TypeOK, RequestInv, NEW r \in Requests, NextPass(r),
           pass[r] = Len(query[r].passes)
    PROVE  Usable(query[r]) \subseteq seen[r]
<1>1. Offer(query[r], pass[r]) \subseteq cooling[r]
  <2>1. Eligible(r) \subseteq Bindings
    BY EligibleUsable
  <2>2. \A t \in Tiers : (Tier(t) \cap Eligible(r)) \ cooling[r] = {}
    BY DEF NextPass, Healthy
  <2> QED
    BY <2>1, <2>2 DEF Tiers, Tier, Bindings, Eligible, Matching, Offer
<1>2. /\ cooling[r] \subseteq seen[r]
      /\ \A i \in 1..(pass[r] - 1) : Offer(query[r], i) \subseteq seen[r]
      /\ pass[r] \in Nat
  BY DEF NextPass, At, RequestInv, TypeOK
<1>3. \A i \in 1..Len(query[r].passes) : Offer(query[r], i) \subseteq seen[r]
  BY <1>1, <1>2
<1>4. DOMAIN query[r].passes = 1..Len(query[r].passes)
  <2>1. query[r] \in Query
    BY QueryAssumption DEF TypeOK
  <2> QED
    BY <2>1 DEF Query
<1> QED
  BY <1>3, <1>4 DEF Usable, MatchingIn, Offer

(***************************************************************************)
(* A request that is turned away saw everything it could have used         *)
(* cooling, and one that is denied could have used nothing.                *)
(***************************************************************************)
THEOREM RefusalJustifiedCorrect == Spec => []RefusalJustified
<1>1. Init => RefusalJustified
  BY DEF Init, RefusalJustified
<1>2. TypeOK /\ RequestInv /\ RefusalJustified /\ [Next]_vars => RefusalJustified'
  <2> SUFFICES ASSUME TypeOK, RequestInv, RefusalJustified, [Next]_vars,
                      NEW k \in Requests
               PROVE  /\ outcome'[k] = "no_account" =>
                            Usable(query'[k]) \subseteq seen'[k]
                      /\ outcome'[k] = "denied" =>
                            query'[k].refused \/ Usable(query'[k]) = {}
    BY DEF RefusalJustified
  <2> DEFINE Goal == /\ outcome'[k] = "no_account" =>
                            Usable(query'[k]) \subseteq seen'[k]
                     /\ outcome'[k] = "denied" =>
                            query'[k].refused \/ Usable(query'[k]) = {}
             Same == outcome'[k] = outcome[k] /\ query'[k] = query[k] /\ seen'[k] = seen[k]
  <2>1. ASSUME Same PROVE Goal
    BY <2>1 DEF RefusalJustified
  <2>2. ASSUME outcome'[k] \in {"none", "served", "failed", "cancelled"} PROVE Goal
    BY <2>2
  <2>3. pc[k] # "idle" => outcome[k] = "none"
    BY DEF RequestInv
  <2> HIDE DEF Goal
  <2>4. CASE Tick \/ UNCHANGED vars
    <3>1. Same
      BY <2>4 DEF Tick, vars, local, history
    <3> QED
      BY <3>1, <2>1 DEF Goal
  <2>5. ASSUME NEW r \in Requests, NEW s \in Sessions \cup {NoSession},
               NEW q \in Queries, Arrive(r, s, q)
        PROVE  Goal
    <3>1. CASE r # k
      BY <2>1, <2>5, <3>1 DEF Arrive, TypeOK
    <3>2. CASE r = k /\ ~q.refused
      BY <2>2, <2>5, <3>2 DEF Arrive, TypeOK
    <3>3. CASE r = k /\ q.refused
      <4>1. query'[k].refused /\ outcome'[k] = "denied"
        BY <2>5, <3>3 DEF Arrive, TypeOK
      <4> QED
        BY <4>1 DEF Goal
    <3> QED
      BY <3>1, <3>2, <3>3
  <2>6. ASSUME NEW r \in Requests, Snapshot(r) \/ Retry(r) PROVE Goal
    <3>1. CASE r # k
      BY <2>1, <2>6, <3>1 DEF Snapshot, Retry, local, TypeOK
    <3>2. CASE r = k
      BY <2>2, <2>3, <2>6, <3>2 DEF Snapshot, Retry, At
    <3> QED
      BY <3>1, <3>2
  <2>7. ASSUME NEW r \in Requests,
               UseAffinity(r) \/ (\E t \in Tiers : Choose(r, t)) \/ RecordSuccess(r)
        PROVE  Goal
    BY <2>1, <2>7 DEF UseAffinity, Choose, RecordSuccess, local, history
  <2>8. ASSUME NEW r \in Requests, NextPass(r) PROVE Goal
    <3>1. CASE r # k \/ pass[r] # Len(query[r].passes)
      BY <2>1, <2>8, <3>1 DEF NextPass, TurnAway, Finish, TypeOK
    <3>2. CASE r = k /\ pass[r] = Len(query[r].passes)
      <4>1. Usable(query[k]) \subseteq seen[k]
        BY <2>8, <3>2, AllSeen
      <4>2. /\ outcome'[k] = Unavailable(query[k])
            /\ query'[k] = query[k] /\ seen'[k] = seen[k]
        BY <2>8, <3>2 DEF NextPass, TurnAway, Finish, TypeOK
      <4>3. Unavailable(query[k]) = "denied" => Usable(query[k]) = {}
        BY DEF Unavailable, Usable
      <4> QED
        BY <4>1, <4>2, <4>3 DEF Goal
    <3> QED
      BY <3>1, <3>2
  <2>9. ASSUME NEW r \in Requests,
               NEW o \in {"served", "failed", "cancelled"}, Answer(r, o)
        PROVE  Goal
    BY <2>1, <2>2, <2>9 DEF Answer, Finish, TypeOK
  <2>10. ASSUME NEW r \in Requests,
                RecordAffinity(r) \/ GiveUp(r) \/ RelayStatus(r)
                \/ \E o \in {"failed", "cancelled"} : Abandon(r, o)
         PROVE  Goal
    BY <2>9, <2>10 DEF RecordAffinity, GiveUp, RelayStatus, Abandon
  <2> QED
    BY <2>4, <2>5, <2>6, <2>7, <2>8, <2>10 DEF Next, Enter, Acquire, Report, Goal
<1> QED
  BY <1>1, <1>2, TypeCorrect, PTL DEF Spec

(***************************************************************************)
(* Routing is safe for every pool, every set of queries and any number of  *)
(* requests: the three invariants above together.                          *)
(***************************************************************************)
THEOREM RoutingSafeCorrect == Spec => []RoutingSafe
<1>1. TypeOK /\ SelectionAllowed /\ AffinityEarned /\ RefusalJustified => RoutingSafe
  BY DEF RoutingSafe
<1> QED
  BY <1>1, TypeCorrect, SelectionAllowedCorrect, AffinityEarnedCorrect,
     RefusalJustifiedCorrect, PTL

=============================================================================
