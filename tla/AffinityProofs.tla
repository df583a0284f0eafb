--------------------------- MODULE AffinityProofs ---------------------------
(***************************************************************************)
(* Proofs about the session affinity map: its type, the bound of the sweep *)
(* counter, and that it implements AffinityMap, for any number of tasks,   *)
(* sessions and values and any times.                                      *)
(***************************************************************************)
EXTENDS Affinity, FiniteSetTheorems, TLAPS

USE TtlAssumption, GcAssumption, ThreadsAssumption, NoEntryAssumption

-----------------------------------------------------------------------------
\* Whatever an entry is, looking at it gives one of the answers.
LEMMA AnswerType ==
    ASSUME NEW e \in Entry \cup {NoEntry}, NEW now \in Nat
    PROVE  Abs!AnswerFor(e, now) \in Abs!Answers
  BY DEF Abs!AnswerFor, Abs!Answers, Abs!Visible, Abs!Stale, Abs!Live, Abs!Age,
         Entry, Abs!Entry, Abs!Hit, Abs!Unknown, Abs!Expired

\* A task inside a call looks at an entry of the map.
LEMMA KeyType ==
    ASSUME TypeOK, NEW t \in Threads, pc[t] # "idle"
    PROVE  /\ arg[t] \in Args
           /\ arg[t].key \in Sessions
           /\ arg[t].value \in Values \cup {NoEntry}
           /\ map[arg[t].key] \in Entry \cup {NoEntry}
  BY DEF TypeOK, Args

\* The type invariant is preserved by every step.
LEMMA TypeStep == TypeOK /\ [Next]_vars => TypeOK'
<1> SUFFICES ASSUME TypeOK, [Next]_vars PROVE TypeOK'
  OBVIOUS
<1>1. CASE Tick
  BY <1>1 DEF Tick, TypeOK
<1>2. ASSUME NEW t \in Threads, Enter(t) PROVE TypeOK'
  <2>1. PICK s \in Sessions, v \in Values \cup {NoEntry} : Call(t, s, v)
    BY <1>2 DEF Enter, Lookup, Record
  <2>2. UNCHANGED <<clock, map, ops_since_gc, answer>>
    BY <1>2 DEF Enter, Lookup, Record
  <2>3. [key |-> s, value |-> v] \in Args
    BY DEF Args
  <2> QED
    BY <2>1, <2>2, <2>3 DEF Call, TypeOK, Points, Args
<1>3. ASSUME NEW t \in Threads, CountOp(t) PROVE TypeOK'
  BY <1>3, KeyType DEF CountOp, At, Goto, Body, Points, TypeOK
<1>4. ASSUME NEW t \in Threads, ResetOps(t) PROVE TypeOK'
  BY <1>4, KeyType DEF ResetOps, At, Goto, Points, TypeOK
<1>5. ASSUME NEW t \in Threads, Sweep(t) PROVE TypeOK'
  BY <1>5, KeyType DEF Sweep, At, Goto, Body, Points, TypeOK
<1>6. ASSUME NEW t \in Threads, ReadLocked(t) PROVE TypeOK'
  <2>0. map[arg[t].key] \in Entry \cup {NoEntry} /\ clock \in Nat
    BY <1>6, KeyType DEF ReadLocked, At, TypeOK
  <2>1. Abs!AnswerFor(map[arg[t].key], clock) \in Abs!Answers
    BY <2>0, AnswerType
  <2>2. answer' \in [Threads -> Abs!Answers]
    BY <1>6, <2>1 DEF ReadLocked, TypeOK
  <2>3. \/ Goto(t, "recheck")
        \/ Return(t)
    BY <1>6 DEF ReadLocked
  <2>4. pc[t] = "read" /\ UNCHANGED <<clock, map, ops_since_gc>>
    BY <1>6 DEF ReadLocked, At
  <2> QED
    BY <2>2, <2>3, <2>4, KeyType DEF Goto, Return, Points, TypeOK
<1>7. ASSUME NEW t \in Threads, WriteLocked(t) PROVE TypeOK'
  <2>0. map[arg[t].key] \in Entry \cup {NoEntry} /\ clock \in Nat
    BY <1>7, KeyType DEF WriteLocked, At, TypeOK
  <2>1. Abs!AnswerFor(map[arg[t].key], clock) \in Abs!Answers
    BY <2>0, AnswerType
  <2>2. answer' \in [Threads -> Abs!Answers]
    BY <1>7, <2>1 DEF WriteLocked, TypeOK
  <2>3. map' \in [Sessions -> Entry \cup {NoEntry}]
    BY <1>7, KeyType DEF WriteLocked, At, TypeOK
  <2>4. Return(t) /\ UNCHANGED <<clock, ops_since_gc>>
    BY <1>7 DEF WriteLocked
  <2> QED
    BY <2>2, <2>3, <2>4 DEF Return, Points, TypeOK
<1>8. ASSUME NEW t \in Threads, Insert(t) PROVE TypeOK'
  <2>1. [value |-> arg[t].value, stamped_at |-> clock] \in Entry
    BY <1>8 DEF Insert, At, TypeOK, Entry, Abs!Entry
  <2> QED
    BY <1>8, <2>1, KeyType DEF Insert, At, Return, Points, TypeOK
<1>9. CASE UNCHANGED vars
  BY <1>9 DEF vars, TypeOK
<1> QED
  BY <1>1, <1>2, <1>3, <1>4, <1>5, <1>6, <1>7, <1>8, <1>9 DEF Next, Step

(***************************************************************************)
(* The type invariant of the affinity map holds in every reachable state.  *)
(***************************************************************************)
THEOREM TypeCorrect == Spec => []TypeOK
<1>1. Init => TypeOK
  BY DEF Init, TypeOK, Points, Abs!Answers, Abs!Idle
<1> QED
  BY <1>1, TypeStep, PTL DEF Spec

-----------------------------------------------------------------------------
(***************************************************************************)
(* The sweep counter is bounded: OpsBounded is inductive with the type.    *)
(***************************************************************************)
THEOREM OpsBoundedCorrect == Spec => []OpsBounded
<1>1. Init => OpsBounded
  <2> SUFFICES ASSUME Init PROVE OpsBounded
    OBVIOUS
  <2>1. AboutToReset = {}
    BY DEF Init, AboutToReset, At
  <2> QED
    BY <2>1, FS_EmptySet DEF Init, OpsBounded
<1>2. TypeOK /\ OpsBounded /\ [Next]_vars => OpsBounded'
  <2> SUFFICES ASSUME TypeOK, OpsBounded, [Next]_vars PROVE OpsBounded'
    OBVIOUS
  <2>1. IsFiniteSet(AboutToReset) /\ Cardinality(AboutToReset) \in Nat
    BY FS_Subset, FS_CardinalityType DEF AboutToReset
  <2>2. ASSUME AboutToReset' = AboutToReset, ops_since_gc' = ops_since_gc
        PROVE  OpsBounded'
    BY <2>2 DEF OpsBounded
  <2>3. ASSUME NEW t \in Threads, CountOp(t) PROVE OpsBounded'
    <3>1. CASE ops_since_gc + 1 < GcEvery
      <4>1. AboutToReset' = AboutToReset
        BY <2>3, <3>1 DEF CountOp, At, Goto, Body, AboutToReset, TypeOK
      <4> QED
        BY <2>1, <2>3, <3>1, <4>1 DEF CountOp, OpsBounded, TypeOK
    <3>2. CASE ~(ops_since_gc + 1 < GcEvery)
      <4>1. AboutToReset' = AboutToReset \cup {t} /\ t \notin AboutToReset
        BY <2>3, <3>2 DEF CountOp, At, Goto, Body, AboutToReset, TypeOK
      <4>2. Cardinality(AboutToReset') = Cardinality(AboutToReset) + 1
        BY <2>1, <4>1, FS_AddElement
      <4> QED
        BY <2>1, <2>3, <4>2 DEF CountOp, OpsBounded, TypeOK
    <3> QED
      BY <3>1, <3>2
  <2>4. ASSUME NEW t \in Threads, ResetOps(t) PROVE OpsBounded'
    <3>1. IsFiniteSet(AboutToReset') /\ Cardinality(AboutToReset') \in Nat
      BY FS_Subset, FS_CardinalityType DEF AboutToReset
    <3> QED
      BY <2>4, <3>1 DEF ResetOps, OpsBounded
  <2>5. ASSUME NEW t \in Threads,
               Enter(t) \/ Sweep(t) \/ ReadLocked(t) \/ WriteLocked(t) \/ Insert(t)
        PROVE  OpsBounded'
    <3>1. ops_since_gc' = ops_since_gc
      BY <2>5 DEF Enter, Lookup, Record, Sweep, ReadLocked, WriteLocked, Insert
    <3>2. AboutToReset' = AboutToReset
      BY <2>5 DEF Enter, Lookup, Record, Call, Sweep, ReadLocked, WriteLocked, Insert,
                  At, Goto, Return, Body, AboutToReset, TypeOK
    <3> QED
      BY <2>2, <3>1, <3>2
  <2>6. CASE Tick
    BY <2>2, <2>6 DEF Tick, AboutToReset, At
  <2>7. CASE UNCHANGED vars
    BY <2>2, <2>7 DEF vars, AboutToReset, At
  <2> QED
    BY <2>3, <2>4, <2>5, <2>6, <2>7 DEF Next, Step
<1> QED
  BY <1>1, <1>2, TypeCorrect, PTL DEF Spec

-----------------------------------------------------------------------------
(***************************************************************************)
(* The map the code keeps implements the one that expires on time: each    *)
(* lock section that matters is a Lookup or a Record of AffinityMap at the *)
(* same instant, and the other sections are not visible there.             *)
(***************************************************************************)
THEOREM ImplementsMapCorrect == Spec => ImplementsMap
<1> USE DEF Mapped, Stale, Abs!Stale, Abs!Age
<1>1. Init => Abs!Init
  BY DEF Init, Abs!Init
<1>2. TypeOK /\ [Next]_vars => [Abs!Next]_Abs!vars
  <2> SUFFICES ASSUME TypeOK, [Next]_vars PROVE [Abs!Next]_Abs!vars
    OBVIOUS
  <2>1. CASE Tick
    <3>1. Mapped' = [s \in Sessions |-> Abs!Visible(Mapped[s], clock')]
      <4> SUFFICES ASSUME NEW s \in Sessions
                   PROVE  Mapped'[s] = Abs!Visible(Mapped[s], clock')
        BY DEF Mapped
      <4>1. map[s] = NoEntry \/ (map[s].stamped_at \in Nat /\ map[s] # NoEntry)
        BY DEF TypeOK, Entry, Abs!Entry
      <4> QED
        BY <2>1, <4>1 DEF Tick, TypeOK, Abs!Visible
    <3> QED
      BY <2>1, <3>1 DEF Tick, Abs!Tick, Abs!Next
  <2>2. ASSUME NEW t \in Threads, Enter(t) \/ CountOp(t) \/ ResetOps(t)
        PROVE  UNCHANGED Abs!vars
    BY <2>2 DEF Enter, Lookup, Record, CountOp, ResetOps, Abs!vars
  <2>3. ASSUME NEW t \in Threads, Sweep(t) PROVE UNCHANGED Abs!vars
    BY <2>3 DEF Sweep, Abs!vars, TypeOK
  <2>4. ASSUME NEW t \in Threads, ReadLocked(t) PROVE [Abs!Next]_Abs!vars
    <3> DEFINE e == map[arg[t].key]
    <3>1. arg[t].key \in Sessions /\ UNCHANGED <<clock, Mapped>>
      BY <2>4, KeyType DEF ReadLocked, At
    <3>2. CASE Stale(e)
      BY <2>4, <3>1, <3>2 DEF ReadLocked, Abs!vars
    <3>3. CASE ~Stale(e)
      <4>1. Mapped[arg[t].key] = e
        BY <3>1, <3>3
      <4>2. answer' = [answer EXCEPT ![t] = Abs!AnswerFor(Mapped[arg[t].key], clock)]
        BY <2>4, <3>3, <4>1 DEF ReadLocked
      <4> QED
        BY <3>1, <4>2 DEF Abs!Lookup, Abs!Next
    <3> QED
      BY <3>2, <3>3
  <2>5. ASSUME NEW t \in Threads, WriteLocked(t) PROVE Abs!Next
    <3> DEFINE e == map[arg[t].key]
    <3>1. arg[t].key \in Sessions
      BY <2>5, KeyType DEF WriteLocked, At
    <3>2. UNCHANGED <<clock, Mapped>>
      BY <2>5, <3>1 DEF WriteLocked, TypeOK
    <3>3. Abs!AnswerFor(e, clock) = Abs!AnswerFor(Mapped[arg[t].key], clock)
      BY <3>1 DEF Abs!AnswerFor, Abs!Visible
    <3>4. Abs!Lookup(t, arg[t].key)
      BY <2>5, <3>2, <3>3 DEF WriteLocked, Abs!Lookup
    <3> QED
      BY <3>1, <3>4 DEF Abs!Next
  <2>6. ASSUME NEW t \in Threads, Insert(t) PROVE Abs!Next
    <3>1. arg[t].key \in Sessions /\ arg[t].value \in Values
      BY <2>6, KeyType DEF Insert, At, TypeOK
    <3>2. [value |-> arg[t].value, stamped_at |-> clock] # NoEntry
      BY <3>1 DEF TypeOK
    <3>3. PICK s \in Sessions, v \in Values : s = arg[t].key /\ v = arg[t].value
      BY <3>1
    <3>4. Mapped' = [Mapped EXCEPT ![s] =
             Abs!Visible([value |-> v, stamped_at |-> clock], clock)]
      BY <2>6, <3>2, <3>3 DEF Insert, TypeOK, Abs!Visible
    <3>5. UNCHANGED <<clock, answer>>
      BY <2>6 DEF Insert
    <3>6. Abs!Record(s, v)
      BY <3>4, <3>5 DEF Abs!Record
    <3> QED
      BY <3>6 DEF Abs!Next
  <2>7. CASE UNCHANGED vars
    BY <2>7 DEF vars, Abs!vars
  <2> QED
    BY <2>1, <2>2, <2>3, <2>4, <2>5, <2>6, <2>7 DEF Next, Step
<1> QED
  BY <1>1, <1>2, TypeCorrect, PTL DEF Spec, ImplementsMap, Abs!Spec
=============================================================================
