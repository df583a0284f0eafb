---------------------------- MODULE HistoryProofs ----------------------------
(***************************************************************************)
(* The components of History keep their invariants for every value of the  *)
(* constants; the session trees and the schema migrations for every        *)
(* setting that satisfies their assumptions, which is used for the         *)
(* settings of History.                                                    *)
(***************************************************************************)
EXTENDS History, SequenceTheorems, FiniteSetTheorems, TLAPS

-----------------------------------------------------------------------------
(* Which component moves. *)

\* A step leaves `part` and moves at most the component it names.
LEMMA PartStep ==
    ASSUME [Next]_vars
    PROVE  /\ part' = part
           /\ part = "store" => [Store!Next]_(Store!vars)
           /\ part = "usage" => [Usage!Next]_(Usage!vars)
           /\ part = "tree" => [Session(Tree)!Next]_(Session(Tree)!vars)
           /\ part = "lone" => [Session(Lone)!Next]_(Session(Lone)!vars)
           /\ part = "import" => [Import!Next]_(Import!vars)
           /\ part = "upgrade" => [Schema(Upgrade)!Next]_(Schema(Upgrade)!vars)
           /\ part = "race" => [Schema(Race)!Next]_(Schema(Race)!vars)
           /\ part = "drain" => [Drain!Next]_(Drain!vars)
<1>1. CASE UNCHANGED vars
  <2>1. UNCHANGED <<part, storeVars, usageVars, treeVars, importVars, schemaVars, drainVars>>
    BY <1>1 DEF vars
  <2>2. UNCHANGED Store!vars
    BY <2>1 DEF storeVars, Store!vars
  <2>3. UNCHANGED Usage!vars
    BY <2>1 DEF usageVars, Usage!vars
  <2>4. UNCHANGED Session(Tree)!vars /\ UNCHANGED Session(Lone)!vars
    BY <2>1 DEF treeVars, Session!vars
  <2>5. UNCHANGED Import!vars
    BY <2>1 DEF importVars, Import!vars
  <2>6. UNCHANGED Schema(Upgrade)!vars /\ UNCHANGED Schema(Race)!vars
    BY <2>1 DEF schemaVars, Schema!vars
  <2>7. UNCHANGED Drain!vars
    BY <2>1 DEF drainVars, Drain!vars
  <2> QED
    BY <2>1, <2>2, <2>3, <2>4, <2>5, <2>6, <2>7
<1>2. CASE Next
  BY <1>2, Zenon DEF Next
<1> QED
  BY <1>1, <1>2

-----------------------------------------------------------------------------
(* The end of the process (ServerDrain). *)

\* What holds between a listener and the connections it accepted.
Attached ==
    \A c \in Connections :
        /\ lst[ListenerOf[c]] = "new" => client[c] = "new"
        /\ lst[ListenerOf[c]] = "done" => client[c] \notin Drain!Live
        /\ client[c] = "aborted" => ListenerOf[c] \in failed

\* What the supervisor has made of the results it took.
Reported ==
    /\ \A l \in collected : l \in failed => outcome = "error"
    /\ main # "supervising" => collected = Listeners

\* The records are finished behind the marker, and for a successful exit.
Recorded ==
    main = "marked" \/ (main = "exited" /\ outcome = "ok") =>
        \A c \in Connections : fin[c] # "active"

DrainInv == Drain!TypeOK /\ Attached /\ Reported /\ Recorded

LEMMA DrainInit == Drain!DrainAssumption /\ Drain!Init => DrainInv
BY DEF Drain!DrainAssumption, Drain!Init, DrainInv, Drain!TypeOK, Attached, Reported,
   Recorded, Drain!Live

LEMMA DrainNext ==
    ASSUME Drain!DrainAssumption, DrainInv, [Drain!Next]_(Drain!vars)
    PROVE  DrainInv'
<1> USE DEF DrainInv, Drain!DrainAssumption
<1>1. ASSUME NEW l \in Listeners, Drain!Bind(l) PROVE DrainInv'
  BY <1>1 DEF Drain!Bind, Drain!End, Drain!TypeOK, Attached, Reported, Recorded, Drain!Live
<1>2. ASSUME NEW l \in Listeners, Drain!Stop(l) PROVE DrainInv'
  BY <1>2 DEF Drain!Stop, Drain!TypeOK, Attached, Reported, Recorded, Drain!Live
<1>3. ASSUME NEW l \in Listeners, Drain!Drained(l) PROVE DrainInv'
  BY <1>3 DEF Drain!Drained, Drain!End, Drain!LiveAt, Drain!TypeOK, Attached, Reported,
     Recorded, Drain!Live
<1>4. ASSUME NEW l \in Listeners, Drain!GraceExpires(l) PROVE DrainInv'
  BY <1>4 DEF Drain!GraceExpires, Drain!End, Drain!LiveAt, Drain!TypeOK, Attached, Reported,
     Recorded, Drain!Live
<1>5. ASSUME NEW l \in Listeners, Drain!AcceptFails(l) PROVE DrainInv'
  BY <1>5 DEF Drain!AcceptFails, Drain!TypeOK, Attached, Reported, Recorded, Drain!Live
<1>6. ASSUME NEW c \in Connections, Drain!Accept(c) PROVE DrainInv'
  BY <1>6 DEF Drain!Accept, Drain!TypeOK, Attached, Reported, Recorded, Drain!Live
<1>7. ASSUME NEW c \in Connections, Drain!Request(c) PROVE DrainInv'
  BY <1>7 DEF Drain!Request, Drain!TypeOK, Attached, Reported, Recorded, Drain!Live
<1>8. ASSUME NEW c \in Connections, Drain!Respond(c) \/ Drain!Close(c) PROVE DrainInv'
  BY <1>8 DEF Drain!Respond, Drain!Close, Drain!TypeOK, Attached, Reported, Recorded,
     Drain!Live
<1>9. ASSUME NEW c \in Connections, Drain!Finalize(c) PROVE DrainInv'
  BY <1>9 DEF Drain!Finalize, Drain!TypeOK, Attached, Reported, Recorded, Drain!Live
<1>10. ASSUME NEW ok \in BOOLEAN, Drain!Signal(ok) PROVE DrainInv'
  BY <1>10 DEF Drain!Signal, Drain!TypeOK, Attached, Reported, Recorded, Drain!Live
<1>11. ASSUME NEW l \in Listeners, Drain!Collect(l) PROVE DrainInv'
  BY <1>11 DEF Drain!Collect, Drain!TypeOK, Attached, Reported, Recorded, Drain!Live
<1>12. CASE Drain!Supervised
  BY <1>12 DEF Drain!Supervised, Drain!TypeOK, Attached, Reported, Recorded, Drain!Live
<1>13. CASE Drain!Mark
  <2>1. \A c \in Connections : fin[c] # "active"
    BY <1>13 DEF Drain!Mark, Drain!TypeOK, Drain!Range
  <2> QED
    BY <1>13, <2>1 DEF Drain!Mark, Drain!TypeOK, Attached, Reported, Recorded, Drain!Live
<1>14. CASE Drain!Flushed \/ Drain!CleanupTimeout
  BY <1>14 DEF Drain!Flushed, Drain!CleanupTimeout, Drain!TypeOK, Attached, Reported,
     Recorded, Drain!Live
<1>15. CASE Drain!Exited \/ UNCHANGED Drain!vars
  BY <1>15 DEF Drain!Exited, Drain!vars, Drain!TypeOK, Attached, Reported, Recorded,
     Drain!Live
<1> QED
  BY <1>1, <1>2, <1>3, <1>4, <1>5, <1>6, <1>7, <1>8, <1>9, <1>10, <1>11, <1>12,
     <1>13, <1>14, <1>15 DEF Drain!Next, Drain!Serve, Drain!MainStep

\* The flush starts only when every listener has drained, nothing emits behind the marker,
\* and a successful exit means that no listener failed, no connection was cut and every
\* record was finished.
LEMMA DrainProperties ==
    ASSUME Drain!DrainAssumption, DrainInv
    PROVE  Drain!NothingAfterMark /\ Drain!SiblingsDrained /\ Drain!SuccessIsComplete
<1> USE DEF DrainInv, Drain!TypeOK, Reported
<1>1. Drain!SiblingsDrained
  BY DEF Drain!SiblingsDrained
<1>2. Drain!NothingAfterMark
  BY DEF Drain!DrainAssumption, Attached, Recorded, Drain!NothingAfterMark
<1>3. ASSUME main = "exited", outcome = "ok"
      PROVE  failed = {} /\ \A c \in Connections : client[c] \in {"new", "closed"} /\ fin[c] # "active"
  <2>1. collected = Listeners /\ failed = {}
    BY <1>3
  <2> QED
    BY <1>3, <2>1 DEF Drain!DrainAssumption, Attached, Recorded, Drain!Live
<1> QED
  BY <1>1, <1>2, <1>3 DEF Drain!SuccessIsComplete

-----------------------------------------------------------------------------
(* The schema (SchemaMigrations). *)

SchemaFiles == {schema, bak, bakTmp, resTmp}

\* Each migration ran as often as the recorded version says; openers and a rollback
\* keep out of each other's way, so that the version an opener read can only rise.
Opener(k, p) ==
    /\ proc[p].head \in k.heads /\ schema.is = "whole" /\ schema.ver >= proc[p].applied
    /\ proc[p].at \in {"backup", "removeBak", "renameBak", "migrate"} =>
          proc[p].head > proc[p].applied

SchemaInv(k) ==
    /\ Schema(k)!TypeOK
    /\ \A f \in SchemaFiles :
          f.ran = Schema(k)!RanUpTo(f.ver) /\ (f.is # "whole" => f.ver = 0)
    /\ \A p \in k.procs : proc[p].at \in Schema(k)!Opening => Opener(k, p)
    /\ \A p, q \in k.procs :
          proc[p].at \in Schema(k)!Restoring /\ q # p => proc[q].at = "off"

\* What one process at a time has made of the backup and has put back of it.
UpgradeProc(p) ==
    /\ proc[p].at \in {"removeBak", "renameBak"} => bakTmp = schema
    /\ proc[p].at = "migrate" => bak = schema
    /\ proc[p].at = "opened" => schema.is = "whole"
    /\ proc[p].at \in {"restoreCopy", "restoreRemove", "restoreRename"} => bak.is = "whole"
    /\ proc[p].at \in {"restoreRemove", "restoreRename"} => resTmp = bak
    /\ proc[p].at = "restoreDone" => schema.is = "whole"

Original ==
    ~gap =>
        /\ schema.is = "whole" \/ bak.is = "whole"
        /\ schema.is = "whole" => 0 \in schema.rows
        /\ bak.is = "whole" => 0 \in bak.rows

UpgradeInv(k) ==
    /\ SchemaInv(k) /\ Schema(k)!WholeFiles /\ Original
    /\ \A p \in k.procs : UpgradeProc(p)

LEMMA Versioned ==
    ASSUME NEW CONSTANT k, Schema(k)!SchemaAssumption
    PROVE  k.heads \subseteq Schema(k)!Versions /\ Schema(k)!Versions \subseteq Nat \ {0}
<1> DEFINE H == CHOOSE h \in k.heads : \A g \in k.heads : g <= h
<1>1. H \in k.heads /\ \A g \in k.heads : g <= H
  BY Zenon DEF Schema!SchemaAssumption
<1>2. Schema(k)!Versions = 1 .. H
  BY DEF Schema!Versions
<1>3. k.heads \subseteq Nat \ {0} /\ H \in Nat
  BY <1>1 DEF Schema!SchemaAssumption
<1> QED
  BY <1>1, <1>2, <1>3

\* A file with its type whose migrations ran as often as its version says.
Consistent(k, f) ==
    /\ f \in Schema(k)!Files
    /\ f.ran = Schema(k)!RanUpTo(f.ver) /\ (f.is # "whole" => f.ver = 0)

LEMMA NewFiles ==
    ASSUME NEW CONSTANT k, Schema(k)!SchemaAssumption
    PROVE  /\ Consistent(k, Schema(k)!Missing) /\ Consistent(k, Schema(k)!Torn)
           /\ Consistent(k, Schema(k)!Empty)
           /\ Schema(k)!Missing.is = "missing" /\ Schema(k)!Torn.is = "torn"
           /\ Schema(k)!Empty.is = "whole" /\ Schema(k)!Empty.ver = 0
<1>1. Schema(k)!Versions \subseteq Nat \ {0}
  BY Versioned
<1>2. Schema(k)!NoRun = Schema(k)!RanUpTo(0) /\ Schema(k)!NoRun \in [Schema(k)!Versions -> 0 .. 2]
  BY <1>1 DEF Schema!NoRun, Schema!RanUpTo
<1> QED
  BY <1>2 DEF Consistent, Schema!Missing, Schema!Torn, Schema!Empty, Schema!File, Schema!Files

LEMMA VersionFile ==
    ASSUME NEW CONSTANT k, Schema(k)!SchemaAssumption,
           NEW v \in {0} \cup k.heads, NEW r \in SUBSET (0 .. k.maxRows)
    PROVE  /\ Consistent(k, Schema(k)!File(v, TRUE, r, Schema(k)!RanUpTo(v)))
           /\ Schema(k)!File(v, TRUE, r, Schema(k)!RanUpTo(v)).is = "whole"
           /\ Schema(k)!File(v, TRUE, r, Schema(k)!RanUpTo(v)).ver = v
           /\ Schema(k)!File(v, TRUE, r, Schema(k)!RanUpTo(v)).rows = r
<1>1. k.heads \subseteq Schema(k)!Versions /\ Schema(k)!Versions \subseteq Nat \ {0}
  BY Versioned
<1>2. Schema(k)!RanUpTo(v) \in [Schema(k)!Versions -> 0 .. 2]
  BY <1>1 DEF Schema!RanUpTo
<1> QED
  BY <1>1, <1>2 DEF Consistent, Schema!File, Schema!Files

LEMMA SchemaTypes ==
    ASSUME NEW CONSTANT k, SchemaInv(k)
    PROVE  /\ Consistent(k, schema) /\ Consistent(k, bak)
           /\ Consistent(k, bakTmp) /\ Consistent(k, resTmp)
           /\ proc \in [k.procs -> [at : {"off", "opened"} \cup Schema(k)!Opening
                                            \cup Schema(k)!Restoring,
                                    head : {0} \cup k.heads,
                                    applied : {0} \cup Schema(k)!Versions]]
           /\ gap \in BOOLEAN
BY DEF SchemaInv, Schema!TypeOK, Consistent, SchemaFiles

\* A file whose pending migrations have run is consistent when it was, at the version
\* that the opener had read.
LEMMA MigratedFile ==
    ASSUME NEW CONSTANT k, Schema(k)!SchemaAssumption, NEW p \in k.procs,
           Consistent(k, schema), schema.is = "whole",
           proc[p].head \in k.heads, proc[p].applied \in {0} \cup Schema(k)!Versions,
           schema.ver = proc[p].applied, proc[p].head > proc[p].applied
    PROVE  /\ Consistent(k, Schema(k)!Migrated(p)) /\ Schema(k)!Migrated(p).is = "whole"
           /\ Schema(k)!Migrated(p).ver = proc[p].head
           /\ Schema(k)!Migrated(p).rows = schema.rows
<1> DEFINE f == Schema(k)!Migrated(p)
<1>1. k.heads \subseteq Schema(k)!Versions /\ Schema(k)!Versions \subseteq Nat \ {0}
  BY Versioned
<1>2. /\ schema \in Schema(k)!Files
      /\ schema.ran = [v \in Schema(k)!Versions |-> IF v <= schema.ver THEN 1 ELSE 0]
  BY DEF Consistent, Schema!RanUpTo
<1>3. /\ f.is = "whole" /\ f.ver = proc[p].head /\ f.tables = TRUE /\ f.rows = schema.rows
      /\ f.ran = [v \in Schema(k)!Versions |->
                    IF v \in proc[p].applied + 1 .. proc[p].head
                    THEN schema.ran[v] + 1 ELSE schema.ran[v]]
  BY <1>2 DEF Schema!Migrated, Schema!Files
<1>4. f.ran = [v \in Schema(k)!Versions |-> IF v <= f.ver THEN 1 ELSE 0]
  BY <1>1, <1>2, <1>3
<1>5. f.ran \in [Schema(k)!Versions -> 0 .. 2]
  BY <1>4
<1>6. f \in Schema(k)!Files
  <2>1. \A h \in {0} \cup Schema(k)!Versions, n \in [Schema(k)!Versions -> 0 .. 2] :
           [schema EXCEPT !.ver = h, !.tables = TRUE, !.ran = n] \in Schema(k)!Files
    BY <1>2 DEF Schema!Files
  <2> QED
    BY <1>1, <1>3, <1>5, <2>1 DEF Schema!Migrated
<1> HIDE DEF f
<1> QED
  BY <1>3, <1>4, <1>6 DEF Consistent, Schema!RanUpTo, f

ProcStates(k) ==
    [at : {"off", "opened"} \cup Schema(k)!Opening \cup Schema(k)!Restoring,
     head : {0} \cup k.heads, applied : {0} \cup Schema(k)!Versions]

LEMMA SchemaInit ==
    ASSUME NEW CONSTANT k, Schema(k)!SchemaAssumption, Schema(k)!Init
    PROVE  SchemaInv(k) /\ (Schema(k)!WholeFiles /\ Original)
                        /\ \A p \in k.procs : UpgradeProc(p)
<1>1. /\ Consistent(k, Schema(k)!Missing) /\ Schema(k)!Missing.is = "missing"
      /\ bak = Schema(k)!Missing /\ bakTmp = Schema(k)!Missing /\ resTmp = Schema(k)!Missing
  BY NewFiles DEF Schema!Init
<1>2. /\ Consistent(k, schema) /\ gap = (schema = Schema(k)!Missing)
      /\ schema = Schema(k)!Missing \/ (schema.is = "whole" /\ 0 \in schema.rows)
  <2>1. CASE schema = Schema(k)!Missing
    BY <1>1, <2>1 DEF Schema!Init
  <2>2. ASSUME NEW v \in {0} \cup k.heads,
               schema = Schema(k)!File(v, TRUE, {0}, Schema(k)!RanUpTo(v))
        PROVE  Consistent(k, schema) /\ schema.is = "whole" /\ schema.rows = {0}
    <3>1. {0} \in SUBSET (0 .. k.maxRows)
      BY DEF Schema!SchemaAssumption
    <3>2. /\ Consistent(k, Schema(k)!File(v, TRUE, {0}, Schema(k)!RanUpTo(v)))
          /\ Schema(k)!File(v, TRUE, {0}, Schema(k)!RanUpTo(v)).is = "whole"
          /\ Schema(k)!File(v, TRUE, {0}, Schema(k)!RanUpTo(v)).rows = {0}
      BY <3>1, VersionFile DEF Schema!File
    <3> QED
      BY <2>2, <3>2
  <2> QED
    BY <2>1, <2>2 DEF Schema!Init
<1>3. \A p \in k.procs : proc[p] = [at |-> "off", head |-> 0, applied |-> 0]
  BY DEF Schema!Init, Schema!Off
<1>4. proc \in [k.procs -> ProcStates(k)]
  BY DEF Schema!Init, Schema!Off, ProcStates
<1>5. Schema(k)!TypeOK
  BY <1>1, <1>2, <1>4 DEF Schema!TypeOK, Consistent, ProcStates
<1>6. SchemaInv(k)
  <2>1. \A f \in SchemaFiles :
           f.ran = Schema(k)!RanUpTo(f.ver) /\ (f.is # "whole" => f.ver = 0)
    BY <1>1, <1>2 DEF SchemaFiles, Consistent
  <2> QED
    BY <1>3, <1>5, <2>1 DEF SchemaInv, Schema!Opening, Schema!Restoring
<1>7. Schema(k)!WholeFiles /\ Original
  BY <1>1, <1>2 DEF Schema!WholeFiles, Original
<1> QED
  BY <1>3, <1>6, <1>7 DEF UpgradeProc

\* A process moves: the files stay consistent, an opener has read the version or an older
\* one, and no opener is there when the database is replaced.
LEMMA SchemaMove ==
    ASSUME NEW CONSTANT k, SchemaInv(k), NEW p \in k.procs, NEW x \in ProcStates(k),
           proc' = [proc EXCEPT ![p] = x],
           Consistent(k, schema'), Consistent(k, bak'), Consistent(k, bakTmp'),
           Consistent(k, resTmp'), gap' \in BOOLEAN,
           \/ \A q \in k.procs \ {p} : proc[q].at = "off"
           \/ /\ x.at \notin Schema(k)!Restoring
              /\ schema.is = "whole" => schema'.is = "whole" /\ schema'.ver >= schema.ver
              /\ x.at # "off" => \A q \in k.procs \ {p} : proc[q].at \notin Schema(k)!Restoring,
           x.at \in Schema(k)!Opening =>
              /\ x.head \in k.heads /\ schema'.is = "whole" /\ schema'.ver >= x.applied
              /\ x.at \in {"backup", "removeBak", "renameBak", "migrate"} => x.head > x.applied,
           Schema(k)!SchemaAssumption
    PROVE  SchemaInv(k)'
<1>0. Schema(k)!Versions \subseteq Nat \ {0}
  BY Versioned
<1>1. /\ proc \in [k.procs -> ProcStates(k)] /\ proc' \in [k.procs -> ProcStates(k)]
      /\ proc'[p] = x /\ \A q \in k.procs : q # p => proc'[q] = proc[q]
      /\ Consistent(k, schema)
  BY SchemaTypes DEF ProcStates
<1>2. Schema(k)!TypeOK'
  BY <1>1 DEF Schema!TypeOK, Consistent, ProcStates
<1>3. \A f \in SchemaFiles' : f.ran = Schema(k)!RanUpTo(f.ver) /\ (f.is # "whole" => f.ver = 0)
  BY DEF SchemaFiles, Consistent
<1>4. ASSUME NEW q \in k.procs, proc'[q].at \in Schema(k)!Opening PROVE Opener(k, q)'
  <2>1. CASE q = p
    BY <1>1, <1>4, <2>1 DEF Opener
  <2>2. CASE q # p
    <3>1. proc'[q] = proc[q] /\ Opener(k, q) /\ proc[q].at # "off"
      BY <1>1, <1>4, <2>2 DEF SchemaInv, Schema!Opening
    <3>2. schema'.is = "whole" /\ schema'.ver >= schema.ver
      BY <2>2, <3>1 DEF Opener
    <3>3. schema'.ver \in Nat /\ schema.ver \in Nat /\ proc[q].applied \in Nat
      BY <1>0, <1>1 DEF Consistent, Schema!Files, ProcStates
    <3> QED
      BY <3>1, <3>2, <3>3 DEF Opener
  <2> QED
    BY <2>1, <2>2
<1>5. ASSUME NEW a \in k.procs, NEW q \in k.procs, proc'[a].at \in Schema(k)!Restoring, q # a
      PROVE  proc'[q].at = "off"
  <2>1. CASE a = p
    BY <1>1, <1>5, <2>1
  <2>2. CASE a # p /\ q # p
    BY <1>1, <1>5, <2>2 DEF SchemaInv
  <2>3. CASE a # p /\ q = p
    BY <1>1, <1>5, <2>3 DEF Schema!Restoring
  <2> QED
    BY <2>1, <2>2, <2>3
<1> QED
  BY <1>2, <1>3, <1>4, <1>5 DEF SchemaInv

LEMMA SchemaNext ==
    ASSUME NEW CONSTANT k, Schema(k)!SchemaAssumption, SchemaInv(k),
           [Schema(k)!Next]_(Schema(k)!vars)
    PROVE  SchemaInv(k)'
<1>0. k.heads \subseteq Schema(k)!Versions /\ Schema(k)!Versions \subseteq Nat \ {0}
  BY Versioned
<1>1. /\ Consistent(k, schema) /\ Consistent(k, bak) /\ Consistent(k, bakTmp)
      /\ Consistent(k, resTmp) /\ proc \in [k.procs -> ProcStates(k)] /\ gap \in BOOLEAN
  BY SchemaTypes DEF ProcStates
<1>2. /\ Consistent(k, Schema(k)!Missing) /\ Consistent(k, Schema(k)!Torn)
      /\ Consistent(k, Schema(k)!Empty)
      /\ Schema(k)!Empty.is = "whole" /\ Schema(k)!Empty.ver = 0
  BY NewFiles
<1>3. /\ \A p \in k.procs : proc[p].at \in Schema(k)!Opening => Opener(k, p)
      /\ \A p, q \in k.procs : proc[p].at \in Schema(k)!Restoring /\ q # p => proc[q].at = "off"
      /\ schema.ver \in {0} \cup Schema(k)!Versions
  BY <1>1 DEF SchemaInv, Consistent, Schema!Files
<1>4. ASSUME NEW p \in k.procs, NEW w \in {"off", "opened"} \cup Schema(k)!Opening
                                           \cup Schema(k)!Restoring
      PROVE  /\ [proc[p] EXCEPT !.at = w] \in ProcStates(k)
             /\ [proc[p] EXCEPT !.at = w].at = w
             /\ [proc[p] EXCEPT !.at = w].head = proc[p].head
             /\ [proc[p] EXCEPT !.at = w].applied = proc[p].applied
             /\ Schema(k)!Goto(p, w) => proc' = [proc EXCEPT ![p] = [proc[p] EXCEPT !.at = w]]
  <2>1. proc[p] \in ProcStates(k)
    BY <1>1
  <2>2. [proc EXCEPT ![p].at = w] = [proc EXCEPT ![p] = [proc[p] EXCEPT !.at = w]]
    BY <1>1
  <2> QED
    BY <2>1, <2>2 DEF ProcStates, Schema!Goto
<1>5. Schema(k)!Off \in ProcStates(k) /\ Schema(k)!Off.at = "off"
  BY DEF Schema!Off, ProcStates
\* A step of p that leaves the database alone, and its end.
<1>6. ASSUME NEW p \in k.procs, NEW w \in {"opened"} \cup Schema(k)!Opening,
             proc[p].at \in Schema(k)!Opening, Schema(k)!Goto(p, w), schema' = schema,
             w \in {"backup", "removeBak", "renameBak", "migrate"} => proc[p].head > proc[p].applied,
             Consistent(k, bak'), Consistent(k, bakTmp'), Consistent(k, resTmp'), gap' = gap
      PROVE  SchemaInv(k)'
    <2> DEFINE x == [proc[p] EXCEPT !.at = w]
    <2>1. x \in ProcStates(k) /\ x.at = w /\ x.head = proc[p].head /\ x.applied = proc[p].applied
          /\ proc' = [proc EXCEPT ![p] = x]
      BY <1>4, <1>6
    <2>2. Opener(k, p)
      BY <1>3, <1>6
    <2>3. schema.ver >= schema.ver /\ w \notin Schema(k)!Restoring
          /\ \A q \in k.procs \ {p} : proc[q].at \notin Schema(k)!Restoring
      BY <1>0, <1>3, <1>6 DEF Schema!Opening, Schema!Restoring
    <2> HIDE DEF x
    <2> QED
      BY <1>1, <1>6, <2>1, <2>2, <2>3, SchemaMove DEF Opener
<1>7. ASSUME NEW p \in k.procs, Schema(k)!Exit(p), schema' = schema,
             Consistent(k, bak'), Consistent(k, bakTmp'), Consistent(k, resTmp'), gap' = gap
      PROVE  SchemaInv(k)'
  <2>1. proc' = [proc EXCEPT ![p] = Schema(k)!Off] /\ schema.ver >= schema.ver
        /\ "off" \notin Schema(k)!Restoring \cup Schema(k)!Opening
    BY <1>0, <1>3, <1>7 DEF Schema!Exit, Schema!Restoring, Schema!Opening
  <2> QED
    BY <1>1, <1>5, <1>7, <2>1, SchemaMove
\* A step of a process beside which no other is there.
<1>8. ASSUME NEW p \in k.procs, NEW x \in ProcStates(k), proc' = [proc EXCEPT ![p] = x],
             \A q \in k.procs \ {p} : proc[q].at = "off", x.at \notin Schema(k)!Opening,
             Consistent(k, schema'), Consistent(k, bak'), Consistent(k, bakTmp'),
             Consistent(k, resTmp'), gap' = gap
      PROVE  SchemaInv(k)'
  BY <1>1, <1>8, SchemaMove
<1>9. ASSUME NEW p \in k.procs, NEW h \in k.heads, Schema(k)!Open(p, h) PROVE SchemaInv(k)'
  <2> DEFINE x == [at |-> "decide", head |-> h, applied |-> schema.ver]
  <2>1. x \in ProcStates(k) /\ proc' = [proc EXCEPT ![p] = x] /\ x.at = "decide"
        /\ x.head = h /\ x.applied = schema.ver
    BY <1>3, <1>9 DEF ProcStates, Schema!Open, Schema!Opening
  <2>2. Consistent(k, schema') /\ schema'.is = "whole" /\ schema'.ver >= schema.ver
    <3>2. CASE schema.is = "missing"
      <4>1. schema.ver = 0
        BY <1>1, <3>2 DEF Consistent
      <4> QED
        BY <1>2, <1>9, <3>2, <4>1 DEF Schema!Open
    <3>3. CASE schema.is # "missing"
      BY <1>0, <1>1, <1>3, <1>9, <3>3 DEF Schema!Open, Consistent, Schema!Files
    <3> QED
      BY <3>2, <3>3
  <2>3. /\ \A q \in k.procs \ {p} : proc[q].at \notin Schema(k)!Restoring
        /\ "decide" \notin Schema(k)!Restoring /\ gap' \in BOOLEAN
        /\ bak' = bak /\ bakTmp' = bakTmp /\ resTmp' = resTmp
    BY <1>1, <1>9 DEF Schema!Open, Schema!Restoring
  <2> HIDE DEF x
  <2> QED
    BY <1>1, <2>1, <2>2, <2>3, SchemaMove
<1>10. ASSUME NEW p \in k.procs, Schema(k)!Decide(p) PROVE SchemaInv(k)'
  <2>1. /\ proc[p].at \in Schema(k)!Opening /\ Opener(k, p) /\ schema' = schema /\ gap' = gap
        /\ bak' = bak /\ bakTmp' = bakTmp /\ resTmp' = resTmp
    BY <1>3, <1>10 DEF Schema!Decide, Schema!At, Schema!Opening
  <2>2. \E w \in {"opened", "bootstrap", "backup"} :
           Schema(k)!Goto(p, w) /\ (w = "backup" => ~ proc[p].applied >= proc[p].head)
    BY <1>10 DEF Schema!Decide
  <2>3. proc[p].head \in Nat /\ proc[p].applied \in Nat
    BY <1>0, <1>1, <2>1 DEF Opener, ProcStates
  <2>4. PICK w \in {"opened", "bootstrap", "backup"} :
           Schema(k)!Goto(p, w) /\ (w = "backup" => proc[p].head > proc[p].applied)
    BY <2>2, <2>3
  <2>5. w \in {"opened"} \cup Schema(k)!Opening
    BY DEF Schema!Opening
  <2> QED
    BY <1>1, <1>6, <2>1, <2>4, <2>5
<1>11. ASSUME NEW p \in k.procs, Schema(k)!Backup(p) PROVE SchemaInv(k)'
  <2>1. /\ proc[p].at \in Schema(k)!Opening /\ proc[p].head > proc[p].applied
        /\ schema' = schema /\ gap' = gap /\ bak' = bak /\ resTmp' = resTmp
        /\ "removeBak" \in {"opened"} \cup Schema(k)!Opening
    BY <1>3, <1>11 DEF Schema!Backup, Schema!At, Schema!Opening, Opener
  <2>2. \/ bakTmp' = schema /\ Schema(k)!Goto(p, "removeBak")
        \/ bakTmp' = Schema(k)!Torn /\ Schema(k)!Exit(p)
    BY <1>11 DEF Schema!Backup
  <2> QED
    BY <1>1, <1>2, <1>6, <1>7, <2>1, <2>2
<1>12. ASSUME NEW p \in k.procs, Schema(k)!RemoveBak(p) PROVE SchemaInv(k)'
  <2>1. /\ proc[p].at \in Schema(k)!Opening /\ proc[p].head > proc[p].applied
        /\ schema' = schema /\ gap' = gap /\ bak' = Schema(k)!Missing /\ bakTmp' = bakTmp
        /\ resTmp' = resTmp /\ Schema(k)!Goto(p, "renameBak")
        /\ "renameBak" \in {"opened"} \cup Schema(k)!Opening
    BY <1>3, <1>12 DEF Schema!RemoveBak, Schema!At, Schema!Opening, Opener
  <2> QED
    BY <1>1, <1>2, <1>6, <2>1
<1>13. ASSUME NEW p \in k.procs, Schema(k)!RenameBak(p) PROVE SchemaInv(k)'
  <2>1. /\ proc[p].at \in Schema(k)!Opening /\ proc[p].head > proc[p].applied
        /\ schema' = schema /\ gap' = gap /\ resTmp' = resTmp
        /\ "migrate" \in {"opened"} \cup Schema(k)!Opening
    BY <1>3, <1>13 DEF Schema!RenameBak, Schema!At, Schema!Opening, Opener
  <2>2. \/ bak' = bak /\ bakTmp' = bakTmp /\ Schema(k)!Exit(p)
        \/ bak' = bakTmp /\ bakTmp' = Schema(k)!Missing /\ Schema(k)!Goto(p, "migrate")
    BY <1>13 DEF Schema!RenameBak
  <2> QED
    BY <1>1, <1>2, <1>6, <1>7, <2>1, <2>2
\* The database gets the schema of the opener's release.
<1>14. ASSUME NEW p \in k.procs, proc[p].at \in Schema(k)!Opening, Schema(k)!Goto(p, "opened"),
              Consistent(k, schema'), schema'.is = "whole", schema'.ver = proc[p].head,
              proc[p].head >= schema.ver,
              bak' = bak, bakTmp' = bakTmp, resTmp' = resTmp, gap' = gap
       PROVE  SchemaInv(k)'
    <2> DEFINE x == [proc[p] EXCEPT !.at = "opened"]
    <2>1. x \in ProcStates(k) /\ x.at = "opened" /\ proc' = [proc EXCEPT ![p] = x]
      BY <1>4, <1>14
    <2>2. /\ "opened" \notin Schema(k)!Restoring \cup Schema(k)!Opening
          /\ \A q \in k.procs \ {p} : proc[q].at \notin Schema(k)!Restoring
      BY <1>3, <1>14 DEF Schema!Opening, Schema!Restoring
    <2> HIDE DEF x
    <2> QED
      BY <1>1, <1>14, <2>1, <2>2, SchemaMove
<1>15. ASSUME NEW p \in k.procs, Schema(k)!Bootstrap(p) PROVE SchemaInv(k)'
  <2>1. /\ proc[p].at \in Schema(k)!Opening /\ proc[p].head \in k.heads /\ gap' = gap
        /\ bak' = bak /\ bakTmp' = bakTmp /\ resTmp' = resTmp
    BY <1>3, <1>15 DEF Schema!Bootstrap, Schema!At, Schema!Opening, Opener
  <2>2. CASE Schema(k)!Exit(p) /\ schema' = schema
    BY <1>1, <1>7, <2>1, <2>2
  <2>3. CASE /\ schema.ver = 0 /\ Schema(k)!Goto(p, "opened")
             /\ schema' = Schema(k)!File(proc[p].head, TRUE, schema.rows,
                                         Schema(k)!RanUpTo(proc[p].head))
    <3>1. schema.rows \in SUBSET (0 .. k.maxRows)
      BY <1>1 DEF Consistent, Schema!Files
    <3>2. Consistent(k, schema') /\ schema'.is = "whole" /\ schema'.ver = proc[p].head
      BY <2>1, <2>3, <3>1, VersionFile DEF Schema!File
    <3>3. proc[p].head >= schema.ver
      BY <1>0, <2>1, <2>3
    <3> QED
      BY <1>14, <2>1, <2>3, <3>2, <3>3
  <2> QED
    BY <1>15, <2>2, <2>3 DEF Schema!Bootstrap
<1>16. ASSUME NEW p \in k.procs, Schema(k)!Migrate(p) PROVE SchemaInv(k)'
  <2>1. /\ proc[p].at \in Schema(k)!Opening /\ Opener(k, p) /\ proc[p].head > proc[p].applied
        /\ bak' = bak /\ bakTmp' = bakTmp /\ resTmp' = resTmp /\ gap' = gap
    BY <1>3, <1>16 DEF Schema!Migrate, Schema!At, Schema!Opening, Opener
  <2>2. CASE Schema(k)!Exit(p) /\ schema' = schema
    BY <1>1, <1>7, <2>1, <2>2
  <2>3. CASE /\ ~ schema.ver > proc[p].applied
             /\ schema' = Schema(k)!Migrated(p) /\ Schema(k)!Goto(p, "opened")
    <3>1. /\ proc[p].applied \in {0} \cup Schema(k)!Versions /\ proc[p].head \in k.heads
          /\ schema.is = "whole" /\ schema.ver >= proc[p].applied
      BY <1>1, <2>1 DEF Opener, ProcStates
    <3>2. schema.ver = proc[p].applied /\ proc[p].head >= schema.ver
      BY <1>0, <1>3, <2>1, <2>3, <3>1
    <3>3. /\ Consistent(k, Schema(k)!Migrated(p)) /\ Schema(k)!Migrated(p).is = "whole"
          /\ Schema(k)!Migrated(p).ver = proc[p].head
      BY <1>1, <2>1, <3>1, <3>2, MigratedFile
    <3> QED
      BY <1>14, <2>1, <2>3, <3>2, <3>3
  <2> QED
    BY <1>16, <2>2, <2>3 DEF Schema!Migrate
<1>17. ASSUME NEW p \in k.procs, NEW r \in 1 .. k.maxRows, Schema(k)!Record(p, r)
       PROVE  SchemaInv(k)'
  <2>1. /\ schema' = [schema EXCEPT !.rows = @ \cup {r}]
        /\ bak' = bak /\ bakTmp' = bakTmp /\ resTmp' = resTmp /\ gap' = gap /\ proc' = proc
        /\ proc[p].at = "opened"
    BY <1>17 DEF Schema!Record, Schema!At
  <2>2. /\ schema'.is = schema.is /\ schema'.ver = schema.ver /\ schema'.ran = schema.ran
        /\ schema' \in Schema(k)!Files
    <3>1. \A n \in SUBSET (0 .. k.maxRows) : [schema EXCEPT !.rows = n] \in Schema(k)!Files
      BY <1>1 DEF Consistent, Schema!Files
    <3>2. schema.rows \cup {r} \in SUBSET (0 .. k.maxRows)
      BY <1>1, <1>17 DEF Consistent, Schema!Files, Schema!SchemaAssumption
    <3> QED
      BY <1>1, <2>1, <3>1, <3>2 DEF Consistent, Schema!Files
  <2>3. /\ proc[p] \in ProcStates(k) /\ proc' = [proc EXCEPT ![p] = proc[p]]
        /\ "opened" \notin Schema(k)!Opening \cup Schema(k)!Restoring
        /\ \A q \in k.procs \ {p} : proc[q].at \notin Schema(k)!Restoring
        /\ schema.ver >= schema.ver
    BY <1>0, <1>1, <1>3, <2>1 DEF Schema!Opening, Schema!Restoring
  <2>4. Consistent(k, schema')
    BY <1>1, <2>2 DEF Consistent
  <2> QED
    BY <1>1, <2>1, <2>2, <2>3, <2>4, SchemaMove
<1>18. ASSUME NEW p \in k.procs, Schema(k)!Die(p) PROVE SchemaInv(k)'
  <2>1. /\ schema' = schema /\ gap' = gap /\ bak' = bak /\ bakTmp' = bakTmp /\ resTmp' = resTmp
        /\ Schema(k)!Exit(p)
    BY <1>18 DEF Schema!Die
  <2> QED
    BY <1>1, <1>7, <2>1
<1>19. ASSUME NEW p \in k.procs,
              \/ Schema(k)!Rollback(p) \/ Schema(k)!RestoreCopy(p) \/ Schema(k)!RestoreRemove(p)
              \/ Schema(k)!RestoreRename(p) \/ Schema(k)!RestoreDone(p)
       PROVE  SchemaInv(k)'
  <2>1. \A q \in k.procs \ {p} : proc[q].at = "off"
    BY <1>3, <1>19 DEF Schema!Rollback, Schema!RestoreCopy, Schema!RestoreRemove,
       Schema!RestoreRename, Schema!RestoreDone, Schema!At, Schema!Restoring
  <2>2. /\ Consistent(k, schema') /\ Consistent(k, bak') /\ Consistent(k, bakTmp')
        /\ Consistent(k, resTmp') /\ gap' = gap
    BY <1>1, <1>2, <1>19 DEF Schema!Rollback, Schema!RestoreCopy, Schema!RestoreRemove,
       Schema!RestoreRename, Schema!RestoreDone
  <2>3. \/ Schema(k)!Exit(p)
        \/ \E w \in Schema(k)!Restoring : Schema(k)!Goto(p, w)
    BY <1>19 DEF Schema!Rollback, Schema!RestoreCopy, Schema!RestoreRemove,
       Schema!RestoreRename, Schema!RestoreDone, Schema!Restoring
  <2>4. \E x \in ProcStates(k) :
           proc' = [proc EXCEPT ![p] = x] /\ x.at \in {"off"} \cup Schema(k)!Restoring
    <3>1. CASE Schema(k)!Exit(p)
      BY <1>5, <3>1 DEF Schema!Exit
    <3>2. CASE \E w \in Schema(k)!Restoring : Schema(k)!Goto(p, w)
      <4>1. PICK w \in Schema(k)!Restoring : Schema(k)!Goto(p, w)
        BY <3>2
      <4>2. /\ [proc[p] EXCEPT !.at = w] \in ProcStates(k) /\ [proc[p] EXCEPT !.at = w].at = w
            /\ proc' = [proc EXCEPT ![p] = [proc[p] EXCEPT !.at = w]]
        BY <1>4, <4>1
      <4> QED
        BY <4>2
    <3> QED
      BY <2>3, <3>1, <3>2
  <2>5. ({"off"} \cup Schema(k)!Restoring) \cap Schema(k)!Opening = {}
    BY DEF Schema!Opening, Schema!Restoring
  <2> QED
    BY <1>8, <2>1, <2>2, <2>4, <2>5
<1>20. CASE UNCHANGED Schema(k)!vars
  BY <1>20 DEF Schema!vars, SchemaInv, SchemaFiles, Opener, Schema!TypeOK
<1> QED
  BY <1>9, <1>10, <1>11, <1>12, <1>13, <1>15, <1>16, <1>17, <1>18, <1>19, <1>20
     DEF Schema!Next, Schema!OpenTorn

LEMMA UpgradeInit ==
    ASSUME NEW CONSTANT k, Schema(k)!SchemaAssumption, Schema(k)!Init
    PROVE  UpgradeInv(k)
BY SchemaInit DEF UpgradeInv

LEMMA UpgradeNext ==
    ASSUME NEW CONSTANT k, Schema(k)!SchemaAssumption, \A p, q \in k.procs : p = q,
           UpgradeInv(k), [Schema(k)!Next]_(Schema(k)!vars)
    PROVE  UpgradeInv(k)' /\ Schema(k)!BackupIsPreSequence
<1>0. SchemaInv(k) /\ SchemaInv(k)'
  BY SchemaNext DEF UpgradeInv
<1>1. /\ proc \in [k.procs -> ProcStates(k)]
      /\ schema \in Schema(k)!Files /\ bak \in Schema(k)!Files
  BY <1>0, SchemaTypes DEF ProcStates, Consistent
<1>2. /\ Schema(k)!Missing.is = "missing" /\ Schema(k)!Torn.is = "torn"
      /\ Schema(k)!Empty.is = "whole"
  BY NewFiles
<1>3. /\ Schema(k)!WholeFiles /\ Original /\ \A p \in k.procs : UpgradeProc(p)
  BY DEF UpgradeInv
<1>4. \A p \in k.procs : proc[p].at \in Schema(k)!Opening => Opener(k, p)
  BY <1>0 DEF SchemaInv
<1>20. ASSUME NEW p \in k.procs
       PROVE  /\ \A w : Schema(k)!Goto(p, w) => proc'[p].at = w
              /\ Schema(k)!Exit(p) => proc'[p].at = "off"
  BY <1>1 DEF ProcStates, Schema!Goto, Schema!Exit, Schema!Off
\* It is enough that the one process keeps its part.
<1>5. ASSUME NEW p \in k.procs, Schema(k)!WholeFiles', Original', UpgradeProc(p)',
             proc[p].at = "migrate" => bak = schema
      PROVE  UpgradeInv(k)' /\ Schema(k)!BackupIsPreSequence
  BY <1>0, <1>5 DEF UpgradeInv, Schema!BackupIsPreSequence, Schema!At
<1>6. ASSUME NEW p \in k.procs, NEW h \in k.heads, Schema(k)!Open(p, h)
      PROVE  UpgradeInv(k)' /\ Schema(k)!BackupIsPreSequence
  <2>1. proc'[p].at = "decide" /\ proc[p].at = "off" /\ bak' = bak
    BY <1>1, <1>20, <1>6 DEF Schema!Open, Schema!At
  <2>2. Schema(k)!WholeFiles' /\ Original'
    BY <1>1, <1>20, <1>2, <1>3, <1>6 DEF Schema!Open, Schema!WholeFiles, Original, Schema!Files
  <2> QED
    BY <1>5, <2>1, <2>2 DEF UpgradeProc
<1>7. ASSUME NEW p \in k.procs, Schema(k)!Decide(p)
      PROVE  UpgradeInv(k)' /\ Schema(k)!BackupIsPreSequence
  <2>1. /\ proc'[p].at \in {"bootstrap", "opened", "backup"} /\ proc[p].at = "decide"
        /\ schema' = schema /\ bak' = bak /\ gap' = gap
    BY <1>1, <1>20, <1>7 DEF Schema!Decide, Schema!At
  <2>2. schema.is = "whole"
    BY <1>4, <2>1 DEF Opener, Schema!Opening
  <2> QED
    BY <1>3, <1>5, <2>1, <2>2 DEF UpgradeProc, Schema!WholeFiles, Original
<1>8. ASSUME NEW p \in k.procs, Schema(k)!Backup(p)
      PROVE  UpgradeInv(k)' /\ Schema(k)!BackupIsPreSequence
  <2>1. /\ proc[p].at = "backup" /\ schema' = schema /\ bak' = bak /\ gap' = gap
        /\ \/ proc'[p].at = "removeBak" /\ bakTmp' = schema
           \/ proc'[p].at = "off"
    BY <1>1, <1>20, <1>8 DEF Schema!Backup, Schema!At
  <2> QED
    BY <1>3, <1>5, <2>1 DEF UpgradeProc, Schema!WholeFiles, Original
<1>9. ASSUME NEW p \in k.procs, Schema(k)!RemoveBak(p)
      PROVE  UpgradeInv(k)' /\ Schema(k)!BackupIsPreSequence
  <2>1. /\ proc[p].at = "removeBak" /\ proc'[p].at = "renameBak" /\ schema' = schema
        /\ bak' = Schema(k)!Missing /\ bakTmp' = bakTmp /\ gap' = gap /\ bakTmp = schema
    BY <1>1, <1>3, <1>20, <1>9 DEF Schema!RemoveBak, Schema!At, UpgradeProc
  <2>2. schema.is = "whole"
    BY <1>4, <2>1 DEF Opener, Schema!Opening
  <2> QED
    BY <1>2, <1>3, <1>5, <2>1, <2>2 DEF UpgradeProc, Schema!WholeFiles, Original
<1>10. ASSUME NEW p \in k.procs, Schema(k)!RenameBak(p)
       PROVE  UpgradeInv(k)' /\ Schema(k)!BackupIsPreSequence
  <2>1. /\ proc[p].at = "renameBak" /\ schema' = schema /\ gap' = gap /\ bakTmp = schema
        /\ \/ proc'[p].at = "off" /\ bak' = bak
           \/ proc'[p].at = "migrate" /\ bak' = schema
    BY <1>1, <1>3, <1>20, <1>10 DEF Schema!RenameBak, Schema!At,
       UpgradeProc
  <2>2. schema.is = "whole"
    BY <1>4, <2>1 DEF Opener, Schema!Opening
  <2> QED
    BY <1>2, <1>3, <1>5, <2>1, <2>2 DEF UpgradeProc, Schema!WholeFiles, Original
<1>11. ASSUME NEW p \in k.procs, Schema(k)!Bootstrap(p)
       PROVE  UpgradeInv(k)' /\ Schema(k)!BackupIsPreSequence
  <2>1. /\ proc[p].at = "bootstrap" /\ bak' = bak /\ gap' = gap
        /\ proc'[p].at \in {"off", "opened"}
        /\ schema'.is = schema.is /\ schema'.rows = schema.rows
    <3>1. schema.is = "whole"
      BY <1>4, <1>11 DEF Opener, Schema!Opening, Schema!Bootstrap, Schema!At
    <3> QED
      BY <1>1, <1>20, <1>11, <3>1 DEF Schema!Bootstrap, Schema!At, Schema!File
  <2>2. schema.is = "whole"
    BY <1>4, <2>1 DEF Opener, Schema!Opening
  <2> QED
    BY <1>3, <1>5, <2>1, <2>2 DEF UpgradeProc, Schema!WholeFiles, Original
<1>12. ASSUME NEW p \in k.procs, Schema(k)!Migrate(p)
       PROVE  UpgradeInv(k)' /\ Schema(k)!BackupIsPreSequence
  <2>1. /\ proc[p].at = "migrate" /\ bak' = bak /\ gap' = gap
        /\ proc'[p].at \in {"off", "opened"}
        /\ schema'.is = schema.is /\ schema'.rows = schema.rows
    BY <1>1, <1>20, <1>12 DEF Schema!Migrate, Schema!Migrated, Schema!At, Schema!Files
  <2>2. schema.is = "whole" /\ bak = schema
    BY <1>3, <1>4, <2>1 DEF Opener, Schema!Opening, UpgradeProc
  <2> QED
    BY <1>3, <1>5, <2>1, <2>2 DEF UpgradeProc, Schema!WholeFiles, Original
<1>13. ASSUME NEW p \in k.procs, NEW r \in 1 .. k.maxRows, Schema(k)!Record(p, r)
       PROVE  UpgradeInv(k)' /\ Schema(k)!BackupIsPreSequence
  <2>1. /\ proc[p].at = "opened" /\ proc' = proc /\ bak' = bak /\ gap' = gap
        /\ schema'.is = schema.is /\ schema.rows \subseteq schema'.rows
    BY <1>1, <1>20, <1>13 DEF Schema!Record, Schema!At, Schema!Files
  <2> QED
    BY <1>3, <1>5, <2>1 DEF UpgradeProc, Schema!WholeFiles, Original
<1>14. ASSUME NEW p \in k.procs, Schema(k)!Die(p)
       PROVE  UpgradeInv(k)' /\ Schema(k)!BackupIsPreSequence
  <2>1. proc'[p].at = "off" /\ schema' = schema /\ bak' = bak /\ gap' = gap
    BY <1>1, <1>20, <1>14 DEF Schema!Die
  <2>2. proc[p].at = "migrate" => bak = schema
    BY <1>3 DEF UpgradeProc
  <2> QED
    BY <1>3, <1>5, <2>1, <2>2 DEF UpgradeProc, Schema!WholeFiles, Original
<1>15. ASSUME NEW p \in k.procs, Schema(k)!Rollback(p) \/ Schema(k)!RestoreCopy(p)
       PROVE  UpgradeInv(k)' /\ Schema(k)!BackupIsPreSequence
  <2>1. /\ proc[p].at \in {"off", "restoreCopy"} /\ schema' = schema /\ bak' = bak /\ gap' = gap
        /\ bak.is # "missing" \/ bak.is = "whole"
        /\ \/ proc'[p].at \in {"restoreCopy", "off"}
           \/ proc'[p].at = "restoreRemove" /\ resTmp' = bak
    BY <1>1, <1>3, <1>20, <1>15 DEF Schema!Rollback, Schema!RestoreCopy, Schema!At, UpgradeProc
  <2>2. bak.is = "whole"
    BY <1>1, <1>20, <1>3, <2>1 DEF Schema!Files, Schema!WholeFiles
  <2> QED
    BY <1>3, <1>5, <2>1, <2>2 DEF UpgradeProc, Schema!WholeFiles, Original
<1>16. ASSUME NEW p \in k.procs, Schema(k)!RestoreRemove(p)
       PROVE  UpgradeInv(k)' /\ Schema(k)!BackupIsPreSequence
  <2>1. /\ proc[p].at = "restoreRemove" /\ proc'[p].at = "restoreRename"
        /\ schema' = Schema(k)!Missing /\ bak' = bak /\ resTmp' = resTmp /\ gap' = gap
        /\ bak.is = "whole" /\ resTmp = bak
    BY <1>1, <1>3, <1>20, <1>16 DEF Schema!RestoreRemove, Schema!At, UpgradeProc
  <2> QED
    BY <1>2, <1>3, <1>5, <2>1 DEF UpgradeProc, Schema!WholeFiles, Original
<1>17. ASSUME NEW p \in k.procs, Schema(k)!RestoreRename(p)
       PROVE  UpgradeInv(k)' /\ Schema(k)!BackupIsPreSequence
  <2>1. /\ proc[p].at = "restoreRename" /\ proc'[p].at = "restoreDone"
        /\ schema' = bak /\ bak' = bak /\ gap' = gap /\ bak.is = "whole"
    BY <1>1, <1>3, <1>20, <1>17 DEF Schema!RestoreRename, Schema!At, UpgradeProc
  <2> QED
    BY <1>3, <1>5, <2>1 DEF UpgradeProc, Schema!WholeFiles, Original
<1>18. ASSUME NEW p \in k.procs, Schema(k)!RestoreDone(p)
       PROVE  UpgradeInv(k)' /\ Schema(k)!BackupIsPreSequence
  <2>1. /\ proc[p].at = "restoreDone" /\ proc'[p].at = "off" /\ schema.is = "whole"
        /\ schema' = schema /\ bak' = Schema(k)!Missing /\ gap' = gap
    BY <1>1, <1>3, <1>20, <1>18 DEF Schema!RestoreDone, Schema!At, UpgradeProc
  <2> QED
    BY <1>2, <1>3, <1>5, <2>1 DEF UpgradeProc, Schema!WholeFiles, Original
<1>19. CASE UNCHANGED Schema(k)!vars
  <2>1. Schema(k)!WholeFiles' /\ Original' /\ \A p \in k.procs : UpgradeProc(p)'
    BY <1>3, <1>19 DEF Schema!vars, UpgradeProc, Schema!WholeFiles, Original
  <2>2. Schema(k)!BackupIsPreSequence
    BY <1>19 DEF Schema!vars, Schema!BackupIsPreSequence, Schema!At
  <2> QED
    BY <1>0, <2>1, <2>2 DEF UpgradeInv
<1> QED
  BY <1>6, <1>7, <1>8, <1>9, <1>10, <1>11, <1>12, <1>13, <1>14, <1>15, <1>16, <1>17, <1>18, <1>19
     DEF Schema!Next, Schema!OpenTorn

\* What a setting with one process at a time shows, and one in which they race.
LEMMA SchemaProperties ==
    ASSUME NEW CONSTANT k, Schema(k)!SchemaAssumption, SchemaInv(k)
    PROVE  /\ Schema(k)!TypeOK /\ Schema(k)!AppliedOnce
           /\ UpgradeInv(k) => Schema(k)!WholeFiles /\ Schema(k)!OriginalKept
<1>1. Schema(k)!TypeOK /\ Schema(k)!AppliedOnce
  BY DEF SchemaInv, SchemaFiles, Schema!AppliedOnce
<1>2. ASSUME UpgradeInv(k) PROVE Schema(k)!WholeFiles /\ Schema(k)!OriginalKept
  BY <1>2 DEF UpgradeInv, Original, Schema!OriginalKept
<1> QED
  BY <1>1, <1>2

-----------------------------------------------------------------------------
(* The import of a history (HistoryImport). *)

\* Each day has a file of its own, which is the one the router has open.
DayFiles ==
    /\ \A d, e \in Captured : file[d] # 0 /\ file[d] = file[e] => d = e
    /\ \A d \in Captured : dayConn[d] # 0 => dayConn[d] = file[d]

\* While an import is at work nobody fills a day that it created, and a day without
\* rows is such a day unless a process died.
CreatedDays ==
    /\ imp.pc \in {"idle", "lock"} => imp.created = {}
    /\ \A c \in imp.created :
          file[c[1]] = c[2] => dayContent[c[2]] = {} /\ dayConn[c[1]] = 0
    /\ deaths = 0 =>
          \A d \in Captured : file[d] # 0 /\ Import!Rows(d) = {} => <<d, file[d]>> \in imp.created

\* The open transaction: of the databases done with, all of the capture is there or is
\* inserted, and none of it collides.
Inserted ==
    /\ imp.pc = "prepare" => \A d \in Captured \ imp.todo : file[d] # 0
    /\ Import!InTransaction =>
          /\ \A d \in Captured : file[d] # 0
          /\ \A x \in imp.tx : x[2] \in Capture[x[1]]
          /\ \A d \in Import!Dbs \ imp.todo :
                /\ ~Import!Collides(d)
                /\ \A r \in Capture[d] \ Import!Rows(d) : <<d, r>> \in imp.tx
    /\ ~Import!InTransaction => imp.tx = {}
    /\ imp.pc = "finish" => imp.todo = {}

ImportInv ==
    /\ Import!TypeOK /\ DayFiles /\ CreatedDays /\ Inserted
    /\ Import!AckedKept /\ Import!AllOrNothing /\ Import!OneRowPerKey
    /\ Import!NoFileBesideArchive

ImportTypes ==
    /\ dayContent \in Seq(SUBSET Import!AllRows)
    /\ shared \in [Shared -> SUBSET Import!AllRows]
    /\ file \in [Captured -> {0} \cup Import!Files]
    /\ dayArchive \in [Captured -> SUBSET Import!AllRows]
    /\ dayConn \in [Captured -> {0} \cup Import!Files]
    /\ deaths \in 0 .. MaxDeaths
    /\ acked \subseteq Import!Dbs \X Import!AllRows /\ imported \in BOOLEAN

ImportStates ==
    [pc : {"idle", "lock", "prepare", "insert", "finish", "clean"}, commit : BOOLEAN,
     created : SUBSET (Captured \X Import!Files), todo : SUBSET Import!Dbs,
     tx : SUBSET (Import!Dbs \X Import!AllRows)]

LEMMA ImportTyped ==
    Import!TypeOK <=>
        /\ ImportTypes /\ imp \in ImportStates
        /\ dayLock = IF imp.pc \in {"idle", "lock"} THEN "none" ELSE "import"
BY DEF Import!TypeOK, ImportTypes, ImportStates

\* The rows that the constants name, and those of a database.
LEMMA RowsKnown ==
    /\ \A d \in Import!Dbs : Capture[d] \subseteq Import!AllRows /\ LiveRows[d] \subseteq Import!AllRows
    /\ RestoredRow \in Import!AllRows
    /\ Import!Dbs = Shared \cup Captured
    /\ ImportTypes => \A d \in Import!Dbs : Import!Rows(d) \subseteq Import!AllRows
<1>1. \A d \in Import!Dbs : Capture[d] \subseteq Import!AllRows /\ LiveRows[d] \subseteq Import!AllRows
  BY DEF Import!AllRows
<1>2. RestoredRow \in Import!AllRows /\ Import!Dbs = Shared \cup Captured
  BY DEF Import!AllRows, Import!Dbs
<1>3. ASSUME ImportTypes, NEW d \in Import!Dbs PROVE Import!Rows(d) \subseteq Import!AllRows
  <2>1. CASE d \in Shared
    BY <1>3, <2>1 DEF Import!Rows, ImportTypes
  <2>2. CASE d \in Captured /\ d \notin Shared /\ file[d] # 0
    <3>1. file[d] \in DOMAIN dayContent
      BY <1>3, <2>2 DEF ImportTypes, Import!Files
    <3>2. dayContent[file[d]] \in SUBSET Import!AllRows
      BY <1>3, <3>1, ElementOfSeq DEF ImportTypes
    <3> QED
      BY <2>2, <3>2 DEF Import!Rows
  <2>3. CASE d \notin Shared /\ file[d] = 0
    BY <2>3 DEF Import!Rows
  <2> QED
    BY <1>2, <1>3, <2>1, <2>2, <2>3
<1> QED
  BY <1>1, <1>2, <1>3

\* A file is created and takes the name of a day.
LEMMA DayCreated ==
    ASSUME Import!ImportAssumption, ImportTypes, NEW d \in Captured, NEW X \in SUBSET Import!AllRows,
           dayContent' = Append(dayContent, X), shared' = shared,
           file' = [file EXCEPT ![d] = Len(dayContent')]
    PROVE  /\ dayContent' \in Seq(SUBSET Import!AllRows)
           /\ Len(dayContent') = Len(dayContent) + 1 /\ file'[d] = Len(dayContent')
           /\ Import!Files' = Import!Files \cup {Len(dayContent')}
           /\ Len(dayContent') # 0 /\ Len(dayContent') \notin Import!Files
           /\ \A i \in Import!Files : dayContent'[i] = dayContent[i]
           /\ file' \in [Captured -> {0} \cup Import!Files']
           /\ Import!Rows(d)' = X
           /\ \A e \in Captured \ {d} : file'[e] = file[e]
           /\ \A e \in Import!Dbs \ {d} : Import!Rows(e)' = Import!Rows(e)
<1>1. /\ dayContent \in Seq(SUBSET Import!AllRows) /\ file \in [Captured -> {0} \cup Import!Files]
      /\ Len(dayContent) \in Nat /\ DOMAIN dayContent = 1 .. Len(dayContent)
  BY DEF ImportTypes
<1>2. /\ dayContent' \in Seq(SUBSET Import!AllRows) /\ Len(dayContent') = Len(dayContent) + 1
      /\ \A i \in 1 .. Len(dayContent) : dayContent'[i] = dayContent[i]
      /\ dayContent'[Len(dayContent) + 1] = X
      /\ DOMAIN dayContent' = 1 .. Len(dayContent) + 1
  BY <1>1
<1>3. /\ Import!Files = 1 .. Len(dayContent) /\ Import!Files' = 1 .. Len(dayContent) + 1
      /\ file'[d] = Len(dayContent) + 1
      /\ \A e \in Captured \ {d} : file'[e] = file[e]
  BY <1>1, <1>2 DEF Import!Files
<1>4. file' \in [Captured -> {0} \cup Import!Files']
  BY <1>1, <1>2, <1>3
<1>5. Import!Rows(d)' = X
  BY <1>1, <1>2, <1>3 DEF Import!Rows, Import!ImportAssumption
<1>6. ASSUME NEW e \in Import!Dbs \ {d} PROVE Import!Rows(e)' = Import!Rows(e)
  <2>1. CASE e \in Shared
    BY <2>1 DEF Import!Rows
  <2>2. CASE e \notin Shared
    <3>1. e \in Captured /\ file'[e] = file[e] /\ file[e] \in {0} \cup Import!Files
      BY <1>1, <1>3, <1>6, <2>2 DEF Import!Dbs
    <3> QED
      BY <1>1, <1>2, <1>3, <2>2, <3>1 DEF Import!Rows
  <2> QED
    BY <2>1, <2>2
<1> QED
  BY <1>1, <1>2, <1>3, <1>4, <1>5, <1>6

\* A row is written to the file of a day.
LEMMA DayWritten ==
    ASSUME Import!ImportAssumption, ImportTypes, DayFiles, NEW d \in Captured, file[d] # 0,
           NEW r \in Import!AllRows,
           dayContent' = [dayContent EXCEPT ![file[d]] = @ \cup {r}],
           shared' = shared, file' = file
    PROVE  /\ dayContent' \in Seq(SUBSET Import!AllRows) /\ Import!Files' = Import!Files
           /\ Import!Rows(d)' = Import!Rows(d) \cup {r}
           /\ \A i \in Import!Files \ {file[d]} : dayContent'[i] = dayContent[i]
           /\ \A e \in Import!Dbs \ {d} : Import!Rows(e)' = Import!Rows(e)
<1>1. /\ dayContent \in Seq(SUBSET Import!AllRows) /\ file \in [Captured -> {0} \cup Import!Files]
      /\ Len(dayContent) \in Nat /\ DOMAIN dayContent = 1 .. Len(dayContent)
      /\ file[d] \in 1 .. Len(dayContent)
  BY DEF ImportTypes, Import!Files
<1>2. dayContent[file[d]] \in SUBSET Import!AllRows
  BY <1>1, ElementOfSeq
<1>3. /\ dayContent' \in Seq(SUBSET Import!AllRows) /\ DOMAIN dayContent' = DOMAIN dayContent
      /\ dayContent'[file[d]] = dayContent[file[d]] \cup {r}
      /\ \A i \in DOMAIN dayContent : i # file[d] => dayContent'[i] = dayContent[i]
  BY <1>1, <1>2
<1>4. Import!Rows(d)' = Import!Rows(d) \cup {r}
  BY <1>1, <1>3 DEF Import!Rows, Import!ImportAssumption
<1>5. ASSUME NEW e \in Import!Dbs \ {d} PROVE Import!Rows(e)' = Import!Rows(e)
  <2>1. CASE e \in Shared
    BY <2>1 DEF Import!Rows
  <2>2. CASE e \notin Shared
    <3>1. e \in Captured /\ file[e] \in {0} \cup Import!Files /\ (file[e] # 0 => file[e] # file[d])
      BY <1>1, <1>5, <2>2 DEF Import!Dbs, DayFiles
    <3> QED
      BY <1>3, <2>2, <3>1 DEF Import!Rows, Import!Files
  <2> QED
    BY <2>1, <2>2
<1> QED
  BY <1>3, <1>4, <1>5 DEF Import!Files

\* The transaction is committed: each database with a file gets the rows inserted in it.
LEMMA RowsCommitted ==
    ASSUME Import!ImportAssumption, ImportTypes, DayFiles,
           NEW tx \in SUBSET (Import!Dbs \X Import!AllRows), Import!Write(tx), file' = file
    PROVE  /\ dayContent' \in Seq(SUBSET Import!AllRows) /\ Import!Files' = Import!Files
           /\ shared' \in [Shared -> SUBSET Import!AllRows]
           /\ \A d \in Shared : Import!Rows(d)' = Import!Committed(d, tx)
           /\ \A d \in Captured : file[d] # 0 => Import!Rows(d)' = Import!Committed(d, tx)
<1>1. /\ dayContent \in Seq(SUBSET Import!AllRows) /\ file \in [Captured -> {0} \cup Import!Files]
      /\ Len(dayContent) \in Nat /\ DOMAIN dayContent = 1 .. Len(dayContent)
  BY DEF ImportTypes
<1>2. \A d \in Import!Dbs : Import!Committed(d, tx) \subseteq Import!AllRows
  BY RowsKnown DEF Import!Committed
<1>3. /\ Import!Files' = Import!Files /\ DOMAIN dayContent' = 1 .. Len(dayContent)
      /\ \A i \in 1 .. Len(dayContent) :
           dayContent'[i] = dayContent[i] \cup
             UNION {Import!Committed(d, tx) : d \in {e \in Captured : file[e] = i}}
  BY <1>1 DEF Import!Write, Import!Files
<1>4. \A i \in 1 .. Len(dayContent) : dayContent'[i] \in SUBSET Import!AllRows
  <2>1. \A i \in 1 .. Len(dayContent) : dayContent[i] \in SUBSET Import!AllRows
    BY <1>1, ElementOfSeq
  <2>2. Captured \subseteq Import!Dbs
    BY RowsKnown
  <2> QED
    BY <1>2, <1>3, <2>1, <2>2
<1>5. dayContent' \in Seq(SUBSET Import!AllRows)
  <2>1. dayContent' = [i \in 1 .. Len(dayContent) |-> dayContent'[i]]
    BY <1>1 DEF Import!Write, Import!Files
  <2> QED
    BY <1>1, <1>4, <2>1
<1>6. ASSUME NEW d \in Shared
      PROVE  shared'[d] = Import!Committed(d, tx) /\ Import!Rows(d)' = Import!Committed(d, tx)
  BY <1>6 DEF Import!Write, Import!Rows
<1>7. shared' \in [Shared -> SUBSET Import!AllRows]
  <2>1. \A d \in Shared : Import!Committed(d, tx) \in SUBSET Import!AllRows
    BY <1>2, RowsKnown
  <2> QED
    BY <2>1 DEF Import!Write
<1>8. ASSUME NEW d \in Captured, file[d] # 0
      PROVE  Import!Rows(d)' = Import!Committed(d, tx)
  <2>1. file[d] \in 1 .. Len(dayContent) /\ d \notin Shared
    BY <1>1, <1>8 DEF Import!Files, Import!ImportAssumption
  <2>2. {e \in Captured : file[e] = file[d]} = {d}
    BY <1>8 DEF DayFiles
  <2>3. dayContent'[file[d]] = dayContent[file[d]] \cup Import!Committed(d, tx)
    BY <1>3, <2>1, <2>2
  <2>4. Import!Rows(d) = dayContent[file[d]] /\ Import!Rows(d)' = dayContent'[file[d]]
    BY <1>8, <2>1 DEF Import!Rows
  <2> QED
    BY <2>3, <2>4 DEF Import!Committed
<1> QED
  BY <1>3, <1>5, <1>6, <1>7, <1>8

LEMMA ImportInit == Import!ImportAssumption /\ Import!Init => ImportInv
<1> SUFFICES ASSUME Import!ImportAssumption, Import!Init PROVE ImportInv
  OBVIOUS
<1>1. \A d \in Captured : file[d] = 0 /\ dayArchive[d] = {} /\ dayConn[d] = 0
  BY DEF Import!Init
<1>2. \A d \in Import!Dbs : Import!Rows(d) = {}
  BY <1>1 DEF Import!Init, Import!Rows, Import!Dbs
<1>3. /\ imp.pc = "idle" /\ imp.created = {} /\ imp.tx = {} /\ imp \in ImportStates
      /\ acked = {} /\ imported = FALSE
  BY DEF Import!Init, Import!Idle, ImportStates
<1>4. ImportTypes
  <2>1. dayContent \in Seq(SUBSET Import!AllRows)
    BY DEF Import!Init
  <2>2. /\ shared \in [Shared -> SUBSET Import!AllRows]
        /\ dayArchive \in [Captured -> SUBSET Import!AllRows]
    BY DEF Import!Init
  <2>3. /\ file \in [Captured -> {0} \cup Import!Files]
        /\ dayConn \in [Captured -> {0} \cup Import!Files]
    BY DEF Import!Init
  <2>4. deaths \in 0 .. MaxDeaths /\ acked = {} /\ imported = FALSE
    BY DEF Import!Init, Import!ImportAssumption
  <2> QED
    BY <2>1, <2>2, <2>3, <2>4 DEF ImportTypes
<1>5. Import!TypeOK
  BY <1>3, <1>4, ImportTyped DEF Import!Init
<1>6. DayFiles /\ CreatedDays /\ Inserted
  BY <1>1, <1>3 DEF DayFiles, CreatedDays, Inserted, Import!InTransaction
<1>7. \A d \in Import!Dbs : Import!Kept(d) = {}
  BY <1>1, <1>2 DEF Import!Kept
<1>8. Import!AckedKept /\ Import!AllOrNothing /\ Import!OneRowPerKey /\ Import!NoFileBesideArchive
  BY <1>1, <1>2, <1>3, <1>7 DEF Import!AckedKept, Import!AllOrNothing, Import!OneRowPerKey,
     Import!NoFileBesideArchive
<1> QED
  BY <1>5, <1>6, <1>8 DEF ImportInv

\* The import moves on and no database changes.
LEMMA ImportQuiet ==
    ASSUME ImportInv,
           UNCHANGED <<shared, file, dayContent, dayArchive, dayConn, acked, imported>>,
           deaths' \in 0 .. MaxDeaths, imp' \in ImportStates,
           dayLock' = IF imp'.pc \in {"idle", "lock"} THEN "none" ELSE "import",
           CreatedDays', Inserted'
    PROVE  ImportInv'
<1>1. ImportTypes' /\ imp' \in ImportStates'
  <2>1. ImportTypes
    BY ImportTyped DEF ImportInv
  <2> QED
    BY <2>1 DEF ImportTypes, ImportStates, Import!Files
<1>2. Import!TypeOK'
  BY <1>1 DEF Import!TypeOK, ImportTypes, ImportStates
<1>3. /\ \A d : Import!Rows(d)' = Import!Rows(d)
      /\ \A d : Import!Kept(d)' = Import!Kept(d)
  BY DEF Import!Rows, Import!Kept
<1>4. /\ DayFiles' /\ Import!AckedKept' /\ Import!AllOrNothing' /\ Import!OneRowPerKey'
      /\ Import!NoFileBesideArchive'
  BY <1>3 DEF ImportInv, DayFiles, Import!AckedKept, Import!AllOrNothing, Import!OneRowPerKey,
     Import!NoFileBesideArchive
<1> QED
  BY <1>2, <1>4 DEF ImportInv

\* The steps of the import that change no database.
LEMMA ImportThinks ==
    ASSUME Import!ImportAssumption, ImportInv,
           \/ \E commit \in BOOLEAN : Import!Load(commit)
           \/ Import!Acquire \/ Import!Abort \/ Import!Rollback \/ Import!Attach
           \/ Import!CheckKeys \/ Import!Release \/ Import!Crash
           \/ \E d \in Import!Dbs : Import!Insert(d)
           \/ \E d \in Import!Dbs : Import!Prepare(d) /\ (d \in Shared \/ file[d] # 0)
           \/ UNCHANGED Import!vars
    PROVE  ImportInv'
<1>1. /\ ImportTypes /\ imp \in ImportStates
      /\ dayLock = IF imp.pc \in {"idle", "lock"} THEN "none" ELSE "import"
  BY ImportTyped DEF ImportInv
<1>2. /\ imp.commit \in BOOLEAN /\ imp.created \in SUBSET (Captured \X Import!Files)
      /\ imp.todo \in SUBSET Import!Dbs /\ imp.tx \in SUBSET (Import!Dbs \X Import!AllRows)
      /\ imp.pc \in {"idle", "lock", "prepare", "insert", "finish", "clean"}
  BY <1>1 DEF ImportStates
<1>3. /\ Import!Idle \in ImportStates /\ Import!Idle.pc = "idle" /\ Import!Idle.created = {}
      /\ Import!Idle.tx = {}
  BY DEF Import!Idle, ImportStates
<1>4. CreatedDays /\ Inserted /\ deaths \in 0 .. MaxDeaths
  BY <1>1 DEF ImportInv, ImportTypes
\* The databases stay, and the days created: what is left is the import's own state.
<1>5. ASSUME UNCHANGED <<shared, file, dayContent, dayArchive, dayConn, acked, imported, deaths>>,
             imp' \in ImportStates, imp'.created = imp.created,
             imp'.pc \in {"idle", "lock"} => imp.created = {},
             dayLock' = IF imp'.pc \in {"idle", "lock"} THEN "none" ELSE "import",
             Inserted'
      PROVE  ImportInv'
  <2>1. CreatedDays'
    BY <1>4, <1>5 DEF CreatedDays, Import!Rows
  <2> QED
    BY <1>4, <1>5, <2>1, ImportQuiet
<1>6. ASSUME NEW commit \in BOOLEAN, Import!Load(commit) PROVE ImportInv'
  <2>1. imp' \in ImportStates /\ imp'.created = {} /\ imp'.pc \in {"idle", "lock"}
        /\ imp'.tx = {}
    BY <1>1, <1>3, <1>4, <1>6 DEF Import!Load, Import!Idle, ImportStates, CreatedDays, Inserted,
       Import!InTransaction
  <2>2. Inserted'
    BY <2>1 DEF Inserted, Import!InTransaction
  <2>3. imp.created = {} /\ dayLock' = "none"
    BY <1>1, <1>4, <1>6 DEF Import!Load, CreatedDays
  <2> QED
    BY <1>5, <1>6, <2>1, <2>2, <2>3 DEF Import!Load, Import!others
<1>7. CASE Import!Acquire
  <2>1. imp' \in ImportStates /\ imp'.created = imp.created /\ imp'.pc = "prepare"
        /\ imp'.todo = Import!Dbs /\ imp'.tx = {}
    BY <1>1, <1>2, <1>4, <1>7 DEF Import!Acquire, ImportStates, Inserted, Import!InTransaction
  <2>2. Inserted'
    BY <2>1, RowsKnown DEF Inserted, Import!InTransaction
  <2> QED
    BY <1>5, <1>7, <2>1, <2>2 DEF Import!Acquire, Import!others
<1>8. CASE Import!Abort \/ Import!Rollback
  <2>1. imp' \in ImportStates /\ imp'.created = imp.created /\ imp'.pc = "clean"
        /\ dayLock = "import" /\ imp'.tx = {}
    BY <1>1, <1>2, <1>8 DEF Import!Abort, Import!Rollback, ImportStates
  <2>2. Inserted'
    BY <2>1 DEF Inserted, Import!InTransaction
  <2> QED
    BY <1>5, <1>8, <2>1, <2>2 DEF Import!Abort, Import!Rollback, Import!others
<1>9. CASE Import!Attach
  <2>1. imp' \in ImportStates /\ imp'.created = imp.created /\ imp'.pc = "insert"
        /\ imp'.todo = Import!Dbs /\ imp'.tx = imp.tx /\ dayLock = "import"
    BY <1>1, <1>2, <1>9 DEF Import!Attach, ImportStates
  <2>2. \A d \in Captured : file[d] # 0
    BY <1>4, <1>9 DEF Import!Attach, Inserted
  <2>3. imp.tx = {}
    BY <1>4, <1>9 DEF Import!Attach, Inserted, Import!InTransaction
  <2>4. Inserted'
    BY <1>9, <2>1, <2>2, <2>3, RowsKnown DEF Inserted, Import!InTransaction, Import!Attach
  <2> QED
    BY <1>5, <1>9, <2>1, <2>4 DEF Import!Attach, Import!others
<1>10. CASE Import!CheckKeys
  <2>1. imp' \in ImportStates /\ imp'.created = imp.created /\ imp'.pc = "finish"
        /\ imp'.todo = imp.todo /\ imp'.tx = imp.tx /\ dayLock = "import" /\ imp.todo = {}
    BY <1>1, <1>2, <1>10 DEF Import!CheckKeys, ImportStates
  <2>2. \A d : Import!Rows(d)' = Import!Rows(d) /\ Import!Collides(d)' = Import!Collides(d)
    BY <1>10 DEF Import!CheckKeys, Import!Rows, Import!Collides
  <2>3. Inserted'
    BY <1>4, <1>10, <2>1, <2>2 DEF Inserted, Import!InTransaction, Import!CheckKeys
  <2> QED
    BY <1>5, <1>10, <2>1, <2>3 DEF Import!CheckKeys, Import!others
<1>11. CASE Import!Release
  <2>1. imp' \in ImportStates /\ imp'.created = imp.created /\ imp'.pc = "idle" /\ imp.created = {}
        /\ imp'.tx = {}
    BY <1>3, <1>11 DEF Import!Release
  <2>2. Inserted'
    BY <2>1 DEF Inserted, Import!InTransaction
  <2> QED
    BY <1>5, <1>11, <2>1, <2>2 DEF Import!Release, Import!others
<1>12. CASE Import!Crash
  <2>1. imp' \in ImportStates /\ imp'.created = {} /\ imp'.pc = "idle" /\ imp'.tx = {}
        /\ deaths' \in 0 .. MaxDeaths /\ deaths' # 0
    BY <1>1, <1>3, <1>12 DEF Import!Crash, ImportTypes, Import!ImportAssumption
  <2>2. Inserted' /\ CreatedDays'
    BY <2>1 DEF Inserted, Import!InTransaction, CreatedDays
  <2> QED
    BY <1>12, <2>1, <2>2, ImportQuiet DEF Import!Crash
<1>13. ASSUME NEW d \in Import!Dbs, Import!Insert(d) PROVE ImportInv'
  <2>1. /\ imp.pc = "insert" /\ d \in imp.todo /\ ~Import!Collides(d) /\ dayLock = "import"
        /\ imp' = [imp EXCEPT !.todo = imp.todo \ {d},
                              !.tx = imp.tx \cup ({d} \X (Capture[d] \ Import!Rows(d)))]
    BY <1>1, <1>13 DEF Import!Insert
  <2>2. imp.tx \cup ({d} \X (Capture[d] \ Import!Rows(d))) \in SUBSET (Import!Dbs \X Import!AllRows)
    BY <1>2, RowsKnown
  <2>3. imp' \in ImportStates /\ imp'.created = imp.created /\ imp'.pc = "insert"
        /\ imp'.todo = imp.todo \ {d}
        /\ imp'.tx = imp.tx \cup ({d} \X (Capture[d] \ Import!Rows(d)))
    BY <1>1, <1>2, <2>1, <2>2 DEF ImportStates
  <2>4. \A e : Import!Rows(e)' = Import!Rows(e) /\ Import!Collides(e)' = Import!Collides(e)
    BY <1>13 DEF Import!Insert, Import!Rows, Import!Collides
  <2>5. /\ \A e \in Captured : file[e] # 0
        /\ \A x \in imp.tx : x[2] \in Capture[x[1]]
        /\ \A e \in Import!Dbs \ imp.todo :
              /\ ~Import!Collides(e)
              /\ \A r \in Capture[e] \ Import!Rows(e) : <<e, r>> \in imp.tx
    BY <1>4, <2>1 DEF Inserted, Import!InTransaction
  <2>6. \A x \in imp'.tx : x[2] \in Capture[x[1]]
    BY <2>3, <2>5
  <2>7. ASSUME NEW e \in Import!Dbs \ imp'.todo
        PROVE  ~Import!Collides(e) /\ \A r \in Capture[e] \ Import!Rows(e) : <<e, r>> \in imp'.tx
    BY <2>1, <2>3, <2>5
  <2>8. Inserted'
    BY <1>13, <2>3, <2>4, <2>5, <2>6, <2>7 DEF Inserted, Import!InTransaction, Import!Insert
  <2> QED
    BY <1>5, <1>13, <2>1, <2>3, <2>8 DEF Import!Insert, Import!others
<1>14. ASSUME NEW d \in Import!Dbs, Import!Prepare(d), d \in Shared \/ file[d] # 0
       PROVE  ImportInv'
  <2>0. imp' = [imp EXCEPT !.todo = imp.todo \ {d}] /\ imp.pc = "prepare" /\ file' = file
    BY <1>14 DEF Import!Prepare
  <2>1. imp' \in ImportStates /\ imp'.created = imp.created /\ imp'.pc = "prepare"
        /\ imp'.todo = imp.todo \ {d} /\ dayLock = "import" /\ imp'.tx = imp.tx
    BY <1>1, <1>2, <2>0 DEF ImportStates
  <2>2. Inserted'
    BY <1>4, <1>14, <2>0, <2>1 DEF Inserted, Import!InTransaction, Import!ImportAssumption
  <2> QED
    BY <1>5, <1>14, <2>0, <2>1, <2>2 DEF Import!Prepare, Import!others
<1>15. CASE UNCHANGED Import!vars
  <2>1. Inserted'
    BY <1>4, <1>15 DEF Inserted, Import!InTransaction, Import!vars, Import!Rows, Import!Collides
  <2> QED
    BY <1>1, <1>4, <1>5, <1>15, <2>1 DEF Import!vars, CreatedDays
<1> QED
  BY <1>6, <1>7, <1>8, <1>9, <1>10, <1>11, <1>12, <1>13, <1>14, <1>15


\* The steps of the import that change a database: a missing day is created, the
\* transaction is committed, a created day is dropped.
LEMMA ImportActs ==
    ASSUME Import!ImportAssumption, ImportInv,
           \/ \E d \in Captured : Import!Prepare(d) /\ file[d] = 0
           \/ Import!Commit
           \/ \E c \in imp.created : Import!Clean(c)
    PROVE  ImportInv'
<1>1. /\ ImportTypes /\ imp \in ImportStates
      /\ dayLock = IF imp.pc \in {"idle", "lock"} THEN "none" ELSE "import"
  BY ImportTyped DEF ImportInv
<1>2. /\ imp.commit \in BOOLEAN /\ imp.created \in SUBSET (Captured \X Import!Files)
      /\ imp.todo \in SUBSET Import!Dbs /\ imp.tx \in SUBSET (Import!Dbs \X Import!AllRows)
      /\ imp.pc \in {"idle", "lock", "prepare", "insert", "finish", "clean"}
  BY <1>1 DEF ImportStates
<1>3. /\ DayFiles /\ CreatedDays /\ Inserted /\ Import!AckedKept /\ Import!AllOrNothing
      /\ Import!OneRowPerKey /\ Import!NoFileBesideArchive
  BY DEF ImportInv
<1>4. /\ Import!Dbs = Shared \cup Captured /\ Shared \cap Captured = {}
      /\ file \in [Captured -> {0} \cup Import!Files]
      /\ dayConn \in [Captured -> {0} \cup Import!Files] /\ dayContent \in Seq(SUBSET Import!AllRows)
  BY <1>1, RowsKnown DEF Import!ImportAssumption, ImportTypes
\* No row moves, and no archive.
<1>5. ASSUME \A d \in Import!Dbs : Import!Rows(d)' = Import!Rows(d),
             UNCHANGED <<dayArchive, acked, imported>>
      PROVE  Import!AckedKept' /\ Import!AllOrNothing' /\ Import!OneRowPerKey'
  <2>1. \A d \in Import!Dbs : Import!Kept(d)' = Import!Kept(d)
    BY <1>5 DEF Import!Kept
  <2>2. acked \subseteq Import!Dbs \X Import!AllRows
    BY <1>1 DEF ImportTypes
  <2>3. \A a \in acked : a[1] \in Import!Dbs
    BY <2>2
  <2> QED
    BY <1>3, <1>5, <2>1, <2>3 DEF Import!AckedKept, Import!AllOrNothing, Import!OneRowPerKey
<1>6. ASSUME NEW d \in Captured, Import!Prepare(d), file[d] = 0 PROVE ImportInv'
  <2>1. /\ imp.pc = "prepare" /\ d \in imp.todo /\ dayArchive[d] = {} /\ d \notin Shared
        /\ dayContent' = Append(dayContent, {}) /\ shared' = shared
        /\ file' = [file EXCEPT ![d] = Len(dayContent')]
        /\ imp' = [imp EXCEPT !.todo = imp.todo \ {d},
                              !.created = imp.created \cup {<<d, Len(dayContent')>>}]
        /\ UNCHANGED <<dayLock, dayArchive, dayConn, deaths, acked, imported>>
    BY <1>4, <1>6 DEF Import!Prepare, Import!Unarchived, Import!others
  <2>2. /\ dayContent' \in Seq(SUBSET Import!AllRows)
        /\ file'[d] = Len(dayContent')
        /\ Import!Files' = Import!Files \cup {Len(dayContent')}
        /\ Len(dayContent') # 0 /\ Len(dayContent') \notin Import!Files
        /\ \A i \in Import!Files : dayContent'[i] = dayContent[i]
        /\ file' \in [Captured -> {0} \cup Import!Files']
        /\ Import!Rows(d)' = {}
        /\ \A e \in Captured \ {d} : file'[e] = file[e]
        /\ \A e \in Import!Dbs \ {d} : Import!Rows(e)' = Import!Rows(e)
    BY <1>1, <2>1, DayCreated
  <2>3. Import!Rows(d) = {} /\ dayConn[d] = 0
    BY <1>3, <1>6, <2>1 DEF Import!Rows, DayFiles
  <2>4. \A e \in Import!Dbs : Import!Rows(e)' = Import!Rows(e)
    BY <2>2, <2>3
  <2>5. <<d, Len(dayContent')>> \in Captured \X Import!Files'
    BY <2>2
  <2>6. /\ imp'.pc = "prepare" /\ imp'.tx = imp.tx /\ imp'.todo = imp.todo \ {d}
        /\ imp'.created = imp.created \cup {<<d, Len(dayContent')>>}
        /\ imp'.commit = imp.commit
        /\ imp' = [pc |-> "prepare", commit |-> imp.commit, created |-> imp'.created,
                   todo |-> imp.todo \ {d}, tx |-> imp.tx]
    BY <1>1, <2>1 DEF ImportStates
  <2>7. imp'.created \in SUBSET (Captured \X Import!Files')
    BY <1>2, <2>2, <2>5, <2>6
  <2>8. imp' \in ImportStates'
    <3>1. imp.todo \ {d} \in SUBSET Import!Dbs
      BY <1>2
    <3> QED
      BY <1>2, <2>6, <2>7, <3>1 DEF ImportStates
  <2>9. ImportTypes'
    <3>1. dayConn \in [Captured -> {0} \cup Import!Files']
      BY <1>4, <2>2
    <3> QED
      BY <1>1, <2>1, <2>2, <3>1 DEF ImportTypes
  <2>10. Import!TypeOK'
    BY <1>1, <2>1, <2>6, <2>8, <2>9 DEF Import!TypeOK, ImportTypes, ImportStates
  <2>11. DayFiles'
    <3>1. \A e \in Captured \ {d} : file'[e] # file'[d]
      BY <1>4, <2>2
    <3> QED
      BY <1>3, <2>1, <2>2, <2>3, <3>1 DEF DayFiles
  <2>12. CreatedDays'
    <3>1. dayContent'[Len(dayContent')] = {}
      BY <2>2, <2>3 DEF Import!Rows, Import!Files, Import!ImportAssumption
    <3>2. ASSUME NEW c \in imp'.created, file'[c[1]] = c[2]
          PROVE  dayContent'[c[2]] = {} /\ dayConn'[c[1]] = 0
      <4>1. CASE c = <<d, Len(dayContent')>>
        BY <2>1, <2>3, <3>1, <4>1
      <4>2. CASE c \in imp.created
        <5>1. c[1] \in Captured /\ c[2] \in Import!Files
          BY <1>2, <4>2
        <5>2. c[1] # d
          BY <2>2, <3>2, <5>1
        <5>3. file[c[1]] = c[2] /\ dayContent'[c[2]] = dayContent[c[2]]
          BY <2>2, <3>2, <5>1, <5>2
        <5> QED
          BY <1>3, <2>1, <4>2, <5>3 DEF CreatedDays
      <4> QED
        BY <2>6, <3>2, <4>1, <4>2
    <3>3. ASSUME deaths' = 0, NEW e \in Captured, file'[e] # 0, Import!Rows(e)' = {}
          PROVE  <<e, file'[e]>> \in imp'.created
      <4>1. CASE e = d
        BY <2>2, <2>6, <4>1
      <4>2. CASE e # d
        <5>1. file'[e] = file[e] /\ Import!Rows(e) = {} /\ deaths = 0
          BY <1>4, <2>1, <2>2, <2>4, <3>3, <4>2
        <5> QED
          BY <1>3, <2>6, <3>3, <5>1 DEF CreatedDays
      <4> QED
        BY <4>1, <4>2
    <3> QED
      BY <2>6, <3>2, <3>3 DEF CreatedDays
  <2>13. Inserted'
    <3>1. \A e \in Captured \ imp'.todo : file'[e] # 0
      BY <1>3, <2>1, <2>2, <2>6 DEF Inserted
    <3>2. imp'.tx = {}
      BY <1>3, <2>1, <2>6 DEF Inserted, Import!InTransaction
    <3> QED
      BY <2>6, <3>1, <3>2 DEF Inserted, Import!InTransaction
  <2>14. Import!NoFileBesideArchive'
    BY <1>3, <2>1, <2>2 DEF Import!NoFileBesideArchive
  <2> QED
    BY <1>5, <2>1, <2>4, <2>10, <2>11, <2>12, <2>13, <2>14 DEF ImportInv
<1>7. CASE Import!Commit
  <2>1. /\ imp.pc = "finish" /\ Import!Write(imp.tx) /\ imported' = TRUE
        /\ imp' = [imp EXCEPT !.pc = "clean", !.tx = {}, !.created = {}]
        /\ UNCHANGED <<file, dayLock, dayArchive, dayConn, deaths, acked>>
    BY <1>7 DEF Import!Commit
  <2>2. /\ \A d \in Captured : file[d] # 0
        /\ \A x \in imp.tx : x[2] \in Capture[x[1]]
        /\ \A d \in Import!Dbs :
              /\ ~Import!Collides(d)
              /\ \A r \in Capture[d] \ Import!Rows(d) : <<d, r>> \in imp.tx
    BY <1>3, <2>1 DEF Inserted, Import!InTransaction
  <2>3. /\ dayContent' \in Seq(SUBSET Import!AllRows) /\ Import!Files' = Import!Files
        /\ shared' \in [Shared -> SUBSET Import!AllRows]
        /\ \A d \in Import!Dbs : Import!Rows(d)' = Import!Committed(d, imp.tx)
    BY <1>1, <1>2, <1>3, <1>4, <2>1, <2>2, RowsCommitted
  <2>4. imp' = [pc |-> "clean", commit |-> imp.commit, created |-> {}, todo |-> imp.todo, tx |-> {}]
    BY <1>1, <2>1 DEF ImportStates
  <2>5. imp' \in ImportStates'
    BY <1>2, <2>3, <2>4 DEF ImportStates
  <2>6. ImportTypes'
    BY <1>1, <2>1, <2>3 DEF ImportTypes
  <2>7. Import!TypeOK'
    BY <1>1, <2>1, <2>4, <2>5, <2>6 DEF Import!TypeOK, ImportTypes, ImportStates
  <2>8. \A d \in Import!Dbs : Import!Rows(d) \subseteq Import!Rows(d)' /\ Capture[d] \subseteq Import!Rows(d)'
    <3>1. ASSUME NEW d \in Import!Dbs, NEW r \in Capture[d] PROVE r \in Import!Rows(d)'
      BY <2>2, <2>3, <3>1, RowsKnown DEF Import!Committed
    <3> QED
      BY <2>3, <3>1 DEF Import!Committed
  <2>9. CreatedDays'
    <3>1. \A d \in Captured : Import!Rows(d)' # {}
      BY <1>4, <2>8 DEF Import!ImportAssumption
    <3> QED
      BY <2>4, <3>1 DEF CreatedDays
  <2>10. Inserted'
    BY <2>4 DEF Inserted, Import!InTransaction
  <2>11. DayFiles' /\ Import!NoFileBesideArchive'
    BY <1>3, <2>1 DEF DayFiles, Import!NoFileBesideArchive
  <2>12. Import!AckedKept'
    <3>1. acked \subseteq Import!Dbs \X Import!AllRows
      BY <1>1 DEF ImportTypes
    <3>2. ASSUME NEW x \in acked PROVE x[2] \in Import!Kept(x[1])'
      <4>1. x[1] \in Import!Dbs /\ x[2] \in Import!Kept(x[1])
        BY <1>3, <3>1, <3>2 DEF Import!AckedKept
      <4> QED
        BY <2>1, <2>8, <4>1 DEF Import!Kept
    <3> QED
      BY <2>1, <3>2 DEF Import!AckedKept
  <2>13. Import!AllOrNothing'
    BY <2>1, <2>8 DEF Import!AllOrNothing, Import!Kept
  <2>14. Import!OneRowPerKey'
    <3>1. ASSUME NEW d \in Import!Dbs, NEW r \in Import!Rows(d)', NEW o \in Import!Rows(d)',
                 r.key = o.key
          PROVE  r = o
      <4>1. (r \in Import!Rows(d) \/ r \in Capture[d]) /\ (o \in Import!Rows(d) \/ o \in Capture[d])
        <5>1. \A x \in Import!Rows(d)' : x \in Import!Rows(d) \/ <<d, x>> \in imp.tx
          BY <2>3 DEF Import!Committed
        <5>2. \A x : <<d, x>> \in imp.tx => x \in Capture[d]
          BY <2>2
        <5> QED
          BY <5>1, <5>2
      <4>2. CASE r \in Capture[d] /\ o \in Capture[d]
        BY <3>1, <4>2 DEF Import!ImportAssumption
      <4>3. CASE r \in Import!Rows(d) /\ o \in Import!Rows(d)
        BY <1>3, <3>1, <4>3 DEF Import!OneRowPerKey
      <4>4. CASE r \in Capture[d] /\ o \in Import!Rows(d)
        BY <2>2, <3>1, <4>4 DEF Import!Collides
      <4>5. CASE r \in Import!Rows(d) /\ o \in Capture[d]
        BY <2>2, <3>1, <4>5 DEF Import!Collides
      <4> QED
        BY <4>1, <4>2, <4>3, <4>4, <4>5
    <3> QED
      BY <3>1 DEF Import!OneRowPerKey, Import!Dbs
  <2> QED
    BY <2>7, <2>9, <2>10, <2>11, <2>12, <2>13, <2>14 DEF ImportInv
<1>8. ASSUME NEW c \in imp.created, Import!Clean(c) PROVE ImportInv'
  <2>1. /\ imp.pc = "clean"
        /\ file' = IF file[c[1]] = c[2] THEN [file EXCEPT ![c[1]] = 0] ELSE file
        /\ imp' = [imp EXCEPT !.created = imp.created \ {c}]
        /\ UNCHANGED <<shared, dayContent, dayLock, dayArchive, dayConn, deaths, acked, imported>>
    BY <1>8 DEF Import!Clean, Import!others, Import!SameFile
  <2>2. c[1] \in Captured /\ c[2] \in Import!Files /\ c = <<c[1], c[2]>> /\ c[1] \notin Shared
    BY <1>2, <1>4, <1>8
  <2>3. /\ file' \in [Captured -> {0} \cup Import!Files]
        /\ \A e \in Captured : file'[e] = file[e] \/ (e = c[1] /\ file[e] = c[2] /\ file'[e] = 0)
        /\ file[c[1]] = c[2] => file'[c[1]] = 0
    BY <1>4, <2>1, <2>2
  <2>4. file[c[1]] = c[2] => dayContent[c[2]] = {} /\ dayConn[c[1]] = 0
    BY <1>3, <1>8 DEF CreatedDays
  <2>5. ASSUME NEW e \in Import!Dbs PROVE Import!Rows(e)' = Import!Rows(e)
    <3>1. CASE e \in Shared
      BY <2>1, <3>1 DEF Import!Rows
    <3>2. CASE e \notin Shared /\ file'[e] = file[e]
      BY <2>1, <3>2 DEF Import!Rows
    <3>3. CASE e \notin Shared /\ file'[e] # file[e]
      BY <1>4, <2>1, <2>3, <2>4, <3>3 DEF Import!Rows
    <3> QED
      BY <3>1, <3>2, <3>3
  <2>6. /\ imp' = [pc |-> "clean", commit |-> imp.commit, created |-> imp.created \ {c},
                   todo |-> imp.todo, tx |-> imp.tx]
        /\ imp'.pc = "clean" /\ imp'.created = imp.created \ {c} /\ imp'.tx = imp.tx
    BY <1>1, <2>1 DEF ImportStates
  <2>7. ImportTypes' /\ imp' \in ImportStates'
    <3>1. Import!Files' = Import!Files
      BY <2>1 DEF Import!Files
    <3>2. imp.created \ {c} \in SUBSET (Captured \X Import!Files)
      BY <1>2
    <3>3. imp' \in ImportStates'
      BY <1>2, <2>6, <3>1, <3>2 DEF ImportStates
    <3> QED
      BY <1>1, <2>1, <2>3, <3>1, <3>3 DEF ImportTypes
  <2>8. Import!TypeOK'
    BY <1>1, <2>1, <2>6, <2>7 DEF Import!TypeOK, ImportTypes, ImportStates
  <2>9. DayFiles'
    BY <1>3, <2>1, <2>2, <2>3, <2>4 DEF DayFiles
  <2>10. CreatedDays'
    <3>1. ASSUME NEW x \in imp'.created, file'[x[1]] = x[2]
          PROVE  dayContent'[x[2]] = {} /\ dayConn'[x[1]] = 0
      <4>1. x \in imp.created /\ x[1] \in Captured /\ x[2] \in Import!Files
        BY <1>2, <2>6, <3>1
      <4>2. x[2] # 0
        BY <1>4, <4>1 DEF Import!Files
      <4>3. file[x[1]] = x[2]
        BY <2>3, <3>1, <4>1, <4>2
      <4> QED
        BY <1>3, <2>1, <4>1, <4>3 DEF CreatedDays
    <3>2. ASSUME deaths' = 0, NEW e \in Captured, file'[e] # 0, Import!Rows(e)' = {}
          PROVE  <<e, file'[e]>> \in imp'.created
      <4>1. file'[e] = file[e] /\ Import!Rows(e) = {} /\ deaths = 0
        BY <1>4, <2>1, <2>3, <2>5, <3>2
      <4>2. <<e, file[e]>> \in imp.created
        BY <1>3, <3>2, <4>1 DEF CreatedDays
      <4>3. <<e, file[e]>> # c
        BY <2>3, <3>2, <4>1
      <4> QED
        BY <2>6, <4>1, <4>2, <4>3
    <3> QED
      BY <2>6, <3>1, <3>2 DEF CreatedDays
  <2>11. Inserted'
    <3>1. imp.tx = {}
      BY <1>3, <2>1 DEF Inserted, Import!InTransaction
    <3> QED
      BY <2>6, <3>1 DEF Inserted, Import!InTransaction
  <2>12. Import!NoFileBesideArchive'
    BY <1>3, <2>1, <2>3 DEF Import!NoFileBesideArchive
  <2> QED
    BY <1>5, <2>1, <2>5, <2>8, <2>9, <2>10, <2>11, <2>12 DEF ImportInv
<1> QED
  BY <1>6, <1>7, <1>8

\* A row that no row of the database has the identity of is written, and acknowledged.
LEMMA RowAdded ==
    ASSUME ImportInv, NEW d \in Import!Dbs, NEW r \in Import!AllRows,
           \A o \in Import!Rows(d) : o.key # r.key,
           Import!Rows(d)' = Import!Rows(d) \cup {r},
           \A e \in Import!Dbs \ {d} : Import!Rows(e)' = Import!Rows(e),
           acked' = acked \cup {<<d, r>>}, UNCHANGED <<dayArchive, imported>>
    PROVE  Import!AckedKept' /\ Import!AllOrNothing' /\ Import!OneRowPerKey'
<1>1. /\ Import!AckedKept /\ Import!AllOrNothing /\ Import!OneRowPerKey
      /\ acked \subseteq Import!Dbs \X Import!AllRows
  BY ImportTyped DEF ImportInv, ImportTypes
<1>2. /\ Import!Kept(d)' = Import!Kept(d) \cup {r}
      /\ \A e \in Import!Dbs \ {d} : Import!Kept(e)' = Import!Kept(e)
  BY DEF Import!Kept
<1>3. Import!AckedKept'
  <2>1. ASSUME NEW x \in acked' PROVE x[2] \in Import!Kept(x[1])'
    <3>1. CASE x = <<d, r>>
      BY <1>2, <3>1
    <3>2. CASE x \in acked
      <4>1. x[1] \in Import!Dbs /\ x[2] \in Import!Kept(x[1])
        BY <1>1, <3>2 DEF Import!AckedKept
      <4> QED
        BY <1>2, <4>1
    <3> QED
      BY <2>1, <3>1, <3>2
  <2> QED
    BY <2>1 DEF Import!AckedKept
<1>4. Import!AllOrNothing'
  <2>1. CASE imported
    <3>1. \A e \in Import!Dbs : Import!Kept(e) \subseteq Import!Kept(e)'
      BY <1>2
    <3> QED
      BY <1>1, <2>1, <3>1 DEF Import!AllOrNothing, Import!Dbs
  <2>2. CASE ~imported
    <3>1. ASSUME NEW e \in Import!Dbs, NEW o \in Capture[e] \cap Import!Kept(e)'
          PROVE  <<e, o>> \in acked'
      BY <1>1, <1>2, <2>2, <3>1 DEF Import!AllOrNothing
    <3> QED
      BY <2>2, <3>1 DEF Import!AllOrNothing, Import!Dbs
  <2> QED
    BY <2>1, <2>2
<1>5. Import!OneRowPerKey'
  <2>1. \A e \in Import!Dbs : \A o, q \in Import!Rows(e)' : o.key = q.key => o = q
    BY <1>1 DEF Import!OneRowPerKey
  <2> QED
    BY <2>1 DEF Import!OneRowPerKey, Import!Dbs
<1> QED
  BY <1>3, <1>4, <1>5

\* The steps of everybody else: a router writes, a day is archived, a day is put back.
LEMMA ImportOthers ==
    ASSUME Import!ImportAssumption, ImportInv,
           \/ \E d \in Import!Dbs : \E r \in LiveRows[d] : Import!RouterWrite(d, r)
           \/ \E d \in Captured : Import!ArchiveDay(d) \/ Import!Restore(d)
    PROVE  ImportInv'
<1>1. /\ ImportTypes /\ imp \in ImportStates
      /\ dayLock = IF imp.pc \in {"idle", "lock"} THEN "none" ELSE "import"
  BY ImportTyped DEF ImportInv
<1>2. /\ imp.commit \in BOOLEAN /\ imp.created \in SUBSET (Captured \X Import!Files)
      /\ imp.todo \in SUBSET Import!Dbs /\ imp.tx \in SUBSET (Import!Dbs \X Import!AllRows)
      /\ imp.pc \in {"idle", "lock", "prepare", "insert", "finish", "clean"}
  BY <1>1 DEF ImportStates
<1>3. /\ DayFiles /\ CreatedDays /\ Inserted /\ Import!AckedKept /\ Import!AllOrNothing
      /\ Import!OneRowPerKey /\ Import!NoFileBesideArchive
  BY DEF ImportInv
<1>4. /\ Import!Dbs = Shared \cup Captured /\ Shared \cap Captured = {}
      /\ file \in [Captured -> {0} \cup Import!Files]
      /\ dayConn \in [Captured -> {0} \cup Import!Files] /\ dayContent \in Seq(SUBSET Import!AllRows)
      /\ acked \subseteq Import!Dbs \X Import!AllRows
      /\ dayArchive \in [Captured -> SUBSET Import!AllRows]
      /\ Import!Files \in SUBSET (Nat \ {0})
  BY <1>1, RowsKnown DEF Import!ImportAssumption, ImportTypes, Import!Files
\* The import stays where it is.
<1>5. ASSUME UNCHANGED <<imp, dayLock>>, ImportTypes', Import!Files \subseteq Import!Files'
      PROVE  Import!TypeOK'
  <2>1. imp' \in ImportStates'
    BY <1>1, <1>2, <1>5 DEF ImportStates
  <2> QED
    BY <1>1, <1>5, <2>1 DEF Import!TypeOK, ImportTypes, ImportStates
\* Outside a transaction, a file of each day stays.
<1>6. ASSUME UNCHANGED imp, ~Import!InTransaction,
             imp.pc = "prepare" => \A e \in Captured : file[e] # 0 => file'[e] # 0
      PROVE  Inserted'
  BY <1>2, <1>3, <1>6 DEF Inserted, Import!InTransaction
<1>7. ASSUME NEW d \in Shared, NEW r \in LiveRows[d], Import!RouterWrite(d, r) PROVE ImportInv'
  <2>1. /\ ~Import!InTransaction /\ \A o \in Import!Rows(d) : o.key # r.key
        /\ shared' = [shared EXCEPT ![d] = shared[d] \cup {r}]
        /\ acked' = acked \cup {<<d, r>>}
        /\ UNCHANGED <<file, dayContent, dayConn, dayArchive, dayLock, imp, deaths, imported>>
    BY <1>4, <1>7 DEF Import!RouterWrite, Import!RouterMayWrite
  <2>2. d \in Import!Dbs /\ r \in Import!AllRows
    BY <1>4, RowsKnown
  <2>3. /\ shared \in [Shared -> SUBSET Import!AllRows]
        /\ shared' \in [Shared -> SUBSET Import!AllRows]
    BY <1>1, <2>1, <2>2 DEF ImportTypes
  <2>4. /\ Import!Rows(d)' = Import!Rows(d) \cup {r}
        /\ \A e \in Import!Dbs \ {d} : Import!Rows(e)' = Import!Rows(e)
        /\ \A e \in Captured : Import!Rows(e)' = Import!Rows(e)
    BY <1>4, <2>1, <2>3 DEF Import!Rows
  <2>5. ImportTypes' /\ Import!Files' = Import!Files
    BY <1>1, <2>1, <2>2, <2>3 DEF ImportTypes, Import!Files
  <2>6. DayFiles' /\ CreatedDays' /\ Import!NoFileBesideArchive'
    BY <1>3, <2>1, <2>4 DEF DayFiles, CreatedDays, Import!NoFileBesideArchive
  <2> QED
    BY <1>5, <1>6, <2>1, <2>2, <2>4, <2>5, <2>6, RowAdded DEF ImportInv
\* A file of a day is created, with one row: neither the days that an import created
\* nor the other files change.
<1>8. ASSUME NEW d \in Captured, NEW r \in Import!AllRows,
             Import!Rows(d) = {}, dayArchive[d] = {},
             dayContent' = Append(dayContent, {r}), file' = [file EXCEPT ![d] = Len(dayContent')],
             dayConn[d] = 0, dayConn' = dayConn \/ dayConn' = [dayConn EXCEPT ![d] = Len(dayContent')],
             ~Import!InTransaction, acked' = acked \cup {<<d, r>>},
             UNCHANGED <<shared, dayArchive, dayLock, imp, deaths, imported>>
      PROVE  ImportInv'
  <2>1. /\ dayContent' \in Seq(SUBSET Import!AllRows)
        /\ file'[d] = Len(dayContent')
        /\ Import!Files' = Import!Files \cup {Len(dayContent')}
        /\ Len(dayContent') # 0 /\ Len(dayContent') \notin Import!Files
        /\ \A i \in Import!Files : dayContent'[i] = dayContent[i]
        /\ file' \in [Captured -> {0} \cup Import!Files']
        /\ Import!Rows(d)' = {r}
        /\ \A e \in Captured \ {d} : file'[e] = file[e]
        /\ \A e \in Import!Dbs \ {d} : Import!Rows(e)' = Import!Rows(e)
    <3>1. {r} \in SUBSET Import!AllRows
      BY <1>8
    <3> QED
      BY <1>1, <1>8, <3>1, DayCreated
  <2>2. /\ dayConn' \in [Captured -> {0} \cup Import!Files']
        /\ \A e \in Captured \ {d} : dayConn'[e] = dayConn[e]
        /\ dayConn'[d] \in {0, Len(dayContent')}
    BY <1>4, <1>8, <2>1
  <2>3. ImportTypes'
    <3>1. acked' \subseteq Import!Dbs \X Import!AllRows
      BY <1>4, <1>8
    <3> QED
      BY <1>1, <1>8, <2>1, <2>2, <3>1 DEF ImportTypes
  <2>4. DayFiles'
    <3>1. \A e \in Captured \ {d} : file'[e] # file'[d]
      BY <1>4, <2>1
    <3> QED
      BY <1>3, <2>1, <2>2, <3>1 DEF DayFiles
  <2>5. CreatedDays'
    <3>1. ASSUME NEW c \in imp.created, file'[c[1]] = c[2]
          PROVE  dayContent'[c[2]] = {} /\ dayConn'[c[1]] = 0
      <4>1. c[1] \in Captured /\ c[2] \in Import!Files /\ c[1] # d
        BY <1>2, <2>1, <3>1
      <4> QED
        BY <1>3, <2>1, <2>2, <3>1, <4>1 DEF CreatedDays
    <3>2. ASSUME deaths = 0, NEW e \in Captured, file'[e] # 0, Import!Rows(e)' = {}
          PROVE  <<e, file'[e]>> \in imp.created
      <4>1. e # d
        BY <2>1, <3>2
      <4>2. file'[e] = file[e] /\ Import!Rows(e) = {}
        BY <1>4, <2>1, <3>2, <4>1
      <4> QED
        BY <1>3, <3>2, <4>2 DEF CreatedDays
    <3> QED
      BY <1>3, <1>8, <3>1, <3>2 DEF CreatedDays
  <2>6. Inserted'
    BY <1>6, <1>8, <2>1
  <2>7. Import!NoFileBesideArchive'
    BY <1>3, <1>8, <2>1 DEF Import!NoFileBesideArchive
  <2>8. Import!AckedKept' /\ Import!AllOrNothing' /\ Import!OneRowPerKey'
    <3>1. d \in Import!Dbs /\ Import!Rows(d)' = Import!Rows(d) \cup {r}
      BY <1>4, <1>8, <2>1
    <3> QED
      BY <1>8, <2>1, <3>1, RowAdded
  <2> QED
    BY <1>5, <1>8, <2>1, <2>3, <2>4, <2>5, <2>6, <2>7, <2>8 DEF ImportInv
\* A row is written to the file that a day has.
<1>9. ASSUME NEW d \in Captured, NEW r \in Import!AllRows, file[d] # 0,
             \A o \in Import!Rows(d) : o.key # r.key, dayLock = "none",
             dayContent' = [dayContent EXCEPT ![file[d]] = @ \cup {r}],
             dayConn' = dayConn \/ dayConn' = [dayConn EXCEPT ![d] = file[d]],
             acked' = acked \cup {<<d, r>>},
             UNCHANGED <<shared, file, dayArchive, dayLock, imp, deaths, imported>>
      PROVE  ImportInv'
  <2>1. /\ dayContent' \in Seq(SUBSET Import!AllRows) /\ Import!Files' = Import!Files
        /\ Import!Rows(d)' = Import!Rows(d) \cup {r}
        /\ \A e \in Import!Dbs \ {d} : Import!Rows(e)' = Import!Rows(e)
    BY <1>1, <1>3, <1>9, DayWritten
  <2>2. imp.pc \in {"idle", "lock"} /\ imp.created = {} /\ ~Import!InTransaction
    BY <1>1, <1>3, <1>9 DEF CreatedDays, Import!InTransaction
  <2>3. ImportTypes'
    <3>1. acked' \subseteq Import!Dbs \X Import!AllRows
      BY <1>4, <1>9
    <3>2. dayConn' \in [Captured -> {0} \cup Import!Files]
      BY <1>4, <1>9
    <3> QED
      BY <1>1, <1>9, <2>1, <3>1, <3>2 DEF ImportTypes
  <2>4. DayFiles'
    BY <1>3, <1>4, <1>9 DEF DayFiles
  <2>5. CreatedDays'
    <3>1. ASSUME deaths = 0, NEW e \in Captured, file[e] # 0, Import!Rows(e)' = {}
          PROVE  <<e, file[e]>> \in imp.created
      <4>1. e # d /\ Import!Rows(e) = {}
        BY <1>4, <2>1, <3>1
      <4> QED
        BY <1>3, <3>1, <4>1 DEF CreatedDays
    <3> QED
      BY <1>9, <2>2, <3>1 DEF CreatedDays
  <2>6. Inserted' /\ Import!NoFileBesideArchive'
    BY <1>3, <1>6, <1>9, <2>2 DEF Import!NoFileBesideArchive
  <2>7. Import!AckedKept' /\ Import!AllOrNothing' /\ Import!OneRowPerKey'
    BY <1>4, <1>9, <2>1, RowAdded
  <2> QED
    BY <1>5, <1>9, <2>1, <2>3, <2>4, <2>5, <2>6, <2>7 DEF ImportInv
<1>10. ASSUME NEW d \in Captured, NEW r \in LiveRows[d], Import!RouterWrite(d, r) PROVE ImportInv'
  <2>1. /\ dayLock = "none" /\ \A o \in Import!Rows(d) : o.key # r.key /\ d \notin Shared
        /\ acked' = acked \cup {<<d, r>>} /\ r \in Import!AllRows
        /\ UNCHANGED <<shared, dayArchive, dayLock, imp, deaths, imported>>
    BY <1>4, <1>10, RowsKnown DEF Import!RouterWrite, Import!RouterMayWrite
  <2>2. CASE /\ dayConn[d] # 0 /\ dayContent' = [dayContent EXCEPT ![dayConn[d]] = @ \cup {r}]
             /\ UNCHANGED <<file, dayConn>>
    <3>1. dayConn[d] = file[d]
      BY <1>3, <2>2 DEF DayFiles
    <3> QED
      BY <1>9, <2>1, <2>2, <3>1
  <2>3. CASE /\ file[d] # 0 /\ dayContent' = [dayContent EXCEPT ![file[d]] = @ \cup {r}]
             /\ dayConn' = [dayConn EXCEPT ![d] = file[d]] /\ file' = file
    BY <1>9, <2>1, <2>3
  <2>4. CASE /\ dayConn[d] = 0 /\ file[d] = 0 /\ dayArchive[d] = {}
             /\ dayContent' = Append(dayContent, {r})
             /\ file' = [file EXCEPT ![d] = Len(dayContent')]
             /\ dayConn' = [dayConn EXCEPT ![d] = Len(dayContent')]
    <3>1. Import!Rows(d) = {} /\ ~Import!InTransaction
      BY <1>1, <1>4, <2>1, <2>4 DEF Import!Rows, Import!InTransaction
    <3> QED
      BY <1>8, <2>1, <2>4, <3>1
  <2>5. \/ /\ dayConn[d] # 0 /\ dayContent' = [dayContent EXCEPT ![dayConn[d]] = @ \cup {r}]
           /\ UNCHANGED <<file, dayConn>>
        \/ /\ file[d] # 0 /\ dayContent' = [dayContent EXCEPT ![file[d]] = @ \cup {r}]
           /\ dayConn' = [dayConn EXCEPT ![d] = file[d]] /\ file' = file
        \/ /\ dayConn[d] = 0 /\ file[d] = 0 /\ dayArchive[d] = {}
           /\ dayContent' = Append(dayContent, {r})
           /\ file' = [file EXCEPT ![d] = Len(dayContent')]
           /\ dayConn' = [dayConn EXCEPT ![d] = Len(dayContent')]
    <3>1. d \notin Shared
      BY <1>4
    <3> QED
      BY <1>10, <3>1 DEF Import!RouterWrite
  <2> QED
    BY <2>2, <2>3, <2>4, <2>5
<1>11. ASSUME NEW d \in Captured, Import!Restore(d) PROVE ImportInv'
  BY <1>8, <1>11, RowsKnown DEF Import!Restore
<1>12. ASSUME NEW d \in Captured, Import!ArchiveDay(d) PROVE ImportInv'
  <2>1. /\ dayLock = "none" /\ file[d] # 0 /\ dayConn[d] = 0 /\ d \notin Shared
        /\ dayArchive' = [dayArchive EXCEPT ![d] = Import!Rows(d)]
        /\ file' = [file EXCEPT ![d] = 0]
        /\ UNCHANGED <<shared, dayContent, dayConn, dayLock, imp, deaths, acked, imported>>
    BY <1>4, <1>12 DEF Import!ArchiveDay
  <2>2. imp.pc \in {"idle", "lock"} /\ imp.created = {} /\ ~Import!InTransaction
    BY <1>1, <1>3, <2>1 DEF CreatedDays, Import!InTransaction
  <2>3. Import!Rows(d) \in SUBSET Import!AllRows /\ dayArchive[d] = {}
    BY <1>1, <1>3, <1>4, <2>1, RowsKnown DEF Import!NoFileBesideArchive
  <2>4. /\ file' \in [Captured -> {0} \cup Import!Files] /\ file'[d] = 0
        /\ \A e \in Captured \ {d} : file'[e] = file[e] /\ dayArchive'[e] = dayArchive[e]
        /\ dayArchive' \in [Captured -> SUBSET Import!AllRows] /\ dayArchive'[d] = Import!Rows(d)
    BY <1>4, <2>1, <2>3
  <2>5. /\ Import!Rows(d)' = {}
        /\ \A e \in Import!Dbs \ {d} : Import!Rows(e)' = Import!Rows(e)
    BY <1>4, <2>1, <2>4 DEF Import!Rows
  <2>6. \A e \in Import!Dbs : Import!Kept(e)' = Import!Kept(e)
    <3>1. Import!Kept(d)' = Import!Rows(d) /\ Import!Kept(d) = Import!Rows(d)
      BY <2>3, <2>4, <2>5 DEF Import!Kept
    <3>2. ASSUME NEW e \in Import!Dbs \ {d} PROVE Import!Kept(e)' = Import!Kept(e)
      BY <2>4, <2>5 DEF Import!Kept
    <3> QED
      BY <3>1, <3>2
  <2>7. ImportTypes' /\ Import!Files' = Import!Files
    BY <1>1, <2>1, <2>4 DEF ImportTypes, Import!Files
  <2>8. DayFiles' /\ CreatedDays'
    <3>1. DayFiles'
      BY <1>3, <2>1, <2>4 DEF DayFiles
    <3>2. ASSUME deaths = 0, NEW e \in Captured, file'[e] # 0, Import!Rows(e)' = {}
          PROVE  <<e, file'[e]>> \in imp.created
      BY <1>3, <1>4, <2>4, <2>5, <3>2 DEF CreatedDays
    <3> QED
      BY <2>1, <2>2, <3>1, <3>2 DEF CreatedDays
  <2>9. Inserted' /\ Import!NoFileBesideArchive'
    BY <1>3, <1>6, <2>1, <2>2, <2>4 DEF Import!NoFileBesideArchive
  <2>10. Import!AckedKept' /\ Import!AllOrNothing' /\ Import!OneRowPerKey'
    <3>1. \A x \in acked : x[1] \in Import!Dbs
      BY <1>4
    <3>2. Import!AckedKept' /\ Import!AllOrNothing'
      BY <1>3, <2>1, <2>6, <3>1 DEF Import!AckedKept, Import!AllOrNothing
    <3>3. \A e \in Import!Dbs : Import!Rows(e)' \subseteq Import!Rows(e)
      BY <2>5
    <3>4. Import!OneRowPerKey'
      BY <1>3, <3>3 DEF Import!OneRowPerKey, Import!Dbs
    <3> QED
      BY <3>2, <3>4
  <2> QED
    BY <1>5, <2>1, <2>7, <2>8, <2>9, <2>10 DEF ImportInv
<1> QED
  BY <1>4, <1>7, <1>10, <1>11, <1>12

\* Every step of the import, and of the others, keeps the invariant.
LEMMA ImportNext ==
    Import!ImportAssumption /\ ImportInv /\ [Import!Next]_(Import!vars) => ImportInv'
<1> SUFFICES ASSUME Import!ImportAssumption, ImportInv, [Import!Next]_(Import!vars) PROVE ImportInv'
  OBVIOUS
<1>1. ASSUME NEW d \in Import!Dbs, Import!Prepare(d) PROVE ImportInv'
  <2>1. d \in Captured \/ d \in Shared
    BY RowsKnown
  <2>2. CASE d \in Shared \/ file[d] # 0
    BY <1>1, <2>2, ImportThinks
  <2>3. CASE d \in Captured /\ file[d] = 0
    BY <1>1, <2>3, ImportActs
  <2> QED
    BY <2>1, <2>2, <2>3
<1>2. \/ UNCHANGED Import!vars
      \/ \E commit \in BOOLEAN : Import!Load(commit)
      \/ Import!Acquire \/ Import!Abort \/ Import!Rollback \/ Import!Attach
      \/ Import!CheckKeys \/ Import!Release \/ Import!Crash
      \/ \E d \in Import!Dbs : Import!Insert(d)
      \/ \E d \in Import!Dbs : Import!Prepare(d)
      \/ Import!Commit
      \/ \E c \in imp.created : Import!Clean(c)
      \/ \E d \in Import!Dbs : \E r \in LiveRows[d] : Import!RouterWrite(d, r)
      \/ \E d \in Captured : Import!ArchiveDay(d) \/ Import!Restore(d)
  BY Zenon DEF Import!Next
<1> QED
  BY <1>1, <1>2, ImportThinks, ImportActs, ImportOthers

\* The invariant gives what is promised of an import.
LEMMA ImportProperties ==
    ImportInv =>
        /\ Import!TypeOK /\ Import!AckedKept /\ Import!AllOrNothing /\ Import!OneRowPerKey
        /\ Import!NoEmptyDay /\ Import!NoFileBesideArchive
BY DEF ImportInv, CreatedDays, Import!NoEmptyDay

-----------------------------------------------------------------------------
(* The usage rows (UsageRecorder). *)

\* A record is done with its figures as soon as it has them, and nothing is heard that
\* was not emitted.
Plain(r) ==
    /\ heard[r] \subseteq heardOf[r]
    /\ rowPending[r] # None => (rowPending[r].seen <=> rowPending[r].figures # 0)

\* Before an attempt has a row, its record has all that was heard of it, and is not ready.
Gathered(r) ==
    IF rowPending[r] = None
    THEN heard[r] \cap (Usage!Filling \cup {"Usage", "Completed"}) = {} /\ latest[r] = 0
    ELSE LET p == rowPending[r] IN
         /\ heard[r] \cap Usage!Filling \subseteq p.from /\ p.figures = latest[r]
         /\ "Started" \in heard[r] => p.ts = "Started"
         /\ p.model => "Extract" \in heard[r]
         /\ p.completed <=> "Completed" \in heard[r]
         /\ ~Usage!Ready(p)

\* The row of an attempt, and the record that waits beside it for figures.
Written(r) ==
    /\ {"Extract", "Completed"} \subseteq heard[r]
    /\ heard[r] \cap (Usage!Filling \ Usage!Records) \subseteq rows[r].from
    /\ "Started" \in heard[r] => rows[r].ts = "Started"
    /\ r \notin lateUsage => rows[r].figures = latest[r]
    /\ rows[r].figures # 0 <=> (rowPending[r] = None \/ ~rowPending[r].completed)
    /\ rowPending[r] # None /\ rowPending[r].completed =>
          /\ heard[r] \cap (Usage!Filling \ Usage!Records) \subseteq rowPending[r].from
          /\ "Started" \in heard[r] => rowPending[r].ts = "Started"
          /\ rowPending[r].model /\ rowPending[r].figures = 0 /\ latest[r] = 0

AttemptInv(r) ==
    r \notin unwritten => Plain(r) /\ (IF rows[r] = None THEN Gathered(r) ELSE Written(r))

UsageInv == Usage!TypeOK /\ \A r \in Attempts : AttemptInv(r)

UsageTypes ==
    /\ heardOf \in [Attempts -> SUBSET Emitted] /\ usages \in [Attempts -> 0 .. MaxUsage]
    /\ rowPending \in [Attempts -> {None} \cup Usage!Pending]
    /\ rows \in [Attempts -> {None} \cup Usage!Row]
    /\ heard \in [Attempts -> SUBSET Emitted] /\ latest \in [Attempts -> 0 .. MaxUsage]
    /\ lateUsage \in SUBSET Attempts /\ unwritten \in SUBSET Attempts

LEMMA UsageTyped == Usage!TypeOK <=> UsageTypes
BY DEF Usage!TypeOK, UsageTypes

LEMMA UsageInit == Usage!NoneAssumption /\ Usage!KindsAssumption /\ Usage!Init => UsageInv
<1> SUFFICES ASSUME Usage!NoneAssumption, Usage!KindsAssumption, Usage!Init PROVE UsageInv
  OBVIOUS
<1>1. UsageTypes
  BY DEF UsageTypes, Usage!Init, Usage!KindsAssumption
<1>2. ASSUME NEW r \in Attempts PROVE AttemptInv(r)
  BY <1>2 DEF Usage!Init, AttemptInv, Plain, Gathered
<1> QED
  BY <1>1, <1>2, UsageTyped DEF UsageInv

\* An attempt whose state stays keeps its invariant.
LEMMA AttemptQuiet ==
    ASSUME NEW r, AttemptInv(r),
           rowPending'[r] = rowPending[r], rows'[r] = rows[r], heard'[r] = heard[r],
           heardOf[r] \subseteq heardOf'[r], latest'[r] = latest[r],
           r \in lateUsage <=> r \in lateUsage', r \in unwritten <=> r \in unwritten'
    PROVE  AttemptInv(r)'
BY DEF AttemptInv, Plain, Gathered, Written

\* An attempt emits: the others emit nothing, and the order is that of the pipeline.
LEMMA UsageEmits ==
    ASSUME UsageTypes, Usage!KindsAssumption,
           NEW r \in Attempts, NEW k \in Emitted, Usage!Emit(r, k)
    PROVE  /\ heardOf' \in [Attempts -> SUBSET Emitted] /\ usages' \in [Attempts -> 0 .. MaxUsage]
           /\ heardOf'[r] = heardOf[r] \cup {k}
           /\ \A q \in Attempts \ {r} : heardOf'[q] = heardOf[q]
           /\ k = "Started" <=> heardOf[r] = {}
           /\ k # "Usage" => k \notin heardOf[r]
           /\ k = "Usage" => usages[r] + 1 \in 1 .. MaxUsage
           /\ "Completed" \in heardOf[r] => k \in Usage!Records
<1>1. Usage!MayEmit(r, k) /\ heardOf' = [heardOf EXCEPT ![r] = @ \cup {k}]
  BY DEF Usage!Emit
<1>2. usages \in [Attempts -> 0 .. MaxUsage] /\ MaxUsage \in Nat
  BY DEF UsageTypes, Usage!KindsAssumption
<1>3. usages' \in [Attempts -> 0 .. MaxUsage]
  <2>1. CASE k = "Usage"
    BY <1>1, <1>2, <2>1 DEF Usage!Emit, Usage!MayEmit
  <2>2. CASE k # "Usage"
    BY <1>2, <2>2 DEF Usage!Emit
  <2> QED
    BY <2>1, <2>2
<1>4. /\ k = "Usage" => usages[r] + 1 \in 1 .. MaxUsage
      /\ k # "Usage" => k \notin heardOf[r]
      /\ k = "Started" <=> heardOf[r] = {}
      /\ "Completed" \in heardOf[r] => k \in Usage!Records
  <2>1. k = "Usage" => usages[r] \in 0 .. MaxUsage /\ usages[r] < MaxUsage
    BY <1>1, <1>2 DEF Usage!MayEmit
  <2> QED
    BY <1>1, <1>2, <2>1 DEF Usage!MayEmit
<1>5. heardOf \in [Attempts -> SUBSET Emitted]
  BY DEF UsageTypes
<1>6. /\ heardOf' \in [Attempts -> SUBSET Emitted] /\ heardOf'[r] = heardOf[r] \cup {k}
      /\ \A q \in Attempts \ {r} : heardOf'[q] = heardOf[q]
  BY <1>1, <1>5
<1> QED
  BY <1>3, <1>4, <1>6

LEMMA UsageHears ==
    ASSUME UsageTypes, Usage!KindsAssumption,
           NEW r \in Attempts, NEW k \in Emitted, Usage!Hear(r, k)
    PROVE  /\ heard' \in [Attempts -> SUBSET Emitted]
           /\ heard'[r] = heard[r] \cup {k}
           /\ \A q \in Attempts \ {r} : heard'[q] = heard[q]
           /\ Usage!Emit(r, k)
BY DEF Usage!Hear, UsageTypes

\* The record an event finds or creates.
LEMMA UsageRecordOf ==
    ASSUME UsageTypes, Usage!KindsAssumption, NEW r \in Attempts, NEW k \in Usage!AllKinds
    PROVE  /\ Usage!EnsurePending(r, k) \in Usage!Pending
           /\ rowPending[r] # None => Usage!EnsurePending(r, k) = rowPending[r]
           /\ rowPending[r] = None =>
                /\ Usage!EnsurePending(r, k).ts = Usage!TsOf(k)
                /\ Usage!EnsurePending(r, k).from = {} /\ ~Usage!EnsurePending(r, k).model
                /\ Usage!EnsurePending(r, k).figures = 0 /\ ~Usage!EnsurePending(r, k).seen
                /\ ~Usage!EnsurePending(r, k).completed
<1>1. CASE rowPending[r] # None
  BY <1>1 DEF Usage!EnsurePending, UsageTypes
<1>2. CASE rowPending[r] = None
  <2>1. Usage!EnsurePending(r, k) = [ts |-> Usage!TsOf(k), from |-> {}, model |-> FALSE,
                                     figures |-> 0, seen |-> FALSE, completed |-> FALSE]
    BY <1>2 DEF Usage!EnsurePending
  <2>2. Usage!TsOf(k) \in {"zero"} \cup Usage!AllKinds
    BY DEF Usage!TsOf, Usage!AllKinds
  <2>3. 0 \in 0 .. MaxUsage
    BY DEF Usage!KindsAssumption
  <2> QED
    BY <1>2, <2>1, <2>2, <2>3 DEF Usage!Pending
<1> QED
  BY <1>1, <1>2

\* A record is kept, and its row written when it is ready; a write may fail.
LEMMA UsagePersists ==
    ASSUME UsageTypes, NEW r \in Attempts, NEW p \in Usage!Pending, Usage!PersistIfReady(r, p)
    PROVE  /\ rowPending' \in [Attempts -> {None} \cup Usage!Pending]
           /\ rows' \in [Attempts -> {None} \cup Usage!Row]
           /\ unwritten' \in SUBSET Attempts /\ unwritten \subseteq unwritten'
           /\ \A q \in Attempts \ {r} :
                /\ rowPending'[q] = rowPending[q] /\ rows'[q] = rows[q]
                /\ q \in unwritten' <=> q \in unwritten
           /\ r \notin unwritten' =>
                IF Usage!Ready(p)
                THEN /\ rows'[r] = [ts |-> p.ts, from |-> p.from, figures |-> p.figures]
                     /\ rowPending'[r] = IF Usage!Finished(p) THEN None ELSE p
                ELSE rows'[r] = rows[r] /\ rowPending'[r] = p
<1>1. /\ rowPending \in [Attempts -> {None} \cup Usage!Pending]
      /\ rows \in [Attempts -> {None} \cup Usage!Row] /\ unwritten \in SUBSET Attempts
  BY DEF UsageTypes
<1>2. [ts |-> p.ts, from |-> p.from, figures |-> p.figures] \in Usage!Row
  BY DEF Usage!Pending, Usage!Row
<1>3. CASE /\ Usage!Ready(p)
           /\ rows' = [rows EXCEPT ![r] = [ts |-> p.ts, from |-> p.from, figures |-> p.figures]]
           /\ rowPending' = [rowPending EXCEPT ![r] = IF Usage!Finished(p) THEN None ELSE p]
           /\ UNCHANGED unwritten
  BY <1>1, <1>2, <1>3
<1>4. CASE /\ unwritten' = unwritten \cup {r} /\ UNCHANGED rows
           /\ rowPending' = [rowPending EXCEPT ![r] = p]
  BY <1>1, <1>4
<1>5. CASE /\ ~Usage!Ready(p) /\ rowPending' = [rowPending EXCEPT ![r] = p]
           /\ UNCHANGED <<rows, unwritten>>
  BY <1>1, <1>5
<1> QED
  BY <1>3, <1>4, <1>5 DEF Usage!PersistIfReady

\* The handler does nothing with an event, or does not hear it.
LEMMA UsageQuiet ==
    ASSUME UsageInv, Usage!KindsAssumption, NEW r \in Attempts, NEW k \in Emitted,
           Usage!Lose(r, k) \/ Usage!Ignore(r, k)
    PROVE  UsageInv'
<1>1. UsageTypes /\ \A q \in Attempts : AttemptInv(q)
  BY UsageTyped DEF UsageInv
<1>2. Usage!Emit(r, k) /\ UNCHANGED <<rowPending, rows, latest, lateUsage, unwritten>>
  BY DEF Usage!Lose, Usage!Ignore, Usage!Hear
<1>3. /\ heardOf' \in [Attempts -> SUBSET Emitted] /\ usages' \in [Attempts -> 0 .. MaxUsage]
      /\ \A q \in Attempts : heardOf[q] \subseteq heardOf'[q]
      /\ heardOf'[r] = heardOf[r] \cup {k}
  BY <1>1, <1>2, UsageEmits
<1>4. CASE heard' = heard
  <2>1. UsageTypes'
    BY <1>1, <1>2, <1>3, <1>4 DEF UsageTypes
  <2>2. ASSUME NEW q \in Attempts PROVE AttemptInv(q)'
    BY <1>1, <1>2, <1>3, <1>4, <2>2, AttemptQuiet
  <2> QED
    BY <2>1, <2>2, UsageTyped DEF UsageInv, Usage!TypeOK, UsageTypes
<1>5. CASE Usage!Ignore(r, k)
  <2>1. /\ heard' \in [Attempts -> SUBSET Emitted] /\ heard'[r] = heard[r] \cup {k}
        /\ \A q \in Attempts \ {r} : heard'[q] = heard[q]
    BY <1>1, <1>5, UsageHears DEF Usage!Ignore
  <2>2. k \notin Usage!Filling \cup Usage!Records \cup {"Usage", "Completed", "Started", "Extract"}
        \/ k \in {"UpstreamBody", "ConvertedBody"}
    BY <1>5 DEF Usage!Ignore, Usage!Ignored, Usage!Filling, Usage!Records
  <2>3. k \notin Usage!Filling \cup {"Usage", "Completed", "Started", "Extract"}
    BY <1>5 DEF Usage!Ignore, Usage!Ignored, Usage!Filling
  <2>4. UsageTypes'
    BY <1>1, <1>2, <1>3, <2>1 DEF UsageTypes
  <2>5. AttemptInv(r)'
    <3>1. AttemptInv(r)
      BY <1>1
    <3>2. /\ heard'[r] \cap Usage!Filling = heard[r] \cap Usage!Filling
          /\ heard'[r] \cap (Usage!Filling \ Usage!Records) = heard[r] \cap (Usage!Filling \ Usage!Records)
          /\ heard'[r] \cap (Usage!Filling \cup {"Usage", "Completed"})
             = heard[r] \cap (Usage!Filling \cup {"Usage", "Completed"})
          /\ \A x \in {"Usage", "Completed", "Started", "Extract"} : x \in heard'[r] <=> x \in heard[r]
      BY <2>1, <2>3
    <3>3. Plain(r) => Plain(r)'
      BY <1>2, <1>3, <2>1 DEF Plain
    <3>4. Gathered(r) => Gathered(r)'
      BY <1>2, <3>2 DEF Gathered
    <3>5. Written(r) => Written(r)'
      BY <1>2, <3>2 DEF Written
    <3> QED
      BY <1>2, <3>1, <3>3, <3>4, <3>5 DEF AttemptInv
  <2>6. ASSUME NEW q \in Attempts \ {r} PROVE AttemptInv(q)'
    BY <1>1, <1>2, <1>3, <2>1, <2>6, AttemptQuiet
  <2> QED
    BY <2>4, <2>5, <2>6 DEF UsageInv, Usage!TypeOK, UsageTypes
<1> QED
  BY <1>4, <1>5 DEF Usage!Lose

\* An event fills columns of the record.
LEMMA UsageFills ==
    ASSUME UsageInv, Usage!KindsAssumption, Usage!NoneAssumption,
           NEW r \in Attempts, NEW k \in Emitted, Usage!Fill(r, k)
    PROVE  UsageInv'
<1>1. UsageTypes /\ \A q \in Attempts : AttemptInv(q)
  BY UsageTyped DEF UsageInv
<1>2. k \in Usage!Filling /\ Usage!Hear(r, k) /\ k \in Usage!AllKinds
      /\ UNCHANGED <<rows, latest, lateUsage, unwritten>>
  BY DEF Usage!Fill, Usage!AllKinds
<1>3. PICK known \in (IF k = "Extract" THEN BOOLEAN ELSE {Usage!EnsurePending(r, k).model}) :
         rowPending' = [rowPending EXCEPT ![r] =
           [Usage!EnsurePending(r, k) EXCEPT
             !.from = @ \cup {k}, !.model = known,
             !.ts = IF k = "Started" THEN "Started" ELSE @]]
  BY DEF Usage!Fill
<1> DEFINE e == Usage!EnsurePending(r, k)
           p == [e EXCEPT !.from = @ \cup {k}, !.model = known,
                          !.ts = IF k = "Started" THEN "Started" ELSE @]
<1>4. e \in Usage!Pending
  BY <1>1, <1>2, UsageRecordOf
<1>5. /\ heard' \in [Attempts -> SUBSET Emitted] /\ heard'[r] = heard[r] \cup {k}
      /\ \A q \in Attempts \ {r} : heard'[q] = heard[q]
      /\ heardOf' \in [Attempts -> SUBSET Emitted] /\ usages' \in [Attempts -> 0 .. MaxUsage]
      /\ heardOf'[r] = heardOf[r] \cup {k}
      /\ \A q \in Attempts \ {r} : heardOf'[q] = heardOf[q]
      /\ k = "Started" <=> heardOf[r] = {}
      /\ "Completed" \in heardOf[r] => k \in Usage!Records
  BY <1>1, <1>2, UsageEmits, UsageHears
<1> HIDE DEF e
<1>6. /\ p \in Usage!Pending /\ p # None
      /\ p.from = e.from \cup {k} /\ p.model = known /\ p.figures = e.figures
      /\ p.seen = e.seen /\ p.completed = e.completed
      /\ p.ts = IF k = "Started" THEN "Started" ELSE e.ts
  <2>1. known \in BOOLEAN
    BY <1>4 DEF Usage!Pending, e
  <2>2. /\ p.from = e.from \cup {k} /\ p.model = known /\ p.figures = e.figures
        /\ p.seen = e.seen /\ p.completed = e.completed
        /\ p.ts = IF k = "Started" THEN "Started" ELSE e.ts
    BY <1>4 DEF Usage!Pending
  <2>3. p \in Usage!Pending
    <3>1. /\ p.ts \in {"zero"} \cup Usage!AllKinds /\ p.from \in SUBSET Usage!Filling
          /\ p.figures \in 0 .. MaxUsage
      BY <1>2, <1>4, <2>2 DEF Usage!Pending, Usage!AllKinds
    <3> QED
      BY <1>4, <2>1, <2>2, <3>1 DEF Usage!Pending
  <2> QED
    BY <2>2, <2>3 DEF Usage!NoneAssumption
<1> HIDE DEF p
<1>7. rowPending' = [rowPending EXCEPT ![r] = p]
  BY <1>3 DEF p, e
<1>8. /\ rowPending' \in [Attempts -> {None} \cup Usage!Pending] /\ rowPending'[r] = p
      /\ \A q \in Attempts \ {r} : rowPending'[q] = rowPending[q]
  BY <1>1, <1>6, <1>7 DEF UsageTypes
<1>9. UsageTypes'
  BY <1>1, <1>2, <1>5, <1>8 DEF UsageTypes
<1>10. ASSUME NEW q \in Attempts \ {r} PROVE AttemptInv(q)'
  BY <1>1, <1>2, <1>5, <1>8, <1>10, AttemptQuiet
<1>11. ASSUME r \notin unwritten PROVE AttemptInv(r)'
  <2>1. /\ Plain(r) /\ IF rows[r] = None THEN Gathered(r) ELSE Written(r)
        /\ heard[r] \subseteq heardOf[r]
    BY <1>1, <1>11 DEF AttemptInv, Plain
  <2>2. /\ rowPending[r] # None => e = rowPending[r]
        /\ rowPending[r] = None =>
             /\ e.from = {} /\ ~e.model /\ e.figures = 0 /\ ~e.seen /\ ~e.completed
    BY <1>1, <1>2, UsageRecordOf DEF e
  <2>3. Plain(r)'
    BY <1>5, <1>6, <1>8, <2>1, <2>2 DEF Plain
  <2>4. k \notin {"Completed", "Usage"}
    BY <1>2 DEF Usage!Filling
  <2>5. ASSUME rows[r] = None PROVE Gathered(r)'
    <3>1. Gathered(r)
      BY <2>1, <2>5
    <3>2. heard[r] \cap Usage!Filling \subseteq e.from /\ e.figures = latest[r]
      BY <2>2, <3>1 DEF Gathered
    <3>3. e.completed <=> "Completed" \in heard[r]
      BY <2>2, <3>1 DEF Gathered
    <3>4. "Started" \in heard'[r] => p.ts = "Started"
      <4>1. k # "Started" /\ "Started" \in heard[r] => e.ts = "Started"
        BY <2>2, <3>1 DEF Gathered, Usage!Filling
      <4> QED
        BY <1>5, <1>6, <4>1
    <3>5. k = "Extract" => "Completed" \notin heard[r]
      BY <1>5, <2>1 DEF Usage!Records
    <3>6. k # "Extract" => known = e.model
      BY DEF e
    <3>7. e.model => "Extract" \in heard[r]
      BY <2>2, <3>1 DEF Gathered
    <3>8. ~(e.completed /\ e.model)
      BY <2>2, <3>1 DEF Gathered, Usage!Ready
    <3>9. p.model => "Extract" \in heard'[r]
      BY <1>5, <1>6, <3>6, <3>7
    <3>10. ~Usage!Ready(p)
      BY <1>6, <3>3, <3>5, <3>6, <3>8 DEF Usage!Ready
    <3>11. heard'[r] \cap Usage!Filling \subseteq p.from /\ p.figures = latest'[r]
      BY <1>2, <1>5, <1>6, <3>2
    <3>12. p.completed <=> "Completed" \in heard'[r]
      BY <1>5, <1>6, <2>4, <3>3
    <3> QED
      BY <1>6, <1>8, <3>4, <3>9, <3>10, <3>11, <3>12 DEF Gathered
  <2>6. ASSUME rows[r] # None PROVE Written(r)'
    <3>1. Written(r)
      BY <2>1, <2>6
    <3>2. "Completed" \in heardOf[r] /\ k \in Usage!Records
      BY <1>5, <2>1, <3>1 DEF Written
    <3>3. k # "Started" /\ k # "Extract"
      BY <3>2 DEF Usage!Records
    <3>4. /\ heard'[r] \cap (Usage!Filling \ Usage!Records) = heard[r] \cap (Usage!Filling \ Usage!Records)
          /\ "Started" \in heard'[r] <=> "Started" \in heard[r]
          /\ {"Extract", "Completed"} \subseteq heard'[r]
      BY <1>5, <3>1, <3>2, <3>3 DEF Written
    <3>5. known = e.model
      BY <3>3 DEF e
    <3>6. p.completed <=> rowPending[r] # None /\ rowPending[r].completed
      BY <1>6, <2>2
    <3>7. rows[r].figures # 0 <=> (rowPending'[r] = None \/ ~rowPending'[r].completed)
      BY <1>6, <1>8, <3>1, <3>6 DEF Written
    <3>8. ASSUME rowPending'[r].completed
          PROVE  /\ heard'[r] \cap (Usage!Filling \ Usage!Records) \subseteq rowPending'[r].from
                 /\ "Started" \in heard'[r] => rowPending'[r].ts = "Started"
                 /\ rowPending'[r].model /\ rowPending'[r].figures = 0 /\ latest'[r] = 0
      <4>1. rowPending[r] # None /\ rowPending[r].completed /\ e = rowPending[r]
        BY <1>8, <2>2, <3>6, <3>8
      <4>2. /\ heard[r] \cap (Usage!Filling \ Usage!Records) \subseteq e.from
            /\ "Started" \in heard[r] => e.ts = "Started"
            /\ e.model /\ e.figures = 0 /\ latest[r] = 0
        BY <3>1, <4>1 DEF Written
      <4> QED
        BY <1>2, <1>6, <1>8, <3>3, <3>4, <3>5, <4>2
    <3> QED
      BY <1>2, <3>1, <3>4, <3>7, <3>8 DEF Written
  <2> QED
    BY <1>2, <2>3, <2>5, <2>6 DEF AttemptInv
<1>12. AttemptInv(r)'
  BY <1>2, <1>11 DEF AttemptInv
<1> QED
  BY <1>9, <1>10, <1>12 DEF UsageInv, Usage!TypeOK, UsageTypes

\* An attempt completes.
LEMMA UsageCompletes ==
    ASSUME UsageInv, Usage!KindsAssumption, Usage!NoneAssumption,
           NEW r \in Attempts, Usage!OnCompleted(r)
    PROVE  UsageInv'
<1>1. UsageTypes /\ \A q \in Attempts : AttemptInv(q)
  BY UsageTyped DEF UsageInv
<1> DEFINE k == "Completed"
           e == Usage!EnsurePending(r, k)
           p == [e EXCEPT !.completed = TRUE]
<1>2. /\ k \in Usage!AllKinds /\ k \in Emitted /\ Usage!Hear(r, k) /\ Usage!PersistIfReady(r, p)
      /\ UNCHANGED <<latest, lateUsage>>
  BY DEF Usage!OnCompleted, Usage!AllKinds, Usage!KindsAssumption
<1>3. /\ heard' \in [Attempts -> SUBSET Emitted] /\ heard'[r] = heard[r] \cup {"Completed"}
      /\ \A q \in Attempts \ {r} : heard'[q] = heard[q]
      /\ heardOf' \in [Attempts -> SUBSET Emitted] /\ usages' \in [Attempts -> 0 .. MaxUsage]
      /\ heardOf'[r] = heardOf[r] \cup {"Completed"} /\ "Completed" \notin heardOf[r]
      /\ \A q \in Attempts \ {r} : heardOf'[q] = heardOf[q]
  BY <1>1, <1>2, UsageEmits, UsageHears
<1>4. /\ e \in Usage!Pending
      /\ rowPending[r] # None => e = rowPending[r]
      /\ rowPending[r] = None =>
           /\ e.from = {} /\ ~e.model /\ e.figures = 0 /\ ~e.seen /\ ~e.completed
  BY <1>1, <1>2, UsageRecordOf
<1> HIDE DEF e
<1>5. /\ p \in Usage!Pending /\ p # None /\ p.completed /\ p.ts = e.ts
      /\ p.from = e.from /\ p.model = e.model /\ p.figures = e.figures /\ p.seen = e.seen
  BY <1>4 DEF Usage!Pending, Usage!NoneAssumption
<1> HIDE DEF p, k
<1>6. /\ rowPending' \in [Attempts -> {None} \cup Usage!Pending]
      /\ rows' \in [Attempts -> {None} \cup Usage!Row]
      /\ unwritten' \in SUBSET Attempts /\ unwritten \subseteq unwritten'
      /\ \A q \in Attempts \ {r} :
           /\ rowPending'[q] = rowPending[q] /\ rows'[q] = rows[q]
           /\ q \in unwritten' <=> q \in unwritten
      /\ r \notin unwritten' =>
           IF Usage!Ready(p)
           THEN /\ rows'[r] = [ts |-> p.ts, from |-> p.from, figures |-> p.figures]
                /\ rowPending'[r] = IF Usage!Finished(p) THEN None ELSE p
           ELSE rows'[r] = rows[r] /\ rowPending'[r] = p
  BY <1>1, <1>2, <1>5, UsagePersists
<1>7. UsageTypes'
  BY <1>1, <1>2, <1>3, <1>6 DEF UsageTypes
<1>8. ASSUME NEW q \in Attempts \ {r} PROVE AttemptInv(q)'
  BY <1>1, <1>2, <1>3, <1>6, <1>8, AttemptQuiet
<1>9. ASSUME r \notin unwritten' PROVE AttemptInv(r)'
  <2>1. Plain(r) /\ rows[r] = None /\ Gathered(r) /\ "Completed" \notin heard[r]
    BY <1>1, <1>3, <1>6, <1>9 DEF AttemptInv, Plain, Written
  <2>2. /\ heard[r] \cap Usage!Filling \subseteq e.from /\ e.figures = latest[r]
        /\ "Started" \in heard[r] => e.ts = "Started"
        /\ e.model => "Extract" \in heard[r]
        /\ e.seen <=> e.figures # 0
    BY <1>4, <2>1 DEF Gathered, Plain, Usage!Filling
  <2>3. heard[r] \cup {"Completed"} \subseteq heardOf[r] \cup {"Completed"}
    BY <2>1 DEF Plain
  <2>4. Plain(r)'
    BY <1>3, <1>5, <1>6, <1>9, <2>2, <2>3, <2>1 DEF Plain
  <2>5. heard'[r] \cap Usage!Filling = heard[r] \cap Usage!Filling
    BY <1>3 DEF Usage!Filling
  <2>6. CASE Usage!Ready(p)
    <3>1. /\ rows'[r] = [ts |-> p.ts, from |-> p.from, figures |-> p.figures]
          /\ rowPending'[r] = IF p.seen THEN None ELSE p
      BY <1>5, <1>6, <1>9, <2>6 DEF Usage!Finished
    <3>2. rows'[r].ts = e.ts /\ rows'[r].from = e.from /\ rows'[r].figures = e.figures
      BY <1>5, <3>1
    <3>3. rows'[r] # None
      BY <1>5, <3>1 DEF Usage!NoneAssumption, Usage!Row, Usage!Pending
    <3>4. {"Extract", "Completed"} \subseteq heard'[r]
      BY <1>3, <1>5, <2>2, <2>6 DEF Usage!Ready
    <3>5. heard'[r] \cap (Usage!Filling \ Usage!Records) \subseteq e.from
      BY <2>2, <2>5
    <3>6. "Started" \in heard'[r] => e.ts = "Started"
      BY <1>3, <2>2
    <3>7. rows'[r].figures # 0 <=> (rowPending'[r] = None \/ ~rowPending'[r].completed)
      BY <1>5, <2>2, <3>1, <3>2
    <3>8. rowPending'[r] # None =>
            /\ rowPending'[r].ts = e.ts /\ rowPending'[r].from = e.from
            /\ rowPending'[r].model /\ rowPending'[r].figures = 0 /\ latest[r] = 0
      BY <1>5, <2>2, <2>6, <3>1 DEF Usage!Ready
    <3>9. Written(r)'
      BY <1>2, <2>2, <3>2, <3>4, <3>5, <3>6, <3>7, <3>8 DEF Written
    <3> QED
      BY <2>4, <3>3, <3>9 DEF AttemptInv
  <2>7. CASE ~Usage!Ready(p)
    <3>1. rows'[r] = None /\ rowPending'[r] = p
      BY <1>6, <1>9, <2>1, <2>7
    <3>2. /\ heard'[r] \cap Usage!Filling \subseteq p.from /\ p.figures = latest[r]
          /\ "Started" \in heard'[r] => p.ts = "Started"
          /\ p.model => "Extract" \in heard'[r]
          /\ "Completed" \in heard'[r]
      BY <1>3, <1>5, <2>2, <2>5
    <3>3. Gathered(r)'
      BY <1>2, <1>5, <2>7, <3>1, <3>2 DEF Gathered
    <3> QED
      BY <2>4, <3>1, <3>3 DEF AttemptInv
  <2> QED
    BY <2>6, <2>7
<1>10. AttemptInv(r)'
  BY <1>9 DEF AttemptInv
<1> QED
  BY <1>7, <1>8, <1>10 DEF UsageInv, Usage!TypeOK, UsageTypes

\* An attempt reports figures.
LEMMA UsageReports ==
    ASSUME UsageInv, Usage!KindsAssumption, Usage!NoneAssumption,
           NEW r \in Attempts, Usage!OnUsage(r)
    PROVE  UsageInv'
<1>1. UsageTypes /\ \A q \in Attempts : AttemptInv(q)
  BY UsageTyped DEF UsageInv
<1> DEFINE k == "Usage"
           n == usages[r] + 1
           e == Usage!EnsurePending(r, k)
           p == [e EXCEPT !.figures = n, !.seen = TRUE]
<1>2. /\ k \in Usage!AllKinds /\ k \in Emitted /\ Usage!Hear(r, k) /\ Usage!PersistIfReady(r, p)
      /\ latest' = [latest EXCEPT ![r] = n]
      /\ lateUsage' = IF rows[r] # None /\ rows[r].figures # 0 THEN lateUsage \cup {r} ELSE lateUsage
  BY DEF Usage!OnUsage, Usage!AllKinds, Usage!KindsAssumption
<1>3. /\ heard' \in [Attempts -> SUBSET Emitted] /\ heard'[r] = heard[r] \cup {"Usage"}
      /\ \A q \in Attempts \ {r} : heard'[q] = heard[q]
      /\ heardOf' \in [Attempts -> SUBSET Emitted] /\ usages' \in [Attempts -> 0 .. MaxUsage]
      /\ heardOf'[r] = heardOf[r] \cup {"Usage"} /\ n \in 1 .. MaxUsage
      /\ \A q \in Attempts \ {r} : heardOf'[q] = heardOf[q]
  BY <1>1, <1>2, UsageEmits, UsageHears
<1>4. /\ e \in Usage!Pending
      /\ rowPending[r] # None => e = rowPending[r]
      /\ rowPending[r] = None =>
           /\ e.from = {} /\ ~e.model /\ e.figures = 0 /\ ~e.seen /\ ~e.completed
  BY <1>1, <1>2, UsageRecordOf
<1> HIDE DEF e, n
<1>5. /\ n \in 0 .. MaxUsage /\ n # 0
  BY <1>3 DEF Usage!KindsAssumption
<1>6. /\ p \in Usage!Pending /\ p # None /\ p.figures = n /\ p.seen
      /\ p.ts = e.ts /\ p.from = e.from /\ p.model = e.model /\ p.completed = e.completed
  <2>1. /\ p.figures = n /\ p.seen
        /\ p.ts = e.ts /\ p.from = e.from /\ p.model = e.model /\ p.completed = e.completed
    BY <1>4 DEF Usage!Pending
  <2>2. p \in Usage!Pending
    BY <1>4, <1>5 DEF Usage!Pending
  <2> QED
    BY <2>1, <2>2 DEF Usage!NoneAssumption
<1> HIDE DEF p, k
<1>7. /\ rowPending' \in [Attempts -> {None} \cup Usage!Pending]
      /\ rows' \in [Attempts -> {None} \cup Usage!Row]
      /\ unwritten' \in SUBSET Attempts /\ unwritten \subseteq unwritten'
      /\ \A q \in Attempts \ {r} :
           /\ rowPending'[q] = rowPending[q] /\ rows'[q] = rows[q]
           /\ q \in unwritten' <=> q \in unwritten
      /\ r \notin unwritten' =>
           IF Usage!Ready(p)
           THEN /\ rows'[r] = [ts |-> p.ts, from |-> p.from, figures |-> p.figures]
                /\ rowPending'[r] = IF Usage!Finished(p) THEN None ELSE p
           ELSE rows'[r] = rows[r] /\ rowPending'[r] = p
  BY <1>1, <1>2, <1>6, UsagePersists
<1>8. /\ latest' \in [Attempts -> 0 .. MaxUsage] /\ latest'[r] = n
      /\ \A q \in Attempts \ {r} : latest'[q] = latest[q]
      /\ lateUsage' \in SUBSET Attempts
      /\ \A q \in Attempts \ {r} : q \in lateUsage' <=> q \in lateUsage
  BY <1>1, <1>2, <1>5 DEF UsageTypes
<1>9. UsageTypes'
  BY <1>1, <1>3, <1>7, <1>8 DEF UsageTypes
<1>10. ASSUME NEW q \in Attempts \ {r} PROVE AttemptInv(q)'
  BY <1>1, <1>3, <1>7, <1>8, <1>10, AttemptQuiet
<1>11. ASSUME r \notin unwritten' PROVE AttemptInv(r)'
  <2>1. Plain(r) /\ IF rows[r] = None THEN Gathered(r) ELSE Written(r)
    BY <1>1, <1>7, <1>11 DEF AttemptInv
  <2>2. Plain(r)'
    BY <1>3, <1>5, <1>6, <1>7, <1>11, <2>1 DEF Plain
  <2>3. /\ heard'[r] \cap Usage!Filling = heard[r] \cap Usage!Filling
        /\ \A x \in {"Started", "Extract", "Completed"} : x \in heard'[r] <=> x \in heard[r]
    BY <1>3 DEF Usage!Filling
  <2>4. CASE rows[r] = None
    <3>1. /\ heard[r] \cap Usage!Filling \subseteq e.from
          /\ "Started" \in heard[r] => e.ts = "Started"
          /\ e.model => "Extract" \in heard[r]
          /\ e.completed <=> "Completed" \in heard[r]
          /\ ~(e.completed /\ e.model)
      BY <1>4, <2>1, <2>4 DEF Gathered, Usage!Filling, Usage!Ready
    <3>2. ~Usage!Ready(p)
      BY <1>6, <3>1 DEF Usage!Ready
    <3>3. rows'[r] = None /\ rowPending'[r] = p
      BY <1>7, <1>11, <2>4, <3>2
    <3>4. Gathered(r)'
      BY <1>6, <1>8, <2>3, <3>1, <3>2, <3>3 DEF Gathered
    <3> QED
      BY <2>2, <3>3, <3>4 DEF AttemptInv
  <2>5. CASE rows[r] # None /\ Usage!Ready(p)
    <3>1. Written(r) /\ rowPending[r] # None /\ e = rowPending[r] /\ e.completed
      BY <1>4, <1>6, <2>1, <2>5 DEF Usage!Ready
    <3>2. /\ heard[r] \cap (Usage!Filling \ Usage!Records) \subseteq e.from
          /\ "Started" \in heard[r] => e.ts = "Started"
          /\ {"Extract", "Completed"} \subseteq heard[r]
      BY <3>1 DEF Written
    <3>3. rows'[r] = [ts |-> p.ts, from |-> p.from, figures |-> p.figures] /\ rowPending'[r] = None
      BY <1>6, <1>7, <1>11, <2>5 DEF Usage!Finished, Usage!Ready
    <3>4. rows'[r].ts = e.ts /\ rows'[r].from = e.from /\ rows'[r].figures = n /\ rows'[r] # None
      BY <1>6, <3>3 DEF Usage!NoneAssumption, Usage!Row, Usage!Pending
    <3>5. heard'[r] \cap (Usage!Filling \ Usage!Records) \subseteq e.from
      BY <2>3, <3>2
    <3>6. Written(r)'
      BY <1>5, <1>8, <2>3, <3>2, <3>3, <3>4, <3>5 DEF Written
    <3> QED
      BY <2>2, <3>4, <3>6 DEF AttemptInv
  <2>6. CASE rows[r] # None /\ ~Usage!Ready(p)
    <3>1. rows'[r] = rows[r] /\ rowPending'[r] = p
      BY <1>7, <1>11, <2>6
    <3>2. Written(r)
      BY <2>1, <2>6
    <3>3. ~e.completed
      BY <1>4, <1>6, <2>6, <3>2 DEF Written, Usage!Ready
    <3>4. rows[r].figures # 0 /\ r \in lateUsage'
      BY <1>2, <1>4, <2>6, <3>2, <3>3 DEF Written
    <3>5. /\ {"Extract", "Completed"} \subseteq heard'[r]
          /\ heard'[r] \cap (Usage!Filling \ Usage!Records) \subseteq rows[r].from
          /\ "Started" \in heard'[r] => rows[r].ts = "Started"
      BY <2>3, <3>2 DEF Written
    <3>6. Written(r)'
      BY <1>6, <3>1, <3>3, <3>4, <3>5 DEF Written
    <3> QED
      BY <2>2, <2>6, <3>1, <3>6 DEF AttemptInv
  <2> QED
    BY <2>4, <2>5, <2>6
<1>12. AttemptInv(r)'
  BY <1>11 DEF AttemptInv
<1> QED
  BY <1>9, <1>10, <1>12 DEF UsageInv, Usage!TypeOK, UsageTypes

LEMMA UsageNext ==
    /\ Usage!KindsAssumption /\ Usage!NoneAssumption
    /\ UsageInv /\ [Usage!Next]_(Usage!vars)
    => UsageInv'
<1> SUFFICES ASSUME Usage!KindsAssumption, Usage!NoneAssumption, UsageInv,
                    [Usage!Next]_(Usage!vars)
             PROVE  UsageInv'
  OBVIOUS
<1>1. CASE UNCHANGED Usage!vars
  BY <1>1 DEF Usage!vars, UsageInv, Usage!TypeOK, AttemptInv, Plain, Gathered, Written
<1>2. CASE Usage!Next
  BY <1>2, UsageQuiet, UsageFills, UsageCompletes, UsageReports DEF Usage!Next
<1> QED
  BY <1>1, <1>2

\* The invariant gives what is promised of the rows.
LEMMA UsageProperties ==
    UsageInv => Usage!TypeOK /\ Usage!RowCurrent /\ Usage!RowWritten /\ Usage!ForgottenWithUsage
<1> SUFFICES ASSUME UsageInv
             PROVE  Usage!TypeOK /\ Usage!RowCurrent /\ Usage!RowWritten /\ Usage!ForgottenWithUsage
  OBVIOUS
<1>1. ASSUME NEW r \in Attempts \ unwritten
      PROVE  Plain(r) /\ IF rows[r] = None THEN Gathered(r) ELSE Written(r)
  BY <1>1 DEF UsageInv, AttemptInv
<1>2. Usage!RowCurrent
  BY <1>1 DEF Usage!RowCurrent, Written
<1>3. Usage!RowWritten
  <2>1. ASSUME NEW r \in Attempts \ unwritten, rows[r] = None, rowPending[r] # None,
               "Completed" \in heard[r]
        PROVE  ~rowPending[r].model
    BY <1>1, <2>1 DEF Gathered, Usage!Ready
  <2> QED
    BY <1>1, <2>1 DEF Usage!RowWritten, Written
<1>4. Usage!ForgottenWithUsage
  BY <1>1 DEF Usage!ForgottenWithUsage, Written, Gathered
<1> QED
  BY <1>2, <1>3, <1>4 DEF UsageInv
-----------------------------------------------------------------------------
(* The session trees (SessionRecorder), for a setting k. *)

\* What is known of a request by the stage it is at: its record, its node and its row are
\* of it; and its record has what its events brought, unless one was lost or it was
\* taken for stale.
RequestInv(r) ==
    /\ request[r] = None <=> stage[r] = "new"
    /\ stored[r] # None => request[r] # None /\ stored[r].input = request[r].input
    /\ pending[r] # None =>
          /\ request[r] # None
          /\ pending[r].endpoint => pending[r].ts = request[r].ts
          /\ pending[r].session \in {None, request[r].session}
          /\ pending[r].input \in {<<>>, request[r].input}
    /\ nodes[r] # None =>
          /\ request[r] # None
          /\ nodes[r].ts = request[r].ts /\ nodes[r].session = request[r].session
          /\ nodes[r].tip \in tree
          /\ Len(nodes[r].tip) = nodes[r].ins + nodes[r].outs
          /\ SubSeq(nodes[r].tip, 1, nodes[r].ins) \in {<<>>, request[r].input}
    /\ r \notin deaf \cup stale =>
          /\ stage[r] \in {"started", "extracted", "answered", "converted"} =>
                pending[r] # None /\ pending[r].endpoint
          /\ stage[r] \in {"extracted", "answered", "converted"} =>
                /\ pending[r].session = request[r].session
                /\ request[r].session # None => pending[r].input = request[r].input
          /\ stage[r] = "converted" => pending[r].converted = request[r].output
          /\ stage[r] = "done" /\ request[r].session # None =>
                /\ nodes[r] # None
                /\ stored[r] = None => nodes[r].tip = request[r].input \o request[r].output

\* The playback is at work on a row of the requests database.
PlayerInv ==
    player # None =>
        /\ request[player.id] # None /\ stored[player.id] # None
        /\ player.record.ts = request[player.id].ts
        /\ player.record.session = request[player.id].session
        /\ player.record.input = request[player.id].input

\* The tree is closed under prefixes, and heads and threads are of the nodes.
DatabaseInv(k) ==
    /\ \A p \in tree : Session(k)!Chain(p) \subseteq tree
    /\ \A s \in k.sessions : threads[s] = None <=> Session(k)!NodesOf(s) = {}
    /\ Session(k)!HeadIsNewest /\ Session(k)!ThreadSpansNodes

SessionInv(k) ==
    /\ Session(k)!TypeOK /\ \A r \in k.ids : RequestInv(r)
    /\ PlayerInv /\ DatabaseInv(k)

StageSet == {"new", "started", "extracted", "answered", "converted", "done", "failed"}

LiveTypes(k) ==
    /\ now \in 1 .. k.maxTs /\ stage \in [k.ids -> StageSet]
    /\ request \in [k.ids -> {None} \cup Session(k)!Request]
    /\ pending \in [k.ids -> {None} \cup Session(k)!Pending]
    /\ stored \in [k.ids -> {None} \cup Session(k)!Stored]
    /\ player \in {None} \cup Session(k)!Playing
    /\ deaf \in SUBSET k.ids /\ stale \in SUBSET k.ids

DatabaseTypes(k) ==
    /\ tree \in SUBSET UNION {Session(k)!Chain(p) : p \in Session(k)!Paths}
    /\ nodes \in [k.ids -> {None} \cup Session(k)!Node]
    /\ sessions \in [k.sessions -> {None} \cup Session(k)!Span]
    /\ threads \in [k.sessions -> {None} \cup Session(k)!Span]
    /\ heads \in [k.sessions -> {None} \cup Session(k)!Pointer]

LEMMA StagesAre ==
    ASSUME NEW k
    PROVE  Session(k)!Range(Session(k)!Stages) = StageSet
<1> DEFINE s == <<"new", "started", "extracted", "answered", "converted", "done", "failed">>
<1>1. Session(k)!Stages = s
  BY DEF Session!Stages
<1>2. DOMAIN s = 1 .. 7
  OBVIOUS
<1>3. \A i \in 1 .. 7 : i = 1 \/ i = 2 \/ i = 3 \/ i = 4 \/ i = 5 \/ i = 6 \/ i = 7
  OBVIOUS
<1>4. Session(k)!Range(Session(k)!Stages) = {s[i] : i \in 1 .. 7}
  BY <1>1, <1>2 DEF Session!Range
<1>5. {s[i] : i \in 1 .. 7} = StageSet
  BY <1>3 DEF StageSet
<1> QED
  BY <1>4, <1>5

LEMMA SessionTyped ==
    ASSUME NEW k
    PROVE  Session(k)!TypeOK <=> LiveTypes(k) /\ DatabaseTypes(k)
BY StagesAre DEF Session!TypeOK, LiveTypes, DatabaseTypes

\* A message is among itself and those before it, and so are those before one of these.
LEMMA ChainProperties ==
    ASSUME NEW k, NEW S, NEW p \in Seq(S), p # <<>>
    PROVE  /\ p \in Session(k)!Chain(p)
           /\ \A q \in Session(k)!Chain(p) : Session(k)!Chain(q) \subseteq Session(k)!Chain(p)
<1>1. Len(p) \in Nat \ {0} /\ SubSeq(p, 1, Len(p)) = p
  BY EmptySeq, SubSeqFull
<1>2. p \in Session(k)!Chain(p)
  <2>1. Len(p) \in 1 .. Len(p)
    BY <1>1
  <2>2. SubSeq(p, 1, Len(p)) \in Session(k)!Chain(p)
    BY <2>1 DEF Session!Chain
  <2> QED
    BY <1>1, <2>2
<1>3. ASSUME NEW n \in 1 .. Len(p), NEW m \in 1 .. Len(SubSeq(p, 1, n))
      PROVE  SubSeq(SubSeq(p, 1, n), 1, m) \in Session(k)!Chain(p)
  <2>1. \A i \in 1 .. n : p[i] \in S
    BY ElementOfSeq
  <2>2. Len(SubSeq(p, 1, n)) = n
    BY <2>1, SubSeqProperties
  <2>3. m \in 1 .. n /\ 1 \in 1 .. n /\ 1 \in 1 .. Len(p) /\ m \in 1 .. Len(p)
    BY <1>1, <2>2
  <2>4. SubSeq(SubSeq(p, 1, n), 1, m) = SubSeq(p, 1 + 1 - 1, 1 + m - 1)
    BY <1>1, <2>3, SubSeqOfSubSeq
  <2>5. SubSeq(SubSeq(p, 1, n), 1, m) = SubSeq(p, 1, m)
    BY <2>3, <2>4
  <2> QED
    BY <2>3, <2>5 DEF Session!Chain
<1> QED
  BY <1>2, <1>3 DEF Session!Chain

\* The messages of a request are at the beginning of its path.
LEMMA PathCut ==
    ASSUME NEW S, NEW s \in Seq(S), NEW t \in Seq(S)
    PROVE  /\ s \o t \in Seq(S) /\ Len(s \o t) = Len(s) + Len(t) /\ Len(s) \in Nat /\ Len(t) \in Nat
           /\ SubSeq(s \o t, 1, Len(s)) = s
           /\ s # <<>> \/ t # <<>> => s \o t # <<>>
<1>1. /\ s \o t \in Seq(S) /\ Len(s \o t) = Len(s) + Len(t)
      /\ Len(s) \in Nat /\ Len(t) \in Nat
  BY ConcatProperties
<1>2. SubSeq(s \o t, 1, Len(s)) = s
  <2>1. CASE s = <<>>
    BY <2>1, SubSeqEmpty, EmptySeq
  <2>2. CASE s # <<>>
    <3>1. 1 \in 1 .. Len(s) /\ Len(s) \in 1 .. Len(s)
      BY <1>1, <2>2, EmptySeq
    <3>2. SubSeq(s \o t, 1, Len(s)) = SubSeq(s, 1, Len(s))
      BY <3>1, SubSeqOfConcat1
    <3> QED
      BY <3>2, SubSeqFull
  <2> QED
    BY <2>1, <2>2
<1>3. s # <<>> \/ t # <<>> => s \o t # <<>>
  BY <1>1, EmptySeq
<1> QED
  BY <1>1, <1>2, <1>3

LEMMA SessionInit ==
    ASSUME NEW k, Session(k)!BoundsAssumption, Session(k)!NoneAssumption, Session(k)!Init
    PROVE  SessionInv(k)
<1>1. LiveTypes(k) /\ DatabaseTypes(k)
  BY DEF Session!Init, Session!BoundsAssumption, LiveTypes, DatabaseTypes, StageSet
<1>2. \A r \in k.ids : RequestInv(r)
  BY DEF Session!Init, RequestInv
<1>3. PlayerInv
  BY DEF Session!Init, PlayerInv
<1>4. \A s \in k.sessions : heads[s] = None /\ threads[s] = None /\ Session(k)!NodesOf(s) = {}
  BY DEF Session!Init, Session!NodesOf
<1>5. DatabaseInv(k)
  BY <1>4 DEF DatabaseInv, Session!HeadIsNewest, Session!ThreadSpansNodes, Session!Init
<1> QED
  BY <1>1, <1>2, <1>3, <1>5, SessionTyped DEF SessionInv

\* A record of a request is written: its node is of the request, nothing else of the tree
\* or of another request changes, and the heads and the threads are again of the nodes.
LEMMA Records ==
    ASSUME NEW k, Session(k)!InputsAssumption, Session(k)!BoundsAssumption,
           Session(k)!NoneAssumption, SessionInv(k),
           NEW r \in k.ids, NEW rec \in Session(k)!Record,
           request[r] # None, rec.ts = request[r].ts, rec.session = request[r].session,
           rec.input \in {<<>>, request[r].input}, rec.input # <<>> \/ rec.output # <<>>,
           Session(k)!RecordTree(r, rec)
    PROVE  /\ DatabaseTypes(k)' /\ DatabaseInv(k)' /\ tree \subseteq tree'
           /\ \A q \in k.ids \ {r} : nodes'[q] = nodes[q]
           /\ nodes'[r] # None
           /\ nodes'[r].ts = request[r].ts /\ nodes'[r].session = request[r].session
           /\ nodes'[r].tip = rec.input \o rec.output /\ nodes'[r].tip \in tree'
           /\ Len(nodes'[r].tip) = nodes'[r].ins + nodes'[r].outs
           /\ SubSeq(nodes'[r].tip, 1, nodes'[r].ins) \in {<<>>, request[r].input}
<1> DEFINE s == rec.session
           path == rec.input \o rec.output
           M == Session(k)!Message
<1>1. /\ DatabaseTypes(k) /\ DatabaseInv(k)
      /\ \A q \in k.ids : RequestInv(q)
  BY SessionTyped DEF SessionInv
<1>2. /\ s \in k.sessions /\ rec.ts \in 1 .. k.maxTs /\ k.maxTs \in Nat /\ rec.ts \in Nat
      /\ rec.input \in k.inputs \cup {<<>>} /\ rec.output \in k.outputs \cup {<<>>}
  BY DEF Session!Record, Session!BoundsAssumption
<1>3. rec.input \in Seq(M) /\ rec.output \in Seq(M)
  <2>1. <<>> \in Seq(M)
    BY EmptySeq
  <2>2. k.inputs \cup k.outputs \subseteq Seq(M)
    BY Zenon DEF Session!InputsAssumption
  <2> QED
    BY <1>2, <2>1, <2>2
<1> HIDE DEF M
<1>4. /\ path \in Seq(M) /\ Len(path) = Len(rec.input) + Len(rec.output)
      /\ Len(rec.input) \in Nat /\ Len(rec.output) \in Nat
      /\ SubSeq(path, 1, Len(rec.input)) = rec.input /\ path # <<>>
  BY <1>3, PathCut
<1>5. path \in Session(k)!Paths
  <2>1. \A x \in k.inputs \cup {<<>>}, y \in k.outputs \cup {<<>>} : x \o y \in Session(k)!Paths
    BY DEF Session!Paths
  <2> QED
    BY <1>2, <2>1
<1>6. /\ tree' = tree \cup Session(k)!Chain(path)
      /\ nodes' = [nodes EXCEPT ![r] = Session(k)!NodeOf(r, rec)]
      /\ sessions' = [sessions EXCEPT ![s] =
            IF sessions[s] = None THEN [first |-> rec.ts, last |-> rec.ts]
            ELSE [sessions[s] EXCEPT !.last = rec.ts]]
      /\ threads' = [threads EXCEPT ![s] =
            IF threads[s] = None THEN [first |-> rec.ts, last |-> rec.ts]
            ELSE [first |-> Session(k)!Earliest(threads[s].first, rec.ts),
                  last |-> Session(k)!Latest(threads[s].last, rec.ts)]]
      /\ heads' = [heads EXCEPT ![s] =
            IF Session(k)!Newer(heads[s], rec.ts) THEN [node |-> r, ts |-> rec.ts] ELSE heads[s]]
  BY <1>1, <1>2 DEF Session!RecordTree, Session!MessagePath, DatabaseTypes
<1>7. /\ nodes \in [k.ids -> {None} \cup Session(k)!Node]
      /\ sessions \in [k.sessions -> {None} \cup Session(k)!Span]
      /\ threads \in [k.sessions -> {None} \cup Session(k)!Span]
      /\ heads \in [k.sessions -> {None} \cup Session(k)!Pointer]
  BY <1>1 DEF DatabaseTypes
<1> HIDE DEF s, path
\* The node.
<1>8. nodes[r] # None => nodes[r].ts = rec.ts /\ nodes[r].session = s
  BY <1>1 DEF RequestInv, s
<1>9. Session(k)!NodeOf(r, rec) = [ts |-> rec.ts, session |-> s, tip |-> path,
                                   ins |-> Len(rec.input), outs |-> Len(rec.output)]
  BY <1>8 DEF Session!NodeOf, s, path
<1>10. Session(k)!NodeOf(r, rec) \in Session(k)!Node
  BY <1>2, <1>4, <1>5, <1>9 DEF Session!Node
<1>11. /\ nodes' \in [k.ids -> {None} \cup Session(k)!Node]
       /\ nodes'[r] = Session(k)!NodeOf(r, rec) /\ nodes'[r] # None
       /\ \A q \in k.ids \ {r} : nodes'[q] = nodes[q]
  BY <1>6, <1>7, <1>10 DEF Session!NoneAssumption
<1>12. /\ nodes'[r].ts = rec.ts /\ nodes'[r].session = s /\ nodes'[r].tip = path
       /\ nodes'[r].ins = Len(rec.input) /\ nodes'[r].outs = Len(rec.output)
  BY <1>9, <1>11
\* The tree.
<1>13. /\ tree' \in SUBSET UNION {Session(k)!Chain(p) : p \in Session(k)!Paths}
       /\ path \in tree' /\ tree \subseteq tree'
       /\ \A p \in tree' : Session(k)!Chain(p) \subseteq tree'
  <2>1. /\ path \in Session(k)!Chain(path)
        /\ \A q \in Session(k)!Chain(path) : Session(k)!Chain(q) \subseteq Session(k)!Chain(path)
    BY <1>4, ChainProperties
  <2>2. \A p \in tree : Session(k)!Chain(p) \subseteq tree
    BY <1>1 DEF DatabaseInv
  <2>3. Session(k)!Chain(path) \subseteq UNION {Session(k)!Chain(p) : p \in Session(k)!Paths}
    BY <1>5
  <2>4. tree \subseteq UNION {Session(k)!Chain(p) : p \in Session(k)!Paths}
    BY <1>1 DEF DatabaseTypes
  <2> QED
    BY <1>6, <2>1, <2>2, <2>3, <2>4
\* The rows of the session.
<1>14. [first |-> rec.ts, last |-> rec.ts] \in Session(k)!Span
  BY <1>2 DEF Session!Span
<1>15. sessions' \in [k.sessions -> {None} \cup Session(k)!Span]
  <2>1. sessions[s] # None => [sessions[s] EXCEPT !.last = rec.ts] \in Session(k)!Span
    BY <1>2, <1>7 DEF Session!Span
  <2> QED
    BY <1>2, <1>6, <1>7, <1>14, <2>1
<1>16. /\ threads' \in [k.sessions -> {None} \cup Session(k)!Span] /\ threads'[s] # None
       /\ \A t \in k.sessions \ {s} : threads'[t] = threads[t]
       /\ threads[s] = None => threads'[s].first = rec.ts /\ threads'[s].last = rec.ts
       /\ threads[s] # None =>
            /\ threads[s].first \in 1 .. k.maxTs /\ threads[s].last \in 1 .. k.maxTs
            /\ threads'[s].first = IF threads[s].first < rec.ts THEN threads[s].first ELSE rec.ts
            /\ threads'[s].last = IF threads[s].last > rec.ts THEN threads[s].last ELSE rec.ts
  <2>1. threads[s] # None => threads[s].first \in 1 .. k.maxTs /\ threads[s].last \in 1 .. k.maxTs
    BY <1>2, <1>7 DEF Session!Span
  <2> DEFINE f == IF threads[s].first < rec.ts THEN threads[s].first ELSE rec.ts
             l == IF threads[s].last > rec.ts THEN threads[s].last ELSE rec.ts
  <2>2. threads' = [threads EXCEPT ![s] =
            IF threads[s] = None THEN [first |-> rec.ts, last |-> rec.ts]
            ELSE [first |-> f, last |-> l]]
    BY <1>6 DEF Session!Earliest, Session!Latest
  <2>3. threads[s] # None => [first |-> f, last |-> l] \in Session(k)!Span
    BY <1>2, <2>1 DEF Session!Span
  <2> HIDE DEF f, l
  <2>4. threads' \in [k.sessions -> {None} \cup Session(k)!Span] /\ threads'[s] # None
        /\ \A t \in k.sessions \ {s} : threads'[t] = threads[t]
    BY <1>2, <1>7, <1>14, <2>2, <2>3 DEF Session!NoneAssumption
  <2>5. /\ threads[s] = None => threads'[s].first = rec.ts /\ threads'[s].last = rec.ts
        /\ threads[s] # None => threads'[s].first = f /\ threads'[s].last = l
    BY <1>2, <1>7, <2>2
  <2> QED
    BY <2>1, <2>4, <2>5 DEF f, l
<1>17. /\ heads' \in [k.sessions -> {None} \cup Session(k)!Pointer] /\ heads'[s] # None
       /\ \A t \in k.sessions \ {s} : heads'[t] = heads[t]
       /\ IF heads[s] = None \/ rec.ts >= heads[s].ts
          THEN heads'[s].node = r /\ heads'[s].ts = rec.ts ELSE heads'[s] = heads[s]
       /\ heads[s] # None => heads[s].ts \in 1 .. k.maxTs /\ heads[s].node \in k.ids
  <2>1. [node |-> r, ts |-> rec.ts] \in Session(k)!Pointer
    BY <1>2 DEF Session!Pointer
  <2>2. heads[s] # None => heads[s].ts \in 1 .. k.maxTs /\ heads[s].node \in k.ids
    BY <1>2, <1>7 DEF Session!Pointer
  <2> QED
    BY <1>2, <1>6, <1>7, <2>1, <2>2 DEF Session!NoneAssumption, Session!Newer
<1>18. DatabaseTypes(k)'
  BY <1>11, <1>13, <1>15, <1>16, <1>17 DEF DatabaseTypes
\* The nodes of each session.
<1>19. /\ Session(k)!NodesOf(s)' = Session(k)!NodesOf(s) \cup {r}
       /\ \A t \in k.sessions \ {s} : Session(k)!NodesOf(t)' = Session(k)!NodesOf(t)
       /\ \A q \in k.ids : nodes[q] # None => nodes'[q].ts = nodes[q].ts
       /\ \A t : r \in Session(k)!NodesOf(t) => t = s
       /\ \A t : Session(k)!NodesOf(t) \subseteq {q \in k.ids : nodes[q] # None}
       /\ \A q \in k.ids : nodes[q] # None => nodes[q].ts \in 1 .. k.maxTs
  <2>1. \A q \in k.ids : nodes[q] # None => nodes[q].ts \in 1 .. k.maxTs
    BY <1>7 DEF Session!Node
  <2> QED
    BY <1>8, <1>11, <1>12, <2>1 DEF Session!NodesOf
<1>20. /\ \A t \in k.sessions : threads[t] = None <=> Session(k)!NodesOf(t) = {}
       /\ Session(k)!HeadIsNewest /\ Session(k)!ThreadSpansNodes
  BY <1>1 DEF DatabaseInv
<1>21. \A t \in k.sessions : threads'[t] = None <=> Session(k)!NodesOf(t)' = {}
  BY <1>16, <1>19, <1>20
<1>22. Session(k)!HeadIsNewest'
  <2> SUFFICES ASSUME NEW t \in k.sessions
               PROVE  /\ heads'[t] = None <=> Session(k)!NodesOf(t)' = {}
                      /\ heads'[t] # None =>
                           /\ heads'[t].node \in Session(k)!NodesOf(t)'
                           /\ nodes'[heads'[t].node].ts = heads'[t].ts
                           /\ \A q \in Session(k)!NodesOf(t)' : nodes'[q].ts <= heads'[t].ts
    BY DEF Session!HeadIsNewest
  <2>1. /\ heads[t] = None <=> Session(k)!NodesOf(t) = {}
        /\ heads[t] # None =>
             /\ heads[t].node \in Session(k)!NodesOf(t)
             /\ nodes[heads[t].node].ts = heads[t].ts
             /\ \A q \in Session(k)!NodesOf(t) : nodes[q].ts <= heads[t].ts
    BY <1>20 DEF Session!HeadIsNewest
  <2>2. \A q \in Session(k)!NodesOf(t) : nodes'[q].ts = nodes[q].ts /\ nodes[q].ts \in 1 .. k.maxTs
    BY <1>19
  <2>3. CASE t # s
    BY <1>17, <1>19, <2>1, <2>2, <2>3
  <2>4. CASE t = s /\ (heads[s] = None \/ rec.ts >= heads[s].ts)
    <3>1. heads'[t].node = r /\ heads'[t].ts = rec.ts /\ heads'[t] # None
      BY <1>17, <2>4
    <3>2. ASSUME NEW q \in Session(k)!NodesOf(t) PROVE nodes'[q].ts <= rec.ts
      BY <1>2, <1>17, <2>1, <2>2, <2>4, <3>2
    <3> QED
      BY <1>2, <1>12, <1>19, <2>4, <3>1, <3>2
  <2>5. CASE t = s /\ heads[s] # None /\ ~(rec.ts >= heads[s].ts)
    <3>1. heads'[t] = heads[t] /\ rec.ts <= heads[t].ts
      BY <1>2, <1>17, <2>5
    <3> QED
      BY <1>12, <1>19, <2>1, <2>2, <2>5, <3>1
  <2> QED
    BY <2>3, <2>4, <2>5
<1>23. Session(k)!ThreadSpansNodes'
  <2> SUFFICES ASSUME NEW t \in k.sessions, threads'[t] # None
               PROVE  /\ \A q \in Session(k)!NodesOf(t)' :
                           threads'[t].first <= nodes'[q].ts /\ nodes'[q].ts <= threads'[t].last
                      /\ \E q \in Session(k)!NodesOf(t)' : nodes'[q].ts = threads'[t].first
                      /\ \E q \in Session(k)!NodesOf(t)' : nodes'[q].ts = threads'[t].last
    BY DEF Session!ThreadSpansNodes
  <2>1. threads[t] # None =>
          /\ \A q \in Session(k)!NodesOf(t) :
               threads[t].first <= nodes[q].ts /\ nodes[q].ts <= threads[t].last
          /\ \E q \in Session(k)!NodesOf(t) : nodes[q].ts = threads[t].first
          /\ \E q \in Session(k)!NodesOf(t) : nodes[q].ts = threads[t].last
    BY <1>20 DEF Session!ThreadSpansNodes
  <2>2. \A q \in Session(k)!NodesOf(t) : nodes'[q].ts = nodes[q].ts /\ nodes[q].ts \in 1 .. k.maxTs
    BY <1>19
  <2>3. CASE t # s
    <3>1. threads'[t] = threads[t] /\ Session(k)!NodesOf(t)' = Session(k)!NodesOf(t)
      BY <1>16, <1>19, <2>3
    <3> QED
      BY <2>1, <2>2, <3>1
  <2>4. CASE t = s /\ threads[s] = None
    <3>1. Session(k)!NodesOf(t)' = {r}
      BY <1>19, <1>20, <2>4
    <3> QED
      BY <1>2, <1>12, <1>16, <2>4, <3>1
  <2>5. CASE t = s /\ threads[s] # None
    <3>1. /\ Session(k)!NodesOf(t)' = Session(k)!NodesOf(t) \cup {r} /\ nodes'[r].ts = rec.ts
          /\ threads[t].first \in 1 .. k.maxTs /\ threads[t].last \in 1 .. k.maxTs
          /\ threads'[t].first = IF threads[t].first < rec.ts THEN threads[t].first ELSE rec.ts
          /\ threads'[t].last = IF threads[t].last > rec.ts THEN threads[t].last ELSE rec.ts
      BY <1>12, <1>16, <1>19, <2>5
    <3>2. \A q \in Session(k)!NodesOf(t) :
             threads'[t].first <= nodes'[q].ts /\ nodes'[q].ts <= threads'[t].last
      BY <1>2, <2>1, <2>2, <2>5, <3>1
    <3>3. threads'[t].first <= rec.ts /\ rec.ts <= threads'[t].last
      BY <1>2, <3>1
    <3>4. \E q \in Session(k)!NodesOf(t)' : nodes'[q].ts = threads'[t].first
      BY <2>1, <2>2, <2>5, <3>1
    <3>5. \E q \in Session(k)!NodesOf(t)' : nodes'[q].ts = threads'[t].last
      BY <2>1, <2>2, <2>5, <3>1
    <3> QED
      BY <3>1, <3>2, <3>3, <3>4, <3>5
  <2> QED
    BY <2>3, <2>4, <2>5
<1>24. DatabaseInv(k)'
  BY <1>13, <1>21, <1>22, <1>23 DEF DatabaseInv
<1> QED
  BY <1>4, <1>11, <1>12, <1>13, <1>18, <1>24 DEF s, path

\* A request whose state stays keeps its invariant while others go on.
LEMMA RequestQuiet ==
    ASSUME NEW q, RequestInv(q), stage'[q] = stage[q], request'[q] = request[q],
           pending'[q] = pending[q] \/ (pending'[q] = None /\ q \in stale'),
           stored'[q] = stored[q], nodes'[q] = nodes[q],
           tree \subseteq tree', deaf \subseteq deaf', stale \subseteq stale'
    PROVE  RequestInv(q)'
<1>1. CASE pending'[q] = pending[q]
  BY <1>1 DEF RequestInv
<1>2. CASE pending'[q] = None /\ q \in stale'
  BY <1>2 DEF RequestInv
<1> QED
  BY <1>1, <1>2

\* A step of the requests that leaves the database alone.
LEMMA SessionKeeps ==
    ASSUME NEW k, SessionInv(k), UNCHANGED <<tree, nodes, sessions, threads, heads>>,
           LiveTypes(k)', PlayerInv', \A q \in k.ids : RequestInv(q)'
    PROVE  SessionInv(k)'
<1>1. DatabaseTypes(k) /\ DatabaseInv(k)
  BY SessionTyped DEF SessionInv
<1>2. DatabaseTypes(k)'
  BY <1>1 DEF DatabaseTypes
<1>3. \A s : Session(k)!NodesOf(s)' = Session(k)!NodesOf(s)
  BY DEF Session!NodesOf
<1>4. DatabaseInv(k)'
  BY <1>1, <1>3 DEF DatabaseInv, Session!HeadIsNewest, Session!ThreadSpansNodes
<1>5. Session(k)!TypeOK'
  BY <1>2, StagesAre DEF Session!TypeOK, LiveTypes, DatabaseTypes
<1> QED
  BY <1>4, <1>5 DEF SessionInv

\* A request arrives: its stage was the first, and it was not known.
LEMMA SessionArrives ==
    ASSUME NEW k, LiveTypes(k), NEW r \in k.ids, RequestInv(r), Session(k)!Arrive(r)
    PROVE  /\ stage[r] = "new" /\ request[r] = None
           /\ stage' \in [k.ids -> StageSet] /\ stage'[r] = "started"
           /\ request' \in [k.ids -> {None} \cup Session(k)!Request]
           /\ request'[r] \in Session(k)!Request /\ request'[r].ts = now
           /\ \A q \in k.ids \ {r} : stage'[q] = stage[q] /\ request'[q] = request[q]
<1>1. /\ stage[r] = "new" /\ stage' = [stage EXCEPT ![r] = "started"]
      /\ \E s \in k.sessions \cup {None}, i \in k.inputs, o \in k.outputs :
           request' = [request EXCEPT ![r] = [ts |-> now, session |-> s, input |-> i, output |-> o]]
  BY DEF Session!Arrive, Session!Advance
<1>2. PICK s \in k.sessions \cup {None}, i \in k.inputs, o \in k.outputs :
         request' = [request EXCEPT ![r] = [ts |-> now, session |-> s, input |-> i, output |-> o]]
  BY <1>1
<1>3. [ts |-> now, session |-> s, input |-> i, output |-> o] \in Session(k)!Request
  BY DEF Session!Request, LiveTypes
<1>4. request[r] = None
  BY <1>1 DEF RequestInv
<1> QED
  BY <1>1, <1>2, <1>3, <1>4 DEF LiveTypes, StageSet

\* The playback's row stays while its request does.
LEMMA PlayerQuiet ==
    ASSUME NEW k, LiveTypes(k), PlayerInv, player' = player,
           \A q \in k.ids : request[q] # None => request'[q] = request[q],
           \A q \in k.ids : stored[q] # None => stored'[q] # None
    PROVE  PlayerInv'
<1>1. player # None => player.id \in k.ids
  BY DEF LiveTypes, Session!Playing
<1> QED
  BY <1>1 DEF PlayerInv

\* The record an event finds or creates.
LEMMA SessionRecordOf ==
    ASSUME NEW k, LiveTypes(k), NEW r \in k.ids
    PROVE  /\ Session(k)!Fresh(r) \in Session(k)!Pending
           /\ Session(k)!Fresh(r).session = None /\ Session(k)!Fresh(r).input = <<>>
           /\ ~Session(k)!Fresh(r).endpoint /\ Session(k)!Fresh(r).ts = now
           /\ Session(k)!EnsurePending(r) \in Session(k)!Pending
           /\ pending[r] # None => Session(k)!EnsurePending(r) = pending[r]
           /\ pending[r] = None => Session(k)!EnsurePending(r) = Session(k)!Fresh(r)
<1>1. Session(k)!Fresh(r) = [ts |-> now, endpoint |-> FALSE, session |-> None, input |-> <<>>,
                             upstream |-> None, converted |-> None]
  BY DEF Session!Fresh
<1>2. Session(k)!Fresh(r) \in Session(k)!Pending
  BY <1>1 DEF Session!Pending, LiveTypes
<1>3. /\ Session(k)!Fresh(r).session = None /\ Session(k)!Fresh(r).input = <<>>
      /\ ~Session(k)!Fresh(r).endpoint /\ Session(k)!Fresh(r).ts = now
  BY <1>1
<1> QED
  BY <1>2, <1>3 DEF Session!EnsurePending, LiveTypes

\* A request starts, and stale records are dropped.
LEMMA SessionStarts ==
    ASSUME NEW k, Session(k)!NoneAssumption, SessionInv(k), NEW r \in k.ids, Session(k)!Started(r)
    PROVE  SessionInv(k)'
<1>1. LiveTypes(k) /\ PlayerInv /\ \A q \in k.ids : RequestInv(q)
  BY SessionTyped DEF SessionInv
<1>2. /\ Session(k)!Arrive(r)
      /\ pending' = [q \in k.ids |-> IF q = r THEN [Session(k)!Fresh(r) EXCEPT !.endpoint = TRUE]
                                     ELSE IF Session(k)!Old(q) THEN None ELSE pending[q]]
      /\ stale' = stale \cup {q \in k.ids \ {r} : Session(k)!Old(q)}
      /\ UNCHANGED <<now, stored, tree, nodes, sessions, threads, heads, player, deaf>>
  BY DEF Session!Started, Session!database
<1>3. /\ stage[r] = "new" /\ request[r] = None
      /\ stage' \in [k.ids -> StageSet] /\ stage'[r] = "started"
      /\ request' \in [k.ids -> {None} \cup Session(k)!Request]
      /\ request'[r] \in Session(k)!Request /\ request'[r].ts = now
      /\ \A q \in k.ids \ {r} : stage'[q] = stage[q] /\ request'[q] = request[q]
  BY <1>1, <1>2, SessionArrives
<1> DEFINE p == [Session(k)!Fresh(r) EXCEPT !.endpoint = TRUE]
<1>4. /\ p \in Session(k)!Pending /\ p.endpoint /\ p.ts = now /\ p.session = None
      /\ p.input = <<>>
  BY <1>1, SessionRecordOf DEF Session!Pending
<1> HIDE DEF p
<1>5. pending' = [q \in k.ids |-> IF q = r THEN p ELSE IF Session(k)!Old(q) THEN None ELSE pending[q]]
  BY <1>2 DEF p
<1>6. /\ pending' \in [k.ids -> {None} \cup Session(k)!Pending]
      /\ pending'[r] = p /\ p # None
      /\ \A q \in k.ids \ {r} : pending'[q] = pending[q] \/ (pending'[q] = None /\ q \in stale')
  <2>1. pending \in [k.ids -> {None} \cup Session(k)!Pending]
    BY <1>1 DEF LiveTypes
  <2>2. pending' \in [k.ids -> {None} \cup Session(k)!Pending]
    BY <1>4, <1>5, <2>1
  <2>3. pending'[r] = p /\ p # None
    BY <1>4, <1>5 DEF Session!NoneAssumption
  <2>4. ASSUME NEW q \in k.ids \ {r}
        PROVE  pending'[q] = pending[q] \/ (pending'[q] = None /\ q \in stale')
    <3>1. CASE Session(k)!Old(q)
      BY <1>2, <1>5, <3>1, Zenon
    <3>2. CASE ~Session(k)!Old(q)
      BY <1>5, <3>2
    <3> QED
      BY <3>1, <3>2
  <2> QED
    BY <2>2, <2>3, <2>4
<1>7. stale' \in SUBSET k.ids /\ stale \subseteq stale'
  BY <1>1, <1>2 DEF LiveTypes
<1>8. LiveTypes(k)'
  BY <1>1, <1>2, <1>3, <1>6, <1>7 DEF LiveTypes
<1>9. ASSUME NEW q \in k.ids \ {r} PROVE RequestInv(q)'
  BY <1>1, <1>2, <1>3, <1>6, <1>7, <1>9, RequestQuiet
<1>10. RequestInv(r)'
  <2>1. request'[r] # None
    BY <1>3 DEF Session!NoneAssumption
  <2>2. stored[r] = None /\ nodes[r] = None
    BY <1>1, <1>3 DEF RequestInv
  <2> QED
    BY <1>2, <1>3, <1>4, <1>6, <2>1, <2>2 DEF RequestInv
<1>11. PlayerInv'
  BY <1>1, <1>2, <1>3, PlayerQuiet
<1> QED
  BY <1>2, <1>8, <1>9, <1>10, <1>11, SessionKeeps

\* An event of a request is lost.
LEMMA SessionLoses ==
    ASSUME NEW k, Session(k)!NoneAssumption, SessionInv(k), NEW r \in k.ids, Session(k)!Lost(r)
    PROVE  SessionInv(k)'
<1>1. LiveTypes(k) /\ PlayerInv /\ \A q \in k.ids : RequestInv(q)
  BY SessionTyped DEF SessionInv
<1>2. /\ deaf' = deaf \cup {r}
      /\ UNCHANGED <<now, pending, stored, tree, nodes, sessions, threads, heads, player, stale>>
  BY DEF Session!Lost, Session!database
<1>3. /\ stage' \in [k.ids -> StageSet]
      /\ request' \in [k.ids -> {None} \cup Session(k)!Request]
      /\ \A q \in k.ids \ {r} : stage'[q] = stage[q] /\ request'[q] = request[q]
      /\ request[r] # None => request'[r] = request[r]
      /\ stage'[r] # "new" /\ request'[r] # None
  <2>1. CASE Session(k)!Arrive(r)
    BY <1>1, <2>1, SessionArrives DEF Session!NoneAssumption
  <2>2. CASE (\E i \in 2 .. 5 : Session(k)!Advance(r, Session(k)!Stages[i], Session(k)!Stages[i + 1]))
             /\ UNCHANGED request
    <3>1. PICK i \in 2 .. 5 : Session(k)!Advance(r, Session(k)!Stages[i], Session(k)!Stages[i + 1])
      BY <2>2
    <3>2. i \in {2, 3, 4, 5}
      OBVIOUS
    <3>3. /\ Session(k)!Stages[i] \in StageSet \ {"new"}
          /\ Session(k)!Stages[i + 1] \in StageSet \ {"new"}
      BY <3>2 DEF Session!Stages, StageSet
    <3>4. /\ stage[r] # "new" /\ stage' \in [k.ids -> StageSet] /\ stage'[r] # "new"
          /\ \A q \in k.ids \ {r} : stage'[q] = stage[q]
      BY <1>1, <3>1, <3>3 DEF Session!Advance, LiveTypes
    <3>5. request[r] # None
      BY <1>1, <3>4 DEF RequestInv
    <3> QED
      BY <1>1, <2>2, <3>4, <3>5 DEF LiveTypes
  <2> QED
    BY <2>1, <2>2 DEF Session!Lost
<1>4. LiveTypes(k)'
  BY <1>1, <1>2, <1>3 DEF LiveTypes
<1>5. ASSUME NEW q \in k.ids \ {r} PROVE RequestInv(q)'
  BY <1>1, <1>2, <1>3, <1>5, RequestQuiet
<1>6. RequestInv(r)'
  <2>1. RequestInv(r) /\ r \in deaf'
    BY <1>1, <1>2
  <2>2. CASE request[r] = None
    <3>1. stored[r] = None /\ pending[r] = None /\ nodes[r] = None
      BY <2>1, <2>2 DEF RequestInv
    <3> QED
      BY <1>2, <1>3, <2>1, <3>1 DEF RequestInv
  <2>3. CASE request[r] # None
    BY <1>2, <1>3, <2>1, <2>3 DEF RequestInv
  <2> QED
    BY <2>2, <2>3
<1>7. PlayerInv'
  <2>1. \A q \in k.ids : request[q] # None => request'[q] = request[q]
    BY <1>3
  <2> QED
    BY <1>1, <1>2, <2>1, PlayerQuiet
<1> QED
  BY <1>2, <1>4, <1>5, <1>6, <1>7, SessionKeeps

\* An event changes the record of its request.
LEMMA SessionGathers ==
    ASSUME NEW k, Session(k)!InputsAssumption, Session(k)!NoneAssumption, SessionInv(k),
           NEW r \in k.ids,
           Session(k)!Extract(r) \/ Session(k)!UpstreamBody(r) \/ Session(k)!ConvertedBody(r)
    PROVE  SessionInv(k)'
<1>1. LiveTypes(k) /\ PlayerInv /\ \A q \in k.ids : RequestInv(q)
  BY SessionTyped DEF SessionInv
<1>2. UNCHANGED <<now, request, stored, tree, nodes, sessions, threads, heads, player, deaf, stale>>
  BY DEF Session!Extract, Session!UpstreamBody, Session!ConvertedBody, Session!database
<1> DEFINE e == Session(k)!EnsurePending(r)
<1>3. /\ stage[r] # "new" => request[r] \in Session(k)!Request /\ request[r] # None
      /\ e \in Session(k)!Pending
  BY <1>1, SessionRecordOf DEF LiveTypes, RequestInv
<1>4. ASSUME stage[r] # "new"
      PROVE  /\ e.endpoint => e.ts = request[r].ts
             /\ e.session \in {None, request[r].session} /\ e.input \in {<<>>, request[r].input}
             /\ r \notin deaf \cup stale /\ stage[r] \in {"started", "extracted", "answered", "converted"}
                  => e.endpoint
             /\ r \notin deaf \cup stale /\ stage[r] \in {"extracted", "answered", "converted"} =>
                  /\ e.session = request[r].session
                  /\ request[r].session # None => e.input = request[r].input
  <2>1. CASE pending[r] = None
    <3>1. ~e.endpoint /\ e.session = None /\ e.input = <<>>
      BY <1>1, <2>1, SessionRecordOf
    <3>2. r \notin deaf \cup stale => stage[r] \notin {"started", "extracted", "answered", "converted"}
      BY <1>1, <2>1 DEF RequestInv
    <3> QED
      BY <3>1, <3>2
  <2>2. CASE pending[r] # None
    <3>1. e = pending[r]
      BY <1>1, <2>2, SessionRecordOf
    <3> QED
      BY <1>1, <2>2, <3>1 DEF RequestInv
  <2> QED
    BY <2>1, <2>2
<1> HIDE DEF e
<1>5. ASSUME NEW p \in Session(k)!Pending, NEW to \in StageSet \ {"new", "started", "done"},
             stage[r] # "new", stage' = [stage EXCEPT ![r] = to],
             pending' = [pending EXCEPT ![r] = p],
             p.ts = e.ts, p.endpoint = e.endpoint,
             p.session \in {None, request[r].session}, p.input \in {<<>>, request[r].input},
             r \notin deaf \cup stale =>
               /\ p.endpoint /\ p.session = request[r].session
               /\ request[r].session # None => p.input = request[r].input
               /\ to = "converted" => p.converted = request[r].output
      PROVE  SessionInv(k)'
  <2>1. /\ stage' \in [k.ids -> StageSet] /\ stage'[r] = to
        /\ pending' \in [k.ids -> {None} \cup Session(k)!Pending] /\ pending'[r] = p /\ p # None
        /\ \A q \in k.ids \ {r} : stage'[q] = stage[q] /\ pending'[q] = pending[q]
    BY <1>1, <1>5 DEF LiveTypes, Session!NoneAssumption
  <2>2. LiveTypes(k)'
    BY <1>1, <1>2, <2>1 DEF LiveTypes
  <2>3. ASSUME NEW q \in k.ids \ {r} PROVE RequestInv(q)'
    BY <1>1, <1>2, <2>1, <2>3, RequestQuiet
  <2>4. RequestInv(r)'
    <3>1. RequestInv(r) /\ request[r] # None /\ to # "new" /\ to # "done"
      BY <1>1, <1>3, <1>5
    <3>2. p.endpoint => p.ts = request[r].ts
      BY <1>4, <1>5
    <3> QED
      BY <1>2, <1>5, <2>1, <3>1, <3>2 DEF RequestInv
  <2>5. PlayerInv'
    BY <1>1, <1>2, PlayerQuiet
  <2> QED
    BY <1>2, <2>2, <2>3, <2>4, <2>5, SessionKeeps
<1>6. CASE Session(k)!Extract(r)
  <2> DEFINE i == IF request[r].session = None THEN <<>> ELSE request[r].input
             p == [e EXCEPT !.session = request[r].session, !.input = i]
  <2>1. /\ stage[r] = "started" /\ stage' = [stage EXCEPT ![r] = "extracted"]
        /\ pending' = [pending EXCEPT ![r] = p]
    BY <1>6 DEF Session!Extract, Session!Advance, e
  <2>2. /\ request[r].session \in k.sessions \cup {None} /\ request[r].input \in k.inputs
    BY <1>3, <2>1 DEF Session!Request
  <2>3. /\ p \in Session(k)!Pending /\ p.session = request[r].session /\ p.input = i
        /\ p.ts = e.ts /\ p.endpoint = e.endpoint
    <3>1. i \in k.inputs \cup {<<>>}
      BY <2>2
    <3> HIDE DEF i
    <3> QED
      BY <1>3, <2>2, <3>1 DEF Session!Pending
  <2> HIDE DEF p
  <2> QED
    BY <1>4, <1>5, <2>1, <2>3 DEF StageSet
<1>7. CASE Session(k)!UpstreamBody(r)
  <2>1. PICK o \in k.outputs : pending' = [pending EXCEPT ![r] = [e EXCEPT !.upstream = o]]
    BY <1>7 DEF Session!UpstreamBody, e
  <2>2. stage[r] = "extracted" /\ stage' = [stage EXCEPT ![r] = "answered"]
    BY <1>7 DEF Session!UpstreamBody, Session!Advance
  <2> DEFINE p == [e EXCEPT !.upstream = o]
  <2>3. /\ p \in Session(k)!Pending /\ p.session = e.session /\ p.input = e.input
        /\ p.ts = e.ts /\ p.endpoint = e.endpoint
    BY <1>3 DEF Session!Pending
  <2> HIDE DEF p
  <2>4. pending' = [pending EXCEPT ![r] = p]
    BY <2>1 DEF p
  <2> QED
    BY <1>4, <1>5, <2>2, <2>3, <2>4 DEF StageSet
<1>8. CASE Session(k)!ConvertedBody(r)
  <2> DEFINE p == [e EXCEPT !.converted = request[r].output]
  <2>1. /\ stage[r] = "answered" /\ stage' = [stage EXCEPT ![r] = "converted"]
        /\ pending' = [pending EXCEPT ![r] = p]
    BY <1>8 DEF Session!ConvertedBody, Session!Advance, e
  <2>2. request[r].output \in k.outputs
    BY <1>3, <2>1 DEF Session!Request
  <2>3. /\ p \in Session(k)!Pending /\ p.session = e.session /\ p.input = e.input
        /\ p.ts = e.ts /\ p.endpoint = e.endpoint /\ p.converted = request[r].output
    BY <1>3, <2>2 DEF Session!Pending
  <2> HIDE DEF p
  <2> QED
    BY <1>4, <1>5, <2>1, <2>3 DEF StageSet
<1> QED
  BY <1>6, <1>7, <1>8

\* A request completes, and is recorded when it succeeded.
LEMMA SessionCompletes ==
    ASSUME NEW k, Session(k)!InputsAssumption, Session(k)!BoundsAssumption,
           Session(k)!NoneAssumption, SessionInv(k),
           NEW r \in k.ids, NEW success \in BOOLEAN, Session(k)!Completed(r, success)
    PROVE  SessionInv(k)'
<1>1. LiveTypes(k) /\ PlayerInv /\ DatabaseTypes(k) /\ \A q \in k.ids : RequestInv(q)
  BY SessionTyped DEF SessionInv
<1> DEFINE p == pending[r]
           rec == [ts |-> p.ts, session |-> p.session, input |-> p.input,
                   output |-> Session(k)!ResponseBody(p)]
           recorded == p # None /\ success /\ Session(k)!Recordable(p)
<1>2. /\ stage[r] = "converted" /\ pending' = [pending EXCEPT ![r] = None]
      /\ stage' = [stage EXCEPT ![r] = IF success THEN "done" ELSE "failed"]
      /\ IF recorded THEN Session(k)!RecordTree(r, rec)
                     ELSE UNCHANGED <<tree, nodes, sessions, threads, heads>>
      /\ UNCHANGED <<now, request, stored, player, deaf, stale>>
  BY DEF Session!Completed, Session!Advance, Session!database
<1>3. /\ stage' \in [k.ids -> StageSet] /\ stage'[r] = IF success THEN "done" ELSE "failed"
      /\ pending' \in [k.ids -> {None} \cup Session(k)!Pending] /\ pending'[r] = None
      /\ \A q \in k.ids \ {r} : stage'[q] = stage[q] /\ pending'[q] = pending[q]
  BY <1>1, <1>2 DEF LiveTypes, StageSet
<1>4. LiveTypes(k)'
  BY <1>1, <1>2, <1>3 DEF LiveTypes
<1>5. PlayerInv'
  BY <1>1, <1>2, PlayerQuiet
<1>6. /\ request[r] # None /\ request[r].output \in k.outputs /\ request[r].input \in k.inputs
      /\ request[r].input # <<>>
  <2>1. request[r] # None /\ request[r] \in Session(k)!Request
    BY <1>1, <1>2 DEF RequestInv, LiveTypes
  <2>2. request[r].output \in k.outputs /\ request[r].input \in k.inputs
    BY <2>1 DEF Session!Request
  <2> QED
    BY <2>1, <2>2 DEF Session!InputsAssumption
<1>7. r \notin deaf \cup stale =>
        /\ p # None /\ p.endpoint /\ p.session = request[r].session
        /\ request[r].session # None => p.input = request[r].input
        /\ p.converted = request[r].output /\ Session(k)!ResponseBody(p) = request[r].output
  <2>1. RequestInv(r)
    BY <1>1
  <2>2. r \notin deaf \cup stale =>
          /\ p # None /\ p.endpoint /\ p.session = request[r].session
          /\ request[r].session # None => p.input = request[r].input
          /\ p.converted = request[r].output
    BY <1>2, <2>1 DEF RequestInv
  <2>3. p.converted = request[r].output => Session(k)!ResponseBody(p) = request[r].output
    BY <1>6 DEF Session!ResponseBody, Session!NoneAssumption
  <2> QED
    BY <2>2, <2>3
<1>8. CASE recorded
  <2>1. /\ p \in Session(k)!Pending /\ p.session # None /\ p.endpoint
        /\ p.input # <<>> \/ Session(k)!ResponseBody(p) # <<>>
    BY <1>1, <1>8 DEF LiveTypes, Session!Recordable
  <2>2. /\ p.ts = request[r].ts /\ p.session = request[r].session
        /\ p.input \in {<<>>, request[r].input}
    BY <1>1, <1>8, <2>1 DEF RequestInv
  <2>3. Session(k)!ResponseBody(p) \in k.outputs \cup {<<>>}
    BY <2>1 DEF Session!Pending, Session!ResponseBody
  <2>4. rec \in Session(k)!Record
    BY <2>1, <2>3 DEF Session!Pending, Session!Record
  <2>5. /\ rec.ts = request[r].ts /\ rec.session = request[r].session
        /\ rec.input = p.input /\ rec.output = Session(k)!ResponseBody(p)
    BY <2>2
  <2> HIDE DEF rec
  <2>6. /\ DatabaseTypes(k)' /\ DatabaseInv(k)' /\ tree \subseteq tree'
        /\ \A q \in k.ids \ {r} : nodes'[q] = nodes[q]
        /\ nodes'[r] # None
        /\ nodes'[r].ts = request[r].ts /\ nodes'[r].session = request[r].session
        /\ nodes'[r].tip = rec.input \o rec.output /\ nodes'[r].tip \in tree'
        /\ Len(nodes'[r].tip) = nodes'[r].ins + nodes'[r].outs
        /\ SubSeq(nodes'[r].tip, 1, nodes'[r].ins) \in {<<>>, request[r].input}
    BY <1>2, <1>6, <1>8, <2>1, <2>2, <2>4, <2>5, Records
  <2>7. ASSUME NEW q \in k.ids \ {r} PROVE RequestInv(q)'
    BY <1>1, <1>2, <1>3, <2>6, <2>7, RequestQuiet
  <2>8. stored[r] # None => stored[r].input = request[r].input
    BY <1>1 DEF RequestInv
  <2>9. r \notin deaf \cup stale /\ request[r].session # None =>
          nodes'[r].tip = request[r].input \o request[r].output
    BY <1>7, <2>5, <2>6
  <2>10. RequestInv(r)'
    BY <1>2, <1>3, <1>6, <2>6, <2>8, <2>9 DEF RequestInv
  <2>11. Session(k)!TypeOK'
    BY <1>4, <2>6, StagesAre DEF Session!TypeOK, LiveTypes, DatabaseTypes
  <2> QED
    BY <1>5, <2>6, <2>7, <2>10, <2>11 DEF SessionInv
<1>9. CASE ~recorded
  <2>1. ASSUME NEW q \in k.ids \ {r} PROVE RequestInv(q)'
    BY <1>1, <1>2, <1>3, <1>9, <2>1, RequestQuiet
  <2>2. r \notin deaf \cup stale /\ success => request[r].session = None
    BY <1>6, <1>7, <1>9 DEF Session!Recordable
  <2>3. UNCHANGED <<tree, nodes, sessions, threads, heads>>
    BY <1>2, <1>9
  <2>4. RequestInv(r)'
    BY <1>1, <1>2, <1>3, <1>6, <2>2, <2>3 DEF RequestInv
  <2> QED
    BY <1>4, <1>5, <2>1, <2>3, <2>4, SessionKeeps
<1> QED
  BY <1>8, <1>9

\* The requests database gets a row, or the rest of one.
LEMMA SessionStores ==
    ASSUME NEW k, Session(k)!NoneAssumption, SessionInv(k), NEW r \in k.ids,
           Session(k)!StoreRequest(r) \/ Session(k)!StoreResponse(r)
    PROVE  SessionInv(k)'
<1>1. LiveTypes(k) /\ PlayerInv /\ \A q \in k.ids : RequestInv(q)
  BY SessionTyped DEF SessionInv
<1>2. /\ UNCHANGED <<now, stage, request, pending, tree, nodes, sessions, threads, heads,
                     player, deaf, stale>>
      /\ stage[r] # "new"
  BY DEF Session!StoreRequest, Session!StoreResponse, Session!database
<1>3. request[r] # None /\ request[r] \in Session(k)!Request
  BY <1>1, <1>2 DEF RequestInv, LiveTypes
<1>4. /\ stored' \in [k.ids -> {None} \cup Session(k)!Stored] /\ stored'[r] # None
      /\ stored'[r].input = request[r].input
      /\ \A q \in k.ids \ {r} : stored'[q] = stored[q]
  <2>1. CASE Session(k)!StoreRequest(r)
    <3>1. [input |-> request[r].input, output |-> <<>>] \in Session(k)!Stored
      BY <1>3 DEF Session!Request, Session!Stored
    <3> QED
      BY <1>1, <2>1, <3>1 DEF Session!StoreRequest, LiveTypes, Session!NoneAssumption
  <2>2. CASE Session(k)!StoreResponse(r)
    <3>1. stored[r] # None /\ stored[r] \in Session(k)!Stored /\ stored[r].input = request[r].input
      BY <1>1, <2>2 DEF Session!StoreResponse, LiveTypes, RequestInv
    <3>2. stored' = [stored EXCEPT ![r] = [stored[r] EXCEPT !.output = request[r].output]]
      BY <2>2 DEF Session!StoreResponse
    <3>3. /\ [stored[r] EXCEPT !.output = request[r].output] \in Session(k)!Stored
          /\ [stored[r] EXCEPT !.output = request[r].output].input = request[r].input
      BY <1>3, <3>1 DEF Session!Stored, Session!Request
    <3> QED
      BY <1>1, <3>2, <3>3 DEF LiveTypes, Session!NoneAssumption
  <2> QED
    BY <2>1, <2>2
<1>5. LiveTypes(k)'
  BY <1>1, <1>2, <1>4 DEF LiveTypes
<1>6. ASSUME NEW q \in k.ids \ {r} PROVE RequestInv(q)'
  BY <1>1, <1>2, <1>4, <1>6, RequestQuiet
<1>7. RequestInv(r)'
  BY <1>1, <1>2, <1>3, <1>4 DEF RequestInv
<1>8. PlayerInv'
  <2>1. \A q \in k.ids : stored[q] # None => stored'[q] # None
    BY <1>4
  <2> QED
    BY <1>1, <1>2, <2>1, PlayerQuiet
<1> QED
  BY <1>2, <1>5, <1>6, <1>7, <1>8, SessionKeeps

\* The playback takes a row, and records it.
LEMMA SessionPlays ==
    ASSUME NEW k, Session(k)!InputsAssumption, Session(k)!BoundsAssumption,
           Session(k)!NoneAssumption, SessionInv(k),
           \/ \E r \in k.ids, force \in BOOLEAN : Session(k)!PlayRow(r, force)
           \/ Session(k)!PlayRecord
    PROVE  SessionInv(k)'
<1>1. LiveTypes(k) /\ PlayerInv /\ DatabaseTypes(k) /\ \A q \in k.ids : RequestInv(q)
  BY SessionTyped DEF SessionInv
<1>2. ASSUME NEW r \in k.ids, NEW force \in BOOLEAN, Session(k)!PlayRow(r, force)
      PROVE  SessionInv(k)'
  <2> DEFINE rec == [ts |-> request[r].ts, session |-> request[r].session,
                     input |-> stored[r].input, output |-> stored[r].output]
  <2>1. /\ stored[r] # None /\ request[r].session # None
        /\ player' = [id |-> r, record |-> rec]
        /\ UNCHANGED <<now, stage, request, pending, stored, tree, nodes, sessions, threads,
                       heads, deaf, stale>>
    BY <1>2 DEF Session!PlayRow, Session!database
  <2>2. /\ request[r] # None /\ stored[r].input = request[r].input
        /\ request[r] \in Session(k)!Request /\ stored[r] \in Session(k)!Stored
    BY <1>1, <2>1 DEF RequestInv, LiveTypes
  <2>3. rec \in Session(k)!Record
    BY <2>1, <2>2 DEF Session!Request, Session!Stored, Session!Record
  <2>4. player' \in Session(k)!Playing
    BY <2>1, <2>3 DEF Session!Playing
  <2>5. LiveTypes(k)'
    BY <1>1, <2>1, <2>4 DEF LiveTypes
  <2>6. PlayerInv'
    BY <2>1, <2>2 DEF PlayerInv
  <2>7. ASSUME NEW q \in k.ids PROVE RequestInv(q)'
    BY <1>1, <2>1, <2>7, RequestQuiet
  <2> QED
    BY <2>1, <2>5, <2>6, <2>7, SessionKeeps
<1>3. CASE Session(k)!PlayRecord
  <2>1. player # None /\ player.id \in k.ids /\ player.record \in Session(k)!Record
    BY <1>1, <1>3 DEF LiveTypes, Session!Playing, Session!PlayRecord
  <2>2. PICK r \in k.ids, rec \in Session(k)!Record : r = player.id /\ rec = player.record
    BY <2>1
  <2>3. /\ player # None /\ Session(k)!RecordTree(r, rec) /\ player' = None
        /\ UNCHANGED <<now, stage, request, pending, stored, deaf, stale>>
    BY <1>3, <2>2 DEF Session!PlayRecord
  <2>4. /\ request[r] # None /\ stored[r] # None /\ rec.ts = request[r].ts
        /\ rec.session = request[r].session /\ rec.input = request[r].input
    BY <1>1, <2>3, <2>2 DEF PlayerInv
  <2>5. rec.input # <<>>
    <3>1. request[r] \in Session(k)!Request
      BY <1>1, <2>2, <2>4 DEF LiveTypes
    <3>2. request[r].input \in k.inputs
      BY <3>1 DEF Session!Request
    <3> QED
      BY <2>4, <3>2 DEF Session!InputsAssumption
  <2>6. rec.input \in {<<>>, request[r].input} /\ (rec.input # <<>> \/ rec.output # <<>>)
    BY <2>4, <2>5
  <2>7. /\ DatabaseTypes(k)' /\ DatabaseInv(k)' /\ tree \subseteq tree'
        /\ \A q \in k.ids \ {r} : nodes'[q] = nodes[q]
        /\ nodes'[r] # None
        /\ nodes'[r].ts = request[r].ts /\ nodes'[r].session = request[r].session
        /\ nodes'[r].tip = rec.input \o rec.output /\ nodes'[r].tip \in tree'
        /\ Len(nodes'[r].tip) = nodes'[r].ins + nodes'[r].outs
        /\ SubSeq(nodes'[r].tip, 1, nodes'[r].ins) \in {<<>>, request[r].input}
    BY <2>3, <2>4, <2>6, Records
  <2>8. ASSUME NEW q \in k.ids \ {r} PROVE RequestInv(q)'
    BY <1>1, <2>3, <2>7, <2>8, RequestQuiet
  <2>9. RequestInv(r)'
    <3>1. RequestInv(r)
      BY <1>1, <2>2
    <3> QED
      BY <2>3, <2>4, <2>7, <3>1 DEF RequestInv
  <2>10. LiveTypes(k)'
    BY <1>1, <2>3 DEF LiveTypes
  <2>11. PlayerInv'
    BY <2>3 DEF PlayerInv
  <2>12. Session(k)!TypeOK'
    BY <2>7, <2>10, StagesAre DEF Session!TypeOK, LiveTypes, DatabaseTypes
  <2> QED
    BY <2>7, <2>8, <2>9, <2>11, <2>12 DEF SessionInv
<1> QED
  BY <1>2, <1>3

\* Every step keeps the invariant.
LEMMA SessionNext ==
    ASSUME NEW k, Session(k)!InputsAssumption, Session(k)!BoundsAssumption,
           Session(k)!NoneAssumption, SessionInv(k), [Session(k)!Next]_(Session(k)!vars)
    PROVE  SessionInv(k)'
<1>1. LiveTypes(k) /\ PlayerInv /\ \A q \in k.ids : RequestInv(q)
  BY SessionTyped DEF SessionInv
<1>2. CASE now' \in 1 .. k.maxTs /\ UNCHANGED <<stage, request, pending, stored, tree, nodes,
             sessions, threads, heads, player, deaf, stale>>
  <2>1. LiveTypes(k)'
    BY <1>1, <1>2 DEF LiveTypes
  <2>2. PlayerInv'
    BY <1>1, <1>2 DEF PlayerInv
  <2>3. ASSUME NEW q \in k.ids PROVE RequestInv(q)'
    BY <1>1, <1>2, <2>3, RequestQuiet
  <2> QED
    BY <1>2, <2>1, <2>2, <2>3, SessionKeeps
<1>3. CASE UNCHANGED Session(k)!vars
  BY <1>1, <1>2, <1>3 DEF Session!vars, LiveTypes
<1>4. CASE Session(k)!Tick
  <2>1. now \in 1 .. k.maxTs /\ now < k.maxTs /\ now' = now + 1 /\ k.maxTs \in Nat
    BY <1>1, <1>4 DEF Session!Tick, LiveTypes, Session!BoundsAssumption
  <2>2. now' \in 1 .. k.maxTs
    BY <2>1
  <2> QED
    BY <1>2, <1>4, <2>2 DEF Session!Tick, Session!database
<1>5. CASE Session(k)!Live
  <2>1. PICK r \in k.ids :
          \/ Session(k)!Started(r) \/ Session(k)!Extract(r) \/ Session(k)!UpstreamBody(r)
          \/ Session(k)!ConvertedBody(r)
          \/ (\E success \in BOOLEAN : Session(k)!Completed(r, success)) \/ Session(k)!Lost(r)
          \/ Session(k)!StoreRequest(r) \/ Session(k)!StoreResponse(r)
    BY <1>5 DEF Session!Live
  <2> QED
    BY <2>1, SessionStarts, SessionGathers, SessionCompletes, SessionLoses, SessionStores
<1> QED
  BY <1>3, <1>4, <1>5, SessionPlays DEF Session!Next

\* The invariant gives what is promised of the trees.
LEMMA SessionProperties ==
    ASSUME NEW k, SessionInv(k)
    PROVE  /\ Session(k)!TypeOK /\ Session(k)!HeadIsNewest /\ Session(k)!ThreadSpansNodes
           /\ Session(k)!TreeWhole /\ Session(k)!SuccessRecorded
<1>1. Session(k)!TreeWhole
  BY DEF SessionInv, DatabaseInv, RequestInv, Session!TreeWhole
<1>2. Session(k)!SuccessRecorded
  BY DEF SessionInv, RequestInv, Session!SuccessRecorded
<1> QED
  BY <1>1, <1>2 DEF SessionInv, DatabaseInv

-----------------------------------------------------------------------------
(* The day files, their archives and the connections to them (RequestStore). *)

\* The maintenance lock is held exactly while the archive worker or the prune command
\* is at work.
LockHeld ==
    /\ lock = "archiver" <=> archiver.pc # "idle"
    /\ lock = "pruner" <=> pruner.pc # "idle"

\* No two days have one file, and a file that was renamed away has no day.
FilesApart ==
    /\ \A d, e \in Store!Days : db[d] # 0 /\ db[d] = db[e] => d = e
    /\ pruner.pc = "renamed" => \A d \in Store!Days : db[d] # pruner.ino

\* The worker copies an existing database that has no archive, and what it renames is
\* the copy of what that database holds.
Archiving ==
    /\ archiver.pc # "idle" => \A d \in archiver.todo : db[d] # 0
    /\ archiver.pc \in {"copy", "rename"} =>
          archiver.day \in Store!Days /\ archive[archiver.day] = NoFile /\ db[archiver.day] # 0
    /\ archiver.pc = "rename" =>
          temp[archiver.day] = [whole |-> TRUE, rows |-> content[db[archiver.day]]]

\* From its first comparison to the deletion of the file the prune command has an archive
\* with the contents of that file.
Pruning ==
    /\ pruner.pc # "idle" => \A d \in pruner.todo : db[d] # 0
    /\ pruner.pc \in {"verified", "rechecked", "renamed"} =>
          /\ pruner.day \in Store!Days /\ pruner.day \notin pruner.todo /\ pruner.ino # 0
          /\ archive[pruner.day] # NoFile
          /\ archive[pruner.day].rows = content[pruner.ino]
    /\ pruner.pc \in {"verified", "rechecked"} => db[pruner.day] = pruner.ino
    /\ pruner.pc = "renamed" => db[pruner.day] = 0

\* Day d holds something of request r.
HeldOn(r, d) == \E f \in Store!Facts : f[1] = r /\ Store!Holds(d, f)

\* What there is of a request without a record after Completed is on one day, the one it
\* is pinned to while it lasts; an event that is waiting finds it pinned there.
Routed ==
    /\ inbox # NoEvent => inbox.kind \in emitted[inbox.id]
    /\ \A r \in Ids \ late, d \in Store!Days : HeldOn(r, d) =>
          /\ emitted[r] # {}
          /\ pinned[r] = d \/ (pinned[r] = 0 /\ ("Completed" \in emitted[r] \/ emitted[r] = Kinds))
          /\ inbox # NoEvent /\ inbox.id = r => pinned[r] = d /\ inbox.kind # "Started"
          /\ \A e \in Store!Days : HeldOn(r, e) => d = e

StoreInv ==
    /\ Store!TypeOK /\ LockHeld /\ FilesApart /\ Archiving /\ Pruning /\ Routed
    /\ Store!CacheBounded /\ Store!NothingLost

\* The order without a day lists the others, each as often as before.
LEMMA WithoutDay ==
    ASSUME NEW S, NEW s \in Seq(S), NEW d,
           \A i, j \in DOMAIN s : s[i] = s[j] => i = j
    PROVE  LET t == Store!Without(s, d) IN
             /\ t \in Seq(S)
             /\ \A i, j \in DOMAIN t : t[i] = t[j] => i = j
             /\ \A e : (\E i \in DOMAIN t : t[i] = e) <=> e # d /\ \E i \in DOMAIN s : s[i] = e
             /\ Len(t) <= Len(s)
             /\ (\E i \in DOMAIN s : s[i] = d) => Len(t) = Len(s) - 1
<1> DEFINE t == Store!Without(s, d)
<1>1. CASE \E i \in DOMAIN s : s[i] = d
  <2>1. PICK at \in DOMAIN s : /\ s[at] = d
                               /\ t = [i \in 1..Len(s) - 1 |-> s[IF i < at THEN i ELSE i + 1]]
    BY <1>1 DEF Store!Without
  <2>2. at \in 1..Len(s) /\ Len(s) \in Nat /\ DOMAIN s = 1..Len(s)
    BY <2>1
  <2>3. DOMAIN t = 1..(Len(s) - 1) /\ Len(s) - 1 \in Nat
    BY <2>1, <2>2
  <2>4. \A i \in DOMAIN t : t[i] = s[IF i < at THEN i ELSE i + 1]
                            /\ (IF i < at THEN i ELSE i + 1) \in DOMAIN s \ {at}
    BY <2>1, <2>2, <2>3
  <2>5. t \in Seq(S) /\ Len(t) = Len(s) - 1
    BY <2>1, <2>2, <2>3, <2>4
  <2>6. \A i, j \in DOMAIN t : t[i] = t[j] => i = j
    BY <2>2, <2>3, <2>4
  <2>7. \A i \in DOMAIN t : t[i] # d
    BY <2>1, <2>4
  <2>8. ASSUME NEW i \in DOMAIN s, i # at
        PROVE  \E j \in DOMAIN t : t[j] = s[i]
    <3> DEFINE j == IF i < at THEN i ELSE i - 1
    <3>1. j \in DOMAIN t /\ (IF j < at THEN j ELSE j + 1) = i
      BY <2>2, <2>3, <2>8
    <3> QED
      BY <3>1, <2>4
  <2>9. ASSUME NEW e
        PROVE  (\E i \in DOMAIN t : t[i] = e) <=> e # d /\ \E i \in DOMAIN s : s[i] = e
    <3>1. ASSUME NEW i \in DOMAIN t, t[i] = e
          PROVE  e # d /\ \E j \in DOMAIN s : s[j] = e
      BY <3>1, <2>4, <2>7
    <3>2. ASSUME NEW i \in DOMAIN s, s[i] = e, e # d
          PROVE  \E j \in DOMAIN t : t[j] = e
      <4>1. i # at
        BY <3>2, <2>1
      <4> QED
        BY <4>1, <3>2, <2>8
    <3> QED
      BY <3>1, <3>2
  <2> QED
    BY <2>5, <2>6, <2>9, <2>2
<1>2. CASE ~\E i \in DOMAIN s : s[i] = d
  <2>1. t = s
    BY <1>2 DEF Store!Without
  <2> QED
    BY <1>2, <2>1
<1> QED
  BY <1>1, <1>2

LEMMA TailOf ==
    ASSUME NEW S, NEW s \in Seq(S), Len(s) # 0
    PROVE  /\ Head(s) = s[1] /\ 1 \in DOMAIN s
           /\ Tail(s) \in Seq(S) /\ Len(Tail(s)) = Len(s) - 1
           /\ \A i \in DOMAIN Tail(s) : i # 0 /\ i + 1 \in DOMAIN s /\ Tail(s)[i] = s[i + 1]
           /\ \A i \in DOMAIN s : i # 1 => i - 1 \in DOMAIN Tail(s) /\ s[i] = Tail(s)[i - 1]
OBVIOUS

\* A cache of the bound's size at most, with each open day once.
CacheKept(ord, con) ==
    /\ ord \in Seq(Store!Days)
    /\ Len(ord) <= CacheCap
    /\ \A i, j \in DOMAIN ord : ord[i] = ord[j] => i = j
    /\ \A d \in Store!Days : con[d] # 0 <=> \E i \in DOMAIN ord : ord[i] = d

\* conn_for_day keeps the cache's bound and its order.
LEMMA OpenDayKeeps ==
    ASSUME Store!CacheAssumption, NEW d \in Store!Days, CacheKept(order, conn),
           Store!ConnFor(d) # 0
    PROVE  CacheKept(Store!OpenDay(d).order, Store!OpenDay(d).conn)
<1> DEFINE kept == Store!Without(order, d)
           evicted == IF ~Store!Cached(d) /\ Len(kept) >= CacheCap THEN {Head(kept)} ELSE {}
           rest == IF evicted = {} THEN kept ELSE Tail(kept)
           ord == Append(rest, d)
           con == [k \in Store!Days |-> IF k = d THEN Store!ConnFor(d)
                                        ELSE IF k \in evicted THEN 0 ELSE conn[k]]
<1>0. Store!OpenDay(d).order = ord /\ Store!OpenDay(d).conn = con
  BY DEF Store!OpenDay
<1> HIDE DEF kept
<1>1. /\ kept \in Seq(Store!Days)
      /\ \A i, j \in DOMAIN kept : kept[i] = kept[j] => i = j
      /\ \A e : (\E i \in DOMAIN kept : kept[i] = e) <=> e # d /\ \E i \in DOMAIN order : order[i] = e
      /\ Len(kept) <= Len(order)
      /\ (\E i \in DOMAIN order : order[i] = d) => Len(kept) = Len(order) - 1
  BY WithoutDay DEF CacheKept, kept
<1>2. CacheCap \in Nat \ {0} /\ Len(order) \in Nat /\ Len(order) <= CacheCap
  BY DEF CacheKept, Store!CacheAssumption
<1>3. /\ rest \in Seq(Store!Days) /\ Len(rest) < CacheCap
      /\ \A i, j \in DOMAIN rest : rest[i] = rest[j] => i = j
      /\ \A e : (\E i \in DOMAIN rest : rest[i] = e)
                <=> e \notin evicted /\ \E i \in DOMAIN kept : kept[i] = e
  <2>1. CASE ~Store!Cached(d) /\ Len(kept) >= CacheCap
    <3>1. Len(kept) # 0
      BY <1>1, <1>2, <2>1
    <3>2. /\ evicted = {kept[1]} /\ 1 \in DOMAIN kept
          /\ rest \in Seq(Store!Days) /\ Len(rest) = Len(kept) - 1
          /\ \A i \in DOMAIN rest : i # 0 /\ i + 1 \in DOMAIN kept /\ rest[i] = kept[i + 1]
          /\ \A i \in DOMAIN kept : i # 1 => i - 1 \in DOMAIN rest /\ kept[i] = rest[i - 1]
      <4>1. evicted = {Head(kept)} /\ rest = Tail(kept)
        BY <2>1
      <4> HIDE DEF evicted, rest
      <4> QED
        BY <4>1, <3>1, <1>1, TailOf
    <3> HIDE DEF evicted, rest
    <3>3. \A i, j \in DOMAIN rest : rest[i] = rest[j] => i = j
      <4> SUFFICES ASSUME NEW i \in DOMAIN rest, NEW j \in DOMAIN rest, rest[i] = rest[j]
                   PROVE  i = j
        OBVIOUS
      <4>1. i + 1 \in DOMAIN kept /\ j + 1 \in DOMAIN kept /\ kept[i + 1] = kept[j + 1]
        BY <3>2
      <4>2. i + 1 = j + 1
        BY <4>1, <1>1
      <4>3. i \in Nat /\ j \in Nat
        BY <3>2
      <4> QED
        BY <4>2, <4>3
    <3>4. ASSUME NEW e
          PROVE  (\E i \in DOMAIN rest : rest[i] = e)
                 <=> e \notin evicted /\ \E i \in DOMAIN kept : kept[i] = e
      <4>1. ASSUME NEW i \in DOMAIN rest, rest[i] = e
            PROVE  e \notin evicted /\ \E j \in DOMAIN kept : kept[j] = e
        <5>1. i + 1 \in DOMAIN kept /\ kept[i + 1] = e /\ 1 \in DOMAIN kept /\ i \in Nat /\ i # 0
          BY <4>1, <3>2
        <5>2. kept[1] # e
          BY <5>1, <1>1
        <5> QED
          BY <5>1, <5>2, <3>2
      <4>2. ASSUME NEW i \in DOMAIN kept, kept[i] = e, e \notin evicted
            PROVE  \E j \in DOMAIN rest : rest[j] = e
        BY <4>2, <3>2
      <4> QED
        BY <4>1, <4>2
    <3> QED
      BY <3>2, <3>3, <3>4, <1>1, <1>2
  <2>2. CASE ~(~Store!Cached(d) /\ Len(kept) >= CacheCap)
    <3>1. evicted = {} /\ rest = kept
      BY <2>2
    <3>2. Len(kept) < CacheCap
      <4>1. CASE Store!Cached(d)
        <5>1. \E i \in DOMAIN order : order[i] = d
          BY <4>1 DEF Store!Cached, CacheKept
        <5> QED
          BY <5>1, <1>1, <1>2
      <4> QED
        BY <4>1, <2>2, <1>1, <1>2
    <3> QED
      BY <3>1, <3>2, <1>1
  <2> QED
    BY <2>1, <2>2
<1>4. \A i \in DOMAIN rest : rest[i] # d
  BY <1>1, <1>3
<1> HIDE DEF rest, evicted
<1>5. /\ ord \in Seq(Store!Days) /\ Len(ord) = Len(rest) + 1
      /\ \A i \in DOMAIN ord : IF i = Len(ord) THEN ord[i] = d
                               ELSE i \in DOMAIN rest /\ ord[i] = rest[i]
      /\ \A i \in DOMAIN rest : i \in DOMAIN ord /\ ord[i] = rest[i]
      /\ Len(ord) \in DOMAIN ord /\ ord[Len(ord)] = d
  BY <1>3
<1>6. \A i, j \in DOMAIN ord : ord[i] = ord[j] => i = j
  BY <1>5, <1>4, <1>3
<1>7. ASSUME NEW e \in Store!Days
      PROVE  con[e] # 0 <=> \E i \in DOMAIN ord : ord[i] = e
  <2>1. CASE e = d
    BY <2>1, <1>5
  <2>2. CASE e # d
    <3>1. (\E i \in DOMAIN ord : ord[i] = e) <=> \E i \in DOMAIN rest : rest[i] = e
      BY <2>2, <1>5
    <3>2. (\E i \in DOMAIN rest : rest[i] = e)
          <=> e \notin evicted /\ \E i \in DOMAIN order : order[i] = e
      BY <2>2, <1>3, <1>1
    <3>3. conn[e] # 0 <=> \E i \in DOMAIN order : order[i] = e
      BY DEF CacheKept
    <3>4. con[e] # 0 <=> e \notin evicted /\ conn[e] # 0
      BY <2>2
    <3> QED
      BY <3>1, <3>2, <3>3, <3>4
  <2> QED
    BY <2>1, <2>2
<1>8. Len(ord) <= CacheCap
  BY <1>5, <1>3, <1>2
<1> HIDE DEF ord, con
<1> QED
  BY <1>0, <1>5, <1>6, <1>7, <1>8 DEF CacheKept

\* clear_request keeps the cache's bound and its order.
LEMMA CloseDayKeeps ==
    ASSUME Store!CacheAssumption, NEW r, NEW d \in Store!Days, NEW opened, NEW S,
           opened.conn \in [Store!Days -> S], CacheKept(opened.order, opened.conn)
    PROVE  /\ CacheKept(Store!CloseDay(r, d, opened).order, Store!CloseDay(r, d, opened).conn)
           /\ Store!CloseDay(r, d, opened).conn \in [Store!Days -> S \cup {0}]
<1> DEFINE after == Store!CloseDay(r, d, opened)
           kept == Store!Without(opened.order, d)
<1>1. CASE \E s \in Ids \ {r} : pinned[s] = d
  <2>1. after = opened
    BY <1>1 DEF Store!CloseDay
  <2> QED
    BY <2>1
<1>2. CASE ~\E s \in Ids \ {r} : pinned[s] = d
  <2>1. after.order = kept /\ after.conn = [opened.conn EXCEPT ![d] = 0]
    BY <1>2 DEF Store!CloseDay
  <2>2. /\ kept \in Seq(Store!Days)
        /\ \A i, j \in DOMAIN kept : kept[i] = kept[j] => i = j
        /\ \A e : (\E i \in DOMAIN kept : kept[i] = e)
                  <=> e # d /\ \E i \in DOMAIN opened.order : opened.order[i] = e
        /\ Len(kept) <= Len(opened.order)
    <3>1. /\ opened.order \in Seq(Store!Days)
          /\ \A i, j \in DOMAIN opened.order : opened.order[i] = opened.order[j] => i = j
      BY DEF CacheKept
    <3> QED
      BY <3>1, WithoutDay
  <2> HIDE DEF kept, after
  <2>3. Len(kept) <= CacheCap
    <3>1. Len(kept) \in Nat /\ Len(opened.order) \in Nat /\ CacheCap \in Nat
      BY <2>2 DEF CacheKept, Store!CacheAssumption
    <3> QED
      BY <3>1, <2>2 DEF CacheKept
  <2>4. \A e \in Store!Days : after.conn[e] = IF e = d THEN 0 ELSE opened.conn[e]
    BY <2>1
  <2>5. \A e \in Store!Days : after.conn[e] # 0 <=> \E i \in DOMAIN kept : kept[i] = e
    BY <2>2, <2>4 DEF CacheKept
  <2>6. after.conn \in [Store!Days -> S \cup {0}]
    BY <2>1
  <2>7. CacheKept(after.order, after.conn)
    BY <2>1, <2>2, <2>3, <2>5 DEF CacheKept
  <2> QED
    BY <2>6, <2>7 DEF after
<1> QED
  BY <1>1, <1>2

HandlerTypes ==
    /\ emitted \in [Ids -> SUBSET Kinds]
    /\ inbox \in {NoEvent} \cup [id : Ids, kind : Kinds, day : Store!Days]
    /\ pinned \in [Ids -> 0..MaxDay]
    /\ conn \in [Store!Days -> Store!Inodes \cup {0}] /\ order \in Seq(Store!Days)
    /\ written \subseteq Store!Facts /\ late \subseteq Ids

FileTypes ==
    /\ today \in Store!Days
    /\ content \in Seq(SUBSET Store!Facts)
    /\ db \in [Store!Days -> Store!Inodes \cup {0}]
    /\ archive \in [Store!Days -> Store!Files] /\ temp \in [Store!Days -> Store!Files]
    /\ quarantine \subseteq Store!Inodes
    /\ cancelled \in BOOLEAN /\ crashes \in 0..MaxCrashes

WorkerTypes ==
    /\ lock \in {"none", "archiver", "pruner"}
    /\ archiver \in [pc : {"idle", "scan", "copy", "rename"}, day : 0..MaxDay,
                     ino : {0}, todo : SUBSET Store!Days]
    /\ pruner \in [pc : {"idle", "scan", "verified", "rechecked", "renamed"},
                   day : 0..MaxDay, ino : Store!Inodes \cup {0}, todo : SUBSET Store!Days]

LEMMA StoreTyped == Store!TypeOK <=> HandlerTypes /\ FileTypes /\ WorkerTypes
BY DEF Store!TypeOK, HandlerTypes, FileTypes, WorkerTypes

\* The rows of a request are facts about it.
LEMMA RowsOf ==
    ASSUME Store!KindsAssumption, NEW r \in Ids, NEW k \in Kinds, NEW present
    PROVE  /\ Store!Rows(r, k, present) \subseteq Store!Facts
           /\ \A f \in Store!Rows(r, k, present) : f[1] = r
<1> DEFINE tables == {"connection", "metadata", "downstream", "upstream"}
<1>1. k \in DOMAIN Store!Tables
  BY DEF Store!KindsAssumption
<1>2. Store!Tables[k] \subseteq tables
  BY <1>1 DEF Store!Tables
<1>3. ASSUME NEW f \in Store!Rows(r, k, present)
      PROVE  f \in Store!Facts /\ f[1] = r
  <2>1. \/ \E t \in Store!Tables[k] : f = <<r, t, k>>
        \/ f = <<r, "connection", k>>
    BY <1>3 DEF Store!Rows
  <2>2. PICK t \in tables : f = <<r, t, k>>
    BY <2>1, <1>2
  <2> QED
    BY <2>2 DEF Store!Facts
<1> QED
  BY <1>3

LEMMA StoreInit ==
    Store!BoundsAssumption /\ Store!CacheAssumption /\ Store!Init => StoreInv
<1> SUFFICES ASSUME Store!BoundsAssumption, Store!CacheAssumption, Store!Init PROVE StoreInv
  OBVIOUS
<1>1. HandlerTypes
  BY DEF HandlerTypes, Store!Init, Store!BoundsAssumption
<1>2. FileTypes
  <2>1. 1 \in Store!Days /\ 0 \in 0..MaxCrashes
    BY DEF Store!Days, Store!BoundsAssumption
  <2>2. content \in Seq(SUBSET Store!Facts) /\ quarantine \subseteq Store!Inodes
    BY DEF Store!Init
  <2>3. archive \in [Store!Days -> Store!Files] /\ temp \in [Store!Days -> Store!Files]
    BY DEF Store!Init, Store!Files
  <2>4. db \in [Store!Days -> Store!Inodes \cup {0}]
    BY DEF Store!Init
  <2> QED
    BY <2>1, <2>2, <2>3, <2>4 DEF FileTypes, Store!Init
<1>3. WorkerTypes
  BY DEF WorkerTypes, Store!Init, Store!Idle, Store!BoundsAssumption
<1>4. LockHeld /\ FilesApart /\ Archiving /\ Pruning
  BY DEF LockHeld, FilesApart, Archiving, Pruning, Store!Init, Store!Idle
<1>5. Routed
  BY DEF Routed, HeldOn, Store!Holds, Store!Init
<1>6. Store!CacheBounded /\ Store!NothingLost
  BY DEF Store!CacheBounded, Store!NothingLost, Store!Init, Store!CacheAssumption
<1> QED
  BY <1>1, <1>2, <1>3, <1>4, <1>5, <1>6, StoreTyped DEF StoreInv

\* The statements of a handler on the file of day d: they need the lock to be free, so
\* neither worker is between two steps, and they make a file, or add to the one there is.
LEMMA WriteKeeps ==
    ASSUME Store!KindsAssumption, StoreInv, lock = "none",
           NEW r \in Ids, NEW k \in Kinds, NEW d \in Store!Days, Store!Write(r, k, d),
           UNCHANGED <<archive, temp, quarantine, lock, archiver, pruner>>
    PROVE  /\ content' \in Seq(SUBSET Store!Facts) /\ Store!Inodes \subseteq Store!Inodes'
           /\ Store!ConnFor(d) \in Store!Inodes' /\ Store!ConnFor(d) # 0
           /\ db' \in [Store!Days -> Store!Inodes' \cup {0}] /\ written' \subseteq Store!Facts
           /\ FilesApart' /\ Archiving' /\ Pruning' /\ Store!NothingLost'
           /\ \A s \in Ids, e \in Store!Days :
                 HeldOn(s, e)' => HeldOn(s, e) \/ (s = r /\ e = d)
<1> DEFINE ino == Store!ConnFor(d)
           present == IF ino \in Store!Inodes THEN content[ino] ELSE {}
           rows_ == Store!Rows(r, k, present)
<1>0. HandlerTypes /\ FileTypes /\ WorkerTypes
  BY StoreTyped DEF StoreInv
<1>1. /\ content' = IF ino \in Store!Inodes THEN [content EXCEPT ![ino] = @ \cup rows_]
                    ELSE Append(content, rows_)
      /\ db' = IF ino \in Store!Inodes THEN db ELSE [db EXCEPT ![d] = ino]
      /\ written' = written \cup rows_
  BY DEF Store!Write
<1>2. rows_ \subseteq Store!Facts /\ \A f \in rows_ : f[1] = r
  BY RowsOf
<1>3. /\ content \in Seq(SUBSET Store!Facts) /\ Store!Inodes = 1..Len(content)
      /\ Len(content) \in Nat /\ db \in [Store!Days -> Store!Inodes \cup {0}]
  BY <1>0 DEF FileTypes, Store!Inodes
<1>4. IF db[d] # 0 THEN ino = db[d] /\ ino \in Store!Inodes
      ELSE ino = Len(content) + 1 /\ ino \notin Store!Inodes
  BY <1>3 DEF Store!ConnFor, Store!Cached, Store!MatchesPath
<1> HIDE DEF ino, rows_
<1>5. /\ content' \in Seq(SUBSET Store!Facts) /\ Store!Inodes \subseteq Store!Inodes'
      /\ ino \in Store!Inodes' /\ ino # 0
      /\ \A i \in Store!Inodes' : IF i \in Store!Inodes /\ i # ino THEN content'[i] = content[i]
                                  ELSE i = ino
      /\ rows_ \subseteq content'[ino]
      /\ content'[ino] \subseteq rows_ \cup (IF ino \in Store!Inodes THEN content[ino] ELSE {})
      /\ \A i \in Store!Inodes : content[i] \subseteq content'[i]
  <2>1. CASE ino \in Store!Inodes
    <3>1. content' = [content EXCEPT ![ino] = content[ino] \cup rows_]
      BY <1>1, <2>1
    <3>2. content' \in Seq(SUBSET Store!Facts) /\ Len(content') = Len(content)
      BY <3>1, <1>3, <1>2, <2>1
    <3>3. Store!Inodes' = Store!Inodes
      BY <3>1 DEF Store!Inodes
    <3> QED
      BY <3>1, <3>2, <3>3, <2>1, <1>3
  <2>2. CASE ino \notin Store!Inodes
    <3>1. content' = Append(content, rows_) /\ ino = Len(content) + 1
      BY <1>1, <1>4, <2>2
    <3>2. content' \in Seq(SUBSET Store!Facts) /\ Len(content') = Len(content) + 1
      BY <3>1, <1>3, <1>2
    <3>3. Store!Inodes' = 1..(Len(content) + 1)
      BY <3>2 DEF Store!Inodes
    <3> QED
      BY <3>1, <3>2, <3>3, <2>2, <1>3
  <2> QED
    BY <2>1, <2>2
<1>6. /\ db' \in [Store!Days -> Store!Inodes' \cup {0}]
      /\ db'[d] = ino /\ \A e \in Store!Days : e # d => db'[e] = db[e]
      /\ db[d] # 0 => db[d] = ino
  BY <1>1, <1>3, <1>4, <1>5
<1>7. lock # "archiver" /\ lock # "pruner" /\ archiver.pc = "idle" /\ pruner.pc = "idle"
  BY DEF StoreInv, LockHeld
<1>8. FilesApart'
  <2> SUFFICES ASSUME NEW e \in Store!Days, NEW g \in Store!Days, db'[e] # 0, db'[e] = db'[g]
               PROVE  e = g
    BY <1>7 DEF FilesApart, Store!Days
  <2>1. \A x \in Store!Days : x # d /\ db[x] # 0 => db[x] # ino
    BY <1>3, <1>4 DEF StoreInv, FilesApart
  <2> QED
    BY <2>1, <1>6, <1>5 DEF StoreInv, FilesApart
<1>9. Archiving' /\ Pruning'
  BY <1>7 DEF Archiving, Pruning
<1>10. ASSUME NEW s \in Ids, NEW e \in Store!Days, HeldOn(s, e)'
       PROVE  HeldOn(s, e) \/ (s = r /\ e = d)
  <2>1. PICK f \in Store!Facts : f[1] = s /\ Store!Holds(e, f)'
    BY <1>10 DEF HeldOn, Store!Facts
  <2>2. CASE archive[e] # NoFile /\ f \in archive[e].rows
    BY <2>1, <2>2 DEF HeldOn, Store!Holds
  <2>3. CASE db'[e] # 0 /\ f \in content'[db'[e]]
    <3>1. CASE e # d
      <4>1. db[e] # 0 /\ db[e] \in Store!Inodes /\ db'[e] = db[e]
        BY <1>3, <1>6, <2>3, <3>1
      <4>2. db[e] # ino
        BY <4>1, <1>3, <1>4, <3>1 DEF StoreInv, FilesApart
      <4>3. f \in content[db[e]]
        BY <4>1, <4>2, <1>5, <2>3
      <4> QED
        BY <4>1, <4>3, <2>1 DEF HeldOn, Store!Holds
    <3>2. CASE e = d /\ s # r
      <4>1. f \notin rows_ /\ f \in content'[ino]
        BY <1>2, <1>6, <2>1, <2>3, <3>2
      <4>2. ino \in Store!Inodes /\ f \in content[ino]
        BY <4>1, <1>5
      <4>3. db[d] # 0 /\ db[d] = ino
        BY <4>2, <1>4
      <4> QED
        BY <4>2, <4>3, <3>2, <2>1 DEF HeldOn, Store!Holds
    <3> QED
      BY <3>1, <3>2
  <2> QED
    BY <2>1, <2>2, <2>3 DEF Store!Holds
<1>11. Store!NothingLost'
  <2> SUFFICES ASSUME NEW f \in written'
               PROVE  \/ \E e \in Store!Days : Store!Holds(e, f)'
                      \/ \E i \in quarantine' : f \in content'[i]
    BY DEF Store!NothingLost, Store!Days
  <2>1. CASE f \in rows_
    <3>1. Store!Holds(d, f)'
      BY <2>1, <1>5, <1>6 DEF Store!Holds
    <3> QED
      BY <3>1
  <2>2. CASE f \in written
    <3>1. CASE \E i \in quarantine : f \in content[i]
      BY <3>1, <1>5, <1>0 DEF FileTypes
    <3>2. CASE \E e \in Store!Days : Store!Holds(e, f)
      <4>1. PICK e \in Store!Days : Store!Holds(e, f)
        BY <3>2
      <4>2. CASE archive[e] # NoFile /\ f \in archive[e].rows
        BY <4>2 DEF Store!Holds
      <4>3. CASE db[e] # 0 /\ f \in content[db[e]]
        <5>1. db'[e] = db[e] /\ db[e] \in Store!Inodes
          BY <4>3, <1>3, <1>6
        <5>2. Store!Holds(e, f)'
          BY <5>1, <4>3, <1>5 DEF Store!Holds
        <5> QED
          BY <5>2
      <4> QED
        BY <4>1, <4>2, <4>3 DEF Store!Holds
    <3> QED
      BY <3>1, <3>2, <2>2 DEF StoreInv, Store!NothingLost
  <2> QED
    BY <2>1, <2>2, <1>1
<1>12. written' \subseteq Store!Facts
  BY <1>0, <1>1, <1>2 DEF HandlerTypes
<1> QED
  BY <1>5, <1>6, <1>8, <1>9, <1>10, <1>11, <1>12 DEF ino

\* A handler that writes keeps all but the routing of its request.
LEMMA HandlerKeeps ==
    ASSUME Store!KindsAssumption, Store!CacheAssumption, StoreInv, lock = "none",
           NEW r \in Ids, NEW k \in Kinds, NEW d \in Store!Days, Store!Write(r, k, d),
           UNCHANGED <<today, emitted, archive, temp, quarantine, lock, archiver, pruner,
                       cancelled, crashes, late>>,
           \/ conn' = Store!OpenDay(d).conn /\ order' = Store!OpenDay(d).order
           \/ /\ conn' = Store!CloseDay(r, d, Store!OpenDay(d)).conn
              /\ order' = Store!CloseDay(r, d, Store!OpenDay(d)).order,
           pinned' \in [Ids -> 0..MaxDay], inbox' \in {NoEvent, inbox}
    PROVE  /\ Store!TypeOK' /\ LockHeld' /\ FilesApart' /\ Archiving' /\ Pruning'
           /\ Store!CacheBounded' /\ Store!NothingLost'
<1>0. HandlerTypes /\ FileTypes /\ WorkerTypes
  BY StoreTyped DEF StoreInv
<1>1. /\ content' \in Seq(SUBSET Store!Facts) /\ Store!Inodes \subseteq Store!Inodes'
      /\ Store!ConnFor(d) \in Store!Inodes' /\ Store!ConnFor(d) # 0
      /\ db' \in [Store!Days -> Store!Inodes' \cup {0}] /\ written' \subseteq Store!Facts
      /\ FilesApart' /\ Archiving' /\ Pruning' /\ Store!NothingLost'
  BY WriteKeeps
<1>2. LockHeld'
  BY DEF StoreInv, LockHeld
<1>3. Store!Days' = Store!Days /\ Store!Facts' = Store!Facts /\ Store!Files' = Store!Files
  BY DEF Store!Days, Store!Facts, Store!Files, Store!Copies
<1>4. CacheKept(order, conn)
  BY <1>0 DEF StoreInv, Store!CacheBounded, CacheKept, HandlerTypes
<1>5. CacheKept(Store!OpenDay(d).order, Store!OpenDay(d).conn)
  BY <1>1, <1>4, OpenDayKeeps
<1>6. Store!OpenDay(d).conn \in [Store!Days -> Store!Inodes' \cup {0}]
  BY <1>0, <1>1 DEF Store!OpenDay, HandlerTypes
<1>7. /\ CacheKept(Store!CloseDay(r, d, Store!OpenDay(d)).order,
                   Store!CloseDay(r, d, Store!OpenDay(d)).conn)
      /\ Store!CloseDay(r, d, Store!OpenDay(d)).conn
            \in [Store!Days -> Store!Inodes' \cup {0} \cup {0}]
  BY <1>5, <1>6, CloseDayKeeps
<1>8. CacheKept(order', conn') /\ conn' \in [Store!Days -> Store!Inodes' \cup {0}]
  BY <1>5, <1>6, <1>7
<1>9. Store!CacheBounded' /\ order' \in Seq(Store!Days)
  BY <1>8, <1>3 DEF CacheKept, Store!CacheBounded
<1>10. HandlerTypes'
  <2>1. inbox' \in {NoEvent} \cup [id : Ids, kind : Kinds, day : Store!Days]
    BY <1>0 DEF HandlerTypes
  <2> QED
    BY <1>0, <1>1, <1>3, <1>8, <1>9, <2>1 DEF HandlerTypes
<1>11. FileTypes'
  BY <1>0, <1>1, <1>3 DEF FileTypes
<1>12. WorkerTypes'
  <2>1. pruner.ino \in Store!Inodes' \cup {0}
    BY <1>0, <1>1 DEF WorkerTypes
  <2>2. pruner \in [pc : {"idle", "scan", "verified", "rechecked", "renamed"},
                    day : 0..MaxDay, ino : Store!Inodes' \cup {0}, todo : SUBSET Store!Days]
    BY <1>0, <2>1 DEF WorkerTypes
  <2> QED
    BY <1>0, <2>2, <1>3 DEF WorkerTypes
<1>13. Store!TypeOK'
  BY <1>10, <1>11, <1>12 DEF Store!TypeOK, HandlerTypes, FileTypes, WorkerTypes
<1> QED
  BY <1>1, <1>2, <1>9, <1>13

LEMMA OnStartedKeeps ==
    ASSUME Store!KindsAssumption, Store!CacheAssumption, StoreInv, Store!OnStarted
    PROVE  StoreInv'
<1>0. HandlerTypes
  BY StoreTyped DEF StoreInv
<1>1. PICK e \in [id : Ids, kind : Kinds, day : Store!Days] : e = inbox
  BY <1>0 DEF Store!OnStarted, HandlerTypes
<1>2. PICK r \in Ids, d \in Store!Days : r = e.id /\ d = e.day
  BY <1>1
<1>3. "Started" \in Kinds
  BY DEF Store!KindsAssumption
<1>4. /\ lock = "none" /\ inbox # NoEvent
      /\ inbox.kind = "Started" \/ (inbox.kind \in Store!Records /\ pinned[inbox.id] = 0)
      /\ Store!Write(inbox.id, "Started", inbox.day)
      /\ conn' = Store!OpenDay(inbox.day).conn /\ order' = Store!OpenDay(inbox.day).order
      /\ pinned' = [pinned EXCEPT ![inbox.id] = inbox.day]
      /\ inbox' = IF inbox.kind = "Started" THEN NoEvent ELSE inbox
      /\ UNCHANGED <<today, emitted, archive, temp, quarantine, lock, archiver, pruner,
                     cancelled, crashes, late>>
  BY DEF Store!OnStarted, Store!WriteLock, Store!copies, Store!workers
<1>5. /\ Store!Write(r, "Started", d) /\ r = inbox.id /\ d = inbox.day
      /\ conn' = Store!OpenDay(d).conn /\ order' = Store!OpenDay(d).order
  BY <1>1, <1>2, <1>4
<1>6. pinned' = [pinned EXCEPT ![r] = d] /\ pinned' \in [Ids -> 0..MaxDay]
  BY <1>0, <1>4, <1>5 DEF HandlerTypes, Store!Days
<1>7. /\ Store!TypeOK' /\ LockHeld' /\ FilesApart' /\ Archiving' /\ Pruning'
      /\ Store!CacheBounded' /\ Store!NothingLost'
  <2>1. inbox' \in {NoEvent, inbox}
    BY <1>4
  <2>2. /\ Store!Write(r, "Started", d)
        /\ conn' = Store!OpenDay(d).conn /\ order' = Store!OpenDay(d).order
    BY <1>5
  <2> QED
    BY <1>3, <1>4, <2>2, <1>6, <2>1, HandlerKeeps
<1>8. \A s \in Ids, x \in Store!Days : HeldOn(s, x)' => HeldOn(s, x) \/ (s = r /\ x = d)
  <2>1. Store!Write(r, "Started", d)
    BY <1>5
  <2> QED
    BY <1>3, <1>4, <2>1, WriteKeeps
<1>9. r \notin late => \A x \in Store!Days : ~HeldOn(r, x)
  BY <1>4, <1>5 DEF StoreInv, Routed, Store!Days
<1>10. Routed'
  <2>1. inbox' # NoEvent => inbox'.kind \in emitted'[inbox'.id]
    BY <1>4 DEF StoreInv, Routed
  <2>2. ASSUME NEW s \in Ids \ late, NEW x \in Store!Days, HeldOn(s, x)'
        PROVE  /\ emitted'[s] # {}
               /\ \/ pinned'[s] = x
                  \/ pinned'[s] = 0 /\ ("Completed" \in emitted'[s] \/ emitted'[s] = Kinds)
               /\ inbox' # NoEvent /\ inbox'.id = s => pinned'[s] = x /\ inbox'.kind # "Started"
               /\ \A y \in Store!Days : HeldOn(s, y)' => x = y
    <3>1. CASE s = r
      <4>1. x = d /\ \A y \in Store!Days : HeldOn(r, y)' => y = d
        BY <2>2, <3>1, <1>8, <1>9
      <4>2. pinned'[r] = d
        BY <1>6, <1>0 DEF HandlerTypes
      <4>3. emitted[r] # {}
        BY <1>4, <1>5 DEF StoreInv, Routed
      <4> QED
        BY <3>1, <4>1, <4>2, <4>3, <1>4
    <3>2. CASE s # r
      <4>1. HeldOn(s, x) /\ \A y \in Store!Days : HeldOn(s, y)' => HeldOn(s, y)
        BY <2>2, <3>2, <1>8
      <4>2. pinned'[s] = pinned[s] /\ (inbox' # NoEvent => inbox'.id # s)
        BY <1>4, <1>5, <1>6, <3>2
      <4> QED
        BY <4>1, <4>2, <1>4 DEF StoreInv, Routed
    <3> QED
      BY <3>1, <3>2
  <2>3. Store!Days' = Store!Days /\ late' = late
    BY <1>4 DEF Store!Days
  <2> QED
    BY <2>1, <2>2, <2>3 DEF Routed
<1> QED
  BY <1>7, <1>10 DEF StoreInv

LEMMA OnUpdateKeeps ==
    ASSUME Store!KindsAssumption, Store!CacheAssumption, StoreInv, Store!OnUpdate
    PROVE  StoreInv'
<1>0. HandlerTypes
  BY StoreTyped DEF StoreInv
<1>1. /\ lock = "none" /\ inbox # NoEvent /\ inbox' = NoEvent
      /\ LET d == pinned[inbox.id] IN
           /\ d # 0 /\ Store!Write(inbox.id, inbox.kind, d)
           /\ conn' = Store!OpenDay(d).conn /\ order' = Store!OpenDay(d).order
      /\ UNCHANGED <<today, emitted, pinned, archive, temp, quarantine, lock, archiver,
                     pruner, cancelled, crashes, late>>
  BY DEF Store!OnUpdate, Store!WriteLock, Store!RouteDay, Store!copies, Store!workers
<1>2. PICK r \in Ids, k \in Kinds : r = inbox.id /\ k = inbox.kind
  BY <1>0, <1>1 DEF HandlerTypes
<1>3. PICK d \in Store!Days : d = pinned[r]
  BY <1>0, <1>1, <1>2 DEF HandlerTypes, Store!Days
<1>4. /\ Store!Write(r, k, d) /\ conn' = Store!OpenDay(d).conn
      /\ order' = Store!OpenDay(d).order
  BY <1>1, <1>2, <1>3
<1>5. /\ Store!TypeOK' /\ LockHeld' /\ FilesApart' /\ Archiving' /\ Pruning'
      /\ Store!CacheBounded' /\ Store!NothingLost'
  <2>1. pinned' \in [Ids -> 0..MaxDay] /\ inbox' \in {NoEvent, inbox}
    BY <1>0, <1>1 DEF HandlerTypes
  <2> QED
    BY <1>1, <1>4, <2>1, HandlerKeeps
<1>6. \A s \in Ids, x \in Store!Days : HeldOn(s, x)' => HeldOn(s, x) \/ (s = r /\ x = d)
  BY <1>1, <1>4, WriteKeeps
<1>7. r \notin late => \A x \in Store!Days : HeldOn(r, x) => x = d
  BY <1>1, <1>2, <1>3 DEF StoreInv, Routed, Store!Days
<1>8. Routed'
  <2>1. inbox' = NoEvent
    BY <1>1
  <2>2. ASSUME NEW s \in Ids \ late, NEW x \in Store!Days, HeldOn(s, x)'
        PROVE  /\ emitted'[s] # {}
               /\ \/ pinned'[s] = x
                  \/ pinned'[s] = 0 /\ ("Completed" \in emitted'[s] \/ emitted'[s] = Kinds)
               /\ \A y \in Store!Days : HeldOn(s, y)' => x = y
    <3>1. CASE s = r
      <4>1. x = d /\ \A y \in Store!Days : HeldOn(r, y)' => y = d
        BY <2>2, <3>1, <1>6, <1>7
      <4>2. emitted[r] # {}
        BY <1>1, <1>2 DEF StoreInv, Routed
      <4> QED
        BY <3>1, <4>1, <4>2, <1>1, <1>3
    <3>2. CASE s # r
      <4>1. HeldOn(s, x) /\ \A y \in Store!Days : HeldOn(s, y)' => HeldOn(s, y)
        BY <2>2, <3>2, <1>6
      <4> QED
        BY <4>1, <1>1 DEF StoreInv, Routed
    <3> QED
      BY <3>1, <3>2
  <2>3. Store!Days' = Store!Days /\ late' = late
    BY <1>1 DEF Store!Days
  <2> QED
    BY <2>1, <2>2, <2>3 DEF Routed
<1> QED
  BY <1>5, <1>8 DEF StoreInv

LEMMA OnCompletedKeeps ==
    ASSUME Store!KindsAssumption, Store!CacheAssumption, Store!BoundsAssumption, StoreInv,
           Store!OnCompleted
    PROVE  StoreInv'
<1>0. HandlerTypes
  BY StoreTyped DEF StoreInv
<1>1. /\ lock = "none" /\ inbox # NoEvent /\ inbox.kind = "Completed" /\ inbox' = NoEvent
      /\ LET d == pinned[inbox.id] IN
           /\ d # 0 /\ Store!Write(inbox.id, "Completed", d)
           /\ conn' = Store!CloseDay(inbox.id, d, Store!OpenDay(d)).conn
           /\ order' = Store!CloseDay(inbox.id, d, Store!OpenDay(d)).order
      /\ pinned' = [pinned EXCEPT ![inbox.id] = 0]
      /\ UNCHANGED <<today, emitted, archive, temp, quarantine, lock, archiver, pruner,
                     cancelled, crashes, late>>
  BY DEF Store!OnCompleted, Store!WriteLock, Store!RouteDay, Store!copies, Store!workers
<1>2. PICK r \in Ids : r = inbox.id /\ "Completed" \in Kinds
  BY <1>0, <1>1 DEF HandlerTypes
<1>3. PICK d \in Store!Days : d = pinned[r]
  <2>1. pinned[r] # 0
    BY <1>1, <1>2
  <2>2. pinned[r] \in 0..MaxDay
    BY <1>0 DEF HandlerTypes
  <2> QED
    BY <2>1, <2>2 DEF Store!Days
<1>4. /\ Store!Write(r, "Completed", d)
      /\ conn' = Store!CloseDay(r, d, Store!OpenDay(d)).conn
      /\ order' = Store!CloseDay(r, d, Store!OpenDay(d)).order
  BY <1>1, <1>2, <1>3
<1>5. /\ pinned' \in [Ids -> 0..MaxDay] /\ pinned'[r] = 0
      /\ \A s \in Ids : s # r => pinned'[s] = pinned[s]
  <2>1. 0 \in 0..MaxDay /\ pinned' = [pinned EXCEPT ![r] = 0]
    BY <1>1, <1>2 DEF Store!BoundsAssumption
  <2> QED
    BY <1>0, <2>1 DEF HandlerTypes
<1>6. /\ Store!TypeOK' /\ LockHeld' /\ FilesApart' /\ Archiving' /\ Pruning'
      /\ Store!CacheBounded' /\ Store!NothingLost'
  <2>1. pinned' \in [Ids -> 0..MaxDay] /\ inbox' \in {NoEvent, inbox} /\ "Completed" \in Kinds
    BY <1>1, <1>2, <1>5
  <2> QED
    BY <1>1, <1>4, <2>1, HandlerKeeps
<1>7. \A s \in Ids, x \in Store!Days : HeldOn(s, x)' => HeldOn(s, x) \/ (s = r /\ x = d)
  <2>1. "Completed" \in Kinds
    BY <1>2
  <2> QED
    BY <1>1, <1>4, <2>1, WriteKeeps
<1>8. r \notin late => \A x \in Store!Days : HeldOn(r, x) => x = d
  BY <1>1, <1>2, <1>3 DEF StoreInv, Routed, Store!Days
<1>9. Routed'
  <2>1. inbox' = NoEvent
    BY <1>1
  <2>2. ASSUME NEW s \in Ids \ late, NEW x \in Store!Days, HeldOn(s, x)'
        PROVE  /\ emitted'[s] # {}
               /\ \/ pinned'[s] = x
                  \/ pinned'[s] = 0 /\ ("Completed" \in emitted'[s] \/ emitted'[s] = Kinds)
               /\ \A y \in Store!Days : HeldOn(s, y)' => x = y
    <3>1. CASE s = r
      <4>1. x = d /\ \A y \in Store!Days : HeldOn(r, y)' => y = d
        BY <2>2, <3>1, <1>7, <1>8
      <4>2. "Completed" \in emitted[r]
        BY <1>1, <1>2 DEF StoreInv, Routed
      <4> QED
        BY <3>1, <4>1, <4>2, <1>1, <1>5
    <3>2. CASE s # r
      <4>1. HeldOn(s, x) /\ \A y \in Store!Days : HeldOn(s, y)' => HeldOn(s, y)
        BY <2>2, <3>2, <1>7
      <4> QED
        BY <4>1, <3>2, <1>1, <1>5 DEF StoreInv, Routed
    <3> QED
      BY <3>1, <3>2
  <2>3. Store!Days' = Store!Days /\ late' = late
    BY <1>1 DEF Store!Days
  <2> QED
    BY <2>1, <2>2, <2>3 DEF Routed
<1> QED
  BY <1>6, <1>9 DEF StoreInv

\* What the files hold, while no file changes.
LEMMA FilesStay ==
    ASSUME StoreInv, UNCHANGED <<db, content, archive, quarantine, pruner, written>>
    PROVE  /\ FilesApart' /\ Pruning' /\ Store!NothingLost'
           /\ \A s, x : HeldOn(s, x)' = HeldOn(s, x)
<1>1. Store!Days' = Store!Days /\ Store!Facts' = Store!Facts
  BY DEF Store!Days, Store!Facts
<1>2. \A x, f : Store!Holds(x, f)' = Store!Holds(x, f)
  BY DEF Store!Holds
<1>3. FilesApart' /\ Pruning'
  BY <1>1 DEF StoreInv, FilesApart, Pruning
<1>4. Store!NothingLost'
  BY <1>1, <1>2 DEF StoreInv, Store!NothingLost
<1>5. \A s, x : HeldOn(s, x)' = HeldOn(s, x)
  BY <1>1, <1>2 DEF HeldOn
<1> QED
  BY <1>3, <1>4, <1>5

LEMMA EmitKeeps ==
    ASSUME StoreInv, NEW r \in Ids, NEW k \in Kinds,
           Store!EmitEvent(r, k) \/ Store!LoseEvent(r, k)
    PROVE  StoreInv'
<1>0. HandlerTypes /\ FileTypes /\ WorkerTypes
  BY StoreTyped DEF StoreInv
<1>1. /\ Store!MayEmit(r, k)
      /\ emitted' = [emitted EXCEPT ![r] = @ \cup {k}]
      /\ UNCHANGED <<today, pinned, conn, order, db, content, archive, temp, quarantine,
                     lock, archiver, pruner, cancelled, crashes, written>>
      /\ \/ inbox' = inbox /\ late' = late
         \/ /\ inbox = NoEvent
            /\ inbox' = [id |-> r, kind |-> k, day |-> today]
            /\ late' = IF "Completed" \in emitted[r] THEN late \cup {r} ELSE late
  BY DEF Store!EmitEvent, Store!LoseEvent, Store!copies, Store!workers
<1>2. /\ FilesApart' /\ Pruning' /\ Store!NothingLost'
      /\ \A s, x : HeldOn(s, x)' = HeldOn(s, x)
  BY <1>1, FilesStay
<1>3. Store!Days' = Store!Days /\ Store!Inodes' = Store!Inodes /\ Store!Facts' = Store!Facts
      /\ Store!Files' = Store!Files
  BY <1>1 DEF Store!Days, Store!Inodes, Store!Facts, Store!Files, Store!Copies
<1>4. LockHeld' /\ Archiving' /\ Store!CacheBounded'
  BY <1>1, <1>3 DEF StoreInv, LockHeld, Archiving, Store!CacheBounded
<1>5. emitted' \in [Ids -> SUBSET Kinds]
  BY <1>0, <1>1 DEF HandlerTypes
<1>6. HandlerTypes'
  <2>1. inbox' \in {NoEvent} \cup [id : Ids, kind : Kinds, day : Store!Days] /\ late' \subseteq Ids
    BY <1>0, <1>1 DEF HandlerTypes, FileTypes
  <2> QED
    BY <1>0, <1>1, <1>3, <1>5, <2>1 DEF HandlerTypes
<1>7. FileTypes' /\ WorkerTypes'
  BY <1>0, <1>1, <1>3 DEF FileTypes, WorkerTypes
<1>8. emitted'[r] = emitted[r] \cup {k} /\ \A s \in Ids : s # r => emitted'[s] = emitted[s]
  BY <1>0, <1>1 DEF HandlerTypes
<1>9. Routed'
  <2>1. inbox' # NoEvent => inbox'.kind \in emitted'[inbox'.id]
    BY <1>0, <1>1, <1>8 DEF StoreInv, Routed, HandlerTypes
  <2>2. ASSUME NEW s \in Ids \ late', NEW x \in Store!Days, HeldOn(s, x)
        PROVE  /\ emitted'[s] # {}
               /\ \/ pinned[s] = x
                  \/ pinned[s] = 0 /\ ("Completed" \in emitted'[s] \/ emitted'[s] = Kinds)
               /\ inbox' # NoEvent /\ inbox'.id = s => pinned[s] = x /\ inbox'.kind # "Started"
               /\ \A y \in Store!Days : HeldOn(s, y) => x = y
    <3>1. /\ s \notin late /\ emitted[s] # {}
          /\ \/ pinned[s] = x
             \/ pinned[s] = 0 /\ ("Completed" \in emitted[s] \/ emitted[s] = Kinds)
          /\ inbox # NoEvent /\ inbox.id = s => pinned[s] = x /\ inbox.kind # "Started"
          /\ \A y \in Store!Days : HeldOn(s, y) => x = y
      <4>1. s \notin late
        BY <1>1, <2>2
      <4> QED
        BY <4>1, <2>2 DEF StoreInv, Routed
    <3>2. /\ emitted'[s] # {}
          /\ "Completed" \in emitted[s] => "Completed" \in emitted'[s]
          /\ emitted[s] = Kinds => emitted'[s] = Kinds
      BY <1>0, <1>8, <3>1 DEF HandlerTypes
    <3>3. ASSUME inbox' # NoEvent, inbox'.id = s, inbox' # inbox
          PROVE  pinned[s] = x /\ inbox'.kind # "Started"
      <4>1. inbox' = [id |-> r, kind |-> k, day |-> today] /\ s = r
        BY <1>1, <3>3
      <4>2. k \notin emitted[r] /\ emitted[r] # {} /\ k # "Started" /\ "Completed" \notin emitted[r]
        BY <1>1, <2>2, <3>1, <3>3, <4>1 DEF Store!MayEmit
      <4> QED
        BY <4>1, <4>2, <3>1
    <3> QED
      BY <3>1, <3>2, <3>3
  <2> QED
    BY <2>1, <2>2, <1>1, <1>2, <1>3 DEF Routed
<1> QED
  BY <1>2, <1>4, <1>6, <1>7, <1>9 DEF StoreInv, Store!TypeOK, HandlerTypes, FileTypes, WorkerTypes

\* The event the handler is at is dropped.
LEMMA DropKeeps ==
    ASSUME StoreInv, Store!OnOrphan \/ Store!WriteFails
    PROVE  StoreInv'
<1>0. HandlerTypes /\ FileTypes /\ WorkerTypes
  BY StoreTyped DEF StoreInv
<1>1. /\ inbox' = NoEvent
      /\ UNCHANGED <<today, emitted, pinned, conn, order, db, content, archive, temp, quarantine,
                     lock, archiver, pruner, cancelled, crashes, written, late>>
  BY DEF Store!OnOrphan, Store!WriteFails, Store!copies, Store!workers
<1>2. /\ FilesApart' /\ Pruning' /\ Store!NothingLost'
      /\ \A s, x : HeldOn(s, x)' = HeldOn(s, x)
  BY <1>1, FilesStay
<1>3. Store!Days' = Store!Days /\ Store!Inodes' = Store!Inodes /\ Store!Facts' = Store!Facts
      /\ Store!Files' = Store!Files
  BY <1>1 DEF Store!Days, Store!Inodes, Store!Facts, Store!Files, Store!Copies
<1>4. LockHeld' /\ Archiving' /\ Store!CacheBounded'
  BY <1>1, <1>3 DEF StoreInv, LockHeld, Archiving, Store!CacheBounded
<1>5. HandlerTypes' /\ FileTypes' /\ WorkerTypes'
  BY <1>0, <1>1, <1>3 DEF HandlerTypes, FileTypes, WorkerTypes
<1>6. Routed'
  BY <1>1, <1>2, <1>3 DEF StoreInv, Routed
<1> QED
  BY <1>2, <1>4, <1>5, <1>6 DEF StoreInv, Store!TypeOK, HandlerTypes, FileTypes, WorkerTypes

LEMMA NextDayKeeps ==
    ASSUME Store!BoundsAssumption, StoreInv, Store!NextDay
    PROVE  StoreInv'
<1>0. HandlerTypes /\ FileTypes /\ WorkerTypes
  BY StoreTyped DEF StoreInv
<1>1. /\ today < MaxDay /\ today' = today + 1
      /\ UNCHANGED <<emitted, inbox, pinned, conn, order, db, content, archive, temp,
                     quarantine, lock, archiver, pruner, cancelled, crashes, written, late>>
  BY DEF Store!NextDay, Store!handler, Store!copies, Store!workers
<1>2. /\ FilesApart' /\ Pruning' /\ Store!NothingLost'
      /\ \A s, x : HeldOn(s, x)' = HeldOn(s, x)
  BY <1>1, FilesStay
<1>3. Store!Days' = Store!Days /\ Store!Inodes' = Store!Inodes /\ Store!Facts' = Store!Facts
      /\ Store!Files' = Store!Files
  BY <1>1 DEF Store!Days, Store!Inodes, Store!Facts, Store!Files, Store!Copies
<1>4. LockHeld' /\ Archiving' /\ Store!CacheBounded'
  BY <1>1, <1>3 DEF StoreInv, LockHeld, Archiving, Store!CacheBounded
<1>5. today' \in Store!Days
  BY <1>0, <1>1 DEF FileTypes, Store!Days, Store!BoundsAssumption
<1>6. HandlerTypes' /\ FileTypes' /\ WorkerTypes'
  BY <1>0, <1>1, <1>3, <1>5 DEF HandlerTypes, FileTypes, WorkerTypes
<1>7. Routed'
  BY <1>1, <1>2, <1>3 DEF StoreInv, Routed
<1> QED
  BY <1>2, <1>4, <1>6, <1>7 DEF StoreInv, Store!TypeOK, HandlerTypes, FileTypes, WorkerTypes

\* The server starts again: nothing is pinned or open, and nothing more is emitted of the
\* requests there were.
LEMMA ServerCrashKeeps ==
    ASSUME Store!BoundsAssumption, Store!CacheAssumption, StoreInv, Store!ServerCrash
    PROVE  StoreInv'
<1>0. HandlerTypes /\ FileTypes /\ WorkerTypes
  BY StoreTyped DEF StoreInv
<1>1. /\ crashes < MaxCrashes /\ crashes' = crashes + 1
      /\ emitted' = [r \in Ids |-> IF emitted[r] = {} THEN {} ELSE Kinds]
      /\ inbox' = NoEvent /\ pinned' = [r \in Ids |-> 0]
      /\ conn' = [d \in Store!Days |-> 0] /\ order' = <<>>
      /\ archiver' = Store!Idle /\ cancelled' = FALSE
      /\ lock' = IF lock = "archiver" THEN "none" ELSE lock
      /\ UNCHANGED <<today, db, content, archive, temp, quarantine, pruner, written, late>>
  BY DEF Store!ServerCrash, Store!copies
<1>2. /\ FilesApart' /\ Pruning' /\ Store!NothingLost'
      /\ \A s, x : HeldOn(s, x)' = HeldOn(s, x)
  BY <1>1, FilesStay
<1>3. Store!Days' = Store!Days /\ Store!Inodes' = Store!Inodes /\ Store!Facts' = Store!Facts
      /\ Store!Files' = Store!Files
  BY <1>1 DEF Store!Days, Store!Inodes, Store!Facts, Store!Files, Store!Copies
<1>4. LockHeld' /\ Archiving' /\ Store!CacheBounded'
  BY <1>1, <1>3 DEF StoreInv, LockHeld, Archiving, Store!CacheBounded, Store!Idle,
                    Store!CacheAssumption
<1>5. HandlerTypes'
  BY <1>0, <1>1, <1>3 DEF HandlerTypes, Store!BoundsAssumption
<1>6. FileTypes'
  <2>1. crashes' \in 0..MaxCrashes
    BY <1>0, <1>1 DEF FileTypes, Store!BoundsAssumption
  <2> QED
    BY <1>0, <1>1, <1>3, <2>1 DEF FileTypes
<1>7. WorkerTypes'
  <2>1. archiver' \in [pc : {"idle", "scan", "copy", "rename"}, day : 0..MaxDay,
                       ino : {0}, todo : SUBSET Store!Days]
    BY <1>1 DEF Store!Idle, Store!BoundsAssumption
  <2> QED
    BY <1>0, <1>1, <1>3, <2>1 DEF WorkerTypes
<1>8. Routed'
  <2>1. \A s \in Ids : emitted[s] # {} => emitted'[s] # {} /\ emitted'[s] = Kinds
    BY <1>0, <1>1 DEF HandlerTypes
  <2>2. inbox' = NoEvent /\ \A s \in Ids : pinned'[s] = 0
    BY <1>1
  <2> QED
    BY <1>1, <1>2, <1>3, <2>1, <2>2 DEF StoreInv, Routed
<1> QED
  BY <1>2, <1>4, <1>5, <1>6, <1>7, <1>8
     DEF StoreInv, Store!TypeOK, HandlerTypes, FileTypes, WorkerTypes

\* What the handler knows of the files holds while they hold no more than they did.
LEMMA HandlerStays ==
    ASSUME StoreInv,
           UNCHANGED <<content, emitted, inbox, pinned, conn, order, written, late>>,
           \A s \in Ids, x \in Store!Days : HeldOn(s, x)' => HeldOn(s, x)
    PROVE  HandlerTypes' /\ Store!CacheBounded' /\ Routed'
<1>0. HandlerTypes
  BY StoreTyped DEF StoreInv
<1>1. Store!Days' = Store!Days /\ Store!Inodes' = Store!Inodes /\ Store!Facts' = Store!Facts
  BY DEF Store!Days, Store!Inodes, Store!Facts
<1>2. HandlerTypes' /\ Store!CacheBounded'
  BY <1>0, <1>1 DEF HandlerTypes, StoreInv, Store!CacheBounded
<1>3. Routed'
  BY <1>1 DEF StoreInv, Routed
<1> QED
  BY <1>2, <1>3

LEMMA ArchiveKeeps ==
    ASSUME Store!BoundsAssumption, StoreInv,
           Store!ArchiveScan \/ Store!ArchiveStep \/ Store!Cancel
    PROVE  StoreInv'
<1> DEFINE Kept ==
      /\ archive' \in [Store!Days -> Store!Files] /\ temp' \in [Store!Days -> Store!Files]
      /\ cancelled' \in BOOLEAN /\ lock' \in {"none", "archiver", "pruner"}
      /\ archiver' \in [pc : {"idle", "scan", "copy", "rename"}, day : 0..MaxDay,
                        ino : {0}, todo : SUBSET Store!Days]
      /\ LockHeld' /\ Archiving' /\ Pruning' /\ Store!NothingLost'
      /\ \A s \in Ids, x \in Store!Days : HeldOn(s, x)' => HeldOn(s, x)
<1>0. HandlerTypes /\ FileTypes /\ WorkerTypes
  BY StoreTyped DEF StoreInv
<1>1. /\ UNCHANGED <<today, emitted, inbox, pinned, conn, order, written, late, db, content,
                     crashes, quarantine, pruner>>
  BY DEF Store!ArchiveScan, Store!ArchiveStep, Store!Cancel, Store!ArchiveSkip,
         Store!ArchiveStart, Store!ArchiveEncode, Store!ArchiveRename, Store!ArchiveFails,
         Store!ArchiveCancelled, Store!ArchiveDone, Store!untouched, Store!handler
<1>2. Store!Days' = Store!Days /\ Store!Inodes' = Store!Inodes /\ Store!Facts' = Store!Facts
      /\ Store!Files' = Store!Files
  BY <1>1 DEF Store!Days, Store!Inodes, Store!Facts, Store!Files, Store!Copies
<1>3. /\ archive \in [Store!Days -> Store!Files] /\ temp \in [Store!Days -> Store!Files]
      /\ cancelled \in BOOLEAN /\ lock \in {"none", "archiver", "pruner"}
      /\ archiver \in [pc : {"idle", "scan", "copy", "rename"}, day : 0..MaxDay,
                       ino : {0}, todo : SUBSET Store!Days]
      /\ content \in Seq(SUBSET Store!Facts) /\ db \in [Store!Days -> Store!Inodes \cup {0}]
  BY <1>0 DEF FileTypes, WorkerTypes
<1>4. archive' = archive =>
        /\ Pruning' /\ Store!NothingLost'
        /\ \A s \in Ids, x \in Store!Days : HeldOn(s, x)' => HeldOn(s, x)
  BY <1>1, FilesStay
<1>5. Store!Days \subseteq 0..MaxDay /\ 0 \in 0..MaxDay /\ NoFile \in Store!Files
      /\ [whole |-> FALSE, rows |-> {}] \in Store!Files
  BY DEF Store!Days, Store!Files, Store!Copies, Store!BoundsAssumption
<1>6. LockHeld /\ Archiving /\ Pruning /\ Store!NothingLost
  BY DEF StoreInv
<1>7. ASSUME Store!Cancel
      PROVE  Kept
  BY <1>7, <1>1, <1>2, <1>3, <1>4, <1>6 DEF Store!Cancel, Store!copies, LockHeld, Archiving
<1>8. ASSUME Store!ArchiveScan
      PROVE  Kept
  <2>1. /\ archiver.pc = "idle" /\ lock = "none" /\ lock' = "archiver"
        /\ archiver' = [Store!Idle EXCEPT !.pc = "scan", !.todo = Store!Old(ArchiveAfter)]
        /\ UNCHANGED <<archive, temp, cancelled>>
    BY <1>8 DEF Store!ArchiveScan, Store!copies
  <2>2. Store!Old(ArchiveAfter) \subseteq Store!Days
        /\ \A d \in Store!Old(ArchiveAfter) : db[d] # 0
    BY DEF Store!Old
  <2>3. archiver' = [pc |-> "scan", day |-> 0, ino |-> 0, todo |-> Store!Old(ArchiveAfter)]
    BY <2>1 DEF Store!Idle
  <2>4. LockHeld' /\ Archiving'
    BY <1>1, <1>6, <2>1, <2>2, <2>3 DEF LockHeld, Archiving
  <2> QED
    BY <1>3, <1>4, <1>5, <2>1, <2>2, <2>3, <2>4
<1>9. ASSUME NEW d \in Store!Days, Store!ArchiveSkip(d) \/ Store!ArchiveStart(d)
      PROVE  Kept
  <2>1. /\ archiver.pc = "scan" /\ d \in archiver.todo
        /\ UNCHANGED <<archive, lock, cancelled>>
        /\ \/ temp' = temp /\ archiver' = [archiver EXCEPT !.todo = @ \ {d}]
           \/ /\ archive[d] = NoFile
              /\ temp' = [temp EXCEPT ![d] = [whole |-> FALSE, rows |-> {}]]
              /\ archiver' = [archiver EXCEPT !.pc = "copy", !.day = d, !.todo = @ \ {d}]
    BY <1>9 DEF Store!ArchiveSkip, Store!ArchiveStart, Store!copies
  <2>2. temp' \in [Store!Days -> Store!Files]
    BY <1>3, <1>5, <2>1
  <2>3. /\ archiver'.todo = archiver.todo \ {d}
        /\ archiver'.pc = "scan" \/ (archiver'.pc = "copy" /\ archiver'.day = d /\ archive[d] = NoFile)
    BY <1>3, <2>1
  <2>4. archiver' \in [pc : {"idle", "scan", "copy", "rename"}, day : 0..MaxDay,
                       ino : {0}, todo : SUBSET Store!Days]
    BY <1>3, <1>5, <2>1
  <2>5. db[d] # 0
    BY <1>6, <2>1 DEF Archiving
  <2>6. LockHeld' /\ Archiving'
    BY <1>1, <1>2, <1>6, <2>1, <2>3, <2>5 DEF LockHeld, Archiving
  <2> QED
    BY <1>3, <1>4, <2>1, <2>2, <2>4, <2>6
<1>10. ASSUME Store!ArchiveEncode
      PROVE  Kept
  <2>1. /\ archiver.pc = "copy" /\ UNCHANGED <<archive, lock, cancelled>>
        /\ temp' = [temp EXCEPT ![archiver.day] =
                       [whole |-> TRUE, rows |-> content[db[archiver.day]]]]
        /\ archiver' = [archiver EXCEPT !.pc = "rename"]
    BY <1>10 DEF Store!ArchiveEncode
  <2>2. /\ archiver.day \in Store!Days /\ archive[archiver.day] = NoFile
        /\ db[archiver.day] # 0
    BY <1>6, <2>1 DEF Archiving
  <2>3. content[db[archiver.day]] \in SUBSET Store!Facts
    BY <1>3, <2>2 DEF Store!Inodes
  <2>4. temp' \in [Store!Days -> Store!Files]
    BY <1>3, <2>1, <2>3 DEF Store!Files, Store!Copies
  <2>5. /\ archiver'.pc = "rename" /\ archiver'.day = archiver.day
        /\ archiver'.todo = archiver.todo
    BY <1>3, <2>1
  <2>6. archiver' \in [pc : {"idle", "scan", "copy", "rename"}, day : 0..MaxDay,
                       ino : {0}, todo : SUBSET Store!Days]
    BY <1>3, <2>1
  <2>7. temp'[archiver.day] = [whole |-> TRUE, rows |-> content[db[archiver.day]]]
    BY <1>3, <2>1, <2>2
  <2>8. LockHeld' /\ Archiving'
    BY <1>1, <1>2, <1>6, <2>1, <2>2, <2>5, <2>7 DEF LockHeld, Archiving
  <2> QED
    BY <1>3, <1>4, <2>1, <2>4, <2>6, <2>8
<1>11. ASSUME Store!ArchiveFails
      PROVE  Kept
  <2>1. /\ archiver.pc \in {"copy", "rename"} /\ UNCHANGED <<archive, lock, cancelled>>
        /\ temp' = [temp EXCEPT ![archiver.day] = NoFile]
        /\ archiver' = [archiver EXCEPT !.pc = "scan", !.day = 0]
    BY <1>11 DEF Store!ArchiveFails
  <2>2. temp' \in [Store!Days -> Store!Files]
    BY <1>3, <1>5, <2>1
  <2>3. archiver'.pc = "scan" /\ archiver'.todo = archiver.todo
    BY <1>3, <2>1
  <2>4. archiver' \in [pc : {"idle", "scan", "copy", "rename"}, day : 0..MaxDay,
                       ino : {0}, todo : SUBSET Store!Days]
    BY <1>3, <1>5, <2>1
  <2>5. LockHeld' /\ Archiving'
    BY <1>1, <1>2, <1>6, <2>1, <2>3 DEF LockHeld, Archiving
  <2> QED
    BY <1>3, <1>4, <2>1, <2>2, <2>4, <2>5
<1>12. ASSUME Store!ArchiveCancelled \/ Store!ArchiveDone
      PROVE  Kept
  <2>1. /\ archiver.pc \in {"scan", "copy"} /\ UNCHANGED <<archive, cancelled>>
        /\ temp' = temp \/ temp' = [temp EXCEPT ![archiver.day] = NoFile]
        /\ archiver' = Store!Idle /\ lock' = "none"
    BY <1>12 DEF Store!ArchiveCancelled, Store!ArchiveDone, Store!copies
  <2>2. temp' \in [Store!Days -> Store!Files]
    BY <1>3, <1>5, <2>1
  <2>3. archiver' \in [pc : {"idle", "scan", "copy", "rename"}, day : 0..MaxDay,
                       ino : {0}, todo : SUBSET Store!Days]
    BY <1>5, <2>1 DEF Store!Idle
  <2>4. LockHeld' /\ Archiving'
    BY <1>1, <1>6, <2>1 DEF LockHeld, Archiving, Store!Idle
  <2> QED
    BY <1>3, <1>4, <2>1, <2>2, <2>3, <2>4
<1>13. ASSUME Store!ArchiveRename
      PROVE  Kept
  <2>1. /\ archiver.pc = "rename" /\ UNCHANGED <<lock, cancelled>>
        /\ archive' = [archive EXCEPT ![archiver.day] = temp[archiver.day]]
        /\ temp' = [temp EXCEPT ![archiver.day] = NoFile]
        /\ archiver' = [archiver EXCEPT !.pc = "scan", !.day = 0]
    BY <1>13 DEF Store!ArchiveRename
  <2>2. PICK d \in Store!Days : d = archiver.day
    BY <1>6, <2>1 DEF Archiving
  <2>3. /\ archive[d] = NoFile /\ db[d] # 0
        /\ temp[d] = [whole |-> TRUE, rows |-> content[db[d]]]
    BY <1>6, <2>1, <2>2 DEF Archiving
  <2>4. /\ archive' = [archive EXCEPT ![d] = temp[d]]
        /\ archive' \in [Store!Days -> Store!Files] /\ temp' \in [Store!Days -> Store!Files]
    BY <1>3, <1>5, <2>1, <2>2
  <2>5. archiver'.pc = "scan" /\ archiver'.todo = archiver.todo
    BY <1>3, <2>1
  <2>6. archiver' \in [pc : {"idle", "scan", "copy", "rename"}, day : 0..MaxDay,
                       ino : {0}, todo : SUBSET Store!Days]
    BY <1>3, <1>5, <2>1
  <2>7. LockHeld' /\ Archiving' /\ Pruning'
    BY <1>1, <1>2, <1>6, <2>1, <2>5 DEF LockHeld, Archiving, Pruning
  <2>8. \A x \in Store!Days : \A f : Store!Holds(x, f)' <=> Store!Holds(x, f)
    <3> SUFFICES ASSUME NEW x \in Store!Days, NEW f
                 PROVE  Store!Holds(x, f)' <=> Store!Holds(x, f)
      OBVIOUS
    <3>1. CASE x = d
      <4>1. archive'[d] = temp[d] /\ temp[d].rows = content[db[d]]
        BY <1>3, <2>3, <2>4
      <4> QED
        BY <3>1, <4>1, <1>1, <2>3 DEF Store!Holds
    <3>2. CASE x # d
      BY <3>2, <1>1, <1>3, <2>4 DEF Store!Holds
    <3> QED
      BY <3>1, <3>2
  <2>9. \A s \in Ids, x \in Store!Days : HeldOn(s, x)' => HeldOn(s, x)
    BY <2>8, <1>2 DEF HeldOn
  <2>10. Store!NothingLost'
    BY <1>1, <1>2, <1>6, <2>8 DEF Store!NothingLost
  <2> QED
    BY <1>3, <2>1, <2>4, <2>6, <2>7, <2>9, <2>10
<1>14. Kept
  <2> HIDE DEF Kept
  <2> QED
    BY <1>7, <1>8, <1>9, <1>10, <1>11, <1>12, <1>13 DEF Store!ArchiveStep
<1>15. HandlerTypes' /\ Store!CacheBounded' /\ Routed'
  BY <1>1, <1>14, HandlerStays
<1>16. FileTypes' /\ WorkerTypes' /\ FilesApart'
  BY <1>0, <1>1, <1>2, <1>14 DEF FileTypes, WorkerTypes, StoreInv, FilesApart
<1> QED
  BY <1>14, <1>15, <1>16 DEF StoreInv, Store!TypeOK, HandlerTypes, FileTypes, WorkerTypes

\* What the files hold, while no file changes and whatever the prune command does.
LEMMA HoldsStay ==
    ASSUME StoreInv, UNCHANGED <<db, content, archive, quarantine, written>>
    PROVE  Store!NothingLost' /\ \A s, x : HeldOn(s, x)' = HeldOn(s, x)
<1>1. Store!Days' = Store!Days /\ Store!Facts' = Store!Facts
  BY DEF Store!Days, Store!Facts
<1>2. \A x, f : Store!Holds(x, f)' = Store!Holds(x, f)
  BY DEF Store!Holds
<1> QED
  BY <1>1, <1>2 DEF StoreInv, Store!NothingLost, HeldOn

LEMMA PruneKeeps ==
    ASSUME Store!BoundsAssumption, StoreInv,
           Store!PruneScan \/ Store!PruneStep \/ Store!PrunerCrash
    PROVE  StoreInv'
<1> DEFINE Worker == [pc : {"idle", "scan", "verified", "rechecked", "renamed"},
                      day : 0..MaxDay, ino : Store!Inodes \cup {0}, todo : SUBSET Store!Days]
           Kept ==
      /\ db' \in [Store!Days -> Store!Inodes \cup {0}] /\ quarantine' \subseteq Store!Inodes
      /\ crashes' \in 0..MaxCrashes /\ lock' \in {"none", "archiver", "pruner"}
      /\ pruner' \in Worker
      /\ LockHeld' /\ FilesApart' /\ Archiving' /\ Pruning' /\ Store!NothingLost'
      /\ \A s \in Ids, x \in Store!Days : HeldOn(s, x)' => HeldOn(s, x)
<1>0. HandlerTypes /\ FileTypes /\ WorkerTypes
  BY StoreTyped DEF StoreInv
<1>1. /\ UNCHANGED <<today, emitted, inbox, pinned, conn, order, written, late, content,
                     archive, temp, archiver, cancelled>>
  BY DEF Store!PruneScan, Store!PruneStep, Store!PrunerCrash, Store!PruneKeep,
         Store!PruneVerify, Store!PruneRecheck, Store!PruneGiveUp, Store!PruneQuarantine,
         Store!PruneRemove, Store!PruneRestore, Store!PruneDone, Store!untouched,
         Store!handler, Store!copies
<1>2. Store!Days' = Store!Days /\ Store!Inodes' = Store!Inodes /\ Store!Facts' = Store!Facts
      /\ Store!Files' = Store!Files
  BY <1>1 DEF Store!Days, Store!Inodes, Store!Facts, Store!Files, Store!Copies
<1>3. /\ db \in [Store!Days -> Store!Inodes \cup {0}] /\ quarantine \subseteq Store!Inodes
      /\ crashes \in 0..MaxCrashes /\ lock \in {"none", "archiver", "pruner"}
      /\ pruner \in Worker /\ content \in Seq(SUBSET Store!Facts) /\ 0 \notin Store!Inodes
  BY <1>0 DEF FileTypes, WorkerTypes, Store!Inodes
<1>4. UNCHANGED <<db, quarantine>> =>
        /\ Store!NothingLost'
        /\ \A s \in Ids, x \in Store!Days : HeldOn(s, x)' => HeldOn(s, x)
  BY <1>1, HoldsStay
<1>5. Store!Days \subseteq 0..MaxDay /\ 0 \in 0..MaxDay
  BY DEF Store!Days, Store!BoundsAssumption
<1>6. LockHeld /\ FilesApart /\ Archiving /\ Pruning /\ Store!NothingLost
  BY DEF StoreInv
<1>7. ASSUME Store!PruneScan
      PROVE  Kept
  <2>1. /\ pruner.pc = "idle" /\ lock = "none" /\ lock' = "pruner"
        /\ pruner' = [Store!Idle EXCEPT !.pc = "scan", !.todo = Store!Old(PruneAfter)]
        /\ UNCHANGED <<db, quarantine, crashes>>
    BY <1>7 DEF Store!PruneScan, Store!untouched
  <2>2. Store!Old(PruneAfter) \subseteq Store!Days
        /\ \A d \in Store!Old(PruneAfter) : db[d] # 0
    BY DEF Store!Old
  <2>3. pruner' = [pc |-> "scan", day |-> 0, ino |-> 0, todo |-> Store!Old(PruneAfter)]
    BY <2>1 DEF Store!Idle
  <2>4. LockHeld' /\ FilesApart' /\ Archiving' /\ Pruning'
    BY <1>1, <1>2, <1>6, <2>1, <2>2, <2>3 DEF LockHeld, FilesApart, Archiving, Pruning
  <2> QED
    BY <1>3, <1>4, <1>5, <2>1, <2>2, <2>3, <2>4
<1>8. ASSUME NEW d \in Store!Days, Store!PruneKeep(d)
      PROVE  Kept
  <2>1. /\ pruner.pc = "scan" /\ pruner' = [pruner EXCEPT !.todo = @ \ {d}]
        /\ UNCHANGED <<db, quarantine, lock, crashes>>
    BY <1>8 DEF Store!PruneKeep, Store!untouched
  <2>2. pruner'.pc = "scan" /\ pruner'.todo = pruner.todo \ {d} /\ pruner' \in Worker
    BY <1>3, <2>1
  <2>3. LockHeld' /\ FilesApart' /\ Archiving' /\ Pruning'
    BY <1>1, <1>2, <1>6, <2>1, <2>2 DEF LockHeld, FilesApart, Archiving, Pruning
  <2> QED
    BY <1>3, <1>4, <2>1, <2>2, <2>3
<1>9. ASSUME NEW d \in Store!Days, Store!PruneVerify(d)
      PROVE  Kept
  <2>1. /\ pruner.pc = "scan" /\ d \in pruner.todo
        /\ archive[d] # NoFile /\ archive[d].rows = content[db[d]]
        /\ pruner' = [pc |-> "verified", day |-> d, ino |-> db[d], todo |-> pruner.todo \ {d}]
        /\ UNCHANGED <<db, quarantine, lock, crashes>>
    BY <1>9 DEF Store!PruneVerify, Store!SameDigest, Store!untouched
  <2>2. db[d] # 0 /\ db[d] \in Store!Inodes \cup {0}
    BY <1>3, <1>6, <2>1 DEF Pruning
  <2>3. pruner' \in Worker
    BY <1>3, <1>5, <2>1, <2>2
  <2>4. LockHeld' /\ FilesApart' /\ Archiving' /\ Pruning'
    BY <1>1, <1>2, <1>6, <2>1, <2>2 DEF LockHeld, FilesApart, Archiving, Pruning
  <2> QED
    BY <1>3, <1>4, <2>1, <2>3, <2>4
<1>10. ASSUME Store!PruneRecheck
       PROVE  Kept
  <2>1. /\ pruner.pc = "verified" /\ pruner' = [pruner EXCEPT !.pc = "rechecked"]
        /\ UNCHANGED <<db, quarantine, lock, crashes>>
    BY <1>10 DEF Store!PruneRecheck, Store!untouched
  <2>2. /\ pruner'.pc = "rechecked" /\ pruner'.todo = pruner.todo /\ pruner'.day = pruner.day
        /\ pruner'.ino = pruner.ino /\ pruner' \in Worker
    BY <1>3, <2>1
  <2>3. LockHeld' /\ FilesApart' /\ Archiving' /\ Pruning'
    BY <1>1, <1>2, <1>6, <2>1, <2>2 DEF LockHeld, FilesApart, Archiving, Pruning
  <2> QED
    BY <1>3, <1>4, <2>1, <2>2, <2>3
<1>11. ASSUME pruner' = [Store!Idle EXCEPT !.pc = "scan", !.todo = pruner.todo],
              pruner.pc # "idle", \A d \in pruner.todo : db'[d] # 0, lock' = lock,
              FilesApart'
       PROVE  pruner' \in Worker /\ LockHeld' /\ Archiving' /\ Pruning'
  <2>1. pruner' = [pc |-> "scan", day |-> 0, ino |-> 0, todo |-> pruner.todo]
    BY <1>11 DEF Store!Idle
  <2>2. pruner' \in Worker
    BY <1>3, <1>5, <2>1
  <2>3. archiver.pc = "idle"
    BY <1>6, <1>11 DEF LockHeld
  <2>4. LockHeld' /\ Archiving' /\ Pruning'
    BY <1>1, <1>6, <1>11, <2>1, <2>3 DEF LockHeld, Archiving, Pruning
  <2> QED
    BY <2>2, <2>4
<1>12. ASSUME Store!PruneGiveUp
       PROVE  Kept
  <2>1. /\ pruner.pc \in {"verified", "rechecked"}
        /\ pruner' = [Store!Idle EXCEPT !.pc = "scan", !.todo = pruner.todo]
        /\ UNCHANGED <<db, quarantine, lock, crashes>>
    BY <1>12 DEF Store!PruneGiveUp, Store!untouched
  <2>2. \A d \in pruner.todo : db'[d] # 0
    BY <1>6, <2>1 DEF Pruning
  <2>3. pruner'.pc = "scan"
    BY <2>1 DEF Store!Idle
  <2>4. FilesApart'
    BY <1>2, <1>6, <2>1, <2>3 DEF FilesApart
  <2> QED
    BY <1>3, <1>4, <1>11, <2>1, <2>2, <2>4
<1>13. ASSUME Store!PruneQuarantine
       PROVE  Kept
  <2>1. /\ pruner.pc = "rechecked" /\ db[pruner.day] = pruner.ino
        /\ quarantine' = quarantine \cup {pruner.ino}
        /\ db' = [db EXCEPT ![pruner.day] = 0]
        /\ pruner' = [pruner EXCEPT !.pc = "renamed"]
        /\ UNCHANGED <<lock, crashes>>
    BY <1>13 DEF Store!PruneQuarantine
  <2>2. PICK d \in Store!Days : d = pruner.day
    BY <1>6, <2>1 DEF Pruning
  <2>3. PICK i \in Store!Inodes : i = pruner.ino
    BY <1>3, <1>6, <2>1 DEF Pruning
  <2>4. /\ db[d] = i /\ d \notin pruner.todo /\ archive[d] # NoFile
        /\ archive[d].rows = content[i]
    BY <1>6, <2>1, <2>2, <2>3 DEF Pruning
  <2>5. /\ db' \in [Store!Days -> Store!Inodes \cup {0}] /\ db'[d] = 0
        /\ \A x \in Store!Days : x # d => db'[x] = db[x]
    BY <1>3, <2>1, <2>2
  <2>6. quarantine' \subseteq Store!Inodes /\ i \in quarantine' /\ quarantine \subseteq quarantine'
    BY <1>3, <2>1, <2>3
  <2>7. /\ pruner'.pc = "renamed" /\ pruner'.todo = pruner.todo /\ pruner'.day = pruner.day
        /\ pruner'.ino = pruner.ino /\ pruner' \in Worker
    BY <1>3, <2>1
  <2>8. FilesApart'
    <3>1. \A x \in Store!Days : db'[x] # i
      BY <1>3, <1>6, <2>4, <2>5 DEF FilesApart
    <3> QED
      BY <1>2, <1>6, <2>3, <2>5, <2>7, <3>1 DEF FilesApart
  <2>9. LockHeld' /\ Archiving' /\ Pruning'
    <3>1. archiver.pc = "idle" /\ pruner.todo \subseteq Store!Days
      BY <1>3, <1>6, <2>1 DEF LockHeld
    <3>2. \A x \in pruner.todo : db'[x] # 0
      BY <1>6, <2>1, <2>4, <2>5, <3>1 DEF Pruning
    <3> QED
      BY <1>1, <1>2, <1>6, <2>1, <2>2, <2>3, <2>4, <2>5, <2>7, <3>1, <3>2
         DEF LockHeld, Archiving, Pruning
  <2>10. \A x \in Store!Days : \A f : Store!Holds(x, f)' <=> Store!Holds(x, f)
    <3> SUFFICES ASSUME NEW x \in Store!Days, NEW f
                 PROVE  Store!Holds(x, f)' <=> Store!Holds(x, f)
      OBVIOUS
    <3>1. CASE x = d
      BY <3>1, <1>1, <2>4, <2>5 DEF Store!Holds
    <3>2. CASE x # d
      BY <3>2, <1>1, <2>5 DEF Store!Holds
    <3> QED
      BY <3>1, <3>2
  <2>11. \A s \in Ids, x \in Store!Days : HeldOn(s, x)' => HeldOn(s, x)
    BY <2>10, <1>2 DEF HeldOn
  <2>12. Store!NothingLost'
    BY <1>1, <1>2, <1>6, <2>6, <2>10 DEF Store!NothingLost
  <2> QED
    BY <1>3, <2>1, <2>5, <2>6, <2>7, <2>8, <2>9, <2>11, <2>12
<1>14. ASSUME Store!PruneRemove
       PROVE  Kept
  <2>1. /\ pruner.pc = "renamed" /\ quarantine' = quarantine \ {pruner.ino}
        /\ pruner' = [Store!Idle EXCEPT !.pc = "scan", !.todo = pruner.todo]
        /\ UNCHANGED <<db, lock, crashes>>
    BY <1>14 DEF Store!PruneRemove, Store!untouched
  <2>2. \A d \in pruner.todo : db'[d] # 0
    BY <1>6, <2>1 DEF Pruning
  <2>3. pruner'.pc = "scan"
    BY <2>1 DEF Store!Idle
  <2>4. FilesApart'
    BY <1>2, <1>6, <2>1, <2>3 DEF FilesApart
  <2>5. \A x, f : Store!Holds(x, f)' = Store!Holds(x, f)
    BY <1>1, <2>1 DEF Store!Holds
  <2>6. \A s \in Ids, x \in Store!Days : HeldOn(s, x)' => HeldOn(s, x)
    BY <2>5, <1>2 DEF HeldOn
  <2>7. \A f \in content[pruner.ino] : \E x \in Store!Days : Store!Holds(x, f)
    BY <1>6, <2>1 DEF Pruning, Store!Holds
  <2>8. Store!NothingLost'
    <3> SUFFICES ASSUME NEW f \in written
                 PROVE  \/ \E x \in Store!Days : Store!Holds(x, f)
                        \/ \E i \in quarantine' : f \in content[i]
      BY <1>1, <1>2, <2>5 DEF Store!NothingLost
    <3>1. CASE \E i \in quarantine : f \in content[i]
      <4>1. PICK i \in quarantine : f \in content[i]
        BY <3>1
      <4>2. CASE i = pruner.ino
        BY <4>1, <4>2, <2>7
      <4>3. CASE i # pruner.ino
        BY <4>1, <4>3, <2>1
      <4> QED
        BY <4>2, <4>3
    <3> QED
      BY <3>1, <1>6 DEF Store!NothingLost
  <2> QED
    BY <1>3, <1>11, <2>1, <2>2, <2>4, <2>6, <2>8
<1>15. ASSUME Store!PruneRestore
       PROVE  Kept
  <2>1. /\ pruner.pc = "renamed"
        /\ IF db[pruner.day] = 0
           THEN /\ quarantine' = quarantine \ {pruner.ino}
                /\ db' = [db EXCEPT ![pruner.day] = pruner.ino]
           ELSE UNCHANGED <<quarantine, db>>
        /\ pruner' = [Store!Idle EXCEPT !.pc = "scan", !.todo = pruner.todo]
        /\ UNCHANGED <<lock, crashes>>
    BY <1>15 DEF Store!PruneRestore
  <2>2. PICK d \in Store!Days : d = pruner.day
    BY <1>6, <2>1 DEF Pruning
  <2>3. PICK i \in Store!Inodes : i = pruner.ino
    BY <1>3, <1>6, <2>1 DEF Pruning
  <2>4. /\ db[d] = 0 /\ archive[d] # NoFile /\ archive[d].rows = content[i]
        /\ \A x \in Store!Days : db[x] # i
    BY <1>6, <2>1, <2>2, <2>3 DEF Pruning, FilesApart
  <2>5. quarantine' = quarantine \ {i} /\ db' = [db EXCEPT ![d] = i]
    BY <2>1, <2>2, <2>3, <2>4
  <2>6. /\ db' \in [Store!Days -> Store!Inodes \cup {0}] /\ db'[d] = i /\ i # 0
        /\ \A x \in Store!Days : x # d => db'[x] = db[x]
    BY <1>3, <2>5
  <2>7. \A x \in pruner.todo : db'[x] # 0
    <3>1. pruner.todo \subseteq Store!Days /\ \A x \in pruner.todo : db[x] # 0
      BY <1>3, <1>6, <2>1 DEF Pruning
    <3> QED
      BY <3>1, <2>6
  <2>8. pruner'.pc = "scan"
    BY <2>1 DEF Store!Idle
  <2>9. FilesApart'
    BY <1>2, <1>6, <2>4, <2>6, <2>8 DEF FilesApart
  <2>10. \A x \in Store!Days : \A f : Store!Holds(x, f)' <=> Store!Holds(x, f)
    <3> SUFFICES ASSUME NEW x \in Store!Days, NEW f
                 PROVE  Store!Holds(x, f)' <=> Store!Holds(x, f)
      OBVIOUS
    <3>1. CASE x = d
      BY <3>1, <1>1, <2>4, <2>6 DEF Store!Holds
    <3>2. CASE x # d
      BY <3>2, <1>1, <2>6 DEF Store!Holds
    <3> QED
      BY <3>1, <3>2
  <2>11. \A s \in Ids, x \in Store!Days : HeldOn(s, x)' => HeldOn(s, x)
    BY <2>10, <1>2 DEF HeldOn
  <2>12. \A f \in content[i] : Store!Holds(d, f)
    BY <2>4 DEF Store!Holds
  <2>13. Store!NothingLost'
    <3> SUFFICES ASSUME NEW f \in written
                 PROVE  \/ \E x \in Store!Days : Store!Holds(x, f)
                        \/ \E j \in quarantine' : f \in content[j]
      BY <1>1, <1>2, <2>10 DEF Store!NothingLost
    <3>1. CASE \E j \in quarantine : f \in content[j]
      <4>1. PICK j \in quarantine : f \in content[j]
        BY <3>1
      <4>2. CASE j = i
        BY <4>1, <4>2, <2>12
      <4>3. CASE j # i
        BY <4>1, <4>3, <2>5
      <4> QED
        BY <4>2, <4>3
    <3> QED
      BY <3>1, <1>6 DEF Store!NothingLost
  <2>14. quarantine' \subseteq Store!Inodes
    BY <1>3, <2>5
  <2>15. pruner' \in Worker /\ LockHeld' /\ Archiving' /\ Pruning'
    BY <1>11, <2>1, <2>7, <2>9
  <2> QED
    BY <1>3, <2>1, <2>6, <2>9, <2>11, <2>13, <2>14, <2>15
<1>16. ASSUME Store!PruneDone \/ Store!PrunerCrash
       PROVE  Kept
  <2>1. /\ pruner' = Store!Idle /\ lock' = "none" /\ pruner.pc # "idle"
        /\ crashes' \in {crashes, crashes + 1} /\ (crashes' # crashes => crashes < MaxCrashes)
        /\ UNCHANGED <<db, quarantine>>
    BY <1>16 DEF Store!PruneDone, Store!PrunerCrash, Store!untouched
  <2>2. crashes' \in 0..MaxCrashes
    BY <1>3, <2>1 DEF Store!BoundsAssumption
  <2>3. pruner' \in Worker
    BY <1>5, <2>1 DEF Store!Idle
  <2>4. LockHeld' /\ FilesApart' /\ Archiving' /\ Pruning'
    BY <1>1, <1>2, <1>6, <2>1 DEF LockHeld, FilesApart, Archiving, Pruning, Store!Idle
  <2> QED
    BY <1>3, <1>4, <2>1, <2>2, <2>3, <2>4
<1>17. Kept
  <2> HIDE DEF Kept
  <2> QED
    BY <1>7, <1>8, <1>9, <1>10, <1>12, <1>13, <1>14, <1>15, <1>16 DEF Store!PruneStep
<1>18. HandlerTypes' /\ Store!CacheBounded' /\ Routed'
  BY <1>1, <1>17, HandlerStays
<1>19. FileTypes' /\ WorkerTypes'
  BY <1>0, <1>1, <1>2, <1>17 DEF FileTypes, WorkerTypes
<1> QED
  BY <1>17, <1>18, <1>19 DEF StoreInv, Store!TypeOK, HandlerTypes, FileTypes, WorkerTypes

LEMMA StoreNext ==
    ASSUME Store!KindsAssumption, Store!CacheAssumption, Store!BoundsAssumption, StoreInv,
           [Store!Next]_(Store!vars)
    PROVE  StoreInv'
<1>1. CASE UNCHANGED Store!vars
  <2>0. HandlerTypes /\ FileTypes /\ WorkerTypes
    BY StoreTyped DEF StoreInv
  <2>1. /\ UNCHANGED <<today, emitted, inbox, pinned, conn, order, db, content, archive>>
        /\ UNCHANGED <<temp, quarantine, lock, archiver, pruner, cancelled, crashes, written, late>>
    BY <1>1 DEF Store!vars
  <2>2. /\ FilesApart' /\ Pruning' /\ Store!NothingLost'
        /\ \A s, x : HeldOn(s, x)' = HeldOn(s, x)
    BY <2>1, FilesStay
  <2>3. HandlerTypes' /\ Store!CacheBounded' /\ Routed'
    BY <2>1, <2>2, HandlerStays
  <2>4. Store!Days' = Store!Days /\ Store!Inodes' = Store!Inodes /\ Store!Facts' = Store!Facts
        /\ Store!Files' = Store!Files
    BY <2>1 DEF Store!Days, Store!Inodes, Store!Facts, Store!Files, Store!Copies
  <2>5. LockHeld' /\ Archiving' /\ FileTypes' /\ WorkerTypes'
    BY <2>0, <2>1, <2>4 DEF StoreInv, LockHeld, Archiving, FileTypes, WorkerTypes
  <2> QED
    BY <2>2, <2>3, <2>5 DEF StoreInv, Store!TypeOK, HandlerTypes, FileTypes, WorkerTypes
<1>2. CASE Store!NextDay
  BY <1>2, NextDayKeeps
<1>3. CASE \E r \in Ids, k \in Kinds : Store!EmitEvent(r, k) \/ Store!LoseEvent(r, k)
  BY <1>3, EmitKeeps
<1>4. CASE Store!Handle
  BY <1>4, OnStartedKeeps, OnUpdateKeeps, OnCompletedKeeps, DropKeeps DEF Store!Handle
<1>5. CASE Store!ArchiveScan \/ Store!ArchiveStep \/ Store!Cancel
  BY <1>5, ArchiveKeeps
<1>6. CASE Store!PruneScan \/ Store!PruneStep \/ Store!PrunerCrash
  BY <1>6, PruneKeeps
<1>7. CASE Store!ServerCrash
  BY <1>7, ServerCrashKeeps
<1> QED
  BY <1>1, <1>2, <1>3, <1>4, <1>5, <1>6, <1>7 DEF Store!Next

\* An archive is what the worker has copied (the lock keeps writers out meanwhile).
LEMMA StoreCopies ==
    ASSUME StoreInv, [Store!Next]_(Store!vars)
    PROVE  Store!ArchiveCopies
<1>1. CASE archive' = archive
  BY <1>1 DEF Store!ArchiveCopies
<1>2. CASE Store!ArchiveRename
  <2>1. /\ archiver.pc = "rename"
        /\ archive' = [archive EXCEPT ![archiver.day] = temp[archiver.day]]
    BY <1>2 DEF Store!ArchiveRename
  <2>2. PICK e \in Store!Days : e = archiver.day
    BY <2>1 DEF StoreInv, Archiving
  <2>3. /\ archive[e] = NoFile /\ db[e] # 0
        /\ temp[e] = [whole |-> TRUE, rows |-> content[db[e]]]
    BY <2>1, <2>2 DEF StoreInv, Archiving
  <2>4. archive \in [Store!Days -> Store!Files] /\ archive' = [archive EXCEPT ![e] = temp[e]]
    BY <2>1, <2>2, StoreTyped DEF StoreInv, FileTypes
  <2>5. ASSUME NEW d \in Store!Days, archive'[d] # archive[d]
        PROVE  d = e /\ archive'[d] = temp[e]
    BY <2>4, <2>5
  <2> QED
    BY <2>3, <2>5 DEF Store!ArchiveCopies
<1>3. CASE archive' # archive /\ ~Store!ArchiveRename
  BY <1>3 DEF Store!vars, Store!Next, Store!NextDay, Store!EmitEvent, Store!LoseEvent,
              Store!Handle, Store!OnStarted, Store!OnUpdate, Store!OnCompleted, Store!OnOrphan,
              Store!WriteFails, Store!ArchiveScan, Store!ArchiveStep, Store!Cancel,
              Store!ArchiveSkip, Store!ArchiveStart, Store!ArchiveEncode, Store!ArchiveFails,
              Store!ArchiveCancelled, Store!ArchiveDone, Store!PruneScan, Store!PruneStep,
              Store!PruneKeep, Store!PruneVerify, Store!PruneRecheck, Store!PruneGiveUp,
              Store!PruneQuarantine, Store!PruneRemove, Store!PruneRestore, Store!PruneDone,
              Store!ServerCrash, Store!PrunerCrash, Store!copies, Store!untouched
<1> QED
  BY <1>1, <1>2, <1>3

LEMMA StoreCardinality == ASSUME NEW S PROVE Store!Cardinality(S) = Cardinality(S)
  BY DEF Cardinality, Store!Cardinality

LEMMA StoreProperties ==
    ASSUME StoreInv
    PROVE  Store!TypeOK /\ Store!NothingLost /\ Store!OneDayPerRequest /\ Store!CacheBounded
<1>1. ASSUME NEW r \in Ids \ late
      PROVE  Store!Cardinality(Store!DaysOf(r)) <= 1
  <2>1. \A d \in Store!DaysOf(r) : d \in Store!Days /\ HeldOn(r, d)
    BY StoreTyped DEF StoreInv, HandlerTypes, Store!DaysOf, HeldOn
  <2>2. \A d, e \in Store!DaysOf(r) : d = e
    BY <2>1 DEF StoreInv, Routed
  <2>3. CASE Store!DaysOf(r) = {}
    BY <2>3, StoreCardinality, FS_EmptySet
  <2>4. CASE Store!DaysOf(r) # {}
    <3>1. PICK d : Store!DaysOf(r) = {d}
      BY <2>2, <2>4
    <3> QED
      BY <3>1, StoreCardinality, FS_Singleton
  <2> QED
    BY <2>3, <2>4
<1> QED
  BY <1>1 DEF StoreInv, Store!OneDayPerRequest

-----------------------------------------------------------------------------
(* The properties of History. *)

\* While a component is the one that moves, it has its invariant.
HistoryInv ==
    /\ part = "store" => StoreInv
    /\ part = "usage" => UsageInv
    /\ part = "tree" => SessionInv(Tree)
    /\ part = "lone" => SessionInv(Lone)
    /\ part = "import" => ImportInv
    /\ part = "upgrade" => UpgradeInv(Upgrade)
    /\ part = "race" => SchemaInv(Race)
    /\ part = "drain" => DrainInv

LEMMA HistoryInit == Init => HistoryInv
<1> SUFFICES ASSUME Init PROVE HistoryInv
  OBVIOUS
<1>1. /\ Store!Init /\ Usage!Init /\ Import!Init /\ Drain!Init
      /\ part = "tree" => Session(Tree)!Init
      /\ part = "lone" => Session(Lone)!Init
      /\ part = "upgrade" => Schema(Upgrade)!Init
      /\ part = "race" => Schema(Race)!Init
  BY DEF Init
<1>2. StoreInv /\ UsageInv /\ ImportInv /\ DrainInv
  BY <1>1, HistoryAssumption, StoreInit, UsageInit, ImportInit, DrainInit
<1>3. (part = "tree" => SessionInv(Tree)) /\ (part = "lone" => SessionInv(Lone))
  BY <1>1, HistoryAssumption, SessionInit
<1>4. part = "upgrade" => UpgradeInv(Upgrade)
  BY <1>1, HistoryAssumption, UpgradeInit
<1>5. part = "race" => SchemaInv(Race)
  BY <1>1, HistoryAssumption, SchemaInit
<1> QED
  BY <1>2, <1>3, <1>4, <1>5 DEF HistoryInv

\* A step keeps the invariant, and what it copies is what it claims to copy.
LEMMA HistoryStep ==
    ASSUME HistoryInv, [Next]_vars
    PROVE  /\ HistoryInv'
           /\ part = "store" => Store!ArchiveCopies
           /\ part = "upgrade" => Schema(Upgrade)!BackupIsPreSequence
<1>1. /\ part' = part
      /\ part = "store" => [Store!Next]_(Store!vars)
      /\ part = "usage" => [Usage!Next]_(Usage!vars)
      /\ part = "tree" => [Session(Tree)!Next]_(Session(Tree)!vars)
      /\ part = "lone" => [Session(Lone)!Next]_(Session(Lone)!vars)
      /\ part = "import" => [Import!Next]_(Import!vars)
      /\ part = "upgrade" => [Schema(Upgrade)!Next]_(Schema(Upgrade)!vars)
      /\ part = "race" => [Schema(Race)!Next]_(Schema(Race)!vars)
      /\ part = "drain" => [Drain!Next]_(Drain!vars)
  BY PartStep
<1>2. ASSUME part = "store" PROVE StoreInv' /\ Store!ArchiveCopies
  <2>1. /\ Store!KindsAssumption /\ Store!CacheAssumption /\ Store!BoundsAssumption
        /\ StoreInv /\ [Store!Next]_(Store!vars)
    BY <1>1, <1>2, HistoryAssumption DEF HistoryInv
  <2> QED
    BY <2>1, StoreNext, StoreCopies
<1>3. ASSUME part = "usage" PROVE UsageInv'
  <2>1. /\ Usage!KindsAssumption /\ Usage!NoneAssumption /\ UsageInv
        /\ [Usage!Next]_(Usage!vars)
    BY <1>1, <1>3, HistoryAssumption DEF HistoryInv
  <2> QED
    BY <2>1, UsageNext
<1>4. ASSUME part = "tree" PROVE SessionInv(Tree)'
  <2>1. /\ Session(Tree)!InputsAssumption /\ Session(Tree)!BoundsAssumption
        /\ Session(Tree)!NoneAssumption /\ SessionInv(Tree)
        /\ [Session(Tree)!Next]_(Session(Tree)!vars)
    BY <1>1, <1>4, HistoryAssumption DEF HistoryInv
  <2> QED
    BY <2>1, SessionNext
<1>5. ASSUME part = "lone" PROVE SessionInv(Lone)'
  <2>1. /\ Session(Lone)!InputsAssumption /\ Session(Lone)!BoundsAssumption
        /\ Session(Lone)!NoneAssumption /\ SessionInv(Lone)
        /\ [Session(Lone)!Next]_(Session(Lone)!vars)
    BY <1>1, <1>5, HistoryAssumption DEF HistoryInv
  <2> QED
    BY <2>1, SessionNext
<1>6. ASSUME part = "import" PROVE ImportInv'
  <2>1. Import!ImportAssumption /\ ImportInv /\ [Import!Next]_(Import!vars)
    BY <1>1, <1>6, HistoryAssumption DEF HistoryInv
  <2> QED
    BY <2>1, ImportNext
<1>7. ASSUME part = "upgrade"
      PROVE  UpgradeInv(Upgrade)' /\ Schema(Upgrade)!BackupIsPreSequence
  <2>1. /\ Schema(Upgrade)!SchemaAssumption /\ \A p, q \in Upgrade.procs : p = q
        /\ UpgradeInv(Upgrade) /\ [Schema(Upgrade)!Next]_(Schema(Upgrade)!vars)
    BY <1>1, <1>7, HistoryAssumption DEF HistoryInv
  <2> QED
    BY <2>1, UpgradeNext
<1>8. ASSUME part = "race" PROVE SchemaInv(Race)'
  <2>1. /\ Schema(Race)!SchemaAssumption /\ SchemaInv(Race)
        /\ [Schema(Race)!Next]_(Schema(Race)!vars)
    BY <1>1, <1>8, HistoryAssumption DEF HistoryInv
  <2> QED
    BY <2>1, SchemaNext
<1>9. ASSUME part = "drain" PROVE DrainInv'
  <2>1. Drain!DrainAssumption /\ DrainInv /\ [Drain!Next]_(Drain!vars)
    BY <1>1, <1>9, HistoryAssumption DEF HistoryInv
  <2> QED
    BY <2>1, DrainNext
<1> QED
  BY <1>1, <1>2, <1>3, <1>4, <1>5, <1>6, <1>7, <1>8, <1>9 DEF HistoryInv

\* The inductive invariant of all components.
THEOREM HistoryInvariant == Spec => []HistoryInv
<1>1. HistoryInv /\ [Next]_vars => HistoryInv'
  BY HistoryStep
<1> QED
  BY HistoryInit, <1>1, PTL DEF Spec

\* However the request handler, the archive worker, the prune command and crashes of the
\* two processes interleave, nothing that was written is lost, a request is in the file of
\* one day unless a record follows its Completed event, and the cache of connections keeps
\* its bound (RequestsDb, archive_requests_once_with_events, prune_request_db).
THEOREM WritesAreKept == Spec => []WritesKept
<1>1. HistoryInv => WritesKept
  BY StoreProperties DEF HistoryInv, WritesKept
<1> QED
  BY HistoryInvariant, <1>1, PTL

\* An archive appears once, whole and with what its database holds at that moment, and a
\* backup is the database before the first migration (compress_db, backup).
THEOREM CopiesAreFaithful == Spec => CopiesFaithful
<1>1. HistoryInv /\ [Next]_vars =>
          [/\ part = "store" => Store!ArchiveCopies
           /\ part = "upgrade" => Schema(Upgrade)!BackupIsPreSequence]_<<storeVars, schemaVars>>
  BY HistoryStep
<1> QED
  BY HistoryInvariant, <1>1, PTL DEF Spec, CopiesFaithful

\* A completed attempt whose model is known has its row with the last figures heard and
\* the time of its start, in whatever order its events come and whichever of them are
\* lost, and is forgotten with its usage (UsageEventHandler).
THEOREM UsageIsRecorded == Spec => []UsageRecorded
<1>1. HistoryInv => UsageRecorded
  BY UsageProperties DEF HistoryInv, UsageRecorded
<1> QED
  BY HistoryInvariant, <1>1, PTL

\* In whatever order requests end and are played back, and whichever of their events are
\* lost, the head of a session is the newest of its nodes, a thread spans its nodes, the
\* tree is closed under prefixes and a success that was heard is recorded with what the
\* client was sent (record_tree, SessionEventHandler).
THEOREM SessionTreesAreSound == Spec => []SessionTreeSound
<1>1. HistoryInv => SessionTreeSound
  BY SessionProperties DEF HistoryInv, SessionTreeSound
<1> QED
  BY HistoryInvariant, <1>1, PTL

\* An import leaves all of the capture or nothing whatever step of it fails, keeps the
\* rows of others, gives no two rows one identity, and leaves neither an empty day nor a
\* database beside its archive (import_history).
THEOREM ImportIsAtomic == Spec => []ImportAtomic
<1>1. HistoryInv => ImportAtomic
  BY ImportProperties DEF HistoryInv, ImportAtomic
<1> QED
  BY HistoryInvariant, <1>1, PTL

\* No half file has a name that is opened and the history is in the database or in its
\* backup, at whichever step the one process that migrates it stops; and each migration
\* runs once for however many processes that open the file together.
THEOREM MigrationsAreSafe == Spec => []MigrationsSafe
<1>1. ASSUME part = "upgrade", UpgradeInv(Upgrade)
      PROVE  /\ Schema(Upgrade)!TypeOK
             /\ Schema(Upgrade)!WholeFiles /\ Schema(Upgrade)!OriginalKept
  <2>1. Schema(Upgrade)!SchemaAssumption /\ SchemaInv(Upgrade)
    BY <1>1, HistoryAssumption DEF UpgradeInv
  <2> QED
    BY <1>1, <2>1, SchemaProperties
<1>2. ASSUME part = "race", SchemaInv(Race)
      PROVE  Schema(Race)!TypeOK /\ Schema(Race)!AppliedOnce
  BY <1>2, HistoryAssumption, SchemaProperties
<1>3. HistoryInv => MigrationsSafe
  BY <1>1, <1>2 DEF HistoryInv, MigrationsSafe
<1> QED
  BY HistoryInvariant, <1>3, PTL

\* However the listeners end, nothing is emitted behind the shutdown marker, the flush
\* starts only when all of them have drained, and an exit that reports success has cut off
\* and lost nothing (serve_http, supervise_listeners, finish_events).
THEOREM DrainIsSafe == Spec => []DrainSafe
<1>1. HistoryInv => DrainSafe
  BY DrainProperties, HistoryAssumption DEF HistoryInv, DrainSafe, DrainInv
<1> QED
  BY HistoryInvariant, <1>1, PTL

=============================================================================
