-------------------------- MODULE SchemaMigrations --------------------------
(***************************************************************************)
(* Opening one SQLite database: the migration runner (persistence/src/     *)
(* migrate.rs), the backup it takes before a sequence of migrations, and   *)
(* `migration --rollback`, which puts the backup back (gateway-cli/src/    *)
(* cli/migration.rs).                                                      *)
(*                                                                         *)
(* Processes of several releases open the file, write to it and die at any *)
(* step. Nothing locks them out of each other. A transaction is one step,  *)
(* and so is a copy, which a death may cut short. An operator runs the     *)
(* rollback while no other process has the database open.                  *)
(***************************************************************************)
EXTENDS Naturals

CONSTANTS
  Procs,        \* processes that may be alive together
  Heads,        \* the latest migration of each release in use
  MaxRows       \* bound: rows recorded

SchemaAssumption ==
  /\ Heads \subseteq Nat \ {0} /\ \E h \in Heads : \A g \in Heads : g <= h
  /\ MaxRows \in Nat

VARIABLES
  db, bak,        \* the database and <path>.bak
  bakTmp, resTmp, \* the temporary files of backup and of rollback
  proc,           \* each process: where it is and what it read
  gap             \* the database was created anew: there was none at the start,
                  \* or an opener found none where a backup was

vars == <<db, bak, bakTmp, resTmp, proc, gap>>

Versions == 1 .. CHOOSE h \in Heads : \A g \in Heads : g <= h

\* A file: its schema version, whether it has user tables, the rows it holds (0
\* is the history there was at the start), and how often each migration ran.
NoRun == [v \in Versions |-> 0]
File(ver, tables, rows, ran) ==
  [is |-> "whole", ver |-> ver, tables |-> tables, rows |-> rows, ran |-> ran]
Empty == File(0, FALSE, {}, NoRun)
Missing == [Empty EXCEPT !.is = "missing"]
Torn == [Empty EXCEPT !.is = "torn"]
RanUpTo(h) == [v \in Versions |-> IF v <= h THEN 1 ELSE 0]

Files ==
  [is : {"whole", "missing", "torn"}, ver : {0} \cup Versions, tables : BOOLEAN,
   rows : SUBSET (0 .. MaxRows), ran : [Versions -> 0 .. 2]]

Off == [at |-> "off", head |-> 0, applied |-> 0]
Restoring == {"restoreCopy", "restoreRemove", "restoreRename", "restoreDone"}
Opening == {"decide", "bootstrap", "backup", "removeBak", "renameBak", "migrate"}

TypeOK ==
  /\ {db, bak, bakTmp, resTmp} \subseteq Files /\ gap \in BOOLEAN
  /\ proc \in [Procs -> [at : {"off", "opened"} \cup Opening \cup Restoring,
                         head : {0} \cup Heads, applied : {0} \cup Versions]]

\* A database of an earlier release, one from before the versions were recorded,
\* or none yet.
Init ==
  /\ db \in {Missing} \cup {File(v, TRUE, {0}, RanUpTo(v)) : v \in {0} \cup Heads}
  /\ bak = Missing /\ bakTmp = Missing /\ resTmp = Missing
  /\ proc = [p \in Procs |-> Off] /\ gap = (db = Missing)

-----------------------------------------------------------------------------
At(p, where) == proc[p].at = where
Goto(p, where) == proc' = [proc EXCEPT ![p].at = where]
Exit(p) == proc' = [proc EXCEPT ![p] = Off]

\* Connection::open, which creates a missing file, ensure_schema_table and
\* current_version, outside any transaction.
Open(p, h) ==
  /\ At(p, "off") /\ \A q \in Procs : proc[q].at \notin Restoring
  /\ db.is # "torn"
  /\ db' = IF db.is = "missing" THEN Empty ELSE db
  /\ gap' = (gap \/ (db.is = "missing" /\ bak.is # "missing"))
  /\ proc' = [proc EXCEPT ![p] = [at |-> "decide", head |-> h, applied |-> db.ver]]
  /\ UNCHANGED <<bak, bakTmp, resTmp>>

\* Half a database: SQLite refuses it, and the process ends.
OpenTorn(p) == At(p, "off") /\ db.is = "torn" /\ UNCHANGED vars

\* The rest of the pre-flight: is there anything to do, and is it a bootstrap?
Decide(p) ==
  /\ At(p, "decide")
  /\ LET bootstrap == proc[p].applied = 0 /\ ~db.tables IN
     Goto(p, IF bootstrap THEN "bootstrap"
             ELSE IF proc[p].applied >= proc[p].head THEN "opened" ELSE "backup")
  /\ UNCHANGED <<db, bak, bakTmp, resTmp, gap>>

\* Mutant of Backup: the copy goes straight to <path>.bak.
BackupInPlace(p) ==
  /\ At(p, "backup")
  /\ \/ bak' = db /\ Goto(p, "migrate")
     \/ bak' = Torn /\ Exit(p)
  /\ UNCHANGED <<db, bakTmp, resTmp, gap>>

\* backup: the copy to the temporary file, whole or cut short by a death.
Backup(p) ==
  /\ At(p, "backup")
  /\ \/ bakTmp' = db /\ Goto(p, "removeBak")
     \/ bakTmp' = Torn /\ Exit(p)
  /\ UNCHANGED <<db, bak, resTmp, gap>>

\* Mutant of RemoveBak: an older backup is kept.
RemoveBakKeeps(p) ==
  /\ At(p, "removeBak")
  /\ IF bak.is = "missing" THEN Goto(p, "renameBak") ELSE Goto(p, "migrate")
  /\ UNCHANGED <<db, bak, bakTmp, resTmp, gap>>

\* The backup of the sequence before goes.
RemoveBak(p) ==
  /\ At(p, "removeBak") /\ bak' = Missing /\ Goto(p, "renameBak")
  /\ UNCHANGED <<db, bakTmp, resTmp, gap>>

\* The temporary file becomes the backup; another opener may have taken it.
RenameBak(p) ==
  /\ At(p, "renameBak")
  /\ IF bakTmp.is = "missing" THEN Exit(p) /\ UNCHANGED <<bak, bakTmp>>
     ELSE bak' = bakTmp /\ bakTmp' = Missing /\ Goto(p, "migrate")
  /\ UNCHANGED <<db, resTmp, gap>>

\* The bootstrap transaction: the current schema, and every version recorded.
\* The primary key refuses a version that is there already.
Bootstrap(p) ==
  /\ At(p, "bootstrap")
  /\ IF db.ver # 0 THEN Exit(p) /\ UNCHANGED db
     ELSE /\ db' = File(proc[p].head, TRUE, db.rows, RanUpTo(proc[p].head))
          /\ Goto(p, "opened")
  /\ UNCHANGED <<bak, bakTmp, resTmp, gap>>

\* The pending migrations run, on top of whatever is committed by now.
Migrated(p) ==
  [db EXCEPT !.ver = proc[p].head, !.tables = TRUE,
             !.ran = [v \in Versions |-> IF v \in proc[p].applied + 1 .. proc[p].head
                                         THEN db.ran[v] + 1 ELSE db.ran[v]]]

\* Mutant of Migrate: a version already recorded is ignored.
MigrateIgnoresConflict(p) ==
  /\ At(p, "migrate") /\ db' = Migrated(p) /\ Goto(p, "opened")
  /\ UNCHANGED <<bak, bakTmp, resTmp, gap>>

\* The transaction of the sequence: it commits, or a recorded version or a schema
\* another opener has changed fails it as a whole.
Migrate(p) ==
  /\ At(p, "migrate")
  /\ IF db.ver > proc[p].applied THEN Exit(p) /\ UNCHANGED db
     ELSE db' = Migrated(p) /\ Goto(p, "opened")
  /\ UNCHANGED <<bak, bakTmp, resTmp, gap>>

\* The process writes a row (external: the handlers of RequestStore and others).
Record(p, r) ==
  /\ At(p, "opened") /\ r \notin db.rows
  /\ db' = [db EXCEPT !.rows = @ \cup {r}]
  /\ UNCHANGED <<bak, bakTmp, resTmp, proc, gap>>

\* The process ends or dies, wherever it is.
Die(p) ==
  /\ ~At(p, "off") /\ Exit(p)
  /\ UNCHANGED <<db, bak, bakTmp, resTmp, gap>>

-----------------------------------------------------------------------------
\* rollback_one, rollback: nothing to do without a backup.
Rollback(p) ==
  /\ \A q \in Procs : At(q, "off")
  /\ bak.is # "missing" /\ Goto(p, "restoreCopy")
  /\ UNCHANGED <<db, bak, bakTmp, resTmp, gap>>

RestoreCopy(p) ==
  /\ At(p, "restoreCopy")
  /\ \/ resTmp' = bak /\ Goto(p, "restoreRemove")
     \/ resTmp' = Torn /\ Exit(p)
  /\ UNCHANGED <<db, bak, bakTmp, gap>>

RestoreRemove(p) ==
  /\ At(p, "restoreRemove") /\ db' = Missing /\ Goto(p, "restoreRename")
  /\ UNCHANGED <<bak, bakTmp, resTmp, gap>>

\* Mutant of RestoreRename: the backup goes first, the rename follows.
RestoreRenameLast(p) ==
  \/ /\ At(p, "restoreRename") /\ bak' = Missing /\ Goto(p, "restoreDone")
     /\ UNCHANGED <<db, bakTmp, resTmp, gap>>
  \/ /\ At(p, "restoreDone") /\ db' = resTmp /\ resTmp' = Missing /\ Exit(p)
     /\ UNCHANGED <<bak, bakTmp, gap>>

RestoreRename(p) ==
  /\ At(p, "restoreRename") /\ db' = resTmp /\ resTmp' = Missing
  /\ Goto(p, "restoreDone")
  /\ UNCHANGED <<bak, bakTmp, gap>>

RestoreDone(p) ==
  /\ At(p, "restoreDone") /\ bak' = Missing /\ Exit(p)
  /\ UNCHANGED <<db, bakTmp, resTmp, gap>>

Next ==
  \E p \in Procs :
    \/ \E h \in Heads : Open(p, h)
    \/ OpenTorn(p) \/ Decide(p) \/ Backup(p) \/ RemoveBak(p) \/ RenameBak(p)
    \/ Bootstrap(p) \/ Migrate(p)
    \/ \E r \in 1 .. MaxRows : Record(p, r)
    \/ Die(p)
    \/ Rollback(p) \/ RestoreCopy(p) \/ RestoreRemove(p) \/ RestoreRename(p)
    \/ RestoreDone(p)

Spec == Init /\ [][Next]_vars

-----------------------------------------------------------------------------
(***************************************************************************)
(* A death in the middle of a copy never leaves half a database under a    *)
(* name something opens: "Use a temp file + rename so we never leave a     *)
(* half-written .bak".                                                     *)
(***************************************************************************)
WholeFiles == db.is # "torn" /\ bak.is # "torn"

(***************************************************************************)
(* When a sequence of migrations commits, <path>.bak has the schema and    *)
(* everything the database held just before, so that the rollback restores *)
(* the pre-sequence state.                                                 *)
(***************************************************************************)
BackupIsPreSequence ==
  \A p \in Procs : At(p, "migrate") /\ proc'[p].at = "opened" => bak = db

(***************************************************************************)
(* The history there was at the start is in the database or in its backup  *)
(* after any deaths, upgrades and rollbacks, unless an opener created a    *)
(* new database in the gap a rollback that died had left.                  *)
(***************************************************************************)
OriginalKept == ~gap => 0 \in db.rows \cup bak.rows

(***************************************************************************)
(* Openers that race on the same pending migrations run each of them once: *)
(* the schema is always what the recorded version says.                    *)
(***************************************************************************)
AppliedOnce == db.is = "whole" => db.ran = RanUpTo(db.ver)
=============================================================================
