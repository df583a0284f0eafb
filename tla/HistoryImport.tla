--------------------------- MODULE HistoryImport ---------------------------
(***************************************************************************)
(* persistence/src/history_import.rs: the rows of a closed capture are     *)
(* inserted into the native history (the usage and session databases and   *)
(* one request database per day) while a router may be serving.  Missing   *)
(* days are created first, under the maintenance lock the router, the      *)
(* archive worker and prune share (RequestStore has their own steps); one  *)
(* transaction covers all databases; a dry run, or an error, rolls it back *)
(* and removes the days it had created.                                    *)
(*                                                                         *)
(* A row is [key, val]: the stable identity and all other columns.  SQLite *)
(* is external: BEGIN IMMEDIATE locks every attached database, COMMIT is   *)
(* atomic over all of them, and a transaction of a dead process is undone. *)
(***************************************************************************)
EXTENDS Naturals, Sequences, FiniteSets

CONSTANTS
  Shared,      \* the usage and the session database, which exist
  Days,        \* request days of the capture, each a database
  Capture,     \* the rows captured for each database
  LiveRows,    \* rows the router may write to each database
  RestoredRow, \* the row of a day file that is put back from elsewhere
  MaxFiles,    \* bound: database files ever created
  MaxCrashes   \* bound: deaths of the import process

Dbs == Shared \cup Days

ImportAssumption ==
  /\ Shared \cap Days = {}
  /\ \A d \in Dbs : Capture[d] # {}
  /\ \A d \in Dbs : \A r, o \in Capture[d] : r.key = o.key => r = o  \* a primary key
  /\ MaxFiles \in Nat /\ MaxCrashes \in Nat

AllRows == (UNION {Capture[d] \cup LiveRows[d] : d \in Dbs}) \cup {RestoredRow}

VARIABLES
  shared,    \* the rows of the shared databases
  file,      \* the file with each day's name, 0 when there is none
  content,   \* the rows of each day file
  archive,   \* rows of the archive of each day; the empty set when there is none
  conn,      \* the file the router has open for each day
  lock,      \* the maintenance lock: "none", "import"
  imp,       \* the import: what it does next, whether it commits, days it created,
             \* databases left to do, rows inserted in the open transaction
  crashes,
  acked,     \* history: <<database, row>> that others were told is written
  imported   \* history: an import has said that it committed

vars == <<shared, file, content, archive, conn, lock, imp, crashes, acked, imported>>
others == <<archive, conn, crashes, acked, imported>>

Files == DOMAIN content
Idle == [pc |-> "idle", commit |-> FALSE, created |-> {}, todo |-> {}, tx |-> {}]

TypeOK ==
  /\ content \in Seq(SUBSET AllRows)
  /\ shared \in [Shared -> SUBSET AllRows]
  /\ file \in [Days -> {0} \cup Files]
  /\ archive \in [Days -> SUBSET AllRows]
  /\ conn \in [Days -> {0} \cup Files]
  /\ lock = IF imp.pc \in {"idle", "lock"} THEN "none" ELSE "import"
  /\ imp \in [pc : {"idle", "lock", "prepare", "insert", "finish", "clean"},
              commit : BOOLEAN, created : SUBSET (Days \X Files), todo : SUBSET Dbs,
              tx : SUBSET (Dbs \X AllRows)]
  /\ crashes \in 0..MaxCrashes
  /\ acked \subseteq Dbs \X AllRows /\ imported \in BOOLEAN

Init ==
  /\ shared = [d \in Shared |-> {}]
  /\ file = [d \in Days |-> 0] /\ content = <<>>
  /\ archive = [d \in Days |-> {}] /\ conn = [d \in Days |-> 0]
  /\ lock = "none" /\ imp = Idle /\ crashes = 0 /\ acked = {} /\ imported = FALSE

Rows(d) ==
  IF d \in Shared THEN shared[d] ELSE IF file[d] = 0 THEN {} ELSE content[file[d]]

-----------------------------------------------------------------------------
\* Mutant of Unarchived: an archive is not looked for.
UnarchivedUnchecked(d) == TRUE

\* validate_target: a day must have no archive beside it.
Unarchived(d) == d \in Days => archive[d] = {}

\* The captures are read and the destinations validated, or it ends here.
Load(commit) ==
  /\ imp.pc = "idle"
  /\ imp' = IF \A d \in Days : Unarchived(d)
            THEN [Idle EXCEPT !.pc = "lock", !.commit = commit] ELSE imp
  /\ UNCHANGED <<shared, file, content, lock, others>>

\* RequestMaintenanceLock::acquire_writer waits.
Acquire ==
  /\ imp.pc = "lock" /\ lock = "none" /\ lock' = "import"
  /\ imp' = [imp EXCEPT !.pc = "prepare", !.todo = Dbs]
  /\ UNCHANGED <<shared, file, content, others>>

\* Any error: the transaction is rolled back and the created days are dropped.
Abort ==
  /\ imp.pc \in {"prepare", "insert", "finish"}
  /\ imp' = [imp EXCEPT !.pc = "clean", !.tx = {}, !.todo = {}]
  /\ UNCHANGED <<shared, file, content, lock, others>>

\* Validated again under the lock; a missing day is created with its schema.
Prepare(d) ==
  /\ imp.pc = "prepare" /\ d \in imp.todo /\ Unarchived(d)
  /\ IF d \in Shared \/ file[d] # 0
     THEN imp' = [imp EXCEPT !.todo = @ \ {d}] /\ UNCHANGED <<shared, file, content>>
     ELSE /\ Len(content) < MaxFiles
          /\ content' = Append(content, {})
          /\ file' = [file EXCEPT ![d] = Len(content')]
          /\ imp' = [imp EXCEPT !.todo = @ \ {d}, !.created = @ \cup {<<d, Len(content')>>}]
  /\ UNCHANGED <<shared, lock, others>>

\* Every database attached, and the transaction begun.
Attach ==
  /\ imp.pc = "prepare" /\ imp.todo = {}
  /\ imp' = [imp EXCEPT !.pc = "insert", !.todo = Dbs]
  /\ UNCHANGED <<shared, file, content, lock, others>>

\* Mutant of Collides: a row with the same identity counts as the same row.
CollidesNever(d) == FALSE

\* import_table: a row that is there already must be identical.
Collides(d) == \E r \in Capture[d], o \in Rows(d) : r.key = o.key /\ r # o

\* The rows a transaction leaves when it is committed.
Committed(d, tx) == Rows(d) \cup {r \in AllRows : <<d, r>> \in tx}
Write(tx) ==
  /\ shared' = [d \in Shared |-> Committed(d, tx)]
  /\ content' = [i \in Files |-> content[i] \cup
                   UNION {Committed(d, tx) : d \in {e \in Days : file[e] = i}}]

\* Mutant of Insert: each database is committed on its own.
InsertCommitted(d) ==
  /\ imp.pc = "insert" /\ d \in imp.todo /\ ~Collides(d)
  /\ Write({d} \X (Capture[d] \ Rows(d)))
  /\ imp' = [imp EXCEPT !.todo = @ \ {d}]
  /\ UNCHANGED <<file, lock, others>>

Insert(d) ==
  /\ imp.pc = "insert" /\ d \in imp.todo /\ ~Collides(d)
  /\ imp' = [imp EXCEPT !.todo = @ \ {d}, !.tx = @ \cup ({d} \X (Capture[d] \ Rows(d)))]
  /\ UNCHANGED <<shared, file, content, lock, others>>

\* validate_imported_foreign_keys found every parent.
CheckKeys ==
  /\ imp.pc = "insert" /\ imp.todo = {}
  /\ imp' = [imp EXCEPT !.pc = "finish"]
  /\ UNCHANGED <<shared, file, content, lock, others>>

\* Atomic over the databases; the created days stay.
Commit ==
  /\ imp.pc = "finish" /\ imp.commit
  /\ Write(imp.tx)
  /\ imp' = [imp EXCEPT !.pc = "clean", !.tx = {}, !.created = {}]
  /\ imported' = TRUE
  /\ UNCHANGED <<file, lock, archive, conn, crashes, acked>>

Rollback == imp.pc = "finish" /\ ~imp.commit /\ Abort

\* Mutant of SameFile: the day is removed by name.
SameFileByName(c) == file[c[1]] # 0

\* The file with the day's name is the one that was created.
SameFile(c) == file[c[1]] = c[2]

\* CreatedDays::drop.
Clean(c) ==
  /\ imp.pc = "clean" /\ c \in imp.created
  /\ file' = IF SameFile(c) THEN [file EXCEPT ![c[1]] = 0] ELSE file
  /\ imp' = [imp EXCEPT !.created = @ \ {c}]
  /\ UNCHANGED <<shared, content, lock, others>>

\* Mutant of Release: the created days are forgotten on the way out.
ReleaseForgotten ==
  /\ imp.pc = "clean"
  /\ imp' = Idle /\ lock' = "none"
  /\ UNCHANGED <<shared, file, content, others>>

\* The lock is declared before the list, so it is dropped after it.
Release ==
  /\ imp.pc = "clean" /\ imp.created = {}
  /\ imp' = Idle /\ lock' = "none"
  /\ UNCHANGED <<shared, file, content, others>>

\* The process dies: the system drops its lock, the next opening of a database
\* undoes its transaction, the days it created stay.
Crash ==
  /\ imp.pc # "idle" /\ crashes < MaxCrashes
  /\ imp' = Idle /\ lock' = "none" /\ crashes' = crashes + 1
  /\ UNCHANGED <<shared, file, content, archive, conn, acked, imported>>

-----------------------------------------------------------------------------
InTransaction == imp.pc \in {"insert", "finish"}

\* The request handler waits for the maintenance lock; the other handlers wait
\* for SQLite's.
RouterMayWrite(d) == IF d \in Days THEN lock = "none" ELSE ~InTransaction

\* A handler of the serving router writes a row, opening the day when it has no
\* connection to it.  It writes recent days, which have no archive.
RouterWrite(d, r) ==
  /\ RouterMayWrite(d) /\ \A o \in Rows(d) : o.key # r.key
  /\ \/ /\ d \in Shared
        /\ shared' = [shared EXCEPT ![d] = @ \cup {r}]
        /\ UNCHANGED <<file, content, conn>>
     \/ /\ d \in Days /\ conn[d] # 0
        /\ content' = [content EXCEPT ![conn[d]] = @ \cup {r}]
        /\ UNCHANGED <<shared, file, conn>>
     \/ /\ d \in Days /\ conn[d] = 0 /\ file[d] # 0
        /\ content' = [content EXCEPT ![file[d]] = @ \cup {r}]
        /\ conn' = [conn EXCEPT ![d] = file[d]]
        /\ UNCHANGED <<shared, file>>
     \/ /\ d \in Days /\ conn[d] = 0 /\ file[d] = 0 /\ archive[d] = {}
        /\ Len(content) < MaxFiles
        /\ content' = Append(content, {r})
        /\ file' = [file EXCEPT ![d] = Len(content')]
        /\ conn' = [conn EXCEPT ![d] = Len(content')]
        /\ UNCHANGED shared
  /\ acked' = acked \cup {<<d, r>>}
  /\ UNCHANGED <<archive, lock, imp, crashes, imported>>

\* An old day is archived and pruned under the lock.
ArchiveDay(d) ==
  /\ lock = "none" /\ file[d] # 0 /\ conn[d] = 0 /\ Rows(d) # {}
  /\ archive' = [archive EXCEPT ![d] = Rows(d)] /\ file' = [file EXCEPT ![d] = 0]
  /\ UNCHANGED <<shared, content, conn, lock, imp, crashes, acked, imported>>

\* Somebody puts a day file back, replacing a file that is empty.
Restore(d) ==
  /\ Len(content) < MaxFiles /\ Rows(d) = {} /\ conn[d] = 0 /\ archive[d] = {}
  /\ ~InTransaction /\ <<d, RestoredRow>> \notin acked
  /\ content' = Append(content, {RestoredRow})
  /\ file' = [file EXCEPT ![d] = Len(content')]
  /\ acked' = acked \cup {<<d, RestoredRow>>}
  /\ UNCHANGED <<shared, archive, conn, lock, imp, crashes, imported>>

Next ==
  \/ \E commit \in BOOLEAN : Load(commit)
  \/ Acquire \/ Attach \/ CheckKeys \/ Commit \/ Rollback \/ Abort \/ Release \/ Crash
  \/ \E d \in Dbs : Prepare(d) \/ Insert(d) \/ \E r \in LiveRows[d] : RouterWrite(d, r)
  \/ \E c \in imp.created : Clean(c)
  \/ \E d \in Days : ArchiveDay(d) \/ Restore(d)

Spec == Init /\ [][Next]_vars

-----------------------------------------------------------------------------
Kept(d) == Rows(d) \cup (IF d \in Days THEN archive[d] ELSE {})

(***************************************************************************)
(* No row that the router, or whoever put a file back, was told is written *)
(* is lost: not one written to a day that an import had created and takes  *)
(* away again, not those of a file that took that day's name.              *)
(***************************************************************************)
AckedKept == \A a \in acked : a[2] \in Kept(a[1])

(***************************************************************************)
(* The capture is in the history as a whole once an import has committed,  *)
(* and before that, but for the rows others wrote, not at all: one failing *)
(* database fails them all, and so does a death at any step.               *)
(***************************************************************************)
AllOrNothing ==
  IF imported THEN \A d \in Dbs : Capture[d] \subseteq Kept(d)
              ELSE \A d \in Dbs : \A r \in Capture[d] \cap Kept(d) : <<d, r>> \in acked

(***************************************************************************)
(* An import never leaves two rows of one identity in a database.          *)
(***************************************************************************)
OneRowPerKey == \A d \in Dbs : \A r, o \in Rows(d) : r.key = o.key => r = o

(***************************************************************************)
(* An import that ended, dry or failed, and did not die has left no empty  *)
(* day behind.                                                             *)
(***************************************************************************)
NoEmptyDay ==
  crashes = 0 /\ imp.pc = "idle" => \A d \in Days : file[d] # 0 => Rows(d) # {}

(***************************************************************************)
(* A day is in its database or in its archive, never in both: an archive   *)
(* made between the first look at the destination and the lock stops the   *)
(* import, although it finds the database missing.                         *)
(***************************************************************************)
NoFileBesideArchive == \A d \in Days : archive[d] # {} => file[d] = 0
=============================================================================
