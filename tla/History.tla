------------------------------ MODULE History -------------------------------
(***************************************************************************)
(* What the gateway keeps of its requests: the day files with their        *)
(* archives, the usage rows, the session trees, the import of foreign      *)
(* history, the migrations of a database's schema, and the end of the      *)
(* process, which has to leave all of it written.                          *)
(*                                                                         *)
(* The components share no variable, so a behaviour of their composition   *)
(* interleaves one behaviour of each, and a property of one component is   *)
(* decided by that component's behaviours alone: one of them, `part`,      *)
(* moves while the others stay where they start.  A component that is      *)
(* looked at in two settings takes its constants from a record.            *)
(***************************************************************************)
EXTENDS Integers, Sequences, FiniteSets

CONSTANTS
    Ids, Kinds, MaxDay, CacheCap, ArchiveAfter, PruneAfter, \* the day files'
    MaxCrashes, MaxFiles,
    Attempts, Emitted, MaxUsage, Faulty,                    \* the usage rows'
    Tree, Lone,                                             \* settings of the trees
    Shared, Captured, Capture, LiveRows, RestoredRow,       \* the import's
    MaxDayFiles, MaxDeaths,
    Upgrade, Race,                                          \* settings of the schema
    Listeners, HttpListeners, Connections, ListenerOf,      \* the drain's
    NoEvent, NoFile, None

VARIABLES
    part,
    today, emitted, inbox, pinned, conn, order, db, content, archive, temp,
    quarantine, lock, archiver, pruner, cancelled, crashes, written, late,
    heardOf, usages, rowPending, rows, heard, latest, lateUsage, unwritten,
    now, stage, request, pending, stored, tree, nodes, sessions, threads, heads,
    player, deaf, stale,
    shared, file, dayContent, dayArchive, dayConn, dayLock, imp, deaths, acked, imported,
    schema, bak, bakTmp, resTmp, proc, gap,
    lst, failed, client, fin, stop, collected, outcome, main

Store == INSTANCE RequestStore

Usage == INSTANCE UsageRecorder WITH
    Ids <- Attempts, Kinds <- Emitted,
    emitted <- heardOf, pending <- rowPending, late <- lateUsage, failed <- unwritten

Session(k) == INSTANCE SessionRecorder WITH
    Ids <- k.ids, Sessions <- k.sessions, Inputs <- k.inputs, Outputs <- k.outputs,
    MaxTs <- k.maxTs, Retention <- k.retention

Import == INSTANCE HistoryImport WITH
    Days <- Captured, MaxFiles <- MaxDayFiles, MaxCrashes <- MaxDeaths,
    content <- dayContent, archive <- dayArchive, conn <- dayConn, lock <- dayLock,
    crashes <- deaths

Schema(k) == INSTANCE SchemaMigrations WITH
    Procs <- k.procs, Heads <- k.heads, MaxRows <- k.maxRows, db <- schema

Drain == INSTANCE ServerDrain WITH conn <- client

(***************************************************************************)
(* The settings: trees of more requests, and trees of more conversations;  *)
(* openers of a database of which one at a time is alive, and openers that *)
(* race.                                                                   *)
(***************************************************************************)
ASSUME HistoryAssumption ==
    /\ Store!RetentionAssumption /\ Store!CacheAssumption /\ Store!KindsAssumption
    /\ Store!BoundsAssumption /\ Store!NoFileAssumption
    /\ Usage!NoneAssumption /\ Usage!KindsAssumption
    /\ Session(Tree)!InputsAssumption /\ Session(Tree)!BoundsAssumption
    /\ Session(Tree)!NoneAssumption
    /\ Session(Lone)!InputsAssumption /\ Session(Lone)!BoundsAssumption
    /\ Session(Lone)!NoneAssumption
    /\ Import!ImportAssumption
    /\ Schema(Upgrade)!SchemaAssumption /\ Schema(Race)!SchemaAssumption
    /\ \A p, q \in Upgrade.procs : p = q
    /\ Drain!DrainAssumption

storeVars == <<today, emitted, inbox, pinned, conn, order, db, content, archive, temp,
               quarantine, lock, archiver, pruner, cancelled, crashes, written, late>>
usageVars == <<heardOf, usages, rowPending, rows, heard, latest, lateUsage, unwritten>>
treeVars == <<now, stage, request, pending, stored, tree, nodes, sessions, threads,
              heads, player, deaf, stale>>
importVars == <<shared, file, dayContent, dayArchive, dayConn, dayLock, imp, deaths,
                acked, imported>>
schemaVars == <<schema, bak, bakTmp, resTmp, proc, gap>>
drainVars == <<lst, failed, client, fin, stop, collected, outcome, main>>

Parts == {"store", "usage", "tree", "lone", "import", "upgrade", "race", "drain"}

Init ==
    /\ part \in Parts
    /\ Store!Init /\ Usage!Init /\ Import!Init /\ Drain!Init
    /\ IF part = "lone" THEN Session(Lone)!Init ELSE Session(Tree)!Init
    /\ IF part = "race" THEN Schema(Race)!Init ELSE Schema(Upgrade)!Init
    /\ part \notin {"upgrade", "race"} => schema = Schema(Upgrade)!Missing

Next ==
    \/ /\ part = "store" /\ Store!Next
       /\ UNCHANGED <<part, usageVars, treeVars, importVars, schemaVars, drainVars>>
    \/ /\ part = "usage" /\ Usage!Next
       /\ UNCHANGED <<part, storeVars, treeVars, importVars, schemaVars, drainVars>>
    \/ /\ part = "tree" /\ Session(Tree)!Next
       /\ UNCHANGED <<part, storeVars, usageVars, importVars, schemaVars, drainVars>>
    \/ /\ part = "lone" /\ Session(Lone)!Next
       /\ UNCHANGED <<part, storeVars, usageVars, importVars, schemaVars, drainVars>>
    \/ /\ part = "import" /\ Import!Next
       /\ UNCHANGED <<part, storeVars, usageVars, treeVars, schemaVars, drainVars>>
    \/ /\ part = "upgrade" /\ Schema(Upgrade)!Next
       /\ UNCHANGED <<part, storeVars, usageVars, treeVars, importVars, drainVars>>
    \/ /\ part = "race" /\ Schema(Race)!Next
       /\ UNCHANGED <<part, storeVars, usageVars, treeVars, importVars, drainVars>>
    \/ /\ part = "drain" /\ Drain!Next
       /\ UNCHANGED <<part, storeVars, usageVars, treeVars, importVars, schemaVars>>

vars == <<part, storeVars, usageVars, treeVars, importVars, schemaVars, drainVars>>

Spec == Init /\ [][Next]_vars

-----------------------------------------------------------------------------
(* The properties; the comments in the modules say more. *)

\* No write of the request handler is lost to archiving, pruning or a crash, a request
\* is in one day's file unless a record follows Completed, and the cache of open day files
\* keeps its bound and its order (RequestsDb, the archive worker, prune_request_db).
WritesKept ==
    part = "store" =>
        Store!TypeOK /\ Store!NothingLost /\ Store!OneDayPerRequest /\ Store!CacheBounded

\* A copy is of what it claims to copy: an archive appears once and whole, with what the
\* database holds at that moment, and a backup is the database before the migrations.
CopiesFaithful ==
    [][/\ part = "store" => Store!ArchiveCopies
       /\ part = "upgrade" => Schema(Upgrade)!BackupIsPreSequence]_<<storeVars, schemaVars>>

\* A completed attempt whose model is known has its row, with the last figures heard and
\* the time of the start, and is forgotten with its usage (UsageEventHandler).
UsageRecorded ==
    part = "usage" =>
        /\ Usage!TypeOK
        /\ Usage!RowCurrent /\ Usage!RowWritten /\ Usage!ForgottenWithUsage

\* In whatever order requests end and are played back, the head of a session is the
\* newest of its nodes, a thread spans its nodes, the tree is closed under prefixes and a
\* success is recorded with what the client was sent (record_tree, SessionEventHandler).
SessionTreeSound ==
    /\ part = "tree" =>
          /\ Session(Tree)!TypeOK
          /\ Session(Tree)!HeadIsNewest /\ Session(Tree)!ThreadSpansNodes
    /\ part = "lone" =>
          /\ Session(Lone)!TypeOK
          /\ Session(Lone)!TreeWhole /\ Session(Lone)!SuccessRecorded

\* An import leaves all of the capture or nothing, keeps the rows of others, gives no two
\* rows one identity, and leaves neither an empty day nor a database beside its archive.
ImportAtomic ==
    part = "import" =>
        /\ Import!TypeOK
        /\ Import!AckedKept /\ Import!AllOrNothing /\ Import!OneRowPerKey
        /\ Import!NoEmptyDay /\ Import!NoFileBesideArchive

\* No half file has a name that is opened, the history is in the database or in its
\* backup, and each migration runs once, also when two processes open the file
\* together (apply, backup, rollback).
MigrationsSafe ==
    /\ part = "upgrade" =>
          /\ Schema(Upgrade)!TypeOK
          /\ Schema(Upgrade)!WholeFiles /\ Schema(Upgrade)!OriginalKept
    /\ part = "race" => Schema(Race)!TypeOK /\ Schema(Race)!AppliedOnce

\* However the listeners end, nothing is emitted behind the shutdown marker, the flush
\* starts only when all of them have drained, and an exit that reports success has cut off
\* and lost nothing (serve_http, supervise_listeners, finish_events).
DrainSafe ==
    part = "drain" =>
        /\ Drain!TypeOK
        /\ Drain!NothingAfterMark /\ Drain!SiblingsDrained /\ Drain!SuccessIsComplete

=============================================================================
