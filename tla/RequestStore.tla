---------------------------- MODULE RequestStore ----------------------------
(***************************************************************************)
(* crates/persistence/src/requests/{mod,stages}.rs and archive.rs: the     *)
(* request databases, one SQLite file per day.  The event handler writes   *)
(* them through a small cache of connections, the archive worker of the    *)
(* same process compresses the old ones, and the prune command of another  *)
(* process deletes those whose archive holds the same bytes.  They share   *)
(* one file lock: the handler waits for it, the other two give up.         *)
(*                                                                         *)
(* A file is an inode, so that a connection to a deleted file is told      *)
(* apart from one to the file that now has its name.  Its contents are     *)
(* facts <<id, table, event>>: the columns an event wrote in that table's  *)
(* row of the request.                                                     *)
(***************************************************************************)
EXTENDS Integers, Sequences, FiniteSets

CONSTANTS
    Ids,           \* composite_request_id: a request and its attempt
    Kinds,         \* the events the requests emit
    MaxDay,        \* bound on the calendar
    CacheCap,      \* CACHE_CAP
    ArchiveAfter,  \* archive_after_days
    PruneAfter,    \* prune_after_days
    MaxCrashes,    \* bound on the crashes of the two processes
    MaxFiles,      \* bound on the database files ever created
    NoEvent, NoFile

RetentionAssumption == ArchiveAfter \in Nat \ {0} /\ PruneAfter \in Nat \ {0}
CacheAssumption == CacheCap \in Nat \ {0}
BoundsAssumption == MaxDay \in Nat \ {0} /\ MaxFiles \in Nat /\ MaxCrashes \in Nat

VARIABLES
    today,       \* the day of now_utc
    emitted,     \* the kinds each request has emitted
    inbox,       \* the event the handler is at, or NoEvent
    pinned,      \* request_meta: the day of each request, or 0
    conn,        \* conns: the inode a day's connection is open on, or 0
    order,       \* the days of conns, least recently used first
    db,          \* the inode named <day>.db, or 0
    content,     \* the facts in each inode
    archive,     \* <day>.db.zstd: NoFile or [whole, rows]
    temp,        \* <day>.db.zstd.tmp
    quarantine,  \* the inodes under a .prune-<pid>-<n>.tmp name
    lock,        \* the holder of .tokn-requests-maintenance.lock
    archiver,    \* [pc, day, todo]: the scan of the archive worker
    pruner,      \* [pc, day, ino, todo]: the prune command
    cancelled,   \* the archive worker is to stop
    crashes,
    written,     \* history: the facts whose write has returned
    late         \* history: the requests with a record after Completed

vars == <<today, emitted, inbox, pinned, conn, order, db, content, archive, temp,
          quarantine, lock, archiver, pruner, cancelled, crashes, written, late>>
handler == <<emitted, inbox, pinned, conn, order, written, late>>
copies == <<archive, temp>>
workers == <<lock, archiver, pruner, cancelled>>

Days == 1..MaxDay
Inodes == DOMAIN content
Idle == [pc |-> "idle", day |-> 0, ino |-> 0, todo |-> {}]

\* RequestEventHandler::handle: the tables each event upserts a row of, ...
Tables == [Started |-> {"connection"},
           Extract |-> {"metadata", "downstream"}, Resolve |-> {"metadata"},
           BuildHeaders |-> {"upstream"}, ConvertRequest |-> {"upstream"},
           Send |-> {"upstream"}, ConvertResponse |-> {"downstream"},
           Error |-> {}, Completed |-> {},
           InboundConnection |-> {"downstream"}, UpstreamReq |-> {"upstream"},
           UpstreamResp |-> {"upstream"}, UpstreamBody |-> {"upstream"},
           ConvertedBody |-> {"downstream"}, Usage |-> {"metadata"}]
\* ... those that also UPDATE the request's connection row, which an INSERT
\* made, and the records, which make sure that one did.
Patches == {"Send", "ConvertResponse", "Error", "Completed", "InboundConnection", "UpstreamResp"}
Records == {"InboundConnection", "UpstreamReq", "UpstreamResp", "UpstreamBody",
            "ConvertedBody", "Usage"}

KindsAssumption == "Started" \in Kinds /\ Kinds \subseteq DOMAIN Tables

Facts == Ids \X {"connection", "metadata", "downstream", "upstream"} \X Kinds
Copies == [whole : BOOLEAN, rows : SUBSET Facts]
Files == {NoFile} \cup Copies

NoFileAssumption == NoFile \notin Copies

TypeOK ==
    /\ today \in Days
    /\ emitted \in [Ids -> SUBSET Kinds]
    /\ inbox \in {NoEvent} \cup [id : Ids, kind : Kinds, day : Days]
    /\ pinned \in [Ids -> 0..MaxDay]
    /\ content \in Seq(SUBSET Facts)
    /\ conn \in [Days -> Inodes \cup {0}]
    /\ order \in Seq(Days)
    /\ db \in [Days -> Inodes \cup {0}]
    /\ archive \in [Days -> Files] /\ temp \in [Days -> Files]
    /\ quarantine \subseteq Inodes
    /\ lock \in {"none", "archiver", "pruner"}
    /\ archiver \in [pc : {"idle", "scan", "copy", "rename"}, day : 0..MaxDay,
                     ino : {0}, todo : SUBSET Days]
    /\ pruner \in [pc : {"idle", "scan", "verified", "rechecked", "renamed"},
                   day : 0..MaxDay, ino : Inodes \cup {0}, todo : SUBSET Days]
    /\ cancelled \in BOOLEAN /\ crashes \in 0..MaxCrashes
    /\ written \subseteq Facts /\ late \subseteq Ids

Init ==
    /\ today = 1
    /\ emitted = [r \in Ids |-> {}] /\ inbox = NoEvent
    /\ pinned = [r \in Ids |-> 0]
    /\ conn = [d \in Days |-> 0] /\ order = <<>>
    /\ db = [d \in Days |-> 0] /\ content = <<>>
    /\ archive = [d \in Days |-> NoFile] /\ temp = [d \in Days |-> NoFile]
    /\ quarantine = {} /\ lock = "none"
    /\ archiver = Idle /\ pruner = Idle /\ cancelled = FALSE
    /\ crashes = 0 /\ written = {} /\ late = {}

NextDay ==
    /\ today < MaxDay
    /\ today' = today + 1
    /\ UNCHANGED <<handler, db, content, copies, quarantine, workers, crashes>>

-----------------------------------------------------------------------------
(***************************************************************************)
(* The events, as the pipeline emits them (RequestPipeline!LogOrdered):    *)
(* Started first, and after Completed only records.                        *)
(***************************************************************************)
MayEmit(r, k) ==
    /\ k \notin emitted[r]
    /\ (k = "Started") = (emitted[r] = {})
    /\ "Completed" \in emitted[r] => k \in Records

EmitEvent(r, k) ==
    /\ inbox = NoEvent /\ MayEmit(r, k)
    /\ emitted' = [emitted EXCEPT ![r] = @ \cup {k}]
    /\ inbox' = [id |-> r, kind |-> k, day |-> today]
    /\ late' = IF "Completed" \in emitted[r] THEN late \cup {r} ELSE late
    /\ UNCHANGED <<today, pinned, conn, order, db, content, copies, quarantine, workers,
                   crashes, written>>

\* The broadcast channel overwrites an event before the dispatcher reads it.
LoseEvent(r, k) ==
    /\ MayEmit(r, k)
    /\ emitted' = [emitted EXCEPT ![r] = @ \cup {k}]
    /\ UNCHANGED <<today, inbox, pinned, conn, order, db, content, copies, quarantine,
                   workers, crashes, written, late>>

-----------------------------------------------------------------------------
(***************************************************************************)
(* RequestsDb.                                                             *)
(***************************************************************************)
\* DayConnection::matches_path.
MatchesPath(d) == conn[d] = db[d]

\* order.retain(|k| k != d): order lists a day at most once (CacheBounded).
Without(s, d) ==
    IF \E i \in DOMAIN s : s[i] = d
    THEN LET at == CHOOSE i \in DOMAIN s : s[i] = d
         IN [i \in 1..Len(s) - 1 |-> s[IF i < at THEN i ELSE i + 1]]
    ELSE s

Cached(d) == conn[d] # 0 /\ MatchesPath(d)

\* Mutant of ConnFor: the identity is taken of a file that is not there yet.
ConnForEarly(d) == IF Cached(d) THEN conn[d] ELSE Len(content) + 2

\* conn_for_day: the inode of the connection to day d, ...
ConnFor(d) == IF Cached(d) THEN conn[d]
              ELSE IF db[d] # 0 THEN db[d] ELSE Len(content) + 1

\* ... and the cache once it is open, the least recently used one evicted.
OpenDay(d) ==
    LET kept == Without(order, d)
        evicted == IF ~Cached(d) /\ Len(kept) >= CacheCap THEN {Head(kept)} ELSE {}
        used == Append(IF evicted = {} THEN kept ELSE Tail(kept), d)
    IN [order |-> used,
        conn |-> [k \in Days |-> IF k = d THEN ConnFor(d)
                                 ELSE IF k \in evicted THEN 0 ELSE conn[k]]]

\* Mutant of CloseDay: the connection is dropped and its place in order is not.
CloseDayKeepingOrder(r, d, opened) ==
    IF \E s \in Ids \ {r} : pinned[s] = d THEN opened
    ELSE [order |-> opened.order, conn |-> [opened.conn EXCEPT ![d] = 0]]

\* clear_request: the day's connection is closed with its last request.
CloseDay(r, d, opened) ==
    IF \E s \in Ids \ {r} : pinned[s] = d THEN opened
    ELSE [order |-> Without(opened.order, d), conn |-> [opened.conn EXCEPT ![d] = 0]]

\* What an event changes in a file: its rows, and the connection row if there.
Rows(r, k, present) ==
    {<<r, t, k>> : t \in Tables[k]} \cup
    {<<r, "connection", k>> : x \in {x \in present :
        k \in Patches /\ x[1] = r /\ x[2] = "connection"}}

\* The statements of one handler on the file of day d.
Write(r, k, d) ==
    LET ino == ConnFor(d)
        present == IF ino \in Inodes THEN content[ino] ELSE {}
        rows == Rows(r, k, present)
    IN /\ ino <= MaxFiles
       /\ content' = IF ino \in Inodes THEN [content EXCEPT ![ino] = @ \cup rows]
                     ELSE Append(content, rows)
       /\ db' = IF ino \in Inodes THEN db ELSE [db EXCEPT ![d] = ino]
       /\ written' = written \cup rows

-----------------------------------------------------------------------------
(***************************************************************************)
(* RequestEventHandler.  Each handler holds the lock from its first to its *)
(* last statement, so it is one step that needs the lock to be free.       *)
(***************************************************************************)
\* Mutant of WriteLock: the handler writes without the lock.
NoWriteLock == TRUE

\* acquire_write_lock
WriteLock == lock = "none"

\* on_started; a record that finds its request unpinned starts it, with its
\* own time (ensure_started_for_record), and is then handled itself.
OnStarted ==
    /\ inbox # NoEvent /\ WriteLock
    /\ \/ inbox.kind = "Started"
       \/ inbox.kind \in Records /\ pinned[inbox.id] = 0
    /\ Write(inbox.id, "Started", inbox.day)
    /\ conn' = OpenDay(inbox.day).conn /\ order' = OpenDay(inbox.day).order
    /\ pinned' = [pinned EXCEPT ![inbox.id] = inbox.day]
    /\ inbox' = IF inbox.kind = "Started" THEN NoEvent ELSE inbox
    /\ UNCHANGED <<today, emitted, copies, quarantine, workers, crashes, late>>

\* Mutant of RouteDay: an event goes to the file of its own day.
RouteByTime(r) == IF pinned[r] = 0 THEN 0 ELSE inbox.day

\* conn_for_request: the day the request was inserted in.
RouteDay(r) == pinned[r]

\* on_extract, on_resolve, ..., on_usage.
OnUpdate ==
    /\ inbox # NoEvent /\ WriteLock
    /\ inbox.kind \notin {"Started", "Completed"}
    /\ LET d == RouteDay(inbox.id) IN
         /\ d # 0
         /\ Write(inbox.id, inbox.kind, d)
         /\ conn' = OpenDay(d).conn /\ order' = OpenDay(d).order
    /\ inbox' = NoEvent
    /\ UNCHANGED <<today, emitted, pinned, copies, quarantine, workers, crashes, late>>

OnCompleted ==
    /\ inbox # NoEvent /\ WriteLock
    /\ inbox.kind = "Completed"
    /\ LET d == RouteDay(inbox.id)
           after == CloseDay(inbox.id, d, OpenDay(d)) IN
         /\ d # 0
         /\ Write(inbox.id, "Completed", d)
         /\ conn' = after.conn /\ order' = after.order
    /\ pinned' = [pinned EXCEPT ![inbox.id] = 0]
    /\ inbox' = NoEvent
    /\ UNCHANGED <<today, emitted, copies, quarantine, workers, crashes, late>>

\* "... without prior Started": the event is dropped.
OnOrphan ==
    /\ inbox # NoEvent /\ WriteLock
    /\ inbox.kind \notin Records \cup {"Started"} /\ pinned[inbox.id] = 0
    /\ inbox' = NoEvent
    /\ UNCHANGED <<today, emitted, pinned, conn, order, db, content, copies, quarantine,
                   workers, crashes, written, late>>

\* A statement or the opening of the file fails: a warning, and the next event.
WriteFails ==
    /\ inbox # NoEvent /\ WriteLock
    /\ inbox' = NoEvent
    /\ UNCHANGED <<today, emitted, pinned, conn, order, db, content, copies, quarantine,
                   workers, crashes, written, late>>

-----------------------------------------------------------------------------
(***************************************************************************)
(* The archive worker: archive_requests_once_with_events and compress_db.  *)
(***************************************************************************)
\* is_archivable_request_db, for the cutoff of retention_cutoff.
Old(after) == {d \in Days : db[d] # 0 /\ d <= today - after}

untouched == <<today, handler, db, content, crashes>>

ArchiveScan ==
    /\ archiver.pc = "idle" /\ ~cancelled
    /\ lock = "none" /\ lock' = "archiver"
    /\ archiver' = [Idle EXCEPT !.pc = "scan", !.todo = Old(ArchiveAfter)]
    /\ UNCHANGED <<untouched, copies, quarantine, pruner, cancelled>>

ArchiveSkip(d) ==
    /\ archiver.pc = "scan" /\ d \in archiver.todo /\ ~cancelled
    /\ archive[d] # NoFile
    /\ archiver' = [archiver EXCEPT !.todo = @ \ {d}]
    /\ UNCHANGED <<untouched, copies, quarantine, lock, pruner, cancelled>>

\* A temporary file that was left behind is removed, and a new one begun.
ArchiveStart(d) ==
    /\ archiver.pc = "scan" /\ d \in archiver.todo /\ ~cancelled
    /\ archive[d] = NoFile
    /\ temp' = [temp EXCEPT ![d] = [whole |-> FALSE, rows |-> {}]]
    /\ archiver' = [archiver EXCEPT !.pc = "copy", !.day = d, !.todo = @ \ {d}]
    /\ UNCHANGED <<untouched, archive, quarantine, lock, pruner, cancelled>>

\* encode_archive has read the whole database.
ArchiveEncode ==
    /\ archiver.pc = "copy"
    /\ temp' = [temp EXCEPT ![archiver.day] = [whole |-> TRUE, rows |-> content[db[archiver.day]]]]
    /\ archiver' = [archiver EXCEPT !.pc = "rename"]
    /\ UNCHANGED <<untouched, archive, quarantine, lock, pruner, cancelled>>

ArchiveRename ==
    /\ archiver.pc = "rename"
    /\ archive' = [archive EXCEPT ![archiver.day] = temp[archiver.day]]
    /\ temp' = [temp EXCEPT ![archiver.day] = NoFile]
    /\ archiver' = [archiver EXCEPT !.pc = "scan", !.day = 0]
    /\ UNCHANGED <<untouched, quarantine, lock, pruner, cancelled>>

\* Reading, encoding or renaming failed: the temporary file goes.
ArchiveFails ==
    /\ archiver.pc \in {"copy", "rename"}
    /\ temp' = [temp EXCEPT ![archiver.day] = NoFile]
    /\ archiver' = [archiver EXCEPT !.pc = "scan", !.day = 0]
    /\ UNCHANGED <<untouched, archive, quarantine, lock, pruner, cancelled>>

\* Mutant of ArchiveCancelled: the interrupted scan keeps its lock file open.
ArchiveCancelledHolding ==
    /\ cancelled
    /\ \/ archiver.pc = "scan" /\ archiver.todo # {} /\ UNCHANGED temp
       \/ archiver.pc = "copy" /\ temp' = [temp EXCEPT ![archiver.day] = NoFile]
    /\ archiver' = Idle
    /\ UNCHANGED <<untouched, archive, quarantine, lock, pruner, cancelled>>

\* check_cancelled returns Interrupted: the scan ends where it is.
ArchiveCancelled ==
    /\ cancelled
    /\ \/ archiver.pc = "scan" /\ archiver.todo # {} /\ UNCHANGED temp
       \/ archiver.pc = "copy" /\ temp' = [temp EXCEPT ![archiver.day] = NoFile]
    /\ archiver' = Idle /\ lock' = "none"
    /\ UNCHANGED <<untouched, archive, quarantine, pruner, cancelled>>

ArchiveDone ==
    /\ archiver.pc = "scan" /\ archiver.todo = {}
    /\ archiver' = Idle /\ lock' = "none"
    /\ UNCHANGED <<untouched, copies, quarantine, pruner, cancelled>>

\* ArchiveRuntime::shutdown
Cancel ==
    /\ ~cancelled /\ cancelled' = TRUE
    /\ UNCHANGED <<untouched, copies, quarantine, lock, archiver, pruner>>

-----------------------------------------------------------------------------
(***************************************************************************)
(* The prune command with --commit.                                        *)
(***************************************************************************)
PruneScan ==
    /\ pruner.pc = "idle"
    /\ lock = "none" /\ lock' = "pruner"
    /\ pruner' = [Idle EXCEPT !.pc = "scan", !.todo = Old(PruneAfter)]
    /\ UNCHANGED <<untouched, copies, quarantine, archiver, cancelled>>

\* Mutant of SameDigest: an archive that can be read is enough.
ArchiveReadable(d) == archive[d].whole

\* hash_archive and hash_file agree: an archive cut short does not decode.
SameDigest(d) == archive[d].whole /\ archive[d].rows = content[db[d]]

\* prune_request_db: MissingArchive, HashMismatch, or a file that cannot be read.
PruneKeep(d) ==
    /\ pruner.pc = "scan" /\ d \in pruner.todo
    /\ pruner' = [pruner EXCEPT !.todo = @ \ {d}]
    /\ UNCHANGED <<untouched, copies, quarantine, lock, archiver, cancelled>>

\* Both files are opened and hashed, ...
PruneVerify(d) ==
    /\ pruner.pc = "scan" /\ d \in pruner.todo
    /\ archive[d] # NoFile /\ SameDigest(d)
    /\ pruner' = [pc |-> "verified", day |-> d, ino |-> db[d], todo |-> pruner.todo \ {d}]
    /\ UNCHANGED <<untouched, copies, quarantine, lock, archiver, cancelled>>

\* ... and hashed again, under the names they were opened by.
PruneRecheck ==
    /\ pruner.pc = "verified"
    /\ db[pruner.day] = pruner.ino /\ SameDigest(pruner.day)
    /\ pruner' = [pruner EXCEPT !.pc = "rechecked"]
    /\ UNCHANGED <<untouched, copies, quarantine, lock, archiver, cancelled>>

\* One of them changed, or could not be read: PruneOutcome::Failed.
PruneGiveUp ==
    /\ pruner.pc \in {"verified", "rechecked"}
    /\ pruner' = [Idle EXCEPT !.pc = "scan", !.todo = pruner.todo]
    /\ UNCHANGED <<untouched, copies, quarantine, lock, archiver, cancelled>>

\* remove_stable_file renames the database out of the way, ...
PruneQuarantine ==
    /\ pruner.pc = "rechecked" /\ db[pruner.day] = pruner.ino
    /\ quarantine' = quarantine \cup {pruner.ino}
    /\ db' = [db EXCEPT ![pruner.day] = 0]
    /\ pruner' = [pruner EXCEPT !.pc = "renamed"]
    /\ UNCHANGED <<today, handler, content, crashes, copies, lock, archiver, cancelled>>

\* ... and deletes it, ...
PruneRemove ==
    /\ pruner.pc = "renamed"
    /\ quarantine' = quarantine \ {pruner.ino}
    /\ pruner' = [Idle EXCEPT !.pc = "scan", !.todo = pruner.todo]
    /\ UNCHANGED <<untouched, copies, lock, archiver, cancelled>>

\* ... or fails to, and restores it unless its name is taken.
PruneRestore ==
    /\ pruner.pc = "renamed"
    /\ IF db[pruner.day] = 0
       THEN /\ quarantine' = quarantine \ {pruner.ino}
            /\ db' = [db EXCEPT ![pruner.day] = pruner.ino]
       ELSE UNCHANGED <<quarantine, db>>
    /\ pruner' = [Idle EXCEPT !.pc = "scan", !.todo = pruner.todo]
    /\ UNCHANGED <<today, handler, content, crashes, copies, lock, archiver, cancelled>>

PruneDone ==
    /\ pruner.pc = "scan" /\ pruner.todo = {}
    /\ pruner' = Idle /\ lock' = "none"
    /\ UNCHANGED <<untouched, copies, quarantine, archiver, cancelled>>

-----------------------------------------------------------------------------
(***************************************************************************)
(* Crashes.  The kernel releases the lock of a process that dies; files    *)
(* stay as they are.                                                       *)
(***************************************************************************)
\* The server dies and is started again: requests, pins and connections go.
ServerCrash ==
    /\ crashes < MaxCrashes /\ crashes' = crashes + 1
    /\ emitted' = [r \in Ids |-> IF emitted[r] = {} THEN {} ELSE Kinds]
    /\ inbox' = NoEvent
    /\ pinned' = [r \in Ids |-> 0]
    /\ conn' = [d \in Days |-> 0] /\ order' = <<>>
    /\ archiver' = Idle /\ cancelled' = FALSE
    /\ lock' = IF lock = "archiver" THEN "none" ELSE lock
    /\ UNCHANGED <<today, db, content, copies, quarantine, pruner, written, late>>

PrunerCrash ==
    /\ pruner.pc # "idle"
    /\ crashes < MaxCrashes /\ crashes' = crashes + 1
    /\ pruner' = Idle /\ lock' = "none"
    /\ UNCHANGED <<today, handler, db, content, copies, quarantine, archiver, cancelled>>

-----------------------------------------------------------------------------
Handle == OnStarted \/ OnUpdate \/ OnCompleted \/ OnOrphan \/ WriteFails

ArchiveStep ==
    \/ \E d \in Days : ArchiveSkip(d) \/ ArchiveStart(d)
    \/ ArchiveEncode \/ ArchiveRename \/ ArchiveFails \/ ArchiveCancelled \/ ArchiveDone

PruneStep ==
    \/ \E d \in Days : PruneKeep(d) \/ PruneVerify(d)
    \/ PruneRecheck \/ PruneGiveUp \/ PruneQuarantine \/ PruneRemove \/ PruneRestore
    \/ PruneDone

Next ==
    \/ NextDay
    \/ \E r \in Ids, k \in Kinds : EmitEvent(r, k) \/ LoseEvent(r, k)
    \/ Handle
    \/ ArchiveScan \/ ArchiveStep \/ Cancel
    \/ PruneScan \/ PruneStep
    \/ ServerCrash \/ PrunerCrash

Spec == Init /\ [][Next]_vars

(***************************************************************************)
(* The threads run: a handler that waits for the lock is served when it is *)
(* free again and again (the archive worker tries for it once in six       *)
(* hours), and the holders of the lock run to their end.                   *)
(***************************************************************************)
FairSpec == Spec /\ SF_vars(Handle) /\ WF_vars(ArchiveStep) /\ WF_vars(PruneStep)

-----------------------------------------------------------------------------
Holds(d, f) ==
    \/ db[d] # 0 /\ f \in content[db[d]]
    \/ archive[d] # NoFile /\ f \in archive[d].rows

(***************************************************************************)
(* The cache of connections is bounded and consistent: order lists each    *)
(* open day once, and no more than CACHE_CAP of them, whatever is opened,  *)
(* reopened after a deletion, evicted and closed (conn_for_day,            *)
(* clear_request).                                                         *)
(***************************************************************************)
CacheBounded ==
    /\ Len(order) <= CacheCap
    /\ \A i, j \in DOMAIN order : order[i] = order[j] => i = j
    /\ \A d \in Days : conn[d] # 0 <=> \E i \in DOMAIN order : order[i] = d

(***************************************************************************)
(* Nothing that was written is lost: whatever the order of the writes, the *)
(* archiving, the deletion and the crashes, each fact is in a database, an *)
(* archive or a quarantined file (conn_for_day reopens a file that was     *)
(* deleted; prune_request_db deletes what it has compared).                *)
(***************************************************************************)
NothingLost ==
    \A f \in written :
        (\E d \in Days : Holds(d, f)) \/ (\E i \in quarantine : f \in content[i])

(***************************************************************************)
(* An archive appears under its final name once, whole, and with what its  *)
(* day's database holds at that moment: no write comes between the reading *)
(* of the database and the rename, and no crash leaves half an archive     *)
(* (compress_db under the maintenance lock).                               *)
(***************************************************************************)
ArchiveCopies ==
    \A d \in Days : archive'[d] # archive[d] =>
        /\ archive[d] = NoFile /\ db[d] # 0
        /\ archive'[d] = [whole |-> TRUE, rows |-> content[db[d]]]

\* The days that hold something of a request.
DaysOf(r) == {d \in Days : \E f \in written : f[1] = r /\ Holds(d, f)}

(***************************************************************************)
(* A request without a record after its Completed event is in the file of  *)
(* one day, however long it lasts (conn_for_request: "even if subsequent   *)
(* events arrive on the next calendar day").                               *)
(***************************************************************************)
OneDayPerRequest == \A r \in Ids \ late : Cardinality(DaysOf(r)) <= 1

(***************************************************************************)
(* An event that waits for the lock is dealt with: the archive worker and  *)
(* the prune command cannot keep the handler out for ever.                 *)
(***************************************************************************)
EventHandled == inbox # NoEvent ~> inbox = NoEvent
=============================================================================
