----------------------------- MODULE ConfigEdit -----------------------------
(***************************************************************************)
(* Writers of one configuration document (config/src/lib.rs): the advisory *)
(* lock on a separate lock file, the edits that read and replace the       *)
(* document under it, and the guarded ones, whose caller read the document *)
(* before taking the lock and names that preimage. They are processes of   *)
(* their own (config set, config init, agent linking) that may die         *)
(* anywhere. An editor that knows nothing of the lock may write too, and   *)
(* somebody may remove the lock file while nobody holds it.                *)
(*                                                                         *)
(* A document is its schema and the set of the edits it carries.           *)
(***************************************************************************)
EXTENDS Naturals

CONSTANTS
  Inits,       \* `config init`: creates a version 2 document
  Primary,     \* edit_primary_in_place: config set, config unset
  Legacy,      \* Config::edit_in_place: legacy documents only
  Guarded,     \* edit_in_place_with_contents_if_unchanged: legacy, guarded
  Replacing,   \* replace_contents_if_unchanged of what the caller computed
  Externals,   \* writes of an editor that does not take the lock
  StartSchema, \* the schema of the document to begin with, "none" if missing
  MaxInodes    \* bound: lock files ever created

Writers == Inits \cup Primary \cup Legacy \cup Guarded \cup Replacing

\* The writers that name a preimage.
Checking == Inits \cup Guarded \cup Replacing

Missing == [schema |-> "none", edits |-> {}]
Docs == {Missing} \cup [schema : {"legacy", "v2"}, edits : SUBSET (Writers \cup Externals)]

ConfigAssumption ==
  /\ StartSchema \in {"none", "legacy", "v2"}
  /\ MaxInodes \in Nat \ {0}
  /\ Writers \cap Externals = {}

VARIABLES
  doc,      \* the document on disk
  linked,   \* the file at the lock path, 0 when there is none
  inodes,   \* lock files created so far
  opened,   \* the lock file each writer has open
  flock,    \* writers holding the system's lock on their open file
  pc,       \* what each writer does next
  seen,     \* the preimage of each writer
  staged,   \* the document each writer has staged
  applied,  \* edits acknowledged to their callers, and external writes
  after     \* history: external writes since each writer last read the document

vars == <<doc, linked, inodes, opened, flock, pc, seen, staged, applied, after>>

TypeOK ==
  /\ doc \in Docs
  /\ linked \in 0..MaxInodes /\ inodes \in 0..MaxInodes
  /\ opened \in [Writers -> 0..MaxInodes]
  /\ flock \subseteq Writers
  /\ pc \in [Writers -> {"start", "open", "check", "lock", "recheck", "read",
                         "verify", "commit", "done", "failed"}]
  /\ seen \in [Writers -> Docs] /\ staged \in [Writers -> Docs]
  /\ applied \subseteq Writers \cup Externals
  /\ after \in [Writers -> SUBSET Externals]

Init ==
  /\ doc = [schema |-> StartSchema, edits |-> {}]
  /\ linked = 0 /\ inodes = 0
  /\ opened = [w \in Writers |-> 0] /\ flock = {}
  /\ pc = [w \in Writers |-> "start"]
  /\ seen = [w \in Writers |-> Missing] /\ staged = [w \in Writers |-> Missing]
  /\ applied = {} /\ after = [w \in Writers |-> {}]

-----------------------------------------------------------------------------
Goto(w, l) == pc' = [pc EXCEPT ![w] = l]

\* An error return: the guard, if there is one, drops its lock.
Fail(w) ==
  /\ Goto(w, "failed") /\ flock' = flock \ {w}
  /\ UNCHANGED <<doc, linked, inodes, opened, seen, staged, applied, after>>

\* The caller: init finds the target missing, a guarded caller reads it.
Start(w) ==
  /\ pc[w] = "start"
  /\ IF w \in Inits /\ doc.schema # "none" THEN Fail(w)
     ELSE /\ Goto(w, "open")
          /\ seen' = [seen EXCEPT ![w] = IF w \in Checking THEN doc ELSE @]
          /\ UNCHANGED <<doc, linked, inodes, opened, flock, staged, applied, after>>

\* The lock file is opened, and created when it is missing.
OpenLock(w) ==
  /\ pc[w] = "open" /\ Goto(w, "check")
  /\ IF linked # 0 THEN opened' = [opened EXCEPT ![w] = linked] /\ UNCHANGED <<linked, inodes>>
     ELSE /\ inodes < MaxInodes
          /\ inodes' = inodes + 1 /\ linked' = inodes'
          /\ opened' = [opened EXCEPT ![w] = inodes']
  /\ UNCHANGED <<doc, flock, seen, staged, applied, after>>

\* Mutant of SameLockFile: the identity of the lock file is not compared.
SameLockFileUnchecked(w) == linked # 0

\* validate_open_config_lock: the open file is the one at the lock path.
SameLockFile(w) == linked = opened[w]

\* Before the lock is tried, and again once it is held.
ValidateLock(w) ==
  /\ pc[w] \in {"check", "recheck"}
  /\ IF ~SameLockFile(w) THEN Fail(w)
     ELSE /\ Goto(w, IF pc[w] = "check" THEN "lock" ELSE "read")
          /\ UNCHANGED <<doc, linked, inodes, opened, flock, seen, staged, applied, after>>

\* try_lock, which never waits: ConfigLocked when another writer has it.
TryLock(w) ==
  /\ pc[w] = "lock"
  /\ IF \E o \in flock : opened[o] = opened[w] THEN Fail(w)
     ELSE /\ flock' = flock \cup {w} /\ Goto(w, "recheck")
          /\ UNCHANGED <<doc, linked, inodes, opened, seen, staged, applied, after>>

\* Mutant of Matches: an existing preimage is matched by any existing document.
MatchesPresence(w) == (doc.schema = "none") = (seen[w].schema = "none")

\* ConfigEditPreimage::matches: missing still, or the same contents.
Matches(w) == doc = seen[w]

\* Mutant of EditSchema: a legacy edit makes any document a legacy one.
EditSchemaAny(w, s) == IF s = "none" \/ w \in Legacy \cup Guarded THEN "legacy" ELSE s

\* The schema the edited document has: a missing one becomes a legacy one, and
\* editing never changes it.
EditSchema(w, s) == IF s = "none" THEN "legacy" ELSE s

\* serialise_document_edit and its policies; the edit itself may be refused by
\* its validation.
Accepts(w, d) == w \in Legacy \cup Guarded => EditSchema(w, d.schema) = "legacy"

PostImage(w, d) ==
  IF w \in Inits THEN [schema |-> "v2", edits |-> {w}]
  ELSE [schema |-> EditSchema(w, d.schema), edits |-> d.edits \cup {w}]

\* Mutant of Base: a legacy editor edits what its process saw before the lock.
BaseSeen(w) == IF w \in Replacing \cup Legacy THEN seen[w] ELSE doc

\* What the caller of replace_contents_if_unchanged has made of its preimage,
\* or what the edit makes of the document it has just read.
Base(w) == IF w \in Replacing THEN seen[w] ELSE doc

\* The writer has looked at the document.
Looked(w) == after' = [after EXCEPT ![w] = {}]

\* Under the lock: read, compare with the preimage, edit, validate and stage.
Read(w) ==
  /\ pc[w] = "read"
  /\ \/ /\ w \in Checking => Matches(w)
        /\ Accepts(w, doc)
        /\ staged' = [staged EXCEPT ![w] = PostImage(w, Base(w))] /\ Looked(w)
        /\ Goto(w, IF w \in Checking THEN "verify" ELSE "commit")
        /\ UNCHANGED <<doc, linked, inodes, opened, flock, seen, applied>>
     \/ Fail(w)

\* commit_staged_atomic_write_guarded: the preimage is compared once more.
Verify(w) ==
  /\ pc[w] = "verify"
  /\ IF ~Matches(w) THEN Fail(w)
     ELSE /\ Goto(w, "commit") /\ Looked(w)
          /\ UNCHANGED <<doc, linked, inodes, opened, flock, seen, staged, applied>>

\* Mutant of NoClobber: the staged file is renamed over whatever is there.
NoClobberRename(w) == FALSE

\* A missing preimage is installed with persist_noclobber.
NoClobber(w) == w \in Checking /\ seen[w].schema = "none"

\* The staged file takes the document's name and the lock is dropped.
Commit(w) ==
  /\ pc[w] = "commit"
  /\ IF NoClobber(w) /\ doc.schema # "none" THEN Fail(w)
     ELSE /\ doc' = staged[w] /\ applied' = applied \cup {w}
          /\ Goto(w, "done") /\ flock' = flock \ {w}
          /\ UNCHANGED <<linked, inodes, opened, seen, staged, after>>

-----------------------------------------------------------------------------
\* The process dies: the system releases its lock, its staged file is left over.
Die(w) == pc[w] \notin {"start", "done", "failed"} /\ Fail(w)

\* An editor writes, or creates, the document, which keeps its schema.
ExternalWrite(e) ==
  /\ e \notin applied
  /\ doc' = [schema |-> IF doc.schema = "none" THEN "legacy" ELSE doc.schema,
             edits |-> doc.edits \cup {e}]
  /\ applied' = applied \cup {e}
  /\ after' = [w \in Writers |-> after[w] \cup {e}]
  /\ UNCHANGED <<linked, inodes, opened, flock, pc, seen, staged>>

\* The lock file is removed, while no writer holds it.
RemoveLockFile ==
  /\ linked # 0 /\ inodes < MaxInodes
  /\ \A w \in flock : opened[w] # linked
  /\ linked' = 0
  /\ UNCHANGED <<doc, inodes, opened, flock, pc, seen, staged, applied, after>>

Quiet == \A w \in Writers : pc[w] \in {"done", "failed"}
Finished == Quiet /\ UNCHANGED vars

Step(w) ==
  \/ Start(w) \/ OpenLock(w) \/ ValidateLock(w) \/ TryLock(w)
  \/ Read(w) \/ Verify(w) \/ Commit(w)

Next ==
  \/ \E w \in Writers : Step(w) \/ Die(w)
  \/ \E e \in Externals : ExternalWrite(e)
  \/ RemoveLockFile
  \/ Finished

Spec == Init /\ [][Next]_vars

-----------------------------------------------------------------------------
(***************************************************************************)
(* One writer at a time gets past the lock, although the lock file may     *)
(* have been removed and created again between a writer's opening it and   *)
(* its locking it.                                                         *)
(***************************************************************************)
Inside == {w \in Writers : pc[w] \in {"read", "verify", "commit"}}
OneWriterInside == \A v, w \in Inside : v = w

(***************************************************************************)
(* No acknowledged edit is lost and no failed one is kept: whatever the    *)
(* writers do, in whatever order, and wherever they die, the document      *)
(* carries exactly the edits whose callers were told so.                   *)
(***************************************************************************)
NoLostEdit == doc.edits = applied

(***************************************************************************)
(* The schema of a document that exists never changes: a legacy editor,    *)
(* a version 2 initialisation and a schema-preserving edit that started    *)
(* on a missing file end with the schema of the one that came first.       *)
(***************************************************************************)
SchemaFixed == doc.schema # "none" => doc'.schema = doc.schema

(***************************************************************************)
(* A writer whose preimage was a missing file overwrites nothing, not even *)
(* the file of an editor that takes no lock.                               *)
(***************************************************************************)
MissingNeverClobbers ==
  \A w \in Checking :
    seen[w].schema = "none" /\ pc[w] = "commit" /\ pc'[w] = "done" => doc.schema = "none"

(***************************************************************************)
(* The window in which an editor that takes no lock can be overwritten is  *)
(* the documented one: its write is lost only to a writer that last looked *)
(* at the document before it, which for a guarded writer is between the    *)
(* final comparison and the rename of a document that existed.             *)
(***************************************************************************)
LostOnlyInWindow ==
  \A e \in Externals : e \in doc.edits /\ e \notin doc'.edits =>
    \E w \in Inside : /\ pc[w] = "commit" /\ e \in after[w]
                      /\ w \in Checking => seen[w].schema # "none"
=============================================================================
