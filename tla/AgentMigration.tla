--------------------------- MODULE AgentMigration ---------------------------
(***************************************************************************)
(* Linking an agent to the gateway and undoing it: `agent link`, `agent    *)
(* sync` and `agent unlink` of agent-migration/src/reconcile.rs, for an    *)
(* agent whose credentials are transferred (OpenCode, account source       *)
(* Agent).                                                                 *)
(*                                                                         *)
(* A link plans without a lock, then applies under the agent's file lock:  *)
(* it backs files up, writes a manifest that says how to undo it, moves    *)
(* the credentials into the gateway's auth shard, binds the agent, writes  *)
(* the generated profile fragment, strips the agent's auth file and        *)
(* rewrites the agent's config, checkpointing each write in the manifest.  *)
(* A sync is a link whose manifest points at the previous one, so the      *)
(* active manifests form a chain that unlink undoes as a whole.            *)
(*                                                                         *)
(* Each write of a file is one step and a command may die between any two; *)
(* the comparison of a file with its planned bytes and the write it guards *)
(* are one step (config/src/lib.rs:251 accepts that window).  The user     *)
(* edits the config and logs in, and the gateway refreshes the tokens of   *)
(* its shard, at any time.                                                 *)
(***************************************************************************)
EXTENDS Integers, Sequences

CONSTANTS
  Commands,      \* processes that run link, sync or unlink
  Providers,     \* providers the agent has credentials for
  Nobody,        \* no process (the lock is free)
  MaxPlans,      \* bound: plans made, hence manifests written
  MaxEdits,      \* bound: edits the user makes to the agent's config
  MaxTokens      \* bound: credentials issued

AgentMigrationAssumption ==
  /\ Nobody \notin Commands
  /\ MaxPlans \in Nat \ {0} /\ MaxEdits \in Nat /\ MaxTokens \in Nat \ {0}

VARIABLES
  auth,       \* the agent's auth file: provider -> credential, 0 when absent
  shard,      \* auth.d/<agent>.yaml: provider -> credential, 0 when absent
  file,       \* the two files backed up and rewritten: fragment and config
  bound,      \* whether agent.yaml binds the agent
  manifest,   \* the manifests on disk, by timestamp
  lock,       \* holder of the agent's migration lock
  cmd,        \* what each command is doing
  clock,      \* timestamps handed out to plans
  edits,      \* the user's text of the config: number of the last edit
  tokens,     \* credentials issued so far
  live,       \* the credential of each provider that still works
  lateEdit,   \* the user edited the config while an unlink ran
  sharedRefresh \* a token was refreshed of which the agent had, or was given, a copy

disk == <<auth, shard, file, bound, manifest>>
user == <<edits, tokens, live, lateEdit, sharedRefresh>>
vars == <<disk, lock, cmd, clock, user>>

Nowhere  == [p \in Providers |-> 0]
Held(a) == {p \in Providers : a[p] # 0}

Fragment == "fragment"
Config   == "config"
Files    == {Fragment, Config}
(***************************************************************************)
(* A file holds the user's text and what a link generated from the         *)
(* accounts of some providers; no text and no providers is no file.        *)
(***************************************************************************)
Contents == [text : 0..(MaxEdits + 1), links : SUBSET Providers]
Missing  == [text |-> 0, links |-> {}]

Credentials == [Providers -> 0..MaxTokens]

(***************************************************************************)
(* MigrationManifest.  "digest" is applied_sha256 of the two files and     *)
(* "moved" that of the shard; "imported" are the accounts of the plan and  *)
(* "stripped" the providers whose agent credential the link takes.         *)
(***************************************************************************)
NoDigest == [text |-> -1, links |-> {}]
ManifestType ==
  [previous : 0..MaxPlans, completed : BOOLEAN, unlinked : BOOLEAN, handoff : BOOLEAN,
   before : BOOLEAN, applied : BOOLEAN, imported : SUBSET Providers, stripped : SUBSET Providers,
   backup : [Files -> Contents], shardBackup : Credentials,
   digest : [Files -> Contents \cup {NoDigest}], moved : BOOLEAN]

NoPlan == [ts |-> 0, previous |-> 0, auth |-> Nowhere, shard |-> Nowhere,
           file |-> [f \in Files |-> Missing], bound |-> FALSE]
\* What a command is doing; of an unlink, at which of its tasks and of its manifests.
Idle   == [pc |-> "idle", plan |-> NoPlan, do |-> "load", at |-> 1, accounts |-> Nowhere]

Written == DOMAIN manifest
Active  == {m \in Written : ~manifest[m].unlinked}
Newest(S) == IF S = {} THEN 0 ELSE CHOOSE m \in S : \A n \in S : n <= m
latest_active_manifest == Newest(Active)

(***************************************************************************)
(* manifest_chain: a manifest and its predecessors, newest first.          *)
(* Predecessors always have an earlier timestamp.                          *)
(***************************************************************************)
chainTo[m \in 0..MaxPlans] ==
  IF m \in Written THEN <<m>> \o chainTo[manifest[m].previous] ELSE <<>>
manifest_chain(m) == chainTo[m]

Init ==
  /\ auth \in [Providers -> {0, 1}] /\ Held(auth) # {}
  /\ shard = Nowhere
  /\ file = [f \in Files |-> IF f = Config THEN [Missing EXCEPT !.text = 1] ELSE Missing]
  /\ bound = FALSE
  /\ manifest = <<>>
  /\ lock = Nobody
  /\ cmd = [c \in Commands |-> Idle]
  /\ clock = 0
  /\ edits = 1 /\ tokens = 1 /\ live = auth
  /\ lateEdit = FALSE /\ sharedRefresh = FALSE

(***************************************************************************)
(* Planning a link or a sync                                               *)
(***************************************************************************)

(***************************************************************************)
(* merge_transferred_accounts: the credential found in the agent's auth    *)
(* file, else the one the shard holds.                                     *)
(***************************************************************************)
Merged(plan) == [p \in Providers |-> IF plan.auth[p] # 0 THEN plan.auth[p] ELSE plan.shard[p]]
\* The shard is only read for a binding or when some credential was found.
Imported(plan) ==
  IF Held(plan.auth) # {} \/ plan.bound THEN Merged(plan) ELSE Nowhere

(***************************************************************************)
(* plan_reconcile: refused on a chain with an incomplete manifest, and     *)
(* when no credential can be imported.  What it read is kept to be         *)
(* compared with the disk when the plan is applied.                        *)
(***************************************************************************)
Plan(c) ==
  /\ cmd[c].pc = "idle" /\ clock < MaxPlans
  /\ \A i \in DOMAIN manifest_chain(latest_active_manifest) :
       manifest[manifest_chain(latest_active_manifest)[i]].completed
  /\ LET plan == [ts |-> clock + 1, previous |-> latest_active_manifest, auth |-> auth,
                  shard |-> shard, file |-> file, bound |-> bound]
     IN /\ Held(Imported(plan)) # {}
        /\ cmd' = [cmd EXCEPT ![c] = [Idle EXCEPT !.pc = "planned", !.plan = plan]]
  /\ clock' = clock + 1
  /\ UNCHANGED <<disk, lock, user>>

\* Mutant of ApplyOrder: the agent's auth file is stripped before the shard is saved.
StripFirst == <<"backup", "strip", "shard", "moved", "bind", "bound", Fragment, "fragmentWritten",
                Config, "configWritten", "complete">>

(***************************************************************************)
(* Applying it                                                             *)
(***************************************************************************)
ApplyOrder == <<"backup", "shard", "moved", "bind", "bound", Fragment, "fragmentWritten",
                "strip", Config, "configWritten", "complete">>
Noting == [fragment |-> "fragmentWritten", config |-> "configWritten"]
After(pc) == ApplyOrder[1 + CHOOSE i \in DOMAIN ApplyOrder : ApplyOrder[i] = pc]

\* The command ends, by an error return or because the process died.
Stop(c) ==
  /\ cmd' = [cmd EXCEPT ![c] = Idle]
  /\ lock' = IF lock = c THEN Nobody ELSE lock

Advance(c) == cmd' = [cmd EXCEPT ![c].pc = After(@)] /\ UNCHANGED lock

\* Mutant of Begin: the active manifest is not compared with the planned one.
BeginAnyway(c) ==
  /\ cmd[c].pc = "planned"
  /\ LET plan == cmd[c].plan
     IN IF /\ lock = Nobody
           /\ file = plan.file /\ bound = plan.bound /\ auth = plan.auth /\ shard = plan.shard
        THEN /\ lock' = c
             /\ cmd' = [cmd EXCEPT ![c].pc = ApplyOrder[1]]
        ELSE Stop(c)
  /\ UNCHANGED <<disk, clock, user>>

(***************************************************************************)
(* apply_reconcile and the first checks of                                 *)
(* apply_reconcile_to_manifest_path.                                       *)
(***************************************************************************)
Begin(c) ==
  /\ cmd[c].pc = "planned"
  /\ LET plan == cmd[c].plan
     IN IF /\ lock = Nobody
           /\ latest_active_manifest = plan.previous
           /\ file = plan.file /\ bound = plan.bound /\ auth = plan.auth /\ shard = plan.shard
        THEN /\ lock' = c
             /\ cmd' = [cmd EXCEPT ![c].pc = ApplyOrder[1]]
        ELSE Stop(c)
  /\ UNCHANGED <<disk, clock, user>>

\* Backups of the shard and the two files, then the manifest in progress.
Backup(c) ==
  /\ cmd[c].pc = "backup"
  /\ LET plan == cmd[c].plan
         new == [previous |-> plan.previous, completed |-> FALSE, unlinked |-> FALSE,
                 handoff |-> Held(plan.auth) = {}, before |-> plan.bound, applied |-> FALSE,
                 imported |-> Held(Imported(plan)), stripped |-> Held(plan.auth),
                 backup |-> file, shardBackup |-> shard,
                 digest |-> [f \in Files |-> NoDigest], moved |-> FALSE]
     IN manifest' = [m \in Written \cup {plan.ts} |-> IF m = plan.ts THEN new ELSE manifest[m]]
  /\ Advance(c)
  /\ UNCHANGED <<auth, shard, file, bound, clock, user>>

\* One step of the apply: it happens, or its check fails and the apply ends.
Try(c, ok, effect) == IF ok THEN effect /\ Advance(c) ELSE Stop(c) /\ UNCHANGED disk

\* The manifest of c's plan, rewritten on disk.
Record(c, new) == manifest' = [manifest EXCEPT ![cmd[c].plan.ts] = new]
Mine(c) == manifest[cmd[c].plan.ts]

\* Mutant of SaveShard: the planned accounts are written over whatever is there.
SaveShardBlind(c) ==
  /\ cmd[c].pc = "shard"
  /\ shard' = Imported(cmd[c].plan) /\ Advance(c)
  /\ UNCHANGED <<auth, file, bound, manifest, clock, user>>

(***************************************************************************)
(* The shard gets the accounts of the plan, if neither it nor the other    *)
(* auth sources changed since; AuthStore::save checks again under its      *)
(* lock.                                                                   *)
(***************************************************************************)
SaveShard(c) ==
  /\ cmd[c].pc = "shard"
  /\ Try(c, shard = cmd[c].plan.shard,
         shard' = Imported(cmd[c].plan) /\ UNCHANGED <<auth, file, bound, manifest>>)
  /\ UNCHANGED <<clock, user>>

ShardMoved(c) ==
  /\ cmd[c].pc = "moved"
  /\ Record(c, [Mine(c) EXCEPT !.moved = TRUE])
  /\ Advance(c)
  /\ UNCHANGED <<auth, shard, file, bound, clock, user>>

\* upsert_agent_config_if_unchanged, after the gateway config was compared.
Bind(c) ==
  /\ cmd[c].pc = "bind"
  /\ Try(c, bound = cmd[c].plan.bound /\ file[Fragment] = cmd[c].plan.file[Fragment],
         bound' = TRUE /\ UNCHANGED <<auth, shard, file, manifest>>)
  /\ UNCHANGED <<clock, user>>

\* The binding is recorded, then compared with the disk.
Bound(c) ==
  /\ cmd[c].pc = "bound"
  /\ Record(c, [Mine(c) EXCEPT !.applied = TRUE])
  /\ IF bound THEN Advance(c) ELSE Stop(c)
  /\ UNCHANGED <<auth, shard, file, bound, clock, user>>

Rewritten(plan, f) == [plan.file[f] EXCEPT !.links = Held(Imported(plan))]

(***************************************************************************)
(* The generated fragment or the rewritten config, written if the file     *)
(* still is what the plan read (replace_contents_if_unchanged, write_edit).*)
(***************************************************************************)
WriteFile(c, f) ==
  /\ cmd[c].pc = f
  /\ Try(c, file[f] = cmd[c].plan.file[f],
         /\ file' = [file EXCEPT ![f] = Rewritten(cmd[c].plan, f)]
         /\ UNCHANGED <<auth, shard, bound, manifest>>)
  /\ UNCHANGED <<clock, user>>

\* checkpoint_manifest_file: the digest of what was written, then compared.
Checkpoint(c, f) ==
  /\ cmd[c].pc = Noting[f]
  /\ Record(c, [Mine(c) EXCEPT !.digest[f] = Rewritten(cmd[c].plan, f)])
  /\ IF file[f] = Rewritten(cmd[c].plan, f) THEN Advance(c) ELSE Stop(c)
  /\ UNCHANGED <<auth, shard, file, bound, clock, user>>

(***************************************************************************)
(* remove_transferred_credentials, as a planned edit without a backup.     *)
(***************************************************************************)
Strip(c) ==
  /\ cmd[c].pc = "strip"
  /\ Try(c, auth = cmd[c].plan.auth \/ Held(cmd[c].plan.auth) = {},
         /\ auth' = [p \in Providers |-> IF p \in Held(cmd[c].plan.auth) THEN 0 ELSE auth[p]]
         /\ UNCHANGED <<shard, file, bound, manifest>>)
  /\ UNCHANGED <<clock, user>>

\* validate_reconcile_checkpoints, then the completed manifest.
Complete(c) ==
  /\ cmd[c].pc = "complete"
  /\ IF /\ bound /\ Mine(c).imported \subseteq Held(shard)
        /\ \A f \in Files : file[f] = Mine(c).digest[f]
     THEN Record(c, [Mine(c) EXCEPT !.completed = TRUE])
     ELSE UNCHANGED manifest
  /\ Stop(c)
  /\ UNCHANGED <<auth, shard, file, bound, clock, user>>

(***************************************************************************)
(* Undoing it                                                              *)
(***************************************************************************)

\* The file before the i-th manifest of the chain is undone, its successors undone.
Simulated(ch, i, f) == IF i = 1 THEN file[f] ELSE manifest[ch[i - 1]].backup[f]

\* Mutant of FilesRestorable: an unchecked file is restored whatever it holds.
FilesRestorableLoosely(ch) ==
  \A i \in DOMAIN ch : \A f \in Files :
    \/ manifest[ch[i]].digest[f] = NoDigest
    \/ Simulated(ch, i, f) = manifest[ch[i]].digest[f]

(***************************************************************************)
(* preflight_manifest_file_restoration: each file is what its manifest     *)
(* wrote, or, where no digest was recorded, what it was before.            *)
(***************************************************************************)
FilesRestorable(ch) ==
  \A i \in DOMAIN ch : \A f \in Files :
    LET m == manifest[ch[i]] IN
    Simulated(ch, i, f) = IF m.digest[f] = NoDigest THEN m.backup[f] ELSE m.digest[f]

\* preflight_agent_config_restoration: bound, or already as it was before.
BindingRestorable(ch) ==
  \A i \in DOMAIN ch :
    LET current == IF i = 1 THEN bound ELSE manifest[ch[i - 1]].before IN
    current \/ current = manifest[ch[i]].before

(***************************************************************************)
(* active_manifest_successor: an active manifest whose chain passes        *)
(* through m.                                                              *)
(***************************************************************************)
HasSuccessor(m) ==
  \E n \in Active \ {m} : \E i \in 2..Len(manifest_chain(n)) : manifest_chain(n)[i] = m

Preflight(m) ==
  /\ ~manifest[m].unlinked /\ ~HasSuccessor(m)
  /\ FilesRestorable(manifest_chain(m)) /\ BindingRestorable(manifest_chain(m))

\* Mutant of Pending: only the manifest that is named is looked at.
PendingOfLatest(ch) == {i \in {1} : ~manifest[ch[i]].handoff}

\* The manifests whose credentials the agent has not been given back.
Pending(ch) == {i \in DOMAIN ch : ~manifest[ch[i]].handoff}

(***************************************************************************)
(* resolve_manifest: the latest active manifest, or the one the user       *)
(* names, before the lock is taken.                                        *)
(***************************************************************************)
Resolve(c, m) ==
  /\ cmd[c].pc = "idle"
  /\ cmd' = [cmd EXCEPT ![c] = [Idle EXCEPT !.pc = "resolved", !.plan.previous = m]]
  /\ UNCHANGED <<disk, lock, clock, user>>

(***************************************************************************)
(* The writes an unlink makes once its checks have passed: the pending     *)
(* credentials and, in each manifest, that they are back; each manifest's  *)
(* files in reverse; the bindings; and that the manifests are undone, the  *)
(* oldest first.                                                           *)
(***************************************************************************)
StartUnlink(c) ==
  /\ cmd[c].pc = "resolved"
  /\ LET m == cmd[c].plan.previous
     IN IF lock = Nobody /\ Preflight(m)
        THEN /\ lock' = c
             /\ cmd' = [cmd EXCEPT ![c].pc = "unlink", ![c].at = 1,
                          ![c].do = IF Pending(manifest_chain(m)) = {} THEN Config ELSE "load"]
        ELSE Stop(c)
  /\ UNCHANGED <<disk, clock, user>>

Chain(c) == manifest_chain(cmd[c].plan.previous)
ToRestore(ch) == UNION {manifest[ch[i]].stripped : i \in Pending(ch)}
\* manifest_requires_transferred_credentials
Required(m) == manifest[m].completed \/ (manifest[m].moved /\ manifest[m].stripped # {})

Doing(c, do) == cmd[c].pc = "unlink" /\ cmd[c].do = do
At(c) == Chain(c)[cmd[c].at]
Turn(c, do, i) == cmd' = [cmd EXCEPT ![c].do = do, ![c].at = i] /\ UNCHANGED lock

(***************************************************************************)
(* load_transferred_credentials: the accounts the newest manifest imported,*)
(* from the shard.  Once the shard was checkpointed all have to be there.  *)
(***************************************************************************)
LoadCredentials(c) ==
  /\ Doing(c, "load")
  /\ LET m == Chain(c)[1]
         found == {p \in manifest[m].imported : shard[p] # 0}
     IN IF \/ ToRestore(Chain(c)) = {} \/ ~Required(m)
           \/ manifest[m].imported \cup ToRestore(Chain(c)) \subseteq found
        THEN /\ cmd' = [cmd EXCEPT
                  ![c].accounts = [p \in Providers |-> IF p \in found THEN shard[p] ELSE 0],
                  ![c].do = "restore"]
             /\ UNCHANGED lock
        ELSE Stop(c)
  /\ UNCHANGED <<disk, clock, user>>

(***************************************************************************)
(* restore_transferred_credentials: into the agent's auth file, where it   *)
(* does not hold one for the provider.                                     *)
(***************************************************************************)
RestoreCredentials(c) ==
  /\ Doing(c, "restore")
  /\ auth' = [p \in Providers |->
                IF p \in ToRestore(Chain(c)) /\ auth[p] = 0 THEN cmd[c].accounts[p] ELSE auth[p]]
  /\ Turn(c, "handoff", 1)
  /\ UNCHANGED <<shard, file, bound, manifest, clock, user>>

HandedOff(c) ==
  /\ Doing(c, "handoff")
  /\ \E i \in Pending(Chain(c)) :
       /\ \A j \in Pending(Chain(c)) : i <= j
       /\ manifest' = [manifest EXCEPT ![Chain(c)[i]].handoff = TRUE]
       /\ Turn(c, IF Pending(Chain(c)) = {i} THEN Config ELSE "handoff", 1)
  /\ UNCHANGED <<auth, shard, file, bound, clock, user>>

\* restore_manifest_files: the backup, or no file where there was none.
RestoreFile(c, f) ==
  /\ Doing(c, f)
  /\ file' = [file EXCEPT ![f] = manifest[At(c)].backup[f]]
  /\ Turn(c, IF f = Config THEN Fragment ELSE "shard", cmd[c].at)
  /\ UNCHANGED <<auth, shard, bound, manifest, clock, user>>

RestoreShard(c) ==
  /\ Doing(c, "shard")
  /\ shard' = manifest[At(c)].shardBackup
  /\ IF cmd[c].at < Len(Chain(c)) THEN Turn(c, Config, cmd[c].at + 1) ELSE Turn(c, "unbind", 1)
  /\ UNCHANGED <<auth, file, bound, manifest, clock, user>>

\* restore_agent_config_changes
Unbind(c) ==
  /\ Doing(c, "unbind")
  /\ IF bound = manifest[At(c)].before \/ bound
     THEN /\ bound' = manifest[At(c)].before
          /\ IF cmd[c].at < Len(Chain(c))
             THEN Turn(c, "unbind", cmd[c].at + 1) ELSE Turn(c, "mark", cmd[c].at)
     ELSE UNCHANGED bound /\ Stop(c)
  /\ UNCHANGED <<auth, shard, file, manifest, clock, user>>

Unlinked(c) ==
  /\ Doing(c, "mark")
  /\ manifest' = [manifest EXCEPT ![At(c)].unlinked = TRUE]
  /\ IF cmd[c].at > 1 THEN Turn(c, "mark", cmd[c].at - 1) ELSE Stop(c)
  /\ UNCHANGED <<auth, shard, file, bound, clock, user>>

\* The process dies, or a write fails: the lock goes, the disk stays.
Crash(c) ==
  /\ cmd[c].pc # "idle"
  /\ Stop(c)
  /\ UNCHANGED <<disk, clock, user>>

(***************************************************************************)
(* The user and the gateway                                                *)
(***************************************************************************)
Unlinking == \E c \in Commands : cmd[c].pc = "unlink"
EditConfig ==
  /\ edits <= MaxEdits
  /\ edits' = edits + 1
  /\ file' = [file EXCEPT ![Config].text = edits + 1]
  /\ lateEdit' = (lateEdit \/ Unlinking)
  /\ UNCHANGED <<auth, shard, bound, manifest, lock, cmd, clock, tokens, live, sharedRefresh>>

\* The user logs the agent in again: a credential of its own.
Login(p) ==
  /\ tokens < MaxTokens
  /\ tokens' = tokens + 1
  /\ auth' = [auth EXCEPT ![p] = tokens + 1]
  /\ live' = [live EXCEPT ![p] = tokens + 1]
  /\ UNCHANGED <<shard, file, bound, manifest, lock, cmd, clock, edits, lateEdit, sharedRefresh>>

\* The gateway refreshes a token of the shard; the old one stops working.
Refresh(p) ==
  /\ shard[p] # 0 /\ tokens < MaxTokens
  /\ tokens' = tokens + 1
  /\ shard' = [shard EXCEPT ![p] = tokens + 1]
  /\ live' = [live EXCEPT ![p] = IF shard[p] = live[p] THEN tokens + 1 ELSE @]
  /\ sharedRefresh' = (sharedRefresh \/ Unlinking \/ auth[p] # 0)
  /\ UNCHANGED <<auth, file, bound, manifest, lock, cmd, clock, edits, lateEdit>>

Next ==
  \/ \E c \in Commands :
       \/ Plan(c) \/ Begin(c) \/ Backup(c) \/ SaveShard(c) \/ ShardMoved(c) \/ Bind(c) \/ Bound(c)
       \/ \E f \in Files : WriteFile(c, f) \/ Checkpoint(c, f) \/ RestoreFile(c, f)
       \/ Strip(c) \/ Complete(c)
       \/ \E m \in Written : Resolve(c, m)
       \/ StartUnlink(c) \/ LoadCredentials(c) \/ RestoreCredentials(c) \/ HandedOff(c)
       \/ RestoreShard(c) \/ Unbind(c) \/ Unlinked(c) \/ Crash(c)
  \/ EditConfig
  \/ \E p \in Providers : Login(p) \/ Refresh(p)

Spec == Init /\ [][Next]_vars

-----------------------------------------------------------------------------
TypeOK ==
  /\ auth \in Credentials /\ shard \in Credentials /\ live \in Credentials
  /\ file \in [Files -> Contents] /\ bound \in BOOLEAN
  /\ Written \subseteq 1..MaxPlans
  /\ \A m \in Written : manifest[m] \in ManifestType /\ manifest[m].previous < m
  /\ lock \in Commands \cup {Nobody}
  /\ \A c \in Commands : cmd[c].pc = "unlink" => lock = c
  /\ clock \in 0..MaxPlans /\ edits \in 1..(MaxEdits + 1) /\ tokens \in 1..MaxTokens
  /\ lateEdit \in BOOLEAN /\ sharedRefresh \in BOOLEAN

(***************************************************************************)
(* A provider the agent was ever logged in to always has a credential, in  *)
(* the agent's auth file or in the shard, wherever a link, sync or unlink  *)
(* died and whatever ran beside it: the shard is saved before the agent is *)
(* stripped, and goes only after the agent has its credentials back.       *)
(***************************************************************************)
CredentialHeld == \A p \in Held(live) : auth[p] # 0 \/ shard[p] # 0

(***************************************************************************)
(* And it is the credential that works, unless the gateway refreshed a     *)
(* token of which the agent's auth file had a copy (a link died before it  *)
(* stripped the file) or was being given one (an unlink ran).              *)
(***************************************************************************)
LiveCredentialHeld ==
  sharedRefresh \/ \A p \in Held(live) : live[p] \in {auth[p], shard[p]}

(***************************************************************************)
(* The user's last edit of the agent's config is never overwritten, by a   *)
(* rewrite or by the restoration of a backup, unless it was made while an  *)
(* unlink ran.                                                             *)
(***************************************************************************)
EditsKept == lateEdit \/ file[Config].text = edits

(***************************************************************************)
(* With no active manifest and no command at work, nothing of a link is    *)
(* left: no shard, no binding, no generated text.                          *)
(***************************************************************************)
NoTraceLeft ==
  Active = {} /\ lock = Nobody =>
    /\ shard = Nowhere /\ ~bound
    /\ \A f \in Files : file[f].links = {}

(***************************************************************************)
(* The active manifests are one chain: no command's work is hidden from an *)
(* unlink of the latest manifest, though plans are made without the lock.  *)
(***************************************************************************)
OneChain ==
  LET ch == manifest_chain(latest_active_manifest) IN
  \A m \in Active : \E i \in DOMAIN ch : ch[i] = m

=============================================================================
