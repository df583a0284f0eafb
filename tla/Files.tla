-------------------------------- MODULE Files --------------------------------
(***************************************************************************)
(* The files several processes read and write: the credential store, the   *)
(* token of a provider that refresh saves in it, the configuration, an     *)
(* agent's files with its migration manifests, the proxy's authority.      *)
(*                                                                         *)
(* As in History, the components share no variable and one of them,        *)
(* `part`, moves while the others stay where they start.  A component that *)
(* is looked at in two settings takes its constants from a record.         *)
(***************************************************************************)
EXTENDS Integers, Sequences, FiniteSets

CONSTANTS
    Rotation, Crashing,      \* settings of the credential store
    Callers, SKEW, Delay, Lifetimes, Calls, LastCall,       \* the token's
    Locked, Outside,         \* settings of the configuration
    Commands, Providers, MaxPlans, MaxEdits, MaxTokens,     \* the agent's
    Authority, Renewal,      \* settings of the authority
    Nobody, Absent, None, NoFile, Torn

VARIABLES
    part,
    files, issued, lock, proc, lost, raced,
    now, cache, holder, queue, pc, t0, start, out, saved, minted, calls,
    doc, linked, inodes, opened, flock, step, seen, staged, applied, after,
    auth, shard, file, bound, manifest, agentLock, cmd, clock, edits, tokens, live,
    lateEdit, sharedRefresh,
    crt, key, caStep, ca, bundle, deaths

Store(k) == INSTANCE AuthStore WITH
    Procs <- k.procs, Commands <- k.commands, Accounts <- k.accounts, Main <- k.main,
    Shards <- k.shards, MaxTok <- k.maxTok, Editable <- k.editable, Crashes <- k.crashes

Token == INSTANCE TokenCache

Config(k) == INSTANCE ConfigEdit WITH
    Inits <- k.inits, Primary <- k.primary, Legacy <- k.legacy, Guarded <- k.guarded,
    Replacing <- k.replacing, Externals <- k.externals, StartSchema <- k.schema,
    MaxInodes <- k.maxInodes, pc <- step

Agent == INSTANCE AgentMigration WITH lock <- agentLock

Ca(k) == INSTANCE ProxyCa WITH
    Loaders <- k.loaders, Regenerate <- k.regenerate, Overlap <- k.overlap,
    MaxDeaths <- k.maxDeaths, pc <- caStep

(***************************************************************************)
(* The settings.  The store's are one of the commands that lock before     *)
(* they rotate a token, without edits by hand, and one of all commands;    *)
(* the configuration's one of writers that all take the lock, and one with *)
(* others beside; in the authority's the calls come one after another, and *)
(* either processes die or one regenerates it.                             *)
(***************************************************************************)
ASSUME FilesAssumption ==
    /\ Store(Rotation)!StoreAssumption /\ Store(Crashing)!StoreAssumption
    /\ Token!TokenAssumption
    /\ Config(Locked)!ConfigAssumption /\ Config(Outside)!ConfigAssumption
    /\ Agent!AgentMigrationAssumption
    /\ Ca(Authority)!CaAssumption /\ Ca(Renewal)!CaAssumption
    /\ "refresh" \notin Rotation.commands /\ Rotation.editable = {}
    /\ Locked.externals = {}
    /\ ~Authority.overlap /\ Authority.regenerate = {}
    /\ ~Renewal.overlap /\ Renewal.maxDeaths = 0

storeVars == <<files, issued, lock, proc, lost, raced>>
tokenVars == <<now, cache, holder, queue, pc, t0, start, out, saved, minted, calls>>
configVars == <<doc, linked, inodes, opened, flock, step, seen, staged, applied, after>>
agentVars == <<auth, shard, file, bound, manifest, agentLock, cmd, clock, edits, tokens,
               live, lateEdit, sharedRefresh>>
caVars == <<crt, key, caStep, ca, bundle, deaths>>

Parts == {"rotation", "crashing", "token", "locked", "outside", "agent", "authority",
          "renewal"}

Init ==
    /\ part \in Parts
    /\ IF part = "crashing" THEN Store(Crashing)!Init ELSE Store(Rotation)!Init
    /\ Token!Init /\ Agent!Init
    /\ IF part = "outside" THEN Config(Outside)!Init ELSE Config(Locked)!Init
    /\ IF part = "renewal" THEN Ca(Renewal)!Init ELSE Ca(Authority)!Init
    /\ part \notin {"rotation", "crashing"} => files = [s \in Store(Rotation)!Sources |-> Absent]
    /\ part # "token" => cache = Token!Empty /\ minted = <<0>>
    /\ part # "agent" => auth = [p \in Providers |-> 1]

Next ==
    \/ /\ part = "rotation" /\ Store(Rotation)!Next
       /\ UNCHANGED <<part, tokenVars, configVars, agentVars, caVars>>
    \/ /\ part = "crashing" /\ Store(Crashing)!Next
       /\ UNCHANGED <<part, tokenVars, configVars, agentVars, caVars>>
    \/ /\ part = "token" /\ Token!Next
       /\ UNCHANGED <<part, storeVars, configVars, agentVars, caVars>>
    \/ /\ part = "locked" /\ Config(Locked)!Next
       /\ UNCHANGED <<part, storeVars, tokenVars, agentVars, caVars>>
    \/ /\ part = "outside" /\ Config(Outside)!Next
       /\ UNCHANGED <<part, storeVars, tokenVars, agentVars, caVars>>
    \/ /\ part = "agent" /\ Agent!Next
       /\ UNCHANGED <<part, storeVars, tokenVars, configVars, caVars>>
    \/ /\ part = "authority" /\ Ca(Authority)!Next
       /\ UNCHANGED <<part, storeVars, tokenVars, configVars, agentVars>>
    \/ /\ part = "renewal" /\ Ca(Renewal)!Next
       /\ UNCHANGED <<part, storeVars, tokenVars, configVars, agentVars>>

vars == <<part, storeVars, tokenVars, configVars, agentVars, caVars>>

Spec == Init /\ [][Next]_vars

-----------------------------------------------------------------------------
(* The properties; the comments in the modules say more. *)

\* Once the exchanges are over, every refresh token on disk is the one the provider
\* accepts, unless a crash or a timeout took its successor; and no sequence of saves and
\* crashes puts an account into two sources (AuthStore::save, the probes).
CredentialsKept ==
    /\ part = "rotation" => Store(Rotation)!TypeOK /\ Store(Rotation)!RotationKept
    /\ part = "crashing" => Store(Crashing)!TypeOK /\ Store(Crashing)!UniqueAccounts

\* Callers share one exchange for each stale token, none is handed a token that has
\* expired by then, and what is saved is one token's own pair (ensure_api_token, refresh).
TokenUsable ==
    part = "token" =>
        /\ Token!TypeOK
        /\ Token!ExchangeNeeded /\ Token!HandedOutUnexpired /\ Token!SavedPairMatches

\* One writer of the configuration at a time gets past the lock, and the document
\* carries exactly the edits that were acknowledged (lock_config_file,
\* edit_document_in_place_with_contents).
EditsSerial ==
    /\ part = "locked" => Config(Locked)!TypeOK /\ Config(Locked)!OneWriterInside /\ Config(Locked)!NoLostEdit
    /\ part = "outside" => Config(Outside)!TypeOK

\* No step overwrites what its process has not seen: a save of the credentials only the
\* sources it loaded, a writer of the configuration neither a file that it found missing
\* nor another schema, and a foreign write only between the last comparison and the rename.
NoBlindWrite ==
    [][/\ part = "crashing" => Store(Crashing)!NoLostUpdate
       /\ part = "locked" => Config(Locked)!SchemaFixed
       /\ part = "outside" => Config(Outside)!MissingNeverClobbers /\ Config(Outside)!LostOnlyInWindow
      ]_<<storeVars, configVars>>

\* However link, sync and unlink interleave and die: each credential of the agent, and the
\* one that still works, is in its auth file or in the shard, the user's edits are kept, an undone
\* link leaves nothing and the active manifests are one chain (apply_reconcile,
\* unlink_inner).
AgentRecoverable ==
    part = "agent" =>
        /\ Agent!TypeOK
        /\ Agent!CredentialHeld /\ Agent!LiveCredentialHeld /\ Agent!EditsKept
        /\ Agent!NoTraceLeft /\ Agent!OneChain

\* What one process signs verifies under every other's certificate, also after a first
\* start that died, and a loaded pair belongs together (load_or_generate_ca).
AuthorityAgreed ==
    /\ part = "authority" =>
          Ca(Authority)!TypeOK /\ Ca(Authority)!OneAuthority /\ Ca(Authority)!DeathRepaired
    /\ part = "renewal" => Ca(Renewal)!TypeOK /\ Ca(Renewal)!PairMatches

=============================================================================
