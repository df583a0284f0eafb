------------------------------ MODULE AuthStore ------------------------------
(***************************************************************************)
(* crates/auth/src/store.rs and store/lock.rs: the credentials in auth.yaml *)
(* and in the shards of auth.d/, which commands of several processes load, *)
(* change and save.  A save holds an advisory lock, checks that no source  *)
(* changed since the load, and installs the changed sources one by one.    *)
(*                                                                         *)
(* "edit" and "probe" are the transactions of accounts/src/management.rs,  *)
(* which take the lock before they load; "add", "link" and "refresh" stand *)
(* for the commands of gateway-cli and agent-migration, which load without *)
(* it.  "probe" and "refresh" exchange a refresh token for a new one, and  *)
(* the provider then refuses the old one.                                  *)
(***************************************************************************)
EXTENDS Integers, Sequences, Functions

CONSTANTS
    Procs,      \* the processes that run commands
    Commands,   \* the commands they run
    Accounts,   \* account ids
    Main,       \* AuthSource::Main
    Shards,     \* the other sources, in their order
    MaxTok,     \* bound on the tokens the provider issues of an account
    Editable,   \* the sources a user edits by hand
    Crashes,    \* whether a process may die
    Absent, None

VARIABLES
    files,      \* what each source's file holds, or Absent
    issued,     \* the refresh token the provider accepts, by account
    lock,       \* the holder of the lock file
    proc,       \* the state of each process
    lost,       \* history: the accounts a crash or a timeout took a token of
    raced       \* history: the user edited between a check and its rename

vars == <<files, issued, lock, proc, lost, raced>>

SourceOrder == <<Main>> \o Shards
Sources == Range(SourceOrder)
Account == [tok : {None} \cup 0..MaxTok, label : BOOLEAN]    \* None: a static key
Contents == [Accounts -> {None} \cup Account]
Empty == [a \in Accounts |-> None]

CommandNames == {"edit", "probe", "add", "link", "refresh"}

StoreAssumption ==
    /\ Shards \in Seq(Range(Shards)) /\ IsInjective(Shards) /\ Main \notin Range(Shards)
    /\ Commands \subseteq CommandNames
    /\ MaxTok \in Nat /\ Crashes \in BOOLEAN /\ Editable \subseteq Sources
    /\ None \notin Procs \cup CommandNames \cup Account \cup 0..MaxTok
    /\ Absent \notin Contents

\* AuthStore, with the place in the command: the source snapshots, the
\* accounts by source, the places in the order of the sources still to load or
\* to write, and the accounts with a new token that is not on disk yet.
Idle == [cmd |-> None, pc |-> "idle", snap |-> [s \in Sources |-> Absent],
         mem |-> [s \in Sources |-> Empty], todo |-> {}, rotated |-> {}]

TypeOK ==
    /\ files \in [Sources -> {Absent} \cup Contents]
    /\ issued \in [Accounts -> 0..MaxTok]
    /\ lock \in Procs \cup {None}
    /\ proc \in [Procs ->
         [cmd : Commands \cup {None},
          pc : {"idle", "load", "loaded", "changed", "validate", "stage", "commit"},
          snap : [Sources -> {Absent} \cup Contents], mem : [Sources -> Contents],
          todo : SUBSET DOMAIN SourceOrder, rotated : SUBSET Accounts]]
    /\ lost \subseteq Accounts /\ raced \subseteq Sources

Init ==
    /\ files \in [Sources -> {Absent, Empty} \cup
                             {[Empty EXCEPT ![a] = [tok |-> 0, label |-> FALSE]] : a \in Accounts}]
    /\ \A s, t \in Sources : s # t /\ files[s] # Absent /\ files[t] # Absent =>
         \A a \in Accounts : files[s][a] = None \/ files[t][a] = None
    /\ issued = [a \in Accounts |-> 0]
    /\ lock = None /\ proc = [p \in Procs |-> Idle] /\ lost = {} /\ raced = {}

Content(file) == IF file = Absent THEN Empty ELSE file
Goto(p, pc) == proc' = [proc EXCEPT ![p].pc = pc]
OwnerOf(mem, a) == {s \in Sources : mem[s][a] # None}

\* The sources are taken in their order.
NextPlace(p) == CHOOSE i \in proc[p].todo : \A j \in proc[p].todo : i <= j
NextSource(p) == SourceOrder[NextPlace(p)]

\* The command ends: its store and its lock are dropped.
End(p) ==
    /\ proc' = [proc EXCEPT ![p] = Idle]
    /\ lock' = IF lock = p THEN None ELSE lock

-----------------------------------------------------------------------------
(***************************************************************************)
(* Loading.                                                                *)
(***************************************************************************)
LocksFirst(c) == c \in {"edit", "probe"}

\* AuthStoreLock::acquire fails at once when another process holds the lock.
Start(p, c) ==
    /\ proc[p].pc = "idle"
    /\ LocksFirst(c) => lock = None
    /\ lock' = IF LocksFirst(c) THEN p ELSE lock
    /\ proc' = [proc EXCEPT ![p] = [Idle EXCEPT !.cmd = c, !.pc = "load", !.todo = DOMAIN SourceOrder]]
    /\ UNCHANGED <<files, issued, lost, raced>>

\* load_source; an id that another source has ends the command.
LoadSource(p) ==
    LET s == NextSource(p)
        duplicate == \E a \in Accounts : Content(files[s])[a] # None /\ OwnerOf(proc[p].mem, a) # {}
    IN
    /\ proc[p].pc = "load"
    /\ IF duplicate THEN End(p)
       ELSE /\ proc' = [proc EXCEPT ![p].snap[s] = files[s], ![p].mem[s] = Content(files[s]),
                                    ![p].todo = @ \ {NextPlace(p)},
                                    ![p].pc = IF proc[p].todo = {NextPlace(p)} THEN "loaded" ELSE "load"]
            /\ UNCHANGED lock
    /\ UNCHANGED <<files, issued, lost, raced>>

-----------------------------------------------------------------------------
(***************************************************************************)
(* Changing the accounts in memory.                                        *)
(***************************************************************************)
\* upsert_in_source: an account stays in its source, and a source that was
\* absent when the store was loaded still is.
MayUpsert(p, s, a) ==
    /\ OwnerOf(proc[p].mem, a) \subseteq {s}
    /\ proc[p].snap[s] = Absent /\ s # Main => files[s] = Absent

\* An account with a static key.
Upsert(p, s, a) ==
    /\ proc[p].pc = "loaded"
    /\ IF MayUpsert(p, s, a)
       THEN /\ proc' = [proc EXCEPT ![p].mem[s][a] = [tok |-> None, label |-> FALSE],
                                    ![p].pc = "changed"]
            /\ UNCHANGED lock
       ELSE End(p)
    /\ UNCHANGED <<files, issued, lost, raced>>

\* account switch, AccountEdit::Update: the label stands for what is edited.
Update(p, a) ==
    /\ proc[p].pc = "loaded"
    /\ \E s \in OwnerOf(proc[p].mem, a) :
         proc' = [proc EXCEPT ![p].mem[s][a].label = ~@, ![p].pc = "changed"]
    /\ UNCHANGED <<files, issued, lock, lost, raced>>

\* remove
RemoveAccount(p, a) ==
    /\ proc[p].pc = "loaded"
    /\ \E s \in OwnerOf(proc[p].mem, a) :
         proc' = [proc EXCEPT ![p].mem[s][a] = None, ![p].pc = "changed"]
    /\ UNCHANGED <<files, issued, lock, lost, raced>>

Change(p) == \E a \in Accounts :
    \/ proc[p].cmd \in {"edit", "add"} /\ (Upsert(p, Main, a) \/ Update(p, a) \/ RemoveAccount(p, a))
    \/ proc[p].cmd = "link" /\ \E s \in Range(Shards) : Upsert(p, s, a)

\* refresh_credential; "probe" refreshes one account, "refresh" as many as
\* the status command shows.
Exchanges(p, a) ==
    /\ proc[p].pc \in {"loaded", "changed"} /\ proc[p].cmd \in {"probe", "refresh"}
    /\ proc[p].cmd = "probe" => proc[p].rotated = {}
    /\ a \notin proc[p].rotated
    /\ \E s \in OwnerOf(proc[p].mem, a) : proc[p].mem[s][a].tok # None

\* Mutant of ApplyTo: the rotated refresh token is not applied.
ApplyToAccessOnly(account, tok) == account

\* Mutant of ApplyTo: a blank token is applied as it is.
ApplyToBlank(account, tok) == [account EXCEPT !.tok = -1]

\* RefreshOutcome::apply_to
ApplyTo(account, tok) == [account EXCEPT !.tok = tok]

Exchange(p, a) ==
    /\ Exchanges(p, a)
    /\ \E s \in OwnerOf(proc[p].mem, a) :
         /\ proc[p].mem[s][a].tok = issued[a] /\ issued[a] < MaxTok
         /\ issued' = [issued EXCEPT ![a] = @ + 1]
         /\ proc' = [proc EXCEPT ![p].mem[s][a] = ApplyTo(@, issued[a] + 1),
                                 ![p].rotated = @ \cup {a}, ![p].pc = "changed"]
    /\ UNCHANGED <<files, lock, lost, raced>>

\* The provider refuses the token, or the answer does not come in time: the
\* provider may have issued a new token all the same.
ExchangeFails(p, a) ==
    /\ Exchanges(p, a)
    /\ \/ UNCHANGED <<issued, lost>>
       \/ /\ issued[a] < MaxTok
          /\ \E s \in OwnerOf(proc[p].mem, a) : proc[p].mem[s][a].tok = issued[a]
          /\ issued' = [issued EXCEPT ![a] = @ + 1]
          /\ lost' = lost \cup {a}
    /\ IF proc[p].pc = "changed" THEN UNCHANGED <<proc, lock>> ELSE End(p)
    /\ UNCHANGED <<files, raced>>

-----------------------------------------------------------------------------
(***************************************************************************)
(* Saving.                                                                 *)
(***************************************************************************)
\* save: the lock is tried once.
AcquireLock(p) ==
    /\ proc[p].pc = "changed"
    /\ IF lock \in {None, p} THEN lock' = p /\ Goto(p, "validate") ELSE End(p)
    /\ UNCHANGED <<files, issued, lost, raced>>

\* Mutant of SourcesUnchanged: only the source to be written is checked.
SourcesUnchangedHere(p) ==
    proc[p].todo = {} \/ files[NextSource(p)] = proc[p].snap[NextSource(p)]

\* validate_sources_unchanged
SourcesUnchanged(p) == files = proc[p].snap

Changed(p) ==
    {i \in DOMAIN SourceOrder :
        proc[p].mem[SourceOrder[i]] # Content(proc[p].snap[SourceOrder[i]])}

\* validate_locked, and the changes of save_with_before_commit
Validate(p) ==
    /\ proc[p].pc = "validate"
    /\ IF SourcesUnchanged(p) /\ Changed(p) # {}
       THEN proc' = [proc EXCEPT ![p].todo = Changed(p), ![p].pc = "stage"] /\ UNCHANGED lock
       ELSE End(p)
    /\ UNCHANGED <<files, issued, lost, raced>>

\* Mutant of Stage: the sources are not looked at again.
StageBlindly(p) ==
    /\ proc[p].pc = "stage"
    /\ Goto(p, "commit") /\ UNCHANGED <<files, issued, lock, lost, raced>>

\* stage_auth_file, and a second look at every source
Stage(p) ==
    /\ proc[p].pc = "stage"
    /\ IF SourcesUnchanged(p) THEN Goto(p, "commit") /\ UNCHANGED lock ELSE End(p)
    /\ UNCHANGED <<files, issued, lost, raced>>

\* A source that was missing is linked and must still be missing; another is
\* renamed over.
Installs(p, s) == proc[p].snap[s] = Absent => files[s] = Absent

Commit(p) ==
    LET s == NextSource(p)
        new == proc[p].mem[s]
    IN
    /\ proc[p].pc = "commit"
    /\ IF ~Installs(p, s) THEN End(p) /\ UNCHANGED <<files, raced>>
       ELSE /\ files' = [files EXCEPT ![s] = new]
            /\ raced' = raced \ {s}
            /\ IF proc[p].todo = {NextPlace(p)} THEN End(p)
               ELSE /\ proc' = [proc EXCEPT ![p].snap[s] = new, ![p].todo = @ \ {NextPlace(p)},
                                  ![p].rotated = {a \in @ : new[a] = None}, ![p].pc = "stage"]
                    /\ UNCHANGED lock
    /\ UNCHANGED <<issued, lost>>

-----------------------------------------------------------------------------
Crash(p) ==
    /\ Crashes /\ proc[p].pc # "idle"
    /\ End(p)
    /\ lost' = lost \cup proc[p].rotated
    /\ UNCHANGED <<files, issued, raced>>

\* The user edits a file; the lock does not keep an editor out.
UserEdit(s, a) ==
    /\ s \in Editable /\ Content(files[s])[a] # None
    /\ files' = [files EXCEPT ![s][a].label = ~@]
    /\ raced' = IF \E p \in Procs : proc[p].pc = "commit" THEN raced \cup {s} ELSE raced
    /\ UNCHANGED <<issued, lock, proc, lost>>

Step(p) ==
    \/ \E c \in Commands : Start(p, c)
    \/ LoadSource(p) \/ Change(p)
    \/ \E a \in Accounts : Exchange(p, a) \/ ExchangeFails(p, a)
    \/ AcquireLock(p) \/ Validate(p) \/ Stage(p) \/ Commit(p)
    \/ Crash(p)

Next ==
    \/ \E p \in Procs : Step(p)
    \/ \E s \in Editable, a \in Accounts : UserEdit(s, a)

Spec == Init /\ [][Next]_vars

-----------------------------------------------------------------------------
(***************************************************************************)
(* An account is in one source.  A pool with an account in two is refused  *)
(* by every later load (load_source), so no sequence of saves, by however  *)
(* many processes and whatever the crashes between the renames, may write  *)
(* one (validate_sources_unchanged checks every source for this).          *)
(***************************************************************************)
UniqueAccounts ==
    \A s, t \in Sources, a \in Accounts :
        s # t => Content(files[s])[a] = None \/ Content(files[t])[a] = None

(***************************************************************************)
(* A save replaces only what its process has seen: a change that another   *)
(* process saved is never overwritten, and an edit by hand only between    *)
(* the last look and the rename, the window that SourceSnapshot admits.    *)
(***************************************************************************)
NoLostUpdate ==
    \A p \in Procs, s \in Sources :
        /\ proc[p].pc = "commit" /\ proc'[p].pc # "commit"
        /\ NextSource(p) = s /\ files'[s] # files[s] /\ s \notin raced
        => files[s] = proc[p].snap[s]

(***************************************************************************)
(* "A failed quota endpoint must never discard a completed token exchange" *)
(* (management.rs:298), "so a later failure cannot lose a rotated refresh  *)
(* token" (gateway-cli/src/cli/account.rs): once the exchanges are over,   *)
(* the token on disk is the one the provider accepts, unless a crash or a  *)
(* timeout took its successor.                                             *)
(***************************************************************************)
RotationKept ==
    \A s \in Sources, a \in Accounts \ lost :
        /\ Content(files[s])[a] # None /\ files[s][a].tok # None
        /\ \A p \in Procs : a \notin proc[p].rotated
        => files[s][a].tok = issued[a]
=============================================================================
