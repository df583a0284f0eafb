---------------------------- MODULE LiveRuntime ----------------------------
(***************************************************************************)
(* The live configuration of a running gateway: administrators' reload     *)
(* requests that load, build and install a new generation                  *)
(* (gateway-cli/src/cli/serve.rs install_admin_reloader, router/src/v2/    *)
(* mod.rs LiveRuntime), and the two background tasks that refresh what the *)
(* generation in use knows about models (router/src/v2/model_refresh.rs):  *)
(* one asks the upstream accounts, at an interval and after every reload,  *)
(* one fetches the models.dev catalogue at an interval.                    *)
(*                                                                         *)
(* A generation has its own model caches, filled with the catalogue known  *)
(* when it was built; they are shared with nobody, so a catalogue that     *)
(* arrives later has to be applied to each generation that may be in use.  *)
(***************************************************************************)
EXTENDS Naturals, Sequences

CONSTANTS
  Requests,   \* reload requests; each is made once
  Nobody,     \* holder of a free reload_lock
  Fixed,      \* values of the settings that need a restart: listeners, binds,
              \* client authentication, TLS, limits, persistence, models...
  MaxEdits,   \* bound: times the configuration is edited
  MaxWorld    \* bound: times models.dev changes

LiveAssumption ==
  /\ Nobody \notin Requests /\ Fixed # {} /\ MaxEdits \in Nat /\ MaxWorld \in Nat

VARIABLES
  disk,     \* [ver, fixed, valid]: the configuration and credential files
  gens,     \* the generations installed so far, by number: [ver, fixed, cat, tried]
  holder,   \* the request that holds reload_lock
  pc,       \* where each request is
  loaded,   \* what each request has loaded, then built: [ver, fixed, cat]
  asked,    \* history: the version on disk when the request was made
  world,    \* the catalogue models.dev serves
  global,   \* the catalogue published in this process
  cpc, cgen,         \* the catalogue task, and the generation it holds
  upc, ugen, seen,   \* the upstream task, its generation, the signal it has seen
  signal    \* the value of the watch channel refresh_changed

reloading == <<disk, holder, pc, loaded, asked>>
catalogue == <<world, global, cpc, cgen>>
upstream == <<upc, ugen, seen>>
vars == <<reloading, gens, catalogue, upstream, signal>>

Ended == {"ok", "error"}
current == Len(gens)              \* LiveRuntime::generation
Served == gens[current]

TypeOK ==
  /\ disk \in [ver : 0 .. MaxEdits, fixed : Fixed, valid : BOOLEAN]
  /\ gens \in Seq([ver : 0 .. MaxEdits, fixed : Fixed, cat : 0 .. world, tried : BOOLEAN])
  /\ pc \in [Requests -> {"idle", "waiting", "loading", "loaded", "built", "stored"} \cup Ended]
  /\ holder \in Requests \cup {Nobody}
  /\ \A r \in Requests : holder = r => pc[r] \in {"loading", "loaded", "built", "stored"}
  /\ loaded \in [Requests -> [ver : 0 .. MaxEdits, fixed : Fixed, cat : 0 .. world]]
  /\ asked \in [Requests -> 0 .. MaxEdits]
  /\ world \in 0 .. MaxWorld /\ global \in 0 .. world
  /\ cpc \in {"asleep", "fetching", "fetched", "latest", "applying"}
  /\ upc \in {"asleep", "woken", "refreshing"}
  /\ cgen \in DOMAIN gens /\ ugen \in DOMAIN gens
  /\ seen \in 1 .. signal /\ signal \in 1 .. current

Init ==
  /\ disk \in [ver : {0}, fixed : Fixed, valid : {TRUE}]
  /\ gens = <<[ver |-> 0, fixed |-> disk.fixed, cat |-> 0, tried |-> FALSE]>>
  /\ holder = Nobody /\ pc = [r \in Requests |-> "idle"]
  /\ loaded = [r \in Requests |-> [ver |-> 0, fixed |-> disk.fixed, cat |-> 0]]
  /\ asked = [r \in Requests |-> 0]
  /\ world = 0 /\ global = 0 /\ cpc = "asleep" /\ cgen = 1
  /\ upc = "asleep" /\ ugen = 1 /\ seen = 1 /\ signal = 1

-----------------------------------------------------------------------------
\* The user edits the files.
Edit ==
  /\ disk.ver < MaxEdits
  /\ disk' \in [ver : {disk.ver + 1}, fixed : Fixed, valid : BOOLEAN]
  /\ UNCHANGED <<gens, holder, pc, loaded, asked, catalogue, upstream, signal>>

\* The handler of the reload endpoint calls LiveRuntime::reload.
AskReload(r) ==
  /\ pc[r] = "idle" /\ pc' = [pc EXCEPT ![r] = "waiting"]
  /\ asked' = [asked EXCEPT ![r] = disk.ver]
  /\ UNCHANGED <<disk, gens, holder, loaded, catalogue, upstream, signal>>

\* reload_lock.lock().await
Lock(r) ==
  /\ pc[r] = "waiting" /\ holder = Nobody
  /\ holder' = r /\ pc' = [pc EXCEPT ![r] = "loading"]
  /\ UNCHANGED <<disk, gens, loaded, asked, catalogue, upstream, signal>>

\* The request ends with this outcome and its lock guard is dropped.
Answer(r, outcome) == pc' = [pc EXCEPT ![r] = outcome] /\ holder' = Nobody

\* Mutant of Load: the lock guards the reading of the files only.
LoadUnlocked(r) ==
  /\ pc[r] = "loading"
  /\ \/ /\ disk.valid /\ pc' = [pc EXCEPT ![r] = "loaded"] /\ holder' = Nobody
        /\ loaded' = [loaded EXCEPT ![r].ver = disk.ver, ![r].fixed = disk.fixed]
     \/ ~disk.valid /\ Answer(r, "error") /\ UNCHANGED loaded
  /\ UNCHANGED <<disk, gens, asked, catalogue, upstream, signal>>

\* load_for_reload, on a blocking thread: an invalid configuration is an error.
Load(r) ==
  /\ pc[r] = "loading"
  /\ \/ /\ disk.valid /\ pc' = [pc EXCEPT ![r] = "loaded"] /\ UNCHANGED holder
        /\ loaded' = [loaded EXCEPT ![r].ver = disk.ver, ![r].fixed = disk.fixed]
     \/ ~disk.valid /\ Answer(r, "error") /\ UNCHANGED loaded
  /\ UNCHANGED <<disk, gens, asked, catalogue, upstream, signal>>

\* Mutant of Compatible: a restart-only setting is not compared.
CompatibleAlways(r) == TRUE

\* ensure_service_reload_compatible, validate_reload and ensure_reload_compatible:
\* nothing that needs a restart differs from the generation in use.
Compatible(r) == loaded[r].fixed = Served.fixed

\* Validate the plan and build the states; DiscoveryRuntime::new fills the new
\* caches with the catalogue published so far.
Build(r) ==
  /\ pc[r] = "loaded"
  /\ \/ /\ Compatible(r) /\ pc' = [pc EXCEPT ![r] = "built"] /\ UNCHANGED holder
        /\ loaded' = [loaded EXCEPT ![r].cat = global]
     \/ ~Compatible(r) /\ Answer(r, "error") /\ UNCHANGED loaded
  /\ UNCHANGED <<disk, gens, asked, catalogue, upstream, signal>>

\* The generation that LiveRuntime::replace installs for r.
Replacement(r) ==
  [ver |-> loaded[r].ver, fixed |-> loaded[r].fixed, cat |-> loaded[r].cat, tried |-> FALSE]

\* Mutant of Replace: the refresh tasks are told before the generation is stored.
ReplaceSignalFirst(r) ==
  /\ \/ /\ pc[r] = "built" /\ Compatible(r)
        /\ signal' = current + 1 /\ pc' = [pc EXCEPT ![r] = "stored"]
        /\ UNCHANGED <<gens, holder>>
     \/ /\ pc[r] = "stored"
        /\ gens' = Append(gens, Replacement(r)) /\ Answer(r, "ok") /\ UNCHANGED signal
  /\ UNCHANGED <<disk, loaded, asked, catalogue, upstream>>

\* LiveRuntime::replace: the generation is stored, then the watch channel set.
\* ensure_reload_compatible cannot fail here: reload_lock is held since Build.
Replace(r) ==
  /\ \/ /\ pc[r] = "built" /\ Compatible(r)
        /\ gens' = Append(gens, Replacement(r))
        /\ pc' = [pc EXCEPT ![r] = "stored"] /\ UNCHANGED <<holder, signal>>
     \/ /\ pc[r] = "stored"
        /\ signal' = current /\ Answer(r, "ok") /\ UNCHANGED gens
  /\ UNCHANGED <<disk, loaded, asked, catalogue, upstream>>

\* Mutant of Disconnect: the lock of a dropped request is never released.
DisconnectLocked(r) ==
  /\ pc[r] \in {"waiting", "loading"}
  /\ pc' = [pc EXCEPT ![r] = "error"]
  /\ UNCHANGED <<disk, gens, holder, loaded, asked, catalogue, upstream, signal>>

\* The administrator disconnects: the future is dropped at one of its awaits.
Disconnect(r) ==
  /\ pc[r] \in {"waiting", "loading"}
  /\ pc' = [pc EXCEPT ![r] = "error"]
  /\ holder' = IF holder = r THEN Nobody ELSE holder
  /\ UNCHANGED <<disk, gens, loaded, asked, catalogue, upstream, signal>>

-----------------------------------------------------------------------------
\* models.dev publishes a new catalogue.
WorldChanges ==
  /\ world < MaxWorld /\ world' = world + 1
  /\ UNCHANGED <<reloading, gens, global, cpc, cgen, upstream, signal>>

\* The catalogue task's timer: it holds the generation in use over the fetch.
CatalogueTick ==
  /\ cpc = "asleep" /\ cpc' = "fetching" /\ cgen' = current
  /\ UNCHANGED <<reloading, gens, world, global, upstream, signal>>

\* CatalogueStore::persist publishes the fetched catalogue.
Publish ==
  /\ cpc = "fetching" /\ cpc' = "fetched" /\ global' = world
  /\ UNCHANGED <<reloading, gens, world, cgen, upstream, signal>>

\* Mutant of FetchFails: the rest of the round is skipped.
FetchFailsAsleep ==
  /\ cpc = "fetching" /\ cpc' = "asleep"
  /\ UNCHANGED <<reloading, gens, world, global, cgen, upstream, signal>>

\* The fetch fails or times out: the previous catalogue is retained.
FetchFails ==
  /\ cpc = "fetching" /\ cpc' = "latest"
  /\ UNCHANGED <<reloading, gens, world, global, cgen, upstream, signal>>

\* apply_catalogue on the generation the task held, or on the latest one.
ApplyCatalogue ==
  /\ \/ cpc = "fetched" /\ cpc' = "latest"
     \/ cpc = "applying" /\ cpc' = "asleep"
  /\ gens' = [gens EXCEPT ![cgen].cat = global]
  /\ UNCHANGED <<reloading, world, global, cgen, upstream, signal>>

\* The generation is looked up again after the fetch.
LookupLatest ==
  /\ cpc = "latest" /\ cpc' = "applying" /\ cgen' = current
  /\ UNCHANGED <<reloading, gens, world, global, upstream, signal>>

-----------------------------------------------------------------------------
\* The upstream task's timer.
UpstreamTick ==
  /\ upc = "asleep" /\ upc' = "woken"
  /\ UNCHANGED <<reloading, gens, catalogue, ugen, seen, signal>>

\* generation_changed.changed() returns once for any number of new values.
UpstreamChanged ==
  /\ upc = "asleep" /\ seen # signal
  /\ upc' = "woken" /\ seen' = signal
  /\ UNCHANGED <<reloading, gens, catalogue, ugen, signal>>

\* discovery(&current) loads the generation in use.
UpstreamLookup ==
  /\ upc = "woken" /\ upc' = "refreshing" /\ ugen' = current
  /\ UNCHANGED <<reloading, gens, catalogue, seen, signal>>

\* refresh_upstream has asked every account of that generation.
UpstreamRefreshed ==
  /\ upc = "refreshing" /\ upc' = "asleep"
  /\ gens' = [gens EXCEPT ![ugen].tried = TRUE]
  /\ UNCHANGED <<reloading, catalogue, ugen, seen, signal>>

ReloadStep(r) == Lock(r) \/ Load(r) \/ Build(r) \/ Replace(r)
CatalogueStep == CatalogueTick \/ Publish \/ FetchFails \/ ApplyCatalogue \/ LookupLatest
UpstreamStep == UpstreamChanged \/ UpstreamLookup \/ UpstreamRefreshed

Next ==
  \/ Edit \/ WorldChanges
  \/ \E r \in Requests : AskReload(r) \/ ReloadStep(r) \/ Disconnect(r)
  \/ CatalogueStep
  \/ UpstreamTick \/ UpstreamStep

Spec == Init /\ [][Next]_vars

\* The runtime polls every task and the catalogue timer fires again and again;
\* the upstream task is promised no timer, only the signal.
FairSpec ==
  /\ Spec
  /\ \A r \in Requests : WF_vars(ReloadStep(r))
  /\ WF_vars(CatalogueStep) /\ WF_vars(UpstreamStep)

-----------------------------------------------------------------------------
(***************************************************************************)
(* A reload that was answered with success stays in effect: the generation *)
(* in use is built from files no older than those on disk when any         *)
(* successful request was made, however the requests overlap.              *)
(***************************************************************************)
AnswerStands == \A r \in Requests : pc[r] = "ok" => Served.ver >= asked[r]

(***************************************************************************)
(* Every generation agrees with the one the process started with on what   *)
(* needs a restart: the listeners that are bound find themselves in it     *)
(* (current_api, current_forward_proxy) through any series of edits.       *)
(***************************************************************************)
ServedAsStarted == Served.fixed = gens[1].fixed

(***************************************************************************)
(* Once edits and reloads have ended, the generation in use comes to know  *)
(* the published catalogue and keeps it, even if every later fetch fails.  *)
(***************************************************************************)
CatalogueReturns == <>[](Served.cat = global)

(***************************************************************************)
(* A generation that a reload installs is refreshed from the upstream      *)
(* accounts without waiting for the interval, unless it is replaced first, *)
(* even when the signal arrives while an older one is being refreshed.     *)
(***************************************************************************)
ReloadRefreshed ==
  \A g \in 2 .. 3 : current = g ~> current # g \/ gens[g].tried
=============================================================================
