----------------------------- MODULE Discovery -----------------------------
(***************************************************************************)
(* Model discovery of one generation (router/src/v2/discovery.rs): what    *)
(* each account's upstream said about its models, kept per account         *)
(* binding, and the model cache of each provider, which the accounts of    *)
(* that provider share and which routing reads.  The background task and   *)
(* the requests for /v1/models refresh it; one refresher works at a time,  *)
(* a request that finds another at work answers from what is known.        *)
(***************************************************************************)
EXTENDS Naturals, FiniteSets, Functions

CONSTANTS
  Bindings,      \* account bindings
  ProviderOf,    \* the provider of each binding
  Models,        \* model identifiers
  Catalogue,     \* catalogue models of each provider, possibly none
  Listings,      \* requests for /v1/models
  Allowed,       \* the bindings of the profile each request may use
  Task,          \* the upstream refresh task
  Nobody,        \* holder of a free refresh_gate
  REFRESH_CONCURRENCY,
  Rounds         \* bound: rounds of the task, and requests per listing

Refreshers == Listings \cup {Task}
Providers == Range(ProviderOf)

DiscoveryAssumption ==
  /\ ProviderOf \in [Bindings -> Providers] /\ Catalogue \in [Providers -> SUBSET Models]
  /\ Task \notin Listings /\ Nobody \notin Refreshers
  /\ Allowed \in [Refreshers -> SUBSET Bindings]
  /\ REFRESH_CONCURRENCY \in Nat \ {0} /\ Rounds \in Nat

VARIABLES
  gate,      \* who holds refresh_gate
  pc,        \* where each refresher is
  todo,      \* bindings a refresher has still to ask
  asking,    \* bindings it is asking now
  cached,    \* upstream: the last good list of each binding; {} is none yet
  published, \* the upstream identifiers in each provider's model cache
  answers,   \* the last answer each listing has given
  rounds     \* rounds begun

vars == <<gate, pc, todo, asking, cached, published, answers, rounds>>

TypeOK ==
  /\ gate \in Refreshers \cup {Nobody}
  /\ pc \in [Refreshers -> {"idle", "waiting", "refreshing", "answering"}]
  /\ todo \in [Refreshers -> SUBSET Bindings] /\ asking \in [Refreshers -> SUBSET Bindings]
  /\ \A x \in Refreshers : Cardinality(asking[x]) <= REFRESH_CONCURRENCY
  /\ \A x \in Refreshers : todo[x] \cup asking[x] # {} => gate = x
  /\ cached \in [Bindings -> SUBSET Models] /\ published \in [Providers -> SUBSET Models]
  /\ answers \in [Listings -> {"none", "models", "bad_gateway"}]
  /\ rounds \in [Refreshers -> 0 .. Rounds]

Init ==
  /\ gate = Nobody /\ pc = [x \in Refreshers |-> "idle"]
  /\ todo = [x \in Refreshers |-> {}] /\ asking = [x \in Refreshers |-> {}]
  /\ cached = [b \in Bindings |-> {}] /\ published = [p \in Providers |-> {}]
  /\ answers = [x \in Listings |-> "none"] /\ rounds = [x \in Refreshers |-> 0]

-----------------------------------------------------------------------------
\* x holds the gate and has its bindings to ask.
Enter(x) ==
  /\ gate' = x /\ todo' = [todo EXCEPT ![x] = Allowed[x]]
  /\ pc' = [pc EXCEPT ![x] = "refreshing"]

\* x is done with the upstream; the requests it had under way are dropped.
Leave(x, next) ==
  /\ gate' = IF gate = x THEN Nobody ELSE gate
  /\ todo' = [todo EXCEPT ![x] = {}] /\ asking' = [asking EXCEPT ![x] = {}]
  /\ pc' = [pc EXCEPT ![x] = next]

Begin(x) ==
  /\ pc[x] = "idle" /\ rounds[x] < Rounds
  /\ rounds' = [rounds EXCEPT ![x] = @ + 1]

\* refresh_upstream: the task waits for the gate.
StartTask ==
  /\ Begin(Task) /\ pc' = [pc EXCEPT ![Task] = "waiting"]
  /\ UNCHANGED <<gate, todo, asking, cached, published, answers>>

TaskEnters ==
  /\ pc[Task] = "waiting" /\ gate = Nobody /\ Enter(Task)
  /\ UNCHANGED <<asking, cached, published, answers, rounds>>

\* models: try_lock; a busy gate means that the answer comes from the cache.
StartListing(x) ==
  /\ Begin(x)
  /\ \/ gate = Nobody /\ Enter(x)
     \/ gate # Nobody /\ pc' = [pc EXCEPT ![x] = "answering"] /\ UNCHANGED <<gate, todo>>
  /\ UNCHANGED <<asking, cached, published, answers>>

\* buffer_unordered polls the next request.
Ask(x, b) ==
  /\ b \in todo[x] /\ Cardinality(asking[x]) < REFRESH_CONCURRENCY
  /\ todo' = [todo EXCEPT ![x] = @ \ {b}]
  /\ asking' = [asking EXCEPT ![x] = @ \cup {b}]
  /\ UNCHANGED <<gate, pc, cached, published, answers, rounds>>

\* Mutant of publish_upstream: only the binding that answered is published.
PublishAnswered(c, b) ==
  [p \in Providers |-> IF p = ProviderOf[b] THEN c[b] ELSE published[p]]

\* The union of what the bindings of each provider said, where it is not empty.
publish_upstream(c, b) ==
  LET union(p) == UNION {c[d] : d \in {d \in Bindings : ProviderOf[d] = p}}
  IN [p \in Providers |-> IF union(p) = {} THEN published[p] ELSE union(p)]

\* An account answers with at least one model.
Answered(x, b) ==
  /\ b \in asking[x] /\ asking' = [asking EXCEPT ![x] = @ \ {b}]
  /\ \E ms \in (SUBSET Models) \ {{}} : cached' = [cached EXCEPT ![b] = ms]
  /\ published' = publish_upstream(cached', b)
  /\ UNCHANGED <<gate, pc, todo, answers, rounds>>

\* Mutant of Failed: the failed account's models are forgotten.
FailedForgets(x, b) ==
  /\ b \in asking[x] /\ asking' = [asking EXCEPT ![x] = @ \ {b}]
  /\ cached' = [cached EXCEPT ![b] = {}]
  /\ published' = [p \in Providers |-> UNION {cached'[d] : d \in {d \in Bindings : ProviderOf[d] = p}}]
  /\ UNCHANGED <<gate, pc, todo, answers, rounds>>

\* It fails, times out or lists nothing: the previous models are retained.
Failed(x, b) ==
  /\ b \in asking[x] /\ asking' = [asking EXCEPT ![x] = @ \ {b}]
  /\ UNCHANGED <<gate, pc, todo, cached, published, answers, rounds>>

\* refresh_bindings returns; or the request's MODEL_REQUEST_TIMEOUT drops it.
Refreshed(x) ==
  /\ pc[x] = "refreshing"
  /\ todo[x] \cup asking[x] = {} \/ x # Task
  /\ Leave(x, IF x = Task THEN "idle" ELSE "answering")
  /\ UNCHANGED <<cached, published, answers, rounds>>

\* The identifiers a listing gives: of its bindings' upstreams, then the catalogue's.
Listed(x) ==
  (UNION {cached[b] : b \in Allowed[x]}) \cup (UNION {Catalogue[ProviderOf[b]] : b \in Allowed[x]})

\* models answers from the retained lists, or with BAD_GATEWAY when there is nothing.
Answer(x) ==
  /\ pc[x] = "answering"
  /\ answers' = [answers EXCEPT ![x] = IF Listed(x) = {} THEN "bad_gateway" ELSE "models"]
  /\ Leave(x, "idle")
  /\ UNCHANGED <<cached, published, rounds>>

\* The task is aborted, or the listing's client disconnects.
Dropped(x) ==
  /\ pc[x] # "idle" /\ Leave(x, "idle")
  /\ UNCHANGED <<cached, published, answers, rounds>>

Next ==
  \/ StartTask \/ TaskEnters
  \/ \E x \in Listings : StartListing(x) \/ Answer(x)
  \/ \E x \in Refreshers : Refreshed(x) \/ Dropped(x)
  \/ \E x \in Refreshers, b \in Bindings : Ask(x, b) \/ Answered(x, b) \/ Failed(x, b)

Spec == Init /\ [][Next]_vars

-----------------------------------------------------------------------------
(***************************************************************************)
(* The model cache that routing reads is the union of the last good lists  *)
(* of the provider's accounts, although a listing refreshes only the       *)
(* accounts its profile may use and may be dropped half way.               *)
(***************************************************************************)
PublishedIsUnion ==
  \A p \in Providers : published[p] = UNION {cached[b] : b \in {b \in Bindings : ProviderOf[b] = p}}

(***************************************************************************)
(* A profile that has once listed models never answers with an error       *)
(* later, however the upstream fails: what was good is retained.           *)
(***************************************************************************)
OnceListedStaysListed ==
  \A x \in Listings : answers[x] = "models" => answers'[x] = "models"
=============================================================================
