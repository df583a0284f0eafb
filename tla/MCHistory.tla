----------------------------- MODULE MCHistory ------------------------------
(***************************************************************************)
(* An instance of History.                                                 *)
(***************************************************************************)
EXTENDS History, TLC

CONSTANTS
    single,                  \* a single request
    thread, a, b,            \* a session and its messages
    usage, d1, d2,           \* databases an import writes
    p1, p2,                  \* processes that open a database
    api, proxy, c1, c2, c3   \* listeners and connections

MCKinds == {"Started", "Usage", "Completed"}
MCEmitted == {"Started", "Extract", "Resolve", "Error", "UpstreamResp", "UpstreamBody",
              "Usage", "Completed"}

\* Two requests of a session; and one, of more conversations.
MCTree ==
    [ids |-> Ids, sessions |-> {thread}, inputs |-> {<<a>>}, outputs |-> {<<b>>},
     maxTs |-> 2, retention |-> 1]
MCLone ==
    [ids |-> {single}, sessions |-> {thread}, inputs |-> {<<a>>, <<a, b>>},
     outputs |-> {<<a>>, <<b>>}, maxTs |-> 2, retention |-> 1]

\* The router may write a row of the capture, as an earlier import would have,
\* one that collides with it, and one of its own.
Row(k, v) == [key |-> k, val |-> v]
MCCapture == [d \in {usage, d1, d2} |-> {Row(1, 1)}]
MCLiveRows == (usage :> {Row(1, 1), Row(1, 2)}) @@ (d1 :> {Row(1, 2), Row(2, 1)})
              @@ (d2 :> {Row(2, 1)})
MCRestoredRow == Row(3, 1)

\* Releases of one to three migrations, one process at a time; and two at once.
MCUpgrade == [procs |-> {p1}, heads |-> {1, 2, 3}, maxRows |-> 2]
MCRace == [procs |-> {p1, p2}, heads |-> {2, 3}, maxRows |-> 1]

\* An API listener with two connections and a forward proxy with one.
MCListenerOf == (c1 :> api) @@ (c2 :> api) @@ (c3 :> proxy)

\* The requests of a component are interchangeable.
Symmetry == Permutations(Ids)

=============================================================================
