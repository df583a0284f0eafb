----------------------------- MODULE MCServing ------------------------------
(***************************************************************************)
(* An instance of Serving.                                                 *)
(***************************************************************************)
EXTENDS Serving, TLC

CONSTANTS
    a1, a2, a3, p1, p2,      \* account bindings and their providers
    m1, m2,                  \* models
    all, one,                \* listings of two profiles
    c1, c2, c3, c4,          \* CONNECTs
    api, chat, web           \* and their hosts

MCFixed == {"a", "b"}

MCProviderOf == (a1 :> p1) @@ (a2 :> p1) @@ (a3 :> p2)
MCCatalogue == (p1 :> {}) @@ (p2 :> {})
MCAllowed == (all :> {a1, a2, a3}) @@ (one :> {a1}) @@ (Task :> {a1, a2, a3})

\* More hosts than the cache holds, one of them asked for twice.
MCHostOf == (c1 :> api) @@ (c2 :> api) @@ (c3 :> chat) @@ (c4 :> web)

\* A client with a stream that two calls read, closed twice; and one with two reloads and a
\* request.
MCReading ==
    [streams |-> {a1}, reloads |-> {}, operations |-> {a1}, readers |-> {c1, c2},
     streamOf |-> (c1 :> a1) @@ (c2 :> a1), closers |-> {p1, p2}, maxItems |-> 1]
MCReloading ==
    [streams |-> {}, reloads |-> {a1, a2}, operations |-> {a1, a2, a3}, readers |-> {},
     streamOf |-> <<>>, closers |-> {p1}, maxItems |-> 0]

\* The requests of a component are interchangeable.
Symmetry == Permutations(Requests)

=============================================================================
