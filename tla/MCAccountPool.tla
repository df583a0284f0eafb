--------------------------- MODULE MCAccountPool ---------------------------
(***************************************************************************)
(* Pools of up to three active bindings and a fallback, used by two        *)
(* concurrent requests with different keys and routes.                     *)
(***************************************************************************)
EXTENDS AccountPool, TLC

CONSTANTS a1, a2, a3, f1

MCOrder == [b \in Bindings |-> CASE b = a1 -> 1 [] b = a2 -> 2 [] b = a3 -> 3
                                 [] OTHER -> 4]

Even == [b \in Bindings |-> 0]
PreferFallback == [b \in Bindings |-> IF b = f1 THEN 1 ELSE 0]

On(matching, rank) == [matching |-> matching, rank |-> rank]
Managed(passes, allowed) ==
    [passes |-> passes, allowed |-> allowed, relay |-> FALSE, refused |-> FALSE]
Relay(to, allowed) ==
    [passes |-> <<On(to, Even)>>, allowed |-> allowed, relay |-> TRUE,
     refused |-> allowed \cap to = {}]

\* Any binding will do, with an unrestricted key; and an unrestricted relay.
AnyBinding == Managed(<<On(Bindings, Even)>>, Bindings)
(***************************************************************************)
(* Routes and keys that disagree about a1 and f1: a discovery pass on a1   *)
(* before a pass on everything, for a key without a1; a key that may not   *)
(* use the only provider that matches; a relay to the fallback, and one    *)
(* that is refused.                                                        *)
(***************************************************************************)
RoutingQueries ==
    { AnyBinding,
      Managed(<<On({a1}, Even), On(Bindings, PreferFallback)>>, {f1}),
      Managed(<<On({a1}, Even)>>, {f1}),
      Relay({f1}, Bindings),
      Relay({f1}, {a1}) }

\* Two models: one that every active binding serves, one that only a1 serves.
TwoModels == {AnyBinding, Managed(<<On({a1}, Even)>>, Bindings)}

MCSymmetry == Permutations(Requests)
=============================================================================
