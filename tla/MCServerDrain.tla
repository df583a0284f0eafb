--------------------------- MODULE MCServerDrain ---------------------------
(* A small instance of ServerDrain for TLC: an API listener with two        *)
(* connections and a forward proxy with one.                                *)
EXTENDS ServerDrain, TLC

CONSTANTS api, proxy, c1, c2, c3

ASSUME DrainAssumption

MCListeners == {api, proxy}
MCHttpListeners == {api}
MCConnections == {c1, c2, c3}
MCListenerOf == (c1 :> api) @@ (c2 :> api) @@ (c3 :> proxy)
=============================================================================
