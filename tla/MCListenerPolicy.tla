-------------------------- MODULE MCListenerPolicy --------------------------
(***************************************************************************)
(* Instances of ListenerPolicy.  The rules name a domain, hosts under it   *)
(* and an address; requests also come for a host of another domain, deeper *)
(* hosts, other ports, longer paths and other methods than any rule names. *)
(***************************************************************************)
EXTENDS ListenerPolicy, TLC

a       == <<"com", "a">>
wa      == <<"com", "a", "w">>
xa      == <<"com", "a", "x">>
yxa     == <<"com", "a", "x", "y">>
zxa     == <<"com", "a", "x", "z">>
b       == <<"com", "b">>
ip      == <<"ip">>
MCDnsHosts == {a, wa, xa, yxa, zxa, b}
MCIpHosts  == {ip}

Exact(h) == [kind |-> "exact", host |-> h]
Sub(h)   == [kind |-> "sub", host |-> h]

v1        == <<"v1">>
v1r       == <<"v1", "responses">>
MCPaths   == {<<>>, v1, v1r, <<"v1", "responses", "x">>}

HostDims == {{}, {Exact(a)}, {Sub(a)}, {Exact(xa)}, {Sub(xa)}, {Exact(a), Sub(a)},
             {Sub(a), Exact(yxa)}, {Exact(xa), Exact(ip)}, {Exact(ip)}, {Sub(ip)}}

MCConnectRules == [hosts : HostDims, ports : {{}, {80}, {443}, {80, 443}}]

MCListeners == [http : Profiles \cup {"reject"}, ca : BOOLEAN,
                connect : {"intercept", "tunnel", "reject"}]

MCBindings ==
    [hosts : {{}}, paths : {{}, {v1}, {v1r}, {v1, v1r}},
     methods : {{}, {"GET"}, {"POST"}, {"GET", "POST"}}, operations : {{}, {"responses"}}]
    \cup
    [hosts : {{Exact(xa)}}, paths : {{}, {v1}, {v1r}},
     methods : {{}, {"POST"}}, operations : {{}, {"responses"}}]

(***************************************************************************)
(* Either a binding and a CONNECT rule at most, of whatever actions, that  *)
(* leave the question to the actions; or rules of one kind, as many as     *)
(* MaxRules, on a listener that rejects as they do: whether rules cover    *)
(* each other does not depend on their actions.                            *)
(***************************************************************************)
Actions(rules) == {rules[k].action : k \in DOMAIN rules}
Matches(rules) == {rules[k].match : k \in DOMAIN rules}

FewBindings == {m \in MCBindings : m.hosts = {} /\ m.paths = {}}
FewConnectRules == {m \in MCConnectRules : m.hosts \in {{Exact(a)}, {Sub(a)}}}

ByAction ==
    /\ Len(bindings) <= 1 /\ Matches(bindings) \subseteq FewBindings
    /\ Len(connects) <= 1 /\ Matches(connects) \subseteq FewConnectRules

ByRule ==
    /\ bindings = <<>> \/ phase # "connects"
    /\ Actions(bindings) \cup Actions(connects) \subseteq {"reject"}
    /\ listener = [http |-> "reject", connect |-> "reject", ca |-> FALSE]

Small == ByAction \/ ByRule

IdSymmetry == Permutations(Ids)

=============================================================================
