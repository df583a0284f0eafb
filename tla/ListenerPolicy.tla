--------------------------- MODULE ListenerPolicy ---------------------------
(***************************************************************************)
(* The rules of a forward-proxy listener: how the configuration's bindings *)
(* and CONNECT rules are compiled (config/src/v2/compile/listeners.rs) and *)
(* how the running proxy decides by them (router/src/v2/mod.rs).           *)
(*                                                                         *)
(* A rule is a conjunction of dimensions, each a set of alternatives and   *)
(* unconstrained when empty; the first rule that matches decides.  The     *)
(* compiler refuses a rule that could never be the first: one earlier rule *)
(* covers it, or the earlier rules cover every combination of its          *)
(* alternatives between them.  That check works on the rules' text, the    *)
(* decision on requests; whether the two agree is the question here.       *)
(*                                                                         *)
(* A host is the sequence of its DNS labels from the root down, so a       *)
(* subdomain is a longer sequence with the same beginning.  A path is a    *)
(* sequence of pieces.  A method is a name and the case it is written in.  *)
(***************************************************************************)
EXTENDS Naturals, Sequences, FiniteSets

CONSTANTS
    DnsHosts, IpHosts,    \* the hosts requests are for
    Paths, Ports,         \* ... their paths, their ports
    MethodNames,          \* ... the names of their methods, "POST" among them
    Operations,           \* the operations a path may end in
    Profiles,             \* the profiles of the configuration
    ApiProfiles,          \* those with an API binding
    RawBindings,          \* what bindings the configuration may have
    RawConnectRules,      \* what CONNECT rules it may have
    RawConnectActions,    \* ... with these actions
    RawListeners,         \* default actions of the listener and its ca_dir
    Ids,                  \* the ids rules are given
    MaxRules,             \* how many rules a configuration has (bound)
    None

VARIABLES
    bindings,    \* the HTTP bindings compiled so far
    connects,    \* the CONNECT rules compiled so far
    ids,         \* the ids claimed
    listener,    \* default actions, and whether the listener has a ca_dir
    phase,       \* "bindings", "connects", "plan", "refused"
    refused      \* the rule a refusal names, and why

vars == <<bindings, connects, ids, listener, phase, refused>>

Hosts == DnsHosts \cup IpHosts
Cases == {"upper", "lower"}

HostPattern == [kind : {"exact", "sub"}, host : Hosts]

\* HttpMatch and ConnectMatch; the lists are sets, as their order is not looked at.
HttpMatch == [hosts : SUBSET HostPattern, paths : SUBSET Paths,
              methods : SUBSET MethodNames, operations : SUBSET Operations]
ConnectMatch == [hosts : SUBSET HostPattern, ports : SUBSET Ports]

ConnectActions == {"intercept", "tunnel", "reject"}

\* Why a configuration is refused, and what is said of it.
Reasons == {"duplicate", "listener", "invalid", "redundant", "empty", "shadowed",
            "covered", "unresolved", "no_ca"}
Refusals == [kind : {"bindings", "connects"}, why : Reasons,
             match : HttpMatch \cup ConnectMatch \cup {None}]

ASSUME PolicyAssumption ==
    /\ DnsHosts \subseteq Seq(STRING) /\ Paths \subseteq Seq(STRING)
    /\ RawBindings \subseteq HttpMatch /\ RawConnectRules \subseteq ConnectMatch
    /\ RawConnectActions \subseteq ConnectActions
    /\ RawListeners \subseteq [http : Profiles \cup {"reject"},
                               connect : ConnectActions, ca : BOOLEAN]
    /\ ApiProfiles \subseteq Profiles
    /\ MaxRules \in Nat
    /\ None \notin Reasons \cup Refusals

-----------------------------------------------------------------------------
(* What the running proxy does with a rule. *)

\* CanonicalHost::is_strict_subdomain_of.
StrictSubdomain(host, suffix) ==
    /\ host \in DnsHosts /\ suffix \in DnsHosts
    /\ Len(suffix) < Len(host)
    /\ SubSeq(host, 1, Len(suffix)) = suffix

\* str::starts_with.
StartsWith(path, prefix) ==
    /\ Len(prefix) <= Len(path)
    /\ SubSeq(path, 1, Len(prefix)) = prefix

\* HostPattern::matches.
HostMatches(pattern, host) ==
    CASE pattern.kind = "exact" -> host = pattern.host
      [] pattern.kind = "sub"   -> StrictSubdomain(host, pattern.host)

Requests == [host : Hosts, path : Paths, method : MethodNames \X Cases]
Connects == [host : Hosts, port : Ports]

\* proxy_operation: a POST, spelled so, to a path that ends in an operation.
OperationOf(request) ==
    IF /\ request.method = <<"POST", "upper">>
       /\ request.path # <<>>
       /\ request.path[Len(request.path)] \in Operations
    THEN request.path[Len(request.path)]
    ELSE None

\* A dimension that is empty leaves the request's value free.
Admits(alternatives, matches(_)) ==
    alternatives = {} \/ \E a \in alternatives : matches(a)

\* http_matches; methods are compared without regard to case.
HttpMatches(m, request) ==
    /\ Admits(m.hosts, LAMBDA p : HostMatches(p, request.host))
    /\ Admits(m.paths, LAMBDA p : StartsWith(request.path, p))
    /\ Admits(m.methods, LAMBDA name : name = request.method[1])
    /\ Admits(m.operations, LAMBDA op : op = OperationOf(request))

\* The matcher in ForwardProxyState::connect_action.
ConnectMatches(m, connect) ==
    /\ Admits(m.hosts, LAMBDA p : HostMatches(p, connect.host))
    /\ Admits(m.ports, LAMBDA p : p = connect.port)

\* The first of the rules that matches, or 0.
First(rules, Matching(_)) ==
    IF \E k \in DOMAIN rules : Matching(rules[k].match)
    THEN CHOOSE k \in DOMAIN rules :
           /\ Matching(rules[k].match)
           /\ \A j \in 1..(k - 1) : ~Matching(rules[j].match)
    ELSE 0

\* ForwardProxyState::connect_action.
ConnectAction(connect) ==
    LET k == First(connects, LAMBDA m : ConnectMatches(m, connect))
    IN  IF k = 0 THEN listener.connect ELSE connects[k].action

\* ForwardProxyState::select_profile: a profile, or "reject".
HttpAction(request) ==
    LET k == First(bindings, LAMBDA m : HttpMatches(m, request))
    IN  IF k = 0 THEN listener.http ELSE bindings[k].action

-----------------------------------------------------------------------------
(* How the compiler compares rules. *)

\* Mutant of HostSubsumes: a wildcard covers only itself among wildcards.
HostSubsumesNarrow(p, q) ==
    CASE p.kind = q.kind -> p.host = q.host
      [] p.kind = "sub" /\ q.kind = "exact" -> StrictSubdomain(q.host, p.host)
      [] p.kind = "exact" /\ q.kind = "sub" -> FALSE

\* HostPattern::subsumes.
HostSubsumes(p, q) ==
    CASE p.kind = "exact" /\ q.kind = "exact" -> p.host = q.host
      [] p.kind = "sub" /\ q.kind = "exact" -> StrictSubdomain(q.host, p.host)
      [] p.kind = "sub" /\ q.kind = "sub" ->
           p.host = q.host \/ StrictSubdomain(q.host, p.host)
      [] p.kind = "exact" /\ q.kind = "sub" -> FALSE

\* dimension_subsumes: every alternative of the one is under one of the other.
DimSubsumes(covering, covered, subsumes(_, _)) ==
    \/ covering = {}
    \/ /\ covered # {}
       /\ \A c \in covered : \E a \in covering : subsumes(a, c)

\* The combinations all_atoms runs through: one alternative of each dimension,
\* or none of a dimension that is free.
Atoms(alternatives) ==
    IF alternatives = {} THEN {{}} ELSE {{a} : a \in alternatives}

\* dimension_subsumes_atom.
CoversAtom(covering, atom, subsumes(_, _)) ==
    \/ covering = {}
    \/ \E a \in covering, c \in atom : subsumes(a, c)

Same(a, b) == a = b
PrefixOf(a, b) == StartsWith(b, a)

\* HttpMatchKey::subsumes.
HttpSubsumes(m, n) ==
    /\ DimSubsumes(m.hosts, n.hosts, HostSubsumes)
    /\ DimSubsumes(m.paths, n.paths, PrefixOf)
    /\ DimSubsumes(m.methods, n.methods, Same)
    /\ DimSubsumes(m.operations, n.operations, Same)

\* Mutant of HttpUnionSubsumes: the operations are not compared.
HttpUnionAnyOperation(prior, m) ==
    \A host \in Atoms(m.hosts), path \in Atoms(m.paths), method \in Atoms(m.methods) :
         \E k \in DOMAIN prior :
            /\ CoversAtom(prior[k].match.hosts, host, HostSubsumes)
            /\ CoversAtom(prior[k].match.paths, path, PrefixOf)
            /\ CoversAtom(prior[k].match.methods, method, Same)

\* http_matchers_subsume_union.
HttpUnionSubsumes(prior, m) ==
    \A host \in Atoms(m.hosts), path \in Atoms(m.paths),
       method \in Atoms(m.methods), op \in Atoms(m.operations) :
         \E k \in DOMAIN prior :
            /\ CoversAtom(prior[k].match.hosts, host, HostSubsumes)
            /\ CoversAtom(prior[k].match.paths, path, PrefixOf)
            /\ CoversAtom(prior[k].match.methods, method, Same)
            /\ CoversAtom(prior[k].match.operations, op, Same)

\* ConnectMatchKey::subsumes.
ConnectSubsumes(m, n) ==
    /\ DimSubsumes(m.hosts, n.hosts, HostSubsumes)
    /\ DimSubsumes(m.ports, n.ports, Same)

\* Mutant of ConnectUnionSubsumes: each dimension may be covered by another rule.
ConnectUnionByParts(prior, m) ==
    \A host \in Atoms(m.hosts), port \in Atoms(m.ports) :
         /\ \E k \in DOMAIN prior : CoversAtom(prior[k].match.hosts, host, HostSubsumes)
         /\ \E k \in DOMAIN prior : CoversAtom(prior[k].match.ports, port, Same)

\* connect_matchers_subsume_union.
ConnectUnionSubsumes(prior, m) ==
    \A host \in Atoms(m.hosts), port \in Atoms(m.ports) :
         \E k \in DOMAIN prior :
            /\ CoversAtom(prior[k].match.hosts, host, HostSubsumes)
            /\ CoversAtom(prior[k].match.ports, port, Same)

\* compile_hosts and compile_path_prefixes refuse an alternative under another.
Redundant(alternatives, subsumes(_, _)) ==
    \E a, b \in alternatives : a # b /\ subsumes(a, b)

InvalidHost(p) == p.kind = "sub" /\ p.host \notin DnsHosts

\* The valid patterns and the ports that CONNECT rules may name.
NamedHosts == {p \in UNION {m.hosts : m \in RawConnectRules} : ~InvalidHost(p)}
NamedPorts == UNION {m.ports : m \in RawConnectRules}

(***************************************************************************)
(* The rules do not exhaust the hosts and ports there are: some host is    *)
(* under no pattern, a domain whose subdomains a pattern stands for has    *)
(* one, a label below it, that no pattern names, and some port is named by *)
(* no rule.                                                                *)
(***************************************************************************)
ASSUME RichAssumption ==
    /\ \E host \in Hosts : \A q \in NamedHosts : ~HostMatches(q, host)
    /\ \A p \in NamedHosts : p.kind = "sub" =>
          \E host \in DnsHosts : /\ StrictSubdomain(host, p.host)
                                /\ Len(host) = Len(p.host) + 1
                                /\ \A q \in NamedHosts : q.host # host
    /\ Ports \ NamedPorts # {}

\* Why compile_http_match refuses the dimensions of a binding, or None.
HttpMatchError(m) ==
    CASE \E p \in m.hosts : InvalidHost(p)        -> "invalid"
      [] Redundant(m.hosts, HostSubsumes)         -> "redundant"
      [] Redundant(m.paths, PrefixOf)             -> "redundant"
      [] m.hosts = {} /\ m.paths = {} /\ m.methods = {} /\ m.operations = {} -> "empty"
      [] OTHER                                    -> None

\* Mutant of ConnectMatchError: an alternative under another one is let through.
ConnectMatchErrorLoose(m) ==
    CASE \E p \in m.hosts : InvalidHost(p)        -> "invalid"
      [] m.hosts = {} /\ m.ports = {}             -> "empty"
      [] OTHER                                    -> None

\* Why compile_connect_match refuses the dimensions of a rule, or None.
ConnectMatchError(m) ==
    CASE \E p \in m.hosts : InvalidHost(p)        -> "invalid"
      [] Redundant(m.hosts, HostSubsumes)         -> "redundant"
      [] m.hosts = {} /\ m.ports = {}             -> "empty"
      [] OTHER                                    -> None

-----------------------------------------------------------------------------
(* compile_listeners, one rule at a time. *)

Init ==
    /\ bindings = <<>> /\ connects = <<>>
    /\ ids = {}
    /\ listener \in RawListeners
    /\ phase = "bindings"
    /\ refused = None

\* The configuration is refused: rule m, for this reason, with this much before it.
Refuse(m, why) ==
    /\ phase' = "refused"
    /\ refused' = [kind |-> phase, match |-> m, why |-> why]
    /\ UNCHANGED <<bindings, connects, ids, listener>>

\* Mutant of Claimed: an id may be given again.
ClaimedNever(id) == FALSE

\* claim_binding_id: bindings and CONNECT rules share their ids.
Claimed(id) == id \in ids

\* resolve_listener: the listener a rule names is this one, not a proxy, or missing.
Target == {"this", "api", "unknown"}

\* One of raw.bindings.
CompileBinding(id, target, m, action) ==
    /\ phase = "bindings"
    /\ Len(bindings) < MaxRules
    /\ IF Claimed(id)
       THEN Refuse(m, "duplicate")
       ELSE IF target # "this"
       THEN Refuse(m, "listener")
       ELSE IF HttpMatchError(m) # None
       THEN Refuse(m, HttpMatchError(m))
       ELSE IF \E k \in DOMAIN bindings : HttpSubsumes(bindings[k].match, m)
       THEN Refuse(m, "shadowed")
       ELSE IF HttpUnionSubsumes(bindings, m)
       THEN Refuse(m, "covered")
       ELSE IF action \notin Profiles \cup {"reject"}
       THEN Refuse(m, "unresolved")
       ELSE /\ bindings' = Append(bindings, [match |-> m, action |-> action])
            /\ ids' = ids \cup {id}
            /\ UNCHANGED <<connects, listener, phase, refused>>

BindingsDone ==
    /\ phase = "bindings"
    /\ phase' = "connects"
    /\ UNCHANGED <<bindings, connects, ids, listener, refused>>

\* One of raw.connect_rules.
CompileConnectRule(id, target, m, action) ==
    /\ phase = "connects"
    /\ Len(connects) < MaxRules
    /\ IF Claimed(id)
       THEN Refuse(m, "duplicate")
       ELSE IF target # "this"
       THEN Refuse(m, "listener")
       ELSE IF ConnectMatchError(m) # None
       THEN Refuse(m, ConnectMatchError(m))
       ELSE IF \E k \in DOMAIN connects : ConnectSubsumes(connects[k].match, m)
       THEN Refuse(m, "shadowed")
       ELSE IF ConnectUnionSubsumes(connects, m)
       THEN Refuse(m, "covered")
       ELSE /\ connects' = Append(connects, [match |-> m, action |-> action])
            /\ ids' = ids \cup {id}
            /\ UNCHANGED <<bindings, listener, phase, refused>>

\* Mutant of NeedsTls: only the rules are asked, not the default.
NeedsTlsRules == \E k \in DOMAIN connects : connects[k].action = "intercept"

\* The listener may come to intercept a CONNECT.
NeedsTls ==
    \/ listener.connect = "intercept"
    \/ \E k \in DOMAIN connects : connects[k].action = "intercept"

\* The plan is built, unless interception has no authority to sign with.
Finish ==
    /\ phase = "connects"
    /\ IF NeedsTls /\ ~listener.ca
       THEN Refuse(None, "no_ca")
       ELSE /\ phase' = "plan"
            /\ UNCHANGED <<bindings, connects, ids, listener, refused>>

Next ==
    \/ \E id \in Ids, target \in Target, m \in RawBindings,
          action \in Profiles \cup {"reject", None} :
            CompileBinding(id, target, m, action)
    \/ BindingsDone
    \/ \E id \in Ids, target \in Target, m \in RawConnectRules,
          action \in RawConnectActions :
            CompileConnectRule(id, target, m, action)
    \/ Finish

Spec == Init /\ [][Next]_vars

\* Mutant of BuiltProfiles: the default action's profile is not collected.
BuiltFromBindings ==
    ApiProfiles \cup ({bindings[k].action : k \in DOMAIN bindings} \ {"reject"})

\* build_profile_runtimes links the profiles some rule or mount can select.
BuiltProfiles ==
    ApiProfiles \cup (({listener.http} \cup {bindings[k].action : k \in DOMAIN bindings})
                        \ {"reject"})

-----------------------------------------------------------------------------
(* Properties. *)

TypeOK ==
    /\ \A k \in DOMAIN bindings :
          bindings[k].match \in HttpMatch /\ bindings[k].action \in Profiles \cup {"reject"}
    /\ \A k \in DOMAIN connects : connects[k].match \in ConnectMatch
    /\ Cardinality(ids) = Len(bindings) + Len(connects)
    /\ phase \in {"bindings", "connects", "plan", "refused"}
    /\ (phase = "refused") <=> (refused # None)

Unreachable == {"shadowed", "covered"}

(***************************************************************************)
(* A binding refused as unreachable is: every request it matches is        *)
(* matched by an earlier binding.                                          *)
(***************************************************************************)
HttpRefusalSound ==
    refused # None /\ phase = "refused" =>
        (refused.kind = "bindings" /\ refused.why \in Unreachable =>
            \A request \in Requests : HttpMatches(refused.match, request) =>
               \E k \in DOMAIN bindings : HttpMatches(bindings[k].match, request))

(***************************************************************************)
(* The same for CONNECT rules.                                             *)
(***************************************************************************)
ConnectRefusalSound ==
    refused # None /\ phase = "refused" =>
        (refused.kind = "connects" /\ refused.why \in Unreachable =>
            \A connect \in Connects : ConnectMatches(refused.match, connect) =>
               \E k \in DOMAIN connects : ConnectMatches(connects[k].match, connect))

(***************************************************************************)
(* The check is also complete for CONNECT rules: each rule of a plan is    *)
(* the first to match some CONNECT, as long as there are hosts and ports   *)
(* that no rule names (RichAssumption).                                    *)
(***************************************************************************)
ConnectReachable ==
    \A k \in DOMAIN connects : \E connect \in Connects :
        First(connects, LAMBDA m : ConnectMatches(m, connect)) = k

(***************************************************************************)
(* No alternative of a compiled rule's hosts can be left out without       *)
(* changing what the rule matches.                                         *)
(***************************************************************************)
NoAlternativeRedundant ==
    \A k \in DOMAIN connects : \A p \in connects[k].match.hosts :
        \E host \in Hosts :
            /\ HostMatches(p, host)
            /\ \A q \in connects[k].match.hosts \ {p} : ~HostMatches(q, host)

(***************************************************************************)
(* A plan never decides to intercept without an authority to sign with.    *)
(***************************************************************************)
InterceptHasCa ==
    phase = "plan" => \A connect \in Connects :
        ConnectAction(connect) = "intercept" => listener.ca

(***************************************************************************)
(* A request is rejected or goes to a profile whose runtime was built,     *)
(* whichever binding or default it falls to.                               *)
(***************************************************************************)
ProfileBuilt ==
    phase = "plan" => \A request \in Requests :
        HttpAction(request) \in BuiltProfiles \cup {"reject"}

(***************************************************************************)
(* A rule that the compiler refuses as unreachable is: every request or    *)
(* CONNECT it matches is matched by an earlier rule                        *)
(* (http_matchers_subsume_union, connect_matchers_subsume_union).          *)
(***************************************************************************)
RefusalSound == HttpRefusalSound /\ ConnectRefusalSound

(***************************************************************************)
(* What the compiler keeps can be served: each CONNECT rule decides some   *)
(* CONNECT and no alternative of its hosts is superfluous, interception    *)
(* has an authority, and every request finds the runtime of its profile    *)
(* (compile_listeners, build_profile_runtimes).                            *)
(***************************************************************************)
PlanSound ==
    TypeOK /\ ConnectReachable /\ NoAlternativeRedundant /\ InterceptHasCa /\ ProfileBuilt

=============================================================================
