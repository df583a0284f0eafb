------------------------ MODULE ListenerPolicyProofs ------------------------
(***************************************************************************)
(* The compiler's check of unreachable rules is sound, whatever the hosts, *)
(* paths, methods, operations, ports and rules are: the comparison of the  *)
(* rules' text implies that of the requests they match.                    *)
(***************************************************************************)
EXTENDS ListenerPolicy, FiniteSetTheorems, WellFoundedInduction, TLAPS

\* A prefix of a prefix is a prefix (str::starts_with, and labels of a host).
LEMMA PrefixTransitive ==
    ASSUME NEW r \in Seq(STRING), NEW s \in Seq(STRING), NEW t \in Seq(STRING),
           Len(t) <= Len(s), SubSeq(s, 1, Len(t)) = t,
           Len(s) <= Len(r), SubSeq(r, 1, Len(s)) = s
    PROVE  SubSeq(r, 1, Len(t)) = t
<1>1. \A i \in 1..Len(t) : t[i] = s[i]
  OBVIOUS
<1>2. \A i \in 1..Len(t) : s[i] = r[i]
  OBVIOUS
<1>3. \A i \in 1..Len(t) : SubSeq(r, 1, Len(t))[i] = t[i]
  BY <1>1, <1>2
<1>4. Len(SubSeq(r, 1, Len(t))) = Len(t)
  OBVIOUS
<1>5. SubSeq(r, 1, Len(t)) \in Seq(STRING)
  OBVIOUS
<1> QED
  BY <1>3, <1>4, <1>5

\* HostPattern::subsumes is sound: what the narrower pattern matches, the wider
\* one matches.
LEMMA HostSubsumesSound ==
    ASSUME NEW p \in HostPattern, NEW q \in HostPattern, NEW h \in Hosts,
           HostSubsumes(p, q), HostMatches(q, h)
    PROVE  HostMatches(p, h)
<1>1. CASE p.kind = "exact" /\ q.kind = "exact"
  BY <1>1 DEF HostSubsumes, HostMatches, HostPattern
<1>2. CASE p.kind = "sub" /\ q.kind = "exact"
  BY <1>2 DEF HostSubsumes, HostMatches, HostPattern
<1>3. CASE p.kind = "sub" /\ q.kind = "sub"
  <2>1. p.host = q.host \/ StrictSubdomain(q.host, p.host)
    BY <1>3 DEF HostSubsumes
  <2>2. StrictSubdomain(h, q.host)
    BY <1>3 DEF HostMatches
  <2>3. CASE p.host = q.host
    BY <1>3, <2>2, <2>3 DEF HostMatches
  <2>4. CASE StrictSubdomain(q.host, p.host)
    <3>1. /\ h \in Seq(STRING) /\ q.host \in Seq(STRING) /\ p.host \in Seq(STRING)
          /\ h \in DnsHosts /\ p.host \in DnsHosts
      BY <2>2, <2>4, PolicyAssumption DEF StrictSubdomain
    <3>2. /\ Len(p.host) < Len(q.host) /\ SubSeq(q.host, 1, Len(p.host)) = p.host
          /\ Len(q.host) < Len(h) /\ SubSeq(h, 1, Len(q.host)) = q.host
      BY <2>2, <2>4 DEF StrictSubdomain
    <3>3. /\ Len(p.host) \in Nat /\ Len(q.host) \in Nat /\ Len(h) \in Nat
      BY <3>1
    <3>4. /\ Len(p.host) <= Len(q.host) /\ Len(q.host) <= Len(h) /\ Len(p.host) < Len(h)
      BY <3>2, <3>3
    <3>5. SubSeq(h, 1, Len(p.host)) = p.host
      BY <3>1, <3>2, <3>4, PrefixTransitive
    <3> QED
      BY <1>3, <3>1, <3>4, <3>5 DEF HostMatches, StrictSubdomain
  <2> QED
    BY <2>1, <2>3, <2>4
<1>4. CASE p.kind = "exact" /\ q.kind = "sub"
  BY <1>4 DEF HostSubsumes
<1> QED
  BY <1>1, <1>2, <1>3, <1>4 DEF HostPattern

\* A path under a longer prefix is under the shorter one.
LEMMA PrefixSound ==
    ASSUME NEW a \in Paths, NEW c \in Paths, NEW path \in Paths,
           PrefixOf(a, c), StartsWith(path, c)
    PROVE  StartsWith(path, a)
<1>1. a \in Seq(STRING) /\ c \in Seq(STRING) /\ path \in Seq(STRING)
  BY PolicyAssumption
<1>2. Len(a) \in Nat /\ Len(c) \in Nat /\ Len(path) \in Nat
  BY <1>1
<1>3. /\ Len(a) <= Len(c) /\ SubSeq(c, 1, Len(a)) = a
      /\ Len(c) <= Len(path) /\ SubSeq(path, 1, Len(c)) = c
  BY DEF PrefixOf, StartsWith
<1>4. SubSeq(path, 1, Len(a)) = a
  BY <1>1, <1>3, PrefixTransitive
<1> QED
  BY <1>2, <1>3, <1>4 DEF StartsWith

-----------------------------------------------------------------------------
(* Dimensions. *)

HostAdmits(C, h) == Admits(C, LAMBDA p : HostMatches(p, h))
PathAdmits(C, path) == Admits(C, LAMBDA p : StartsWith(path, p))
ValueAdmits(C, v) == Admits(C, LAMBDA x : x = v)

\* The atom of a dimension that a request's host falls under: whatever covers it
\* admits the host.
LEMMA HostAtom ==
    ASSUME NEW D \in SUBSET HostPattern, NEW h \in Hosts, HostAdmits(D, h)
    PROVE  \E atom \in Atoms(D) : \A C \in SUBSET HostPattern :
              CoversAtom(C, atom, HostSubsumes) => HostAdmits(C, h)
<1>1. CASE D = {}
  BY <1>1 DEF Atoms, CoversAtom, HostAdmits, Admits
<1>2. CASE D # {}
  <2>1. PICK q \in D : HostMatches(q, h)
    BY <1>2 DEF HostAdmits, Admits
  <2>2. {q} \in Atoms(D)
    BY <1>2 DEF Atoms
  <2>3. ASSUME NEW C \in SUBSET HostPattern, CoversAtom(C, {q}, HostSubsumes)
        PROVE  HostAdmits(C, h)
    <3>1. CASE C = {}
      BY <3>1 DEF HostAdmits, Admits
    <3>2. CASE C # {}
      <4>1. PICK p \in C : HostSubsumes(p, q)
        BY <2>3, <3>2 DEF CoversAtom
      <4>2. HostMatches(p, h)
        BY <2>1, <4>1, HostSubsumesSound
      <4> QED
        BY <4>2 DEF HostAdmits, Admits
    <3> QED
      BY <3>1, <3>2
  <2> QED
    BY <2>2, <2>3
<1> QED
  BY <1>1, <1>2

\* The same for path prefixes.
LEMMA PathAtom ==
    ASSUME NEW D \in SUBSET Paths, NEW path \in Paths, PathAdmits(D, path)
    PROVE  \E atom \in Atoms(D) : \A C \in SUBSET Paths :
              CoversAtom(C, atom, PrefixOf) => PathAdmits(C, path)
<1>1. CASE D = {}
  BY <1>1 DEF Atoms, CoversAtom, PathAdmits, Admits
<1>2. CASE D # {}
  <2>1. PICK q \in D : StartsWith(path, q)
    BY <1>2 DEF PathAdmits, Admits
  <2>2. {q} \in Atoms(D)
    BY <1>2 DEF Atoms
  <2>3. ASSUME NEW C \in SUBSET Paths, CoversAtom(C, {q}, PrefixOf)
        PROVE  PathAdmits(C, path)
    <3>1. CASE C = {}
      BY <3>1 DEF PathAdmits, Admits
    <3>2. CASE C # {}
      <4>1. PICK p \in C : PrefixOf(p, q)
        BY <2>3, <3>2 DEF CoversAtom
      <4>2. StartsWith(path, p)
        BY <2>1, <4>1, PrefixSound
      <4> QED
        BY <4>2 DEF PathAdmits, Admits
    <3> QED
      BY <3>1, <3>2
  <2> QED
    BY <2>2, <2>3
<1> QED
  BY <1>1, <1>2

\* The same for dimensions whose values are compared for equality.
LEMMA ValueAtom ==
    ASSUME NEW D, NEW v, ValueAdmits(D, v)
    PROVE  \E atom \in Atoms(D) : \A C :
              CoversAtom(C, atom, Same) => ValueAdmits(C, v)
<1>1. CASE D = {}
  BY <1>1 DEF Atoms, CoversAtom, ValueAdmits, Admits
<1>2. CASE D # {}
  <2>1. v \in D
    BY <1>2 DEF ValueAdmits, Admits
  <2>2. {v} \in Atoms(D)
    BY <1>2, <2>1 DEF Atoms
  <2>3. \A C : CoversAtom(C, {v}, Same) => ValueAdmits(C, v)
    BY DEF CoversAtom, Same, ValueAdmits, Admits
  <2> QED
    BY <2>2, <2>3
<1> QED
  BY <1>1, <1>2

\* A dimension that subsumes another covers each of its atoms.
LEMMA SubsumesCoversHosts ==
    ASSUME NEW C, NEW D, DimSubsumes(C, D, HostSubsumes), NEW atom \in Atoms(D)
    PROVE  CoversAtom(C, atom, HostSubsumes)
BY DEF DimSubsumes, Atoms, CoversAtom

LEMMA SubsumesCoversPaths ==
    ASSUME NEW C, NEW D, DimSubsumes(C, D, PrefixOf), NEW atom \in Atoms(D)
    PROVE  CoversAtom(C, atom, PrefixOf)
BY DEF DimSubsumes, Atoms, CoversAtom

LEMMA SubsumesCoversValues ==
    ASSUME NEW C, NEW D, DimSubsumes(C, D, Same), NEW atom \in Atoms(D)
    PROVE  CoversAtom(C, atom, Same)
BY DEF DimSubsumes, Atoms, CoversAtom

-----------------------------------------------------------------------------
(* Rules. *)

Bindings == Seq([match : HttpMatch, action : Profiles \cup {"reject"}])
Rules    == Seq([match : ConnectMatch, action : ConnectActions])

LEMMA ElementIn ==
    ASSUME NEW S, NEW s \in Seq(S), NEW k \in DOMAIN s
    PROVE  s[k] \in S
OBVIOUS

\* What an earlier binding subsumes is also covered by the earlier bindings together.
LEMMA ShadowedIsCovered ==
    ASSUME NEW prior \in Bindings, NEW m \in HttpMatch, NEW k \in DOMAIN prior,
           HttpSubsumes(prior[k].match, m)
    PROVE  HttpUnionSubsumes(prior, m)
<1> SUFFICES ASSUME NEW host \in Atoms(m.hosts), NEW path \in Atoms(m.paths),
                    NEW method \in Atoms(m.methods), NEW op \in Atoms(m.operations)
             PROVE  /\ CoversAtom(prior[k].match.hosts, host, HostSubsumes)
                    /\ CoversAtom(prior[k].match.paths, path, PrefixOf)
                    /\ CoversAtom(prior[k].match.methods, method, Same)
                    /\ CoversAtom(prior[k].match.operations, op, Same)
  BY DEF HttpUnionSubsumes
<1>1. /\ DimSubsumes(prior[k].match.hosts, m.hosts, HostSubsumes)
      /\ DimSubsumes(prior[k].match.paths, m.paths, PrefixOf)
      /\ DimSubsumes(prior[k].match.methods, m.methods, Same)
      /\ DimSubsumes(prior[k].match.operations, m.operations, Same)
  BY DEF HttpSubsumes
<1> QED
  BY <1>1, SubsumesCoversHosts, SubsumesCoversPaths, SubsumesCoversValues

\* Every request of a covered binding is matched by an earlier one.
LEMMA CoveredIsUnreachable ==
    ASSUME NEW prior \in Bindings, NEW m \in HttpMatch, HttpUnionSubsumes(prior, m),
           NEW request \in Requests, HttpMatches(m, request)
    PROVE  \E k \in DOMAIN prior : HttpMatches(prior[k].match, request)
<1> DEFINE opn == OperationOf(request)
<1>1. /\ HostAdmits(m.hosts, request.host) /\ PathAdmits(m.paths, request.path)
      /\ ValueAdmits(m.methods, request.method[1]) /\ ValueAdmits(m.operations, opn)
  BY DEF HttpMatches, HostAdmits, PathAdmits, ValueAdmits
<1>2. /\ m.hosts \in SUBSET HostPattern /\ m.paths \in SUBSET Paths
      /\ request.host \in Hosts /\ request.path \in Paths
  BY DEF HttpMatch, Requests
<1>3. PICK host \in Atoms(m.hosts) : \A C \in SUBSET HostPattern :
              CoversAtom(C, host, HostSubsumes) => HostAdmits(C, request.host)
  BY <1>1, <1>2, HostAtom
<1>4. PICK path \in Atoms(m.paths) : \A C \in SUBSET Paths :
              CoversAtom(C, path, PrefixOf) => PathAdmits(C, request.path)
  BY <1>1, <1>2, PathAtom
<1>5. PICK method \in Atoms(m.methods) : \A C :
              CoversAtom(C, method, Same) => ValueAdmits(C, request.method[1])
  BY <1>1, ValueAtom
<1>6. PICK op \in Atoms(m.operations) : \A C :
              CoversAtom(C, op, Same) => ValueAdmits(C, opn)
  BY <1>1, ValueAtom
<1>7. PICK k \in DOMAIN prior :
            /\ CoversAtom(prior[k].match.hosts, host, HostSubsumes)
            /\ CoversAtom(prior[k].match.paths, path, PrefixOf)
            /\ CoversAtom(prior[k].match.methods, method, Same)
            /\ CoversAtom(prior[k].match.operations, op, Same)
  BY DEF HttpUnionSubsumes
<1>8. prior[k].match \in HttpMatch
  <2>1. prior[k] \in [match : HttpMatch, action : Profiles \cup {"reject"}]
    BY ElementIn DEF Bindings
  <2> QED
    BY <2>1
<1>9. prior[k].match.hosts \in SUBSET HostPattern /\ prior[k].match.paths \in SUBSET Paths
  BY <1>8 DEF HttpMatch
<1>10. /\ HostAdmits(prior[k].match.hosts, request.host)
       /\ PathAdmits(prior[k].match.paths, request.path)
       /\ ValueAdmits(prior[k].match.methods, request.method[1])
       /\ ValueAdmits(prior[k].match.operations, opn)
  BY <1>3, <1>4, <1>5, <1>6, <1>7, <1>9
<1>11. HttpMatches(prior[k].match, request)
  BY <1>10 DEF HttpMatches, HostAdmits, PathAdmits, ValueAdmits
<1> QED
  BY <1>11

LEMMA ConnectShadowedIsCovered ==
    ASSUME NEW prior \in Rules, NEW m \in ConnectMatch, NEW k \in DOMAIN prior,
           ConnectSubsumes(prior[k].match, m)
    PROVE  ConnectUnionSubsumes(prior, m)
<1> SUFFICES ASSUME NEW host \in Atoms(m.hosts), NEW port \in Atoms(m.ports)
             PROVE  /\ CoversAtom(prior[k].match.hosts, host, HostSubsumes)
                    /\ CoversAtom(prior[k].match.ports, port, Same)
  BY DEF ConnectUnionSubsumes
<1>1. /\ DimSubsumes(prior[k].match.hosts, m.hosts, HostSubsumes)
      /\ DimSubsumes(prior[k].match.ports, m.ports, Same)
  BY DEF ConnectSubsumes
<1> QED
  BY <1>1, SubsumesCoversHosts, SubsumesCoversValues

\* Every CONNECT of a covered rule is matched by an earlier one.
LEMMA ConnectCoveredIsUnreachable ==
    ASSUME NEW prior \in Rules, NEW m \in ConnectMatch, ConnectUnionSubsumes(prior, m),
           NEW connect \in Connects, ConnectMatches(m, connect)
    PROVE  \E k \in DOMAIN prior : ConnectMatches(prior[k].match, connect)
<1>1. HostAdmits(m.hosts, connect.host) /\ ValueAdmits(m.ports, connect.port)
  BY DEF ConnectMatches, HostAdmits, ValueAdmits
<1>2. m.hosts \in SUBSET HostPattern /\ connect.host \in Hosts
  BY DEF ConnectMatch, Connects
<1>3. PICK host \in Atoms(m.hosts) : \A C \in SUBSET HostPattern :
              CoversAtom(C, host, HostSubsumes) => HostAdmits(C, connect.host)
  BY <1>1, <1>2, HostAtom
<1>4. PICK port \in Atoms(m.ports) : \A C :
              CoversAtom(C, port, Same) => ValueAdmits(C, connect.port)
  BY <1>1, ValueAtom
<1>5. PICK k \in DOMAIN prior :
            /\ CoversAtom(prior[k].match.hosts, host, HostSubsumes)
            /\ CoversAtom(prior[k].match.ports, port, Same)
  BY DEF ConnectUnionSubsumes
<1>6. prior[k].match \in ConnectMatch
  <2>1. prior[k] \in [match : ConnectMatch, action : ConnectActions]
    BY ElementIn DEF Rules
  <2> QED
    BY <2>1
<1>7. prior[k].match.hosts \in SUBSET HostPattern
  BY <1>6 DEF ConnectMatch
<1>8. /\ HostAdmits(prior[k].match.hosts, connect.host)
      /\ ValueAdmits(prior[k].match.ports, connect.port)
  BY <1>3, <1>4, <1>5, <1>7
<1>9. ConnectMatches(prior[k].match, connect)
  BY <1>8 DEF ConnectMatches, HostAdmits, ValueAdmits
<1> QED
  BY <1>9

-----------------------------------------------------------------------------
(* The compiler. *)

Typed ==
    /\ bindings \in Bindings
    /\ connects \in Rules
    /\ phase \in {"bindings", "connects", "plan", "refused"}

\* A refusal as unreachable was made by the union check, or by the check of one
\* earlier rule, and the rules before it are still those.
Sound ==
    phase = "refused" =>
        /\ refused.kind = "bindings" /\ refused.why \in Unreachable =>
             refused.match \in HttpMatch /\ HttpUnionSubsumes(bindings, refused.match)
        /\ refused.kind = "connects" /\ refused.why \in Unreachable =>
             refused.match \in ConnectMatch /\ ConnectUnionSubsumes(connects, refused.match)

IInv == Typed /\ Sound

LEMMA InitIInv == Init => IInv
<1> SUFFICES ASSUME Init PROVE IInv
  OBVIOUS
<1>1. Typed
  BY DEF Init, Typed, Bindings, Rules
<1>2. Sound
  BY DEF Init, Sound
<1> QED
  BY <1>1, <1>2 DEF IInv

LEMMA BindingStep ==
    ASSUME IInv, NEW id \in Ids, NEW target \in Target, NEW m \in RawBindings,
           NEW action \in Profiles \cup {"reject", None},
           CompileBinding(id, target, m, action)
    PROVE  IInv'
<1>1. m \in HttpMatch
  BY PolicyAssumption
<1>2. ASSUME NEW why, Refuse(m, why), why \in Unreachable => HttpUnionSubsumes(bindings, m)
      PROVE  IInv'
  <2>1. Typed'
    BY <1>2 DEF IInv, Typed, Refuse
  <2>2. /\ refused'.kind = "bindings" /\ refused'.match = m /\ refused'.why = why
        /\ bindings' = bindings
    BY <1>2 DEF Refuse, CompileBinding
  <2>3. Sound'
    BY <1>1, <1>2, <2>2 DEF Sound
  <2> QED
    BY <2>1, <2>3 DEF IInv
<1>3. ASSUME Refuse(m, "duplicate") \/ Refuse(m, "listener") \/ Refuse(m, "unresolved")
      PROVE  IInv'
  BY <1>2, <1>3 DEF Unreachable
<1>4. ASSUME HttpMatchError(m) # None, Refuse(m, HttpMatchError(m))
      PROVE  IInv'
  <2>1. HttpMatchError(m) \notin Unreachable
    BY <1>4 DEF HttpMatchError, Unreachable
  <2> QED
    BY <1>2, <1>4, <2>1
<1>5. ASSUME NEW k \in DOMAIN bindings, HttpSubsumes(bindings[k].match, m),
             Refuse(m, "shadowed")
      PROVE  IInv'
  <2>1. HttpUnionSubsumes(bindings, m)
    BY <1>1, <1>5, ShadowedIsCovered DEF IInv, Typed
  <2> QED
    BY <1>2, <1>5, <2>1
<1>6. ASSUME HttpUnionSubsumes(bindings, m), Refuse(m, "covered")
      PROVE  IInv'
  BY <1>2, <1>6
<1>7. ASSUME action \in Profiles \cup {"reject"},
             bindings' = Append(bindings, [match |-> m, action |-> action]),
             UNCHANGED <<connects, phase>>
      PROVE  IInv'
  <2>1. [match |-> m, action |-> action] \in [match : HttpMatch, action : Profiles \cup {"reject"}]
    BY <1>1, <1>7
  <2>2. bindings' \in Bindings
    BY <1>7, <2>1 DEF IInv, Typed, Bindings
  <2>3. phase = "bindings"
    BY DEF CompileBinding
  <2> QED
    BY <1>7, <2>2, <2>3 DEF IInv, Typed, Sound
<1> QED
  BY <1>3, <1>4, <1>5, <1>6, <1>7 DEF CompileBinding

LEMMA ConnectRuleStep ==
    ASSUME IInv, NEW id \in Ids, NEW target \in Target, NEW m \in RawConnectRules,
           NEW action \in RawConnectActions,
           CompileConnectRule(id, target, m, action)
    PROVE  IInv'
<1>1. m \in ConnectMatch /\ action \in ConnectActions
  BY PolicyAssumption
<1>2. ASSUME NEW why, Refuse(m, why), why \in Unreachable => ConnectUnionSubsumes(connects, m)
      PROVE  IInv'
  <2>1. Typed'
    BY <1>2 DEF IInv, Typed, Refuse
  <2>2. /\ refused'.kind = "connects" /\ refused'.match = m /\ refused'.why = why
        /\ connects' = connects
    BY <1>2 DEF Refuse, CompileConnectRule
  <2>3. Sound'
    BY <1>1, <1>2, <2>2 DEF Sound
  <2> QED
    BY <2>1, <2>3 DEF IInv
<1>3. ASSUME Refuse(m, "duplicate") \/ Refuse(m, "listener")
      PROVE  IInv'
  BY <1>2, <1>3 DEF Unreachable
<1>4. ASSUME ConnectMatchError(m) # None, Refuse(m, ConnectMatchError(m))
      PROVE  IInv'
  <2>1. ConnectMatchError(m) \notin Unreachable
    BY <1>4 DEF ConnectMatchError, Unreachable
  <2> QED
    BY <1>2, <1>4, <2>1
<1>5. ASSUME NEW k \in DOMAIN connects, ConnectSubsumes(connects[k].match, m),
             Refuse(m, "shadowed")
      PROVE  IInv'
  <2>1. ConnectUnionSubsumes(connects, m)
    BY <1>1, <1>5, ConnectShadowedIsCovered DEF IInv, Typed
  <2> QED
    BY <1>2, <1>5, <2>1
<1>6. ASSUME ConnectUnionSubsumes(connects, m), Refuse(m, "covered")
      PROVE  IInv'
  BY <1>2, <1>6
<1>7. ASSUME connects' = Append(connects, [match |-> m, action |-> action]),
             UNCHANGED <<bindings, phase>>
      PROVE  IInv'
  <2>1. [match |-> m, action |-> action] \in [match : ConnectMatch, action : ConnectActions]
    BY <1>1
  <2>2. connects' \in Rules
    BY <1>7, <2>1 DEF IInv, Typed, Rules
  <2>3. phase = "connects"
    BY DEF CompileConnectRule
  <2> QED
    BY <1>7, <2>2, <2>3 DEF IInv, Typed, Sound
<1> QED
  BY <1>3, <1>4, <1>5, <1>6, <1>7 DEF CompileConnectRule

LEMMA FinishStep ==
    ASSUME IInv, Finish
    PROVE  IInv'
<1>1. CASE Refuse(None, "no_ca")
  <2>1. Typed'
    BY <1>1 DEF IInv, Typed, Refuse
  <2>2. refused'.why \notin Unreachable
    BY <1>1 DEF Refuse, Unreachable
  <2> QED
    BY <2>1, <2>2 DEF IInv, Sound
<1>2. CASE phase' = "plan" /\ UNCHANGED <<bindings, connects>>
  BY <1>2 DEF IInv, Typed, Sound
<1> QED
  BY <1>1, <1>2 DEF Finish

LEMMA NextIInv == IInv /\ [Next]_vars => IInv'
<1> SUFFICES ASSUME IInv, [Next]_vars PROVE IInv'
  OBVIOUS
<1>1. ASSUME NEW id \in Ids, NEW target \in Target, NEW m \in RawBindings,
             NEW action \in Profiles \cup {"reject", None},
             CompileBinding(id, target, m, action)
      PROVE  IInv'
  BY <1>1, BindingStep
<1>2. CASE BindingsDone
  BY <1>2 DEF BindingsDone, IInv, Typed, Sound
<1>3. ASSUME NEW id \in Ids, NEW target \in Target, NEW m \in RawConnectRules,
             NEW action \in RawConnectActions,
             CompileConnectRule(id, target, m, action)
      PROVE  IInv'
  BY <1>3, ConnectRuleStep
<1>4. CASE Finish
  BY <1>4, FinishStep
<1>5. CASE UNCHANGED vars
  BY <1>5 DEF vars, IInv, Typed, Sound
<1> QED
  BY <1>1, <1>2, <1>3, <1>4, <1>5 DEF Next

LEMMA InvariantHolds == Spec => []IInv
<1>1. Init => IInv
  BY InitIInv
<1>2. IInv /\ [Next]_vars => IInv'
  BY NextIInv
<1> QED
  BY <1>1, <1>2, PTL DEF Spec

(***************************************************************************)
(* A binding the compiler refuses as unreachable is unreachable, for any   *)
(* hosts, paths, methods, operations and rules: compile_listeners never    *)
(* turns down a configuration whose rule would have decided some request.  *)
(***************************************************************************)
THEOREM HttpRefusalIsSound == Spec => []HttpRefusalSound
<1>1. IInv => HttpRefusalSound
  <2> SUFFICES ASSUME IInv, phase = "refused", refused.kind = "bindings",
                      refused.why \in Unreachable, NEW request \in Requests,
                      HttpMatches(refused.match, request)
               PROVE  \E k \in DOMAIN bindings : HttpMatches(bindings[k].match, request)
    BY DEF HttpRefusalSound
  <2>1. /\ bindings \in Bindings /\ refused.match \in HttpMatch
        /\ HttpUnionSubsumes(bindings, refused.match)
    BY DEF IInv, Typed, Sound
  <2> QED
    BY <2>1, CoveredIsUnreachable
<1> QED
  BY <1>1, InvariantHolds, PTL

(***************************************************************************)
(* The same for CONNECT rules.                                             *)
(***************************************************************************)
THEOREM ConnectRefusalIsSound == Spec => []ConnectRefusalSound
<1>1. IInv => ConnectRefusalSound
  <2> SUFFICES ASSUME IInv, phase = "refused", refused.kind = "connects",
                      refused.why \in Unreachable, NEW connect \in Connects,
                      ConnectMatches(refused.match, connect)
               PROVE  \E k \in DOMAIN connects : ConnectMatches(connects[k].match, connect)
    BY DEF ConnectRefusalSound
  <2>1. /\ connects \in Rules /\ refused.match \in ConnectMatch
        /\ ConnectUnionSubsumes(connects, refused.match)
    BY DEF IInv, Typed, Sound
  <2> QED
    BY <2>1, ConnectCoveredIsUnreachable
<1> QED
  BY <1>1, InvariantHolds, PTL

(***************************************************************************)
(* Refusals are sound for any hosts, paths, ports, methods, operations and *)
(* rules.                                                                  *)
(***************************************************************************)
THEOREM RefusalIsSound == Spec => []RefusalSound
<1>1. HttpRefusalSound /\ ConnectRefusalSound => RefusalSound
  BY DEF RefusalSound
<1> QED
  BY <1>1, HttpRefusalIsSound, ConnectRefusalIsSound, PTL

-----------------------------------------------------------------------------
(* What the compiler keeps. *)

\* A nonempty set of positions has a first one.
LEMMA FirstOf ==
    ASSUME NEW n \in Nat, NEW K \in SUBSET (1..n), K # {}
    PROVE  \E k \in K : \A j \in 1..(k - 1) : j \notin K
<1>1. K \subseteq Nat
  OBVIOUS
<1>2. PICK k \in K : \A j \in K : ~(<<j, k>> \in OpToRel(<, Nat))
  BY <1>1, WFMin, NatLessThanWellFounded
<1>3. ASSUME NEW j \in 1..(k - 1) PROVE j \notin K
  <2>1. j \in Nat /\ k \in Nat /\ j < k
    BY <1>1
  <2>2. <<j, k>> \in OpToRel(<, Nat)
    BY <2>1 DEF OpToRel
  <2> QED
    BY <1>2, <2>2
<1> QED
  BY <1>3

\* The compiler's kept CONNECT rules: valid, and each the first for some CONNECT.
Decides(rules, k) ==
    \E connect \in Connects :
        /\ ConnectMatches(rules[k].match, connect)
        /\ \A j \in 1..(k - 1) : ~ConnectMatches(rules[j].match, connect)

Counted ==
    /\ IsFiniteSet(ids)
    /\ Cardinality(ids) = Len(bindings) + Len(connects)

KeptInv ==
    /\ \A k \in DOMAIN connects :
          /\ connects[k].match \in RawConnectRules
          /\ ConnectMatchError(connects[k].match) = None
          /\ Decides(connects, k)
    /\ Counted
    /\ (phase = "refused") <=> (refused # None)
    /\ phase = "plan" /\ NeedsTls => listener.ca

\* What it means that the compiler finds no fault with a CONNECT rule.
LEMMA NoError ==
    ASSUME NEW m, ConnectMatchError(m) = None
    PROVE  (\A p \in m.hosts : ~InvalidHost(p)) /\ ~Redundant(m.hosts, HostSubsumes)
<1>1. None # "invalid" /\ None # "redundant"
  BY PolicyAssumption DEF Reasons
<1>2. \A p \in m.hosts : ~InvalidHost(p)
  BY <1>1 DEF ConnectMatchError
<1>3. ASSUME Redundant(m.hosts, HostSubsumes) PROVE FALSE
  <2>1. ConnectMatchError(m) = "redundant"
    <3>1. m.hosts # {}
      BY <1>3 DEF Redundant
    <3> QED
      BY <1>2, <1>3, <3>1 DEF ConnectMatchError
  <2> QED
    BY <1>1, <2>1
<1> QED
  BY <1>2, <1>3

\* The hosts of such a rule are named by it.
LEMMA NamedBy ==
    ASSUME NEW m \in RawConnectRules, ConnectMatchError(m) = None
    PROVE  m.hosts \subseteq NamedHosts /\ m.ports \subseteq NamedPorts
<1>1. \A p \in m.hosts : ~InvalidHost(p)
  BY NoError
<1> QED
  BY <1>1 DEF NamedHosts, NamedPorts

\* Of two domains above a host, one is the other's or they are the same.
LEMMA SuffixesAgree ==
    ASSUME NEW host \in Seq(STRING), NEW d \in Seq(STRING), NEW e \in Seq(STRING),
           Len(d) <= Len(host), SubSeq(host, 1, Len(d)) = d,
           Len(e) <= Len(d), SubSeq(host, 1, Len(e)) = e
    PROVE  SubSeq(d, 1, Len(e)) = e
<1> DEFINE f == SubSeq(d, 1, Len(e))
<1>1. Len(host) \in Nat /\ Len(d) \in Nat /\ Len(e) \in Nat
  OBVIOUS
<1>2. \A i \in 1..Len(e) : d[i] = host[i] /\ e[i] = host[i] /\ f[i] = d[i]
  BY <1>1
<1>3. f \in Seq(STRING) /\ Len(f) = Len(e)
  BY <1>1
<1> HIDE DEF f
<1>4. f = e
  BY <1>1, <1>2, <1>3
<1> QED
  BY <1>4 DEF f

\* A host that a pattern matches, and only the patterns that are above that one.
LEMMA HostOfPattern ==
    ASSUME NEW p \in NamedHosts
    PROVE  \E host \in Hosts :
              /\ HostMatches(p, host)
              /\ \A q \in NamedHosts : HostMatches(q, host) => HostSubsumes(q, p)
<1>1. \A q \in NamedHosts : q.kind \in {"exact", "sub"} /\ q.host \in Hosts
                            /\ (q.kind = "sub" => q.host \in DnsHosts)
  BY PolicyAssumption DEF NamedHosts, ConnectMatch, HostPattern, InvalidHost
<1>2. CASE p.kind = "exact"
  <2>1. HostMatches(p, p.host) /\ p.host \in Hosts
    BY <1>1, <1>2 DEF HostMatches
  <2>2. \A q \in NamedHosts : HostMatches(q, p.host) => HostSubsumes(q, p)
    BY <1>1, <1>2 DEF HostMatches, HostSubsumes
  <2> QED
    BY <2>1, <2>2
<1>3. CASE p.kind = "sub"
  <2>1. PICK host \in DnsHosts : /\ StrictSubdomain(host, p.host)
                                 /\ Len(host) = Len(p.host) + 1
                                 /\ \A q \in NamedHosts : q.host # host
    BY <1>3, RichAssumption
  <2>2. host \in Hosts /\ HostMatches(p, host)
    BY <1>3, <2>1 DEF Hosts, HostMatches
  <2>3. ASSUME NEW q \in NamedHosts, HostMatches(q, host)
        PROVE  HostSubsumes(q, p)
    <3>1. q.kind = "sub" /\ StrictSubdomain(host, q.host)
      BY <1>1, <2>1, <2>3 DEF HostMatches
    <3>2. host \in Seq(STRING) /\ p.host \in Seq(STRING) /\ q.host \in Seq(STRING)
      BY <1>1, <1>3, <3>1, PolicyAssumption
    <3>3. /\ Len(q.host) < Len(host) /\ SubSeq(host, 1, Len(q.host)) = q.host
          /\ Len(p.host) < Len(host) /\ SubSeq(host, 1, Len(p.host)) = p.host
      BY <2>1, <3>1 DEF StrictSubdomain
    <3>4. Len(host) \in Nat /\ Len(p.host) \in Nat /\ Len(q.host) \in Nat
      BY <3>2
    <3>5. Len(q.host) <= Len(p.host) /\ Len(p.host) <= Len(host)
      BY <2>1, <3>3, <3>4
    <3>6. SubSeq(p.host, 1, Len(q.host)) = q.host
      BY <3>2, <3>3, <3>5, SuffixesAgree
    <3>7. q.host = p.host \/ Len(q.host) < Len(p.host)
      <4>1. ASSUME Len(q.host) = Len(p.host) PROVE q.host = p.host
        BY <3>3, <4>1
      <4> QED
        BY <3>4, <3>5, <4>1
    <3>8. q.host = p.host \/ StrictSubdomain(p.host, q.host)
      BY <1>1, <1>3, <3>1, <3>6, <3>7 DEF StrictSubdomain
    <3> QED
      BY <1>3, <3>1, <3>8 DEF HostSubsumes
  <2> QED
    BY <2>2, <2>3
<1> QED
  BY <1>1, <1>2, <1>3

\* A host that a rule matches only if it covers the atom.
LEMMA HostOfAtom ==
    ASSUME NEW D \in SUBSET NamedHosts, NEW atom \in Atoms(D)
    PROVE  \E host \in Hosts :
              /\ HostAdmits(D, host)
              /\ \A C \in SUBSET NamedHosts :
                    HostAdmits(C, host) => CoversAtom(C, atom, HostSubsumes)
<1>1. CASE D = {}
  <2>1. PICK host \in Hosts : \A q \in NamedHosts : ~HostMatches(q, host)
    BY RichAssumption
  <2>2. HostAdmits(D, host)
    BY <1>1 DEF HostAdmits, Admits
  <2>3. \A C \in SUBSET NamedHosts : HostAdmits(C, host) => C = {}
    BY <2>1 DEF HostAdmits, Admits
  <2>4. \A C \in SUBSET NamedHosts : HostAdmits(C, host) => CoversAtom(C, atom, HostSubsumes)
    BY <2>3 DEF CoversAtom
  <2> QED
    BY <2>2, <2>4
<1>2. CASE D # {}
  <2>1. PICK p \in D : atom = {p}
    BY <1>2 DEF Atoms
  <2>2. PICK host \in Hosts :
             HostMatches(p, host) /\ \A q \in NamedHosts : HostMatches(q, host) => HostSubsumes(q, p)
    BY <2>1, HostOfPattern
  <2>3. HostAdmits(D, host)
    BY <2>2 DEF HostAdmits, Admits
  <2>4. ASSUME NEW C \in SUBSET NamedHosts, HostAdmits(C, host)
        PROVE  CoversAtom(C, atom, HostSubsumes)
    <3>1. C = {} \/ \E q \in C : HostMatches(q, host)
      BY <2>4 DEF HostAdmits, Admits
    <3>2. C = {} \/ \E q \in C : HostSubsumes(q, p)
      BY <2>2, <3>1
    <3> QED
      BY <2>1, <3>2 DEF CoversAtom
  <2> QED
    BY <2>3, <2>4
<1> QED
  BY <1>1, <1>2

\* The same for ports.
LEMMA PortOfAtom ==
    ASSUME NEW D \in SUBSET Ports, NEW atom \in Atoms(D)
    PROVE  \E port \in Ports :
              /\ ValueAdmits(D, port)
              /\ \A C \in SUBSET NamedPorts :
                    ValueAdmits(C, port) => CoversAtom(C, atom, Same)
<1>1. CASE D = {}
  <2>1. PICK port \in Ports : port \notin NamedPorts
    BY RichAssumption
  <2>2. ValueAdmits(D, port)
    BY <1>1 DEF ValueAdmits, Admits
  <2>3. \A C \in SUBSET NamedPorts : ValueAdmits(C, port) => CoversAtom(C, atom, Same)
    BY <2>1 DEF ValueAdmits, Admits, CoversAtom
  <2> QED
    BY <2>2, <2>3
<1>2. CASE D # {}
  <2>1. PICK port \in D : atom = {port}
    BY <1>2 DEF Atoms
  <2>2. ValueAdmits(D, port)
    BY DEF ValueAdmits, Admits
  <2>3. \A C \in SUBSET NamedPorts : ValueAdmits(C, port) => CoversAtom(C, atom, Same)
    BY <2>1 DEF ValueAdmits, Admits, CoversAtom, Same
  <2> QED
    BY <2>2, <2>3
<1> QED
  BY <1>1, <1>2

\* A rule that the earlier ones do not cover decides some CONNECT.
LEMMA UncoveredDecides ==
    ASSUME NEW prior \in Rules, NEW m \in RawConnectRules, ConnectMatchError(m) = None,
           \A k \in DOMAIN prior : /\ prior[k].match \in RawConnectRules
                                   /\ ConnectMatchError(prior[k].match) = None,
           ~ConnectUnionSubsumes(prior, m)
    PROVE  \E connect \in Connects :
              /\ ConnectMatches(m, connect)
              /\ \A k \in DOMAIN prior : ~ConnectMatches(prior[k].match, connect)
<1>1. PICK host \in Atoms(m.hosts), port \in Atoms(m.ports) :
          \A k \in DOMAIN prior :
             ~(/\ CoversAtom(prior[k].match.hosts, host, HostSubsumes)
               /\ CoversAtom(prior[k].match.ports, port, Same))
  BY DEF ConnectUnionSubsumes
<1>2. m.hosts \subseteq NamedHosts /\ m.ports \subseteq Ports
  BY NamedBy, PolicyAssumption DEF ConnectMatch
<1>3. PICK h \in Hosts :
         /\ HostAdmits(m.hosts, h)
         /\ \A C \in SUBSET NamedHosts : HostAdmits(C, h) => CoversAtom(C, host, HostSubsumes)
  BY <1>2, HostOfAtom
<1>4. PICK p \in Ports :
         /\ ValueAdmits(m.ports, p)
         /\ \A C \in SUBSET NamedPorts : ValueAdmits(C, p) => CoversAtom(C, port, Same)
  BY <1>2, PortOfAtom
<1> DEFINE connect == [host |-> h, port |-> p]
<1>5. connect \in Connects /\ connect.host = h /\ connect.port = p
  BY DEF Connects
<1> HIDE DEF connect
<1>6. ConnectMatches(m, connect)
  BY <1>3, <1>4, <1>5 DEF ConnectMatches, HostAdmits, ValueAdmits
<1>7. ASSUME NEW k \in DOMAIN prior, ConnectMatches(prior[k].match, connect)
      PROVE  FALSE
  <2>1. HostAdmits(prior[k].match.hosts, h) /\ ValueAdmits(prior[k].match.ports, p)
    BY <1>5, <1>7 DEF ConnectMatches, HostAdmits, ValueAdmits
  <2>2. prior[k].match.hosts \subseteq NamedHosts /\ prior[k].match.ports \subseteq NamedPorts
    BY NamedBy
  <2> QED
    BY <1>1, <1>3, <1>4, <2>1, <2>2
<1> QED
  BY <1>5, <1>6, <1>7

\* A refusal leaves the rules, and is told from none.
LEMMA RefuseKept ==
    ASSUME IInv, KeptInv, NEW m \in HttpMatch \cup ConnectMatch \cup {None}, NEW why \in Reasons,
           Refuse(m, why), phase \in {"bindings", "connects"}
    PROVE  KeptInv'
<1>1. /\ phase' = "refused" /\ refused' = [kind |-> phase, match |-> m, why |-> why]
      /\ UNCHANGED <<bindings, connects, ids, listener>>
  BY DEF Refuse
<1>2. [kind |-> phase, match |-> m, why |-> why] # None
  <2>1. [kind |-> phase, match |-> m, why |-> why] \in Refusals
    BY DEF Refusals
  <2> QED
    BY <2>1, PolicyAssumption
<1>3. Counted'
  BY <1>1 DEF KeptInv, Counted
<1>4. \A k \in DOMAIN connects' :
          /\ connects'[k].match \in RawConnectRules
          /\ ConnectMatchError(connects'[k].match) = None
          /\ Decides(connects', k)
  BY <1>1 DEF KeptInv
<1> QED
  BY <1>1, <1>2, <1>3, <1>4 DEF KeptInv

LEMMA BindingKept ==
    ASSUME IInv, KeptInv, NEW id \in Ids, NEW target \in Target, NEW m \in RawBindings,
           NEW action \in Profiles \cup {"reject", None},
           CompileBinding(id, target, m, action)
    PROVE  KeptInv'
<1>1. m \in HttpMatch /\ phase = "bindings"
  BY PolicyAssumption DEF CompileBinding
<1>2. ASSUME NEW why \in Reasons, Refuse(m, why)
      PROVE  KeptInv'
  BY <1>1, <1>2, RefuseKept
<1>3. HttpMatchError(m) # None => HttpMatchError(m) \in Reasons
  BY DEF HttpMatchError, Reasons
<1>4. ASSUME id \notin ids, bindings' = Append(bindings, [match |-> m, action |-> action]),
             ids' = ids \cup {id}, UNCHANGED <<connects, listener, phase, refused>>
      PROVE  KeptInv'
  <2>1. bindings \in Bindings /\ connects \in Rules
    BY DEF IInv, Typed
  <2>2. Len(bindings') = Len(bindings) + 1 /\ Len(bindings) \in Nat /\ Len(connects) \in Nat
    BY <1>4, <2>1 DEF Bindings, Rules
  <2>3. IsFiniteSet(ids') /\ Cardinality(ids') = Cardinality(ids) + 1
    BY <1>4, FS_AddElement DEF KeptInv, Counted
  <2>4. Counted'
    BY <1>4, <2>2, <2>3 DEF KeptInv, Counted
  <2> QED
    BY <1>1, <1>4, <2>4 DEF KeptInv
<1> QED
  BY <1>2, <1>3, <1>4 DEF CompileBinding, Claimed, Reasons

LEMMA ConnectRuleKept ==
    ASSUME IInv, KeptInv, NEW id \in Ids, NEW target \in Target, NEW m \in RawConnectRules,
           NEW action \in RawConnectActions,
           CompileConnectRule(id, target, m, action)
    PROVE  KeptInv'
<1>1. m \in ConnectMatch /\ action \in ConnectActions /\ phase = "connects"
  BY PolicyAssumption DEF CompileConnectRule
<1>2. ASSUME NEW why \in Reasons, Refuse(m, why)
      PROVE  KeptInv'
  BY <1>1, <1>2, RefuseKept
<1>3. ConnectMatchError(m) # None => ConnectMatchError(m) \in Reasons
  BY DEF ConnectMatchError, Reasons
<1>4. ASSUME id \notin ids, connects' = Append(connects, [match |-> m, action |-> action]),
             ids' = ids \cup {id}, UNCHANGED <<bindings, listener, phase, refused>>,
             ConnectMatchError(m) = None, ~ConnectUnionSubsumes(connects, m)
      PROVE  KeptInv'
  <2> DEFINE rule == [match |-> m, action |-> action]
  <2>1. /\ bindings \in Bindings /\ connects \in Rules
        /\ rule \in [match : ConnectMatch, action : ConnectActions] /\ rule.match = m
    BY <1>1 DEF IInv, Typed
  <2> HIDE DEF rule
  <2>2. PICK n \in Nat : n = Len(connects)
    BY <2>1 DEF Rules
  <2>3. /\ DOMAIN connects = 1..n /\ DOMAIN connects' = 1..(n + 1) /\ Len(connects') = n + 1
        /\ \A k \in 1..n : connects'[k] = connects[k]
        /\ connects'[n + 1] = rule
    BY <1>4, <2>1, <2>2 DEF Rules, rule
  <2>4. PICK connect \in Connects :
              /\ ConnectMatches(m, connect)
              /\ \A k \in DOMAIN connects : ~ConnectMatches(connects[k].match, connect)
    BY <1>4, <2>1, UncoveredDecides DEF KeptInv
  <2>5. Decides(connects', n + 1)
    <3>1. \A j \in 1..((n + 1) - 1) : ~ConnectMatches(connects'[j].match, connect)
      BY <2>2, <2>3, <2>4
    <3> QED
      BY <2>1, <2>3, <2>4, <3>1 DEF Decides
  <2>6. ASSUME NEW k \in 1..n PROVE Decides(connects', k)
    <3>1. PICK other \in Connects :
               /\ ConnectMatches(connects[k].match, other)
               /\ \A j \in 1..(k - 1) : ~ConnectMatches(connects[j].match, other)
      BY <2>3 DEF KeptInv, Decides
    <3>2. \A j \in 1..(k - 1) : connects'[j] = connects[j]
      BY <2>2, <2>3
    <3> QED
      BY <2>3, <3>1, <3>2 DEF Decides
  <2>7. \A k \in DOMAIN connects' : k \in 1..n \/ k = n + 1
    BY <2>2, <2>3
  <2>8. \A k \in DOMAIN connects' :
          /\ connects'[k].match \in RawConnectRules
          /\ ConnectMatchError(connects'[k].match) = None
    BY <1>4, <2>1, <2>3, <2>7 DEF KeptInv
  <2>9. IsFiniteSet(ids') /\ Cardinality(ids') = Cardinality(ids) + 1
    BY <1>4, FS_AddElement DEF KeptInv, Counted
  <2>10. Len(bindings) \in Nat
    BY <2>1 DEF Bindings
  <2>11. Counted'
    BY <1>4, <2>2, <2>3, <2>9, <2>10 DEF KeptInv, Counted
  <2>12. /\ (phase' = "refused") <=> (refused' # None)
         /\ phase' # "plan"
    BY <1>1, <1>4 DEF KeptInv
  <2> QED
    BY <2>5, <2>6, <2>7, <2>8, <2>11, <2>12 DEF KeptInv
<1> QED
  BY <1>2, <1>3, <1>4 DEF CompileConnectRule, Claimed, Reasons

LEMMA NextKept == IInv /\ KeptInv /\ [Next]_vars => KeptInv'
<1> SUFFICES ASSUME IInv, KeptInv, [Next]_vars PROVE KeptInv'
  OBVIOUS
<1>1. ASSUME NEW id \in Ids, NEW target \in Target, NEW m \in RawBindings,
             NEW action \in Profiles \cup {"reject", None},
             CompileBinding(id, target, m, action)
      PROVE  KeptInv'
  BY <1>1, BindingKept
<1>2. CASE BindingsDone
  <2>1. /\ phase = "bindings" /\ phase' = "connects"
        /\ UNCHANGED <<bindings, connects, ids, listener, refused>>
    BY <1>2 DEF BindingsDone
  <2> QED
    BY <2>1 DEF KeptInv, Counted
<1>3. ASSUME NEW id \in Ids, NEW target \in Target, NEW m \in RawConnectRules,
             NEW action \in RawConnectActions,
             CompileConnectRule(id, target, m, action)
      PROVE  KeptInv'
  BY <1>3, ConnectRuleKept
<1>4. CASE Finish
  <2>1. CASE NeedsTls /\ ~listener.ca
    <3>1. Refuse(None, "no_ca") /\ phase = "connects"
      BY <1>4, <2>1 DEF Finish
    <3> QED
      BY <3>1, RefuseKept DEF Reasons
  <2>2. CASE ~(NeedsTls /\ ~listener.ca)
    <3>1. /\ phase = "connects" /\ phase' = "plan"
          /\ UNCHANGED <<bindings, connects, ids, listener, refused>>
      BY <1>4, <2>2 DEF Finish
    <3>2. NeedsTls' <=> NeedsTls
      BY <3>1 DEF NeedsTls
    <3> QED
      BY <2>2, <3>1, <3>2 DEF KeptInv, Counted
  <2> QED
    BY <2>1, <2>2
<1>5. CASE UNCHANGED vars
  BY <1>5 DEF vars, KeptInv, Counted, NeedsTls
<1> QED
  BY <1>1, <1>2, <1>3, <1>4, <1>5 DEF Next

LEMMA InitKept == Init => KeptInv
<1> SUFFICES ASSUME Init PROVE KeptInv
  OBVIOUS
<1>1. Counted
  BY FS_EmptySet DEF Init, Counted
<1> QED
  BY <1>1 DEF Init, KeptInv

LEMMA KeptHolds == Spec => [](IInv /\ KeptInv)
<1>1. Init => IInv /\ KeptInv
  BY InitIInv, InitKept
<1>2. (IInv /\ KeptInv) /\ [Next]_vars => (IInv /\ KeptInv)'
  BY NextIInv, NextKept
<1> QED
  BY <1>1, <1>2, PTL DEF Spec

\* The rule that decides is one of the rules, or the default does.
LEMMA FirstConnect ==
    ASSUME IInv, NEW connect \in Connects
    PROVE  LET k == First(connects, LAMBDA m : ConnectMatches(m, connect))
           IN  k # 0 => k \in DOMAIN connects
<1> DEFINE n == Len(connects)
           K == {k \in 1..n : ConnectMatches(connects[k].match, connect)}
<1>1. n \in Nat /\ DOMAIN connects = 1..n
  BY DEF IInv, Typed, Rules
<1>2. CASE K = {}
  BY <1>1, <1>2 DEF First
<1>3. CASE K # {}
  <2>1. PICK k \in K : \A j \in 1..(k - 1) : j \notin K
    BY <1>1, <1>3, FirstOf
  <2>2. \A j \in 1..(k - 1) : j \in 1..n
    BY <1>1
  <2>3. /\ k \in DOMAIN connects /\ ConnectMatches(connects[k].match, connect)
        /\ \A j \in 1..(k - 1) : ~ConnectMatches(connects[j].match, connect)
    BY <1>1, <2>1, <2>2
  <2> HIDE DEF K, n
  <2> QED
    BY <2>3 DEF First
<1> QED
  BY <1>2, <1>3

LEMMA FirstBinding ==
    ASSUME IInv, NEW request \in Requests
    PROVE  LET k == First(bindings, LAMBDA m : HttpMatches(m, request))
           IN  k # 0 => k \in DOMAIN bindings
<1> DEFINE n == Len(bindings)
           K == {k \in 1..n : HttpMatches(bindings[k].match, request)}
<1>1. n \in Nat /\ DOMAIN bindings = 1..n
  BY DEF IInv, Typed, Bindings
<1>2. CASE K = {}
  BY <1>1, <1>2 DEF First
<1>3. CASE K # {}
  <2>1. PICK k \in K : \A j \in 1..(k - 1) : j \notin K
    BY <1>1, <1>3, FirstOf
  <2>2. \A j \in 1..(k - 1) : j \in 1..n
    BY <1>1
  <2>3. /\ k \in DOMAIN bindings /\ HttpMatches(bindings[k].match, request)
        /\ \A j \in 1..(k - 1) : ~HttpMatches(bindings[j].match, request)
    BY <1>1, <2>1, <2>2
  <2> HIDE DEF K, n
  <2> QED
    BY <2>3 DEF First
<1> QED
  BY <1>2, <1>3

\* The first rule is the only one that matches with none before it that does.
LEMMA DecidesIsFirst ==
    ASSUME IInv, NEW k \in DOMAIN connects, NEW connect \in Connects,
           ConnectMatches(connects[k].match, connect),
           \A j \in 1..(k - 1) : ~ConnectMatches(connects[j].match, connect)
    PROVE  First(connects, LAMBDA m : ConnectMatches(m, connect)) = k
<1> DEFINE Q(i) == /\ ConnectMatches(connects[i].match, connect)
                   /\ \A j \in 1..(i - 1) : ~ConnectMatches(connects[j].match, connect)
<1>1. PICK n \in Nat : DOMAIN connects = 1..n
  BY DEF IInv, Typed, Rules
<1>2. ASSUME NEW i \in DOMAIN connects, Q(i) PROVE i = k
  <2>1. ~(i < k) /\ ~(k < i)
    <3>1. ASSUME i < k PROVE FALSE
      <4>1. i \in 1..(k - 1)
        BY <1>1, <3>1
      <4> QED
        BY <1>2, <4>1
    <3>2. ASSUME k < i PROVE FALSE
      <4>1. k \in 1..(i - 1)
        BY <1>1, <3>2
      <4> QED
        BY <1>2, <4>1
    <3> QED
      BY <3>1, <3>2
  <2> QED
    BY <1>1, <2>1
<1>3. Q(k)
  OBVIOUS
<1>4. (CHOOSE i \in DOMAIN connects : Q(i)) = k
  <2> HIDE DEF Q
  <2> QED
    BY <1>2, <1>3
<1> QED
  BY <1>4 DEF First

(***************************************************************************)
(* What compile_listeners keeps can be served, for any hosts, paths, ports *)
(* and rules that do not exhaust the hosts and ports there are: every      *)
(* CONNECT rule of a plan decides some CONNECT and no alternative of its   *)
(* hosts is superfluous; interception has an authority to sign with; every *)
(* request finds its profile's runtime built.                              *)
(***************************************************************************)
THEOREM PlanIsSound == Spec => []PlanSound
<1>1. ASSUME IInv, KeptInv PROVE PlanSound
  <2>0. bindings \in Bindings /\ connects \in Rules
    BY <1>1 DEF IInv, Typed
  <2>1. TypeOK
    <3>1. \A k \in DOMAIN bindings :
             bindings[k] \in [match : HttpMatch, action : Profiles \cup {"reject"}]
      BY <2>0, ElementIn DEF Bindings
    <3>2. \A k \in DOMAIN connects : connects[k] \in [match : ConnectMatch, action : ConnectActions]
      BY <2>0, ElementIn DEF Rules
    <3> QED
      BY <1>1, <3>1, <3>2 DEF TypeOK, IInv, Typed, KeptInv, Counted
  <2>2. ConnectReachable
    <3> SUFFICES ASSUME NEW k \in DOMAIN connects
                 PROVE  \E connect \in Connects :
                           First(connects, LAMBDA m : ConnectMatches(m, connect)) = k
      BY DEF ConnectReachable
    <3>1. PICK connect \in Connects :
              /\ ConnectMatches(connects[k].match, connect)
              /\ \A j \in 1..(k - 1) : ~ConnectMatches(connects[j].match, connect)
      BY <1>1 DEF KeptInv, Decides
    <3> QED
      BY <1>1, <3>1, DecidesIsFirst
  <2>3. NoAlternativeRedundant
    <3> SUFFICES ASSUME NEW k \in DOMAIN connects, NEW p \in connects[k].match.hosts
                 PROVE  \E host \in Hosts :
                          /\ HostMatches(p, host)
                          /\ \A q \in connects[k].match.hosts \ {p} : ~HostMatches(q, host)
      BY DEF NoAlternativeRedundant
    <3>1. /\ connects[k].match \in RawConnectRules
          /\ ConnectMatchError(connects[k].match) = None
      BY <1>1 DEF KeptInv
    <3>2. /\ connects[k].match.hosts \subseteq NamedHosts
          /\ ~Redundant(connects[k].match.hosts, HostSubsumes)
      BY <3>1, NamedBy, NoError
    <3>3. PICK host \in Hosts :
             HostMatches(p, host) /\ \A q \in NamedHosts : HostMatches(q, host) => HostSubsumes(q, p)
      BY <3>2, HostOfPattern
    <3>4. \A q \in connects[k].match.hosts \ {p} : ~HostSubsumes(q, p)
      BY <3>2 DEF Redundant
    <3> QED
      BY <3>2, <3>3, <3>4
  <2>4. InterceptHasCa
    <3> SUFFICES ASSUME phase = "plan", NEW connect \in Connects, ConnectAction(connect) = "intercept"
                 PROVE  listener.ca
      BY DEF InterceptHasCa
    <3>1. NeedsTls
      BY <1>1, FirstConnect DEF ConnectAction, NeedsTls
    <3> QED
      BY <1>1, <3>1 DEF KeptInv
  <2>5. ProfileBuilt
    <3> SUFFICES ASSUME NEW request \in Requests
                 PROVE  HttpAction(request) \in BuiltProfiles \cup {"reject"}
      BY DEF ProfileBuilt
    <3>1. \/ HttpAction(request) = listener.http
          \/ \E k \in DOMAIN bindings : HttpAction(request) = bindings[k].action
      BY <1>1, FirstBinding DEF HttpAction
    <3> QED
      BY <3>1 DEF BuiltProfiles
  <2> QED
    BY <2>1, <2>2, <2>3, <2>4, <2>5 DEF PlanSound
<1> QED
  BY <1>1, KeptHolds, PTL

=============================================================================
