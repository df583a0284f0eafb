---------------------------- MODULE ServingProofs ----------------------------
(***************************************************************************)
(* The components of Serving keep their invariants for every value of the  *)
(* constants; the native client for every setting that satisfies its       *)
(* assumption, which is used for the two settings of Serving.              *)
(***************************************************************************)
EXTENDS Serving, FiniteSetTheorems, SequenceTheorems, NaturalsInduction, WellFoundedInduction,
        TLAPS

-----------------------------------------------------------------------------
(* Which component moves. *)

\* A step leaves `part` and moves at most the component it names.
LEMMA PartStep ==
    ASSUME [Next]_vars
    PROVE  /\ part' = part
           /\ part = "live" => [Live!Next]_(Live!vars)
           /\ part = "models" => [Models!Next]_(Models!vars)
           /\ part = "leaf" => [Leaf!Next]_(Leaf!vars)
           /\ part = "connect" => [Connect!Next]_(Connect!vars)
           /\ part = "bar" => [Bar!Next]_(Bar!vars)
           /\ part = "sse" => [Sse!Next]_(Sse!vars)
           /\ part = "reading" => [Native(Reading)!Next]_(Native(Reading)!vars)
           /\ part = "reloading" => [Native(Reloading)!Next]_(Native(Reloading)!vars)
<1>1. CASE UNCHANGED vars
  <2>1. UNCHANGED <<part, liveVars, modelVars, leafVars, connectVars, barVars, sseVars,
                    nativeVars>>
    BY <1>1 DEF vars
  <2>2. UNCHANGED Live!vars
    BY <2>1 DEF liveVars, Live!vars, Live!reloading, Live!catalogue, Live!upstream
  <2>3. UNCHANGED Models!vars
    BY <2>1 DEF modelVars, Models!vars
  <2>4. UNCHANGED Leaf!vars
    BY <2>1 DEF leafVars, Leaf!vars
  <2>5. UNCHANGED Connect!vars
    BY <2>1 DEF connectVars, Connect!vars
  <2>6. UNCHANGED Bar!vars
    BY <2>1 DEF barVars, Bar!vars
  <2>7. UNCHANGED Native(Reading)!vars /\ UNCHANGED Native(Reloading)!vars
    BY <2>1 DEF nativeVars, Native!vars
  <2>8. UNCHANGED Sse!vars
    BY <2>1 DEF sseVars, Sse!vars
  <2> QED
    BY <2>1, <2>2, <2>3, <2>4, <2>5, <2>6, <2>7, <2>8
<1>2. CASE Next
  BY <1>2, Zenon DEF Next
<1> QED
  BY <1>1, <1>2


-----------------------------------------------------------------------------
(* The live runtime. *)

Generation == [ver : 0 .. MaxEdits, fixed : Fixed, cat : 0 .. world, tried : BOOLEAN]

Holding == {"loading", "loaded", "built", "stored"}

\* The reload lock is held from the reading of the files to the answer; what the holder has
\* read is no older than the generation in use, nor than the files its request saw.
RequestInv(at, holds, wanted, has, ver, served) ==
    /\ at \in Holding <=> holds
    /\ wanted <= ver
    /\ at \in {"loaded", "built", "stored"} => wanted <= has /\ has <= ver
    /\ at \in {"loaded", "built"} => served <= has
    /\ at = "stored" => served = has
    /\ at = "ok" => wanted <= served

LiveInv ==
    /\ Live!TypeOK /\ Live!ServedAsStarted
    /\ Live!Served.ver <= disk.ver
    /\ \A r \in Requests :
          RequestInv(pc[r], holder = r, asked[r], loaded[r].ver, disk.ver, Live!Served.ver)

\* The generation in use is one.
LEMMA LiveServedTyped ==
    ASSUME Live!TypeOK
    PROVE  Live!Served \in Generation /\ Live!Served.ver \in Nat
<1>1. gens \in Seq(Generation) /\ cgen \in DOMAIN gens
  BY DEF Live!TypeOK, Generation
<1>2. Live!Served \in Generation
  BY <1>1 DEF Live!Served, Live!current
<1> QED
  BY <1>2 DEF Generation

LEMMA LiveInit == Live!LiveAssumption /\ Live!Init => LiveInv
<1> SUFFICES ASSUME Live!LiveAssumption, Live!Init PROVE LiveInv
  OBVIOUS
<1> USE DEF Live!LiveAssumption, Live!Init
<1>1. /\ gens \in Seq(Generation) /\ Len(gens) = 1 /\ gens[1] \in Generation
      /\ gens[1].ver = 0 /\ gens[1].fixed = disk.fixed /\ disk.ver = 0
  BY DEF Generation
<1>2. Live!TypeOK
  <2>1. /\ disk \in [ver : 0 .. MaxEdits, fixed : Fixed, valid : BOOLEAN]
        /\ loaded \in [Requests -> [ver : 0 .. MaxEdits, fixed : Fixed, cat : 0 .. world]]
        /\ asked \in [Requests -> 0 .. MaxEdits]
    <3>1. 0 \in 0 .. MaxEdits /\ 0 \in 0 .. world /\ disk.fixed \in Fixed /\ disk.ver = 0
      OBVIOUS
    <3>2. disk \in [ver : 0 .. MaxEdits, fixed : Fixed, valid : BOOLEAN]
      BY <3>1
    <3> QED
      BY <3>1, <3>2
  <2>2. /\ pc \in [Requests -> {"idle", "waiting", "loading", "loaded", "built", "stored"}
                               \cup Live!Ended]
        /\ holder \in Requests \cup {Nobody}
        /\ \A r \in Requests : holder # r
        /\ cpc = "asleep" /\ upc = "asleep"
    BY DEF Live!Ended
  <2>3. /\ world \in 0 .. MaxWorld /\ global \in 0 .. world
        /\ cgen \in DOMAIN gens /\ ugen \in DOMAIN gens
        /\ seen \in 1 .. signal /\ signal \in 1 .. Live!current
    BY <1>1 DEF Live!current
  <2> QED
    BY <1>1, <2>1, <2>2, <2>3 DEF Live!TypeOK, Generation
<1>3. Live!Served = gens[1]
  BY <1>1 DEF Live!Served, Live!current
<1> QED
  BY <1>1, <1>2, <1>3 DEF LiveInv, RequestInv, Holding, Live!ServedAsStarted

\* Setting a field of a generation that says nothing of its files.
LEMMA LiveNoted ==
    ASSUME LiveInv, NEW g \in DOMAIN gens, NEW y \in Generation,
           y.ver = gens[g].ver, y.fixed = gens[g].fixed, gens' = [gens EXCEPT ![g] = y]
    PROVE  /\ gens' \in Seq(Generation) /\ Len(gens') = Len(gens)
           /\ DOMAIN gens' = DOMAIN gens
           /\ \A i \in DOMAIN gens : gens'[i].ver = gens[i].ver /\ gens'[i].fixed = gens[i].fixed
<1>1. gens \in Seq(Generation)
  BY DEF LiveInv, Live!TypeOK, Generation
<1>2. gens' \in Seq(Generation) /\ Len(gens') = Len(gens)
  BY <1>1, ExceptSeq
<1> QED
  BY <1>1, <1>2

\* The generations there are keep their numbers; only the last one is served.
LEMMA LiveSame ==
    ASSUME LiveInv, gens' \in Seq(Generation), Len(gens') = Len(gens),
           \A i \in DOMAIN gens : gens'[i].ver = gens[i].ver /\ gens'[i].fixed = gens[i].fixed
    PROVE  /\ Live!current' = Live!current /\ Live!current \in DOMAIN gens
           /\ Live!Served'.ver = Live!Served.ver /\ Live!Served'.fixed = Live!Served.fixed
           /\ gens'[1].fixed = gens[1].fixed
<1>1. gens \in Seq(Generation) /\ cgen \in DOMAIN gens
  BY DEF LiveInv, Live!TypeOK, Generation
<1>2. DOMAIN gens = 1 .. Len(gens) /\ Len(gens) \in Nat /\ Len(gens) # 0
  BY <1>1
<1>3. 1 \in DOMAIN gens /\ Len(gens) \in DOMAIN gens
  BY <1>2
<1> QED
  BY <1>2, <1>3 DEF Live!current, Live!Served

\* One request moves; the others' keep what is theirs, and hold nothing if it holds the lock.
LEMMA LiveMoved ==
    ASSUME LiveInv, NEW r \in Requests, disk' = disk, Live!TypeOK', Live!ServedAsStarted',
           Live!Served.ver <= Live!Served'.ver, Live!Served'.ver <= disk.ver,
           Live!Served'.ver \in Nat, Live!Served'.ver = Live!Served.ver \/ holder = r,
           holder' = holder \/ (holder = r /\ holder' \notin Requests),
           \A q \in Requests : q # r => /\ pc'[q] = pc[q] /\ asked'[q] = asked[q]
                                        /\ loaded'[q] = loaded[q],
           RequestInv(pc'[r], holder' = r, asked'[r], loaded'[r].ver, disk.ver,
                      Live!Served'.ver)
    PROVE  LiveInv'
<1>1. ASSUME NEW q \in Requests, q # r
      PROVE  RequestInv(pc[q], holder' = q, asked[q], loaded[q].ver, disk.ver,
                        Live!Served'.ver)
  <2>1. RequestInv(pc[q], holder = q, asked[q], loaded[q].ver, disk.ver, Live!Served.ver)
    BY DEF LiveInv
  <2>2. CASE Live!Served'.ver = Live!Served.ver
    <3>1. holder' = q <=> holder = q
      BY <1>1
    <3> QED
      BY <2>1, <2>2, <3>1 DEF RequestInv
  <2>3. CASE holder = r
    <3>1. holder # q /\ holder' # q /\ pc[q] \notin Holding
      BY <1>1, <2>1, <2>3 DEF RequestInv
    <3>2. /\ asked[q] \in Nat /\ Live!Served.ver \in Nat
      <4>1. Live!TypeOK
        BY DEF LiveInv
      <4>2. asked[q] \in Nat
        BY <4>1 DEF Live!TypeOK
      <4> QED
        BY <4>1, <4>2, LiveServedTyped
    <3> QED
      BY <2>1, <3>1, <3>2 DEF RequestInv, Holding
  <2> QED
    BY <2>2, <2>3
<1>2. ASSUME NEW q \in Requests
      PROVE  RequestInv(pc'[q], holder' = q, asked'[q], loaded'[q].ver, disk'.ver,
                        Live!Served'.ver)
  <2>1. CASE q = r
    BY <2>1
  <2>2. CASE q # r
    BY <1>1, <2>2
  <2> QED
    BY <2>1, <2>2
<1> QED
  BY <1>2 DEF LiveInv

LEMMA LiveNext == ASSUME Live!LiveAssumption, LiveInv, [Live!Next]_(Live!vars) PROVE LiveInv'
<1> USE DEF Live!LiveAssumption, Live!reloading, Live!catalogue, Live!upstream
<1>0. /\ gens \in Seq(Generation) /\ Len(gens) \in Nat \ {0} /\ DOMAIN gens = 1 .. Len(gens)
      /\ Live!Served = gens[Len(gens)] /\ gens[Len(gens)] \in Generation
      /\ gens[1] \in Generation /\ Live!Served.ver \in Nat /\ disk.ver \in Nat
  <2>1. gens \in Seq(Generation) /\ cgen \in DOMAIN gens /\ disk.ver \in Nat
    BY DEF LiveInv, Live!TypeOK, Generation
  <2>2. Live!Served.ver \in Nat
    BY LiveServedTyped DEF LiveInv
  <2> QED
    BY <2>1, <2>2 DEF Live!Served, Live!current
<1>1. ASSUME Live!Edit PROVE LiveInv'
  BY <1>0, <1>1, SMTT(30)
  DEF Live!Edit, LiveInv, Live!TypeOK, RequestInv, Live!ServedAsStarted, Live!Served,
      Live!current, Holding, Live!Ended, Generation
<1>2. ASSUME NEW r \in Requests, Live!AskReload(r) PROVE LiveInv'
  <2>1. /\ Live!TypeOK' /\ UNCHANGED <<disk, gens, holder, loaded>>
        /\ pc[r] = "idle" /\ pc'[r] = "waiting" /\ asked'[r] = disk.ver
        /\ \A q \in Requests : q # r => pc'[q] = pc[q] /\ asked'[q] = asked[q]
    BY <1>2 DEF Live!AskReload, LiveInv, Live!TypeOK, Live!current
  <2>2. RequestInv(pc'[r], holder' = r, asked'[r], loaded'[r].ver, disk.ver, Live!Served.ver)
    BY <1>0, <2>1 DEF LiveInv, RequestInv, Holding
  <2>3. Live!Served' = Live!Served /\ Live!ServedAsStarted'
    BY <2>1 DEF LiveInv, Live!Served, Live!current, Live!ServedAsStarted
  <2> QED
    BY <1>0, <2>1, <2>2, <2>3, LiveMoved DEF LiveInv
<1>3. ASSUME NEW r \in Requests, Live!Lock(r) PROVE LiveInv'
  BY <1>0, <1>3
  DEF Live!Lock, LiveInv, Live!TypeOK, RequestInv, Live!ServedAsStarted, Live!Served,
      Live!current, Holding, Live!Ended, Generation
<1>4. ASSUME NEW r \in Requests, Live!Load(r) PROVE LiveInv'
  <2>1. CASE pc'[r] = "loaded"
    <3> DEFINE y == [loaded[r] EXCEPT !.ver = disk.ver, !.fixed = disk.fixed]
    <3>1. /\ loaded' = [loaded EXCEPT ![r] = y] /\ pc' = [pc EXCEPT ![r] = "loaded"]
          /\ pc[r] = "loading" /\ UNCHANGED <<disk, gens, holder, asked, world>>
      BY <1>4, <2>1 DEF Live!Load, Live!Answer, LiveInv, Live!TypeOK
    <3>2. /\ y \in [ver : 0 .. MaxEdits, fixed : Fixed, cat : 0 .. world]
          /\ y.ver = disk.ver
      <4>1. /\ loaded[r] \in [ver : 0 .. MaxEdits, fixed : Fixed, cat : 0 .. world]
            /\ disk.ver \in 0 .. MaxEdits /\ disk.fixed \in Fixed
        BY DEF LiveInv, Live!TypeOK
      <4> QED
        BY <4>1
    <3> HIDE DEF y
    <3>3. /\ loaded' \in [Requests -> [ver : 0 .. MaxEdits, fixed : Fixed, cat : 0 .. world]]
          /\ loaded'[r].ver = disk.ver
          /\ pc' \in [Requests -> {"idle", "waiting", "loading", "loaded", "built", "stored"}
                                   \cup Live!Ended]
          /\ \A q \in Requests : q # r => pc'[q] = pc[q] /\ loaded'[q] = loaded[q]
      BY <3>1, <3>2 DEF LiveInv, Live!TypeOK
    <3>4. Live!TypeOK'
      BY <1>4, <2>1, <3>1, <3>3 DEF Live!Load, LiveInv, Live!TypeOK, Live!current
    <3>5. RequestInv(pc'[r], holder' = r, asked'[r], loaded'[r].ver, disk.ver, Live!Served.ver)
      BY <1>0, <2>1, <3>1, <3>3 DEF LiveInv, RequestInv, Live!TypeOK, Holding
    <3>6. Live!Served' = Live!Served /\ Live!ServedAsStarted'
      BY <3>1 DEF LiveInv, Live!Served, Live!current, Live!ServedAsStarted
    <3> QED
      BY <1>0, <3>1, <3>3, <3>4, <3>5, <3>6, LiveMoved DEF LiveInv
  <2>2. CASE pc'[r] # "loaded"
    <3>1. /\ pc' = [pc EXCEPT ![r] = "error"] /\ holder' = Nobody /\ pc[r] = "loading"
          /\ UNCHANGED <<disk, gens, loaded, asked, world>>
      BY <1>4, <2>2 DEF Live!Load, Live!Answer, LiveInv, Live!TypeOK
    <3>2. /\ pc'[r] = "error" /\ \A q \in Requests : q # r => pc'[q] = pc[q]
          /\ pc' \in [Requests -> {"idle", "waiting", "loading", "loaded", "built", "stored"}
                                   \cup Live!Ended]
      BY <3>1 DEF LiveInv, Live!TypeOK, Live!Ended
    <3>3. Live!TypeOK' /\ holder = r
      BY <1>4, <3>1, <3>2
      DEF Live!Load, LiveInv, RequestInv, Holding, Live!TypeOK, Live!current
    <3>4. RequestInv(pc'[r], holder' = r, asked'[r], loaded'[r].ver, disk.ver, Live!Served.ver)
      BY <3>1, <3>2 DEF LiveInv, RequestInv, Holding
    <3>5. Live!Served' = Live!Served /\ Live!ServedAsStarted'
      BY <3>1 DEF LiveInv, Live!Served, Live!current, Live!ServedAsStarted
    <3> QED
      BY <1>0, <3>1, <3>2, <3>3, <3>4, <3>5, LiveMoved DEF LiveInv
  <2> QED
    BY <2>1, <2>2
<1>5. ASSUME NEW r \in Requests, Live!Build(r) PROVE LiveInv'
  <2>1. CASE pc'[r] = "built"
    <3> DEFINE y == [loaded[r] EXCEPT !.cat = global]
    <3>1. /\ loaded' = [loaded EXCEPT ![r] = y] /\ pc' = [pc EXCEPT ![r] = "built"]
          /\ pc[r] = "loaded" /\ UNCHANGED <<disk, gens, holder, asked, world>>
      BY <1>5, <2>1 DEF Live!Build, Live!Answer, LiveInv, Live!TypeOK
    <3>2. /\ y \in [ver : 0 .. MaxEdits, fixed : Fixed, cat : 0 .. world]
          /\ y.ver = loaded[r].ver
      <4>1. /\ loaded[r] \in [ver : 0 .. MaxEdits, fixed : Fixed, cat : 0 .. world]
            /\ global \in 0 .. world
        BY DEF LiveInv, Live!TypeOK
      <4> QED
        BY <4>1
    <3> HIDE DEF y
    <3>3. /\ loaded' \in [Requests -> [ver : 0 .. MaxEdits, fixed : Fixed, cat : 0 .. world]]
          /\ loaded'[r].ver = loaded[r].ver
          /\ pc' \in [Requests -> {"idle", "waiting", "loading", "loaded", "built", "stored"}
                                   \cup Live!Ended]
          /\ \A q \in Requests : q # r => pc'[q] = pc[q] /\ loaded'[q] = loaded[q]
      BY <3>1, <3>2 DEF LiveInv, Live!TypeOK
    <3>4. Live!TypeOK'
      BY <1>5, <2>1, <3>1, <3>3 DEF Live!Build, LiveInv, Live!TypeOK, Live!current
    <3>5. RequestInv(pc'[r], holder' = r, asked'[r], loaded'[r].ver, disk.ver, Live!Served.ver)
      BY <1>0, <2>1, <3>1, <3>3 DEF LiveInv, RequestInv, Live!TypeOK, Holding
    <3>6. Live!Served' = Live!Served /\ Live!ServedAsStarted'
      BY <3>1 DEF LiveInv, Live!Served, Live!current, Live!ServedAsStarted
    <3> QED
      BY <1>0, <3>1, <3>3, <3>4, <3>5, <3>6, LiveMoved DEF LiveInv
  <2>2. CASE pc'[r] # "built"
    <3>1. /\ pc' = [pc EXCEPT ![r] = "error"] /\ holder' = Nobody /\ pc[r] = "loaded"
          /\ UNCHANGED <<disk, gens, loaded, asked, world>>
      BY <1>5, <2>2 DEF Live!Build, Live!Answer, LiveInv, Live!TypeOK
    <3>2. /\ pc'[r] = "error" /\ \A q \in Requests : q # r => pc'[q] = pc[q]
          /\ pc' \in [Requests -> {"idle", "waiting", "loading", "loaded", "built", "stored"}
                                   \cup Live!Ended]
      BY <3>1 DEF LiveInv, Live!TypeOK, Live!Ended
    <3>3. Live!TypeOK' /\ holder = r
      BY <1>5, <3>1, <3>2
      DEF Live!Build, LiveInv, RequestInv, Holding, Live!TypeOK, Live!current
    <3>4. RequestInv(pc'[r], holder' = r, asked'[r], loaded'[r].ver, disk.ver, Live!Served.ver)
      BY <3>1, <3>2 DEF LiveInv, RequestInv, Holding
    <3>5. Live!Served' = Live!Served /\ Live!ServedAsStarted'
      BY <3>1 DEF LiveInv, Live!Served, Live!current, Live!ServedAsStarted
    <3> QED
      BY <1>0, <3>1, <3>2, <3>3, <3>4, <3>5, LiveMoved DEF LiveInv
  <2> QED
    BY <2>1, <2>2
<1>6. ASSUME NEW r \in Requests, Live!Disconnect(r) PROVE LiveInv'
  BY <1>0, <1>6
  DEF Live!Disconnect, LiveInv, Live!TypeOK, RequestInv, Live!ServedAsStarted, Live!Served,
      Live!current, Holding, Live!Ended, Generation
<1>7. ASSUME NEW r \in Requests, Live!Replace(r) PROVE LiveInv'
  <2>1. CASE pc[r] = "built"
    <3> DEFINE g == Live!Replacement(r)
    <3>1. /\ gens' = Append(gens, g) /\ g \in Generation /\ g.ver = loaded[r].ver
          /\ g.fixed = gens[Len(gens)].fixed
      BY <1>0, <1>7, <2>1
      DEF Live!Replace, Live!Replacement, Live!Compatible, Generation, LiveInv, Live!TypeOK
    <3> HIDE DEF g
    <3>2. /\ gens' \in Seq(Generation) /\ Len(gens') = Len(gens) + 1 /\ gens'[Len(gens')] = g
          /\ gens'[1] = gens[1] /\ DOMAIN gens' = 1 .. Len(gens) + 1
      BY <1>0, <3>1
    <3>3. /\ pc' = [pc EXCEPT ![r] = "stored"] /\ pc'[r] = "stored"
          /\ \A q \in Requests : q # r => pc'[q] = pc[q]
          /\ UNCHANGED <<disk, holder, loaded, asked, world, signal>>
      BY <1>7, <2>1 DEF Live!Replace, LiveInv, Live!TypeOK
    <3>4. Live!TypeOK'
      <4>1. /\ pc' \in [Requests -> {"idle", "waiting", "loading", "loaded", "built", "stored"}
                                     \cup Live!Ended]
            /\ \A q \in Requests : holder' = q => pc'[q] \in Holding
        BY <3>3 DEF LiveInv, Live!TypeOK, Holding
      <4>2. gens' \in Seq([ver : 0 .. MaxEdits, fixed : Fixed, cat : 0 .. world', tried : BOOLEAN])
        BY <3>2, <3>3 DEF Generation
      <4>3. /\ cgen' \in DOMAIN gens' /\ ugen' \in DOMAIN gens'
            /\ signal' \in 1 .. Live!current' /\ seen' \in 1 .. signal'
        <5>1. /\ cgen \in 1 .. Len(gens) /\ ugen \in 1 .. Len(gens) /\ signal \in 1 .. Len(gens)
              /\ seen \in 1 .. signal /\ UNCHANGED <<cgen, ugen, signal, seen>>
          BY <1>0, <1>7, <3>3 DEF Live!Replace, LiveInv, Live!TypeOK, Live!current
        <5> QED
          BY <1>0, <3>2, <5>1 DEF Live!current
      <4> QED
        BY <1>7, <3>3, <4>1, <4>2, <4>3 DEF Live!Replace, LiveInv, Live!TypeOK, Holding
    <3>5. Live!Served' = g /\ Live!ServedAsStarted'
      BY <1>0, <3>1, <3>2 DEF Live!Served, Live!current, Live!ServedAsStarted, LiveInv
    <3>6. /\ RequestInv(pc[r], holder = r, asked[r], loaded[r].ver, disk.ver, Live!Served.ver)
          /\ loaded[r].ver \in Nat
      BY DEF LiveInv, Live!TypeOK
    <3>7. RequestInv(pc'[r], holder' = r, asked'[r], loaded'[r].ver, disk.ver, g.ver)
      BY <2>1, <3>1, <3>3, <3>6 DEF RequestInv, Holding
    <3>8. holder = r /\ Live!Served.ver <= g.ver /\ g.ver <= disk.ver
      BY <2>1, <3>1, <3>6 DEF RequestInv, Holding
    <3>9. g.ver \in Nat
      BY <3>1, <3>6
    <3> QED
      BY <3>3, <3>4, <3>5, <3>7, <3>8, <3>9, LiveMoved
  <2>2. CASE pc[r] = "stored"
    <3>1. /\ pc' = [pc EXCEPT ![r] = "ok"] /\ pc'[r] = "ok" /\ holder' = Nobody
          /\ \A q \in Requests : q # r => pc'[q] = pc[q]
          /\ UNCHANGED <<disk, gens, loaded, asked, world>>
      BY <1>7, <2>2 DEF Live!Replace, Live!Answer, LiveInv, Live!TypeOK
    <3>2. Live!TypeOK'
      <4>1. pc' \in [Requests -> {"idle", "waiting", "loading", "loaded", "built", "stored"}
                                 \cup Live!Ended]
        BY <3>1 DEF LiveInv, Live!TypeOK, Live!Ended
      <4>2. signal' \in 1 .. Live!current' /\ seen' \in 1 .. signal'
        BY <1>0, <1>7, <2>2, <3>1, SMTT(30) DEF Live!Replace, LiveInv, Live!TypeOK, Live!current
      <4> QED
        BY <1>7, <3>1, <4>1, <4>2 DEF Live!Replace, LiveInv, Live!TypeOK
    <3>3. Live!Served' = Live!Served /\ Live!ServedAsStarted'
      BY <3>1 DEF LiveInv, Live!Served, Live!current, Live!ServedAsStarted
    <3>4. /\ RequestInv(pc[r], holder = r, asked[r], loaded[r].ver, disk.ver, Live!Served.ver)
          /\ loaded[r].ver \in Nat
      BY DEF LiveInv, Live!TypeOK
    <3>5. /\ RequestInv(pc'[r], holder' = r, asked'[r], loaded'[r].ver, disk.ver, Live!Served.ver)
          /\ holder = r
      BY <2>2, <3>1, <3>4 DEF RequestInv, Holding
    <3> QED
      BY <1>0, <3>1, <3>2, <3>3, <3>5, LiveMoved DEF LiveInv
  <2> QED
    BY <1>7, <2>1, <2>2 DEF Live!Replace
<1>8. ASSUME Live!WorldChanges PROVE LiveInv'
  <2>1. world \in Nat /\ world' = world + 1 /\ 0 .. world \subseteq 0 .. world'
    BY <1>8 DEF Live!WorldChanges, LiveInv, Live!TypeOK
  <2>2. Generation \subseteq Generation'
    BY <2>1 DEF Generation
  <2>3. gens \in Seq(Generation')
    BY <1>0, <2>2
  <2>4. loaded' \in [Requests -> [ver : 0 .. MaxEdits, fixed : Fixed, cat : 0 .. world']]
    BY <1>8, <2>1 DEF Live!WorldChanges, LiveInv, Live!TypeOK
  <2>5. UNCHANGED <<disk, gens, holder, pc, loaded, asked, global, signal>>
    BY <1>8 DEF Live!WorldChanges
  <2>6. Live!TypeOK'
    <3>1. global' \in 0 .. world' /\ world' \in 0 .. MaxWorld
      BY <1>8, <2>1, <2>5 DEF Live!WorldChanges, LiveInv, Live!TypeOK
    <3>2. gens' \in Seq([ver : 0 .. MaxEdits, fixed : Fixed, cat : 0 .. world', tried : BOOLEAN])
      BY <2>3, <2>5 DEF Generation
    <3> QED
      BY <1>8, <2>4, <2>5, <3>1, <3>2 DEF Live!WorldChanges, LiveInv, Live!TypeOK, Live!current
  <2> QED
    BY <2>5, <2>6 DEF LiveInv, Live!ServedAsStarted, Live!Served, Live!current
<1>9. ASSUME Live!CatalogueTick PROVE LiveInv'
  BY <1>0, <1>9
  DEF Live!CatalogueTick, LiveInv, Live!TypeOK, RequestInv, Live!ServedAsStarted, Live!Served,
      Live!current, Holding, Live!Ended, Generation
<1>10. ASSUME Live!Publish PROVE LiveInv'
  BY <1>0, <1>10
  DEF Live!Publish, LiveInv, Live!TypeOK, RequestInv, Live!ServedAsStarted, Live!Served,
      Live!current, Holding, Live!Ended, Generation
<1>11. ASSUME Live!FetchFails PROVE LiveInv'
  BY <1>0, <1>11
  DEF Live!FetchFails, LiveInv, Live!TypeOK, RequestInv, Live!ServedAsStarted, Live!Served,
      Live!current, Holding, Live!Ended, Generation
<1>12. ASSUME Live!LookupLatest PROVE LiveInv'
  BY <1>0, <1>12
  DEF Live!LookupLatest, LiveInv, Live!TypeOK, RequestInv, Live!ServedAsStarted, Live!Served,
      Live!current, Holding, Live!Ended, Generation
<1>13. ASSUME Live!UpstreamTick PROVE LiveInv'
  BY <1>0, <1>13
  DEF Live!UpstreamTick, LiveInv, Live!TypeOK, RequestInv, Live!ServedAsStarted, Live!Served,
      Live!current, Holding, Live!Ended, Generation
<1>14. ASSUME Live!UpstreamChanged PROVE LiveInv'
  BY <1>0, <1>14
  DEF Live!UpstreamChanged, LiveInv, Live!TypeOK, RequestInv, Live!ServedAsStarted, Live!Served,
      Live!current, Holding, Live!Ended, Generation
<1>15. ASSUME Live!UpstreamLookup PROVE LiveInv'
  BY <1>0, <1>15
  DEF Live!UpstreamLookup, LiveInv, Live!TypeOK, RequestInv, Live!ServedAsStarted, Live!Served,
      Live!current, Holding, Live!Ended, Generation
<1>16. ASSUME Live!ApplyCatalogue PROVE LiveInv'
  <2> DEFINE y == [gens[cgen] EXCEPT !.cat = global]
  <2>1. cgen \in DOMAIN gens /\ gens[cgen] \in Generation /\ global \in 0 .. world
    BY <1>0 DEF LiveInv, Live!TypeOK
  <2>2. y \in Generation /\ y.ver = gens[cgen].ver /\ y.fixed = gens[cgen].fixed
    BY <2>1 DEF Generation
  <2>3. gens' = [gens EXCEPT ![cgen] = y]
    BY <1>16 DEF Live!ApplyCatalogue
  <2> HIDE DEF y
  <2>4. /\ gens' \in Seq(Generation) /\ Len(gens') = Len(gens) /\ DOMAIN gens' = DOMAIN gens
        /\ \A i \in DOMAIN gens : gens'[i].ver = gens[i].ver /\ gens'[i].fixed = gens[i].fixed
    BY <2>1, <2>2, <2>3, LiveNoted
  <2>5. /\ Live!current' = Live!current /\ Live!Served'.ver = Live!Served.ver
        /\ Live!Served'.fixed = Live!Served.fixed /\ gens'[1].fixed = gens[1].fixed
    BY <2>4, LiveSame
  <2> QED
    BY <1>0, <1>16, <2>4, <2>5
    DEF Live!ApplyCatalogue, LiveInv, Live!TypeOK, RequestInv, Live!ServedAsStarted, Holding,
        Live!Ended, Generation
<1>17. ASSUME Live!UpstreamRefreshed PROVE LiveInv'
  <2> DEFINE y == [gens[ugen] EXCEPT !.tried = TRUE]
  <2>1. ugen \in DOMAIN gens /\ gens[ugen] \in Generation /\ global \in 0 .. world
    BY <1>0 DEF LiveInv, Live!TypeOK
  <2>2. y \in Generation /\ y.ver = gens[ugen].ver /\ y.fixed = gens[ugen].fixed
    BY <2>1 DEF Generation
  <2>3. gens' = [gens EXCEPT ![ugen] = y]
    BY <1>17 DEF Live!UpstreamRefreshed
  <2> HIDE DEF y
  <2>4. /\ gens' \in Seq(Generation) /\ Len(gens') = Len(gens) /\ DOMAIN gens' = DOMAIN gens
        /\ \A i \in DOMAIN gens : gens'[i].ver = gens[i].ver /\ gens'[i].fixed = gens[i].fixed
    BY <2>1, <2>2, <2>3, LiveNoted
  <2>5. /\ Live!current' = Live!current /\ Live!Served'.ver = Live!Served.ver
        /\ Live!Served'.fixed = Live!Served.fixed /\ gens'[1].fixed = gens[1].fixed
    BY <2>4, LiveSame
  <2> QED
    BY <1>0, <1>17, <2>4, <2>5
    DEF Live!UpstreamRefreshed, LiveInv, Live!TypeOK, RequestInv, Live!ServedAsStarted, Holding,
        Live!Ended, Generation
<1>18. ASSUME UNCHANGED Live!vars PROVE LiveInv'
  BY <1>0, <1>18
  DEF Live!vars, LiveInv, Live!TypeOK, RequestInv, Live!ServedAsStarted, Live!Served,
      Live!current, Holding, Live!Ended, Generation
<1> QED
  BY <1>1, <1>2, <1>3, <1>4, <1>5, <1>6, <1>7, <1>8, <1>9, <1>10, <1>11, <1>12, <1>13,
     <1>14, <1>15, <1>16, <1>17, <1>18
  DEF Live!Next, Live!ReloadStep, Live!CatalogueStep, Live!UpstreamStep

-----------------------------------------------------------------------------
(* Discovery of models. *)

\* The union of the last good lists of a provider's accounts.
UnionOf(lists, p) == UNION {lists[d] : d \in {d \in Bindings : ProviderOf[d] = p}}

\* A request under way is its refresher's, and the refresher has the gate.
GateInv ==
    /\ gate \in Models!Refreshers \cup {Nobody}
    /\ stage \in [Models!Refreshers -> {"idle", "waiting", "refreshing", "answering"}]
    /\ todo \in [Models!Refreshers -> SUBSET Bindings]
    /\ asking \in [Models!Refreshers -> SUBSET Bindings]
    /\ \A x \in Models!Refreshers : /\ IsFiniteSet(asking[x])
                                    /\ Cardinality(asking[x]) <= REFRESH_CONCURRENCY
    /\ \A x \in Models!Refreshers : todo[x] \cup asking[x] # {} => gate = x

KnownTyped ==
    /\ cached \in [Bindings -> SUBSET ModelIds]
    /\ published \in [Models!Providers -> SUBSET ModelIds]
    /\ answers \in [Listings -> {"none", "models", "bad_gateway"}]
    /\ rounds \in [Models!Refreshers -> 0 .. Rounds]

\* What was listed is retained where it came from.
ModelsInv ==
    /\ GateInv /\ KnownTyped
    /\ \A p \in Models!Providers : published[p] = UnionOf(cached, p)
    /\ \A x \in Listings : answers[x] = "models" => Models!Listed(x) # {}

LEMMA ModelsCardinality == ASSUME NEW S PROVE Models!Cardinality(S) = Cardinality(S)
  BY DEF Cardinality, Models!Cardinality

LEMMA ModelsUnion == ASSUME ModelsInv PROVE Models!TypeOK /\ Models!PublishedIsUnion
<1>1. GateInv /\ KnownTyped
  BY DEF ModelsInv
<1>2. Models!TypeOK
  BY <1>1, ModelsCardinality DEF GateInv, KnownTyped, Models!TypeOK
<1> QED
  BY <1>2 DEF ModelsInv, UnionOf, Models!PublishedIsUnion

LEMMA ModelsInit == Models!DiscoveryAssumption /\ Models!Init => ModelsInv
<1> SUFFICES ASSUME Models!DiscoveryAssumption, Models!Init PROVE ModelsInv
  OBVIOUS
<1>1. \A x \in Models!Refreshers : todo[x] = {} /\ asking[x] = {}
  BY DEF Models!Init
<1>2. IsFiniteSet({}) /\ Cardinality({}) = 0 /\ 0 <= REFRESH_CONCURRENCY
  BY FS_EmptySet DEF Models!DiscoveryAssumption
<1>3. \A x \in Models!Refreshers : /\ IsFiniteSet(asking[x])
                                   /\ Cardinality(asking[x]) <= REFRESH_CONCURRENCY
  BY <1>1, <1>2
<1>4. GateInv
  BY <1>1, <1>3 DEF Models!Init, GateInv
<1>5. KnownTyped
  BY DEF Models!Init, Models!DiscoveryAssumption, KnownTyped
<1>6. \A p \in Models!Providers : published[p] = UnionOf(cached, p)
  BY DEF Models!Init, UnionOf
<1>7. \A x \in Listings : answers[x] # "models"
  BY DEF Models!Init
<1> QED
  BY <1>4, <1>5, <1>6, <1>7 DEF ModelsInv

\* Where lists only grow nonempty, what was listed stays listed.
LEMMA ListedStays ==
    ASSUME NEW x \in Listings, Models!Listed(x) # {}, Models!DiscoveryAssumption,
           \A d \in Bindings : cached[d] # {} => cached'[d] # {}
    PROVE  Models!Listed(x)' # {}
<1>1. Allowed[x] \subseteq Bindings
  BY DEF Models!DiscoveryAssumption, Models!Refreshers
<1>2. PICK m : m \in Models!Listed(x)
  OBVIOUS
<1>3. CASE \E d \in Allowed[x] : m \in cached[d]
  <2>1. PICK d \in Allowed[x] : m \in cached[d]
    BY <1>3
  <2>2. cached'[d] # {}
    BY <1>1, <2>1
  <2> QED
    BY <2>1, <2>2 DEF Models!Listed
<1>4. CASE \E d \in Allowed[x] : m \in Catalogue[ProviderOf[d]]
  <2>1. m \in UNION {Catalogue[ProviderOf[d]] : d \in Allowed[x]}
    BY <1>4
  <2> QED
    BY <2>1 DEF Models!Listed
<1> QED
  BY <1>2, <1>3, <1>4 DEF Models!Listed

\* A step that leaves what is known alone.
LEMMA ModelsKnown ==
    ASSUME ModelsInv, GateInv', KnownTyped', UNCHANGED <<cached, published>>,
           \A x \in Listings : answers'[x] = "models" => Models!Listed(x) # {}
    PROVE  ModelsInv'
<1>1. \A x \in Listings : Models!Listed(x)' = Models!Listed(x)
  BY DEF Models!Listed
<1> QED
  BY <1>1 DEF ModelsInv, UnionOf

\* The end of a refresher's round.
LEMMA ModelsLeave ==
    ASSUME Models!DiscoveryAssumption, ModelsInv, NEW x \in Models!Refreshers,
           NEW next \in {"idle", "answering"}, Models!Leave(x, next)
    PROVE  GateInv'
<1>1. /\ todo' = [todo EXCEPT ![x] = {}] /\ asking' = [asking EXCEPT ![x] = {}]
      /\ stage' = [stage EXCEPT ![x] = next]
      /\ gate' = IF gate = x THEN Nobody ELSE gate
  BY DEF Models!Leave
<1>2. /\ todo'[x] = {} /\ asking'[x] = {}
      /\ \A y \in Models!Refreshers : y # x => todo'[y] = todo[y] /\ asking'[y] = asking[y]
  BY <1>1 DEF ModelsInv, GateInv
<1>3. IsFiniteSet({}) /\ Cardinality({}) = 0 /\ 0 <= REFRESH_CONCURRENCY
  BY FS_EmptySet DEF Models!DiscoveryAssumption
<1>4. /\ gate' \in Models!Refreshers \cup {Nobody}
      /\ stage' \in [Models!Refreshers -> {"idle", "waiting", "refreshing", "answering"}]
      /\ todo' \in [Models!Refreshers -> SUBSET Bindings]
      /\ asking' \in [Models!Refreshers -> SUBSET Bindings]
  BY <1>1 DEF ModelsInv, GateInv
<1>5. \A y \in Models!Refreshers : /\ IsFiniteSet(asking'[y])
                                  /\ Cardinality(asking'[y]) <= REFRESH_CONCURRENCY
  <2> SUFFICES ASSUME NEW y \in Models!Refreshers
               PROVE  IsFiniteSet(asking'[y]) /\ Cardinality(asking'[y]) <= REFRESH_CONCURRENCY
    OBVIOUS
  <2>1. CASE y = x
    BY <1>2, <1>3, <2>1
  <2>2. CASE y # x
    BY <1>2, <2>2 DEF ModelsInv, GateInv
  <2> QED
    BY <2>1, <2>2
<1>6. \A y \in Models!Refreshers : todo'[y] \cup asking'[y] # {} => gate' = y
  BY <1>1, <1>2 DEF ModelsInv, GateInv
<1> QED
  BY <1>4, <1>5, <1>6 DEF GateInv

LEMMA ModelsEnter ==
    ASSUME Models!DiscoveryAssumption, ModelsInv, NEW x \in Models!Refreshers,
           gate = Nobody, Models!Enter(x), UNCHANGED asking
    PROVE  GateInv'
<1>1. \A y \in Models!Refreshers : gate # y /\ todo[y] = {} /\ asking[y] = {}
  BY DEF ModelsInv, GateInv, Models!DiscoveryAssumption
<1>2. Allowed[x] \in SUBSET Bindings
  BY DEF Models!DiscoveryAssumption
<1>3. /\ todo' = [todo EXCEPT ![x] = Allowed[x]] /\ gate' = x
      /\ stage' = [stage EXCEPT ![x] = "refreshing"]
  BY DEF Models!Enter
<1>4. /\ todo' \in [Models!Refreshers -> SUBSET Bindings]
      /\ stage' \in [Models!Refreshers -> {"idle", "waiting", "refreshing", "answering"}]
  BY <1>2, <1>3 DEF ModelsInv, GateInv
<1>5. \A y \in Models!Refreshers : y # x => todo'[y] = {} /\ asking'[y] = {}
  BY <1>1, <1>3 DEF ModelsInv, GateInv
<1>6. \A y \in Models!Refreshers : todo'[y] \cup asking'[y] # {} => gate' = y
  BY <1>3, <1>5
<1> QED
  BY <1>3, <1>4, <1>6 DEF ModelsInv, GateInv

\* One request of a refresher is over.
LEMMA ModelsAsked ==
    ASSUME Models!DiscoveryAssumption, ModelsInv, NEW x \in Models!Refreshers, NEW b \in Bindings,
           b \in asking[x], asking' = [asking EXCEPT ![x] = @ \ {b}],
           UNCHANGED <<gate, stage, todo>>
    PROVE  GateInv'
<1>1. /\ asking' \in [Models!Refreshers -> SUBSET Bindings]
      /\ asking'[x] = asking[x] \ {b}
      /\ \A y \in Models!Refreshers : y # x => asking'[y] = asking[y]
  BY DEF ModelsInv, GateInv
<1>2. /\ IsFiniteSet(asking[x]) /\ Cardinality(asking[x]) <= REFRESH_CONCURRENCY
      /\ Cardinality(asking[x]) \in Nat
  BY FS_CardinalityType DEF ModelsInv, GateInv
<1>3. /\ IsFiniteSet(asking'[x])
      /\ Cardinality(asking'[x]) = Cardinality(asking[x]) - 1
  BY <1>1, <1>2, FS_RemoveElement
<1>4. Cardinality(asking'[x]) <= REFRESH_CONCURRENCY
  BY <1>2, <1>3 DEF Models!DiscoveryAssumption
<1>5. ASSUME NEW y \in Models!Refreshers
      PROVE  IsFiniteSet(asking'[y]) /\ Cardinality(asking'[y]) <= REFRESH_CONCURRENCY
  <2>1. CASE y = x
    BY <1>3, <1>4, <2>1
  <2>2. CASE y # x
    BY <1>1, <2>2 DEF ModelsInv, GateInv
  <2> QED
    BY <2>1, <2>2
<1>6. \A y \in Models!Refreshers : todo'[y] \cup asking'[y] # {} => gate' = y
  BY <1>1 DEF ModelsInv, GateInv
<1> QED
  BY <1>1, <1>5, <1>6 DEF ModelsInv, GateInv

\* An account has answered: its list is published with those of the provider's others.
LEMMA ModelsAnswered ==
    ASSUME Models!DiscoveryAssumption, ModelsInv, NEW x \in Models!Refreshers, NEW b \in Bindings,
           Models!Answered(x, b)
    PROVE  ModelsInv' /\ \A d \in Bindings : cached[d] # {} => cached'[d] # {}
<1>1. PICK ms \in (SUBSET ModelIds) \ {{}} : cached' = [cached EXCEPT ![b] = ms]
  BY DEF Models!Answered
<1>2. /\ cached' \in [Bindings -> SUBSET ModelIds] /\ cached'[b] = ms
      /\ \A d \in Bindings : d # b => cached'[d] = cached[d]
  BY <1>1 DEF ModelsInv, KnownTyped
<1>3. \A p \in Models!Providers : published[p] \in SUBSET ModelIds
  BY DEF ModelsInv, KnownTyped
<1>4. published' = [p \in Models!Providers |->
                      IF UnionOf(cached', p) = {} THEN published[p] ELSE UnionOf(cached', p)]
  BY DEF Models!Answered, Models!publish_upstream, UnionOf
<1>5. \A p \in Models!Providers : UnionOf(cached', p) \in SUBSET ModelIds
  BY <1>2 DEF UnionOf
<1>6. published' \in [Models!Providers -> SUBSET ModelIds]
  BY <1>3, <1>4, <1>5
<1>7. GateInv' /\ KnownTyped'
  BY <1>2, <1>6, ModelsAsked DEF Models!Answered, ModelsInv, KnownTyped
<1>8. ASSUME NEW p \in Models!Providers PROVE published'[p] = UnionOf(cached', p)
  <2>1. CASE UnionOf(cached', p) # {}
    BY <1>4, <2>1
  <2>2. CASE UnionOf(cached', p) = {}
    <3>1. ProviderOf[b] # p
      <4>1. PICK m \in ms : TRUE
        BY <1>1
      <4> QED
        BY <1>2, <2>2, <4>1 DEF UnionOf
    <3>2. UnionOf(cached', p) = UnionOf(cached, p)
      BY <1>2, <3>1 DEF UnionOf
    <3> QED
      BY <1>4, <2>2, <3>2 DEF ModelsInv
  <2> QED
    BY <2>1, <2>2
<1>9. \A d \in Bindings : cached[d] # {} => cached'[d] # {}
  BY <1>2
<1>10. \A y \in Listings : answers'[y] = "models" => Models!Listed(y)' # {}
  <2> SUFFICES ASSUME NEW y \in Listings, answers[y] = "models" PROVE Models!Listed(y)' # {}
    BY DEF Models!Answered
  <2>1. Models!Listed(y) # {}
    BY DEF ModelsInv
  <2> QED
    BY <1>9, <2>1, ListedStays
<1> QED
  BY <1>7, <1>8, <1>9, <1>10 DEF ModelsInv

LEMMA ModelsNext ==
    ASSUME Models!DiscoveryAssumption, ModelsInv, [Models!Next]_(Models!vars)
    PROVE  ModelsInv' /\ Models!OnceListedStaysListed
<1> DEFINE Goal == ModelsInv' /\ Models!OnceListedStaysListed
<1>0. /\ Task \in Models!Refreshers /\ Listings \subseteq Models!Refreshers
      /\ \A x \in Listings : answers[x] = "models" => Models!Listed(x) # {}
      /\ GateInv /\ KnownTyped
  BY DEF Models!Refreshers, ModelsInv
<1>1. CASE Models!StartTask
  <2>1. GateInv' /\ KnownTyped'
    <3>1. rounds' \in [Models!Refreshers -> 0 .. Rounds]
      BY <1>0, <1>1 DEF Models!StartTask, Models!Begin, KnownTyped, Models!DiscoveryAssumption
    <3>2. stage' \in [Models!Refreshers -> {"idle", "waiting", "refreshing", "answering"}]
      BY <1>0, <1>1 DEF Models!StartTask, GateInv
    <3> QED
      BY <1>0, <1>1, <3>1, <3>2 DEF Models!StartTask, GateInv, KnownTyped
  <2>2. UNCHANGED <<cached, published, answers, asking>>
    BY <1>1 DEF Models!StartTask
  <2>3. ModelsInv'
    BY <1>0, <2>1, <2>2, ModelsKnown
  <2> QED
    BY <2>2, <2>3 DEF Models!OnceListedStaysListed
<1>2. CASE Models!TaskEnters
  <2>1. GateInv' /\ KnownTyped'
    BY <1>0, <1>2, ModelsEnter DEF Models!TaskEnters, KnownTyped
  <2>2. UNCHANGED <<cached, published, answers, asking>>
    BY <1>2 DEF Models!TaskEnters
  <2>3. ModelsInv'
    BY <1>0, <2>1, <2>2, ModelsKnown
  <2> QED
    BY <2>2, <2>3 DEF Models!OnceListedStaysListed
<1>3. ASSUME NEW x \in Listings, Models!StartListing(x) PROVE Goal
  <2>1. KnownTyped' /\ x \in Models!Refreshers
    <3>1. rounds' \in [Models!Refreshers -> 0 .. Rounds]
      BY <1>0, <1>3 DEF Models!StartListing, Models!Begin, KnownTyped, Models!DiscoveryAssumption
    <3> QED
      BY <1>0, <1>3, <3>1 DEF Models!StartListing, KnownTyped
  <2>2. UNCHANGED <<cached, published, answers, asking>>
    BY <1>3 DEF Models!StartListing
  <2>3. CASE gate = Nobody /\ Models!Enter(x)
    <3>1. GateInv'
      BY <2>1, <2>2, <2>3, ModelsEnter
    <3>2. ModelsInv'
      BY <1>0, <2>1, <2>2, <3>1, ModelsKnown
    <3> QED
      BY <2>2, <3>2 DEF Models!OnceListedStaysListed
  <2>4. CASE /\ stage' = [stage EXCEPT ![x] = "answering"] /\ UNCHANGED <<gate, todo>>
    <3>1. GateInv'
      BY <1>0, <2>1, <2>2, <2>4 DEF GateInv
    <3>2. ModelsInv'
      BY <1>0, <2>1, <2>2, <3>1, ModelsKnown
    <3> QED
      BY <2>2, <3>2 DEF Models!OnceListedStaysListed
  <2> QED
    BY <1>3, <2>3, <2>4 DEF Models!StartListing
<1>4. ASSUME NEW x \in Listings, Models!Answer(x) PROVE Goal
  <2>1. UNCHANGED <<cached, published, rounds>> /\ Models!Leave(x, "idle")
        /\ answers' = [answers EXCEPT ![x] =
                         IF Models!Listed(x) = {} THEN "bad_gateway" ELSE "models"]
    BY <1>4 DEF Models!Answer
  <2>2. /\ answers' \in [Listings -> {"none", "models", "bad_gateway"}]
        /\ \A y \in Listings : answers'[y] = "models" => Models!Listed(y) # {}
        /\ \A y \in Listings : answers[y] = "models" => answers'[y] = "models"
    BY <1>0, <2>1 DEF KnownTyped
  <2>3. GateInv' /\ KnownTyped'
    BY <1>0, <2>1, <2>2, ModelsLeave DEF KnownTyped
  <2>4. ModelsInv'
    BY <2>1, <2>2, <2>3, ModelsKnown
  <2> QED
    BY <2>2, <2>4 DEF Models!OnceListedStaysListed
<1>5. ASSUME NEW x \in Models!Refreshers, Models!Refreshed(x) \/ Models!Dropped(x) PROVE Goal
  <2>1. /\ UNCHANGED <<cached, published, answers, rounds>>
        /\ Models!Leave(x, "idle") \/ Models!Leave(x, "answering")
    BY <1>5 DEF Models!Refreshed, Models!Dropped
  <2>2. GateInv' /\ KnownTyped'
    BY <1>0, <2>1, ModelsLeave DEF KnownTyped
  <2>3. ModelsInv'
    BY <1>0, <2>1, <2>2, ModelsKnown
  <2> QED
    BY <2>1, <2>3 DEF Models!OnceListedStaysListed
<1>6. ASSUME NEW x \in Models!Refreshers, NEW b \in Bindings, Models!Ask(x, b) PROVE Goal
  <2>1. /\ UNCHANGED <<gate, stage, cached, published, answers, rounds>>
        /\ todo' \in [Models!Refreshers -> SUBSET Bindings]
        /\ asking' \in [Models!Refreshers -> SUBSET Bindings]
        /\ asking'[x] = asking[x] \cup {b} /\ gate = x
        /\ \A y \in Models!Refreshers : y # x => asking'[y] = asking[y] /\ todo'[y] = todo[y]
        /\ Cardinality(asking[x]) < REFRESH_CONCURRENCY
    <3>1. /\ b \in todo[x] /\ Cardinality(asking[x]) < REFRESH_CONCURRENCY
          /\ todo' = [todo EXCEPT ![x] = todo[x] \ {b}]
          /\ asking' = [asking EXCEPT ![x] = asking[x] \cup {b}]
          /\ UNCHANGED <<gate, stage, cached, published, answers, rounds>>
      BY <1>6, ModelsCardinality DEF Models!Ask
    <3>2. /\ todo \in [Models!Refreshers -> SUBSET Bindings]
          /\ asking \in [Models!Refreshers -> SUBSET Bindings]
          /\ todo[x] \cup asking[x] # {} => gate = x
      BY <1>0 DEF GateInv
    <3> QED
      BY <3>1, <3>2
  <2>2. /\ IsFiniteSet(asking'[x]) /\ Cardinality(asking'[x]) <= Cardinality(asking[x]) + 1
        /\ Cardinality(asking[x]) \in Nat /\ Cardinality(asking'[x]) \in Nat
    <3>1. IsFiniteSet(asking[x])
      BY <1>0 DEF GateInv
    <3>2. IsFiniteSet(asking[x] \cup {b})
          /\ Cardinality(asking[x] \cup {b}) = IF b \in asking[x] THEN Cardinality(asking[x])
                                               ELSE Cardinality(asking[x]) + 1
      BY <3>1, FS_AddElement
    <3>3. Cardinality(asking[x]) \in Nat
      BY <3>1, FS_CardinalityType
    <3> QED
      BY <2>1, <3>2, <3>3
  <2>3. Cardinality(asking'[x]) <= REFRESH_CONCURRENCY
    BY <2>1, <2>2 DEF Models!DiscoveryAssumption
  <2>4. ASSUME NEW y \in Models!Refreshers
        PROVE  IsFiniteSet(asking'[y]) /\ Cardinality(asking'[y]) <= REFRESH_CONCURRENCY
    <3>1. CASE y = x
      BY <2>2, <2>3, <3>1
    <3>2. CASE y # x
      BY <1>0, <2>1, <3>2 DEF GateInv
    <3> QED
      BY <3>1, <3>2
  <2>5. \A y \in Models!Refreshers : todo'[y] \cup asking'[y] # {} => gate' = y
    BY <1>0, <2>1 DEF GateInv
  <2>6. GateInv' /\ KnownTyped'
    BY <1>0, <2>1, <2>4, <2>5 DEF GateInv, KnownTyped
  <2>7. ModelsInv'
    BY <1>0, <2>1, <2>6, ModelsKnown
  <2> QED
    BY <2>1, <2>7 DEF Models!OnceListedStaysListed
<1>7. ASSUME NEW x \in Models!Refreshers, NEW b \in Bindings, Models!Answered(x, b) PROVE Goal
  <2>1. ModelsInv' /\ UNCHANGED answers
    BY <1>7, ModelsAnswered DEF Models!Answered
  <2> QED
    BY <2>1 DEF Models!OnceListedStaysListed
<1>8. ASSUME NEW x \in Models!Refreshers, NEW b \in Bindings, Models!Failed(x, b) PROVE Goal
  <2>1. UNCHANGED <<cached, published, answers>>
    BY <1>8 DEF Models!Failed
  <2>2. GateInv' /\ KnownTyped'
    BY <1>0, <1>8, ModelsAsked DEF Models!Failed, KnownTyped
  <2>3. ModelsInv'
    BY <1>0, <2>1, <2>2, ModelsKnown
  <2> QED
    BY <2>1, <2>3 DEF Models!OnceListedStaysListed
<1>9. CASE UNCHANGED Models!vars
  <2>1. UNCHANGED <<gate, stage, todo, asking, cached, published, answers, rounds>>
    BY <1>9 DEF Models!vars
  <2>2. GateInv' /\ KnownTyped'
    BY <1>0, <2>1 DEF GateInv, KnownTyped
  <2>3. ModelsInv'
    BY <1>0, <2>1, <2>2, ModelsKnown
  <2> QED
    BY <2>1, <2>3 DEF Models!OnceListedStaysListed
<1> QED
  BY <1>1, <1>2, <1>3, <1>4, <1>5, <1>6, <1>7, <1>8, <1>9 DEF Models!Next

-----------------------------------------------------------------------------
(* The cache of leaf certificates. *)

LEMMA LeafCardinality == ASSUME NEW S PROVE Leaf!Cardinality(S) = Cardinality(S)
  BY DEF Cardinality, Leaf!Cardinality

LeafTyped ==
    /\ clock \in 0 .. MaxClock
    /\ call \in [Connects -> {"new", "look", "sign", "store", "done", "failed"}]
    /\ now \in [Connects -> 0 .. clock]
    /\ leaf \in [Connects -> Connects \cup {NoLeaf}]

\* A cached leaf is one that a call has signed and returned, to be refreshed from its time.
EntryInv(entry) ==
    /\ entry \in Leaf!Entry
    /\ call[entry.leaf] = "done"
    /\ entry.refresh_at = now[entry.leaf] + RefreshAfter

CacheInv ==
    /\ DOMAIN cache \subseteq Hosts /\ cache = [h \in DOMAIN cache |-> cache[h]]
    /\ IsFiniteSet(DOMAIN cache) /\ Cardinality(DOMAIN cache) <= Capacity
    /\ \A h \in DOMAIN cache : EntryInv(cache[h])

\* No call is older than a call may get.
LeafInv ==
    /\ LeafTyped /\ CacheInv
    /\ \A c \in Connects : Leaf!Inside(c) => clock <= now[c] + MaxDelay

LEMMA LeafSound == ASSUME LeafInv PROVE Leaf!TypeOK /\ Leaf!Bounded
<1>1. cache \in [DOMAIN cache -> Leaf!Entry] /\ DOMAIN cache \in SUBSET Hosts
  BY DEF LeafInv, CacheInv, EntryInv
<1>2. Leaf!TypeOK
  BY <1>1 DEF LeafInv, LeafTyped, Leaf!TypeOK
<1>3. Leaf!Bounded
  BY LeafCardinality DEF LeafInv, CacheInv, Leaf!Bounded
<1> QED
  BY <1>2, <1>3

LEMMA LeafInit == Leaf!LeafAssumption /\ Leaf!Init => LeafInv
<1> SUFFICES ASSUME Leaf!LeafAssumption, Leaf!Init PROVE LeafInv
  OBVIOUS
<1>1. LeafTyped
  BY DEF Leaf!LeafAssumption, Leaf!Init, LeafTyped
<1>2. cache = [h \in {} |-> NoLeaf] /\ DOMAIN cache = {}
  BY DEF Leaf!Init
<1>3. CacheInv
  BY <1>2, FS_EmptySet DEF Leaf!LeafAssumption, CacheInv
<1>4. \A c \in Connects : ~Leaf!Inside(c)
  BY DEF Leaf!Init, Leaf!Inside
<1> QED
  BY <1>1, <1>3, <1>4 DEF LeafInv

\* What is fresh for a call has not expired when the call returns.
LEMMA FreshIsValid ==
    ASSUME Leaf!LeafAssumption, LeafInv, NEW c \in Connects, Leaf!Inside(c),
           NEW t \in Nat, now[c] < t + RefreshAfter
    PROVE  clock < t + Validity
<1>1. /\ now[c] \in Nat /\ clock \in Nat /\ clock <= now[c] + MaxDelay
  BY DEF LeafInv, LeafTyped, Leaf!LeafAssumption
<1>2. /\ RefreshAfter \in Nat /\ Validity \in Nat /\ MaxDelay \in Nat
      /\ RefreshAfter + MaxDelay <= Validity
  BY DEF Leaf!LeafAssumption
<1> QED
  BY <1>1, <1>2

\* What a step of the cache gives: the invariant, and both promises to clients.
LeafGoal == LeafInv' /\ Leaf!ReturnsValid /\ Leaf!FreshKept

\* A step that leaves the cache and what calls have returned alone.
LEMMA LeafStill ==
    ASSUME Leaf!LeafAssumption, LeafInv, LeafTyped', UNCHANGED <<cache, leaf>>, clock <= clock',
           \A c \in Connects : call[c] = "done" => call'[c] = "done" /\ now'[c] = now[c],
           \A c \in Connects : Leaf!Inside(c)' => clock' <= now'[c] + MaxDelay
    PROVE  LeafGoal
<1>1. ASSUME NEW h \in DOMAIN cache PROVE EntryInv(cache[h])'
  <2>1. EntryInv(cache[h])
    BY DEF LeafInv, CacheInv
  <2>2. Leaf!Entry \subseteq Leaf!Entry'
    BY DEF LeafInv, LeafTyped, Leaf!Entry
  <2>3. cache[h].leaf \in Connects
    BY <2>1 DEF EntryInv, Leaf!Entry
  <2> QED
    BY <2>1, <2>2, <2>3 DEF EntryInv
<1>2. CacheInv'
  BY <1>1 DEF LeafInv, CacheInv
<1>3. Leaf!ReturnsValid /\ Leaf!FreshKept
  BY DEF Leaf!ReturnsValid, Leaf!FreshKept
<1> QED
  BY <1>2, <1>3 DEF LeafInv, LeafGoal

\* A call that finds a fresh leaf returns it.
LEMMA LeafUse ==
    ASSUME Leaf!LeafAssumption, LeafInv, NEW c \in Connects, Leaf!Inside(c),
           Leaf!Fresh(c, HostOf[c]), Leaf!Use(c), UNCHANGED <<clock, now>>
    PROVE  LeafGoal
<1> DEFINE h0 == HostOf[c]
           e == [cache[h0] EXCEPT !.last_used_at = now[c]]
<1>1. /\ h0 \in DOMAIN cache /\ now[c] < cache[h0].refresh_at
      /\ EntryInv(cache[h0]) /\ now[c] \in 0 .. clock
  BY DEF Leaf!Fresh, LeafInv, CacheInv, LeafTyped
<1>2. /\ cache' = [cache EXCEPT ![h0] = e]
      /\ leaf' = [leaf EXCEPT ![c] = cache[h0].leaf]
      /\ call' = [call EXCEPT ![c] = "done"]
  BY DEF Leaf!Use
<1>3. /\ e \in Leaf!Entry /\ e.leaf = cache[h0].leaf /\ e.refresh_at = cache[h0].refresh_at
      /\ e.leaf \in Connects
  BY <1>1 DEF EntryInv, Leaf!Entry
<1> HIDE DEF h0, e
<1>4. LeafTyped'
  BY <1>2, <1>3 DEF LeafInv, LeafTyped
<1>5. /\ DOMAIN cache' = DOMAIN cache /\ cache'[h0] = e
      /\ \A h \in DOMAIN cache : h # h0 => cache'[h] = cache[h]
      /\ cache' = [h \in DOMAIN cache' |-> cache'[h]]
  BY <1>1, <1>2 DEF LeafInv, CacheInv
<1>6. /\ \A d \in Connects : d # c => call'[d] = call[d] /\ leaf'[d] = leaf[d]
      /\ call'[c] = "done" /\ leaf'[c] = cache[h0].leaf
  BY <1>2 DEF LeafInv, LeafTyped
<1>7. ASSUME NEW h \in DOMAIN cache PROVE EntryInv(cache[h])'
  <2>1. EntryInv(cache[h]) /\ Leaf!Entry' = Leaf!Entry
    BY DEF LeafInv, CacheInv, Leaf!Entry
  <2>2. \A d \in Connects : call[d] = "done" => call'[d] = "done"
    BY <1>6
  <2>3. cache'[h] \in Leaf!Entry /\ cache'[h].leaf = cache[h].leaf
        /\ cache'[h].refresh_at = cache[h].refresh_at /\ cache[h].leaf \in Connects
    BY <1>3, <1>5, <2>1 DEF EntryInv, Leaf!Entry
  <2> QED
    BY <2>1, <2>2, <2>3 DEF EntryInv
<1>8. CacheInv'
  BY <1>5, <1>7 DEF LeafInv, CacheInv
<1>9. \A d \in Connects : Leaf!Inside(d)' => clock' <= now'[d] + MaxDelay
  BY <1>6 DEF LeafInv, Leaf!Inside
<1>10. Leaf!ReturnsValid
  <2>1. now[e.leaf] \in Nat /\ now[c] < now[e.leaf] + RefreshAfter
    BY <1>1, <1>3 DEF EntryInv, LeafInv, LeafTyped
  <2>2. clock < now[e.leaf] + Validity
    BY <2>1, FreshIsValid
  <2> QED
    BY <1>3, <1>6, <2>2 DEF Leaf!ReturnsValid
<1>11. Leaf!FreshKept
  BY <1>3, <1>5 DEF Leaf!FreshKept
<1> QED
  BY <1>4, <1>8, <1>9, <1>10, <1>11 DEF LeafInv, LeafGoal

\* A call that finds none stores its own, in the place of what it finds due or of another.
LEMMA LeafInsert ==
    ASSUME Leaf!LeafAssumption, LeafInv, NEW c \in Connects, Leaf!Inside(c),
           ~Leaf!Fresh(c, HostOf[c]), Leaf!Insert(c), UNCHANGED <<clock, now>>
    PROVE  LeafGoal
<1> DEFINE h0 == HostOf[c]
           kept == Leaf!Kept(c)
           e == [leaf |-> c, refresh_at |-> now[c] + RefreshAfter, last_used_at |-> now[c]]
<1>1. PICK dropped \in Leaf!Evicted(kept) :
         cache' = [h \in (kept \ dropped) \cup {h0} |-> IF h = h0 THEN e ELSE cache[h]]
  BY DEF Leaf!Insert
<1>2. /\ leaf' = [leaf EXCEPT ![c] = c] /\ call' = [call EXCEPT ![c] = "done"]
  BY DEF Leaf!Insert
<1>3. /\ h0 \in Hosts /\ now[c] \in 0 .. clock /\ RefreshAfter \in Nat /\ now[c] \in Nat
  BY DEF LeafInv, LeafTyped, Leaf!LeafAssumption
<1>4. e \in Leaf!Entry /\ e.leaf = c /\ e.refresh_at = now[c] + RefreshAfter
  BY <1>3 DEF Leaf!Entry
<1>5. /\ kept \subseteq DOMAIN cache
      /\ \A h \in DOMAIN cache : now[c] < cache[h].refresh_at => h \in kept
      /\ h0 \notin kept
  BY DEF Leaf!Kept, Leaf!Fresh
<1>6. IsFiniteSet(DOMAIN cache) /\ Cardinality(DOMAIN cache) <= Capacity
  BY DEF LeafInv, CacheInv
<1>7. /\ IsFiniteSet(kept) /\ Cardinality(kept) <= Cardinality(DOMAIN cache)
      /\ Cardinality(kept) \in Nat /\ Cardinality(DOMAIN cache) \in Nat
  BY <1>5, <1>6, FS_Subset, FS_CardinalityType
<1>8. \/ dropped = {} /\ Cardinality(kept) < Capacity
      \/ Cardinality(kept) >= Capacity /\ \E v \in kept : dropped = {v}
  <2>1. CASE Cardinality(kept) < Capacity
    BY <1>1, <2>1, LeafCardinality DEF Leaf!Evicted
  <2>2. CASE ~(Cardinality(kept) < Capacity)
    BY <1>1, <1>7, <2>2, LeafCardinality DEF Leaf!Evicted, Leaf!LeafAssumption
  <2> QED
    BY <2>1, <2>2
<1> HIDE DEF h0, kept, e
<1> DEFINE left == kept \ dropped
<1>9. /\ IsFiniteSet(left) /\ Cardinality(left) < Capacity
  <2>1. CASE dropped = {} /\ Cardinality(kept) < Capacity
    BY <1>7, <2>1
  <2>2. CASE Cardinality(kept) >= Capacity /\ \E v \in kept : dropped = {v}
    <3>1. PICK v \in kept : dropped = {v}
      BY <2>2
    <3>2. IsFiniteSet(left) /\ Cardinality(left) = Cardinality(kept) - 1
      BY <1>7, <3>1, FS_RemoveElement
    <3> QED
      BY <1>6, <1>7, <3>2 DEF Leaf!LeafAssumption
  <2> QED
    BY <1>8, <2>1, <2>2
<1>10. /\ IsFiniteSet(left \cup {h0}) /\ Cardinality(left \cup {h0}) <= Capacity
  <2>1. /\ IsFiniteSet(left \cup {h0})
        /\ Cardinality(left \cup {h0}) = IF h0 \in left THEN Cardinality(left)
                                        ELSE Cardinality(left) + 1
    BY <1>9, FS_AddElement
  <2>2. Cardinality(left) \in Nat /\ Capacity \in Nat
    BY <1>9, FS_CardinalityType DEF Leaf!LeafAssumption
  <2> QED
    BY <1>9, <2>1, <2>2
<1>11. /\ DOMAIN cache' = left \cup {h0} /\ cache'[h0] = e
       /\ \A h \in left : h # h0 => cache'[h] = cache[h]
       /\ cache' = [h \in DOMAIN cache' |-> cache'[h]]
       /\ left \subseteq DOMAIN cache
  BY <1>1, <1>5
<1> HIDE DEF left
<1>12. /\ \A d \in Connects : d # c => call'[d] = call[d] /\ leaf'[d] = leaf[d]
       /\ call'[c] = "done" /\ leaf'[c] = c
  BY <1>2 DEF LeafInv, LeafTyped
<1>13. LeafTyped'
  BY <1>2 DEF LeafInv, LeafTyped
<1>14. ASSUME NEW h \in DOMAIN cache' PROVE EntryInv(cache[h])'
  <2>1. Leaf!Entry' = Leaf!Entry
    BY DEF Leaf!Entry
  <2>2. CASE h = h0
    BY <1>4, <1>11, <1>12, <2>1, <2>2 DEF EntryInv
  <2>3. CASE h # h0
    <3>1. h \in DOMAIN cache /\ cache'[h] = cache[h]
      BY <1>11, <2>3
    <3>2. EntryInv(cache[h])
      BY <3>1 DEF LeafInv, CacheInv
    <3>3. cache[h].leaf \in Connects
      BY <3>2 DEF EntryInv, Leaf!Entry
    <3>4. call'[cache[h].leaf] = "done"
      BY <1>12, <3>2, <3>3 DEF EntryInv
    <3> QED
      BY <2>1, <3>1, <3>2, <3>4 DEF EntryInv
  <2> QED
    BY <2>2, <2>3
<1>15. CacheInv'
  <2>1. DOMAIN cache' \subseteq Hosts
    BY <1>3, <1>11 DEF LeafInv, CacheInv
  <2> QED
    BY <1>10, <1>11, <1>14, <2>1 DEF CacheInv
<1>16. \A d \in Connects : Leaf!Inside(d)' => clock' <= now'[d] + MaxDelay
  BY <1>12 DEF LeafInv, Leaf!Inside
<1>17. Leaf!ReturnsValid
  <2>1. now[c] < now[c] + RefreshAfter
    BY <1>3 DEF Leaf!LeafAssumption
  <2>2. clock < now[c] + Validity
    BY <1>3, <2>1, FreshIsValid
  <2> QED
    BY <1>12, <2>2 DEF Leaf!ReturnsValid
<1>18. Leaf!FreshKept
  <2> SUFFICES ASSUME NEW h \in DOMAIN cache, clock < cache[h].refresh_at
               PROVE  IF h \in DOMAIN cache' THEN cache'[h].leaf = cache[h].leaf
                      ELSE Cardinality(DOMAIN cache) >= Capacity
    BY LeafCardinality DEF Leaf!FreshKept
  <2>1. cache[h].refresh_at \in Nat /\ clock \in Nat
    BY DEF LeafInv, CacheInv, EntryInv, Leaf!Entry, LeafTyped, Leaf!LeafAssumption
  <2>2. now[c] < cache[h].refresh_at
    BY <1>3, <2>1
  <2>3. h \in kept /\ h # h0
    BY <1>5, <2>2
  <2>4. CASE h \in left
    BY <1>11, <2>3, <2>4
  <2>5. CASE h \notin left
    <3>1. dropped # {}
      BY <2>3, <2>5 DEF left
    <3>2. Cardinality(kept) >= Capacity
      BY <1>8, <3>1
    <3>3. Cardinality(DOMAIN cache) >= Capacity
      BY <1>7, <3>2 DEF Leaf!LeafAssumption
    <3> QED
      BY <1>11, <2>3, <2>5, <3>3
  <2> QED
    BY <2>4, <2>5
<1> QED
  BY <1>13, <1>15, <1>16, <1>17, <1>18 DEF LeafInv, LeafGoal

LEMMA LeafNext ==
    ASSUME Leaf!LeafAssumption, LeafInv, [Leaf!Next]_(Leaf!vars)
    PROVE  LeafGoal
<1>0. LeafTyped /\ clock \in Nat /\ \A c \in Connects : now[c] \in 0 .. clock
  BY DEF LeafInv, LeafTyped, Leaf!LeafAssumption
<1>1. ASSUME NEW c \in Connects, Leaf!Begin(c) PROVE LeafGoal
  <2>1. /\ UNCHANGED <<clock, cache, leaf>> /\ call[c] = "new" /\ call'[c] = "look"
        /\ now'[c] = clock
        /\ \A d \in Connects : d # c => call'[d] = call[d] /\ now'[d] = now[d]
    BY <1>0, <1>1 DEF Leaf!Begin, LeafTyped
  <2>2. LeafTyped'
    BY <1>0, <1>1 DEF Leaf!Begin, LeafTyped
  <2>3. \A d \in Connects : Leaf!Inside(d)' => clock' <= now'[d] + MaxDelay
    BY <1>0, <2>1 DEF Leaf!Inside, LeafInv, Leaf!LeafAssumption
  <2>4. \A d \in Connects : call[d] = "done" => call'[d] = "done" /\ now'[d] = now[d]
    BY <2>1
  <2> QED
    BY <1>0, <2>1, <2>2, <2>3, <2>4, LeafStill
<1>2. ASSUME NEW c \in Connects, call[c] \in {"look", "sign"},
             \E at \in {"sign", "store", "failed"} : call' = [call EXCEPT ![c] = at],
             UNCHANGED <<clock, now, cache, leaf>>
      PROVE  LeafGoal
  <2>1. /\ LeafTyped'
        /\ \A d \in Connects : d # c => call'[d] = call[d]
    BY <1>0, <1>2 DEF LeafTyped
  <2>2. \A d \in Connects : Leaf!Inside(d)' => clock' <= now'[d] + MaxDelay
    BY <1>2, <2>1 DEF Leaf!Inside, LeafInv
  <2>3. \A d \in Connects : call[d] = "done" => call'[d] = "done" /\ now'[d] = now[d]
    BY <1>2, <2>1
  <2> QED
    BY <1>0, <1>2, <2>1, <2>2, <2>3, LeafStill
<1>3. ASSUME NEW c \in Connects, Leaf!Look(c) PROVE LeafGoal
  <2>1. Leaf!Inside(c) /\ UNCHANGED <<clock, now>> /\ call[c] = "look"
    BY <1>3 DEF Leaf!Look, Leaf!Inside
  <2>2. CASE Leaf!Fresh(c, HostOf[c])
    BY <1>3, <2>1, <2>2, LeafUse DEF Leaf!Look
  <2>3. CASE ~Leaf!Fresh(c, HostOf[c])
    <3>1. call' = [call EXCEPT ![c] = "sign"] /\ UNCHANGED <<cache, leaf>>
      BY <1>3, <2>3 DEF Leaf!Look
    <3> QED
      BY <1>2, <2>1, <3>1
  <2> QED
    BY <2>2, <2>3
<1>4. ASSUME NEW c \in Connects, Leaf!Sign(c) \/ Leaf!SignFailed(c) PROVE LeafGoal
  BY <1>2, <1>4 DEF Leaf!Sign, Leaf!SignFailed
<1>5. ASSUME NEW c \in Connects, Leaf!Store(c) PROVE LeafGoal
  <2>1. Leaf!Inside(c) /\ UNCHANGED <<clock, now>>
    BY <1>5 DEF Leaf!Store, Leaf!Inside
  <2>2. CASE Leaf!Fresh(c, HostOf[c])
    BY <1>5, <2>1, <2>2, LeafUse DEF Leaf!Store
  <2>3. CASE ~Leaf!Fresh(c, HostOf[c])
    BY <1>5, <2>1, <2>3, LeafInsert DEF Leaf!Store
  <2> QED
    BY <2>2, <2>3
<1>6. CASE Leaf!Tick
  <2>1. clock' = clock + 1 /\ clock < MaxClock /\ UNCHANGED <<call, now, cache, leaf>>
        /\ \A c \in Connects : Leaf!Inside(c) => clock < now[c] + MaxDelay
    BY <1>6 DEF Leaf!Tick
  <2>2. LeafTyped'
    BY <1>0, <2>1 DEF LeafTyped, Leaf!LeafAssumption
  <2>3. \A c \in Connects : Leaf!Inside(c)' => clock' <= now'[c] + MaxDelay
    BY <1>0, <2>1 DEF Leaf!Inside, Leaf!LeafAssumption
  <2> QED
    BY <1>0, <2>1, <2>2, <2>3, LeafStill
<1>7. CASE UNCHANGED Leaf!vars
  <2>1. UNCHANGED <<clock, call, now, cache, leaf>>
    BY <1>7 DEF Leaf!vars
  <2>2. LeafTyped'
    BY <1>0, <2>1 DEF LeafTyped
  <2>3. \A c \in Connects : Leaf!Inside(c)' => clock' <= now'[c] + MaxDelay
    BY <2>1 DEF Leaf!Inside, LeafInv
  <2> QED
    BY <1>0, <2>1, <2>2, <2>3, LeafStill
<1> QED
  BY <1>1, <1>3, <1>4, <1>5, <1>6, <1>7 DEF Leaf!Next, Leaf!Ended

-----------------------------------------------------------------------------
(* The session of a client connection. *)

Exchange == [kind : {"http", "connect"}, gen : Connect!Gens, read : 0 .. MaxBytes,
             action : Connect!Actions \cup {None},
             step : {"admit", "auth", "dispatch", "dial", "sign", "send"}]

\* An upgrade as its CONNECT was decided, with nothing of the target's stream read ahead.
UpgradeInv(u) ==
    u # None => /\ u \in Connect!Upgrade
                /\ u.action = policy[u.gen] /\ u.action # "reject" /\ u.read = 0

\* Where a request outside or inside TLS may be, and with which upgrade.
PlaceInv ==
    /\ Connect!Serving => chan = None /\ upgrade = None
    /\ ~Connect!Serving => req = None
    /\ inner # None => task \in {"inner", "innerDraining"}
    /\ task \in {"upgraded", "tunnel"} => upgrade # None

RequestOk ==
    req # None => /\ req \in Exchange /\ req.read = 0
                  /\ req.step \in {"dial", "sign", "send"} =>
                        req.action = policy[req.gen] /\ req.action # "reject"

InnerOk == inner # None => inner \in [gen : Connect!Gens, came : Connect!Gens]
                           /\ inner.gen >= inner.came

StreamOk ==
    /\ sent \in 0 .. MaxBytes /\ got \in Seq(0 .. MaxBytes)
    /\ \A k \in 1 .. Len(got) : got[k] = k

SessionTyped ==
    /\ policy \in [Connect!Gens -> Connect!Actions] /\ gen \in Connect!Gens
    /\ shutdown \in BOOLEAN /\ gone \in BOOLEAN /\ task \in Connect!Tasks

ConnectInv ==
    /\ SessionTyped /\ PlaceInv /\ RequestOk /\ InnerOk /\ StreamOk
    /\ UpgradeInv(chan) /\ UpgradeInv(upgrade)

LEMMA SessionSound ==
    ASSUME ConnectInv
    PROVE  /\ Connect!TypeOK
           /\ Connect!SendNeverBlocks /\ Connect!OneGeneration /\ Connect!InnerIsCurrent
           /\ Connect!TunnelOpaque
<1>1. Connect!TypeOK
  BY DEF ConnectInv, SessionTyped, RequestOk, InnerOk, StreamOk, UpgradeInv, Exchange,
         Connect!TypeOK
<1>2. Connect!SendNeverBlocks
  BY DEF ConnectInv, PlaceInv, Connect!Serving, Connect!SendNeverBlocks
<1>3. Connect!OneGeneration /\ Connect!InnerIsCurrent
  BY DEF ConnectInv, UpgradeInv, InnerOk, Connect!OneGeneration, Connect!InnerIsCurrent
<1>4. Connect!TunnelOpaque
  BY DEF ConnectInv, StreamOk, Connect!TunnelOpaque
<1> QED
  BY <1>1, <1>2, <1>3, <1>4

LEMMA SessionInit == Connect!SessionAssumption /\ Connect!Init => ConnectInv
<1> SUFFICES ASSUME Connect!SessionAssumption, Connect!Init PROVE ConnectInv
  OBVIOUS
<1> USE DEF Connect!Init, Connect!SessionAssumption
<1>1. SessionTyped
  BY DEF SessionTyped, Connect!Gens, Connect!Tasks
<1>2. PlaceInv /\ RequestOk /\ InnerOk /\ UpgradeInv(chan) /\ UpgradeInv(upgrade)
  BY DEF PlaceInv, RequestOk, InnerOk, UpgradeInv, Connect!Serving
<1>3. StreamOk
  BY DEF StreamOk
<1> QED
  BY <1>1, <1>2, <1>3 DEF ConnectInv

\* What a step gives: the invariant, and that a session does not end under a request.
SessionGoal == ConnectInv' /\ Connect!EndsIdle

\* The parts of the invariant a step leaves alone.
LEMMA SessionKept ==
    ASSUME ConnectInv, UNCHANGED policy
    PROVE  /\ UNCHANGED <<sent, got>> => StreamOk'
           /\ UNCHANGED inner => InnerOk'
           /\ UNCHANGED req => RequestOk'
           /\ UNCHANGED chan => UpgradeInv(chan)'
           /\ UNCHANGED upgrade => UpgradeInv(upgrade)'
           /\ UNCHANGED <<gen, shutdown, gone, task>> => SessionTyped'
           /\ UNCHANGED <<task, req, chan, upgrade, inner>> => PlaceInv'
  BY DEF ConnectInv, SessionTyped, StreamOk, InnerOk, RequestOk, UpgradeInv, PlaceInv,
         Connect!Serving

\* A step outside the session.
LEMMA SessionWorld ==
    ASSUME Connect!SessionAssumption, ConnectInv, Connect!World
    PROVE  SessionGoal
<1>1. UNCHANGED <<policy, gone, task, req, chan, upgrade, inner, got>>
  BY DEF Connect!World, Connect!Reload, Connect!Shutdown, Connect!TargetSends
<1>2. SessionTyped'
  <2>1. gen' = gen \/ (gen < MaxReload /\ gen' = gen + 1)
    BY DEF Connect!World, Connect!Reload, Connect!Shutdown, Connect!TargetSends
  <2>2. gen' \in Connect!Gens
    BY <2>1 DEF ConnectInv, SessionTyped, Connect!Gens, Connect!SessionAssumption
  <2>3. shutdown' \in BOOLEAN
    BY Zenon DEF Connect!World, Connect!Reload, Connect!Shutdown, Connect!TargetSends,
                 ConnectInv, SessionTyped
  <2> QED
    BY <1>1, <2>2, <2>3 DEF ConnectInv, SessionTyped
<1>3. StreamOk'
  <2>1. sent' = sent \/ (sent < MaxBytes /\ sent' = sent + 1)
    BY DEF Connect!World, Connect!Reload, Connect!Shutdown, Connect!TargetSends
  <2>2. sent' \in 0 .. MaxBytes
    BY <2>1 DEF ConnectInv, StreamOk, Connect!SessionAssumption
  <2> QED
    BY <1>1, <2>2 DEF ConnectInv, StreamOk
<1>4. ConnectInv'
  BY <1>1, <1>2, <1>3, SessionKept DEF ConnectInv
<1>5. Connect!EndsIdle
  BY <1>1 DEF ConnectInv, PlaceInv, Connect!Serving, Connect!EndsIdle
<1> QED
  BY <1>4, <1>5 DEF SessionGoal

\* A step of the HTTP connection that leaves the upgrade, TLS and the tunnel alone.
LEMMA SessionAsked ==
    ASSUME ConnectInv, Connect!Serving, RequestOk', Connect!Serving' \/ req' = None,
           task' \in Connect!Tasks \ {"upgraded", "tunnel"},
           UNCHANGED <<policy, gen, shutdown, gone, chan, upgrade, inner, sent, got>>,
           task' = "ended" => req = None
    PROVE  SessionGoal
<1>1. inner = None /\ chan = None /\ upgrade = None
  BY DEF ConnectInv, PlaceInv, Connect!Serving
<1>2. PlaceInv'
  BY <1>1 DEF PlaceInv
<1>3. SessionTyped'
  BY DEF ConnectInv, SessionTyped
<1>4. ConnectInv'
  BY <1>2, <1>3, SessionKept DEF ConnectInv
<1>5. Connect!EndsIdle
  BY <1>1 DEF Connect!EndsIdle
<1> QED
  BY <1>4, <1>5 DEF SessionGoal

\* A step on a request under way that keeps the connection.
LEMMA SessionRequest ==
    ASSUME ConnectInv, Connect!Serving, RequestOk',
           UNCHANGED <<policy, gen, shutdown, gone, task, chan, upgrade, inner, sent, got>>
    PROVE  SessionGoal
<1>1. task' \in Connect!Tasks \ {"upgraded", "tunnel"} /\ Connect!Serving' /\ task' # "ended"
  BY DEF Connect!Serving, Connect!Tasks
<1> QED
  BY <1>1, SessionAsked

LEMMA SessionHttp ==
    ASSUME Connect!SessionAssumption, ConnectInv, Connect!Http, Route \in {"direct", "socks5"}
    PROVE  SessionGoal
<1> USE DEF Connect!quiet
<1>1. ASSUME NEW kind \in {"http", "connect"}, Connect!Arrive(kind) PROVE SessionGoal
  <2>1. req' = [kind |-> kind, step |-> "admit", gen |-> 0, action |-> None, read |-> 0]
        /\ req' \in Exchange
    BY <1>1 DEF Connect!Arrive, Exchange, Connect!Gens, Connect!SessionAssumption
  <2>2. RequestOk'
    BY <2>1 DEF RequestOk
  <2> QED
    BY <1>1, <2>2, SessionRequest DEF Connect!Arrive, Connect!Serving
<1>2. ASSUME NEW step, Connect!At(step), Connect!Reply PROVE SessionGoal
  <2>1. RequestOk'
    BY <1>2 DEF Connect!Reply, RequestOk
  <2> QED
    BY <1>2, <2>1, SessionRequest DEF Connect!Reply, Connect!At
<1>3. CASE Connect!NotAdmitted \/ Connect!NotAuthenticated \/ Connect!Rejected
           \/ Connect!Dispatched \/ Connect!NotPrepared
  BY <1>2, <1>3
  DEF Connect!NotAdmitted, Connect!NotAuthenticated, Connect!Rejected, Connect!Dispatched,
      Connect!NotPrepared
<1>4. CASE Connect!Admitted
  <2>1. /\ req \in Exchange /\ req.read = 0 /\ gen \in Connect!Gens
        /\ req' = [req EXCEPT !.step = "auth", !.gen = gen]
    BY <1>4 DEF Connect!Admitted, Connect!At, ConnectInv, RequestOk, SessionTyped
  <2>2. req' \in Exchange /\ req'.read = 0 /\ req'.step = "auth"
    BY <2>1 DEF Exchange
  <2>3. RequestOk'
    BY <2>2 DEF RequestOk
  <2> QED
    BY <1>4, <2>3, SessionRequest DEF Connect!Admitted, Connect!At
<1>5. CASE Connect!Authenticated
  <2>1. /\ req \in Exchange /\ req.read = 0 /\ policy[req.gen] \in Connect!Actions
        /\ req.kind = "http" \/ policy[req.gen] # "reject"
    BY <1>5
    DEF Connect!Authenticated, Connect!At, Connect!Permitted, Connect!Decided, ConnectInv,
        RequestOk, SessionTyped, Exchange
  <2>2. CASE req.kind = "http"
    <3>1. req' = [req EXCEPT !.step = "dispatch"]
      BY <1>5, <2>2 DEF Connect!Authenticated
    <3>2. req' \in Exchange /\ req'.read = 0 /\ req'.step = "dispatch"
      BY <2>1, <3>1 DEF Exchange
    <3>3. RequestOk'
      BY <3>2 DEF RequestOk
    <3> QED
      BY <1>5, <3>3, SessionRequest DEF Connect!Authenticated, Connect!At
  <2>3. CASE req.kind # "http"
    <3>1. PICK step \in {"dial", "sign"} :
             req' = [req EXCEPT !.step = step, !.action = policy[req.gen]]
      BY <1>5, <2>3 DEF Connect!Authenticated, Connect!Decided
    <3>2. /\ req' \in Exchange /\ req'.read = 0 /\ req'.action = policy[req'.gen]
          /\ req'.action # "reject"
      BY <2>1, <2>3, <3>1 DEF Exchange
    <3>3. policy' = policy
      BY <1>5 DEF Connect!Authenticated
    <3>4. RequestOk'
      BY <3>2, <3>3 DEF RequestOk
    <3> QED
      BY <1>5, <3>4, SessionRequest DEF Connect!Authenticated, Connect!At
  <2> QED
    BY <2>2, <2>3
<1>6. CASE Connect!Prepared
  <2>1. PICK n \in {0} : req' = [req EXCEPT !.step = "send", !.read = n]
    BY <1>6 DEF Connect!Prepared, Connect!ReadAhead
  <2>2. /\ req \in Exchange /\ req.action = policy[req.gen] /\ req.action # "reject"
        /\ 0 \in 0 .. MaxBytes
    BY <1>6
    DEF Connect!Prepared, Connect!At, ConnectInv, RequestOk, Connect!SessionAssumption
  <2>3. /\ req' \in Exchange /\ req'.read = 0 /\ req'.action = policy[req'.gen]
        /\ req'.action # "reject"
    BY <2>1, <2>2 DEF Exchange
  <2>4. RequestOk'
    BY <1>6, <2>3 DEF Connect!Prepared, RequestOk
  <2> QED
    BY <1>6, <2>4, SessionRequest DEF Connect!Prepared, Connect!At
<1>7. CASE Connect!Send
  <2>1. /\ req # None /\ req.step = "send" /\ task \in {"serving", "draining"} /\ chan = None
        /\ chan' = [action |-> req.action, gen |-> req.gen, read |-> req.read]
        /\ req' = None /\ task' = "recv"
        /\ UNCHANGED <<policy, gen, shutdown, gone, upgrade, inner, sent, got>>
    BY <1>7 DEF Connect!Send, Connect!At, Connect!Serving, Connect!AfterConnect
  <2>2. /\ req \in Exchange /\ req.read = 0
        /\ req.action = policy[req.gen] /\ req.action # "reject"
        /\ policy[req.gen] \in Connect!Actions
    BY <2>1 DEF ConnectInv, RequestOk, SessionTyped, Exchange
  <2>3. UpgradeInv(chan)'
    BY <2>1, <2>2 DEF UpgradeInv, Connect!Upgrade, Exchange
  <2>4. PlaceInv'
    BY <2>1 DEF ConnectInv, PlaceInv, Connect!Serving
  <2>5. SessionTyped' /\ RequestOk'
    BY <2>1 DEF ConnectInv, SessionTyped, RequestOk, Connect!Tasks
  <2>6. ConnectInv'
    BY <2>1, <2>3, <2>4, <2>5, SessionKept DEF ConnectInv
  <2> QED
    BY <2>1, <2>6 DEF SessionGoal, Connect!EndsIdle
<1>8. CASE Connect!Notice
  <2>1. RequestOk' /\ task' = "draining" /\ Connect!Serving
    BY <1>8 DEF Connect!Notice, Connect!Noticed, ConnectInv, RequestOk, Connect!Serving
  <2> QED
    BY <1>8, <2>1, SessionAsked DEF Connect!Notice, Connect!Serving, Connect!Tasks
<1>9. CASE Connect!Closed
  <2>1. RequestOk' /\ task' = "recv" /\ Connect!Serving /\ req' = None
    BY <1>9 DEF Connect!Closed, ConnectInv, RequestOk
  <2> QED
    BY <1>9, <2>1, SessionAsked DEF Connect!Closed, Connect!Tasks
<1>10. CASE Connect!Failed
  <2>1. /\ task \in {"serving", "draining", "inner", "innerDraining"} /\ task' = "ended"
        /\ req = None /\ inner = None
        /\ UNCHANGED <<policy, gen, shutdown, gone, req, chan, upgrade, inner, sent, got>>
    BY <1>10 DEF Connect!Failed
  <2>2. PlaceInv' /\ SessionTyped'
    BY <2>1 DEF PlaceInv, ConnectInv, SessionTyped, Connect!Serving, Connect!Tasks
  <2>3. ConnectInv'
    BY <2>1, <2>2, SessionKept DEF ConnectInv
  <2> QED
    BY <2>1, <2>3 DEF SessionGoal, Connect!EndsIdle
<1>11. CASE Connect!Broken
  <2>1. /\ task' = "ended" /\ gone' = TRUE /\ req' = None /\ inner' = None
        /\ UNCHANGED <<policy, gen, shutdown, chan, upgrade, sent, got>>
    BY <1>11 DEF Connect!Broken
  <2>2. PlaceInv' /\ SessionTyped' /\ RequestOk' /\ InnerOk'
    BY <2>1
    DEF PlaceInv, ConnectInv, SessionTyped, RequestOk, InnerOk, Connect!Serving, Connect!Tasks
  <2>3. ConnectInv'
    BY <2>1, <2>2, SessionKept DEF ConnectInv
  <2> QED
    BY <2>1, <2>3 DEF SessionGoal, Connect!EndsIdle
<1> QED
  BY <1>1, <1>3, <1>4, <1>5, <1>6, <1>7, <1>8, <1>9, <1>10, <1>11 DEF Connect!Http

\* A step after the HTTP connection that changes at most where the task is.
LEMMA SessionMoved ==
    ASSUME ConnectInv, ~Connect!Serving, ~Connect!Serving', task' \in Connect!Tasks,
           UNCHANGED <<policy, gen, shutdown, gone, req, chan, upgrade, inner, sent, got>>,
           inner # None => task' \in {"inner", "innerDraining"},
           task' \in {"upgraded", "tunnel"} => upgrade # None
    PROVE  SessionGoal
<1>1. req = None
  BY DEF ConnectInv, PlaceInv
<1>2. PlaceInv' /\ SessionTyped'
  BY <1>1 DEF ConnectInv, PlaceInv, SessionTyped
<1>3. ConnectInv'
  BY <1>2, SessionKept DEF ConnectInv
<1> QED
  BY <1>1, <1>3 DEF SessionGoal, Connect!EndsIdle

LEMMA SessionAfter ==
    ASSUME Connect!SessionAssumption, ConnectInv, Connect!Session, Route \in {"direct", "socks5"}
    PROVE  SessionGoal
<1> USE DEF Connect!quiet
<1>0. /\ task \in Connect!Tasks
      /\ ~Connect!Serving => req = None
      /\ inner # None => task \in {"inner", "innerDraining"}
      /\ task \in {"upgraded", "tunnel"} => upgrade # None
  BY DEF ConnectInv, SessionTyped, PlaceInv
<1>1. CASE Connect!Recv
  <2>1. /\ task = "recv" /\ chan # None /\ upgrade' = chan /\ chan' = None /\ task' = "upgraded"
        /\ UNCHANGED <<policy, gen, shutdown, gone, req, inner, sent, got>>
    BY <1>1 DEF Connect!Recv
  <2>2. UpgradeInv(upgrade)' /\ UpgradeInv(chan)'
    BY <2>1 DEF ConnectInv, UpgradeInv
  <2>3. PlaceInv' /\ SessionTyped'
    BY <1>0, <2>1 DEF ConnectInv, PlaceInv, SessionTyped, Connect!Serving, Connect!Tasks
  <2>4. ConnectInv'
    BY <2>1, <2>2, <2>3, SessionKept DEF ConnectInv
  <2> QED
    BY <2>1, <2>4 DEF SessionGoal, Connect!EndsIdle
<1>2. CASE Connect!GiveUp
  BY <1>0, <1>2, SessionMoved DEF Connect!GiveUp, Connect!GivesUp, Connect!Serving, Connect!Tasks
<1>3. CASE Connect!Upgraded
  BY <1>0, <1>3, SessionMoved DEF Connect!Upgraded, Connect!Serving, Connect!Tasks
<1>4. CASE Connect!Pump
  <2>1. /\ task = "tunnel" /\ upgrade.read + Len(got) < sent
        /\ UNCHANGED <<policy, gen, shutdown, gone, task, req, chan, upgrade, inner, sent>>
    BY <1>4 DEF Connect!Pump
  <2>2. upgrade.read = 0
    BY <1>0, <2>1 DEF ConnectInv, UpgradeInv
  <2>3. /\ got \in Seq(0 .. MaxBytes) /\ Len(got) \in Nat /\ sent \in 0 .. MaxBytes
        /\ \A k \in 1 .. Len(got) : got[k] = k
    BY DEF ConnectInv, StreamOk
  <2>4. got' = Append(got, Len(got) + 1)
    BY <1>4, <2>2, <2>3 DEF Connect!Pump
  <2>5. Len(got) + 1 \in 0 .. MaxBytes
    BY <2>1, <2>2, <2>3 DEF Connect!SessionAssumption
  <2>6. /\ got' \in Seq(0 .. MaxBytes) /\ Len(got') = Len(got) + 1
        /\ \A k \in 1 .. Len(got) : got'[k] = got[k]
        /\ got'[Len(got) + 1] = Len(got) + 1
    BY <2>3, <2>4, <2>5
  <2>7. StreamOk'
    BY <2>1, <2>3, <2>6 DEF StreamOk
  <2>8. PlaceInv'
    BY <2>1 DEF ConnectInv, PlaceInv, Connect!Serving
  <2>9. ConnectInv'
    BY <2>1, <2>7, <2>8, SessionKept DEF ConnectInv
  <2> QED
    BY <2>1, <2>9 DEF SessionGoal, Connect!EndsIdle
<1>5. CASE Connect!TunnelEnds
  BY <1>0, <1>5, SessionMoved DEF Connect!TunnelEnds, Connect!Serving, Connect!Tasks
<1>6. CASE Connect!HandshakeDone
  BY <1>0, <1>6, SessionMoved DEF Connect!HandshakeDone, Connect!Serving, Connect!Tasks
<1>7. CASE Connect!HandshakeTimeout
  BY <1>0, <1>7, SessionMoved
  DEF Connect!HandshakeTimeout, Connect!HandshakeTimes, Connect!Serving, Connect!Tasks
<1>8. CASE Connect!HandshakeFails
  BY <1>0, <1>8, SessionMoved DEF Connect!HandshakeFails, Connect!Serving, Connect!Tasks
<1>9. CASE Connect!InnerArrive
  <2>1. /\ task = "inner" /\ inner' = [gen |-> gen, came |-> gen] /\ gen \in Connect!Gens
        /\ UNCHANGED <<policy, gen, shutdown, gone, task, req, chan, upgrade, sent, got>>
    BY <1>9 DEF Connect!InnerArrive, Connect!InnerState, ConnectInv, SessionTyped
  <2>2. InnerOk'
    BY <2>1 DEF InnerOk, Connect!Gens, Connect!SessionAssumption
  <2>3. PlaceInv'
    BY <2>1 DEF ConnectInv, PlaceInv, Connect!Serving
  <2>4. ConnectInv'
    BY <2>1, <2>2, <2>3, SessionKept DEF ConnectInv
  <2> QED
    BY <2>1, <2>4 DEF SessionGoal, Connect!EndsIdle
<1>10. CASE Connect!InnerDispatched
  <2>1. /\ inner # None /\ inner' = None
        /\ UNCHANGED <<policy, gen, shutdown, gone, task, req, chan, upgrade, sent, got>>
    BY <1>10 DEF Connect!InnerDispatched
  <2>2. InnerOk' /\ PlaceInv'
    BY <2>1 DEF ConnectInv, InnerOk, PlaceInv, Connect!Serving
  <2>3. ConnectInv'
    BY <2>1, <2>2, SessionKept DEF ConnectInv
  <2> QED
    BY <1>0, <2>1, <2>3 DEF SessionGoal, Connect!EndsIdle
<1>11. CASE Connect!InnerNotice
  BY <1>0, <1>11, SessionMoved DEF Connect!InnerNotice, Connect!Serving, Connect!Tasks
<1>12. CASE Connect!InnerClosed
  BY <1>0, <1>12, SessionMoved DEF Connect!InnerClosed, Connect!Serving, Connect!Tasks
<1> QED
  BY <1>1, <1>2, <1>3, <1>4, <1>5, <1>6, <1>7, <1>8, <1>9, <1>10, <1>11, <1>12
  DEF Connect!Session

LEMMA SessionNext ==
    ASSUME Connect!SessionAssumption, Route \in {"direct", "socks5"}, ConnectInv,
           [Connect!Next]_(Connect!vars)
    PROVE  SessionGoal
<1>1. CASE UNCHANGED Connect!vars
  <2>1. UNCHANGED <<policy, gen, shutdown, gone, task, req, chan, upgrade, inner, sent, got>>
    BY <1>1 DEF Connect!vars
  <2>2. ConnectInv'
    BY <2>1, SessionKept DEF ConnectInv
  <2>3. Connect!EndsIdle
    BY <2>1 DEF ConnectInv, PlaceInv, Connect!Serving, Connect!EndsIdle
  <2> QED
    BY <2>2, <2>3 DEF SessionGoal
<1> QED
  BY <1>1, SessionWorld, SessionHttp, SessionAfter DEF Connect!Next

-----------------------------------------------------------------------------
(* The progress display. *)

LEMMA BarCardinality == ASSUME NEW S PROVE Bar!Cardinality(S) = Cardinality(S)
  BY DEF Cardinality, Bar!Cardinality

\* Which line of an attempt is on the screen.
Kind(lines) == IF lines = <<>> THEN "none" ELSE lines[1].kind

\* Where an attempt may be, by what the pipeline has emitted about it: its line is missing
\* as long as a bar or a pending object is there to give it, and where no event was lost
\* an attempt that has started has the one or the other.
AttemptInv(phase, bar, held, timer, printedByObject, line, sure) ==
    /\ bar => phase # "new" /\ line = "none" /\ ~held /\ ~timer
    /\ held \/ timer => phase = "succeeded" /\ line \in {"none", "completed"}
    /\ printedByObject <=> line = "completed"
    /\ line # "none" => phase # "new"
    /\ line = "completed" => phase = "succeeded"
    /\ line = "failed" => phase = "failed"
    /\ sure => /\ phase = "running" => bar \/ line = "interrupted"
               /\ phase = "failed" => line = "failed"
               /\ phase = "succeeded" => held \/ line = "completed"
               /\ bar \/ line = "interrupted" => phase = "running"

AttemptsInv ==
    \A i \in Bar!Ids :
        AttemptInv(ph[i], i \in bars, i \in pending \cup waiting, i \in timers, i \in done,
                   Kind(printed[i]), lost = 0)

OneLineEach ==
    \A i \in Bar!Ids : printed[i] = <<>> \/ \E l \in Bar!Line : printed[i] = <<l>>

\* What flush leaves behind, step by step.
FlushInv ==
    /\ flushing = "no" => /\ waiting = {}
                          /\ \A i \in Bar!Ids : Kind(printed[i]) # "interrupted"
    /\ flushing # "no" => bars = {} /\ pending = {} /\ finishing = None
    /\ flushing = "over" => waiting = {} /\ summary = counters
    /\ finishing # None => finishing \in pending

\* Usage that came while the line was owed is in the state, and in the line.
UsageInv ==
    \A i \in Bar!Ids : <<i, "usage">> \in due =>
        /\ ph[i] # "new" /\ "usage" \in facts[i]
        /\ printed[i] # <<>> => "usage" \in printed[i][1].facts

At(phase) == {i \in Bar!Ids : ph[i] = phase}

CountInv ==
    /\ IsFiniteSet(bars)
    /\ flushing = "no" => /\ counters.in_flight <= Cardinality(bars)
                          /\ Cardinality(bars) <= counters.in_flight + orphans
    /\ lost = 0 =>
         /\ IsFiniteSet(At("running")) /\ IsFiniteSet(At("succeeded"))
         /\ IsFiniteSet(At("failed"))
         /\ counters.in_flight = Cardinality(At("running"))
         /\ counters.errors = Cardinality(At("failed"))
         /\ counters.completed = Cardinality(At("failed")) + Cardinality(At("succeeded"))

BarTyped ==
    /\ ph \in [Bar!Ids -> Bar!Phases]
    /\ lost \in 0 .. MaxLost
    /\ bars \subseteq Bar!Ids /\ pending \subseteq Bar!Ids /\ waiting \subseteq Bar!Ids
    /\ done \subseteq Bar!Ids /\ timers \subseteq Bar!Ids
    /\ due \subseteq Bar!Ids \X Bar!Facts
    /\ facts \in [Bar!Ids -> SUBSET Bar!Facts]
    /\ counters \in [in_flight : Nat, completed : Nat, errors : Nat]
    /\ finishing \in Bar!Ids \cup {None}
    /\ flushing \in {"no", "waiting", "over"}
    /\ printed \in [Bar!Ids -> Seq(Bar!Line)]
    /\ orphans \in Nat

BarInv == BarTyped /\ OneLineEach /\ AttemptsInv /\ FlushInv /\ UsageInv /\ CountInv

LEMMA BarSound ==
    ASSUME BarInv
    PROVE  /\ Bar!TypeOK
           /\ Bar!OneLine /\ Bar!SummaryComplete /\ Bar!FooterDrift /\ Bar!LineCarriesUsage
<1>1. Bar!TypeOK
  BY DEF BarInv, BarTyped, Bar!TypeOK
<1>2. Bar!OneLine
  <2>1. \A l : Len(<<l>>) = 1
    OBVIOUS
  <2>2. Len(<<>>) = 0
    OBVIOUS
  <2> SUFFICES ASSUME NEW i \in Bar!Ids PROVE Len(printed[i]) <= 1
    BY DEF Bar!OneLine
  <2>3. printed[i] = <<>> \/ \E l : printed[i] = <<l>>
    BY DEF BarInv, OneLineEach
  <2>4. Len(printed[i]) = 0 \/ Len(printed[i]) = 1
    BY <2>1, <2>2, <2>3
  <2>5. \A n : n = 0 \/ n = 1 => n <= 1
    OBVIOUS
  <2> QED
    BY <2>4, <2>5
<1>3. Bar!FooterDrift
  BY BarCardinality DEF BarInv, CountInv, Bar!FooterDrift
<1>4. Bar!LineCarriesUsage
  BY DEF BarInv, UsageInv, Bar!LineCarriesUsage
<1>5. ASSUME flushing = "over" PROVE Bar!SummaryComplete
  <2>1. bars = {} /\ pending = {} /\ waiting = {} /\ summary = counters
    BY <1>5 DEF BarInv, FlushInv
  <2>2. \A i \in Bar!Ids :
           /\ i \in done <=> Kind(printed[i]) = "completed"
           /\ lost = 0 =>
                /\ ph[i] # "new" => Kind(printed[i]) # "none"
                /\ ph[i] = "running" <=> Kind(printed[i]) = "interrupted"
                /\ ph[i] = "failed" <=> Kind(printed[i]) = "failed"
                /\ ph[i] = "succeeded" <=> Kind(printed[i]) = "completed"
    BY <2>1 DEF BarInv, AttemptsInv, AttemptInv, BarTyped, Bar!Phases
  <2>3. \A i \in Bar!Ids :
           /\ Kind(printed[i]) # "none" => printed[i] # <<>>
           /\ \A k \in {"completed", "failed", "interrupted"} :
                 printed[i] # <<>> /\ printed[i][1].kind = k <=> Kind(printed[i]) = k
    BY DEF Kind
  <2>4. done = {i \in Bar!Ids : printed[i] # <<>> /\ printed[i][1].kind = "completed"}
    BY <2>2, <2>3 DEF BarInv, BarTyped
  <2>5. ASSUME lost = 0
        PROVE  /\ Bar!Lines("interrupted") = Cardinality(At("running"))
               /\ Bar!Lines("failed") = Cardinality(At("failed"))
               /\ Bar!Lines("completed") = Cardinality(At("succeeded"))
    <3> DEFINE lined(k) == {i \in Bar!Ids : printed[i] # <<>> /\ printed[i][1].kind = k}
    <3>1. /\ lined("interrupted") = At("running")
          /\ lined("failed") = At("failed")
          /\ lined("completed") = At("succeeded")
      BY <2>2, <2>3, <2>5 DEF At
    <3> QED
      BY <3>1, BarCardinality DEF Bar!Lines
  <2>6. ASSUME lost = 0
        PROVE  /\ summary.in_flight = Bar!Lines("interrupted")
               /\ summary.errors = Bar!Lines("failed")
               /\ summary.completed = Bar!Lines("completed") + Bar!Lines("failed")
    <3>1. /\ IsFiniteSet(At("succeeded")) /\ IsFiniteSet(At("failed"))
          /\ counters.in_flight = Cardinality(At("running"))
          /\ counters.errors = Cardinality(At("failed"))
          /\ counters.completed = Cardinality(At("failed")) + Cardinality(At("succeeded"))
      BY <2>6 DEF BarInv, CountInv
    <3>2. Cardinality(At("failed")) \in Nat /\ Cardinality(At("succeeded")) \in Nat
      BY <3>1, FS_CardinalityType
    <3> QED
      BY <2>1, <2>5, <2>6, <3>1, <3>2
  <2> QED
    BY <2>2, <2>3, <2>4, <2>6 DEF Bar!SummaryComplete
<1>6. Bar!SummaryComplete
  BY <1>5 DEF Bar!SummaryComplete
<1> QED
  BY <1>1, <1>2, <1>3, <1>4, <1>6

LEMMA BarInit == Bar!ProgressAssumption /\ Bar!Init => BarInv
<1> SUFFICES ASSUME Bar!ProgressAssumption, Bar!Init PROVE BarInv
  OBVIOUS
<1> USE DEF Bar!ProgressAssumption, Bar!Init
<1>1. /\ bars = {} /\ due = {} /\ counters.in_flight = 0 /\ counters.completed = 0
      /\ counters.errors = 0 /\ orphans = 0
      /\ \A i \in Bar!Ids : ph[i] = "new" /\ printed[i] = <<>> /\ Kind(printed[i]) = "none"
  BY DEF Kind
<1>2. BarTyped
  BY DEF BarTyped, Bar!Phases
<1>3. OneLineEach /\ AttemptsInv /\ FlushInv /\ UsageInv
  BY <1>1 DEF OneLineEach, AttemptsInv, AttemptInv, FlushInv, UsageInv
<1>4. IsFiniteSet({}) /\ Cardinality({}) = 0
  BY FS_EmptySet
<1>5. At("running") = {} /\ At("succeeded") = {} /\ At("failed") = {}
  BY <1>1 DEF At
<1>6. CountInv
  <2>1. Cardinality(bars) = 0 /\ 0 <= 0 /\ 0 <= 0 + 0 /\ 0 + 0 = 0
    BY <1>1, <1>4
  <2> HIDE DEF Bar!Init, Bar!ProgressAssumption
  <2> QED
    BY <1>1, <1>4, <1>5, <2>1 DEF CountInv
<1> QED
  BY <1>2, <1>3, <1>6 DEF BarInv

\* What is known of the line of an attempt.
LEMMA BarLine ==
    ASSUME BarInv, NEW i \in Bar!Ids
    PROVE  /\ Kind(printed[i]) \in {"none", "completed", "failed", "interrupted"}
           /\ Kind(printed[i]) = "none" <=> printed[i] = <<>>
           /\ i \in bars => printed[i] = <<>> /\ ph[i] # "new"
           /\ i \in pending \cup waiting \cup timers => ph[i] = "succeeded"
           /\ i \in (pending \cup waiting \cup timers) \ done => printed[i] = <<>>
<1>1. printed[i] = <<>> => Kind(printed[i]) = "none"
  BY DEF Kind
<1>2. ASSUME NEW l \in Bar!Line, printed[i] = <<l>>
      PROVE  /\ printed[i] # <<>>
             /\ Kind(printed[i]) \in {"completed", "failed", "interrupted"}
  BY <1>2 DEF Kind, Bar!Line
<1>3. printed[i] = <<>> \/ \E l \in Bar!Line : printed[i] = <<l>>
  BY DEF BarInv, OneLineEach
<1>4. AttemptInv(ph[i], i \in bars, i \in pending \cup waiting, i \in timers, i \in done,
                 Kind(printed[i]), lost = 0)
  BY DEF BarInv, AttemptsInv
<1> QED
  BY <1>1, <1>2, <1>3, <1>4 DEF AttemptInv

\* An attempt without a line is given one.
LEMMA BarPrints ==
    ASSUME BarInv, NEW i \in Bar!Ids, NEW l \in Bar!Line, printed[i] = <<>>,
           printed' = [printed EXCEPT ![i] = Append(@, l)]
    PROVE  /\ printed' \in [Bar!Ids -> Seq(Bar!Line)] /\ OneLineEach'
           /\ printed'[i] = <<l>> /\ Kind(printed'[i]) = l.kind
           /\ \A j \in Bar!Ids : j # i => printed'[j] = printed[j]
<1>1. Append(printed[i], l) = <<l>> /\ <<l>> # <<>> /\ <<l>>[1] = l /\ <<l>> \in Seq(Bar!Line)
  OBVIOUS
<1>2. printed \in [Bar!Ids -> Seq(Bar!Line)]
  BY DEF BarInv, BarTyped
<1>3. /\ printed' \in [Bar!Ids -> Seq(Bar!Line)] /\ printed'[i] = <<l>>
      /\ \A j \in Bar!Ids : j # i => printed'[j] = printed[j]
  BY <1>1, <1>2
<1>4. OneLineEach'
  BY <1>3 DEF BarInv, OneLineEach
<1>5. Kind(printed'[i]) = l.kind
  BY <1>1, <1>3 DEF Kind
<1> QED
  BY <1>3, <1>4, <1>5

\* Whoever comes to print the line of a pending object, it is there afterwards.
LEMMA BarFinalized ==
    ASSUME BarInv, NEW i \in pending \cup waiting \cup timers, Bar!FinalizePending(i)
    PROVE  /\ printed' \in [Bar!Ids -> Seq(Bar!Line)] /\ OneLineEach'
           /\ done' = done \cup {i} /\ i \in Bar!Ids
           /\ Kind(printed'[i]) = "completed"
           /\ \A j \in Bar!Ids : j # i => printed'[j] = printed[j]
           /\ i \in done => printed' = printed
           /\ i \notin done => printed'[i] # <<>> /\ printed'[i][1].facts = facts[i]
<1>1. i \in Bar!Ids
  BY DEF BarInv, BarTyped
<1>2. CASE i \in done
  <2>1. printed' = printed /\ done' = done /\ done \cup {i} = done
    BY <1>2 DEF Bar!FinalizePending
  <2>2. Kind(printed[i]) = "completed"
    BY <1>1, <1>2 DEF BarInv, AttemptsInv, AttemptInv
  <2> QED
    BY <1>1, <1>2, <2>1, <2>2 DEF BarInv, BarTyped, OneLineEach
<1>3. CASE i \notin done
  <2> DEFINE l == [kind |-> "completed", facts |-> facts[i]]
  <2>1. l \in Bar!Line
    BY <1>1 DEF BarInv, BarTyped, Bar!Line
  <2>2. printed[i] = <<>>
    BY <1>1, <1>3, BarLine
  <2>3. printed' = [printed EXCEPT ![i] = Append(@, l)] /\ done' = done \cup {i}
    BY <1>3 DEF Bar!FinalizePending
  <2>4. l.kind = "completed" /\ l.facts = facts[i] /\ <<l>> # <<>> /\ <<l>>[1] = l
    OBVIOUS
  <2> HIDE DEF l
  <2>5. /\ printed' \in [Bar!Ids -> Seq(Bar!Line)] /\ OneLineEach'
        /\ printed'[i] = <<l>> /\ Kind(printed'[i]) = l.kind
        /\ \A j \in Bar!Ids : j # i => printed'[j] = printed[j]
    BY <1>1, <2>1, <2>2, <2>3, BarPrints
  <2> QED
    BY <1>1, <1>3, <2>3, <2>4, <2>5
<1> QED
  BY <1>2, <1>3

\* A step that moves neither attempts nor bars leaves the counts.
LEMMA BarCounted ==
    ASSUME BarInv, UNCHANGED <<ph, bars, counters, orphans, lost>>,
           flushing' = "no" => flushing = "no"
    PROVE  CountInv'
  BY DEF BarInv, CountInv, At

\* An event about an attempt that keeps its phase.
LEMMA BarTold ==
    ASSUME BarInv, flushing = "no",
           UNCHANGED <<ph, lost, bars, done, timers, counters, printed, flushing, waiting,
                       summary, orphans>>,
           pending' = pending \ done,
           facts' \in [Bar!Ids -> SUBSET Bar!Facts],
           \A i \in Bar!Ids : facts[i] \subseteq facts'[i],
           due' \subseteq Bar!Ids \X Bar!Facts,
           \A i \in Bar!Ids : <<i, "usage">> \in due' =>
               \/ <<i, "usage">> \in due
               \/ i \in Bar!Shown /\ "usage" \in facts'[i],
           finishing' # None => finishing' \in pending \ done,
           finishing' \in Bar!Ids \cup {None}
    PROVE  BarInv'
<1>1. BarTyped'
  BY DEF BarInv, BarTyped
<1>2. OneLineEach'
  BY DEF BarInv, OneLineEach
<1>3. AttemptsInv'
  <2> SUFFICES ASSUME NEW i \in Bar!Ids
               PROVE  AttemptInv(ph[i], i \in bars, i \in (pending \ done) \cup waiting,
                                 i \in timers, i \in done, Kind(printed[i]), lost = 0)
    BY DEF AttemptsInv
  <2>1. AttemptInv(ph[i], i \in bars, i \in pending \cup waiting, i \in timers, i \in done,
                   Kind(printed[i]), lost = 0)
    BY DEF BarInv, AttemptsInv
  <2> QED
    BY <2>1 DEF AttemptInv
<1>4. FlushInv'
  BY DEF BarInv, FlushInv
<1>5. UsageInv'
  <2> SUFFICES ASSUME NEW i \in Bar!Ids, <<i, "usage">> \in due'
               PROVE  /\ ph[i] # "new" /\ "usage" \in facts'[i]
                      /\ printed[i] # <<>> => "usage" \in printed[i][1].facts
    BY DEF UsageInv
  <2>1. CASE <<i, "usage">> \in due
    BY <2>1 DEF BarInv, UsageInv
  <2>2. CASE i \in Bar!Shown /\ "usage" \in facts'[i]
    <3>1. i \in bars \/ i \in (pending \cup waiting \cup timers) \ done
      BY <2>2 DEF Bar!Shown, Bar!Pruned
    <3> QED
      BY <2>2, <3>1, BarLine
  <2> QED
    BY <2>1, <2>2
<1>6. CountInv'
  BY BarCounted
<1> QED
  BY <1>1, <1>2, <1>3, <1>4, <1>5, <1>6 DEF BarInv

\* The events that leave the attempt where it is.
LEMMA BarEvent ==
    ASSUME BarInv, NEW i \in Bar!Ids,
           \/ Bar!Described(i) \/ Bar!UsageSeen(i) \/ Bar!StreamProgress(i)
           \/ \E fact \in {"status", "error"} : Bar!Noted(i, fact)
    PROVE  BarInv'
<1>1. /\ facts \in [Bar!Ids -> SUBSET Bar!Facts] /\ due \subseteq Bar!Ids \X Bar!Facts
      /\ bars \subseteq Bar!Ids /\ pending \subseteq Bar!Ids
  BY DEF BarInv, BarTyped
<1>2. ASSUME NEW j \in Bar!Ids, NEW fact \in Bar!Facts
      PROVE  /\ Bar!Merged(j, fact) \in [Bar!Ids -> SUBSET Bar!Facts]
             /\ \A k \in Bar!Ids : facts[k] \subseteq Bar!Merged(j, fact)[k]
             /\ fact \in Tracked => fact \in Bar!Merged(j, fact)[j]
  <2>1. \A k \in Bar!Ids : facts[k] \subseteq Bar!Facts
    BY <1>1
  <2>2. Bar!Merged(j, fact) = [facts EXCEPT ![j] = facts[j] \cup ({fact} \cap Tracked)]
    BY DEF Bar!Merged
  <2>3. facts[j] \cup ({fact} \cap Tracked) \in SUBSET Bar!Facts
    BY <2>1, <1>2
  <2> QED
    BY <1>1, <2>2, <2>3
<1>3. \A k \in Bar!Ids : facts[k] \subseteq facts[k]
  OBVIOUS
<1>4. {"meta", "status", "error", "usage", "bytes"} = Bar!Facts
  BY DEF Bar!Facts
<1>5. CASE Bar!Described(i)
  <2>1. /\ flushing = "no" /\ pending' = pending \ done /\ finishing = None
        /\ facts' = IF i \in bars THEN Bar!Merged(i, "meta") ELSE facts
        /\ UNCHANGED <<ph, lost, bars, done, timers, counters, printed, flushing, waiting,
                       summary, orphans, finishing, due>>
    BY <1>5 DEF Bar!Described, Bar!Free, Bar!Pruned, Bar!env, Bar!session, Bar!ghosts
  <2>2. facts' \in [Bar!Ids -> SUBSET Bar!Facts] /\ \A k \in Bar!Ids : facts[k] \subseteq facts'[k]
    BY <2>1, <1>1, <1>2, <1>3, <1>4
  <2> QED
    BY <2>1, <2>2, <1>1, BarTold
<1>6. CASE \E fact \in {"status", "error"} : Bar!Noted(i, fact)
  <2>1. PICK fact \in {"status", "error"} : Bar!Noted(i, fact)
    BY <1>6
  <2>2. /\ flushing = "no" /\ pending' = pending \ done /\ finishing = None
        /\ facts' = IF i \in Bar!Shown THEN Bar!Merged(i, fact) ELSE facts
        /\ UNCHANGED <<ph, lost, bars, done, timers, counters, printed, flushing, waiting,
                       summary, orphans, finishing, due>>
    BY <2>1 DEF Bar!Noted, Bar!Free, Bar!Pruned, Bar!env, Bar!session, Bar!ghosts
  <2>3. facts' \in [Bar!Ids -> SUBSET Bar!Facts] /\ \A k \in Bar!Ids : facts[k] \subseteq facts'[k]
    BY <2>2, <1>1, <1>2, <1>3, <1>4
  <2> QED
    BY <2>2, <2>3, <1>1, BarTold
<1>7. CASE Bar!StreamProgress(i)
  <2> DEFINE key == <<i[1], 0>>
  <2>1. /\ flushing = "no" /\ pending' = pending \ done /\ finishing = None
        /\ facts' = IF key \in bars THEN Bar!Merged(key, "bytes") ELSE facts
        /\ due' = due \cup ({<<i, "bytes">>} \cap (Bar!Shown \X Tracked))
        /\ UNCHANGED <<ph, lost, bars, done, timers, counters, printed, flushing, waiting,
                       summary, orphans, finishing>>
    BY <1>7 DEF Bar!StreamProgress, Bar!Owed, Bar!Free, Bar!Pruned, Bar!env, Bar!session
  <2>2. key \in bars => key \in Bar!Ids
    BY <1>1
  <2> HIDE DEF key
  <2>3. facts' \in [Bar!Ids -> SUBSET Bar!Facts] /\ \A k \in Bar!Ids : facts[k] \subseteq facts'[k]
    BY <2>1, <2>2, <1>1, <1>2, <1>3, <1>4
  <2>4. /\ due' \subseteq Bar!Ids \X Bar!Facts
        /\ \A k \in Bar!Ids : <<k, "usage">> \in due' => <<k, "usage">> \in due
    BY <2>1, <1>1, <1>4
  <2> QED
    BY <2>1, <2>3, <2>4, <1>1, BarTold
<1>8. CASE Bar!UsageSeen(i)
  <2>1. /\ flushing = "no" /\ pending' = pending \ done /\ finishing = None
        /\ facts' = IF i \in Bar!Shown THEN Bar!Merged(i, "usage") ELSE facts
        /\ due' = due \cup ({<<i, "usage">>} \cap (Bar!Shown \X Tracked))
        /\ finishing' = IF i \in pending \ done THEN i ELSE None
        /\ UNCHANGED <<ph, lost, bars, done, timers, counters, printed, flushing, waiting,
                       summary, orphans>>
    BY <1>8 DEF Bar!UsageSeen, Bar!MergedUsage, Bar!Owed, Bar!Free, Bar!Pruned, Bar!env
  <2>2. facts' \in [Bar!Ids -> SUBSET Bar!Facts] /\ \A k \in Bar!Ids : facts[k] \subseteq facts'[k]
    BY <2>1, <1>1, <1>2, <1>3, <1>4
  <2>3. i \in Bar!Shown /\ "usage" \in Tracked => "usage" \in facts'[i]
    BY <2>1, <1>2, <1>4
  <2>4. /\ due' \subseteq Bar!Ids \X Bar!Facts
        /\ \A k \in Bar!Ids : <<k, "usage">> \in due' =>
              <<k, "usage">> \in due \/ (k \in Bar!Shown /\ "usage" \in facts'[k])
    BY <2>1, <2>3, <1>1, <1>4
  <2>5. (finishing' # None => finishing' \in pending \ done) /\ finishing' \in Bar!Ids \cup {None}
    BY <2>1
  <2> QED
    BY <2>1, <2>2, <2>4, <2>5, BarTold
<1> QED
  BY <1>5, <1>6, <1>7, <1>8

\* A step that prints the line of a pending object and moves no attempt.
LEMMA BarPrinted ==
    ASSUME BarInv, NEW i \in pending \cup waiting \cup timers, Bar!FinalizePending(i),
           UNCHANGED <<ph, lost, bars, facts, counters, orphans, due>>,
           pending' \subseteq pending, waiting' \subseteq waiting, timers' \subseteq timers,
           \A j \in Bar!Ids : j # i => /\ j \in pending => j \in pending'
                                       /\ j \in waiting => j \in waiting',
           FlushInv', finishing' \in Bar!Ids \cup {None},
           flushing' \in {"no", "waiting", "over"}, flushing' = "no" => flushing = "no"
    PROVE  BarInv'
<1>1. /\ printed' \in [Bar!Ids -> Seq(Bar!Line)] /\ OneLineEach'
      /\ done' = done \cup {i} /\ i \in Bar!Ids
      /\ Kind(printed'[i]) = "completed"
      /\ \A j \in Bar!Ids : j # i => printed'[j] = printed[j]
      /\ i \in done => printed' = printed
      /\ i \notin done => printed'[i] # <<>> /\ printed'[i][1].facts = facts[i]
  BY BarFinalized
<1>2. BarTyped'
  BY <1>1 DEF BarInv, BarTyped
<1>3. ph[i] = "succeeded" /\ i \notin bars
  BY <1>1 DEF BarInv, AttemptsInv, AttemptInv
<1>4. AttemptsInv'
  <2> SUFFICES ASSUME NEW j \in Bar!Ids
               PROVE  AttemptInv(ph[j], j \in bars, j \in pending' \cup waiting', j \in timers',
                                 j \in done', Kind(printed'[j]), lost = 0)
    BY DEF AttemptsInv
  <2>1. AttemptInv(ph[j], j \in bars, j \in pending \cup waiting, j \in timers, j \in done,
                   Kind(printed[j]), lost = 0)
    BY DEF BarInv, AttemptsInv
  <2>2. CASE j = i
    BY <1>1, <1>3, <2>1, <2>2 DEF AttemptInv
  <2>3. CASE j # i
    <3>1. Kind(printed'[j]) = Kind(printed[j]) /\ (j \in done' <=> j \in done)
      BY <1>1, <2>3
    <3>2. j \in pending' \cup waiting' <=> j \in pending \cup waiting
      BY <2>3
    <3> QED
      BY <2>1, <3>1, <3>2 DEF AttemptInv
  <2> QED
    BY <2>2, <2>3
<1>5. UsageInv'
  <2> SUFFICES ASSUME NEW j \in Bar!Ids, <<j, "usage">> \in due
               PROVE  /\ ph[j] # "new" /\ "usage" \in facts[j]
                      /\ printed'[j] # <<>> => "usage" \in printed'[j][1].facts
    BY DEF UsageInv
  <2>1. /\ ph[j] # "new" /\ "usage" \in facts[j]
        /\ printed[j] # <<>> => "usage" \in printed[j][1].facts
    BY DEF BarInv, UsageInv
  <2> QED
    BY <1>1, <2>1
<1>6. CountInv'
  BY BarCounted
<1> QED
  BY <1>1, <1>2, <1>4, <1>5, <1>6 DEF BarInv

\* The grace thread, the handler after usage, and flush with a pending object.
LEMMA BarObject ==
    ASSUME BarInv,
           \/ Bar!FinishWaiting
           \/ \E i \in Bar!Ids : Bar!GraceOver(i) \/ Bar!FlushOne(i)
    PROVE  BarInv'
<1>1. CASE Bar!FinishWaiting
  <2>1. /\ finishing \in pending /\ Bar!FinalizePending(finishing)
        /\ pending' = pending \ {finishing} /\ finishing' = None
        /\ UNCHANGED <<ph, lost, bars, facts, timers, counters, flushing, waiting, summary,
                       orphans, due>>
    BY <1>1 DEF Bar!FinishWaiting, Bar!env, Bar!ghosts, BarInv, FlushInv
  <2>2. flushing = "no" /\ flushing \in {"no", "waiting", "over"}
    BY <2>1 DEF BarInv, BarTyped, FlushInv
  <2>3. FlushInv'
    <3>1. \A j \in Bar!Ids : Kind(printed'[j]) # "interrupted"
      BY <2>1, <2>2, BarFinalized DEF BarInv, FlushInv
    <3> QED
      BY <2>1, <2>2, <3>1 DEF BarInv, FlushInv
  <2> QED
    BY <2>1, <2>2, <2>3, BarPrinted
<1>2. ASSUME NEW i \in Bar!Ids, Bar!GraceOver(i) PROVE BarInv'
  <2>1. /\ i \in timers /\ flushing # "over" /\ Bar!FinalizePending(i)
        /\ timers' = timers \ {i}
        /\ UNCHANGED <<ph, lost, bars, facts, pending, counters, finishing, flushing, waiting,
                       summary, orphans, due>>
    BY <1>2 DEF Bar!GraceOver, Bar!env, Bar!session, Bar!ghosts
  <2>2. flushing \in {"no", "waiting", "over"} /\ finishing \in Bar!Ids \cup {None}
    BY DEF BarInv, BarTyped
  <2>3. FlushInv'
    <3>1. flushing = "no" => \A j \in Bar!Ids : Kind(printed'[j]) # "interrupted"
      BY <2>1, BarFinalized DEF BarInv, FlushInv
    <3> QED
      BY <2>1, <3>1 DEF BarInv, FlushInv
  <2> QED
    BY <2>1, <2>2, <2>3, BarPrinted
<1>3. ASSUME NEW i \in Bar!Ids, Bar!FlushOne(i) PROVE BarInv'
  <2>1. /\ i \in waiting /\ flushing = "waiting" /\ Bar!FinalizePending(i)
        /\ waiting' = waiting \ {i}
        /\ UNCHANGED <<ph, lost, bars, facts, pending, timers, counters, finishing, flushing,
                       summary, orphans, due>>
    BY <1>3 DEF Bar!FlushOne, Bar!env, Bar!ghosts
  <2>2. finishing \in Bar!Ids \cup {None}
    BY DEF BarInv, BarTyped
  <2>3. FlushInv'
    BY <2>1 DEF BarInv, FlushInv
  <2> QED
    BY <2>1, <2>2, <2>3, BarPrinted
<1> QED
  BY <1>1, <1>2, <1>3

\* The pipeline's events that move an attempt: overwritten, the first, and the last.
LEMMA BarPhase ==
    ASSUME Bar!ProgressAssumption, BarInv, NEW i \in Bar!Ids,
           \/ Bar!Overwritten(i) \/ Bar!Started(i) \/ \E ok \in BOOLEAN : Bar!Completed(i, ok)
    PROVE  BarInv'
<1>1. /\ ph \in [Bar!Ids -> Bar!Phases] /\ lost \in Nat /\ orphans \in Nat
      /\ bars \subseteq Bar!Ids /\ pending \subseteq Bar!Ids
      /\ counters \in [in_flight : Nat, completed : Nat, errors : Nat]
      /\ printed \in [Bar!Ids -> Seq(Bar!Line)]
      /\ facts \in [Bar!Ids -> SUBSET Bar!Facts] /\ IsFiniteSet(bars)
  BY DEF BarInv, BarTyped, CountInv
<1>2. \A j \in Bar!Ids :
         AttemptInv(ph[j], j \in bars, j \in pending \cup waiting, j \in timers, j \in done,
                    Kind(printed[j]), lost = 0)
  BY DEF BarInv, AttemptsInv
<1>3. Cardinality(bars) \in Nat
  BY <1>1, FS_CardinalityType
<1>4. CASE Bar!Overwritten(i)
  <2>1. /\ flushing = "no" /\ lost' = lost + 1 /\ lost < MaxLost
        /\ UNCHANGED <<bars, facts, counters, printed, pending, done, timers, finishing,
                       flushing, waiting, summary, orphans, due>>
    BY <1>4 DEF Bar!Overwritten, Bar!objects, Bar!session, Bar!ghosts
  <2>2. PICK y \in {"running", "succeeded", "failed"} :
          /\ ph' = [ph EXCEPT ![i] = y]
          /\ ph[i] = "new" \/ (ph[i] = "running" /\ y \in {"succeeded", "failed"})
    BY <1>4 DEF Bar!Overwritten, Bar!MayStart
  <2>3. /\ ph' \in [Bar!Ids -> Bar!Phases] /\ ph'[i] = y
        /\ \A j \in Bar!Ids : j # i => ph'[j] = ph[j]
    BY <1>1, <2>2 DEF Bar!Phases
  <2>4. lost' # 0 /\ lost' \in 0 .. MaxLost
    BY <1>1, <2>1 DEF Bar!ProgressAssumption
  <2>5. BarTyped'
    BY <2>1, <2>3, <2>4 DEF BarInv, BarTyped
  <2>6. AttemptsInv'
    <3> SUFFICES ASSUME NEW j \in Bar!Ids
                 PROVE  AttemptInv(ph'[j], j \in bars, j \in pending \cup waiting, j \in timers,
                                   j \in done, Kind(printed[j]), lost' = 0)
      BY <2>1 DEF AttemptsInv
    <3>1. CASE j = i
      BY <1>2, <2>2, <2>3, <2>4, <3>1 DEF AttemptInv
    <3>2. CASE j # i
      BY <1>2, <2>3, <2>4, <3>2 DEF AttemptInv
    <3> QED
      BY <3>1, <3>2
  <2>7. OneLineEach' /\ FlushInv' /\ UsageInv'
    BY <2>1, <2>3 DEF BarInv, OneLineEach, FlushInv, UsageInv
  <2>8. CountInv'
    BY <2>1, <2>4 DEF BarInv, CountInv
  <2> QED
    BY <2>5, <2>6, <2>7, <2>8 DEF BarInv
<1>5. CASE Bar!Started(i)
  <2>1. /\ flushing = "no" /\ finishing = None /\ ph[i] = "new"
        /\ ph' = [ph EXCEPT ![i] = "running"] /\ bars' = bars \cup {i}
        /\ facts' = [facts EXCEPT ![i] = {}] /\ pending' = pending \ done
        /\ counters' = [counters EXCEPT !.in_flight = @ + 1]
        /\ UNCHANGED <<lost, done, timers, printed, finishing, flushing, waiting, summary,
                       orphans, due>>
    BY <1>5 DEF Bar!Started, Bar!Free, Bar!MayStart, Bar!Pruned, Bar!session, Bar!ghosts
  <2>2. /\ ph' \in [Bar!Ids -> Bar!Phases] /\ ph'[i] = "running"
        /\ \A j \in Bar!Ids : j # i => ph'[j] = ph[j]
    BY <1>1, <2>1 DEF Bar!Phases
  <2>3. /\ facts' \in [Bar!Ids -> SUBSET Bar!Facts]
        /\ \A j \in Bar!Ids : j # i => facts'[j] = facts[j]
    BY <1>1, <2>1
  <2>4. /\ counters' \in [in_flight : Nat, completed : Nat, errors : Nat]
        /\ counters'.in_flight = counters.in_flight + 1
        /\ counters'.completed = counters.completed /\ counters'.errors = counters.errors
    <3>1. counters.in_flight \in Nat /\ counters.in_flight + 1 \in Nat
      BY <1>1
    <3> QED
      BY <1>1, <2>1, <3>1
  <2>5. i \notin bars
    BY <1>2, <2>1 DEF AttemptInv
  <2>6. BarTyped'
    BY <2>1, <2>2, <2>3, <2>4 DEF BarInv, BarTyped
  <2>7. AttemptsInv'
    <3> SUFFICES ASSUME NEW j \in Bar!Ids
                 PROVE  AttemptInv(ph'[j], j \in bars', j \in (pending \ done) \cup waiting,
                                   j \in timers, j \in done, Kind(printed[j]), lost = 0)
      BY <2>1 DEF AttemptsInv
    <3>1. CASE j = i
      BY <1>2, <2>1, <2>2, <3>1, BarLine DEF AttemptInv, BarInv, FlushInv
    <3>2. CASE j # i
      <4>1. j \in bars' <=> j \in bars
        BY <2>1, <3>2
      <4> QED
        BY <1>2, <2>2, <3>2, <4>1 DEF AttemptInv
    <3> QED
      BY <3>1, <3>2
  <2>8. OneLineEach' /\ FlushInv'
    BY <2>1 DEF BarInv, OneLineEach, FlushInv
  <2>9. UsageInv'
    BY <2>1, <2>2, <2>3 DEF BarInv, UsageInv
  <2>10. CountInv'
    <3>1. IsFiniteSet(bars') /\ Cardinality(bars') = Cardinality(bars) + 1
      BY <1>1, <2>1, <2>5, FS_AddElement
    <3>2. /\ counters.in_flight <= Cardinality(bars)
          /\ Cardinality(bars) <= counters.in_flight + orphans
      BY <2>1 DEF BarInv, CountInv
    <3>3. /\ counters'.in_flight <= Cardinality(bars')
          /\ Cardinality(bars') <= counters'.in_flight + orphans'
      BY <1>1, <1>3, <2>1, <2>4, <3>1, <3>2
    <3>4. /\ i \notin At("running") /\ At("running")' = At("running") \cup {i}
          /\ At("succeeded")' = At("succeeded") /\ At("failed")' = At("failed")
      <4>1. i \notin At("running") /\ At("running")' = At("running") \cup {i}
        BY <2>1, <2>2 DEF At
      <4>2. At("succeeded")' = At("succeeded") /\ At("failed")' = At("failed")
        BY <2>1, <2>2 DEF At
      <4> QED
        BY <4>1, <4>2
    <3>5. ASSUME lost = 0
          PROVE  /\ IsFiniteSet(At("running")) /\ IsFiniteSet(At("running")')
                 /\ counters'.in_flight = Cardinality(At("running")')
      <4>1. IsFiniteSet(At("running")) /\ counters.in_flight = Cardinality(At("running"))
        BY <3>5 DEF BarInv, CountInv
      <4> QED
        BY <2>4, <3>4, <4>1, FS_AddElement
    <3>6. ASSUME lost = 0
          PROVE  /\ IsFiniteSet(At("succeeded")) /\ IsFiniteSet(At("failed"))
                 /\ counters'.errors = Cardinality(At("failed"))
                 /\ counters'.completed = Cardinality(At("failed")) + Cardinality(At("succeeded"))
      BY <2>4, <3>6 DEF BarInv, CountInv
    <3> QED
      BY <2>1, <3>1, <3>3, <3>4, <3>5, <3>6 DEF CountInv
  <2> QED
    BY <2>6, <2>7, <2>8, <2>9, <2>10 DEF BarInv
<1>6. ASSUME NEW ok \in BOOLEAN, Bar!Completed(i, ok) PROVE BarInv'
  <2> DEFINE y == IF ok THEN "succeeded" ELSE "failed"
             l == [kind |-> "failed", facts |-> facts[i]]
             kept == IF i \in bars /\ ok THEN {i} ELSE {}
  <2>1. /\ flushing = "no" /\ finishing = None /\ ph[i] = "running"
        /\ ph' = [ph EXCEPT ![i] = y] /\ bars' = bars \ {i}
        /\ pending' = (pending \ done) \cup kept /\ timers' = timers \cup kept
        /\ printed' = IF i \in bars /\ ~ok THEN [printed EXCEPT ![i] = Append(@, l)] ELSE printed
        /\ orphans' = IF i \in bars THEN orphans ELSE orphans + 1
        /\ UNCHANGED <<lost, facts, done, finishing, flushing, waiting, summary, due>>
    BY <1>6, Zenon DEF Bar!Completed, Bar!Free, Bar!Pruned, Bar!GraceThreads, Bar!session
  <2>2. /\ ph' \in [Bar!Ids -> Bar!Phases] /\ ph'[i] = y
        /\ \A j \in Bar!Ids : j # i => ph'[j] = ph[j]
    BY <1>1, <2>1 DEF Bar!Phases
  <2>3. /\ counters' \in [in_flight : Nat, completed : Nat, errors : Nat]
        /\ counters'.in_flight = IF counters.in_flight < 1 THEN 0 ELSE counters.in_flight - 1
        /\ counters'.completed = counters.completed + 1
        /\ counters'.errors = IF ok THEN counters.errors ELSE counters.errors + 1
    <3> DEFINE f == IF counters.in_flight < 1 THEN 0 ELSE counters.in_flight - 1
               e == IF ok THEN counters.errors ELSE counters.errors + 1
    <3>1. f \in Nat /\ e \in Nat /\ counters.completed + 1 \in Nat
      BY <1>1
    <3>2. counters' = [counters EXCEPT !.in_flight = f, !.completed = counters.completed + 1,
                                       !.errors = e]
      BY <1>6 DEF Bar!Completed, Bar!Counted, Bar!Subtracted
    <3> HIDE DEF f, e
    <3>3. /\ counters' \in [in_flight : Nat, completed : Nat, errors : Nat]
          /\ counters'.in_flight = f /\ counters'.completed = counters.completed + 1
          /\ counters'.errors = e
      BY <1>1, <3>1, <3>2
    <3> QED
      BY <3>3 DEF f, e
  <2>4. /\ printed' \in [Bar!Ids -> Seq(Bar!Line)] /\ OneLineEach'
        /\ \A j \in Bar!Ids : j # i => printed'[j] = printed[j]
        /\ i \in bars /\ ~ok => Kind(printed'[i]) = "failed" /\ printed'[i] = <<l>>
        /\ ~(i \in bars /\ ~ok) => printed' = printed
    <3>1. CASE i \in bars /\ ~ok
      <4>1. l \in Bar!Line /\ l.kind = "failed" /\ printed[i] = <<>>
        BY <1>1, <3>1, BarLine DEF Bar!Line
      <4> HIDE DEF l
      <4>2. /\ printed' \in [Bar!Ids -> Seq(Bar!Line)] /\ OneLineEach'
            /\ printed'[i] = <<l>> /\ Kind(printed'[i]) = l.kind
            /\ \A j \in Bar!Ids : j # i => printed'[j] = printed[j]
        BY <2>1, <3>1, <4>1, BarPrints
      <4> QED
        BY <3>1, <4>1, <4>2
    <3>2. CASE ~(i \in bars /\ ~ok)
      <4>1. printed' = printed
        BY <2>1, <3>2
      <4> QED
        BY <1>1, <3>2, <4>1 DEF BarInv, OneLineEach
    <3> QED
      BY <3>1, <3>2
  <2>5. BarTyped'
    <3>1. kept \subseteq Bar!Ids /\ orphans' \in Nat
      BY <1>1, <2>1
    <3> QED
      BY <2>1, <2>2, <2>3, <2>4, <3>1 DEF BarInv, BarTyped
  <2>6. AttemptsInv'
    <3> SUFFICES ASSUME NEW j \in Bar!Ids
                 PROVE  AttemptInv(ph'[j], j \in bars', j \in pending' \cup waiting, j \in timers',
                                   j \in done, Kind(printed'[j]), lost = 0)
      BY <2>1 DEF AttemptsInv
    <3>1. CASE j = i
      <4>1. /\ i \notin bars' /\ i \notin pending /\ i \notin waiting /\ i \notin timers
            /\ i \notin done /\ Kind(printed[i]) \in {"none", "interrupted"}
            /\ Kind(printed[i]) # "interrupted" /\ (lost = 0 => i \in bars)
        BY <1>2, <2>1, BarLine DEF AttemptInv, BarInv, FlushInv
      <4>2. /\ i \in pending' \cup waiting <=> i \in bars /\ ok
            /\ i \in timers' <=> i \in bars /\ ok
        BY <2>1, <4>1
      <4>3. Kind(printed'[i]) = IF i \in bars /\ ~ok THEN "failed" ELSE "none"
        BY <2>4, <4>1
      <4> QED
        BY <2>2, <3>1, <4>1, <4>2, <4>3 DEF AttemptInv
    <3>2. CASE j # i
      <4>1. /\ j \in bars' <=> j \in bars
            /\ j \in pending' \cup waiting <=> j \in (pending \ done) \cup waiting
            /\ j \in timers' <=> j \in timers
            /\ printed'[j] = printed[j] /\ ph'[j] = ph[j]
        BY <2>1, <2>2, <2>4, <3>2
      <4> QED
        BY <1>2, <4>1 DEF AttemptInv
    <3> QED
      BY <3>1, <3>2
  <2>7. FlushInv'
    <3>1. \A j \in Bar!Ids : Kind(printed'[j]) # "interrupted"
      BY <2>1, <2>4 DEF BarInv, FlushInv
    <3> QED
      BY <2>1, <3>1 DEF BarInv, FlushInv
  <2>8. UsageInv'
    <3> SUFFICES ASSUME NEW j \in Bar!Ids, <<j, "usage">> \in due
                 PROVE  /\ ph'[j] # "new" /\ "usage" \in facts[j]
                        /\ printed'[j] # <<>> => "usage" \in printed'[j][1].facts
      BY <2>1 DEF UsageInv
    <3>1. /\ ph[j] # "new" /\ "usage" \in facts[j]
          /\ printed[j] # <<>> => "usage" \in printed[j][1].facts
      BY DEF BarInv, UsageInv
    <3>2. <<l>>[1].facts = facts[i]
      OBVIOUS
    <3> HIDE DEF l
    <3> QED
      BY <2>2, <2>4, <3>1, <3>2
  <2>9. CountInv'
    <3>1. /\ IsFiniteSet(bars')
          /\ Cardinality(bars') = IF i \in bars THEN Cardinality(bars) - 1 ELSE Cardinality(bars)
      BY <1>1, <2>1, FS_RemoveElement
    <3>2. Cardinality(bars') \in Nat
      BY <3>1, FS_CardinalityType
    <3>3. /\ counters.in_flight <= Cardinality(bars)
          /\ Cardinality(bars) <= counters.in_flight + orphans
      BY <2>1 DEF BarInv, CountInv
    <3>4. /\ counters'.in_flight <= Cardinality(bars')
          /\ Cardinality(bars') <= counters'.in_flight + orphans'
      BY <1>1, <1>3, <2>1, <2>3, <3>1, <3>2, <3>3
    <3>5. /\ i \in At("running") /\ At("running")' = At("running") \ {i}
          /\ i \notin At("succeeded") /\ i \notin At("failed")
          /\ At("succeeded")' = IF ok THEN At("succeeded") \cup {i} ELSE At("succeeded")
          /\ At("failed")' = IF ok THEN At("failed") ELSE At("failed") \cup {i}
      <4>1. i \in At("running") /\ i \notin At("succeeded") /\ i \notin At("failed")
        BY <2>1 DEF At
      <4>2. At("running")' = At("running") \ {i}
        BY <2>1, <2>2 DEF At
      <4>3. At("succeeded")' = IF ok THEN At("succeeded") \cup {i} ELSE At("succeeded")
        BY <2>1, <2>2 DEF At
      <4>4. At("failed")' = IF ok THEN At("failed") ELSE At("failed") \cup {i}
        BY <2>1, <2>2 DEF At
      <4> QED
        BY <4>1, <4>2, <4>3, <4>4
    <3>6. ASSUME lost = 0
          PROVE  /\ IsFiniteSet(At("running")') /\ IsFiniteSet(At("succeeded")')
                 /\ IsFiniteSet(At("failed")')
                 /\ counters'.in_flight = Cardinality(At("running")')
                 /\ counters'.errors = Cardinality(At("failed")')
                 /\ counters'.completed = Cardinality(At("failed")') + Cardinality(At("succeeded")')
      <4>1. /\ IsFiniteSet(At("running")) /\ IsFiniteSet(At("succeeded"))
            /\ IsFiniteSet(At("failed"))
            /\ counters.in_flight = Cardinality(At("running"))
            /\ counters.errors = Cardinality(At("failed"))
            /\ counters.completed = Cardinality(At("failed")) + Cardinality(At("succeeded"))
        BY <3>6 DEF BarInv, CountInv
      <4>2. /\ IsFiniteSet(At("running")')
            /\ Cardinality(At("running")') = Cardinality(At("running")) - 1
            /\ Cardinality(At("running")') \in Nat
        BY <3>5, <4>1, FS_RemoveElement, FS_CardinalityType
      <4>3. /\ IsFiniteSet(At("succeeded")')
            /\ Cardinality(At("succeeded")') = IF ok THEN Cardinality(At("succeeded")) + 1
                                                     ELSE Cardinality(At("succeeded"))
        BY <3>5, <4>1, FS_AddElement
      <4>4. /\ IsFiniteSet(At("failed")')
            /\ Cardinality(At("failed")') = IF ok THEN Cardinality(At("failed"))
                                                  ELSE Cardinality(At("failed")) + 1
        BY <3>5, <4>1, FS_AddElement
      <4>5. /\ Cardinality(At("running")) \in Nat /\ Cardinality(At("succeeded")) \in Nat
            /\ Cardinality(At("failed")) \in Nat
        BY <4>1, FS_CardinalityType
      <4>6. counters'.in_flight = Cardinality(At("running")')
        BY <2>3, <4>1, <4>2, <4>5
      <4>7. counters'.errors = Cardinality(At("failed")')
        BY <2>3, <4>1, <4>4
      <4>8. counters'.completed = Cardinality(At("failed")') + Cardinality(At("succeeded")')
        BY <2>3, <4>1, <4>3, <4>4, <4>5
      <4> QED
        BY <4>2, <4>3, <4>4, <4>6, <4>7, <4>8
    <3> QED
      BY <2>1, <3>1, <3>4, <3>6 DEF CountInv
  <2> QED
    BY <2>4, <2>5, <2>6, <2>7, <2>8, <2>9 DEF BarInv
<1> QED
  BY <1>4, <1>5, <1>6

\* The end of the session.
LEMMA BarFlush ==
    ASSUME BarInv, Bar!FlushBars \/ Bar!FlushSummary
    PROVE  BarInv'
<1>1. CASE Bar!FlushBars
  <2> DEFINE l(j) == [kind |-> "interrupted", facts |-> facts[j]]
  <2>1. /\ flushing = "no" /\ finishing = None /\ flushing' = "waiting"
        /\ printed' = [j \in Bar!Ids |-> IF j \in bars THEN Append(printed[j], l(j))
                                                       ELSE printed[j]]
        /\ bars' = {} /\ waiting' = pending /\ pending' = {}
        /\ UNCHANGED <<ph, lost, facts, done, timers, counters, finishing, summary, orphans,
                       due>>
    BY <1>1 DEF Bar!FlushBars, Bar!Free, Bar!FlushWaiting, Bar!env, Bar!ghosts
  <2>2. waiting = {} /\ facts \in [Bar!Ids -> SUBSET Bar!Facts]
        /\ printed \in [Bar!Ids -> Seq(Bar!Line)]
    BY <2>1 DEF BarInv, BarTyped, FlushInv
  <2>3. ASSUME NEW j \in Bar!Ids
        PROVE  /\ j \notin bars => printed'[j] = printed[j]
               /\ j \in bars => /\ printed'[j] = <<l(j)>> /\ Kind(printed'[j]) = "interrupted"
                                /\ printed'[j][1].facts = facts[j] /\ l(j) \in Bar!Line
    <3>1. CASE j \in bars
      <4>1. printed[j] = <<>> /\ l(j) \in Bar!Line /\ l(j).kind = "interrupted"
            /\ l(j).facts = facts[j]
        BY <2>2, <3>1, BarLine DEF Bar!Line
      <4> HIDE DEF l
      <4>2. Append(<<>>, l(j)) = <<l(j)>> /\ <<l(j)>> # <<>> /\ <<l(j)>>[1] = l(j)
        OBVIOUS
      <4>3. printed'[j] = <<l(j)>>
        BY <2>1, <3>1, <4>1, <4>2
      <4> QED
        BY <3>1, <4>1, <4>2, <4>3 DEF Kind
    <3>2. CASE j \notin bars
      BY <2>1, <3>2
    <3> QED
      BY <3>1, <3>2
  <2> HIDE DEF l
  <2>4. \A j \in Bar!Ids : printed'[j] \in Seq(Bar!Line)
    <3> SUFFICES ASSUME NEW j \in Bar!Ids PROVE printed'[j] \in Seq(Bar!Line)
      OBVIOUS
    <3>1. l(j) \in Bar!Line => <<l(j)>> \in Seq(Bar!Line)
      OBVIOUS
    <3> QED
      BY <2>2, <2>3, <3>1
  <2>5. BarTyped'
    <3>1. printed' \in [Bar!Ids -> Seq(Bar!Line)]
      BY <2>1, <2>4
    <3> QED
      BY <2>1, <3>1 DEF BarInv, BarTyped
  <2>6. OneLineEach'
    BY <2>3 DEF BarInv, OneLineEach
  <2>7. AttemptsInv'
    <3> SUFFICES ASSUME NEW j \in Bar!Ids
                 PROVE  AttemptInv(ph[j], j \in {}, j \in {} \cup pending, j \in timers,
                                   j \in done, Kind(printed'[j]), lost = 0)
      BY <2>1 DEF AttemptsInv
    <3>1. AttemptInv(ph[j], j \in bars, j \in pending, j \in timers, j \in done,
                     Kind(printed[j]), lost = 0)
      BY <2>2 DEF BarInv, AttemptsInv
    <3>2. CASE j \in bars
      BY <2>3, <3>1, <3>2 DEF AttemptInv
    <3>3. CASE j \notin bars
      BY <2>3, <3>1, <3>3 DEF AttemptInv
    <3> QED
      BY <3>2, <3>3
  <2>8. FlushInv'
    BY <2>1 DEF BarInv, FlushInv
  <2>9. UsageInv'
    <3> SUFFICES ASSUME NEW j \in Bar!Ids, <<j, "usage">> \in due
                 PROVE  /\ ph[j] # "new" /\ "usage" \in facts[j]
                        /\ printed'[j] # <<>> => "usage" \in printed'[j][1].facts
      BY <2>1 DEF UsageInv
    <3>1. /\ ph[j] # "new" /\ "usage" \in facts[j]
          /\ printed[j] # <<>> => "usage" \in printed[j][1].facts
      BY DEF BarInv, UsageInv
    <3> QED
      BY <2>3, <3>1
  <2>10. CountInv'
    <3>1. IsFiniteSet({})
      BY FS_EmptySet
    <3> QED
      BY <2>1, <3>1 DEF BarInv, CountInv, At
  <2> QED
    BY <2>5, <2>6, <2>7, <2>8, <2>9, <2>10 DEF BarInv
<1>2. CASE Bar!FlushSummary
  <2>1. /\ flushing = "waiting" /\ waiting = {} /\ flushing' = "over" /\ summary' = counters
        /\ UNCHANGED <<ph, lost, bars, facts, pending, done, timers, counters, finishing,
                       waiting, printed, orphans, due>>
    BY <1>2 DEF Bar!FlushSummary, Bar!env, Bar!objects, Bar!ghosts
  <2>2. BarTyped' /\ OneLineEach'
    BY <2>1 DEF BarInv, BarTyped, OneLineEach
  <2>3. AttemptsInv' /\ FlushInv' /\ UsageInv'
    BY <2>1 DEF BarInv, AttemptsInv, FlushInv, UsageInv
  <2>4. CountInv'
    BY <2>1, BarCounted
  <2> QED
    BY <2>2, <2>3, <2>4 DEF BarInv
<1> QED
  BY <1>1, <1>2

LEMMA BarNext ==
    ASSUME Bar!ProgressAssumption, BarInv, [Bar!Next]_(Bar!vars)
    PROVE  BarInv'
<1>1. CASE UNCHANGED Bar!vars
  <2>1. UNCHANGED <<ph, lost, bars, facts, pending, done, timers, counters, finishing, flushing,
                    waiting, printed, summary, orphans, due>>
    BY <1>1 DEF Bar!vars
  <2>2. BarTyped' /\ OneLineEach'
    BY <2>1 DEF BarInv, BarTyped, OneLineEach
  <2>3. AttemptsInv' /\ FlushInv' /\ UsageInv'
    BY <2>1 DEF BarInv, AttemptsInv, FlushInv, UsageInv
  <2>4. CountInv'
    BY <2>1, BarCounted
  <2> QED
    BY <2>2, <2>3, <2>4 DEF BarInv
<1>2. CASE Bar!Next
  <2>1. ASSUME NEW i \in Bar!Ids, Bar!HandleEvent(i) PROVE BarInv'
    BY <2>1, BarEvent, BarPhase DEF Bar!HandleEvent
  <2>2. ASSUME NEW i \in Bar!Ids, Bar!Overwritten(i) \/ Bar!GraceOver(i) \/ Bar!FlushOne(i)
        PROVE  BarInv'
    BY <2>2, BarPhase, BarObject
  <2>3. ASSUME Bar!FinishWaiting \/ Bar!FlushBars \/ Bar!FlushSummary PROVE BarInv'
    BY <2>3, BarObject, BarFlush
  <2> QED
    BY <1>2, <2>1, <2>2, <2>3 DEF Bar!Next
<1> QED
  BY <1>1, <1>2
-----------------------------------------------------------------------------
(* The native client. *)

\* What an operation may be, given where its task is.
OpShape(n) ==
    \A o \in n.operations :
        /\ op[o] \in {"ready", "open"} => o \in n.streams
        /\ op[o] = "blocking" => o \in n.reloads
        /\ wait[o] # "out" => op[o] = "running"
        /\ cleanup[o] # "none" => o \in n.streams

\* A reader that reads has the stream, and nobody has one that is not open.
ReaderShape(n) ==
    /\ \A r \in n.readers :
          /\ reader[r] \in {"read", "got"} <=> slot[n.streamOf[r]] = r
          /\ wait[r] # "out" => reader[r] \in {"lock", "read"}
    /\ \A s \in n.streams :
          /\ slot[s] # "empty" => op[s] = "open"
          /\ slot[s] \in n.readers => n.streamOf[slot[s]] = s
          /\ shut[s] # "idle" => op[s] = "open" /\ reason[s] # "Live"

\* As long as there is a stream to drop, the cleanup that drops it is stored, or with the
\* cancellation that took it.
CancelShape(n) ==
    /\ \A o \in n.operations : reason[o] = "Live" <=> cancel[o] = "none"
    /\ \A s \in n.streams :
          slot[s] # "empty" =>
              cleanup[s] = IF cancel[s] \in {"none", "won"} THEN "stored" ELSE "taken"

\* The end of a close() is the end of registrations.
Quiet(n) ==
    /\ \A k \in n.closers : closer[k] # "idle" => closed
    /\ (\E k \in n.closers : closer[k] = "done") => active = {}

NativeInv(n) ==
    /\ Native(n)!TypeOK /\ OpShape(n) /\ ReaderShape(n) /\ CancelShape(n)
    /\ Native(n)!GuardsExact /\ Native(n)!CancelledNotKept /\ Quiet(n)

-----------------------------------------------------------------------------
\* The invariant holds at the start.
LEMMA NativeInit == ASSUME NEW n, Native(n)!NativeAssumption PROVE Native(n)!Init => NativeInv(n)
<1> SUFFICES ASSUME Native(n)!Init PROVE NativeInv(n)
  OBVIOUS
<1> USE DEF Native!NativeAssumption, Native!Init
<1>1. Native(n)!TypeOK
  <2>1. /\ ticket \in [Native(n)!Tasks -> BOOLEAN] /\ notified \in [n.operations -> BOOLEAN]
        /\ closed \in BOOLEAN
    BY Zenon
  <2>2. items \in [n.streams -> 0 .. n.maxItems]
    OBVIOUS
  <2> QED
    BY <2>1, <2>2 DEF Native!TypeOK, Native!Reasons
<1>2. /\ OpShape(n) /\ CancelShape(n) /\ Quiet(n)
      /\ Native(n)!GuardsExact /\ Native(n)!CancelledNotKept
  BY
  DEF OpShape, CancelShape, Native!GuardsExact, Native!Busy, Native!CancelledNotKept, Quiet,
      Native!Tasks
<1>3. ReaderShape(n)
  <2>1. \A r \in n.readers : r # "empty" /\ n.streamOf[r] \in n.streams
    OBVIOUS
  <2> QED
    BY <2>1 DEF ReaderShape, Native!Tasks
<1> QED
  BY <1>1, <1>2, <1>3 DEF NativeInv

\* A first reason leaves a stored cleanup for the cancellation that set it, and a later one
\* changes nothing.
LEMMA NativeSetReason ==
    ASSUME NEW n, Native(n)!NativeAssumption, NativeInv(n), NEW o \in n.operations,
           NEW why \in Native(n)!Reasons \ {"Live"}, Native(n)!SetReason(o, why),
           UNCHANGED <<slot, cleanup>>
    PROVE  /\ reason' \in [n.operations -> Native(n)!Reasons]
           /\ cancel' \in [n.operations -> {"none", "won", "taken", "notified", "done"}]
           /\ CancelShape(n)'
           /\ \A x \in n.operations :
                 /\ cancel'[x] = "done" => cancel[x] = "done"
                 /\ reason[x] # "Live" => reason'[x] # "Live"
           /\ reason'[o] # "Live"
<1> USE DEF Native!NativeAssumption, NativeInv, Native!TypeOK, CancelShape, Native!Reasons
<1>1. CASE reason[o] = "Live"
  BY <1>1 DEF Native!SetReason
<1>2. CASE reason[o] # "Live"
  BY <1>2 DEF Native!SetReason
<1> QED
  BY <1>1, <1>2

\* Every step of every task and thread keeps it.
LEMMA NativeNext ==
    ASSUME NEW n, Native(n)!NativeAssumption, NativeInv(n), [Native(n)!Next]_(Native(n)!vars)
    PROVE  NativeInv(n)'
<1> USE DEF Native!NativeAssumption, NativeInv, Native!Tasks
<1>1. ASSUME NEW o \in n.operations, Native(n)!TakeCleanup(o) PROVE NativeInv(n)'
  <2>1. Native(n)!TypeOK'
    BY <1>1
    DEF Native!TakeCleanup, Native!cancelVars, Native!streamVars, Native!clientVars,
        Native!TypeOK, Native!Reasons
  <2>2. Quiet(n)'
    BY <1>1
    DEF Native!TakeCleanup, Native!cancelVars, Native!streamVars, Native!clientVars,
        Native!TypeOK, Quiet
  <2>3. OpShape(n)'
    BY <1>1
    DEF Native!TakeCleanup, Native!cancelVars, Native!streamVars, Native!clientVars,
        Native!TypeOK, OpShape
  <2>4. ReaderShape(n)'
    BY <1>1
    DEF Native!TakeCleanup, Native!cancelVars, Native!streamVars, Native!clientVars,
        Native!TypeOK, OpShape, ReaderShape
  <2>5. Native(n)!GuardsExact'
    BY <1>1
    DEF Native!TakeCleanup, Native!cancelVars, Native!streamVars, Native!clientVars,
        Native!TypeOK, OpShape, ReaderShape, Native!GuardsExact, Native!Busy
  <2>6. CancelShape(n)' /\ Native(n)!CancelledNotKept'
    BY <1>1
    DEF Native!TakeCleanup, Native!cancelVars, Native!streamVars, Native!clientVars,
        Native!TypeOK, ReaderShape, CancelShape, Native!CancelledNotKept
  <2> QED
    BY <2>1, <2>2, <2>3, <2>4, <2>5, <2>6
<1>2. ASSUME NEW o \in n.operations, Native(n)!NotifyWaiters(o) PROVE NativeInv(n)'
  BY <1>2
  DEF Native!NotifyWaiters, Native!cancelVars, Native!streamVars, Native!clientVars,
      Native!TypeOK, OpShape, ReaderShape, CancelShape, Native!GuardsExact,
      Native!CancelledNotKept, Quiet, Native!Busy, Native!Reasons
<1>3. ASSUME NEW o \in n.operations, Native(n)!RunCleanup(o) PROVE NativeInv(n)'
  <2>1. Native(n)!TypeOK'
    BY <1>3
    DEF Native!RunCleanup, Native!Discard, Native!cancelVars, Native!streamVars,
        Native!clientVars, Native!TypeOK, Native!Reasons
  <2>2. Quiet(n)'
    BY <1>3
    DEF Native!RunCleanup, Native!Discard, Native!cancelVars, Native!streamVars,
        Native!clientVars, Native!TypeOK, Quiet
  <2>3. OpShape(n)'
    BY <1>3
    DEF Native!RunCleanup, Native!Discard, Native!cancelVars, Native!streamVars,
        Native!clientVars, Native!TypeOK, OpShape
  <2>4. ReaderShape(n)'
    BY <1>3
    DEF Native!RunCleanup, Native!Discard, Native!cancelVars, Native!streamVars,
        Native!clientVars, Native!TypeOK, OpShape, ReaderShape
  <2>5. Native(n)!GuardsExact'
    BY <1>3
    DEF Native!RunCleanup, Native!Discard, Native!cancelVars, Native!streamVars,
        Native!clientVars, Native!TypeOK, OpShape, ReaderShape, Native!GuardsExact, Native!Busy
  <2>6. CancelShape(n)' /\ Native(n)!CancelledNotKept'
    BY <1>3
    DEF Native!RunCleanup, Native!Discard, Native!cancelVars, Native!streamVars,
        Native!clientVars, Native!TypeOK, ReaderShape, CancelShape, Native!CancelledNotKept
  <2> QED
    BY <2>1, <2>2, <2>3, <2>4, <2>5, <2>6
<1>4. ASSUME NEW o \in n.operations, Native(n)!UserCancel(o) PROVE NativeInv(n)'
  <2>1. /\ o \in n.operations /\ Native(n)!SetReason(o, "User")
        /\ UNCHANGED <<slot, cleanup>> /\ "User" \in Native(n)!Reasons \ {"Live"}
    BY <1>4
    DEF Native!UserCancel, Native!cancelVars, Native!streamVars, Native!clientVars,
        Native!TypeOK, Native!Reasons
  <2>2. /\ reason' \in [n.operations -> Native(n)!Reasons]
        /\ cancel' \in [n.operations -> {"none", "won", "taken", "notified", "done"}]
        /\ CancelShape(n)'
        /\ \A y \in n.operations :
              /\ cancel'[y] = "done" => cancel[y] = "done"
              /\ reason[y] # "Live" => reason'[y] # "Live"
        /\ reason'[o] # "Live"
    BY <2>1, NativeSetReason
  <2>3. Native(n)!TypeOK'
    BY <1>4, <2>2
    DEF Native!UserCancel, Native!cancelVars, Native!streamVars, Native!clientVars,
        Native!TypeOK, Native!Reasons
  <2>4. Quiet(n)'
    BY <1>4, <2>2
    DEF Native!UserCancel, Native!cancelVars, Native!streamVars, Native!clientVars,
        Native!TypeOK, Quiet
  <2>5. OpShape(n)'
    BY <1>4, <2>2
    DEF Native!UserCancel, Native!cancelVars, Native!streamVars, Native!clientVars,
        Native!TypeOK, OpShape
  <2>6. ReaderShape(n)'
    BY <1>4, <2>2
    DEF Native!UserCancel, Native!cancelVars, Native!streamVars, Native!clientVars,
        Native!TypeOK, OpShape, ReaderShape
  <2>7. Native(n)!GuardsExact'
    BY <1>4, <2>2
    DEF Native!UserCancel, Native!cancelVars, Native!streamVars, Native!clientVars,
        Native!TypeOK, OpShape, ReaderShape, Native!GuardsExact, Native!Busy
  <2>8. Native(n)!CancelledNotKept'
    BY <1>4, <2>2
    DEF Native!UserCancel, Native!cancelVars, Native!streamVars, Native!clientVars,
        Native!TypeOK, ReaderShape, Native!CancelledNotKept
  <2> QED
    BY <2>2, <2>3, <2>4, <2>5, <2>6, <2>7, <2>8
<1>5. ASSUME NEW o \in n.operations, Native(n)!Register(o) PROVE NativeInv(n)'
  BY <1>5
  DEF Native!Register, Native!cancelVars, Native!streamVars, Native!clientVars, Native!TypeOK,
      OpShape, ReaderShape, CancelShape, Native!GuardsExact, Native!CancelledNotKept, Quiet,
      Native!Busy, Native!Reasons
<1>6. ASSUME NEW o \in n.operations, Native(n)!Insert(o) PROVE NativeInv(n)'
  <2>1. Native(n)!TypeOK'
    <3>1. /\ op' \in [n.operations -> {"idle", "registering", "running", "ready", "open",
                                       "blocking", "ended"}]
          /\ active' \subseteq n.operations
      BY <1>6 DEF Native!Insert, Native!TypeOK
    <3>2. wait' \in [Native(n)!Tasks -> {"out", "start", "armed", "parked"}]
      BY <1>6 DEF Native!Insert, Native!TypeOK
    <3>3. UNCHANGED <<closed, closer, todoClose, ticket, reason, cleanup, cancel, notified,
                      slot, nextLock, reader, shut, items, reloadLock>>
      BY <1>6 DEF Native!Insert, Native!cancelVars, Native!streamVars
    <3> QED
      BY <3>1, <3>2, <3>3 DEF Native!TypeOK, Native!Reasons
  <2>2. Quiet(n)'
    BY <1>6
    DEF Native!Insert, Native!cancelVars, Native!streamVars, Native!clientVars, Native!TypeOK,
        Quiet
  <2>3. OpShape(n)'
    BY <1>6
    DEF Native!Insert, Native!cancelVars, Native!streamVars, Native!clientVars, Native!TypeOK,
        OpShape
  <2>4. ReaderShape(n)'
    BY <1>6
    DEF Native!Insert, Native!cancelVars, Native!streamVars, Native!clientVars, Native!TypeOK,
        OpShape, ReaderShape
  <2>5. Native(n)!GuardsExact'
    BY <1>6
    DEF Native!Insert, Native!cancelVars, Native!streamVars, Native!clientVars, Native!TypeOK,
        OpShape, ReaderShape, Native!GuardsExact, Native!Busy
  <2>6. CancelShape(n)' /\ Native(n)!CancelledNotKept'
    BY <1>6
    DEF Native!Insert, Native!cancelVars, Native!streamVars, Native!clientVars, Native!TypeOK,
        ReaderShape, CancelShape, Native!CancelledNotKept
  <2> QED
    BY <2>1, <2>2, <2>3, <2>4, <2>5, <2>6
<1>7. ASSUME NEW o \in n.operations, Native(n)!Answer(o) PROVE NativeInv(n)'
  <2>1. Native(n)!TypeOK'
    BY <1>7
    DEF Native!Answer, Native!Leave, Native!cancelVars, Native!streamVars, Native!clientVars,
        Native!TypeOK, Native!Reasons
  <2>2. Quiet(n)'
    BY <1>7
    DEF Native!Answer, Native!Leave, Native!cancelVars, Native!streamVars, Native!clientVars,
        Native!TypeOK, Quiet
  <2>3. OpShape(n)'
    BY <1>7
    DEF Native!Answer, Native!Leave, Native!cancelVars, Native!streamVars, Native!clientVars,
        Native!TypeOK, OpShape
  <2>4. ReaderShape(n)'
    BY <1>7
    DEF Native!Answer, Native!Leave, Native!cancelVars, Native!streamVars, Native!clientVars,
        Native!TypeOK, OpShape, ReaderShape
  <2>5. Native(n)!GuardsExact'
    BY <1>7
    DEF Native!Answer, Native!Leave, Native!cancelVars, Native!streamVars, Native!clientVars,
        Native!TypeOK, OpShape, ReaderShape, Native!GuardsExact, Native!Busy
  <2>6. CancelShape(n)' /\ Native(n)!CancelledNotKept'
    BY <1>7
    DEF Native!Answer, Native!Leave, Native!cancelVars, Native!streamVars, Native!clientVars,
        Native!TypeOK, ReaderShape, CancelShape, Native!CancelledNotKept
  <2> QED
    BY <2>1, <2>2, <2>3, <2>4, <2>5, <2>6
<1>8. ASSUME NEW o \in n.operations, Native(n)!Open(o) PROVE NativeInv(n)'
  <2>1. Native(n)!TypeOK'
    <3>1. active' \subseteq n.operations
      BY <1>8 DEF Native!Open, Native!TypeOK
    <3>2. /\ op' \in [n.operations -> {"idle", "registering", "running", "ready", "open",
                                      "blocking", "ended"}]
          /\ cleanup' \in [n.operations -> {"none", "stored", "taken"}]
      BY <1>8 DEF Native!Open, Native!TypeOK
    <3>3. slot' \in [n.streams -> n.readers \cup {"stored", "empty"}]
      BY <1>8 DEF Native!Open, Native!TypeOK
    <3> QED
      BY <1>8, <3>1, <3>2, <3>3
      DEF Native!Open, Native!cancelVars, Native!streamVars, Native!clientVars, Native!TypeOK,
          Native!Reasons
  <2>2. Quiet(n)'
    BY <1>8
    DEF Native!Open, Native!cancelVars, Native!streamVars, Native!clientVars, Native!TypeOK,
        Quiet
  <2>3. OpShape(n)'
    BY <1>8
    DEF Native!Open, Native!cancelVars, Native!streamVars, Native!clientVars, Native!TypeOK,
        OpShape
  <2>4. ReaderShape(n)'
    BY <1>8, SMTT(30)
    DEF Native!Open, Native!cancelVars, Native!streamVars, Native!clientVars, Native!TypeOK,
        OpShape, ReaderShape
  <2>5. Native(n)!GuardsExact'
    BY <1>8
    DEF Native!Open, Native!cancelVars, Native!streamVars, Native!clientVars, Native!TypeOK,
        OpShape, ReaderShape, Native!GuardsExact, Native!Busy
  <2>6. CancelShape(n)' /\ Native(n)!CancelledNotKept'
    BY <1>8
    DEF Native!Open, Native!cancelVars, Native!streamVars, Native!clientVars, Native!TypeOK,
        ReaderShape, CancelShape, Native!CancelledNotKept
  <2> QED
    BY <2>1, <2>2, <2>3, <2>4, <2>5, <2>6
<1>9. ASSUME NEW o \in n.operations, Native(n)!BeginReload(o) PROVE NativeInv(n)'
  <2>1. Native(n)!TypeOK'
    BY <1>9
    DEF Native!BeginReload, Native!Leave, Native!cancelVars, Native!streamVars,
        Native!clientVars, Native!TypeOK, Native!Reasons
  <2>2. Quiet(n)'
    BY <1>9
    DEF Native!BeginReload, Native!Leave, Native!cancelVars, Native!streamVars,
        Native!clientVars, Native!TypeOK, Quiet
  <2>3. OpShape(n)'
    BY <1>9
    DEF Native!BeginReload, Native!Leave, Native!cancelVars, Native!streamVars,
        Native!clientVars, Native!TypeOK, OpShape
  <2>4. ReaderShape(n)'
    BY <1>9
    DEF Native!BeginReload, Native!Leave, Native!cancelVars, Native!streamVars,
        Native!clientVars, Native!TypeOK, OpShape, ReaderShape
  <2>5. Native(n)!GuardsExact'
    BY <1>9
    DEF Native!BeginReload, Native!Leave, Native!cancelVars, Native!streamVars,
        Native!clientVars, Native!TypeOK, OpShape, ReaderShape, Native!GuardsExact, Native!Busy
  <2>6. CancelShape(n)' /\ Native(n)!CancelledNotKept'
    BY <1>9
    DEF Native!BeginReload, Native!Leave, Native!cancelVars, Native!streamVars,
        Native!clientVars, Native!TypeOK, ReaderShape, CancelShape, Native!CancelledNotKept
  <2> QED
    BY <2>1, <2>2, <2>3, <2>4, <2>5, <2>6
<1>10. ASSUME NEW o \in n.operations, Native(n)!EndReload(o) PROVE NativeInv(n)'
  <2>1. Native(n)!TypeOK'
    BY <1>10
    DEF Native!EndReload, Native!cancelVars, Native!streamVars, Native!clientVars,
        Native!TypeOK, Native!Reasons
  <2>2. Quiet(n)'
    BY <1>10
    DEF Native!EndReload, Native!cancelVars, Native!streamVars, Native!clientVars,
        Native!TypeOK, Quiet
  <2>3. OpShape(n)'
    BY <1>10
    DEF Native!EndReload, Native!cancelVars, Native!streamVars, Native!clientVars,
        Native!TypeOK, OpShape
  <2>4. ReaderShape(n)'
    BY <1>10
    DEF Native!EndReload, Native!cancelVars, Native!streamVars, Native!clientVars,
        Native!TypeOK, OpShape, ReaderShape
  <2>5. Native(n)!GuardsExact'
    BY <1>10
    DEF Native!EndReload, Native!cancelVars, Native!streamVars, Native!clientVars,
        Native!TypeOK, OpShape, ReaderShape, Native!GuardsExact, Native!Busy
  <2>6. CancelShape(n)' /\ Native(n)!CancelledNotKept'
    BY <1>10
    DEF Native!EndReload, Native!cancelVars, Native!streamVars, Native!clientVars,
        Native!TypeOK, ReaderShape, CancelShape, Native!CancelledNotKept
  <2> QED
    BY <2>1, <2>2, <2>3, <2>4, <2>5, <2>6
<1>11. ASSUME NEW t \in Native(n)!Tasks, Native(n)!Arm(t) PROVE NativeInv(n)'
  BY <1>11
  DEF Native!Arm, Native!Of, Native!cancelVars, Native!streamVars, Native!clientVars,
      Native!TypeOK, OpShape, ReaderShape, CancelShape, Native!GuardsExact,
      Native!CancelledNotKept, Quiet, Native!Busy, Native!Reasons
<1>12. ASSUME NEW t \in Native(n)!Tasks, Native(n)!Park(t) PROVE NativeInv(n)'
  BY <1>12
  DEF Native!Park, Native!Of, Native!cancelVars, Native!streamVars, Native!clientVars,
      Native!TypeOK, OpShape, ReaderShape, CancelShape, Native!GuardsExact,
      Native!CancelledNotKept, Quiet, Native!Busy, Native!Reasons
<1>13. ASSUME NEW t \in Native(n)!Tasks, Native(n)!Wake(t) PROVE NativeInv(n)'
  BY <1>13
  DEF Native!Wake, Native!Of, Native!cancelVars, Native!streamVars, Native!clientVars,
      Native!TypeOK, OpShape, ReaderShape, CancelShape, Native!GuardsExact,
      Native!CancelledNotKept, Quiet, Native!Busy, Native!Reasons
<1>14. ASSUME NEW t \in Native(n)!Tasks, Native(n)!Interrupted(t) PROVE NativeInv(n)'
  <2>1. CASE t \in n.readers
    <3>1. Native(n)!TypeOK'
      <4>1. n.streamOf[t] \in n.streams
        BY <2>1
      <4>2. active' \subseteq n.operations
        BY <1>14, <2>1 DEF Native!Interrupted, Native!TypeOK
      <4>3. /\ slot' \in [n.streams -> n.readers \cup {"stored", "empty"}]
            /\ nextLock' \in [n.streams -> n.readers \cup {None}]
        BY <1>14, <2>1, <4>1, SMTT(30) DEF Native!Interrupted, Native!Of, Native!TypeOK
      <4>4. reader' \in [n.readers -> {"idle", "lock", "read", "got", "failed", "won", "lost",
                                      "over"}]
        BY <1>14, <2>1 DEF Native!Interrupted, Native!TypeOK
      <4>5. /\ wait' \in [Native(n)!Tasks -> {"out", "start", "armed", "parked"}]
            /\ ticket' \in [Native(n)!Tasks -> BOOLEAN]
        BY <1>14 DEF Native!Interrupted, Native!TypeOK
      <4>6. UNCHANGED <<closed, op, reason, cleanup, cancel, notified, shut, reloadLock,
                        closer, todoClose, items>>
        BY <1>14, <2>1 DEF Native!Interrupted, Native!cancelVars
      <4> QED
        BY <4>2, <4>3, <4>4, <4>5, <4>6 DEF Native!TypeOK, Native!Reasons
    <3>2. Quiet(n)'
      BY <1>14, <2>1
      DEF Native!Interrupted, Native!Of, Native!cancelVars, Native!streamVars,
          Native!clientVars, Native!TypeOK, Quiet
    <3>3. OpShape(n)'
      BY <1>14, <2>1
      DEF Native!Interrupted, Native!Of, Native!cancelVars, Native!streamVars,
          Native!clientVars, Native!TypeOK, OpShape
    <3>4. ReaderShape(n)'
      <4>1. /\ reader' = [reader EXCEPT ![t] = "over"] /\ wait' = [wait EXCEPT ![t] = "out"]
            /\ UNCHANGED <<op, shut, reason>>
        BY <1>14, <2>1 DEF Native!Interrupted, Native!cancelVars
      <4>2. /\ t \in n.readers /\ reader[t] \in {"lock", "read"} /\ n.streamOf[t] \in n.streams
            /\ reader'[t] = "over" /\ wait'[t] = "out"
            /\ \A r \in n.readers : r # t => reader'[r] = reader[r] /\ wait'[r] = wait[r]
        BY <1>14, <2>1, <4>1 DEF Native!Interrupted, Native!TypeOK, ReaderShape
      <4>3. CASE reader[t] = "read"
        <5>1. slot' = [slot EXCEPT ![n.streamOf[t]] = "empty"] /\ slot[n.streamOf[t]] = t
          BY <1>14, <2>1, <4>2, <4>3 DEF Native!Interrupted, Native!Of, ReaderShape
        <5>2. \A s \in n.streams :
                 slot'[s] = IF s = n.streamOf[t] THEN "empty" ELSE slot[s]
          BY <4>2, <5>1 DEF Native!TypeOK
        <5> QED
          BY <4>1, <4>2, <5>1, <5>2 DEF ReaderShape
      <4>4. CASE reader[t] # "read"
        <5>1. slot' = slot
          BY <1>14, <2>1, <4>4 DEF Native!Interrupted
        <5> QED
          BY <4>1, <4>2, <4>4, <5>1 DEF ReaderShape
      <4> QED
        BY <4>3, <4>4
    <3>5. Native(n)!GuardsExact'
      BY <1>14, <2>1
      DEF Native!Interrupted, Native!Of, Native!cancelVars, Native!streamVars,
          Native!clientVars, Native!TypeOK, OpShape, ReaderShape, Native!GuardsExact,
          Native!Busy
    <3>6. CancelShape(n)' /\ Native(n)!CancelledNotKept'
      BY <1>14, <2>1
      DEF Native!Interrupted, Native!Of, Native!cancelVars, Native!streamVars,
          Native!clientVars, Native!TypeOK, ReaderShape, CancelShape, Native!CancelledNotKept
    <3> QED
      BY <3>1, <3>2, <3>3, <3>4, <3>5, <3>6
  <2>2. CASE t \notin n.readers
    <3>1. Native(n)!TypeOK'
      BY <1>14, <2>2
      DEF Native!Interrupted, Native!Of, Native!cancelVars, Native!streamVars,
          Native!clientVars, Native!TypeOK, Native!Reasons
    <3>2. Quiet(n)'
      BY <1>14, <2>2
      DEF Native!Interrupted, Native!Of, Native!cancelVars, Native!streamVars,
          Native!clientVars, Native!TypeOK, Quiet
    <3>3. OpShape(n)'
      BY <1>14, <2>2
      DEF Native!Interrupted, Native!Of, Native!cancelVars, Native!streamVars,
          Native!clientVars, Native!TypeOK, OpShape
    <3>4. ReaderShape(n)'
      BY <1>14, <2>2
      DEF Native!Interrupted, Native!Of, Native!cancelVars, Native!streamVars,
          Native!clientVars, Native!TypeOK, OpShape, ReaderShape
    <3>5. Native(n)!GuardsExact'
      BY <1>14, <2>2
      DEF Native!Interrupted, Native!Of, Native!cancelVars, Native!streamVars,
          Native!clientVars, Native!TypeOK, OpShape, ReaderShape, Native!GuardsExact,
          Native!Busy
    <3>6. CancelShape(n)' /\ Native(n)!CancelledNotKept'
      BY <1>14, <2>2
      DEF Native!Interrupted, Native!Of, Native!cancelVars, Native!streamVars,
          Native!clientVars, Native!TypeOK, ReaderShape, CancelShape, Native!CancelledNotKept
    <3> QED
      BY <3>1, <3>2, <3>3, <3>4, <3>5, <3>6
  <2> QED
    BY <2>1, <2>2
<1>15. ASSUME NEW r \in n.readers, Native(n)!CallNext(r) PROVE NativeInv(n)'
  <2>1. Native(n)!TypeOK'
    BY <1>15
    DEF Native!CallNext, Native!cancelVars, Native!streamVars, Native!clientVars,
        Native!TypeOK, Native!Reasons
  <2>2. Quiet(n)'
    BY <1>15
    DEF Native!CallNext, Native!cancelVars, Native!streamVars, Native!clientVars,
        Native!TypeOK, Quiet
  <2>3. OpShape(n)'
    BY <1>15
    DEF Native!CallNext, Native!cancelVars, Native!streamVars, Native!clientVars,
        Native!TypeOK, OpShape
  <2>4. ReaderShape(n)'
    BY <1>15
    DEF Native!CallNext, Native!cancelVars, Native!streamVars, Native!clientVars,
        Native!TypeOK, OpShape, ReaderShape
  <2>5. Native(n)!GuardsExact'
    BY <1>15
    DEF Native!CallNext, Native!cancelVars, Native!streamVars, Native!clientVars,
        Native!TypeOK, OpShape, ReaderShape, Native!GuardsExact, Native!Busy
  <2>6. CancelShape(n)' /\ Native(n)!CancelledNotKept'
    BY <1>15
    DEF Native!CallNext, Native!cancelVars, Native!streamVars, Native!clientVars,
        Native!TypeOK, ReaderShape, CancelShape, Native!CancelledNotKept
  <2> QED
    BY <2>1, <2>2, <2>3, <2>4, <2>5, <2>6
<1>16. ASSUME NEW r \in n.readers, Native(n)!TakeStream(r) PROVE NativeInv(n)'
  <2>1. CASE slot[n.streamOf[r]] = "stored"
    <3>1. Native(n)!TypeOK'
      <4>1. n.streamOf[r] \in n.streams
        OBVIOUS
      <4>2. slot' \in [n.streams -> n.readers \cup {"stored", "empty"}]
        <5>1. slot' = [slot EXCEPT ![n.streamOf[r]] = r]
          BY <1>16, <2>1 DEF Native!TakeStream
        <5>2. slot \in [n.streams -> n.readers \cup {"stored", "empty"}]
          BY DEF Native!TypeOK
        <5> QED
          BY <4>1, <5>1, <5>2
      <4>3. nextLock' \in [n.streams -> n.readers \cup {None}]
        <5>1. nextLock' = [nextLock EXCEPT ![n.streamOf[r]] = r]
          BY <1>16, <2>1 DEF Native!TakeStream
        <5>2. nextLock \in [n.streams -> n.readers \cup {None}]
          BY DEF Native!TypeOK
        <5> QED
          BY <4>1, <5>1, <5>2
      <4>4. /\ reader' \in [n.readers -> {"idle", "lock", "read", "got", "failed", "won", "lost",
                                      "over"}]
            /\ wait' \in [Native(n)!Tasks -> {"out", "start", "armed", "parked"}]
        <5>1. /\ reader' = [reader EXCEPT ![r] = "read"]
              /\ wait' = [wait EXCEPT ![r] = "start"]
          BY <1>16, <2>1 DEF Native!TakeStream
        <5>2. /\ reader \in [n.readers -> {"idle", "lock", "read", "got", "failed", "won",
                                         "lost", "over"}]
              /\ wait \in [Native(n)!Tasks -> {"out", "start", "armed", "parked"}]
          BY DEF Native!TypeOK
        <5> QED
          BY <5>1, <5>2
      <4>5. ticket' \in [Native(n)!Tasks -> BOOLEAN]
        BY <1>16 DEF Native!TakeStream, Native!TypeOK
      <4> QED
        BY <1>16, <4>2, <4>3, <4>4, <4>5
        DEF Native!TakeStream, Native!cancelVars, Native!clientVars, Native!TypeOK
    <3>2. Quiet(n)'
      BY <1>16, <2>1
      DEF Native!TakeStream, Native!cancelVars, Native!streamVars, Native!clientVars,
          Native!TypeOK, Quiet
    <3>3. OpShape(n)'
      BY <1>16, <2>1
      DEF Native!TakeStream, Native!cancelVars, Native!streamVars, Native!clientVars,
          Native!TypeOK, OpShape
    <3>4. ReaderShape(n)'
      BY <1>16, <2>1, SMTT(30)
      DEF Native!TakeStream, Native!cancelVars, Native!streamVars, Native!clientVars,
          Native!TypeOK, OpShape, ReaderShape
    <3>5. Native(n)!GuardsExact'
      BY <1>16, <2>1
      DEF Native!TakeStream, Native!cancelVars, Native!streamVars, Native!clientVars,
          Native!TypeOK, OpShape, ReaderShape, Native!GuardsExact, Native!Busy
    <3>6. CancelShape(n)' /\ Native(n)!CancelledNotKept'
      BY <1>16, <2>1
      DEF Native!TakeStream, Native!cancelVars, Native!streamVars, Native!clientVars,
          Native!TypeOK, ReaderShape, CancelShape, Native!CancelledNotKept
    <3> QED
      BY <3>1, <3>2, <3>3, <3>4, <3>5, <3>6
  <2>2. CASE slot[n.streamOf[r]] # "stored"
    <3>1. Native(n)!TypeOK'
      BY <1>16, <2>2, SMTT(30)
      DEF Native!TakeStream, Native!cancelVars, Native!streamVars, Native!clientVars,
          Native!TypeOK, Native!Reasons
    <3>2. Quiet(n)'
      BY <1>16, <2>2
      DEF Native!TakeStream, Native!cancelVars, Native!streamVars, Native!clientVars,
          Native!TypeOK, Quiet
    <3>3. OpShape(n)'
      BY <1>16, <2>2
      DEF Native!TakeStream, Native!cancelVars, Native!streamVars, Native!clientVars,
          Native!TypeOK, OpShape
    <3>4. ReaderShape(n)'
      BY <1>16, <2>2
      DEF Native!TakeStream, Native!cancelVars, Native!streamVars, Native!clientVars,
          Native!TypeOK, OpShape, ReaderShape
    <3>5. Native(n)!GuardsExact'
      BY <1>16, <2>2
      DEF Native!TakeStream, Native!cancelVars, Native!streamVars, Native!clientVars,
          Native!TypeOK, OpShape, ReaderShape, Native!GuardsExact, Native!Busy
    <3>6. CancelShape(n)' /\ Native(n)!CancelledNotKept'
      BY <1>16, <2>2
      DEF Native!TakeStream, Native!cancelVars, Native!streamVars, Native!clientVars,
          Native!TypeOK, ReaderShape, CancelShape, Native!CancelledNotKept
    <3> QED
      BY <3>1, <3>2, <3>3, <3>4, <3>5, <3>6
  <2> QED
    BY <2>1, <2>2
<1>17. ASSUME NEW r \in n.readers, Native(n)!Item(r) PROVE NativeInv(n)'
  <2>1. Native(n)!TypeOK'
    BY <1>17
    DEF Native!Item, Native!Leave, Native!cancelVars, Native!streamVars, Native!clientVars,
        Native!TypeOK, Native!Reasons
  <2>2. Quiet(n)'
    BY <1>17
    DEF Native!Item, Native!Leave, Native!cancelVars, Native!streamVars, Native!clientVars,
        Native!TypeOK, Quiet
  <2>3. OpShape(n)'
    BY <1>17
    DEF Native!Item, Native!Leave, Native!cancelVars, Native!streamVars, Native!clientVars,
        Native!TypeOK, OpShape
  <2>4. ReaderShape(n)'
    BY <1>17
    DEF Native!Item, Native!Leave, Native!cancelVars, Native!streamVars, Native!clientVars,
        Native!TypeOK, OpShape, ReaderShape
  <2>5. Native(n)!GuardsExact'
    BY <1>17
    DEF Native!Item, Native!Leave, Native!cancelVars, Native!streamVars, Native!clientVars,
        Native!TypeOK, OpShape, ReaderShape, Native!GuardsExact, Native!Busy
  <2>6. CancelShape(n)' /\ Native(n)!CancelledNotKept'
    BY <1>17
    DEF Native!Item, Native!Leave, Native!cancelVars, Native!streamVars, Native!clientVars,
        Native!TypeOK, ReaderShape, CancelShape, Native!CancelledNotKept
  <2> QED
    BY <2>1, <2>2, <2>3, <2>4, <2>5, <2>6
<1>18. ASSUME NEW r \in n.readers, Native(n)!PutBack(r) PROVE NativeInv(n)'
  <2>1. Native(n)!TypeOK'
    BY <1>18
    DEF Native!PutBack, Native!cancelVars, Native!streamVars, Native!clientVars,
        Native!TypeOK, Native!Reasons
  <2>2. Quiet(n)'
    BY <1>18
    DEF Native!PutBack, Native!cancelVars, Native!streamVars, Native!clientVars,
        Native!TypeOK, Quiet
  <2>3. OpShape(n)'
    BY <1>18
    DEF Native!PutBack, Native!cancelVars, Native!streamVars, Native!clientVars,
        Native!TypeOK, OpShape
  <2>4. ReaderShape(n)'
    BY <1>18
    DEF Native!PutBack, Native!cancelVars, Native!streamVars, Native!clientVars,
        Native!TypeOK, OpShape, ReaderShape
  <2>5. Native(n)!GuardsExact'
    BY <1>18
    DEF Native!PutBack, Native!cancelVars, Native!streamVars, Native!clientVars,
        Native!TypeOK, OpShape, ReaderShape, Native!GuardsExact, Native!Busy
  <2>6. CancelShape(n)' /\ Native(n)!CancelledNotKept'
    BY <1>18
    DEF Native!PutBack, Native!cancelVars, Native!streamVars, Native!clientVars,
        Native!TypeOK, ReaderShape, CancelShape, Native!CancelledNotKept
  <2> QED
    BY <2>1, <2>2, <2>3, <2>4, <2>5, <2>6
<1>19. ASSUME NEW r \in n.readers, Native(n)!Exhausted(r) PROVE NativeInv(n)'
  <2>1. Native(n)!TypeOK'
    BY <1>19
    DEF Native!Exhausted, Native!Leave, Native!cancelVars, Native!streamVars,
        Native!clientVars, Native!TypeOK, Native!Reasons
  <2>2. Quiet(n)'
    BY <1>19
    DEF Native!Exhausted, Native!Leave, Native!cancelVars, Native!streamVars,
        Native!clientVars, Native!TypeOK, Quiet
  <2>3. OpShape(n)'
    BY <1>19
    DEF Native!Exhausted, Native!Leave, Native!cancelVars, Native!streamVars,
        Native!clientVars, Native!TypeOK, OpShape
  <2>4. ReaderShape(n)'
    <3>1. ASSUME NEW x \in n.readers
          PROVE  /\ reader'[x] \in {"read", "got"} <=> slot'[n.streamOf[x]] = x
                 /\ wait'[x] # "out" => reader'[x] \in {"lock", "read"}
      <4>1. n.streamOf[x] \in n.streams /\ n.streamOf[r] \in n.streams
        OBVIOUS
      <4>2. /\ reader[x] \in {"read", "got"} <=> slot[n.streamOf[x]] = x
            /\ wait[x] # "out" => reader[x] \in {"lock", "read"}
            /\ reader[r] \in {"read", "got"} <=> slot[n.streamOf[r]] = r
        BY DEF ReaderShape
      <4>3. x # "empty" /\ r \in Native(n)!Tasks /\ x \in Native(n)!Tasks
        OBVIOUS
      <4>4. /\ reader' = [reader EXCEPT ![r] = "failed"]
            /\ slot' = [slot EXCEPT ![n.streamOf[r]] = "empty"]
            /\ wait' = [wait EXCEPT ![r] = "out"] /\ reader[r] = "read"
        BY <1>19 DEF Native!Exhausted, Native!Leave
      <4>5. /\ reader \in [n.readers -> {"idle", "lock", "read", "got", "failed", "won", "lost",
                                        "over"}]
            /\ slot \in [n.streams -> n.readers \cup {"stored", "empty"}]
            /\ wait \in [Native(n)!Tasks -> {"out", "start", "armed", "parked"}]
        BY DEF Native!TypeOK
      <4> QED
        BY <4>1, <4>2, <4>3, <4>4, <4>5
    <3>2. ASSUME NEW s \in n.streams
          PROVE  /\ slot'[s] # "empty" => op'[s] = "open"
                 /\ slot'[s] \in n.readers => n.streamOf[slot'[s]] = s
                 /\ shut'[s] # "idle" => op'[s] = "open" /\ reason'[s] # "Live"
      BY <1>19
      DEF Native!Exhausted, Native!cancelVars, Native!TypeOK, ReaderShape
    <3> QED
      BY <3>1, <3>2 DEF ReaderShape
  <2>5. Native(n)!GuardsExact'
    BY <1>19
    DEF Native!Exhausted, Native!Leave, Native!cancelVars, Native!streamVars,
        Native!clientVars, Native!TypeOK, OpShape, ReaderShape, Native!GuardsExact, Native!Busy
  <2>6. CancelShape(n)' /\ Native(n)!CancelledNotKept'
    BY <1>19
    DEF Native!Exhausted, Native!Leave, Native!cancelVars, Native!streamVars,
        Native!clientVars, Native!TypeOK, ReaderShape, CancelShape, Native!CancelledNotKept
  <2> QED
    BY <2>1, <2>2, <2>3, <2>4, <2>5, <2>6
<1>20. ASSUME NEW r \in n.readers, Native(n)!CloseExhausted(r) PROVE NativeInv(n)'
  <2>1. /\ n.streamOf[r] \in n.operations /\ Native(n)!SetReason(n.streamOf[r], "StreamClosed")
        /\ UNCHANGED <<slot, cleanup>> /\ "StreamClosed" \in Native(n)!Reasons \ {"Live"}
    BY <1>20
    DEF Native!CloseExhausted, Native!cancelVars, Native!streamVars, Native!clientVars,
        Native!TypeOK, Native!Reasons
  <2>2. /\ reason' \in [n.operations -> Native(n)!Reasons]
        /\ cancel' \in [n.operations -> {"none", "won", "taken", "notified", "done"}]
        /\ CancelShape(n)'
        /\ \A y \in n.operations :
              /\ cancel'[y] = "done" => cancel[y] = "done"
              /\ reason[y] # "Live" => reason'[y] # "Live"
        /\ reason'[n.streamOf[r]] # "Live"
    BY <2>1, NativeSetReason
  <2>3. Native(n)!TypeOK'
    BY <1>20, <2>2
    DEF Native!CloseExhausted, Native!cancelVars, Native!streamVars, Native!clientVars,
        Native!TypeOK, Native!Reasons
  <2>4. Quiet(n)'
    BY <1>20, <2>2
    DEF Native!CloseExhausted, Native!cancelVars, Native!streamVars, Native!clientVars,
        Native!TypeOK, Quiet
  <2>5. OpShape(n)'
    BY <1>20, <2>2
    DEF Native!CloseExhausted, Native!cancelVars, Native!streamVars, Native!clientVars,
        Native!TypeOK, OpShape
  <2>6. ReaderShape(n)'
    BY <1>20, <2>2
    DEF Native!CloseExhausted, Native!cancelVars, Native!streamVars, Native!clientVars,
        Native!TypeOK, OpShape, ReaderShape
  <2>7. Native(n)!GuardsExact'
    BY <1>20, <2>2
    DEF Native!CloseExhausted, Native!cancelVars, Native!streamVars, Native!clientVars,
        Native!TypeOK, OpShape, ReaderShape, Native!GuardsExact, Native!Busy
  <2>8. Native(n)!CancelledNotKept'
    BY <1>20, <2>2
    DEF Native!CloseExhausted, Native!cancelVars, Native!streamVars, Native!clientVars,
        Native!TypeOK, ReaderShape, Native!CancelledNotKept
  <2> QED
    BY <2>2, <2>3, <2>4, <2>5, <2>6, <2>7, <2>8
<1>21. ASSUME NEW r \in n.readers, Native(n)!ReturnExhausted(r) PROVE NativeInv(n)'
  <2>1. Native(n)!TypeOK'
    BY <1>21
    DEF Native!ReturnExhausted, Native!cancelVars, Native!streamVars, Native!clientVars,
        Native!TypeOK, Native!Reasons
  <2>2. Quiet(n)'
    BY <1>21
    DEF Native!ReturnExhausted, Native!cancelVars, Native!streamVars, Native!clientVars,
        Native!TypeOK, Quiet
  <2>3. OpShape(n)'
    BY <1>21
    DEF Native!ReturnExhausted, Native!cancelVars, Native!streamVars, Native!clientVars,
        Native!TypeOK, OpShape
  <2>4. ReaderShape(n)'
    BY <1>21
    DEF Native!ReturnExhausted, Native!cancelVars, Native!streamVars, Native!clientVars,
        Native!TypeOK, OpShape, ReaderShape
  <2>5. Native(n)!GuardsExact'
    BY <1>21
    DEF Native!ReturnExhausted, Native!cancelVars, Native!streamVars, Native!clientVars,
        Native!TypeOK, OpShape, ReaderShape, Native!GuardsExact, Native!Busy
  <2>6. CancelShape(n)' /\ Native(n)!CancelledNotKept'
    BY <1>21
    DEF Native!ReturnExhausted, Native!cancelVars, Native!streamVars, Native!clientVars,
        Native!TypeOK, ReaderShape, CancelShape, Native!CancelledNotKept
  <2> QED
    BY <2>1, <2>2, <2>3, <2>4, <2>5, <2>6
<1>22. ASSUME NEW s \in n.streams, Native(n)!CallClose(s) PROVE NativeInv(n)'
  <2>1. /\ s \in n.operations /\ Native(n)!SetReason(s, "StreamClosed")
        /\ UNCHANGED <<slot, cleanup>> /\ "StreamClosed" \in Native(n)!Reasons \ {"Live"}
    BY <1>22
    DEF Native!CallClose, Native!cancelVars, Native!streamVars, Native!clientVars,
        Native!TypeOK, Native!Reasons
  <2>2. /\ reason' \in [n.operations -> Native(n)!Reasons]
        /\ cancel' \in [n.operations -> {"none", "won", "taken", "notified", "done"}]
        /\ CancelShape(n)'
        /\ \A y \in n.operations :
              /\ cancel'[y] = "done" => cancel[y] = "done"
              /\ reason[y] # "Live" => reason'[y] # "Live"
        /\ reason'[s] # "Live"
    BY <2>1, NativeSetReason
  <2>3. Native(n)!TypeOK'
    BY <1>22, <2>2
    DEF Native!CallClose, Native!cancelVars, Native!streamVars, Native!clientVars,
        Native!TypeOK, Native!Reasons
  <2>4. Quiet(n)'
    BY <1>22, <2>2
    DEF Native!CallClose, Native!cancelVars, Native!streamVars, Native!clientVars,
        Native!TypeOK, Quiet
  <2>5. OpShape(n)'
    BY <1>22, <2>2
    DEF Native!CallClose, Native!cancelVars, Native!streamVars, Native!clientVars,
        Native!TypeOK, OpShape
  <2>6. ReaderShape(n)'
    BY <1>22, <2>2
    DEF Native!CallClose, Native!cancelVars, Native!streamVars, Native!clientVars,
        Native!TypeOK, OpShape, ReaderShape
  <2>7. Native(n)!GuardsExact'
    BY <1>22, <2>2
    DEF Native!CallClose, Native!cancelVars, Native!streamVars, Native!clientVars,
        Native!TypeOK, OpShape, ReaderShape, Native!GuardsExact, Native!Busy
  <2>8. Native(n)!CancelledNotKept'
    BY <1>22, <2>2
    DEF Native!CallClose, Native!cancelVars, Native!streamVars, Native!clientVars,
        Native!TypeOK, ReaderShape, Native!CancelledNotKept
  <2> QED
    BY <2>2, <2>3, <2>4, <2>5, <2>6, <2>7, <2>8
<1>23. ASSUME NEW s \in n.streams, Native(n)!CloseStream(s) PROVE NativeInv(n)'
  <2>1. Native(n)!TypeOK'
    BY <1>23
    DEF Native!CloseStream, Native!Discard, Native!cancelVars, Native!streamVars,
        Native!clientVars, Native!TypeOK, Native!Reasons
  <2>2. Quiet(n)'
    BY <1>23
    DEF Native!CloseStream, Native!Discard, Native!cancelVars, Native!streamVars,
        Native!clientVars, Native!TypeOK, Quiet
  <2>3. OpShape(n)'
    BY <1>23
    DEF Native!CloseStream, Native!Discard, Native!cancelVars, Native!streamVars,
        Native!clientVars, Native!TypeOK, OpShape
  <2>4. ReaderShape(n)'
    BY <1>23, SMTT(30)
    DEF Native!CloseStream, Native!Discard, Native!cancelVars, Native!streamVars,
        Native!clientVars, Native!TypeOK, OpShape, ReaderShape
  <2>5. Native(n)!GuardsExact'
    BY <1>23
    DEF Native!CloseStream, Native!Discard, Native!cancelVars, Native!streamVars,
        Native!clientVars, Native!TypeOK, OpShape, ReaderShape, Native!GuardsExact, Native!Busy
  <2>6. CancelShape(n)' /\ Native(n)!CancelledNotKept'
    BY <1>23
    DEF Native!CloseStream, Native!Discard, Native!cancelVars, Native!streamVars,
        Native!clientVars, Native!TypeOK, ReaderShape, CancelShape, Native!CancelledNotKept
  <2> QED
    BY <2>1, <2>2, <2>3, <2>4, <2>5, <2>6
<1>24. ASSUME NEW k \in n.closers, Native(n)!BeginClose(k) PROVE NativeInv(n)'
  BY <1>24
  DEF Native!BeginClose, Native!cancelVars, Native!streamVars, Native!clientVars,
      Native!TypeOK, OpShape, ReaderShape, CancelShape, Native!GuardsExact,
      Native!CancelledNotKept, Quiet, Native!Busy, Native!Reasons
<1>25. ASSUME NEW k \in n.closers, Native(n)!Collect(k) PROVE NativeInv(n)'
  BY <1>25
  DEF Native!Collect, Native!cancelVars, Native!streamVars, Native!clientVars, Native!TypeOK,
      OpShape, ReaderShape, CancelShape, Native!GuardsExact, Native!CancelledNotKept, Quiet,
      Native!Busy, Native!Reasons
<1>26. ASSUME NEW k \in n.closers, Native(n)!CancelOne(k) PROVE NativeInv(n)'
  <2>0. PICK o \in todoClose[k] :
             /\ Native(n)!SetReason(o, "ClientClosed")
             /\ UNCHANGED <<closed, active, op, wait, ticket, cleanup, notified, slot,
                            nextLock, reader, shut, items, reloadLock>>
             /\ closer[k] = "cancel"
             /\ closer' \in [n.closers -> {"idle", "collect", "cancel", "cancelling", "waiting",
                                          "done"}]
             /\ todoClose' \in [n.closers -> SUBSET n.operations]
             /\ \A j \in n.closers : j # k => closer'[j] = closer[j]
             /\ closer'[k] \in {"cancel", "cancelling"}
    BY <1>26, SMTT(30) DEF Native!CancelOne, Native!streamVars, Native!TypeOK
  <2>1. /\ o \in n.operations /\ Native(n)!SetReason(o, "ClientClosed")
        /\ UNCHANGED <<slot, cleanup>> /\ "ClientClosed" \in Native(n)!Reasons \ {"Live"}
    BY <2>0 DEF Native!TypeOK, Native!Reasons
  <2>2. /\ reason' \in [n.operations -> Native(n)!Reasons]
        /\ cancel' \in [n.operations -> {"none", "won", "taken", "notified", "done"}]
        /\ CancelShape(n)'
        /\ \A y \in n.operations :
              /\ cancel'[y] = "done" => cancel[y] = "done"
              /\ reason[y] # "Live" => reason'[y] # "Live"
        /\ reason'[o] # "Live"
    BY <2>1, NativeSetReason
  <2>3. Native(n)!TypeOK'
    BY <2>0, <2>2 DEF Native!TypeOK, Native!Reasons
  <2>4. Quiet(n)'
    BY <2>0, <2>2 DEF Native!TypeOK, Quiet
  <2>5. OpShape(n)'
    BY <2>0, <2>2 DEF Native!TypeOK, OpShape
  <2>6. ReaderShape(n)'
    BY <2>0, <2>2 DEF Native!TypeOK, OpShape, ReaderShape
  <2>7. Native(n)!GuardsExact'
    BY <2>0, <2>2 DEF Native!TypeOK, OpShape, ReaderShape, Native!GuardsExact, Native!Busy
  <2>8. Native(n)!CancelledNotKept'
    BY <2>0, <2>2 DEF Native!TypeOK, ReaderShape, Native!CancelledNotKept
  <2> QED
    BY <2>2, <2>3, <2>4, <2>5, <2>6, <2>7, <2>8
<1>27. ASSUME NEW k \in n.closers, Native(n)!Cancelled(k) PROVE NativeInv(n)'
  BY <1>27
  DEF Native!Cancelled, Native!cancelVars, Native!streamVars, Native!clientVars,
      Native!TypeOK, OpShape, ReaderShape, CancelShape, Native!GuardsExact,
      Native!CancelledNotKept, Quiet, Native!Busy, Native!Reasons
<1>28. ASSUME NEW k \in n.closers, Native(n)!AwaitDrain(k) PROVE NativeInv(n)'
  BY <1>28
  DEF Native!AwaitDrain, Native!cancelVars, Native!streamVars, Native!clientVars,
      Native!TypeOK, OpShape, ReaderShape, CancelShape, Native!GuardsExact,
      Native!CancelledNotKept, Quiet, Native!Busy, Native!Reasons
<1>29. ASSUME NEW k \in n.closers, Native(n)!Drained(k) PROVE NativeInv(n)'
  BY <1>29
  DEF Native!Drained, Native!cancelVars, Native!streamVars, Native!clientVars, Native!TypeOK,
      OpShape, ReaderShape, CancelShape, Native!GuardsExact, Native!CancelledNotKept, Quiet,
      Native!Busy, Native!Reasons
<1>30. CASE UNCHANGED Native(n)!vars
  BY <1>30
  DEF Native!vars, Native!TypeOK, OpShape, ReaderShape, CancelShape, Native!GuardsExact,
      Native!CancelledNotKept, Quiet, Native!Busy, Native!Reasons
<1> QED
  BY <1>1, <1>2, <1>3, <1>4, <1>5, <1>6, <1>7, <1>8, <1>9, <1>10, <1>11, <1>12,
     <1>13, <1>14, <1>15, <1>16, <1>17, <1>18, <1>19, <1>20, <1>21, <1>22, <1>23,
     <1>24, <1>25, <1>26, <1>27, <1>28, <1>29, <1>30
  DEF Native!Next, Native!CancelStep, Native!WaitStep, Native!CloserStep

-----------------------------------------------------------------------------
(* The translation. *)

SseNames ==
    {"created", "added", "delta", "done", "terminal", "messageStart", "blockStart", "blockStop",
     "finish", "usage"}
SseWords ==
    {"none", "text", "reasoning", "tool", "usage", "stop", "length", "tool_calls", "failed",
     "cancelled", "end_turn", "max_tokens", "tool_use", "completed", "incomplete"}
SseEvent == [ev : SseNames, at : Nat, val : SseWords]
SseEmitter ==
    [started : BOOLEAN, current : Sse!Items, closed : Seq(Sse!Items), reason : Sse!Reasons,
     out : Seq(SseEvent)]
SseCall == [named : BOOLEAN, body : Sse!Bodies]
SseResponse ==
    [text : Sse!Bodies, reasoning : Sse!Bodies, reason : Sse!Reasons,
     calls : [Sse!Indexes -> SseCall]]
SseDeclared ==
    {"none", "stop", "length", "tool_calls", "end_turn", "max_tokens", "tool_use",
     "completed", "max_output_tokens", "failed", "cancelled"}
SseProvider ==
    [parts : Seq(Sse!Kinds), open : Nat, reason : SseDeclared, over : {"no", "done", "cut"},
     sent : 0 .. MaxEvents]

SseTyped ==
    /\ from \in Sse!Endpoints /\ to \in Sse!Endpoints \ {from}
    /\ up \in SseProvider /\ up.open <= Len(up.parts) /\ Len(up.parts) <= MaxParts
    /\ up.reason \in {"none"} \cup Sse!WireReasons[from]
    /\ argsSeen \in [Sse!Indexes -> {"none", "no", "yes"}]
    /\ acc \in SseResponse /\ em \in SseEmitter
    /\ terminalSeen \in BOOLEAN /\ finished \in BOOLEAN
    /\ over \in {"open", "ended", "failed"}

\* The items added, and those of them that are open, when the n-th event is sent.
SseAdded(out, n) == {j \in 1 .. n - 1 : out[j].ev = "added"}
SseOpen(out, n) ==
    {j \in SseAdded(out, n) : \A l \in j .. n - 1 : out[l] # Sse!Out("done", out[j].at, "none")}

SseInTurn(out, k) ==
    /\ out[k].ev \in {"added", "terminal"} => SseOpen(out, k) = {}
    /\ out[k].ev = "added" => out[k].at = Cardinality(SseAdded(out, k))
    /\ out[k].ev \in {"delta", "done"} => {out[j].at : j \in SseOpen(out, k)} = {out[k].at}

\* The events of a Responses stream so far have the emitter's current item open, and no other.
SseLog(m) ==
    LET n == Len(m.out) + 1 IN
    /\ \A k \in DOMAIN m.out : SseInTurn(m.out, k)
    /\ IF m.current.kind = "none"
       THEN /\ SseOpen(m.out, n) = {}
            /\ Cardinality(SseAdded(m.out, n)) = Len(m.closed)
       ELSE /\ m.current.index = Len(m.closed)
            /\ \E j \in 1 .. n - 1 : SseOpen(m.out, n) = {j} /\ m.out[j].at = m.current.index
            /\ Cardinality(SseAdded(m.out, n)) = Len(m.closed) + 1

\* The stream has its terminal event.
SseDone == finished /\ over # "failed"

\* The terminal event comes last, once the provider has declared the response over.
SseEnd ==
    /\ terminalSeen <=> up.reason # "none" \/ up.over = "done"
    /\ over = "open" => up.over # "cut" /\ (finished => up.over = "done")
    /\ over = "ended" => finished
    /\ SseDone => terminalSeen /\ em.out # <<>> /\ em.out[Len(em.out)].ev = "terminal"
    /\ \A k \in DOMAIN em.out : em.out[k].ev = "terminal" => SseDone /\ k = Len(em.out)

\* The reason the provider declared, in neutral words, and that in the words of the target.
SseNeutral ==
    CASE up.reason = "completed" ->
           IF \E j \in DOMAIN up.parts : up.parts[j] = "tool" THEN "tool_calls" ELSE "stop"
      [] up.reason \in {"max_output_tokens", "max_tokens"} -> "length"
      [] up.reason = "end_turn" -> "stop"
      [] up.reason = "tool_use" -> "tool_calls"
      [] OTHER -> up.reason
SseWord(r) == IF to = "messages" THEN Sse!ToMessages(r) ELSE r
SseFinishes(out) == {j \in DOMAIN out : out[j].ev = "finish"}

SseVerdict ==
    /\ up.reason # "none" => em.reason = SseNeutral
    /\ to = "responses" /\ SseDone => em.out[Len(em.out)].val = Sse!Status(em.reason)
    /\ to # "responses" =>
          /\ ~terminalSeen => SseFinishes(em.out) = {}
          /\ up.reason # "none" =>
                \E k \in DOMAIN em.out :
                    SseFinishes(em.out) = {k} /\ em.out[k].val = SseWord(em.reason)

\* The index the next tool call will have, and that of the i-th part.
SsePlace(parts, i) ==
    IF from = "chat" THEN Cardinality({j \in 1 .. i - 1 : parts[j] = "tool"}) ELSE i - 1

\* A call's item, open or closed, has its name and its pieces.
SseItems(m, i) == {k \in DOMAIN m.closed : m.closed[k].kind = "tool" /\ m.closed[k].call = i}
SseFilled(body) == IF body = <<>> THEN <<0>> ELSE body
SseCallOk(m, c, i) ==
    LET current == m.current.kind = "tool" /\ m.current.call = i IN
    /\ ~c.named => c.body = <<>> /\ SseItems(m, i) = {} /\ ~current
    /\ c.named /\ current =>
          SseItems(m, i) = {} /\ m.current.named /\ m.current.body = c.body
    /\ c.named /\ ~current =>
          \E k \in DOMAIN m.closed :
              /\ SseItems(m, i) = {k} /\ m.closed[k].named
              /\ m.closed[k].body = SseFilled(c.body)
\* What is said of a kind is in the items closed and the current one.
SseTextOk(m, text, kind) ==
    text = Sse!Said(kind, m.closed) \o IF m.current.kind = kind THEN m.current.body ELSE <<>>

SseAgrees(m, a) ==
    /\ \A i \in Sse!Indexes : SseCallOk(m, a.calls[i], i)
    /\ SseTextOk(m, a.text, "text") /\ SseTextOk(m, a.reasoning, "reasoning")

\* The open part is the last; if it is a tool call it is the current item.
SseTurn ==
    /\ up.open # 0 => up.open = Len(up.parts)
    /\ up.over = "no" /\ up.open # 0 /\ up.parts[up.open] = "tool" =>
          em.current.kind = "tool" /\ em.current.call = SsePlace(up.parts, up.open)
    /\ \A i \in Sse!Indexes : acc.calls[i].named => i < SsePlace(up.parts, Len(up.parts) + 1)

\* All but the turn of the open part.
SseStream ==
    /\ SseTyped /\ SseEnd /\ SseVerdict
    /\ to = "responses" =>
          SseLog(em) /\ SseAgrees(em, acc) /\ (SseDone => em.current.kind = "none")

SseInv == SseStream /\ (to = "responses" => SseTurn)

LEMMA SseCardinality == ASSUME NEW S PROVE Sse!Cardinality(S) = Cardinality(S)
  BY DEF Cardinality, Sse!Cardinality

\* What one more event changes in the log.
LEMMA SseAppended ==
    ASSUME NEW out \in Seq(SseEvent), NEW e \in SseEvent
    PROVE  LET new == Append(out, e)
               n == Len(out) + 1
           IN
           /\ new \in Seq(SseEvent) /\ Len(new) = n /\ DOMAIN new = 1 .. n /\ new[n] = e
           /\ \A k \in DOMAIN out : new[k] = out[k]
           /\ \A k \in 1 .. n : SseAdded(new, k) = SseAdded(out, k) /\ SseOpen(new, k) = SseOpen(out, k)
           /\ SseAdded(new, n + 1) = SseAdded(out, n) \cup (IF e.ev = "added" THEN {n} ELSE {})
           /\ SseOpen(new, n + 1) =
                 {j \in SseOpen(out, n) : e # Sse!Out("done", out[j].at, "none")}
                    \cup (IF e.ev = "added" THEN {n} ELSE {})
<1> DEFINE new == Append(out, e)
           n == Len(out) + 1
<1>1. /\ new \in Seq(SseEvent) /\ Len(new) = n /\ DOMAIN new = 1 .. n /\ new[n] = e
      /\ \A k \in DOMAIN out : new[k] = out[k]
      /\ DOMAIN out = 1 .. Len(out) /\ Len(out) \in Nat
  OBVIOUS
<1> HIDE DEF new
<1>2. ASSUME NEW k \in 1 .. n
      PROVE  SseAdded(new, k) = SseAdded(out, k) /\ SseOpen(new, k) = SseOpen(out, k)
  <2>1. SseAdded(new, k) = SseAdded(out, k)
    BY <1>1, <1>2 DEF SseAdded
  <2>2. ASSUME NEW j \in SseAdded(out, k)
        PROVE  (\A l \in j .. k - 1 : new[l] # Sse!Out("done", new[j].at, "none"))
               <=> (\A l \in j .. k - 1 : out[l] # Sse!Out("done", out[j].at, "none"))
    <3>1. j \in DOMAIN out /\ new[j] = out[j]
      BY <1>1, <2>2 DEF SseAdded
    <3>2. \A l \in j .. k - 1 : new[l] = out[l]
      BY <1>1, <2>2 DEF SseAdded
    <3> QED
      BY <3>1, <3>2
  <2> QED
    BY <2>1, <2>2 DEF SseOpen
<1>3. SseAdded(new, n + 1) = SseAdded(out, n) \cup (IF e.ev = "added" THEN {n} ELSE {})
  <2>1. \A j \in 1 .. n : j = n \/ (j \in 1 .. n - 1 /\ new[j] = out[j])
    BY <1>1
  <2> QED
    BY <1>1, <2>1 DEF SseAdded
<1>4. SseOpen(new, n + 1) =
         {j \in SseOpen(out, n) : e # Sse!Out("done", out[j].at, "none")}
            \cup (IF e.ev = "added" THEN {n} ELSE {})
  <2>1. ASSUME NEW j \in SseAdded(out, n)
        PROVE  (\A l \in j .. (n + 1) - 1 : new[l] # Sse!Out("done", new[j].at, "none"))
               <=> /\ \A l \in j .. n - 1 : out[l] # Sse!Out("done", out[j].at, "none")
                   /\ e # Sse!Out("done", out[j].at, "none")
    <3>1. j \in DOMAIN out /\ new[j] = out[j] /\ j \in Nat /\ j <= n
      BY <1>1, <2>1 DEF SseAdded
    <3>2. \A l \in j .. n - 1 : new[l] = out[l]
      BY <1>1, <3>1
    <3>3. \A l \in j .. (n + 1) - 1 : l = n \/ l \in j .. n - 1
      BY <1>1, <3>1
    <3>4. n \in j .. (n + 1) - 1 /\ \A l \in j .. n - 1 : l \in j .. (n + 1) - 1
      BY <1>1, <3>1
    <3> QED
      BY <1>1, <3>1, <3>2, <3>3, <3>4
  <2>2. e.ev = "added" => \A l \in n .. (n + 1) - 1 : new[l] # Sse!Out("done", new[n].at, "none")
    BY <1>1 DEF Sse!Out
  <2> HIDE DEF n
  <2>3. \A j \in SseOpen(new, n + 1) : \/ j \in SseOpen(out, n) /\ e # Sse!Out("done", out[j].at, "none")
                                       \/ j = n /\ e.ev = "added"
    BY <1>3, <2>1 DEF SseOpen
  <2>4. \A j \in SseOpen(out, n) : e # Sse!Out("done", out[j].at, "none") => j \in SseOpen(new, n + 1)
    BY <1>3, <2>1 DEF SseOpen
  <2>5. e.ev = "added" => n \in SseOpen(new, n + 1)
    BY <1>3, <2>2 DEF SseOpen
  <2> QED
    BY <2>3, <2>4, <2>5
<1> QED
  BY <1>1, <1>2, <1>3, <1>4 DEF new

\* An event that neither adds nor closes an item leaves the same item open.
LEMMA SseAppendedPlain ==
    ASSUME NEW out \in Seq(SseEvent), NEW e \in SseEvent, e.ev \notin {"added", "done"}
    PROVE  LET new == Append(out, e)
               n == Len(out) + 1
           IN SseAdded(new, n + 1) = SseAdded(out, n) /\ SseOpen(new, n + 1) = SseOpen(out, n)
<1>1. \A j \in DOMAIN out : e # Sse!Out("done", out[j].at, "none")
  BY DEF Sse!Out
<1>2. SseOpen(out, Len(out) + 1) \subseteq DOMAIN out
  BY DEF SseOpen, SseAdded
<1> DEFINE n == Len(out) + 1
<1>3. \A j \in SseOpen(out, n) : e # Sse!Out("done", out[j].at, "none")
  BY <1>1, <1>2
<1>4. /\ SseAdded(Append(out, e), n + 1) = SseAdded(out, n) \cup {}
      /\ SseOpen(Append(out, e), n + 1) =
            {j \in SseOpen(out, n) : e # Sse!Out("done", out[j].at, "none")} \cup {}
  BY SseAppended
<1> HIDE DEF n
<1> QED
  BY <1>3, <1>4 DEF n

\* The events before the last stay in turn.
LEMMA SseTurnsKept ==
    ASSUME NEW out \in Seq(SseEvent), NEW e \in SseEvent,
           \A k \in DOMAIN out : SseInTurn(out, k),
           /\ e.ev \in {"added", "terminal"} => SseOpen(out, Len(out) + 1) = {}
           /\ e.ev = "added" => e.at = Cardinality(SseAdded(out, Len(out) + 1))
           /\ e.ev \in {"delta", "done"} =>
                 {out[j].at : j \in SseOpen(out, Len(out) + 1)} = {e.at}
    PROVE  \A k \in DOMAIN Append(out, e) : SseInTurn(Append(out, e), k)
<1> DEFINE new == Append(out, e)
           n == Len(out) + 1
<1>1. /\ DOMAIN new = 1 .. n /\ new[n] = e /\ DOMAIN out = 1 .. n - 1 /\ n \in Nat /\ n >= 1
      /\ \A k \in DOMAIN out : new[k] = out[k]
      /\ \A k \in 1 .. n : SseAdded(new, k) = SseAdded(out, k) /\ SseOpen(new, k) = SseOpen(out, k)
  BY SseAppended
<1> HIDE DEF new, n
<1>2. \A k \in 1 .. n : \A j \in SseOpen(out, k) : new[j] = out[j]
  BY <1>1 DEF SseOpen, SseAdded
<1>3. ASSUME NEW k \in 1 .. n
      PROVE  {new[j].at : j \in SseOpen(new, k)} = {out[j].at : j \in SseOpen(out, k)}
  BY <1>1, <1>2, <1>3
<1>4. ASSUME NEW k \in DOMAIN out PROVE SseInTurn(new, k)
  <2>1. k \in 1 .. n /\ SseInTurn(out, k) /\ new[k] = out[k]
    BY <1>1
  <2>2. SseAdded(new, k) = SseAdded(out, k) /\ SseOpen(new, k) = SseOpen(out, k)
    BY <1>1, <2>1
  <2>3. {new[j].at : j \in SseOpen(out, k)} = {out[j].at : j \in SseOpen(out, k)}
    BY <1>3, <2>1, <2>2
  <2> QED
    BY <2>1, <2>2, <2>3 DEF SseInTurn
<1>5. SseInTurn(new, n)
  <2>1. n \in 1 .. n
    BY <1>1
  <2>2. SseAdded(new, n) = SseAdded(out, n) /\ SseOpen(new, n) = SseOpen(out, n)
    BY <1>1, <2>1
  <2>3. {new[j].at : j \in SseOpen(out, n)} = {out[j].at : j \in SseOpen(out, n)}
    BY <1>3, <2>1, <2>2
  <2>4. /\ e.ev \in {"added", "terminal"} => SseOpen(out, n) = {}
        /\ e.ev = "added" => e.at = Cardinality(SseAdded(out, n))
        /\ e.ev \in {"delta", "done"} => {out[j].at : j \in SseOpen(out, n)} = {e.at}
    BY DEF n
  <2> QED
    BY <1>1, <2>2, <2>3, <2>4 DEF SseInTurn
<1>6. \A k \in DOMAIN new : k = n \/ k \in DOMAIN out
  BY <1>1
<1> QED
  BY <1>4, <1>5, <1>6 DEF new

-----------------------------------------------------------------------------
(* The emitter of a Responses stream. *)

\* An event is put at the end of the log and changes nothing else.
LEMMA SsePut ==
    ASSUME NEW m \in SseEmitter, NEW ev \in SseNames, NEW at \in Nat, NEW val \in SseWords
    PROVE  LET p == Sse!Put(m, ev, at, val) IN
           /\ p \in SseEmitter /\ Sse!Out(ev, at, val) \in SseEvent
           /\ p.out = Append(m.out, Sse!Out(ev, at, val))
           /\ p.started = m.started /\ p.current = m.current /\ p.closed = m.closed
           /\ p.reason = m.reason
<1>1. Sse!Out(ev, at, val) \in SseEvent
  BY DEF Sse!Out, SseEvent
<1>2. m.out \in Seq(SseEvent)
  BY DEF SseEmitter
<1>3. Append(m.out, Sse!Out(ev, at, val)) \in Seq(SseEvent)
  BY <1>1, <1>2
<1> QED
  BY <1>1, <1>3 DEF Sse!Put, SseEmitter

\* An event that has nothing to do with items.
LEMMA SseLogPlain ==
    ASSUME NEW m \in SseEmitter, NEW ev \in SseNames, NEW at \in Nat, NEW val \in SseWords,
           SseLog(m), ev \notin {"added", "done", "delta", "terminal"}
    PROVE  SseLog(Sse!Put(m, ev, at, val))
<1> DEFINE e == Sse!Out(ev, at, val)
           p == Sse!Put(m, ev, at, val)
           n == Len(m.out) + 1
<1>1. /\ p \in SseEmitter /\ p.out = Append(m.out, e) /\ e \in SseEvent
      /\ p.current = m.current /\ p.closed = m.closed
  BY SsePut
<1>2. m.out \in Seq(SseEvent) /\ e.ev = ev
  BY DEF SseEmitter, Sse!Out
<1>3. Len(p.out) + 1 = n + 1 /\ n \in Nat /\ \A k \in DOMAIN m.out : p.out[k] = m.out[k]
  BY <1>1, <1>2
<1>4. SseAdded(p.out, n + 1) = SseAdded(m.out, n) /\ SseOpen(p.out, n + 1) = SseOpen(m.out, n)
  BY <1>1, <1>2, SseAppendedPlain
<1>5. \A k \in DOMAIN p.out : SseInTurn(p.out, k)
  BY <1>1, <1>2, SseTurnsKept DEF SseLog
<1>6. \A j \in 1 .. n - 1 : j \in 1 .. (n + 1) - 1 /\ j \in DOMAIN m.out
  BY <1>2, <1>3
<1> HIDE DEF p, e, n
<1>7. CASE m.current.kind = "none"
  <2>1. SseOpen(m.out, n) = {} /\ Cardinality(SseAdded(m.out, n)) = Len(m.closed)
    BY <1>7 DEF SseLog, n
  <2>2. /\ SseOpen(p.out, Len(p.out) + 1) = {}
        /\ Cardinality(SseAdded(p.out, Len(p.out) + 1)) = Len(p.closed)
    BY <1>1, <1>3, <1>4, <2>1
  <2> QED
    BY <1>1, <1>5, <1>7, <2>2 DEF SseLog, p
<1>8. CASE m.current.kind # "none"
  <2>1. PICK j \in 1 .. n - 1 : SseOpen(m.out, n) = {j} /\ m.out[j].at = m.current.index
    BY <1>8 DEF SseLog, n
  <2>2. /\ SseOpen(p.out, Len(p.out) + 1) = {j} /\ p.out[j].at = p.current.index
        /\ j \in 1 .. (Len(p.out) + 1) - 1
    BY <1>1, <1>3, <1>4, <1>6, <2>1
  <2>3. Cardinality(SseAdded(m.out, n)) = Len(m.closed) + 1 /\ m.current.index = Len(m.closed)
    BY <1>8 DEF SseLog, n
  <2>4. /\ Cardinality(SseAdded(p.out, Len(p.out) + 1)) = Len(p.closed) + 1
        /\ p.current.index = Len(p.closed)
    BY <1>1, <1>3, <1>4, <2>3
  <2> QED
    BY <1>1, <1>5, <1>8, <2>2, <2>4 DEF SseLog, p
<1> QED
  BY <1>7, <1>8 DEF p

\* A delta of the current item.
LEMMA SseLogDelta ==
    ASSUME NEW m \in SseEmitter, SseLog(m), m.current.kind # "none"
    PROVE  SseLog(Sse!Put(m, "delta", m.current.index, "none"))
<1> DEFINE e == Sse!Out("delta", m.current.index, "none")
           p == Sse!Put(m, "delta", m.current.index, "none")
           n == Len(m.out) + 1
<1>0. m.current.index \in Nat
  BY DEF SseEmitter, Sse!Items
<1>1. /\ p \in SseEmitter /\ p.out = Append(m.out, e) /\ e \in SseEvent
      /\ p.current = m.current /\ p.closed = m.closed
  BY <1>0, SsePut DEF SseNames, SseWords
<1>2. m.out \in Seq(SseEvent) /\ e.ev = "delta" /\ e.at = m.current.index
  BY DEF SseEmitter, Sse!Out
<1>3. Len(p.out) + 1 = n + 1 /\ n \in Nat /\ \A k \in DOMAIN m.out : p.out[k] = m.out[k]
  BY <1>1, <1>2
<1>4. SseAdded(p.out, n + 1) = SseAdded(m.out, n) /\ SseOpen(p.out, n + 1) = SseOpen(m.out, n)
  BY <1>1, <1>2, SseAppendedPlain
<1>5. PICK j \in 1 .. n - 1 : SseOpen(m.out, n) = {j} /\ m.out[j].at = m.current.index
  BY DEF SseLog
<1>6. j \in 1 .. (n + 1) - 1 /\ j \in DOMAIN m.out
  BY <1>2, <1>3
<1>7. {m.out[i].at : i \in SseOpen(m.out, n)} = {e.at}
  BY <1>2, <1>5
<1>8. \A k \in DOMAIN p.out : SseInTurn(p.out, k)
  BY <1>1, <1>2, <1>7, SseTurnsKept DEF SseLog
<1> HIDE DEF p, e, n
<1>9. SseOpen(p.out, n + 1) = {j} /\ p.out[j].at = p.current.index
  BY <1>1, <1>3, <1>4, <1>5, <1>6
<1>10. Cardinality(SseAdded(p.out, n + 1)) = Len(p.closed) + 1 /\ p.current.index = Len(p.closed)
  BY <1>1, <1>4 DEF SseLog, n
<1> QED
  BY <1>1, <1>3, <1>6, <1>8, <1>9, <1>10 DEF SseLog, p

\* The terminal event, with no item open.
LEMMA SseLogTerminal ==
    ASSUME NEW m \in SseEmitter, NEW val \in SseWords, SseLog(m), m.current.kind = "none"
    PROVE  SseLog(Sse!Put(m, "terminal", 0, val))
<1> DEFINE e == Sse!Out("terminal", 0, val)
           p == Sse!Put(m, "terminal", 0, val)
           n == Len(m.out) + 1
<1>1. /\ p \in SseEmitter /\ p.out = Append(m.out, e) /\ e \in SseEvent
      /\ p.current = m.current /\ p.closed = m.closed
  BY SsePut DEF SseNames
<1>2. m.out \in Seq(SseEvent) /\ e.ev = "terminal"
  BY DEF SseEmitter, Sse!Out
<1>3. Len(p.out) + 1 = n + 1
  BY <1>1, <1>2
<1>4. SseAdded(p.out, n + 1) = SseAdded(m.out, n) /\ SseOpen(p.out, n + 1) = SseOpen(m.out, n)
  BY <1>1, <1>2, SseAppendedPlain
<1>5. \A k \in DOMAIN p.out : SseInTurn(p.out, k)
  BY <1>1, <1>2, SseTurnsKept DEF SseLog
<1> HIDE DEF p, e, n
<1> QED
  BY <1>1, <1>3, <1>4, <1>5 DEF SseLog, n, p

\* What the emitter keeps of an item when it closes it.
SseClosed(m) ==
    IF m.current.kind = "tool" /\ m.current.body = <<>>
    THEN [m.current EXCEPT !.body = <<0>>] ELSE m.current

\* The item as it is closed: the current one, its arguments made {} if they are empty.
LEMMA SseClosedTyped ==
    ASSUME NEW m \in SseEmitter, MaxEvents \in Nat
    PROVE  /\ SseClosed(m) \in Sse!Items /\ SseClosed(m).index = m.current.index
           /\ SseClosed(m).kind = m.current.kind /\ SseClosed(m).call = m.current.call
           /\ SseClosed(m).named = m.current.named
           /\ SseClosed(m).body =
                 IF m.current.kind = "tool" THEN SseFilled(m.current.body) ELSE m.current.body
<1>1. m.current \in Sse!Items
  BY DEF SseEmitter
<1>2. <<0>> \in Sse!Bodies
  BY DEF Sse!Bodies
<1> QED
  BY <1>1, <1>2 DEF SseClosed, SseFilled, Sse!Items

\* Closing the current item sends its done event and leaves none open.
LEMMA SseClose ==
    ASSUME NEW m \in SseEmitter, SseLog(m), m.current.kind # "none",
           MaxEvents \in Nat, MaxParts \in Nat
    PROVE  LET p == Sse!CloseCurrent(m) IN
           /\ p \in SseEmitter /\ SseLog(p)
           /\ p.current = Sse!NoItem /\ p.closed = Append(m.closed, SseClosed(m))
           /\ p.started = m.started /\ p.reason = m.reason
           /\ p.out = Append(m.out, Sse!Out("done", m.current.index, "none"))
<1> DEFINE q == [m EXCEPT !.current = Sse!NoItem, !.closed = Append(@, SseClosed(m))]
           e == Sse!Out("done", m.current.index, "none")
           p == Sse!Put(q, "done", m.current.index, "none")
           n == Len(m.out) + 1
<1>0. m.current.index \in Nat /\ m.out \in Seq(SseEvent) /\ m.closed \in Seq(Sse!Items)
  BY DEF SseEmitter, Sse!Items
<1>1. SseClosed(m) \in Sse!Items /\ SseClosed(m).index = m.current.index
  BY SseClosedTyped
<1>2. Sse!NoItem \in Sse!Items
  <2>1. <<>> \in Sse!Bodies /\ 0 \in Sse!Indexes
    BY DEF Sse!Bodies, Sse!Indexes
  <2> QED
    BY <2>1 DEF Sse!NoItem, Sse!Items
<1>3. q \in SseEmitter /\ q.out = m.out /\ q.closed = Append(m.closed, SseClosed(m))
      /\ q.current = Sse!NoItem /\ q.started = m.started /\ q.reason = m.reason
  <2>1. Append(m.closed, SseClosed(m)) \in Seq(Sse!Items)
    BY <1>0, <1>1
  <2> QED
    BY <1>2, <2>1 DEF SseEmitter
<1>4. p = Sse!CloseCurrent(m)
  BY <1>1 DEF Sse!CloseCurrent, SseClosed
<1> HIDE DEF q
<1>5. /\ p \in SseEmitter /\ p.out = Append(m.out, e) /\ e \in SseEvent
      /\ p.current = Sse!NoItem /\ p.closed = Append(m.closed, SseClosed(m))
      /\ p.started = m.started /\ p.reason = m.reason
  <2>1. /\ p \in SseEmitter /\ e \in SseEvent /\ p.out = Append(q.out, e)
        /\ p.started = q.started /\ p.current = q.current /\ p.closed = q.closed
        /\ p.reason = q.reason
    <3>1. q \in SseEmitter /\ "done" \in SseNames /\ "none" \in SseWords
      BY <1>3 DEF SseNames, SseWords
    <3> QED
      BY <1>0, <3>1, SsePut
  <2> QED
    BY <1>3, <2>1
<1>6. e.ev = "done" /\ e.at = m.current.index
  BY DEF Sse!Out
<1>7. PICK j \in 1 .. n - 1 : SseOpen(m.out, n) = {j} /\ m.out[j].at = m.current.index
  BY DEF SseLog
<1>8. {m.out[i].at : i \in SseOpen(m.out, n)} = {e.at}
  BY <1>6, <1>7
<1>9. \A k \in DOMAIN p.out : SseInTurn(p.out, k)
  BY <1>0, <1>5, <1>6, <1>8, SseTurnsKept DEF SseLog
<1>10. /\ SseAdded(p.out, n + 1) = SseAdded(m.out, n) \cup {}
       /\ SseOpen(p.out, n + 1) =
             {i \in SseOpen(m.out, n) : e # Sse!Out("done", m.out[i].at, "none")} \cup {}
  <2>1. LET new == Append(m.out, e)
            k == Len(m.out) + 1
        IN /\ SseAdded(new, k + 1) = SseAdded(m.out, k) \cup (IF e.ev = "added" THEN {k} ELSE {})
           /\ SseOpen(new, k + 1) =
                 {i \in SseOpen(m.out, k) : e # Sse!Out("done", m.out[i].at, "none")}
                    \cup (IF e.ev = "added" THEN {k} ELSE {})
    BY <1>0, <1>5, SseAppended
  <2> QED
    BY <1>5, <1>6, <2>1
<1>11. Len(p.out) + 1 = n + 1 /\ Len(p.closed) = Len(m.closed) + 1
  BY <1>0, <1>1, <1>5
<1> HIDE DEF p, n
<1>12. SseOpen(p.out, n + 1) = {}
  BY <1>7, <1>10
<1>13. Cardinality(SseAdded(p.out, n + 1)) = Len(p.closed)
  BY <1>10, <1>11 DEF SseLog, n
<1>14. SseLog(p)
  BY <1>5, <1>9, <1>11, <1>12, <1>13 DEF SseLog, Sse!NoItem
<1> QED
  BY <1>4, <1>5, <1>14

LEMMA SseAddedFinite ==
    ASSUME NEW out, NEW n \in Nat
    PROVE  /\ IsFiniteSet(SseAdded(out, n)) /\ n \notin SseAdded(out, n)
           /\ Cardinality(SseAdded(out, n)) \in Nat
           /\ Cardinality(SseAdded(out, n) \cup {n}) = Cardinality(SseAdded(out, n)) + 1
<1>1. IsFiniteSet(1 .. n - 1)
  BY FS_Interval
<1>2. SseAdded(out, n) \subseteq 1 .. n - 1 /\ n \notin SseAdded(out, n)
  BY DEF SseAdded
<1>3. IsFiniteSet(SseAdded(out, n))
  BY <1>1, <1>2, FS_Subset
<1> QED
  BY <1>2, <1>3, FS_CardinalityType, FS_AddElement

\* A new item takes the next index.
LEMMA SseOpens ==
    ASSUME NEW m \in SseEmitter, SseLog(m), m.current.kind = "none", MaxEvents \in Nat,
           NEW k \in Sse!Kinds, NEW i \in Sse!Indexes, NEW b \in BOOLEAN
    PROVE  LET p == Sse!OpenItem(m, k, i, b) IN
           /\ p \in SseEmitter /\ SseLog(p)
           /\ p.current = [kind |-> k, call |-> i, named |-> b, body |-> <<>>,
                           index |-> Len(m.closed)]
           /\ p.closed = m.closed /\ p.started = m.started /\ p.reason = m.reason
           /\ p.out = Append(m.out, Sse!Out("added", Len(m.closed), "none"))
<1> DEFINE item == [kind |-> k, call |-> i, named |-> b, body |-> <<>>, index |-> Len(m.closed)]
           q == [m EXCEPT !.current = item]
           e == Sse!Out("added", Len(m.closed), "none")
           p == Sse!Put(q, "added", Len(m.closed), "none")
           n == Len(m.out) + 1
<1>0. Len(m.closed) \in Nat /\ m.out \in Seq(SseEvent) /\ n \in Nat /\ n >= 1
  BY DEF SseEmitter
<1>1. item \in Sse!Items
  <2>1. <<>> \in Sse!Bodies
    BY DEF Sse!Bodies
  <2> QED
    BY <1>0, <2>1 DEF Sse!Items
<1>2. /\ q \in SseEmitter /\ q.out = m.out /\ q.closed = m.closed /\ q.current = item
      /\ q.started = m.started /\ q.reason = m.reason
  BY <1>1 DEF SseEmitter
<1>3. p = Sse!OpenItem(m, k, i, b)
  BY DEF Sse!OpenItem
<1> HIDE DEF q
<1>4. "added" \in SseNames /\ "none" \in SseWords
  BY DEF SseNames, SseWords
<1>5. /\ p \in SseEmitter /\ p.out = Append(q.out, e) /\ e \in SseEvent
      /\ p.current = q.current /\ p.closed = q.closed /\ p.started = q.started
      /\ p.reason = q.reason
  BY <1>0, <1>2, <1>4, SsePut
<1>6. e.ev = "added" /\ e.at = Len(m.closed)
  BY DEF Sse!Out
<1>7. SseOpen(m.out, n) = {} /\ Cardinality(SseAdded(m.out, n)) = Len(m.closed)
  BY DEF SseLog
<1>8. \A j \in DOMAIN p.out : SseInTurn(p.out, j)
  BY <1>0, <1>2, <1>5, <1>6, <1>7, SseTurnsKept DEF SseLog
<1>9. /\ SseAdded(p.out, n + 1) = SseAdded(m.out, n) \cup {n}
      /\ SseOpen(p.out, n + 1) = {n} /\ p.out[n] = e
  <2>1. LET new == Append(m.out, e)
            j == Len(m.out) + 1
        IN /\ SseAdded(new, j + 1) = SseAdded(m.out, j) \cup (IF e.ev = "added" THEN {j} ELSE {})
           /\ SseOpen(new, j + 1) =
                 {l \in SseOpen(m.out, j) : e # Sse!Out("done", m.out[l].at, "none")}
                    \cup (IF e.ev = "added" THEN {j} ELSE {})
           /\ new[j] = e
    BY <1>0, <1>5, SseAppended
  <2> QED
    BY <1>2, <1>5, <1>6, <1>7, <2>1
<1>10. Len(p.out) + 1 = n + 1
  BY <1>0, <1>2, <1>5
<1> HIDE DEF p, n, e
<1>11. Cardinality(SseAdded(p.out, n + 1)) = Len(m.closed) + 1
  BY <1>0, <1>7, <1>9, SseAddedFinite
<1>12. /\ SseOpen(p.out, Len(p.out) + 1) = {n} /\ p.out[n].at = p.current.index
       /\ Cardinality(SseAdded(p.out, Len(p.out) + 1)) = Len(p.closed) + 1
       /\ n \in 1 .. (Len(p.out) + 1) - 1 /\ p.current.index = Len(p.closed)
       /\ p.current.kind # "none"
  BY <1>0, <1>2, <1>5, <1>6, <1>9, <1>10, <1>11 DEF Sse!Kinds
<1>13. SseLog(p)
  BY <1>8, <1>12 DEF SseLog
<1> QED
  BY <1>2, <1>3, <1>5, <1>13 DEF e

\* The first event of a Responses stream.
LEMMA SseStarts ==
    ASSUME NEW m \in SseEmitter, SseLog(m), to = "responses"
    PROVE  LET s == Sse!Started(m) IN
           /\ s \in SseEmitter /\ SseLog(s)
           /\ s.current = m.current /\ s.closed = m.closed /\ s.reason = m.reason
           /\ s.out = m.out \/ s.out = Append(m.out, Sse!Out("created", 0, "none"))
<1> DEFINE q == [m EXCEPT !.started = TRUE]
<1>1. /\ q \in SseEmitter /\ q.out = m.out /\ q.closed = m.closed /\ q.current = m.current
      /\ q.reason = m.reason
  BY DEF SseEmitter
<1>2. SseLog(q)
  BY <1>1 DEF SseLog
<1>3. Sse!Started(m) \in {q, Sse!Put(q, "created", 0, "none")}
  BY DEF Sse!Started
<1>4. "created" \in SseNames /\ "none" \in SseWords
  BY DEF SseNames, SseWords
<1> HIDE DEF q
<1>5. LET p == Sse!Put(q, "created", 0, "none") IN
      /\ p \in SseEmitter /\ p.out = Append(q.out, Sse!Out("created", 0, "none"))
      /\ p.current = q.current /\ p.closed = q.closed /\ p.reason = q.reason
  BY <1>1, <1>4, SsePut
<1>6. SseLog(Sse!Put(q, "created", 0, "none"))
  BY <1>1, <1>2, <1>4, SseLogPlain
<1> QED
  BY <1>1, <1>2, <1>3, <1>5, <1>6

-----------------------------------------------------------------------------
(* What the items of a kind say. *)

\* The least element of a set of naturals.
LEMMA LeastOf ==
    ASSUME NEW S, S \subseteq Nat, S # {}
    PROVE  \E i \in S : \A j \in S : i <= j
<1>1. PICK i \in S : \A j \in S : ~(<<j, i>> \in OpToRel(<, Nat))
  BY NatLessThanWellFounded, WFMin
<1>2. ASSUME NEW j \in S PROVE i <= j
  <2>1. i \in Nat /\ j \in Nat
    BY <1>1
  <2>2. ASSUME j < i PROVE FALSE
    <3>1. <<j, i>> \in OpToRel(<, Nat)
      BY <2>1, <2>2 DEF OpToRel
    <3> QED
      BY <1>1, <1>2, <3>1
  <2> QED
    BY <2>1, <2>2
<1> QED
  BY <1>1, <1>2

\* The recursion of Said, up to the n-th item.
SseNext(kind, item, text) == IF item.kind = kind THEN text \o item.body ELSE text
SseSaying(kind, its, g, n) ==
    [j \in 0 .. n |-> IF j = 0 THEN <<>> ELSE SseNext(kind, its[j], g[j - 1])]

\* What the first n items say, as a function that satisfies its recursive equation.
LEMMA SayingExists ==
    ASSUME NEW kind, NEW its, NEW n \in Nat
    PROVE  \E g : g = SseSaying(kind, its, g, n)
<1> DEFINE bad == {i \in Nat : ~\E g : g = SseSaying(kind, its, g, i)}
<1>1. ASSUME bad # {} PROVE FALSE
  <2>1. PICK i \in bad : \A j \in bad : i <= j
    <3> HIDE DEF bad
    <3>1. bad \subseteq Nat
      BY DEF bad
    <3> QED
      BY <1>1, <3>1, LeastOf
  <2>2. i \in Nat /\ ~\E g : g = SseSaying(kind, its, g, i)
    OBVIOUS
  <2>3. CASE i = 0
    <3> DEFINE g == [j \in 0 .. 0 |-> <<>>]
    <3>1. g = SseSaying(kind, its, g, 0)
      BY DEF SseSaying
    <3> QED
      BY <2>2, <2>3, <3>1
  <2>4. CASE i # 0
    <3>1. i - 1 \in Nat /\ i - 1 < i
      BY <2>2, <2>4
    <3>2. i - 1 \notin bad
      <4> HIDE DEF bad
      <4>1. ASSUME i - 1 \in bad PROVE FALSE
        <5>1. i <= i - 1
          BY <2>1, <4>1
        <5> QED
          BY <5>1, <2>2
      <4> QED
        BY <4>1
    <3>3. PICK g : g = SseSaying(kind, its, g, i - 1)
      BY <3>1, <3>2 DEF bad
    <3> DEFINE h == [j \in 0 .. i |->
                       IF j = i THEN SseNext(kind, its[i], g[i - 1]) ELSE g[j]]
    <3>4. ASSUME NEW j \in 0 .. i
          PROVE  h[j] = IF j = 0 THEN <<>> ELSE SseNext(kind, its[j], h[j - 1])
      <4>1. CASE j = i
        <5>1. j - 1 \in 0 .. i /\ j - 1 # i
          BY <4>1, <2>2, <2>4
        <5> QED
          BY <4>1, <5>1, <2>4
      <4>2. CASE j # i
        <5>1. j \in 0 .. i - 1
          BY <4>2, <2>2
        <5>2. g[j] = IF j = 0 THEN <<>> ELSE SseNext(kind, its[j], g[j - 1])
          BY <3>3, <5>1 DEF SseSaying
        <5>3. j # 0 => h[j - 1] = g[j - 1]
          <6>1. j # 0 => j - 1 \in 0 .. i /\ j - 1 # i
            BY <5>1, <2>2
          <6> QED
            BY <6>1
        <5> QED
          BY <4>2, <5>2, <5>3
      <4> QED
        BY <4>1, <4>2
    <3>5. h = SseSaying(kind, its, h, i)
      <4>1. h = [j \in 0 .. i |-> h[j]]
        OBVIOUS
      <4> HIDE DEF h
      <4> QED
        BY <3>4, <4>1 DEF SseSaying
    <3> QED
      BY <2>2, <3>5
  <2> QED
    BY <2>3, <2>4
<1> QED
  BY <1>1

\* Where two sequences agree, they say the same.
LEMMA SayingAgrees ==
    ASSUME NEW kind, NEW its, NEW its2, NEW g, NEW h, NEW n \in Nat, NEW n2 \in Nat,
           g = SseSaying(kind, its, g, n), h = SseSaying(kind, its2, h, n2),
           n <= n2, \A j \in 1 .. n : its[j] = its2[j]
    PROVE  \A j \in 0 .. n : g[j] = h[j]
<1> DEFINE bad == {i \in 0 .. n : g[i] # h[i]}
<1>1. ASSUME bad # {} PROVE FALSE
  <2>1. PICK i \in bad : \A j \in bad : i <= j
    <3> HIDE DEF bad
    <3>1. bad \subseteq Nat
      BY DEF bad
    <3> QED
      BY <1>1, <3>1, LeastOf
  <2>2. i \in 0 .. n /\ i \in 0 .. n2 /\ g[i] # h[i]
    BY <2>1
  <2>3. CASE i = 0
    <3>1. g[0] = <<>> /\ h[0] = <<>>
      BY <2>2, <2>3 DEF SseSaying
    <3> QED
      BY <2>2, <2>3, <3>1
  <2>4. CASE i # 0
    <3>1. i - 1 \in 0 .. n /\ i - 1 < i /\ i \in 1 .. n
      BY <2>2, <2>4
    <3>2. g[i - 1] = h[i - 1]
      <4>1. i - 1 \notin bad
        <5> HIDE DEF bad
        <5>1. ASSUME i - 1 \in bad PROVE FALSE
          <6>1. i <= i - 1
            BY <2>1, <5>1
          <6> QED
            BY <6>1, <2>2
        <5> QED
          BY <5>1
      <4> QED
        BY <3>1, <4>1
    <3>3. g[i] = SseNext(kind, its[i], g[i - 1])
      BY <2>2, <2>4 DEF SseSaying
    <3>4. h[i] = SseNext(kind, its2[i], h[i - 1])
      BY <2>2, <2>4 DEF SseSaying
    <3> QED
      BY <2>2, <3>1, <3>2, <3>3, <3>4
  <2> QED
    BY <2>3, <2>4
<1> QED
  BY <1>1

\* Said is the last value of such a function.
LEMMA SaidIs ==
    ASSUME NEW kind, NEW its, Len(its) \in Nat
    PROVE  \E g : g = SseSaying(kind, its, g, Len(its)) /\ Sse!Said(kind, its) = g[Len(its)]
<1> DEFINE g == CHOOSE f : f = SseSaying(kind, its, f, Len(its))
<1>1. Sse!Said(kind, its) = g[Len(its)]
  BY DEF Sse!Said, SseSaying, SseNext
<1>2. g = SseSaying(kind, its, g, Len(its))
  <2>1. \E f : f = SseSaying(kind, its, f, Len(its))
    BY SayingExists
  <2> QED
    BY <2>1
<1> HIDE DEF g
<1> QED
  BY <1>1, <1>2

LEMMA SaidNothing == ASSUME NEW kind PROVE Sse!Said(kind, <<>>) = <<>>
<1>1. Len(<<>>) = 0
  OBVIOUS
<1>2. PICK g : g = SseSaying(kind, <<>>, g, 0) /\ Sse!Said(kind, <<>>) = g[0]
  BY <1>1, SaidIs
<1>3. g[0] = <<>>
  BY <1>2 DEF SseSaying
<1> QED
  BY <1>2, <1>3

\* One more item adds its body if it is of the kind, and nothing otherwise.
LEMMA SaidAppend ==
    ASSUME NEW kind, NEW its \in Seq(Sse!Items), NEW item \in Sse!Items
    PROVE  Sse!Said(kind, Append(its, item)) = SseNext(kind, item, Sse!Said(kind, its))
<1> DEFINE new == Append(its, item)
           n == Len(its)
<1>1. n \in Nat /\ Len(new) = n + 1 /\ new[n + 1] = item /\ \A j \in 1 .. n : its[j] = new[j]
  OBVIOUS
<1>2. PICK g : g = SseSaying(kind, its, g, n) /\ Sse!Said(kind, its) = g[n]
  BY <1>1, SaidIs
<1> HIDE DEF new, n
<1>3. PICK h : h = SseSaying(kind, new, h, n + 1) /\ Sse!Said(kind, new) = h[n + 1]
  <2>1. Len(new) \in Nat
    BY <1>1
  <2> QED
    BY <1>1, <2>1, SaidIs
<1>4. g[n] = h[n]
  <2>1. n + 1 \in Nat /\ n <= n + 1 /\ n \in 0 .. n
    BY <1>1
  <2> QED
    BY <1>1, <1>2, <1>3, <2>1, SayingAgrees
<1>5. h[n + 1] = SseNext(kind, new[n + 1], h[(n + 1) - 1])
  <2>1. n + 1 \in 0 .. n + 1 /\ n + 1 # 0
    BY <1>1
  <2> QED
    BY <1>3, <2>1 DEF SseSaying
<1>6. (n + 1) - 1 = n
  BY <1>1
<1> QED
  BY <1>1, <1>2, <1>3, <1>4, <1>5, <1>6 DEF new

LEMMA SaidTyped ==
    ASSUME NEW kind, NEW its \in Seq(Sse!Items)
    PROVE  Sse!Said(kind, its) \in Sse!Bodies
<1>1. Len(its) \in Nat
  OBVIOUS
<1>2. PICK g : g = SseSaying(kind, its, g, Len(its)) /\ Sse!Said(kind, its) = g[Len(its)]
  BY <1>1, SaidIs
<1> DEFINE bad == {i \in 0 .. Len(its) : g[i] \notin Sse!Bodies}
<1>3. ASSUME bad # {} PROVE FALSE
  <2>1. PICK i \in bad : \A j \in bad : i <= j
    <3> HIDE DEF bad
    <3>1. bad \subseteq Nat
      BY DEF bad
    <3> QED
      BY <1>3, <3>1, LeastOf
  <2>2. i \in 0 .. Len(its) /\ g[i] \notin Sse!Bodies
    BY <2>1
  <2>3. CASE i = 0
    <3>1. g[0] = <<>>
      BY <1>2, <2>2, <2>3 DEF SseSaying
    <3> QED
      BY <2>2, <2>3, <3>1 DEF Sse!Bodies
  <2>4. CASE i # 0
    <3>1. i - 1 \in 0 .. Len(its) /\ i - 1 < i /\ i \in DOMAIN its
      BY <1>1, <2>2, <2>4
    <3>2. g[i - 1] \in Sse!Bodies
      <4>1. i - 1 \notin bad
        <5> HIDE DEF bad
        <5>1. ASSUME i - 1 \in bad PROVE FALSE
          <6>1. i <= i - 1
            BY <2>1, <5>1
          <6> QED
            BY <6>1, <2>2, <1>1
        <5> QED
          BY <5>1
      <4> QED
        BY <3>1, <4>1
    <3>3. g[i] = SseNext(kind, its[i], g[i - 1])
      BY <1>2, <2>2, <2>4 DEF SseSaying
    <3>4. its[i].body \in Sse!Bodies
      <4>1. its[i] \in Sse!Items
        BY <3>1
      <4> QED
        BY <4>1 DEF Sse!Items
    <3>5. g[i] \in Sse!Bodies
      <4>1. g[i - 1] \o its[i].body \in Sse!Bodies
        BY <3>2, <3>4 DEF Sse!Bodies
      <4> QED
        BY <3>2, <3>3, <4>1 DEF SseNext
    <3> QED
      BY <2>2, <3>5
  <2> QED
    BY <2>3, <2>4
<1>4. Len(its) \in 0 .. Len(its)
  BY <1>1
<1> QED
  BY <1>2, <1>3, <1>4

-----------------------------------------------------------------------------
(* What the items say is what was accumulated. *)

\* The stream has no terminal event yet.
SseQuiet(out) == \A k \in DOMAIN out : out[k].ev # "terminal"

\* An event other than the terminal one leaves the stream unfinished.
LEMMA SseQuietKept ==
    ASSUME NEW out \in Seq(SseEvent), NEW e \in SseEvent, SseQuiet(out), e.ev # "terminal"
    PROVE  SseQuiet(Append(out, e))
<1> DEFINE new == Append(out, e)
<1>1. /\ DOMAIN new = 1 .. Len(out) + 1 /\ new[Len(out) + 1] = e /\ DOMAIN out = 1 .. Len(out)
      /\ \A k \in DOMAIN out : new[k] = out[k]
  OBVIOUS
<1> HIDE DEF new
<1>2. \A k \in DOMAIN new : k = Len(out) + 1 \/ k \in DOMAIN out
  BY <1>1
<1>3. SseQuiet(new)
  BY <1>1, <1>2 DEF SseQuiet
<1> QED
  BY <1>3 DEF new

LEMMA SseBodies ==
    ASSUME NEW x \in Sse!Bodies, NEW y \in Sse!Bodies, NEW z \in Sse!Bodies
    PROVE  /\ x \o y \in Sse!Bodies /\ x \o <<>> = x /\ <<>> \o x = x
           /\ (x \o y) \o z = x \o (y \o z) /\ <<>> \in Sse!Bodies
<1>1. x \in Seq(0 .. MaxEvents) /\ y \in Seq(0 .. MaxEvents) /\ z \in Seq(0 .. MaxEvents)
  BY DEF Sse!Bodies
<1>2. x \o <<>> = x /\ <<>> \o x = x
  BY <1>1, ConcatEmptySeq
<1>3. (x \o y) \o z = x \o (y \o z)
  BY <1>1, ConcatAssociative
<1> QED
  BY <1>1, <1>2, <1>3 DEF Sse!Bodies

\* Which items of a call there are once one more is closed.
LEMMA SseItemsAppended ==
    ASSUME NEW m \in SseEmitter, NEW p \in SseEmitter, NEW item \in Sse!Items, NEW i,
           p.closed = Append(m.closed, item)
    PROVE  LET n == Len(m.closed) + 1 IN
           /\ SseItems(p, i) = SseItems(m, i)
                 \cup (IF item.kind = "tool" /\ item.call = i THEN {n} ELSE {})
           /\ p.closed[n] = item /\ n \in DOMAIN p.closed
           /\ \A k \in DOMAIN m.closed : k \in DOMAIN p.closed /\ p.closed[k] = m.closed[k]
<1> DEFINE n == Len(m.closed) + 1
<1>1. m.closed \in Seq(Sse!Items)
  BY DEF SseEmitter
<1>2. /\ DOMAIN p.closed = 1 .. n /\ p.closed[n] = item /\ DOMAIN m.closed = 1 .. n - 1
      /\ \A k \in DOMAIN m.closed : p.closed[k] = m.closed[k]
      /\ n \in DOMAIN p.closed /\ n \in Nat /\ n >= 1
  BY <1>1
<1> HIDE DEF n
<1>3. \A k \in DOMAIN p.closed : k = n \/ k \in DOMAIN m.closed
  BY <1>2
<1>4. \A k \in DOMAIN m.closed : k \in DOMAIN p.closed
  BY <1>2
<1> QED
  BY <1>2, <1>3, <1>4 DEF SseItems, n

\* The items agree with the response before the current one is closed and after.
LEMMA SseCloseAgrees ==
    ASSUME NEW m \in SseEmitter, NEW a \in SseResponse, SseLog(m), SseAgrees(m, a),
           m.current.kind # "none", MaxEvents \in Nat, MaxParts \in Nat
    PROVE  SseAgrees(Sse!CloseCurrent(m), a)
<1> DEFINE p == Sse!CloseCurrent(m)
           item == SseClosed(m)
<1>1. /\ p \in SseEmitter /\ p.current = Sse!NoItem /\ p.closed = Append(m.closed, item)
  BY SseClose
<1>2. /\ item \in Sse!Items /\ item.kind = m.current.kind /\ item.call = m.current.call
      /\ item.named = m.current.named
      /\ item.body = IF m.current.kind = "tool" THEN SseFilled(m.current.body) ELSE m.current.body
  BY SseClosedTyped
<1>3. m.closed \in Seq(Sse!Items) /\ m.current \in Sse!Items /\ p.current.kind = "none"
  BY <1>1 DEF SseEmitter, Sse!NoItem
<1> HIDE DEF p, item
<1>4. ASSUME NEW text \in Sse!Bodies, NEW kind \in {"text", "reasoning"}, SseTextOk(m, text, kind)
      PROVE  SseTextOk(p, text, kind)
  <2>1. Sse!Said(kind, p.closed) = SseNext(kind, item, Sse!Said(kind, m.closed))
    BY <1>1, <1>2, <1>3, SaidAppend
  <2>2. Sse!Said(kind, m.closed) \in Sse!Bodies /\ m.current.body \in Sse!Bodies
    BY <1>3, SaidTyped DEF Sse!Items
  <2>3. text = Sse!Said(kind, p.closed)
    <3>1. CASE m.current.kind = kind
      BY <1>2, <1>4, <2>1, <3>1 DEF SseTextOk, SseNext
    <3>2. CASE m.current.kind # kind
      <4>1. text = Sse!Said(kind, m.closed) \o <<>>
        BY <1>4, <3>2 DEF SseTextOk
      <4> QED
        BY <1>2, <2>1, <2>2, <3>2, <4>1, SseBodies DEF SseNext
    <3> QED
      BY <3>1, <3>2
  <2>4. text = text \o <<>>
    BY <1>4, SseBodies
  <2> QED
    BY <1>3, <2>3, <2>4 DEF SseTextOk
<1>5. ASSUME NEW i \in Sse!Indexes PROVE SseCallOk(p, a.calls[i], i)
  <2> DEFINE c == a.calls[i]
             n == Len(m.closed) + 1
  <2>1. SseCallOk(m, c, i)
    BY <1>5 DEF SseAgrees
  <2>2. /\ SseItems(p, i) = SseItems(m, i)
              \cup (IF item.kind = "tool" /\ item.call = i THEN {n} ELSE {})
        /\ p.closed[n] = item /\ n \in DOMAIN p.closed
        /\ \A k \in DOMAIN m.closed : k \in DOMAIN p.closed /\ p.closed[k] = m.closed[k]
    BY <1>1, <1>2, SseItemsAppended
  <2> HIDE DEF n, c
  <2>3. c.named \in BOOLEAN
    BY <1>5 DEF c, SseResponse, SseCall
  <2>4. CASE ~c.named
    <3>1. c.body = <<>> /\ SseItems(m, i) = {} /\ ~(item.kind = "tool" /\ item.call = i)
      BY <1>2, <2>1, <2>4 DEF SseCallOk
    <3> QED
      BY <1>3, <2>2, <2>4, <3>1 DEF SseCallOk, c
  <2>5. CASE c.named /\ m.current.kind = "tool" /\ m.current.call = i
    <3>1. SseItems(m, i) = {} /\ m.current.named /\ m.current.body = c.body
      BY <2>1, <2>5 DEF SseCallOk
    <3>2. SseItems(p, i) = {n} /\ p.closed[n].named /\ p.closed[n].body = SseFilled(c.body)
      BY <1>2, <2>2, <2>5, <3>1
    <3> QED
      BY <1>3, <2>2, <2>5, <3>2 DEF SseCallOk, c
  <2>6. CASE c.named /\ ~(m.current.kind = "tool" /\ m.current.call = i)
    <3>1. PICK k \in DOMAIN m.closed :
             SseItems(m, i) = {k} /\ m.closed[k].named /\ m.closed[k].body = SseFilled(c.body)
      BY <2>1, <2>6 DEF SseCallOk
    <3>2. /\ k \in DOMAIN p.closed /\ SseItems(p, i) = {k} /\ p.closed[k].named
          /\ p.closed[k].body = SseFilled(c.body)
      BY <1>2, <2>2, <2>6, <3>1
    <3> QED
      BY <1>3, <2>6, <3>2 DEF SseCallOk, c
  <2> QED
    BY <2>3, <2>4, <2>5, <2>6
<1>6. a.text \in Sse!Bodies /\ a.reasoning \in Sse!Bodies
  BY DEF SseResponse
<1> QED
  BY <1>4, <1>5, <1>6 DEF SseAgrees, p

\* Agreement is of the items alone.
LEMMA SseAgreesSame ==
    ASSUME NEW m, NEW p, NEW a, SseAgrees(m, a), p.current = m.current, p.closed = m.closed
    PROVE  SseAgrees(p, a)
  BY DEF SseAgrees, SseCallOk, SseTextOk, SseItems

-----------------------------------------------------------------------------
(* What one delta does to the emitter and to the response. *)

SseDelta ==
    [k : {"text", "reasoning", "tool", "usage", "finish"}, i : Sse!Indexes, named : BOOLEAN,
     body : Sse!Bodies, reason : Sse!Reasons]

\* With the current item closed, if there is one.
LEMMA SseClears ==
    ASSUME NEW m \in SseEmitter, NEW a \in SseResponse, SseLog(m), SseAgrees(m, a),
           SseQuiet(m.out), MaxEvents \in Nat, MaxParts \in Nat
    PROVE  LET p == Sse!CloseCurrent(m) IN
           /\ p \in SseEmitter /\ SseLog(p) /\ SseAgrees(p, a) /\ SseQuiet(p.out)
           /\ p.current.kind = "none" /\ p.reason = m.reason /\ p.started = m.started
<1>1. CASE m.current.kind = "none"
  BY <1>1 DEF Sse!CloseCurrent
<1>2. CASE m.current.kind # "none"
  <2> DEFINE p == Sse!CloseCurrent(m)
             e == Sse!Out("done", m.current.index, "none")
  <2>1. /\ p \in SseEmitter /\ SseLog(p) /\ p.current = Sse!NoItem
        /\ p.reason = m.reason /\ p.started = m.started /\ p.out = Append(m.out, e)
    BY <1>2, SseClose
  <2>2. SseAgrees(p, a)
    BY <1>2, SseCloseAgrees
  <2>3. e \in SseEvent /\ e.ev # "terminal" /\ m.out \in Seq(SseEvent)
    BY DEF SseEmitter, Sse!Items, SseEvent, Sse!Out, SseNames, SseWords
  <2>4. SseQuiet(p.out)
    BY <2>1, <2>3, SseQuietKept
  <2> QED
    BY <2>1, <2>2, <2>4 DEF Sse!NoItem
<1> QED
  BY <1>1, <1>2

\* An item of text that has just been opened says nothing.
LEMMA SseOpensText ==
    ASSUME NEW m \in SseEmitter, NEW a \in SseResponse, SseLog(m), SseAgrees(m, a),
           SseQuiet(m.out), m.current.kind = "none", NEW kind \in {"text", "reasoning"},
           MaxEvents \in Nat, MaxParts \in Nat
    PROVE  LET p == Sse!OpenItem(m, kind, 0, FALSE) IN
           /\ p \in SseEmitter /\ SseLog(p) /\ SseAgrees(p, a) /\ SseQuiet(p.out)
           /\ p.current.kind = kind /\ p.reason = m.reason
<1> DEFINE p == Sse!OpenItem(m, kind, 0, FALSE)
           e == Sse!Out("added", Len(m.closed), "none")
<1>1. kind \in Sse!Kinds /\ 0 \in Sse!Indexes /\ FALSE \in BOOLEAN
  BY DEF Sse!Kinds, Sse!Indexes
<1>2. /\ p \in SseEmitter /\ SseLog(p)
      /\ p.current = [kind |-> kind, call |-> 0, named |-> FALSE, body |-> <<>>,
                      index |-> Len(m.closed)]
      /\ p.closed = m.closed /\ p.reason = m.reason /\ p.out = Append(m.out, e)
  BY <1>1, SseOpens
<1> HIDE DEF p
<1>3. p.current.kind = kind /\ p.current.body = <<>> /\ kind # "tool"
  BY <1>2
<1>4. SseQuiet(p.out)
  <2>1. e \in SseEvent /\ e.ev # "terminal" /\ m.out \in Seq(SseEvent)
    BY DEF SseEmitter, SseEvent, Sse!Out, SseNames, SseWords
  <2> QED
    BY <1>2, <2>1, SseQuietKept
<1>5. \A i \in Sse!Indexes : SseCallOk(p, a.calls[i], i)
  <2>1. \A i : SseItems(p, i) = SseItems(m, i)
    BY <1>2 DEF SseItems
  <2> QED
    BY <1>2, <1>3, <2>1 DEF SseAgrees, SseCallOk
<1>6. ASSUME NEW text \in Sse!Bodies, NEW any \in {"text", "reasoning"}, SseTextOk(m, text, any)
      PROVE  SseTextOk(p, text, any)
  BY <1>2, <1>3, <1>6 DEF SseTextOk
<1>7. a.text \in Sse!Bodies /\ a.reasoning \in Sse!Bodies
  BY DEF SseResponse
<1>8. SseAgrees(p, a)
  BY <1>5, <1>6, <1>7 DEF SseAgrees
<1> QED
  BY <1>2, <1>3, <1>4, <1>8 DEF p

\* More of the current text.
LEMMA SseMoreText ==
    ASSUME NEW m \in SseEmitter, NEW a \in SseResponse, SseLog(m), SseAgrees(m, a),
           SseQuiet(m.out), NEW d \in SseDelta, d.k \in {"text", "reasoning"},
           m.current.kind = d.k, MaxEvents \in Nat, MaxParts \in Nat
    PROVE  LET q == [m EXCEPT !.current.body = @ \o d.body]
               p == Sse!Put(q, "delta", m.current.index, "none")
           IN
           /\ p \in SseEmitter /\ SseLog(p) /\ SseAgrees(p, Sse!PushDelta(a, d)) /\ SseQuiet(p.out)
           /\ p.reason = m.reason
<1> DEFINE q == [m EXCEPT !.current.body = @ \o d.body]
           p == Sse!Put(q, "delta", m.current.index, "none")
           e == Sse!Out("delta", m.current.index, "none")
           b == Sse!PushDelta(a, d)
<1>1. m.current \in Sse!Items /\ d.body \in Sse!Bodies /\ m.current.index \in Nat
  BY DEF SseEmitter, SseDelta, Sse!Items
<1>2. m.current.body \in Sse!Bodies /\ m.current.body \o d.body \in Sse!Bodies
  BY <1>1, SseBodies DEF Sse!Items
<1>3. /\ q \in SseEmitter /\ q.out = m.out /\ q.closed = m.closed /\ q.reason = m.reason
      /\ q.current = [m.current EXCEPT !.body = m.current.body \o d.body]
  <2>1. [m.current EXCEPT !.body = m.current.body \o d.body] \in Sse!Items
    BY <1>1, <1>2 DEF Sse!Items
  <2> QED
    BY <2>1 DEF SseEmitter
<1> HIDE DEF q
<1>4. /\ q.current.kind = m.current.kind /\ q.current.index = m.current.index
      /\ q.current.call = m.current.call /\ q.current.named = m.current.named
      /\ q.current.body = m.current.body \o d.body
  BY <1>1, <1>3 DEF Sse!Items
<1>5. SseLog(q)
  BY <1>3, <1>4 DEF SseLog
<1>6. q.current.kind # "none"
  BY <1>4
<1>7. SseLog(p)
  BY <1>3, <1>4, <1>5, <1>6, SseLogDelta
<1>8. "delta" \in SseNames /\ "none" \in SseWords
  BY DEF SseNames, SseWords
<1>9. /\ p \in SseEmitter /\ e \in SseEvent /\ p.out = Append(q.out, e)
      /\ p.current = q.current /\ p.closed = q.closed /\ p.reason = q.reason
  BY <1>1, <1>3, <1>8, SsePut
<1>10. SseQuiet(p.out)
  <2>1. e.ev # "terminal" /\ m.out \in Seq(SseEvent)
    BY DEF SseEmitter, Sse!Out
  <2> QED
    BY <1>3, <1>9, <2>1, SseQuietKept
<1> HIDE DEF p
<1>11. b.calls = a.calls /\ a.text \in Sse!Bodies /\ a.reasoning \in Sse!Bodies
  BY DEF SseResponse, Sse!PushDelta
<1>12. /\ d.k = "text" => b.text = a.text \o d.body /\ b.reasoning = a.reasoning
       /\ d.k = "reasoning" => b.reasoning = a.reasoning \o d.body /\ b.text = a.text
  BY DEF SseResponse, Sse!PushDelta
<1> HIDE DEF b
<1>13. \A i \in Sse!Indexes : SseCallOk(p, b.calls[i], i)
  <2>1. \A i : SseItems(p, i) = SseItems(m, i)
    BY <1>3, <1>9 DEF SseItems
  <2>2. p.closed = m.closed /\ p.current.kind # "tool" /\ m.current.kind # "tool"
    BY <1>3, <1>4, <1>9
  <2> QED
    BY <1>11, <2>1, <2>2 DEF SseAgrees, SseCallOk
<1>14. ASSUME NEW text \in Sse!Bodies, SseTextOk(m, text, d.k)
       PROVE  SseTextOk(p, text \o d.body, d.k)
  <2>1. Sse!Said(d.k, m.closed) \in Sse!Bodies
    <3>1. m.closed \in Seq(Sse!Items)
      BY DEF SseEmitter
    <3> QED
      BY <3>1, SaidTyped
  <2>2. text = Sse!Said(d.k, m.closed) \o m.current.body
    BY <1>14 DEF SseTextOk
  <2>3. text \o d.body = Sse!Said(d.k, m.closed) \o (m.current.body \o d.body)
    <3> DEFINE said == Sse!Said(d.k, m.closed)
               body == m.current.body
               more == d.body
    <3>1. said \in Sse!Bodies /\ body \in Sse!Bodies /\ more \in Sse!Bodies
      BY <1>1, <1>2, <2>1
    <3> HIDE DEF said, body, more
    <3>2. (said \o body) \o more = said \o (body \o more)
      BY <3>1, ConcatAssociative DEF Sse!Bodies
    <3> QED
      BY <2>2, <3>2 DEF said, body, more
  <2>4. p.closed = m.closed /\ p.current.kind = d.k /\ p.current.body = m.current.body \o d.body
    BY <1>3, <1>4, <1>9
  <2> QED
    BY <2>3, <2>4 DEF SseTextOk
<1>15. ASSUME NEW text, NEW kind, kind # d.k, SseTextOk(m, text, kind)
       PROVE  SseTextOk(p, text, kind)
  BY <1>3, <1>4, <1>9, <1>15 DEF SseTextOk
<1>16. SseAgrees(p, b)
  <2>1. SseTextOk(m, a.text, "text") /\ SseTextOk(m, a.reasoning, "reasoning")
    BY DEF SseAgrees
  <2>2. CASE d.k = "text"
    <3>1. SseTextOk(p, b.text, "text")
      BY <1>11, <1>12, <1>14, <2>1, <2>2
    <3>2. SseTextOk(p, b.reasoning, "reasoning")
      BY <1>12, <1>15, <2>1, <2>2
    <3> QED
      BY <1>13, <3>1, <3>2 DEF SseAgrees
  <2>3. CASE d.k = "reasoning"
    <3>1. SseTextOk(p, b.reasoning, "reasoning")
      BY <1>11, <1>12, <1>14, <2>1, <2>3
    <3>2. SseTextOk(p, b.text, "text")
      BY <1>12, <1>15, <2>1, <2>3
    <3> QED
      BY <1>13, <3>1, <3>2 DEF SseAgrees
  <2> QED
    BY <2>2, <2>3
<1> QED
  BY <1>3, <1>7, <1>9, <1>10, <1>16 DEF p, b, q

\* handle_text, handle_reasoning: the items go on agreeing with the response.
LEMMA SseHandlesText ==
    ASSUME NEW m \in SseEmitter, NEW a \in SseResponse, SseLog(m), SseAgrees(m, a),
           SseQuiet(m.out), NEW d \in SseDelta, d.k \in {"text", "reasoning"},
           MaxEvents \in Nat, MaxParts \in Nat
    PROVE  LET p == Sse!HandleText(m, d) IN
           /\ p \in SseEmitter /\ SseLog(p) /\ SseAgrees(p, Sse!PushDelta(a, d)) /\ SseQuiet(p.out)
           /\ p.reason = m.reason /\ (d.body = <<>> => p = m)
<1>1. CASE d.body = <<>>
  <2>1. Sse!PushDelta(a, d) = a
    <3>1. a.text \o d.body = a.text /\ a.reasoning \o d.body = a.reasoning
      BY <1>1, SseBodies DEF SseResponse
    <3> QED
      BY <3>1 DEF SseResponse, Sse!PushDelta
  <2> QED
    BY <1>1, <2>1 DEF Sse!HandleText
<1>2. CASE d.body # <<>>
  <2> DEFINE o == IF m.current.kind = d.k THEN m
                  ELSE Sse!OpenItem(Sse!CloseCurrent(m), d.k, 0, FALSE)
             q == [o EXCEPT !.current.body = @ \o d.body]
  <2>1. /\ o \in SseEmitter /\ SseLog(o) /\ SseAgrees(o, a) /\ SseQuiet(o.out)
        /\ o.current.kind = d.k /\ o.reason = m.reason
    <3>1. CASE m.current.kind = d.k
      BY <3>1
    <3>2. CASE m.current.kind # d.k
      <4> DEFINE p == Sse!CloseCurrent(m)
      <4>1. /\ p \in SseEmitter /\ SseLog(p) /\ SseAgrees(p, a) /\ SseQuiet(p.out)
            /\ p.current.kind = "none" /\ p.reason = m.reason
        BY SseClears
      <4> HIDE DEF p
      <4>2. LET w == Sse!OpenItem(p, d.k, 0, FALSE) IN
            /\ w \in SseEmitter /\ SseLog(w) /\ SseAgrees(w, a) /\ SseQuiet(w.out)
            /\ w.current.kind = d.k /\ w.reason = p.reason
        BY <4>1, SseOpensText
      <4> QED
        BY <3>2, <4>1, <4>2 DEF p
    <3> QED
      BY <3>1, <3>2
  <2>2. Sse!HandleText(m, d) = Sse!Put(q, "delta", o.current.index, "none")
    BY <1>2 DEF Sse!HandleText
  <2> HIDE DEF o
  <2> QED
    <3>1. LET p == Sse!Put(q, "delta", o.current.index, "none") IN
          /\ p \in SseEmitter /\ SseLog(p) /\ SseAgrees(p, Sse!PushDelta(a, d))
          /\ SseQuiet(p.out) /\ p.reason = o.reason
      BY <2>1, SseMoreText
    <3> QED
      BY <1>2, <2>1, <2>2, <3>1
<1> QED
  BY <1>1, <1>2

\* The current item is the i-th call's, with its pieces but perhaps without its name.
SseAtCall(m, a, i) ==
    /\ m.current.kind = "tool" /\ m.current.call = i
    /\ SseItems(m, i) = {} /\ m.current.body = a.calls[i].body
    /\ \A j \in Sse!Indexes \ {i} : SseCallOk(m, a.calls[j], j)
    /\ SseTextOk(m, a.text, "text") /\ SseTextOk(m, a.reasoning, "reasoning")

\* More arguments for the current call, or its name.
LEMMA SseMoreArguments ==
    ASSUME NEW m \in SseEmitter, NEW a \in SseResponse, SseLog(m), SseQuiet(m.out),
           NEW d \in SseDelta, d.k = "tool", SseAtCall(m, a, d.i),
           m.current.named \/ d.named, a.calls[d.i].named \/ d.named,
           MaxEvents \in Nat, MaxParts \in Nat
    PROVE  LET q == [m EXCEPT !.current.body = @ \o d.body, !.current.named = @ \/ d.named]
               p == IF d.body = <<>> THEN q ELSE Sse!Put(q, "delta", q.current.index, "none")
           IN
           /\ p \in SseEmitter /\ SseLog(p) /\ SseAgrees(p, Sse!PushDelta(a, d)) /\ SseQuiet(p.out)
           /\ p.reason = m.reason /\ p.current.kind = "tool" /\ p.current.call = d.i
<1> DEFINE q == [m EXCEPT !.current.body = @ \o d.body, !.current.named = @ \/ d.named]
           e == Sse!Out("delta", q.current.index, "none")
           r == Sse!Put(q, "delta", q.current.index, "none")
           b == Sse!PushDelta(a, d)
<1>1. m.current \in Sse!Items /\ d.body \in Sse!Bodies /\ d.named \in BOOLEAN /\ d.i \in Sse!Indexes
  BY DEF SseEmitter, SseDelta
<1>2. m.current.body \o d.body \in Sse!Bodies
  BY <1>1, SseBodies DEF Sse!Items
<1>3. /\ q \in SseEmitter /\ q.out = m.out /\ q.closed = m.closed /\ q.reason = m.reason
      /\ q.current = [m.current EXCEPT !.body = m.current.body \o d.body, !.named = TRUE]
  <2>1. (m.current.named \/ d.named) = TRUE
    BY <1>1 DEF Sse!Items
  <2>2. [m.current EXCEPT !.body = m.current.body \o d.body, !.named = TRUE] \in Sse!Items
    BY <1>1, <1>2 DEF Sse!Items
  <2>3. q = [m EXCEPT !.current = [m.current EXCEPT !.body = m.current.body \o d.body, !.named = TRUE]]
    BY <1>1, <2>1 DEF SseEmitter, Sse!Items
  <2> QED
    BY <2>2, <2>3 DEF SseEmitter
<1> HIDE DEF q
<1>4. /\ q.current.kind = "tool" /\ q.current.index = m.current.index /\ q.current.call = d.i
      /\ q.current.named = TRUE /\ q.current.body = m.current.body \o d.body
      /\ q.current.index \in Nat
  BY <1>1, <1>3 DEF SseAtCall, Sse!Items
<1>5. SseLog(q)
  BY <1>3, <1>4 DEF SseLog, SseAtCall
<1>6. SseLog(r)
  BY <1>3, <1>4, <1>5, SseLogDelta
<1>7. "delta" \in SseNames /\ "none" \in SseWords
  BY DEF SseNames, SseWords
<1>8. /\ r \in SseEmitter /\ e \in SseEvent /\ r.out = Append(q.out, e)
      /\ r.current = q.current /\ r.closed = q.closed /\ r.reason = q.reason
  <2> DEFINE at == q.current.index
  <2>1. q \in SseEmitter /\ at \in Nat /\ "delta" \in SseNames /\ "none" \in SseWords
    BY <1>3, <1>4, <1>7
  <2> HIDE DEF at, b
  <2>2. LET p == Sse!Put(q, "delta", at, "none") IN
        /\ p \in SseEmitter /\ Sse!Out("delta", at, "none") \in SseEvent
        /\ p.out = Append(q.out, Sse!Out("delta", at, "none"))
        /\ p.current = q.current /\ p.closed = q.closed /\ p.reason = q.reason
    BY <2>1, SsePut
  <2> QED
    BY <2>2 DEF at
<1>9. SseQuiet(r.out)
  <2>1. e.ev # "terminal" /\ m.out \in Seq(SseEvent)
    BY DEF SseEmitter, Sse!Out
  <2> QED
    <3>1. r.out = Append(m.out, e) /\ e \in SseEvent
      BY <1>3, <1>8
    <3> HIDE DEF e
    <3> QED
      BY <2>1, <3>1, SseQuietKept
<1> HIDE DEF r
<1>10. a.calls[d.i].body = m.current.body
  BY DEF SseAtCall
<1>11. /\ b.text = a.text /\ b.reasoning = a.reasoning
       /\ b.calls[d.i].named = TRUE /\ b.calls[d.i].body = q.current.body
       /\ \A i \in Sse!Indexes \ {d.i} : b.calls[i] = a.calls[i]
  <2>0. a.calls[d.i].named \in BOOLEAN /\ d.i \in Sse!Indexes
    BY <1>1 DEF SseResponse, SseCall
  <2>1. (a.calls[d.i].named \/ d.named) = TRUE
    BY <1>1, <2>0
  <2>2. b = [a EXCEPT !.calls = [a.calls EXCEPT ![d.i] =
               [named |-> a.calls[d.i].named \/ d.named, body |-> a.calls[d.i].body \o d.body]]]
    BY DEF Sse!PushDelta
  <2>3. b = [a EXCEPT !.calls = [a.calls EXCEPT ![d.i] =
               [named |-> TRUE, body |-> a.calls[d.i].body \o d.body]]]
    BY <2>1, <2>2
  <2>4. b.calls = [a.calls EXCEPT ![d.i] = [named |-> TRUE, body |-> a.calls[d.i].body \o d.body]]
    BY <2>3 DEF SseResponse
  <2>5. b.text = a.text /\ b.reasoning = a.reasoning
    BY <2>2 DEF SseResponse
  <2>6. DOMAIN a.calls = Sse!Indexes
    BY DEF SseResponse
  <2>7. b.calls[d.i] = [named |-> TRUE, body |-> a.calls[d.i].body \o d.body]
    BY <1>1, <2>4, <2>6
  <2>8. \A i \in Sse!Indexes \ {d.i} : b.calls[i] = a.calls[i]
    BY <2>4, <2>6
  <2>9. a.calls[d.i].body \o d.body = q.current.body
    BY <1>4, <1>10
  <2> QED
    BY <2>5, <2>7, <2>8, <2>9
<1> HIDE DEF b
<1>12. SseAgrees(q, b)
  <2>1. \A i : SseItems(q, i) = SseItems(m, i)
    BY <1>3 DEF SseItems
  <2>2. ASSUME NEW i \in Sse!Indexes PROVE SseCallOk(q, b.calls[i], i)
    <3>1. CASE i = d.i
      BY <1>4, <1>11, <2>1, <3>1 DEF SseCallOk, SseAtCall
    <3>2. CASE i # d.i
      <4>1. SseCallOk(m, b.calls[i], i)
        BY <1>11, <2>2, <3>2 DEF SseAtCall
      <4>2. m.current.call = d.i
        BY DEF SseAtCall
      <4> QED
        <5>1. q.closed = m.closed /\ SseItems(q, i) = SseItems(m, i)
          BY <1>3, <2>1
        <5>2. q.current.call # i /\ m.current.call # i
          BY <1>4, <3>2, <4>2
        <5> QED
          BY <4>1, <5>1, <5>2 DEF SseCallOk
    <3> QED
      BY <3>1, <3>2
  <2>3. ASSUME NEW text, NEW kind, kind # "tool", SseTextOk(m, text, kind)
        PROVE  SseTextOk(q, text, kind)
    BY <1>3, <1>4, <2>3 DEF SseTextOk, SseAtCall
  <2> QED
    BY <1>11, <2>2, <2>3 DEF SseAgrees, SseAtCall
<1>13. SseAgrees(r, b)
  BY <1>8, <1>12, SseAgreesSame
<1>14. SseQuiet(q.out)
  BY <1>3
<1> QED
  BY <1>3, <1>4, <1>5, <1>6, <1>8, <1>9, <1>12, <1>13, <1>14 DEF b, q, r

\* A delta of a call is for the current item, or the first of its call.
SseTimely(m, a, d) == d.k = "tool" => Sse!SameCall(m, d) \/ (~a.calls[d.i].named /\ d.named)

\* handle_tool_call: for the current call, or for one not seen before.
LEMMA SseHandlesCall ==
    ASSUME NEW m \in SseEmitter, NEW a \in SseResponse, SseLog(m), SseAgrees(m, a),
           SseQuiet(m.out), NEW d \in SseDelta, d.k = "tool", SseTimely(m, a, d),
           MaxEvents \in Nat, MaxParts \in Nat
    PROVE  LET p == Sse!HandleToolCall(m, d) IN
           /\ p \in SseEmitter /\ SseLog(p) /\ SseAgrees(p, Sse!PushDelta(a, d)) /\ SseQuiet(p.out)
           /\ p.reason = m.reason /\ p.current.kind = "tool" /\ p.current.call = d.i
<1> DEFINE o == IF Sse!SameCall(m, d) THEN m
                ELSE Sse!OpenItem(Sse!CloseCurrent(m), "tool", d.i, d.named)
           c == a.calls[d.i]
<1>1. d.i \in Sse!Indexes /\ d.named \in BOOLEAN /\ c \in SseCall
  BY DEF SseDelta, SseResponse
<1>2. SseCallOk(m, c, d.i)
  BY <1>1 DEF SseAgrees
<1>3. /\ o \in SseEmitter /\ SseLog(o) /\ SseQuiet(o.out) /\ SseAtCall(o, a, d.i)
      /\ (o.current.named \/ d.named) /\ o.reason = m.reason
      /\ c.named \/ d.named
  <2>1. CASE Sse!SameCall(m, d)
    <3>1. /\ c.named /\ m.current.named /\ SseItems(m, d.i) = {} /\ m.current.body = c.body
          /\ m.current.kind = "tool" /\ m.current.call = d.i
      BY <1>1, <1>2, <2>1 DEF SseCallOk, Sse!SameCall, SseCall
    <3>2. SseAtCall(m, a, d.i)
      BY <3>1 DEF SseAtCall, SseAgrees
    <3> QED
      BY <2>1, <3>1, <3>2
  <2>2. CASE ~Sse!SameCall(m, d)
    <3> DEFINE p == Sse!CloseCurrent(m)
               w == Sse!OpenItem(p, "tool", d.i, d.named)
               e == Sse!Out("added", Len(p.closed), "none")
    <3>1. ~c.named /\ d.named
      BY <2>2 DEF SseTimely
    <3>2. /\ p \in SseEmitter /\ SseLog(p) /\ SseAgrees(p, a) /\ SseQuiet(p.out)
          /\ p.current.kind = "none" /\ p.reason = m.reason
      BY SseClears
    <3> HIDE DEF p
    <3>3. "tool" \in Sse!Kinds
      BY DEF Sse!Kinds
    <3>4. /\ w \in SseEmitter /\ SseLog(w)
          /\ w.current = [kind |-> "tool", call |-> d.i, named |-> d.named, body |-> <<>>,
                          index |-> Len(p.closed)]
          /\ w.closed = p.closed /\ w.reason = p.reason /\ w.out = Append(p.out, e)
      BY <1>1, <3>2, <3>3, SseOpens
    <3>5. SseQuiet(w.out)
      <4>1. e \in SseEvent /\ e.ev # "terminal" /\ p.out \in Seq(SseEvent)
        BY <3>2 DEF SseEmitter, SseEvent, Sse!Out, SseNames, SseWords
      <4> HIDE DEF e
      <4> QED
        BY <3>2, <3>4, <4>1, SseQuietKept
    <3> HIDE DEF w
    <3>6. /\ w.current.kind = "tool" /\ w.current.call = d.i /\ w.current.body = <<>>
          /\ w.current.named = d.named
      BY <3>4
    <3>7. \A i : SseItems(w, i) = SseItems(p, i)
      BY <3>4 DEF SseItems
    <3>8. SseItems(w, d.i) = {} /\ c.body = <<>>
      <4>1. SseCallOk(p, c, d.i)
        BY <1>1, <3>2 DEF SseAgrees
      <4> QED
        BY <3>1, <3>7, <4>1 DEF SseCallOk
    <3>9. ASSUME NEW i \in Sse!Indexes \ {d.i} PROVE SseCallOk(w, a.calls[i], i)
      <4>1. SseCallOk(p, a.calls[i], i)
        BY <3>2 DEF SseAgrees
      <4> QED
        BY <3>2, <3>4, <3>6, <3>7, <4>1 DEF SseCallOk
    <3>10. ASSUME NEW text \in Sse!Bodies, NEW kind, kind \notin {"tool", "none"},
                  SseTextOk(p, text, kind)
           PROVE  SseTextOk(w, text, kind)
      BY <3>2, <3>4, <3>6, <3>10 DEF SseTextOk
    <3>11. SseTextOk(w, a.text, "text") /\ SseTextOk(w, a.reasoning, "reasoning")
      <4>1. a.text \in Sse!Bodies /\ a.reasoning \in Sse!Bodies
        BY DEF SseResponse
      <4>2. SseTextOk(p, a.text, "text") /\ SseTextOk(p, a.reasoning, "reasoning")
        BY <3>2 DEF SseAgrees
      <4> QED
        BY <3>10, <4>1, <4>2
    <3>12. SseAtCall(w, a, d.i)
      BY <3>6, <3>8, <3>9, <3>11 DEF SseAtCall
    <3> QED
      BY <2>2, <3>1, <3>2, <3>4, <3>5, <3>12 DEF w, p
  <2> QED
    BY <2>1, <2>2
<1> DEFINE q == [o EXCEPT !.current.body = @ \o d.body, !.current.named = @ \/ d.named]
           r == IF d.body = <<>> THEN q ELSE Sse!Put(q, "delta", q.current.index, "none")
<1>4. Sse!HandleToolCall(m, d) = r
  BY DEF Sse!HandleToolCall
<1> HIDE DEF o
<1>5. /\ r \in SseEmitter /\ SseLog(r) /\ SseAgrees(r, Sse!PushDelta(a, d)) /\ SseQuiet(r.out)
      /\ r.reason = o.reason /\ r.current.kind = "tool" /\ r.current.call = d.i
  BY <1>3, SseMoreArguments
<1> QED
  BY <1>3, <1>4, <1>5

\* Whatever the delta, log and agreement stand.
LEMMA SseOneDelta ==
    ASSUME NEW m \in SseEmitter, NEW a \in SseResponse, SseLog(m), SseAgrees(m, a),
           SseQuiet(m.out), NEW d \in SseDelta, SseTimely(m, a, d),
           MaxEvents \in Nat, MaxParts \in Nat
    PROVE  LET p == Sse!ResponsesDelta(m, d) IN
           /\ p \in SseEmitter /\ SseLog(p) /\ SseAgrees(p, Sse!PushDelta(a, d)) /\ SseQuiet(p.out)
           /\ p.reason = IF d.k = "finish" THEN d.reason ELSE m.reason
           /\ d.k = "tool" => p.current.kind = "tool" /\ p.current.call = d.i
<1>1. CASE d.k \in {"text", "reasoning"}
  BY <1>1, SseHandlesText DEF Sse!ResponsesDelta
<1>2. CASE d.k = "tool"
  BY <1>2, SseHandlesCall DEF Sse!ResponsesDelta
<1>3. CASE d.k = "finish"
  <2> DEFINE p == [m EXCEPT !.reason = d.reason]
             b == [a EXCEPT !.reason = d.reason]
  <2>1. Sse!ResponsesDelta(m, d) = p /\ Sse!PushDelta(a, d) = b
    BY <1>3 DEF Sse!ResponsesDelta, Sse!PushDelta
  <2>2. d.reason \in Sse!Reasons
    BY DEF SseDelta
  <2>3. /\ p \in SseEmitter /\ p.out = m.out /\ p.current = m.current /\ p.closed = m.closed
        /\ p.reason = d.reason
    BY <2>2 DEF SseEmitter
  <2>4. b.calls = a.calls /\ b.text = a.text /\ b.reasoning = a.reasoning
    BY DEF SseResponse
  <2> HIDE DEF p, b
  <2>5. SseAgrees(p, b)
    <3>1. SseAgrees(m, b)
      BY <2>4 DEF SseAgrees
    <3> QED
      BY <2>3, <3>1, SseAgreesSame
  <2>6. SseLog(p) /\ SseQuiet(p.out)
    BY <2>3 DEF SseLog
  <2> QED
    BY <1>3, <2>1, <2>3, <2>5, <2>6
<1>4. CASE d.k = "usage"
  <2>1. Sse!ResponsesDelta(m, d) = m /\ Sse!PushDelta(a, d) = a
    BY <1>4 DEF Sse!ResponsesDelta, Sse!PushDelta
  <2> QED
    BY <1>4, <2>1
<1> QED
  BY <1>1, <1>2, <1>3, <1>4 DEF SseDelta

-----------------------------------------------------------------------------
(* What one delta does where the target is Chat or Messages, and to the response. *)

\* The stream goes on, with no more finish events.
SseOnward(m, p) ==
    /\ p \in SseEmitter /\ SseQuiet(p.out)
    /\ p.started \in BOOLEAN /\ p.reason = m.reason
    /\ \A k \in DOMAIN m.out : k \in DOMAIN p.out /\ p.out[k] = m.out[k]
    /\ SseFinishes(p.out) = SseFinishes(m.out)

LEMMA SseOnwardPut ==
    ASSUME NEW m \in SseEmitter, NEW ev \in SseNames, NEW at \in Nat, NEW val \in SseWords,
           SseQuiet(m.out), ev \notin {"terminal", "finish"}
    PROVE  SseOnward(m, Sse!Put(m, ev, at, val))
<1> DEFINE e == Sse!Out(ev, at, val)
           p == Sse!Put(m, ev, at, val)
           n == Len(m.out) + 1
<1>1. /\ p \in SseEmitter /\ e \in SseEvent /\ p.out = Append(m.out, e)
      /\ p.started = m.started /\ p.reason = m.reason
  BY SsePut
<1>2. e.ev = ev /\ m.out \in Seq(SseEvent) /\ m.started \in BOOLEAN
  BY DEF SseEmitter, Sse!Out
<1> HIDE DEF e, p
<1>3. SseQuiet(p.out)
  BY <1>1, <1>2, SseQuietKept
<1>4. /\ DOMAIN p.out = 1 .. n /\ p.out[n] = e /\ DOMAIN m.out = 1 .. n - 1 /\ n \in Nat
      /\ \A k \in DOMAIN m.out : p.out[k] = m.out[k]
  BY <1>1, <1>2
<1>5. SseFinishes(p.out) = SseFinishes(m.out)
  BY <1>2, <1>4 DEF SseFinishes
<1> QED
  BY <1>1, <1>2, <1>3, <1>4, <1>5 DEF SseOnward, p

LEMMA SseOnwardAgain ==
    ASSUME NEW m, NEW p, NEW q, SseOnward(m, p), SseOnward(p, q)
    PROVE  SseOnward(m, q)
  BY DEF SseOnward

\* EmitState::start
LEMMA SseStartsPlain ==
    ASSUME NEW m \in SseEmitter, SseQuiet(m.out), to # "responses"
    PROVE  SseOnward(m, Sse!Started(m))
<1> DEFINE q == [m EXCEPT !.started = TRUE]
           r == Sse!Put(q, "messageStart", 0, "none")
           s == Sse!Put(r, "blockStart", 0, "none")
<1>1. q \in SseEmitter /\ q.out = m.out /\ q.reason = m.reason /\ q.started = TRUE
  BY DEF SseEmitter
<1>2. SseOnward(m, q)
  BY <1>1 DEF SseOnward
<1>3. Sse!Started(m) \in {q, s}
  BY DEF Sse!Started
<1> HIDE DEF q
<1>4. {"messageStart", "blockStart"} \subseteq SseNames /\ "none" \in SseWords /\ 0 \in Nat
  BY DEF SseNames, SseWords
<1>5. SseOnward(q, r)
  <2>1. "messageStart" \in SseNames
    BY <1>4
  <2> QED
    BY <1>1, <1>4, <2>1, SseOnwardPut
<1> HIDE DEF r
<1>6. SseOnward(r, s)
  <2>1. "blockStart" \in SseNames /\ r \in SseEmitter /\ SseQuiet(r.out)
    BY <1>4, <1>5 DEF SseOnward
  <2> QED
    BY <1>4, <2>1, SseOnwardPut
<1> HIDE DEF s
<1>7. SseOnward(m, s)
  BY <1>2, <1>5, <1>6, SseOnwardAgain
<1> QED
  BY <1>2, <1>3, <1>7

\* A delta adds a finish event, with the reason in the target's words, or none.
SseTold(m, p, d) ==
    /\ p \in SseEmitter /\ SseQuiet(p.out)
    /\ p.reason = IF d.k = "finish" THEN d.reason ELSE m.reason
    /\ \A k \in DOMAIN m.out : k \in DOMAIN p.out /\ p.out[k] = m.out[k]
    /\ d.k # "finish" => SseFinishes(p.out) = SseFinishes(m.out)
    /\ d.k = "finish" =>
          \E n \in DOMAIN p.out :
              SseFinishes(p.out) = SseFinishes(m.out) \cup {n} /\ p.out[n].val = SseWord(d.reason)

\* chunk_from_deltas, events_from_deltas
LEMMA SsePlainDelta ==
    ASSUME NEW m \in SseEmitter, SseQuiet(m.out), NEW d \in SseDelta, MaxParts \in Nat
    PROVE  SseTold(m, Sse!PlainDelta(m, d), d)
<1> DEFINE p == Sse!PlainDelta(m, d)
           word == SseWord(d.reason)
           q == [m EXCEPT !.reason = d.reason]
           r == Sse!Put(q, "finish", 0, word)
           ev == IF d.k = "usage" THEN "usage" ELSE "delta"
           s == Sse!Put(m, ev, d.i, d.k)
<1>1. /\ d.reason \in Sse!Reasons /\ d.i \in Nat
      /\ d.k \in {"text", "reasoning", "tool", "usage", "finish"}
  BY DEF SseDelta, Sse!Indexes
<1>2. word \in SseWords
  BY <1>1 DEF SseWord, Sse!ToMessages, Sse!Reasons, SseWords
<1>3. /\ q \in SseEmitter /\ q.out = m.out /\ q.reason = d.reason
  BY <1>1 DEF SseEmitter
<1>4. "finish" \in SseNames /\ ev \in SseNames
  BY DEF SseNames
<1>5. CASE d.k = "finish"
  <2> DEFINE e == Sse!Out("finish", 0, word)
             n == Len(m.out) + 1
  <2>1. p = r
    BY <1>5 DEF Sse!PlainDelta, SseWord
  <2> HIDE DEF q, word, p
  <2>2. r \in SseEmitter /\ e \in SseEvent /\ r.out = Append(q.out, e) /\ r.reason = q.reason
    <3>1. q \in SseEmitter /\ "finish" \in SseNames /\ 0 \in Nat /\ word \in SseWords
      BY <1>2, <1>3, <1>4
    <3> QED
      BY <3>1, SsePut
  <2>3. e.ev = "finish" /\ e.val = word /\ m.out \in Seq(SseEvent)
    BY DEF SseEmitter, Sse!Out
  <2> HIDE DEF e, r
  <2>4. SseQuiet(r.out)
    BY <1>3, <2>2, <2>3, SseQuietKept
  <2>5. /\ DOMAIN r.out = 1 .. n /\ r.out[n] = e /\ DOMAIN m.out = 1 .. n - 1 /\ n \in Nat /\ n >= 1
        /\ \A k \in DOMAIN m.out : r.out[k] = m.out[k]
    BY <1>3, <2>2, <2>3
  <2>6. SseFinishes(r.out) = SseFinishes(m.out) \cup {n}
    BY <2>3, <2>5 DEF SseFinishes
  <2>7. n \in DOMAIN r.out /\ r.out[n].val = SseWord(d.reason)
    BY <2>3, <2>5 DEF word
  <2>8. \A k \in DOMAIN m.out : k \in DOMAIN r.out /\ r.out[k] = m.out[k]
    BY <2>5
  <2> QED
    BY <1>3, <1>5, <2>1, <2>2, <2>4, <2>6, <2>7, <2>8 DEF SseTold, p
<1>6. CASE d.k # "finish"
  <2>1. p = s
    BY <1>6 DEF Sse!PlainDelta
  <2>2. d.k \in SseWords
    BY <1>1, <1>6 DEF SseWords
  <2>3. ev \notin {"terminal", "finish"}
    OBVIOUS
  <2> HIDE DEF ev, p
  <2>4. SseOnward(m, s)
    BY <1>1, <1>4, <2>2, <2>3, SseOnwardPut
  <2> HIDE DEF s
  <2> QED
    BY <1>6, <2>1, <2>4 DEF SseTold, SseOnward, p
<1> QED
  BY <1>5, <1>6

\* IrResponse::push_delta
LEMMA SsePushed ==
    ASSUME NEW a \in SseResponse, NEW d \in SseDelta, MaxEvents \in Nat, MaxParts \in Nat
    PROVE  LET b == Sse!PushDelta(a, d) IN
           /\ b \in SseResponse
           /\ \A i \in Sse!Indexes : b.calls[i].named => a.calls[i].named \/ (d.k = "tool" /\ i = d.i)
           /\ d.k \in {"usage", "finish"} =>
                 b.calls = a.calls /\ b.text = a.text /\ b.reasoning = a.reasoning
<1> DEFINE b == Sse!PushDelta(a, d)
<1>1. /\ d.body \in Sse!Bodies /\ d.i \in Sse!Indexes /\ d.named \in BOOLEAN
      /\ d.reason \in Sse!Reasons /\ d.k \in {"text", "reasoning", "tool", "usage", "finish"}
  BY DEF SseDelta
<1>2. /\ a.text \in Sse!Bodies /\ a.reasoning \in Sse!Bodies /\ a.calls \in [Sse!Indexes -> SseCall]
  BY DEF SseResponse
<1>3. CASE d.k = "text"
  <2>1. b = [a EXCEPT !.text = a.text \o d.body]
    BY <1>3 DEF Sse!PushDelta
  <2>2. a.text \o d.body \in Sse!Bodies
    BY <1>1, <1>2, SseBodies
  <2>3. b \in SseResponse /\ b.calls = a.calls
    BY <2>1, <2>2 DEF SseResponse
  <2> QED
    BY <1>3, <2>3
<1>4. CASE d.k = "reasoning"
  <2>1. b = [a EXCEPT !.reasoning = a.reasoning \o d.body]
    BY <1>4 DEF Sse!PushDelta
  <2>2. a.reasoning \o d.body \in Sse!Bodies
    BY <1>1, <1>2, SseBodies
  <2>3. b \in SseResponse /\ b.calls = a.calls
    BY <2>1, <2>2 DEF SseResponse
  <2> QED
    BY <1>4, <2>3
<1>5. CASE d.k = "tool"
  <2> DEFINE c == [named |-> a.calls[d.i].named \/ d.named, body |-> a.calls[d.i].body \o d.body]
  <2>1. b = [a EXCEPT !.calls = [a.calls EXCEPT ![d.i] = c]]
    BY <1>5 DEF Sse!PushDelta
  <2>2. a.calls[d.i].named \in BOOLEAN /\ a.calls[d.i].body \in Sse!Bodies
    BY <1>1, <1>2 DEF SseCall
  <2>3. (a.calls[d.i].named \/ d.named) \in BOOLEAN /\ a.calls[d.i].body \o d.body \in Sse!Bodies
    BY <1>1, <2>2, SseBodies
  <2>4. c \in SseCall
    BY <2>3 DEF SseCall
  <2> HIDE DEF c
  <2>5. [a.calls EXCEPT ![d.i] = c] \in [Sse!Indexes -> SseCall]
    BY <1>2, <2>4
  <2>6. b \in SseResponse /\ b.calls = [a.calls EXCEPT ![d.i] = c]
    BY <2>1, <2>5 DEF SseResponse
  <2>7. \A i \in Sse!Indexes : i # d.i => b.calls[i] = a.calls[i]
    BY <1>2, <2>6
  <2> QED
    BY <1>5, <2>6, <2>7
<1>6. CASE d.k = "finish"
  <2>1. b = [a EXCEPT !.reason = d.reason]
    BY <1>6 DEF Sse!PushDelta
  <2>2. b \in SseResponse /\ b.calls = a.calls /\ b.text = a.text /\ b.reasoning = a.reasoning
    BY <1>1, <2>1 DEF SseResponse
  <2> QED
    BY <2>2
<1>7. CASE d.k = "usage"
  <2>1. b = a
    BY <1>7 DEF Sse!PushDelta
  <2> QED
    BY <1>7, <2>1
<1> QED
  BY <1>1, <1>3, <1>4, <1>5, <1>6, <1>7

-----------------------------------------------------------------------------
(* EmitState: a delta, and the end of the stream. *)

\* EmitState::emit of one delta, for any target.
LEMMA SseEmits ==
    ASSUME NEW m \in SseEmitter, NEW a \in SseResponse, SseQuiet(m.out), NEW d \in SseDelta,
           to = "responses" => SseLog(m) /\ SseAgrees(m, a) /\ SseTimely(m, a, d),
           MaxEvents \in Nat, MaxParts \in Nat
    PROVE  LET p == Sse!Emit(m, <<d>>) IN
           /\ p \in SseEmitter /\ SseQuiet(p.out)
           /\ p.reason = IF d.k = "finish" THEN d.reason ELSE m.reason
           /\ to = "responses" =>
                 /\ SseLog(p) /\ SseAgrees(p, Sse!PushDelta(a, d))
                 /\ d.k = "tool" => p.current.kind = "tool" /\ p.current.call = d.i
                 /\ d.k \in {"usage", "finish"} => p.current = m.current
           /\ to # "responses" => SseTold(m, p, d)
<1> DEFINE s == Sse!Started(m)
           p == Sse!Emit(m, <<d>>)
<1>1. <<d>> # <<>> /\ <<d>>[1] = d
  OBVIOUS
<1>2. CASE to = "responses"
  <2>1. p = Sse!ResponsesDelta(s, d)
    BY <1>1, <1>2 DEF Sse!Emit
  <2>2. /\ s \in SseEmitter /\ SseLog(s)
        /\ s.current = m.current /\ s.closed = m.closed /\ s.reason = m.reason
        /\ s.out = m.out \/ s.out = Append(m.out, Sse!Out("created", 0, "none"))
    BY <1>2, SseStarts
  <2>3. SseAgrees(s, a)
    BY <1>2, <2>2, SseAgreesSame
  <2>4. SseTimely(s, a, d)
    BY <1>2, <2>2 DEF SseTimely, Sse!SameCall
  <2>5. SseQuiet(s.out)
    <3> DEFINE e == Sse!Out("created", 0, "none")
    <3>1. e \in SseEvent /\ e.ev # "terminal" /\ m.out \in Seq(SseEvent)
      BY DEF SseEmitter, SseEvent, Sse!Out, SseNames, SseWords
    <3> HIDE DEF e
    <3>2. SseQuiet(Append(m.out, e))
      BY <3>1, SseQuietKept
    <3> QED
      BY <2>2, <3>2 DEF e
  <2> HIDE DEF s, p
  <2>6. /\ p \in SseEmitter /\ SseLog(p) /\ SseAgrees(p, Sse!PushDelta(a, d)) /\ SseQuiet(p.out)
        /\ p.reason = IF d.k = "finish" THEN d.reason ELSE s.reason
        /\ d.k = "tool" => p.current.kind = "tool" /\ p.current.call = d.i
    BY <2>1, <2>2, <2>3, <2>4, <2>5, SseOneDelta
  <2>7. d.k \in {"usage", "finish"} => p.current = s.current
    <3>1. s.current = [s EXCEPT !.reason = d.reason].current
      BY <2>2 DEF SseEmitter
    <3> QED
      BY <2>1, <3>1 DEF Sse!ResponsesDelta
  <2> QED
    BY <1>2, <2>2, <2>6, <2>7 DEF p
<1>3. CASE to # "responses"
  <2>1. p = Sse!PlainDelta(s, d)
    BY <1>1, <1>3 DEF Sse!Emit
  <2>2. SseOnward(m, s)
    BY <1>3, SseStartsPlain
  <2> HIDE DEF s, p
  <2>3. SseTold(s, p, d)
    BY <2>1, <2>2, SsePlainDelta DEF SseOnward
  <2>4. SseTold(m, p, d)
    BY <2>2, <2>3 DEF SseOnward, SseTold
  <2> QED
    BY <1>3, <2>4 DEF SseTold, p
<1> QED
  BY <1>2, <1>3

\* The terminal event, and nothing after it.
SseLast(p) ==
    /\ p \in SseEmitter /\ p.out # <<>> /\ p.out[Len(p.out)].ev = "terminal"
    /\ \A k \in DOMAIN p.out : p.out[k].ev = "terminal" => k = Len(p.out)

LEMMA SseLastPut ==
    ASSUME NEW m \in SseEmitter, SseQuiet(m.out), NEW val \in SseWords
    PROVE  LET p == Sse!Put(m, "terminal", 0, val) IN
           /\ SseLast(p) /\ p.out[Len(p.out)].val = val
           /\ p.reason = m.reason /\ p.current = m.current /\ p.closed = m.closed
           /\ SseFinishes(p.out) = SseFinishes(m.out)
           /\ \A k \in DOMAIN m.out : k \in DOMAIN p.out /\ p.out[k] = m.out[k]
<1> DEFINE e == Sse!Out("terminal", 0, val)
           p == Sse!Put(m, "terminal", 0, val)
           n == Len(m.out) + 1
<1>1. "terminal" \in SseNames /\ 0 \in Nat
  BY DEF SseNames
<1>2. /\ p \in SseEmitter /\ e \in SseEvent /\ p.out = Append(m.out, e)
      /\ p.current = m.current /\ p.closed = m.closed /\ p.reason = m.reason
  BY <1>1, SsePut
<1>3. e.ev = "terminal" /\ e.val = val /\ m.out \in Seq(SseEvent)
  BY DEF SseEmitter, Sse!Out
<1> HIDE DEF e, p
<1>4. /\ DOMAIN p.out = 1 .. n /\ Len(p.out) = n /\ p.out[n] = e /\ DOMAIN m.out = 1 .. n - 1
      /\ n \in Nat /\ n >= 1
      /\ \A k \in DOMAIN m.out : p.out[k] = m.out[k]
  BY <1>2, <1>3
<1>5. SseFinishes(p.out) = SseFinishes(m.out)
  BY <1>3, <1>4 DEF SseFinishes
<1>6. \A k \in DOMAIN p.out : p.out[k].ev = "terminal" => k = n
  BY <1>4 DEF SseQuiet
<1>7. p.out # <<>>
  BY <1>4
<1>8. \A k \in DOMAIN m.out : k \in DOMAIN p.out /\ p.out[k] = m.out[k]
  BY <1>4
<1>9. SseLast(p) /\ p.out[Len(p.out)].val = val
  BY <1>2, <1>3, <1>4, <1>6, <1>7 DEF SseLast
<1> QED
  BY <1>2, <1>5, <1>8, <1>9 DEF p

\* EmitState::finish
LEMMA SseEnds ==
    ASSUME NEW m \in SseEmitter, NEW a \in SseResponse, SseQuiet(m.out), to \in Sse!Endpoints,
           to = "responses" => SseLog(m) /\ SseAgrees(m, a),
           MaxEvents \in Nat, MaxParts \in Nat
    PROVE  LET p == Sse!EmitFinish(m) IN
           /\ SseLast(p) /\ p.reason = m.reason
           /\ to = "responses" =>
                 /\ SseLog(p) /\ SseAgrees(p, a) /\ p.current.kind = "none"
                 /\ p.out[Len(p.out)].val = Sse!Status(m.reason)
           /\ to # "responses" =>
                 /\ SseFinishes(p.out) = SseFinishes(m.out)
                 /\ \A k \in DOMAIN m.out : k \in DOMAIN p.out /\ p.out[k] = m.out[k]
<1> DEFINE s == Sse!Started(m)
           p == Sse!EmitFinish(m)
<1>1. CASE to = "responses"
  <2> DEFINE q == Sse!CloseCurrent(s)
             val == Sse!Status(m.reason)
  <2>1. p = Sse!Put(q, "terminal", 0, val)
    BY <1>1 DEF Sse!EmitFinish
  <2>2. /\ s \in SseEmitter /\ SseLog(s)
        /\ s.current = m.current /\ s.closed = m.closed /\ s.reason = m.reason
        /\ s.out = m.out \/ s.out = Append(m.out, Sse!Out("created", 0, "none"))
    BY <1>1, SseStarts
  <2>3. SseAgrees(s, a)
    BY <1>1, <2>2, SseAgreesSame
  <2>4. SseQuiet(s.out)
    <3> DEFINE e == Sse!Out("created", 0, "none")
    <3>1. e \in SseEvent /\ e.ev # "terminal" /\ m.out \in Seq(SseEvent)
      BY DEF SseEmitter, SseEvent, Sse!Out, SseNames, SseWords
    <3> HIDE DEF e
    <3>2. SseQuiet(Append(m.out, e))
      BY <3>1, SseQuietKept
    <3> QED
      BY <2>2, <3>2 DEF e
  <2> HIDE DEF s
  <2>5. /\ q \in SseEmitter /\ SseLog(q) /\ SseAgrees(q, a) /\ SseQuiet(q.out)
        /\ q.current.kind = "none" /\ q.reason = s.reason
    BY <2>2, <2>3, <2>4, SseClears
  <2> HIDE DEF q
  <2>6. val \in SseWords
    <3>1. m.reason \in Sse!Reasons
      BY DEF SseEmitter
    <3> QED
      BY <3>1 DEF Sse!Status, Sse!Reasons, SseWords
  <2>7. /\ SseLast(p) /\ p.out[Len(p.out)].val = val
        /\ p.reason = q.reason /\ p.current = q.current /\ p.closed = q.closed
    BY <2>1, <2>5, <2>6, SseLastPut
  <2>8. SseLog(p)
    BY <2>1, <2>5, <2>6, SseLogTerminal
  <2>9. SseAgrees(p, a)
    BY <2>5, <2>7, SseAgreesSame
  <2> HIDE DEF p
  <2> QED
    BY <1>1, <2>2, <2>5, <2>7, <2>8, <2>9 DEF p
<1>2. CASE to # "responses"
  <2> DEFINE b == Sse!Put(s, "blockStop", 0, "none")
  <2>1. SseOnward(m, s)
    BY <1>2, SseStartsPlain
  <2>2. p \in {Sse!Put(s, "terminal", 0, "none"), Sse!Put(b, "terminal", 0, "none")}
    BY <1>2 DEF Sse!EmitFinish, Sse!Endpoints
  <2> HIDE DEF s
  <2>3. "blockStop" \in SseNames /\ "none" \in SseWords /\ 0 \in Nat
    BY DEF SseNames, SseWords
  <2>4. SseOnward(s, b)
    BY <2>1, <2>3, SseOnwardPut DEF SseOnward
  <2> HIDE DEF b
  <2>5. SseOnward(m, b)
    BY <2>1, <2>4, SseOnwardAgain
  <2>6. ASSUME NEW q, SseOnward(m, q), p = Sse!Put(q, "terminal", 0, "none")
        PROVE  /\ SseLast(p) /\ p.reason = m.reason
               /\ SseFinishes(p.out) = SseFinishes(m.out)
               /\ \A k \in DOMAIN m.out : k \in DOMAIN p.out /\ p.out[k] = m.out[k]
    <3>1. q \in SseEmitter /\ SseQuiet(q.out)
      BY <2>6 DEF SseOnward
    <3>2. /\ SseLast(p) /\ p.reason = q.reason
          /\ SseFinishes(p.out) = SseFinishes(q.out)
          /\ \A k \in DOMAIN q.out : k \in DOMAIN p.out /\ p.out[k] = q.out[k]
      BY <2>3, <2>6, <3>1, SseLastPut
    <3> HIDE DEF p
    <3> QED
      BY <2>6, <3>2 DEF SseOnward
  <2> HIDE DEF p
  <2>7. CASE p = Sse!Put(s, "terminal", 0, "none")
    BY <1>2, <2>1, <2>6, <2>7 DEF p
  <2>8. CASE p = Sse!Put(b, "terminal", 0, "none")
    BY <1>2, <2>5, <2>6, <2>8 DEF p
  <2> QED
    BY <2>2, <2>7, <2>8
<1> QED
  BY <1>1, <1>2

-----------------------------------------------------------------------------
(* The deltas of an event. *)

\* A part's place is below its number, and the next part's one more if it counts.
LEMMA SsePlaces ==
    ASSUME NEW parts \in Seq(Sse!Kinds), NEW i \in 1 .. Len(parts)
    PROVE  /\ SsePlace(parts, i) \in 0 .. i - 1
           /\ SsePlace(parts, i + 1) =
                 SsePlace(parts, i) + IF from = "chat" /\ parts[i] # "tool" THEN 0 ELSE 1
<1> DEFINE S(n) == {j \in 1 .. n - 1 : parts[j] = "tool"}
<1>1. i \in Nat /\ i >= 1 /\ Len(parts) \in Nat
  OBVIOUS
<1>2. \A n \in Nat : /\ IsFiniteSet(1 .. n) /\ Cardinality(1 .. n) = n
  <2> TAKE n \in Nat
  <2>1. IsFiniteSet(1 .. n) /\ Cardinality(1 .. n) = IF 1 > n THEN 0 ELSE n - 1 + 1
    BY FS_Interval
  <2> QED
    BY <2>1
<1>3. IsFiniteSet(1 .. i - 1) /\ Cardinality(1 .. i - 1) = i - 1
  BY <1>1, <1>2
<1>4. S(i) \subseteq 1 .. i - 1
  OBVIOUS
<1>5. IsFiniteSet(S(i)) /\ Cardinality(S(i)) \in Nat /\ Cardinality(S(i)) <= i - 1
  BY <1>3, <1>4, FS_Subset, FS_CardinalityType
<1>6. SsePlace(parts, i) \in 0 .. i - 1
  BY <1>1, <1>5 DEF SsePlace
<1>7. CASE from = "chat" /\ parts[i] = "tool"
  <2>1. S(i + 1) = S(i) \cup {i} /\ i \notin S(i)
    BY <1>1, <1>7
  <2> HIDE DEF S
  <2>2. Cardinality(S(i + 1)) = Cardinality(S(i)) + 1
    BY <1>5, <2>1, FS_AddElement
  <2> QED
    BY <1>6, <1>7, <2>2 DEF S, SsePlace
<1>8. CASE from = "chat" /\ parts[i] # "tool"
  <2>1. S(i + 1) = S(i)
    BY <1>1, <1>8
  <2>2. SsePlace(parts, i + 1) = SsePlace(parts, i)
    BY <1>8, <2>1 DEF SsePlace
  <2> QED
    BY <1>6, <1>8, <2>2
<1>9. CASE from # "chat"
  BY <1>1, <1>6, <1>9 DEF SsePlace
<1> QED
  BY <1>6, <1>7, <1>8, <1>9

\* The parts before it determine a part's place.
LEMMA SsePlaceKept ==
    ASSUME NEW parts \in Seq(Sse!Kinds), NEW kind \in Sse!Kinds
    PROVE  SsePlace(Append(parts, kind), Len(parts) + 1) = SsePlace(parts, Len(parts) + 1)
<1> DEFINE n == Len(parts) + 1
<1>1. {j \in 1 .. n - 1 : Append(parts, kind)[j] = "tool"} = {j \in 1 .. n - 1 : parts[j] = "tool"}
  OBVIOUS
<1> QED
  BY <1>1 DEF SsePlace

\* The index on the wire is the place.
LEMMA SseWired ==
    ASSUME MaxParts \in Nat, up'.parts \in Seq(Sse!Kinds), Len(up'.parts) <= MaxParts,
           NEW i \in 1 .. Len(up'.parts)
    PROVE  /\ Sse!WireIndex(i) = SsePlace(up'.parts, i) /\ Sse!WireIndex(i) \in Sse!Indexes
           /\ up'.parts[i] \in Sse!Kinds
<1>1. Sse!WireIndex(i) = SsePlace(up'.parts, i)
  BY SseCardinality DEF Sse!WireIndex, SsePlace
<1>2. SsePlace(up'.parts, i) \in 0 .. i - 1
  BY SsePlaces
<1>3. i <= MaxParts /\ i \in Nat
  BY MaxParts \in Nat
<1> QED
  BY <1>1, <1>2, <1>3 DEF Sse!Indexes

\* The deltas of an event of a part.
LEMMA SsePartDeltas ==
    ASSUME MaxParts \in Nat, MaxEvents \in Nat, up'.parts \in Seq(Sse!Kinds),
           Len(up'.parts) <= MaxParts, argsSeen \in [Sse!Indexes -> {"none", "no", "yes"}],
           NEW t \in {"open", "piece", "close"}, NEW i \in 1 .. Len(up'.parts),
           NEW body \in Sse!Bodies
    PROVE  LET e == Sse!Event(t, i, body, "none")
               ds == Sse!Deltas(e)
           IN
           /\ ds = <<>> \/ \E d \in SseDelta :
                 /\ ds = <<d>> /\ d.k = up'.parts[i] /\ d.k # "finish"
                 /\ d.k = "tool" => d.i = SsePlace(up'.parts, i)
                 /\ d.named = (up'.parts[i] = "tool" /\ (t = "open" \/ (from = "responses" /\ t = "piece")))
           /\ t = "open" /\ up'.parts[i] = "tool" /\ from # "responses" => ds # <<>>
           /\ Sse!ArgsSeen(e) \in [Sse!Indexes -> {"none", "no", "yes"}]
           /\ Sse!TerminalReason(e) = "none"
<1> DEFINE e == Sse!Event(t, i, body, "none")
           kind == up'.parts[i]
           w == Sse!WireIndex(i)
           tool == Sse!Tool(w, t = "open" \/ from = "responses", body)
           text == Sse!Text(kind, body)
           nothing == Sse!Tool(w, FALSE, <<0>>)
<1>1. w = SsePlace(up'.parts, i) /\ w \in Sse!Indexes /\ kind \in Sse!Kinds /\ i # 0
  BY SseWired
<1>2. e.t = t /\ e.i = i /\ e.body = body /\ e.reason = "none"
  BY DEF Sse!Event
<1>3. <<0>> \in Sse!Bodies
  BY MaxEvents \in Nat DEF Sse!Bodies
<1>4. nothing \in SseDelta /\ nothing.k = "tool" /\ nothing.i = w /\ nothing.named = FALSE
  BY <1>1, <1>3 DEF Sse!Tool, SseDelta, Sse!Reasons
<1>5. /\ tool \in SseDelta /\ tool.k = "tool" /\ tool.i = w
      /\ tool.named = (t = "open" \/ from = "responses")
  BY <1>1 DEF Sse!Tool, SseDelta, Sse!Reasons
<1>6. kind # "tool" => text \in SseDelta /\ text.k = kind /\ text.named = FALSE
  <2>1. 0 \in Sse!Indexes
    BY MaxParts \in Nat DEF Sse!Indexes
  <2> QED
    BY <1>1, <2>1 DEF Sse!Text, SseDelta, Sse!Reasons, Sse!Kinds
<1>7. /\ \/ Sse!Deltas(e) = <<>>
         \/ Sse!Deltas(e) = <<tool>> /\ kind = "tool" /\ t # "close"
         \/ Sse!Deltas(e) = <<text>> /\ kind # "tool"
         \/ Sse!Deltas(e) = <<nothing>> /\ kind = "tool" /\ t = "close"
      /\ t = "open" /\ kind = "tool" /\ from # "responses" => Sse!Deltas(e) = <<tool>>
  <2>1. t = "open" => Sse!Deltas(e) =
          IF (from = "messages" => kind = "tool") /\ from # "responses"
          THEN <<IF kind = "tool" THEN tool ELSE text>> ELSE <<>>
    BY <1>1, <1>2 DEF Sse!Deltas
  <2>2. t = "piece" => Sse!Deltas(e) = <<IF kind = "tool" THEN tool ELSE text>>
    BY <1>1, <1>2 DEF Sse!Deltas
  <2>3. t = "close" => Sse!Deltas(e) \in {<<>>, <<nothing>>}
    BY <1>1, <1>2 DEF Sse!Deltas
  <2>4. t = "close" /\ Sse!Deltas(e) # <<>> => kind = "tool"
    BY <1>1, <1>2 DEF Sse!Deltas
  <2> HIDE DEF tool, text, nothing, w, e
  <2> QED
    BY <2>1, <2>2, <2>3, <2>4
<1>8. Sse!ArgsSeen(e) \in [Sse!Indexes -> {"none", "no", "yes"}]
  BY <1>1, <1>2 DEF Sse!ArgsSeen
<1>9. Sse!TerminalReason(e) = "none"
  BY <1>2 DEF Sse!TerminalReason
<1> HIDE DEF tool, text, nothing, w, e
<1>10. ASSUME Sse!Deltas(e) # <<>>
       PROVE \E d \in SseDelta :
                 /\ Sse!Deltas(e) = <<d>> /\ d.k = kind /\ d.k # "finish"
                 /\ d.k = "tool" => d.i = SsePlace(up'.parts, i)
                 /\ d.named = (kind = "tool" /\ (t = "open" \/ (from = "responses" /\ t = "piece")))
  BY <1>1, <1>4, <1>5, <1>6, <1>7, <1>10 DEF Sse!Kinds
<1> QED
  <2>1. t = "open" /\ kind = "tool" /\ from # "responses" => Sse!Deltas(e) # <<>>
    <3>1. <<tool>> # <<>>
      OBVIOUS
    <3> QED
      BY <1>7, <3>1
  <2> QED
    BY <1>8, <1>9, <1>10, <2>1 DEF e

-----------------------------------------------------------------------------
(* What every step leaves standing. *)

\* What a step of the provider may have done to it.
SseMoved ==
    /\ up' \in SseProvider /\ up'.open <= Len(up'.parts) /\ Len(up'.parts) <= MaxParts
    /\ up'.reason \in {"none"} \cup Sse!WireReasons[from]
    /\ up.reason # "none" => up'.reason = up.reason /\ up'.parts = up.parts
    /\ from' = from /\ to' = to

\* While the stream has no terminal event.
LEMMA SseSilent ==
    ASSUME SseStream, over = "open", up.over = "no" \/ ~finished
    PROVE  /\ ~finished /\ ~SseDone /\ SseQuiet(em.out)
           /\ to \in Sse!Endpoints /\ from \in Sse!Endpoints
           /\ em \in SseEmitter /\ acc \in SseResponse
           /\ argsSeen \in [Sse!Indexes -> {"none", "no", "yes"}]
           /\ to = "responses" => SseLog(em) /\ SseAgrees(em, acc)
<1>1. ~finished
  BY DEF SseStream, SseEnd
<1>2. ~SseDone
  BY <1>1 DEF SseDone
<1>3. SseQuiet(em.out)
  BY <1>2 DEF SseStream, SseEnd, SseQuiet
<1> QED
  BY <1>1, <1>2, <1>3 DEF SseStream, SseTyped

\* An event that adds nothing but a delta of a part, or of the usage.
LEMMA SseGoesOn ==
    ASSUME SseStream, MaxParts \in Nat, MaxEvents \in Nat, Sse!Sending, SseMoved,
           up'.reason = up.reason, up'.over = up.over,
           NEW e, Sse!Transform(e), Sse!TerminalReason(e) = "none",
           Sse!ArgsSeen(e) \in [Sse!Indexes -> {"none", "no", "yes"}],
           \/ Sse!Deltas(e) = <<>>
           \/ \E d \in SseDelta : /\ Sse!Deltas(e) = <<d>> /\ d.k # "finish"
                                  /\ to = "responses" => SseTimely(em, acc, d)
    PROVE  /\ SseStream'
           /\ \A i \in Sse!Indexes : acc'.calls[i].named =>
                 \/ acc.calls[i].named
                 \/ \E d \in SseDelta : Sse!Deltas(e) = <<d>> /\ d.k = "tool" /\ d.i = i
           /\ \A d \in SseDelta : Sse!Deltas(e) = <<d>> /\ to = "responses" =>
                 /\ d.k = "tool" => em'.current.kind = "tool" /\ em'.current.call = d.i
                 /\ d.k = "usage" => em'.current = em.current
           /\ Sse!Deltas(e) = <<>> => em' = em /\ acc' = acc
<1>1. over = "open" /\ up.over = "no"
  BY DEF Sse!Sending
<1>2. /\ ~finished /\ ~SseDone /\ SseQuiet(em.out)
      /\ to \in Sse!Endpoints /\ em \in SseEmitter /\ acc \in SseResponse
      /\ to = "responses" => SseLog(em) /\ SseAgrees(em, acc)
  BY <1>1, SseSilent
<1>3. /\ Sse!Retained(Sse!Deltas(e), "none") = Sse!Deltas(e)
      /\ terminalSeen' = terminalSeen /\ finished' = finished /\ over' = over
      /\ argsSeen' = Sse!ArgsSeen(e) /\ from' = from /\ to' = to
      /\ em' = Sse!Emit(em, Sse!Deltas(e))
      /\ acc' = IF Sse!Deltas(e) = <<>> THEN acc ELSE Sse!PushDelta(acc, Sse!Deltas(e)[1])
  <2>1. Sse!Retained(Sse!Deltas(e), "none") = Sse!Deltas(e)
    BY DEF Sse!Retained
  <2>2. terminalSeen' = (terminalSeen \/ FALSE) /\ terminalSeen \in BOOLEAN
    BY DEF Sse!Transform, SseStream, SseTyped
  <2> QED
    BY <2>1, <2>2 DEF Sse!Transform
<1> DEFINE Told ==
             /\ em' \in SseEmitter /\ SseQuiet(em'.out) /\ acc' \in SseResponse /\ em'.reason = em.reason
             /\ to = "responses" => SseLog(em') /\ SseAgrees(em', acc')
             /\ to # "responses" =>
                   /\ SseFinishes(em'.out) = SseFinishes(em.out)
                   /\ \A k \in DOMAIN em.out : k \in DOMAIN em'.out /\ em'.out[k] = em.out[k]
             /\ \A i \in Sse!Indexes : acc'.calls[i].named =>
                   \/ acc.calls[i].named
                   \/ \E d \in SseDelta : Sse!Deltas(e) = <<d>> /\ d.k = "tool" /\ d.i = i
             /\ \A d \in SseDelta : Sse!Deltas(e) = <<d>> /\ to = "responses" =>
                   /\ d.k = "tool" => em'.current.kind = "tool" /\ em'.current.call = d.i
                   /\ d.k = "usage" => em'.current = em.current
             /\ Sse!Deltas(e) = <<>> => em' = em /\ acc' = acc
<1>4. Told
  <2>1. CASE Sse!Deltas(e) = <<>>
    <3>1. em' = em /\ acc' = acc
      BY <1>3, <2>1 DEF Sse!Emit
    <3>2. \A d : <<d>> # <<>>
      OBVIOUS
    <3> QED
      BY <1>2, <2>1, <3>1, <3>2
  <2>2. ASSUME NEW d \in SseDelta, Sse!Deltas(e) = <<d>>, d.k # "finish",
               to = "responses" => SseTimely(em, acc, d)
        PROVE  Told
    <3>1. <<d>> # <<>> /\ <<d>>[1] = d /\ \A c : <<c>> = <<d>> => c = d
      OBVIOUS
    <3>2. em' = Sse!Emit(em, <<d>>) /\ acc' = Sse!PushDelta(acc, d)
      BY <1>3, <2>2, <3>1
    <3>3. /\ em' \in SseEmitter /\ SseQuiet(em'.out) /\ em'.reason = em.reason
          /\ to = "responses" =>
                /\ SseLog(em') /\ SseAgrees(em', acc')
                /\ d.k = "tool" => em'.current.kind = "tool" /\ em'.current.call = d.i
                /\ d.k \in {"usage", "finish"} => em'.current = em.current
          /\ to # "responses" => SseTold(em, em', d)
      BY <1>2, <2>2, <3>2, SseEmits
    <3>4. /\ acc' \in SseResponse
          /\ \A i \in Sse!Indexes : acc'.calls[i].named =>
                acc.calls[i].named \/ (d.k = "tool" /\ i = d.i)
      BY <1>2, <3>2, SsePushed
    <3>5. to # "responses" =>
            /\ SseFinishes(em'.out) = SseFinishes(em.out)
            /\ \A k \in DOMAIN em.out : k \in DOMAIN em'.out /\ em'.out[k] = em.out[k]
      BY <2>2, <3>3 DEF SseTold
    <3> QED
      BY <2>2, <3>1, <3>3, <3>4, <3>5
  <2> HIDE DEF Told
  <2> QED
    BY <2>1, <2>2
<1>5. SseTyped'
  BY <1>3, <1>4 DEF SseTyped, SseMoved, SseStream
<1>6. ~SseDone'
  BY <1>2, <1>3 DEF SseDone
<1>7. SseEnd'
  BY <1>1, <1>2, <1>3, <1>4, <1>6 DEF SseEnd, SseStream, SseQuiet
<1>8. SseVerdict'
  <2>1. up.reason # "none" => SseNeutral' = SseNeutral
    BY DEF SseMoved, SseNeutral
  <2>2. \A r : SseWord(r)' = SseWord(r)
    BY <1>3 DEF SseWord
  <2>3. em'.reason = em.reason
    BY <1>4
  <2>4. to # "responses" /\ up.reason # "none" =>
          \E k \in DOMAIN em'.out :
              SseFinishes(em'.out) = {k} /\ em'.out[k].val = SseWord(em'.reason)
    BY <1>4, <2>3 DEF SseStream, SseVerdict
  <2>5. to # "responses" /\ ~terminalSeen => SseFinishes(em'.out) = {}
    BY <1>4 DEF SseStream, SseVerdict
  <2>6. up.reason # "none" => em'.reason = SseNeutral'
    BY <2>1, <2>3 DEF SseStream, SseVerdict
  <2> QED
    BY <1>3, <1>6, <2>2, <2>4, <2>5, <2>6 DEF SseVerdict, SseWord
<1>9. SseStream'
  BY <1>3, <1>4, <1>5, <1>6, <1>7, <1>8 DEF SseStream
<1> QED
  BY <1>4, <1>9

LEMMA SseFinishTyped ==
    ASSUME NEW r \in Sse!Reasons, MaxParts \in Nat, MaxEvents \in Nat
    PROVE  LET d == Sse!Finish(r) IN
           /\ d \in SseDelta /\ d.k = "finish" /\ d.reason = r
           /\ Sse!HasFinish(<<d>>) /\ ~Sse!HasFinish(<<>>)
<1>1. 0 \in Sse!Indexes /\ <<>> \in Sse!Bodies
  BY MaxParts \in Nat, MaxEvents \in Nat DEF Sse!Indexes, Sse!Bodies
<1> QED
  BY <1>1 DEF Sse!Finish, Sse!HasFinish, SseDelta

\* The first terminal event gives the reason, if it has one.
LEMMA SseGivesReason ==
    ASSUME SseStream, MaxParts \in Nat, MaxEvents \in Nat, Sse!Sending, SseMoved,
           ~terminalSeen, NEW r \in Sse!Reasons, em' = Sse!Emit(em, <<Sse!Finish(r)>>),
           acc' \in {acc, Sse!PushDelta(acc, Sse!Finish(r))},
           argsSeen' = argsSeen, terminalSeen' = TRUE, finished' = finished, over' = over,
           up'.over \in {"no", "done"}, up'.reason # "none" \/ up'.over = "done",
           up'.reason # "none" => SseNeutral' = r
    PROVE  SseStream' /\ (to = "responses" => em'.current = em.current) /\ acc'.calls = acc.calls
<1> DEFINE d == Sse!Finish(r)
<1>1. over = "open" /\ up.over = "no"
  BY DEF Sse!Sending
<1>2. /\ ~finished /\ ~SseDone /\ SseQuiet(em.out)
      /\ to \in Sse!Endpoints /\ em \in SseEmitter /\ acc \in SseResponse
      /\ argsSeen \in [Sse!Indexes -> {"none", "no", "yes"}]
      /\ to = "responses" => SseLog(em) /\ SseAgrees(em, acc)
  BY <1>1, SseSilent
<1>3. d \in SseDelta /\ d.k = "finish" /\ d.reason = r
  BY SseFinishTyped
<1> HIDE DEF d
<1>4. /\ em' \in SseEmitter /\ SseQuiet(em'.out) /\ em'.reason = r
      /\ to = "responses" => /\ SseLog(em') /\ SseAgrees(em', Sse!PushDelta(acc, d))
                             /\ em'.current = em.current
      /\ to # "responses" => SseTold(em, em', d)
  <2>1. em' = Sse!Emit(em, <<d>>)
    BY DEF d
  <2>2. to = "responses" => SseTimely(em, acc, d)
    BY <1>3 DEF SseTimely
  <2> QED
    BY <1>2, <1>3, <2>1, <2>2, SseEmits
<1>5. /\ acc' \in SseResponse
      /\ acc'.calls = acc.calls /\ acc'.text = acc.text /\ acc'.reasoning = acc.reasoning
  <2>1. LET b == Sse!PushDelta(acc, d) IN
        b \in SseResponse /\ b.calls = acc.calls /\ b.text = acc.text /\ b.reasoning = acc.reasoning
    BY <1>2, <1>3, SsePushed
  <2>2. acc' \in {acc, Sse!PushDelta(acc, d)}
    BY DEF d
  <2> QED
    BY <1>2, <2>1, <2>2
<1>6. to = "responses" => SseAgrees(em', acc')
  <2>1. LET b == Sse!PushDelta(acc, d) IN
        b.calls = acc.calls /\ b.text = acc.text /\ b.reasoning = acc.reasoning
    BY <1>2, <1>3, SsePushed
  <2> QED
    BY <1>4, <1>5, <2>1 DEF SseAgrees
<1>7. SseTyped'
  BY <1>2, <1>4, <1>5 DEF SseTyped, SseMoved, SseStream
<1>8. ~SseDone'
  BY <1>2 DEF SseDone
<1>9. SseEnd'
  BY <1>1, <1>2, <1>4, <1>8 DEF SseEnd, SseStream, SseQuiet
<1>10. SseVerdict'
  <2>1. to # "responses" => \E k \in DOMAIN em'.out :
          SseFinishes(em'.out) = {k} /\ em'.out[k].val = SseWord(em'.reason)
    <3>1. to # "responses" => SseFinishes(em.out) = {}
      BY DEF SseStream, SseVerdict
    <3> QED
      BY <1>3, <1>4, <3>1 DEF SseTold
  <2>2. up'.reason # "none" => em'.reason = SseNeutral'
    BY <1>4
  <2>3. to' = to
    BY DEF SseMoved
  <2> QED
    BY <1>8, <2>1, <2>2, <2>3 DEF SseVerdict, SseWord
<1>11. SseStream'
  <2>1. to' = to
    BY DEF SseMoved
  <2> QED
    BY <1>4, <1>6, <1>7, <1>8, <1>9, <1>10, <2>1 DEF SseStream
<1> QED
  BY <1>4, <1>5, <1>11

\* The stream is finished, by [DONE] or by its end.
LEMMA SseFinal ==
    ASSUME SseStream, MaxParts \in Nat, MaxEvents \in Nat, SseMoved, over = "open", ~finished,
           NEW m \in SseEmitter, SseQuiet(m.out), em' = Sse!EmitFinish(m),
           to = "responses" \/ up.reason # "none" => m = em,
           acc' = acc, argsSeen' = argsSeen, terminalSeen' = TRUE, finished' = TRUE,
           over' \in {"open", "ended"}, up'.reason = up.reason,
           up'.reason # "none" \/ up'.over = "done",
           over' = "open" => up'.over = "done"
    PROVE  SseStream'
<1>1. /\ to \in Sse!Endpoints /\ em \in SseEmitter /\ acc \in SseResponse
      /\ argsSeen \in [Sse!Indexes -> {"none", "no", "yes"}]
      /\ to = "responses" => SseLog(em) /\ SseAgrees(em, acc)
  BY SseSilent
<1>2. /\ SseLast(em') /\ em'.reason = m.reason
      /\ to = "responses" =>
            /\ SseLog(em') /\ SseAgrees(em', acc) /\ em'.current.kind = "none"
            /\ em'.out[Len(em'.out)].val = Sse!Status(m.reason)
      /\ to # "responses" =>
            /\ SseFinishes(em'.out) = SseFinishes(m.out)
            /\ \A k \in DOMAIN m.out : k \in DOMAIN em'.out /\ em'.out[k] = m.out[k]
  BY <1>1, SseEnds
<1>3. to' = to /\ from' = from /\ SseDone'
  BY DEF SseMoved, SseDone
<1>4. SseTyped'
  BY <1>1, <1>2, <1>3 DEF SseTyped, SseMoved, SseStream, SseLast
<1>5. SseEnd'
  BY <1>2, <1>3 DEF SseEnd, SseLast
<1>6. SseVerdict'
  <2>1. up'.reason # "none" => em'.reason = SseNeutral'
    <3>1. up.reason # "none" => SseNeutral' = SseNeutral
      BY DEF SseMoved, SseNeutral
    <3> QED
      BY <1>2, <3>1 DEF SseStream, SseVerdict
  <2>2. to # "responses" /\ up.reason # "none" =>
          \E k \in DOMAIN em'.out :
              SseFinishes(em'.out) = {k} /\ em'.out[k].val = SseWord(em'.reason)
    BY <1>2 DEF SseStream, SseVerdict
  <2> QED
    BY <1>2, <1>3, <2>1, <2>2 DEF SseVerdict, SseWord
<1> QED
  BY <1>1, <1>2, <1>3, <1>4, <1>5, <1>6 DEF SseStream

-----------------------------------------------------------------------------
(* The actions. *)

LEMMA SsePlacePrimed ==
    ASSUME from' = from PROVE \A parts, i : SsePlace(parts, i)' = SsePlace(parts, i)
  BY DEF SsePlace

\* A new part: the call it opens has an index no call had.
LEMMA SseOpenPart ==
    ASSUME SseInv, MaxParts \in Nat, MaxEvents \in Nat, NEW kind \in Sse!Kinds, Sse!OpenPart(kind)
    PROVE  SseInv'
<1> DEFINE n == Len(up.parts) + 1
<1>1. /\ up \in SseProvider /\ up.parts \in Seq(Sse!Kinds) /\ Len(up.parts) \in Nat
      /\ up.reason = "none" /\ up.over = "no" /\ Len(up.parts) < MaxParts
      /\ up.sent \in 0 .. MaxEvents /\ up.sent < MaxEvents
  BY DEF Sse!OpenPart, Sse!Sending, SseInv, SseStream, SseTyped, SseProvider
<1>2. /\ up' = [up EXCEPT !.parts = Append(up.parts, kind), !.open = n, !.sent = up.sent + 1]
      /\ Sse!Sending
  BY DEF Sse!OpenPart
<1>3. /\ up'.parts = Append(up.parts, kind) /\ up'.open = n /\ up'.reason = up.reason
      /\ up'.over = up.over
      /\ up'.parts \in Seq(Sse!Kinds) /\ Len(up'.parts) = n /\ n \in 1 .. Len(up'.parts)
      /\ Len(up'.parts) <= MaxParts /\ up'.parts[n] = kind
      /\ \A j \in 1 .. n - 1 : up'.parts[j] = up.parts[j]
  BY <1>1, <1>2 DEF SseProvider
<1>4. up' \in SseProvider
  <2>1. n \in Nat /\ up.sent + 1 \in 0 .. MaxEvents
    BY <1>1
  <2> HIDE DEF n
  <2> QED
    BY <1>1, <1>2, <1>3, <2>1 DEF SseProvider
<1>5. PICK body \in {<<>>, <<up.sent + 1>>} : Sse!Transform(Sse!Event("open", up'.open, body, "none"))
  BY DEF Sse!OpenPart, Sse!Piece
<1> DEFINE e == Sse!Event("open", n, body, "none")
           ds == Sse!Deltas(e)
<1>6. body \in Sse!Bodies /\ Sse!Transform(e)
  <2>1. up.sent + 1 \in 0 .. MaxEvents
    BY <1>1
  <2> QED
    <3>1. \A v \in 0 .. MaxEvents : <<v>> \in Seq(0 .. MaxEvents)
      OBVIOUS
    <3>2. <<up.sent + 1>> \in Seq(0 .. MaxEvents) /\ <<>> \in Seq(0 .. MaxEvents)
      BY <2>1, <3>1
    <3>3. body = <<>> \/ body = <<up.sent + 1>>
      BY <1>5
    <3> QED
      BY <1>3, <1>5, <3>2, <3>3 DEF Sse!Bodies
<1>7. from' = from /\ to' = to
  BY <1>6 DEF Sse!Transform
<1>8. SseMoved
  BY <1>1, <1>3, <1>4, <1>7 DEF SseMoved
<1>9. /\ ds = <<>> \/ \E d \in SseDelta :
            /\ ds = <<d>> /\ d.k = kind /\ d.k # "finish"
            /\ d.k = "tool" => d.i = SsePlace(up'.parts, n)
            /\ d.named = (kind = "tool")
      /\ kind = "tool" /\ from # "responses" => ds # <<>>
      /\ Sse!ArgsSeen(e) \in [Sse!Indexes -> {"none", "no", "yes"}]
      /\ Sse!TerminalReason(e) = "none"
  <2>1. argsSeen \in [Sse!Indexes -> {"none", "no", "yes"}]
    BY DEF SseInv, SseStream, SseTyped
  <2> QED
    BY <1>3, <1>6, <2>1, SsePartDeltas
<1>10. SsePlace(up'.parts, n) = SsePlace(up.parts, n)
  BY <1>1, <1>3, SsePlaceKept
<1>11. /\ SsePlace(up'.parts, n) \in Nat
       /\ SsePlace(up'.parts, n + 1) =
             SsePlace(up'.parts, n) + IF from = "chat" /\ kind # "tool" THEN 0 ELSE 1
  <2>1. up'.parts \in Seq(Sse!Kinds) /\ n \in 1 .. Len(up'.parts) /\ up'.parts[n] = kind
    BY <1>3
  <2> HIDE DEF n
  <2>2. /\ SsePlace(up'.parts, n) \in 0 .. n - 1
        /\ SsePlace(up'.parts, n + 1) =
              SsePlace(up'.parts, n) + IF from = "chat" /\ up'.parts[n] # "tool" THEN 0 ELSE 1
    BY <2>1, SsePlaces
  <2> QED
    BY <2>1, <2>2
<1>12. \/ ds = <<>>
       \/ \E d \in SseDelta : /\ ds = <<d>> /\ d.k # "finish"
                              /\ to = "responses" => SseTimely(em, acc, d)
  <2>1. ASSUME NEW d \in SseDelta, d.k = "tool", d.i = SsePlace(up'.parts, n), d.named,
               to = "responses"
        PROVE  SseTimely(em, acc, d)
    <3>1. d.i \in Sse!Indexes
      BY DEF SseDelta
    <3>2. acc.calls[d.i].named => d.i < SsePlace(up.parts, n)
      BY <2>1, <3>1 DEF SseInv, SseTurn
    <3>3. ~acc.calls[d.i].named
      BY <1>10, <1>11, <2>1, <3>2
    <3> QED
      BY <2>1, <3>3 DEF SseTimely
  <2> HIDE DEF ds
  <2> QED
    BY <1>9, <2>1 DEF SseTimely
<1>13. /\ SseStream'
       /\ \A i \in Sse!Indexes : acc'.calls[i].named =>
             \/ acc.calls[i].named
             \/ \E d \in SseDelta : ds = <<d>> /\ d.k = "tool" /\ d.i = i
       /\ \A d \in SseDelta : ds = <<d>> /\ to = "responses" /\ d.k = "tool" =>
             em'.current.kind = "tool" /\ em'.current.call = d.i
  BY <1>2, <1>3, <1>6, <1>8, <1>9, <1>12, SseGoesOn DEF SseInv
<1> HIDE DEF ds, e
<1>14. ASSUME to = "responses" PROVE SseTurn'
  <2>1. \A i \in Sse!Indexes : acc.calls[i].named => i < SsePlace(up.parts, n)
    BY <1>14 DEF SseInv, SseTurn
  <2>2. \A c, d : <<c>> = <<d>> => c = d
    OBVIOUS
  <2>3. \A i \in Sse!Indexes : acc'.calls[i].named => i < SsePlace(up'.parts, n + 1)
    <3> SUFFICES ASSUME NEW i \in Sse!Indexes, acc'.calls[i].named
                 PROVE  i < SsePlace(up'.parts, n + 1)
      OBVIOUS
    <3>1. i \in Nat
      BY DEF Sse!Indexes
    <3>2. CASE acc.calls[i].named
      BY <1>10, <1>11, <2>1, <3>1, <3>2
    <3>3. CASE ~acc.calls[i].named
      <4>1. PICK d \in SseDelta : ds = <<d>> /\ d.k = "tool" /\ d.i = i
        BY <1>13, <3>3
      <4>2. kind = "tool" /\ i = SsePlace(up'.parts, n)
        BY <1>9, <2>2, <4>1
      <4> QED
        BY <1>11, <3>1, <4>2
    <3> QED
      BY <3>2, <3>3
  <2>4. kind = "tool" => em'.current.kind = "tool" /\ em'.current.call = SsePlace(up'.parts, n)
    <3>1. from # "responses"
      BY <1>14 DEF SseInv, SseStream, SseTyped
    <3>2. ASSUME kind = "tool"
          PROVE  \E d \in SseDelta : ds = <<d>> /\ d.k = "tool" /\ d.i = SsePlace(up'.parts, n)
      BY <1>9, <3>1, <3>2
    <3> QED
      BY <1>13, <1>14, <3>2
  <2> QED
    BY <1>3, <1>7, <2>3, <2>4, SsePlacePrimed DEF SseTurn
<1> QED
  BY <1>7, <1>13, <1>14 DEF SseInv

\* A piece of the open part, or its end.
LEMMA SseSamePart ==
    ASSUME SseInv, MaxParts \in Nat, MaxEvents \in Nat, Sse!Sending, up.open # 0,
           NEW o \in {0, up.open}, up' = [up EXCEPT !.open = o, !.sent = up.sent + 1],
           NEW t \in {"piece", "close"}, NEW body \in Sse!Bodies,
           Sse!Transform(Sse!Event(t, up.open, body, "none"))
    PROVE  SseInv'
<1> DEFINE i == up.open
           e == Sse!Event(t, i, body, "none")
           ds == Sse!Deltas(e)
<1>1. /\ up \in SseProvider /\ up.parts \in Seq(Sse!Kinds) /\ Len(up.parts) \in Nat
      /\ up.over = "no" /\ Len(up.parts) <= MaxParts
      /\ up.sent \in 0 .. MaxEvents /\ up.sent < MaxEvents
      /\ i \in 1 .. Len(up.parts)
      /\ up.reason \in {"none"} \cup Sse!WireReasons[from]
  BY DEF Sse!Sending, SseInv, SseStream, SseTyped, SseProvider
<1>2. /\ up'.parts = up.parts /\ up'.open = o /\ up'.reason = up.reason
      /\ up'.over = up.over /\ up' \in SseProvider
  <2>1. up.sent + 1 \in 0 .. MaxEvents /\ o \in Nat
    BY <1>1
  <2> QED
    BY <1>1, <2>1 DEF SseProvider
<1>3. Sse!Transform(e)
  OBVIOUS
<1>4. from' = from /\ to' = to
  BY <1>3 DEF Sse!Transform
<1>5. SseMoved
  BY <1>1, <1>2, <1>4 DEF SseMoved
<1>6. /\ ds = <<>> \/ \E d \in SseDelta :
            /\ ds = <<d>> /\ d.k = up.parts[i] /\ d.k # "finish"
            /\ d.k = "tool" => d.i = SsePlace(up.parts, i)
      /\ Sse!ArgsSeen(e) \in [Sse!Indexes -> {"none", "no", "yes"}]
      /\ Sse!TerminalReason(e) = "none"
  <2>1. argsSeen \in [Sse!Indexes -> {"none", "no", "yes"}]
    BY DEF SseInv, SseStream, SseTyped
  <2>2. /\ up'.parts \in Seq(Sse!Kinds) /\ Len(up'.parts) <= MaxParts
        /\ i \in 1 .. Len(up'.parts)
    BY <1>1, <1>2
  <2> HIDE DEF i
  <2>3. /\ ds = <<>> \/ \E d \in SseDelta :
              /\ ds = <<d>> /\ d.k = up'.parts[i] /\ d.k # "finish"
              /\ d.k = "tool" => d.i = SsePlace(up'.parts, i)
        /\ Sse!ArgsSeen(e) \in [Sse!Indexes -> {"none", "no", "yes"}]
        /\ Sse!TerminalReason(e) = "none"
    BY <2>1, <2>2, SsePartDeltas
  <2> HIDE DEF ds, e
  <2> QED
    BY <1>2, <2>3
<1>7. to = "responses" /\ up.parts[i] = "tool" =>
        em.current.kind = "tool" /\ em.current.call = SsePlace(up.parts, i)
  BY <1>1 DEF SseInv, SseTurn
<1>8. \/ ds = <<>>
       \/ \E d \in SseDelta : /\ ds = <<d>> /\ d.k # "finish"
                              /\ to = "responses" => SseTimely(em, acc, d)
  <2>1. ASSUME NEW d \in SseDelta, d.k = up.parts[i], d.k = "tool" => d.i = SsePlace(up.parts, i),
               to = "responses"
        PROVE  SseTimely(em, acc, d)
    BY <1>7, <2>1 DEF SseTimely, Sse!SameCall
  <2> HIDE DEF ds, i
  <2> QED
    BY <1>6, <2>1
<1>9. /\ SseStream'
      /\ \A j \in Sse!Indexes : acc'.calls[j].named =>
            \/ acc.calls[j].named
            \/ \E d \in SseDelta : ds = <<d>> /\ d.k = "tool" /\ d.i = j
      /\ \A d \in SseDelta : ds = <<d>> /\ to = "responses" /\ d.k = "tool" =>
            em'.current.kind = "tool" /\ em'.current.call = d.i
      /\ ds = <<>> => em' = em
  BY <1>2, <1>3, <1>5, <1>6, <1>8, SseGoesOn DEF SseInv
<1> HIDE DEF ds, e
<1>10. ASSUME to = "responses" PROVE SseTurn'
  <2>1. up.open = Len(up.parts)
    BY <1>1, <1>10 DEF SseInv, SseTurn
  <2>2. \A c, d : <<c>> = <<d>> => c = d
    OBVIOUS
  <2>3. /\ SsePlace(up.parts, i) \in Nat
        /\ up.parts[i] = "tool" => SsePlace(up.parts, i + 1) = SsePlace(up.parts, i) + 1
    <3>1. /\ SsePlace(up.parts, i) \in 0 .. i - 1
          /\ SsePlace(up.parts, i + 1) =
                SsePlace(up.parts, i) + IF from = "chat" /\ up.parts[i] # "tool" THEN 0 ELSE 1
      BY <1>1, SsePlaces
    <3> QED
      BY <1>1, <3>1
  <2>4. \A j \in Sse!Indexes : acc'.calls[j].named => j < SsePlace(up.parts, Len(up.parts) + 1)
    <3> SUFFICES ASSUME NEW j \in Sse!Indexes, acc'.calls[j].named
                 PROVE  j < SsePlace(up.parts, Len(up.parts) + 1)
      OBVIOUS
    <3>1. CASE acc.calls[j].named
      BY <1>10, <3>1 DEF SseInv, SseTurn
    <3>2. CASE ~acc.calls[j].named
      <4>1. PICK d \in SseDelta : ds = <<d>> /\ d.k = "tool" /\ d.i = j
        BY <1>9, <3>2
      <4>2. up.parts[i] = "tool" /\ j = SsePlace(up.parts, i)
        BY <1>6, <2>2, <4>1
      <4> QED
        BY <1>1, <2>1, <2>3, <4>2
    <3> QED
      BY <3>1, <3>2
  <2>5. up.parts[i] = "tool" => em'.current.kind = "tool" /\ em'.current.call = SsePlace(up.parts, i)
    <3>1. ASSUME ds # <<>>, up.parts[i] = "tool"
          PROVE  \E d \in SseDelta : ds = <<d>> /\ d.k = "tool" /\ d.i = SsePlace(up.parts, i)
      BY <1>6, <3>1
    <3> QED
      BY <1>7, <1>9, <1>10, <3>1
  <2> QED
    BY <1>1, <1>2, <1>4, <2>1, <2>4, <2>5, SsePlacePrimed DEF SseTurn
<1> QED
  BY <1>4, <1>9, <1>10 DEF SseInv

\* Without interleaving a piece is one of the open part.
LEMMA SseSendPiece ==
    ASSUME SseInv, MaxParts \in Nat, MaxEvents \in Nat, ~Interleaved, NEW i, Sse!SendPiece(i)
    PROVE  SseInv'
<1>1. /\ Sse!Sending /\ i = up.open /\ up.open # 0
      /\ up.sent \in 0 .. MaxEvents /\ up.sent < MaxEvents
  BY DEF Sse!SendPiece, Sse!Sending, SseInv, SseStream, SseTyped, SseProvider
<1>2. up' = [up EXCEPT !.open = up.open, !.sent = up.sent + 1]
  BY <1>1 DEF Sse!SendPiece
<1>3. <<up.sent + 1>> \in Sse!Bodies
  <2>1. \A v \in 0 .. MaxEvents : <<v>> \in Seq(0 .. MaxEvents)
    OBVIOUS
  <2>2. up.sent + 1 \in 0 .. MaxEvents
    BY <1>1
  <2> QED
    BY <2>1, <2>2 DEF Sse!Bodies
<1>4. Sse!Transform(Sse!Event("piece", up.open, <<up.sent + 1>>, "none"))
  BY <1>1 DEF Sse!SendPiece, Sse!Piece
<1> QED
  BY <1>1, <1>2, <1>3, <1>4, SseSamePart

LEMMA SseClosePart ==
    ASSUME SseInv, MaxParts \in Nat, MaxEvents \in Nat, Sse!ClosePart
    PROVE  SseInv'
<1>1. <<>> \in Sse!Bodies
  BY DEF Sse!Bodies
<1>2. /\ Sse!Sending /\ up.open # 0 /\ up' = [up EXCEPT !.open = 0, !.sent = up.sent + 1]
      /\ Sse!Transform(Sse!Event("close", up.open, <<>>, "none"))
  BY DEF Sse!ClosePart
<1> QED
  BY <1>1, <1>2, SseSamePart

\* The open part keeps its turn where the emitter, the calls and the parts stay.
LEMMA SseTurnSame ==
    ASSUME SseTurn, from' = from, up'.parts = up.parts, up'.open = up.open,
           up'.over = "no" => up.over = "no" /\ em'.current = em.current,
           acc'.calls = acc.calls
    PROVE  SseTurn'
  BY SsePlacePrimed DEF SseTurn

LEMMA SseSendUsage ==
    ASSUME SseInv, MaxParts \in Nat, MaxEvents \in Nat, Sse!SendUsage
    PROVE  SseInv'
<1> DEFINE e == Sse!Event("usage", 0, <<>>, "none")
<1>1. /\ up \in SseProvider /\ up.over = "no" /\ Len(up.parts) <= MaxParts
      /\ up.open <= Len(up.parts) /\ up.sent \in 0 .. MaxEvents /\ up.sent < MaxEvents
      /\ up.reason \in {"none"} \cup Sse!WireReasons[from]
      /\ argsSeen \in [Sse!Indexes -> {"none", "no", "yes"}] /\ acc \in SseResponse
  BY DEF Sse!SendUsage, Sse!Sending, SseInv, SseStream, SseTyped, SseProvider
<1>2. up' = [up EXCEPT !.sent = up.sent + 1] /\ Sse!Sending /\ Sse!Transform(e)
  BY DEF Sse!SendUsage
<1>3. /\ up'.parts = up.parts /\ up'.open = up.open /\ up'.reason = up.reason
      /\ up'.over = up.over /\ up' \in SseProvider
  <2>1. up.sent + 1 \in 0 .. MaxEvents
    BY <1>1
  <2> QED
    BY <1>1, <1>2, <2>1 DEF SseProvider
<1>4. from' = from /\ to' = to
  BY <1>2 DEF Sse!Transform
<1>5. SseMoved
  BY <1>1, <1>3, <1>4 DEF SseMoved
<1>6. Sse!Usage \in SseDelta /\ Sse!Usage.k = "usage"
  <2>1. 0 \in Sse!Indexes /\ <<>> \in Sse!Bodies
    BY MaxParts \in Nat DEF Sse!Indexes, Sse!Bodies
  <2> QED
    BY <2>1 DEF Sse!Usage, SseDelta, Sse!Reasons
<1>7. /\ Sse!Deltas(e) = <<Sse!Usage>> /\ Sse!TerminalReason(e) = "none"
      /\ Sse!ArgsSeen(e) = argsSeen
  <2>1. e.t = "usage" /\ e.i = 0 /\ e.reason = "none"
    BY DEF Sse!Event
  <2> QED
    BY <2>1 DEF Sse!Deltas, Sse!TerminalReason, Sse!ArgsSeen
<1>8. SseTimely(em, acc, Sse!Usage)
  BY <1>6 DEF SseTimely
<1> HIDE DEF e
<1>9. /\ SseStream'
      /\ to = "responses" => em'.current = em.current
  <2>1. /\ Sse!Deltas(e) = <<Sse!Usage>> /\ Sse!Usage \in SseDelta /\ Sse!Usage.k # "finish"
        /\ Sse!ArgsSeen(e) \in [Sse!Indexes -> {"none", "no", "yes"}] /\ SseStream
    BY <1>1, <1>6, <1>7 DEF SseInv
  <2>2. \E d \in SseDelta : /\ Sse!Deltas(e) = <<d>> /\ d.k # "finish"
                            /\ to = "responses" => SseTimely(em, acc, d)
    BY <1>8, <2>1
  <2>3. /\ SseStream'
        /\ \A d \in SseDelta : Sse!Deltas(e) = <<d>> /\ to = "responses" /\ d.k = "usage" =>
              em'.current = em.current
    BY <1>2, <1>3, <1>5, <1>7, <2>1, <2>2, SseGoesOn
  <2> QED
    BY <1>6, <2>1, <2>3
<1>10. acc' = acc
  <2>1. <<Sse!Usage>> # <<>> /\ <<Sse!Usage>>[1] = Sse!Usage
    OBVIOUS
  <2>2. Sse!PushDelta(acc, Sse!Usage) = acc
    BY <1>6 DEF Sse!PushDelta
  <2> QED
    BY <1>2, <1>7, <2>1, <2>2 DEF Sse!Transform
<1>11. to = "responses" => SseTurn'
  BY <1>3, <1>4, <1>9, <1>10, SseTurnSame DEF SseInv
<1> QED
  BY <1>4, <1>9, <1>11 DEF SseInv

\* A declared reason reaches the emitter once, in neutral words.
LEMMA SseDeclare ==
    ASSUME SseInv, MaxParts \in Nat, MaxEvents \in Nat,
           NEW r \in Sse!WireReasons[from], Sse!Declare(r)
    PROVE  SseInv'
<1> DEFINE e == Sse!Event("end", 0, <<>>, r)
           n == Sse!FinishReason(r)
<1>1. /\ up \in SseProvider /\ up.over = "no" /\ Len(up.parts) <= MaxParts
      /\ up.open <= Len(up.parts) /\ up.sent \in 0 .. MaxEvents /\ up.sent < MaxEvents
      /\ up.reason = "none" /\ from \in Sse!Endpoints
      /\ argsSeen \in [Sse!Indexes -> {"none", "no", "yes"}] /\ acc \in SseResponse
      /\ ~terminalSeen /\ terminalSeen \in BOOLEAN
  BY DEF Sse!Declare, Sse!Sending, SseInv, SseStream, SseTyped, SseProvider, SseEnd
<1>2. up' = [up EXCEPT !.reason = r, !.sent = up.sent + 1] /\ Sse!Sending /\ Sse!Transform(e)
  BY DEF Sse!Declare
<1>3. r \in SseDeclared /\ r # "none"
  BY <1>1 DEF Sse!WireReasons, Sse!Endpoints, SseDeclared
<1>4. /\ up'.parts = up.parts /\ up'.open = up.open /\ up'.reason = r
      /\ up'.over = up.over /\ up' \in SseProvider
  <2>1. up.sent + 1 \in 0 .. MaxEvents
    BY <1>1
  <2> QED
    BY <1>1, <1>2, <1>3, <2>1 DEF SseProvider
<1>5. from' = from /\ to' = to
  BY <1>2 DEF Sse!Transform
<1>6. SseMoved
  BY <1>1, <1>4, <1>5 DEF SseMoved
<1>7. n \in Sse!Reasons /\ n # "none" /\ n = SseNeutral'
  <2>1. n \in Sse!Reasons /\ n # "none"
    BY <1>3 DEF Sse!FinishReason, SseDeclared, Sse!Reasons
  <2>2. Sse!HasToolCall <=> \E j \in DOMAIN up'.parts : up'.parts[j] = "tool"
    BY DEF Sse!HasToolCall
  <2>3. n = SseNeutral'
    BY <1>4, <2>2 DEF Sse!FinishReason, SseNeutral
  <2> QED
    BY <2>1, <2>3
<1>8. /\ Sse!Deltas(e) = IF from = "responses" => r = "completed" THEN <<Sse!Finish(n)>> ELSE <<>>
      /\ Sse!TerminalReason(e) = n /\ Sse!ArgsSeen(e) = argsSeen
  <2>1. e.t = "end" /\ e.i = 0 /\ e.reason = r
    BY DEF Sse!Event
  <2> QED
    BY <2>1 DEF Sse!Deltas, Sse!TerminalReason, Sse!ArgsSeen
<1>9. Sse!Finish(n) \in SseDelta /\ Sse!HasFinish(<<Sse!Finish(n)>>) /\ ~Sse!HasFinish(<<>>)
  BY <1>7, SseFinishTyped
<1> HIDE DEF e, n
<1>10. Sse!Retained(Sse!Deltas(e), Sse!TerminalReason(e)) = <<Sse!Finish(n)>>
  <2>1. Append(<<>>, Sse!Finish(n)) = <<Sse!Finish(n)>>
    OBVIOUS
  <2>2. Sse!Retained(Sse!Deltas(e), n) =
          IF Sse!HasFinish(Sse!Deltas(e)) THEN Sse!Deltas(e) ELSE Append(Sse!Deltas(e), Sse!Finish(n))
    BY <1>1, <1>7 DEF Sse!Retained
  <2> QED
    BY <1>8, <1>9, <2>1, <2>2
<1>11. /\ em' = Sse!Emit(em, <<Sse!Finish(n)>>)
       /\ acc' \in {acc, Sse!PushDelta(acc, Sse!Finish(n))}
       /\ argsSeen' = argsSeen /\ terminalSeen' = TRUE /\ finished' = finished /\ over' = over
  <2>1. <<Sse!Finish(n)>> # <<>> /\ <<Sse!Finish(n)>>[1] = Sse!Finish(n)
    OBVIOUS
  <2>2. em' = Sse!Emit(em, <<Sse!Finish(n)>>) /\ argsSeen' = argsSeen /\ finished' = finished
        /\ over' = over
    BY <1>2, <1>8, <1>10 DEF Sse!Transform
  <2>3. terminalSeen' = TRUE
    BY <1>2, <1>7, <1>8 DEF Sse!Transform
  <2>4. acc' \in {acc, Sse!PushDelta(acc, Sse!Finish(n))}
    <3>1. acc' = IF Sse!Deltas(e) = <<>> THEN acc ELSE Sse!PushDelta(acc, Sse!Deltas(e)[1])
      BY <1>2 DEF Sse!Transform
    <3> QED
      BY <1>8, <2>1, <3>1
  <2> QED
    BY <2>2, <2>3, <2>4
<1>12. SseStream' /\ (to = "responses" => em'.current = em.current) /\ acc'.calls = acc.calls
  BY <1>1, <1>2, <1>3, <1>4, <1>6, <1>7, <1>11, SseGivesReason DEF SseInv
<1>13. to = "responses" => SseTurn'
  BY <1>4, <1>5, <1>12, SseTurnSame DEF SseInv
<1> QED
  BY <1>5, <1>12, <1>13 DEF SseInv

\* message_stop counts as a reason only where none was declared.
LEMMA SseMessageStop ==
    ASSUME SseInv, MaxParts \in Nat, MaxEvents \in Nat, Sse!MessageStop
    PROVE  SseInv'
<1> DEFINE e == Sse!Event("stop", 0, <<>>, "none")
<1>1. /\ up \in SseProvider /\ up.over = "no" /\ Len(up.parts) <= MaxParts
      /\ up.open <= Len(up.parts) /\ up.sent \in 0 .. MaxEvents /\ up.sent < MaxEvents
      /\ up.reason \in {"none"} \cup Sse!WireReasons[from] /\ over = "open"
      /\ terminalSeen \in BOOLEAN /\ (~terminalSeen => up.reason = "none")
      /\ ~finished
  BY DEF Sse!MessageStop, Sse!Sending, SseInv, SseStream, SseTyped, SseProvider, SseEnd
<1>2. up' = [up EXCEPT !.over = "done", !.sent = up.sent + 1] /\ Sse!Sending /\ Sse!Transform(e)
  BY DEF Sse!MessageStop
<1>3. /\ up'.parts = up.parts /\ up'.open = up.open /\ up'.reason = up.reason
      /\ up'.over = "done" /\ up' \in SseProvider
  <2>1. up.sent + 1 \in 0 .. MaxEvents
    BY <1>1
  <2> QED
    BY <1>1, <1>2, <2>1 DEF SseProvider
<1>4. from' = from /\ to' = to
  BY <1>2 DEF Sse!Transform
<1>5. SseMoved
  BY <1>1, <1>3, <1>4 DEF SseMoved
<1>6. /\ Sse!Deltas(e) = <<>> /\ Sse!TerminalReason(e) = "stop" /\ Sse!ArgsSeen(e) = argsSeen
  <2>1. e.t = "stop" /\ e.i = 0
    BY DEF Sse!Event
  <2> QED
    BY <2>1 DEF Sse!Deltas, Sse!TerminalReason, Sse!ArgsSeen
<1> HIDE DEF e
<1>7. /\ acc' = acc /\ argsSeen' = argsSeen /\ terminalSeen' = TRUE
      /\ finished' = finished /\ over' = over
      /\ em' = Sse!Emit(em, Sse!Retained(<<>>, "stop"))
  BY <1>2, <1>6 DEF Sse!Transform
<1>8. CASE terminalSeen
  <2>1. em' = em
    <3>1. ~Sse!HasFinish(<<>>)
      BY DEF Sse!HasFinish
    <3>2. Sse!Retained(<<>>, "stop") = <<>>
      BY <1>8, <3>1 DEF Sse!Retained
    <3> QED
      BY <1>7, <3>2 DEF Sse!Emit
  <2>2. SseTyped'
    BY <1>1, <1>3, <1>4, <1>5, <1>7, <2>1 DEF SseTyped, SseMoved, SseInv, SseStream
  <2>3. SseDone' = SseDone /\ ~SseDone
    BY <1>1, <1>7 DEF SseDone
  <2>4. SseEnd'
    BY <1>1, <1>3, <1>7, <2>1, <2>3 DEF SseEnd, SseInv, SseStream
  <2>5. SseVerdict'
    <3>1. SseNeutral' = SseNeutral
      BY <1>3 DEF SseNeutral
    <3> QED
      BY <1>3, <1>4, <1>7, <1>8, <2>1, <2>3, <3>1 DEF SseVerdict, SseWord, SseInv, SseStream
  <2>6. to = "responses" => SseTurn'
    BY <1>3, <1>4, <1>7, <2>1, SseTurnSame DEF SseInv
  <2> QED
    BY <1>4, <1>7, <2>1, <2>2, <2>3, <2>4, <2>5, <2>6 DEF SseInv, SseStream
<1>9. CASE ~terminalSeen
  <2>1. em' = Sse!Emit(em, <<Sse!Finish("stop")>>)
    <3>1. ~Sse!HasFinish(<<>>)
      BY DEF Sse!HasFinish
    <3>2. Append(<<>>, Sse!Finish("stop")) = <<Sse!Finish("stop")>>
      OBVIOUS
    <3>3. Sse!Retained(<<>>, "stop") = <<Sse!Finish("stop")>>
      BY <1>9, <3>1, <3>2 DEF Sse!Retained
    <3> QED
      BY <1>7, <3>3
  <2>2. "stop" \in Sse!Reasons
    BY DEF Sse!Reasons
  <2>3. SseStream' /\ (to = "responses" => em'.current = em.current)
    BY <1>1, <1>2, <1>3, <1>5, <1>7, <1>9, <2>1, <2>2, SseGivesReason DEF SseInv
  <2>4. to = "responses" => SseTurn'
    BY <1>3, <1>4, <1>7, <2>3, SseTurnSame DEF SseInv
  <2> QED
    BY <1>4, <2>3, <2>4 DEF SseInv
<1> QED
  BY <1>8, <1>9

\* [DONE] finishes the stream.
LEMMA SseDoneLine ==
    ASSUME SseInv, MaxParts \in Nat, MaxEvents \in Nat, Sse!Done
    PROVE  SseInv'
<1> DEFINE infer == ~terminalSeen /\ from = "responses" /\ Sse!HasToolCall
           m == Sse!Emit(em, IF infer THEN <<Sse!Finish("tool_calls")>> ELSE <<>>)
<1>1. /\ up \in SseProvider /\ up.over = "no" /\ Len(up.parts) <= MaxParts
      /\ up.open <= Len(up.parts) /\ up.sent \in 0 .. MaxEvents /\ up.sent < MaxEvents
      /\ up.reason \in {"none"} \cup Sse!WireReasons[from] /\ over = "open"
      /\ to \in Sse!Endpoints \ {from} /\ (~terminalSeen => up.reason = "none")
  BY DEF Sse!Done, Sse!Sending, SseInv, SseStream, SseTyped, SseProvider, SseEnd
<1>2. /\ ~finished /\ SseQuiet(em.out) /\ em \in SseEmitter /\ acc \in SseResponse
  BY <1>1, SseSilent DEF SseInv
<1>3. up' = [up EXCEPT !.over = "done", !.sent = up.sent + 1]
  BY DEF Sse!Done
<1>4. /\ up'.parts = up.parts /\ up'.open = up.open /\ up'.reason = up.reason
      /\ up'.over = "done" /\ up' \in SseProvider
  <2>1. up.sent + 1 \in 0 .. MaxEvents
    BY <1>1
  <2> QED
    BY <1>1, <1>3, <2>1 DEF SseProvider
<1>5. /\ acc' = acc /\ argsSeen' = argsSeen /\ terminalSeen' = TRUE /\ finished' = TRUE
      /\ over' = "open" /\ em' = Sse!EmitFinish(m) /\ from' = from /\ to' = to
  BY <1>2 DEF Sse!Done, Sse!FinishOnce
<1>6. SseMoved
  BY <1>1, <1>4, <1>5 DEF SseMoved
<1>7. m \in SseEmitter /\ SseQuiet(m.out) /\ (to = "responses" \/ up.reason # "none" => m = em)
  <2>1. CASE ~infer
    <3>1. m = em
      BY <2>1 DEF Sse!Emit
    <3> QED
      BY <1>2, <3>1
  <2>2. CASE infer
    <3> DEFINE d == Sse!Finish("tool_calls")
    <3>1. d \in SseDelta /\ d.k = "finish"
      <4>1. "tool_calls" \in Sse!Reasons
        BY DEF Sse!Reasons
      <4> QED
        BY <4>1, SseFinishTyped
    <3>2. m = Sse!Emit(em, <<d>>) /\ to # "responses" /\ up.reason = "none"
      BY <1>1, <2>2
    <3> HIDE DEF d, m
    <3>3. m \in SseEmitter /\ SseQuiet(m.out)
      BY <1>2, <3>1, <3>2, SseEmits
    <3> QED
      BY <3>2, <3>3
  <2> QED
    BY <2>1, <2>2
<1> HIDE DEF m
<1>8. SseStream'
  BY <1>1, <1>2, <1>4, <1>5, <1>6, <1>7, SseFinal DEF SseInv
<1>9. to = "responses" => SseTurn'
  BY <1>4, <1>5, SseTurnSame DEF SseInv
<1> QED
  BY <1>5, <1>8, <1>9 DEF SseInv

LEMMA SseBadEvent ==
    ASSUME SseInv, Sse!BadEvent
    PROVE  SseInv'
<1>1. /\ up \in SseProvider /\ up.over = "no" /\ over = "open" /\ ~finished
      /\ up' = [up EXCEPT !.over = "cut"] /\ over' = "failed"
      /\ from' = from /\ to' = to /\ argsSeen' = argsSeen /\ acc' = acc /\ em' = em
      /\ terminalSeen' = terminalSeen /\ finished' = finished
  BY DEF Sse!BadEvent, Sse!Sending, SseInv, SseStream, SseTyped, SseEnd
<1>2. /\ up'.parts = up.parts /\ up'.open = up.open /\ up'.reason = up.reason
      /\ up'.over = "cut" /\ up' \in SseProvider
  BY <1>1 DEF SseProvider
<1>3. SseTyped'
  BY <1>1, <1>2 DEF SseTyped, SseInv, SseStream
<1>4. SseDone' = SseDone /\ ~SseDone
  BY <1>1 DEF SseDone
<1>5. SseEnd'
  BY <1>1, <1>2, <1>4 DEF SseEnd, SseInv, SseStream
<1>6. SseVerdict'
  <2>1. SseNeutral' = SseNeutral
    BY <1>2 DEF SseNeutral
  <2> QED
    BY <1>1, <1>2, <1>4, <2>1 DEF SseVerdict, SseWord, SseInv, SseStream
<1>7. to = "responses" => SseTurn'
  BY <1>1, <1>2, SseTurnSame DEF SseInv
<1> QED
  BY <1>1, <1>3, <1>4, <1>5, <1>6, <1>7 DEF SseInv, SseStream

\* The end of the stream finishes it if it is complete and fails it otherwise.
LEMMA SseEof ==
    ASSUME SseInv, MaxParts \in Nat, MaxEvents \in Nat, Sse!Eof
    PROVE  SseInv'
<1>1. /\ up \in SseProvider /\ over = "open" /\ Len(up.parts) <= MaxParts
      /\ up.open <= Len(up.parts) /\ up.reason \in {"none"} \cup Sse!WireReasons[from]
      /\ finished \in BOOLEAN /\ terminalSeen \in BOOLEAN /\ up.over # "cut"
      /\ up.over \in {"no", "done"} /\ (finished => up.over = "done")
      /\ terminalSeen <=> up.reason # "none" \/ up.over = "done"
  BY DEF Sse!Eof, SseInv, SseStream, SseTyped, SseProvider, SseEnd
<1>2. /\ up' = [up EXCEPT !.over = IF up.over = "no" THEN "cut" ELSE up.over]
      /\ from' = from /\ to' = to /\ argsSeen' = argsSeen /\ acc' = acc
      /\ terminalSeen' = terminalSeen /\ finished' = TRUE
      /\ em' = IF terminalSeen /\ ~finished THEN Sse!EmitFinish(em) ELSE em
      /\ over' = IF terminalSeen \/ finished THEN "ended" ELSE "failed"
  BY DEF Sse!Eof, Sse!FinishOnce
<1>3. /\ up'.parts = up.parts /\ up'.open = up.open /\ up'.reason = up.reason
      /\ up'.over = (IF up.over = "no" THEN "cut" ELSE up.over) /\ up' \in SseProvider
  BY <1>1, <1>2 DEF SseProvider
<1>4. to = "responses" => SseTurn'
  BY <1>1, <1>2, <1>3, SseTurnSame DEF SseInv
<1>5. SseMoved
  BY <1>1, <1>2, <1>3 DEF SseMoved
<1>6. CASE terminalSeen /\ ~finished
  <2>1. SseQuiet(em.out) /\ em \in SseEmitter
    BY <1>1, <1>6, SseSilent DEF SseInv
  <2>2. SseStream'
    BY <1>1, <1>2, <1>3, <1>5, <1>6, <2>1, SseFinal DEF SseInv
  <2> QED
    BY <1>2, <1>4, <2>2 DEF SseInv
<1>7. CASE ~(terminalSeen /\ ~finished)
  <2>1. em' = em
    BY <1>2, <1>7
  <2>2. SseTyped'
    BY <1>1, <1>2, <1>3, <1>7, <2>1 DEF SseTyped, SseInv, SseStream
  <2>3. SseDone' = SseDone
    BY <1>1, <1>2, <1>7 DEF SseDone
  <2>4. SseEnd'
    BY <1>1, <1>2, <1>3, <1>7, <2>1, <2>3 DEF SseEnd, SseInv, SseStream
  <2>5. SseVerdict'
    <3>1. SseNeutral' = SseNeutral
      BY <1>3 DEF SseNeutral
    <3> QED
      BY <1>2, <1>3, <2>1, <2>3, <3>1 DEF SseVerdict, SseWord, SseInv, SseStream
  <2> QED
    BY <1>2, <1>4, <2>1, <2>2, <2>3, <2>4, <2>5 DEF SseInv, SseStream
<1> QED
  BY <1>6, <1>7

\* Every step of the translation keeps the invariant.
LEMMA SseNextKept ==
    ASSUME Sse!SseAssumption, ~Interleaved, SseInv, [Sse!Next]_(Sse!vars)
    PROVE  SseInv'
<1>1. MaxParts \in Nat /\ MaxEvents \in Nat
  BY DEF Sse!SseAssumption
<1>2. CASE UNCHANGED Sse!vars
  <2>1. /\ from' = from /\ to' = to /\ up' = up /\ argsSeen' = argsSeen /\ acc' = acc
        /\ terminalSeen' = terminalSeen /\ finished' = finished /\ em' = em /\ over' = over
    BY <1>2 DEF Sse!vars
  <2>2. SseTyped'
    BY <2>1 DEF SseTyped, SseInv, SseStream
  <2>3. SseDone' = SseDone
    BY <2>1 DEF SseDone
  <2>4. SseEnd'
    BY <2>1, <2>3 DEF SseEnd, SseInv, SseStream
  <2>5. SseVerdict'
    <3>1. SseNeutral' = SseNeutral
      BY <2>1 DEF SseNeutral
    <3> QED
      BY <2>1, <2>3, <3>1 DEF SseVerdict, SseWord, SseInv, SseStream
  <2>6. to = "responses" => SseTurn'
    BY <2>1, SseTurnSame DEF SseInv
  <2> QED
    BY <2>1, <2>2, <2>3, <2>4, <2>5, <2>6 DEF SseInv, SseStream
<1>3. ASSUME NEW k \in Sse!Kinds, Sse!OpenPart(k) PROVE SseInv'
  BY <1>1, <1>3, SseOpenPart
<1>4. ASSUME NEW i \in 1 .. MaxParts, Sse!SendPiece(i) PROVE SseInv'
  BY <1>1, <1>4, SseSendPiece
<1>5. ASSUME NEW r \in Sse!WireReasons[from], Sse!Declare(r) PROVE SseInv'
  BY <1>1, <1>5, SseDeclare
<1>6. CASE Sse!ClosePart
  BY <1>1, <1>6, SseClosePart
<1>7. CASE Sse!SendUsage
  BY <1>1, <1>7, SseSendUsage
<1>8. CASE Sse!MessageStop
  BY <1>1, <1>8, SseMessageStop
<1>9. CASE Sse!Done
  BY <1>1, <1>9, SseDoneLine
<1>10. CASE Sse!BadEvent
  BY <1>10, SseBadEvent
<1>11. CASE Sse!Eof
  BY <1>1, <1>11, SseEof
<1> QED
  BY <1>2, <1>3, <1>4, <1>5, <1>6, <1>7, <1>8, <1>9, <1>10, <1>11 DEF Sse!Next

LEMMA SseInit == Sse!SseAssumption /\ Sse!Init => SseInv
<1> SUFFICES ASSUME Sse!SseAssumption, Sse!Init PROVE SseInv
  OBVIOUS
<1>1. MaxParts \in Nat /\ MaxEvents \in Nat /\ <<>> \in Sse!Bodies /\ 0 \in Sse!Indexes
  BY DEF Sse!SseAssumption, Sse!Bodies, Sse!Indexes
<1>2. /\ from \in Sse!Endpoints /\ to \in Sse!Endpoints \ {from}
      /\ up = [parts |-> <<>>, open |-> 0, reason |-> "none", over |-> "no", sent |-> 0]
      /\ argsSeen = [i \in Sse!Indexes |-> "none"]
      /\ acc = [text |-> <<>>, reasoning |-> <<>>, reason |-> "none",
                calls |-> [i \in Sse!Indexes |-> [named |-> FALSE, body |-> <<>>]]]
      /\ terminalSeen = FALSE /\ finished = FALSE /\ over = "open"
      /\ em = [started |-> FALSE, current |-> Sse!NoItem, closed |-> <<>>, reason |-> "none",
               out |-> <<>>]
  BY DEF Sse!Init
<1>3. SseTyped
  <2>1. up \in SseProvider
    BY <1>1, <1>2 DEF SseProvider, SseDeclared
  <2>2. acc \in SseResponse
    BY <1>1, <1>2 DEF SseResponse, SseCall, Sse!Reasons
  <2>3. Sse!NoItem \in Sse!Items
    BY <1>1 DEF Sse!NoItem, Sse!Items
  <2>4. em \in SseEmitter
    BY <1>2, <2>3 DEF SseEmitter, Sse!Reasons
  <2>5. argsSeen \in [Sse!Indexes -> {"none", "no", "yes"}]
    BY <1>2
  <2>6. up.open <= Len(up.parts) /\ Len(up.parts) <= MaxParts /\ up.reason = "none"
    BY <1>1, <1>2
  <2>7. terminalSeen \in BOOLEAN /\ finished \in BOOLEAN /\ over \in {"open", "ended", "failed"}
    BY <1>2
  <2>8. from \in Sse!Endpoints /\ to \in Sse!Endpoints \ {from}
    BY <1>2
  <2> QED
    BY <2>1, <2>2, <2>4, <2>5, <2>6, <2>7, <2>8 DEF SseTyped
<1>4. ~SseDone
  BY <1>2 DEF SseDone
<1>5. em.out = <<>> /\ em.closed = <<>> /\ em.current.kind = "none" /\ up.reason = "none"
      /\ up.over = "no" /\ up.open = 0 /\ acc.text = <<>> /\ acc.reasoning = <<>>
      /\ \A i \in Sse!Indexes : acc.calls[i].named = FALSE /\ acc.calls[i].body = <<>>
  BY <1>2 DEF Sse!NoItem
<1>6. SseEnd
  BY <1>2, <1>4, <1>5 DEF SseEnd
<1>7. SseVerdict
  BY <1>2, <1>4, <1>5 DEF SseVerdict, SseFinishes
<1>8. SseLog(em)
  <2>1. SseAdded(<<>>, 1) = {} /\ SseOpen(<<>>, 1) = {}
    BY DEF SseAdded, SseOpen
  <2>2. Cardinality({}) = 0
    BY FS_EmptySet
  <2>3. Len(em.out) + 1 = 1 /\ DOMAIN em.out = {} /\ Len(em.closed) = 0
    BY <1>5
  <2> QED
    BY <1>5, <2>1, <2>2, <2>3 DEF SseLog
<1>9. SseAgrees(em, acc)
  <2>1. ASSUME NEW i \in Sse!Indexes PROVE SseCallOk(em, acc.calls[i], i)
    BY <1>5 DEF SseCallOk, SseItems
  <2>2. SseTextOk(em, <<>>, "text") /\ SseTextOk(em, <<>>, "reasoning")
    BY <1>5, SaidNothing DEF SseTextOk
  <2> QED
    BY <1>5, <2>1, <2>2 DEF SseAgrees
<1>10. SseTurn
  BY <1>5 DEF SseTurn
<1> QED
  BY <1>3, <1>4, <1>6, <1>7, <1>8, <1>9, <1>10 DEF SseInv, SseStream

\* The invariant implies each part of TranslationFaithful.
LEMMA SseSound ==
    ASSUME MaxParts \in Nat, MaxEvents \in Nat, SseInv
    PROVE  /\ Sse!TypeOK /\ Sse!ItemsSequential /\ Sse!OneTerminal
           /\ Sse!NotCompletedEarly /\ Sse!VerdictCarried /\ Sse!StreamAgrees
<1>1. /\ SseTyped /\ SseEnd /\ SseVerdict /\ em \in SseEmitter /\ acc \in SseResponse
      /\ to = "responses" =>
            SseLog(em) /\ SseAgrees(em, acc) /\ (SseDone => em.current.kind = "none")
      /\ over = "ended" => SseDone
      /\ from \in Sse!Endpoints /\ up.reason \in {"none"} \cup Sse!WireReasons[from]
  BY DEF SseInv, SseStream, SseTyped, SseEnd, SseDone
<1>2. Sse!TypeOK
  BY <1>1 DEF SseTyped, Sse!TypeOK, SseProvider, SseResponse, SseCall, SseEmitter
<1>3. Sse!ItemsSequential
  <2> SUFFICES ASSUME to = "responses", NEW k \in DOMAIN em.out
               PROVE  LET e == em.out[k] IN
                      /\ e.ev \in {"added", "terminal"} => Sse!OpenBefore(k) = {}
                      /\ e.ev = "added" => e.at = Sse!Cardinality(Sse!AddedBefore(k))
                      /\ e.ev \in {"delta", "done"} =>
                            {em.out[j].at : j \in Sse!OpenBefore(k)} = {e.at}
    BY DEF Sse!ItemsSequential
  <2>1. Sse!AddedBefore(k) = SseAdded(em.out, k) /\ Sse!OpenBefore(k) = SseOpen(em.out, k)
    BY DEF Sse!AddedBefore, Sse!OpenBefore, SseAdded, SseOpen
  <2>2. Sse!Cardinality(SseAdded(em.out, k)) = Cardinality(SseAdded(em.out, k))
    BY SseCardinality
  <2>3. SseInTurn(em.out, k)
    BY <1>1 DEF SseLog
  <2> QED
    BY <2>1, <2>2, <2>3 DEF SseInTurn
<1>4. Sse!OneTerminal
  BY <1>1 DEF SseEnd, Sse!OneTerminal, Sse!Terminals
<1>5. Sse!NotCompletedEarly
  <2>1. Sse!Terminals # {} => SseDone
    BY <1>1 DEF SseEnd, Sse!Terminals
  <2>2. SseDone => Sse!Terminals # {}
    <3>1. SseDone => Len(em.out) \in DOMAIN em.out /\ em.out[Len(em.out)].ev = "terminal"
      BY <1>1 DEF SseEnd, SseEmitter
    <3> QED
      BY <3>1 DEF Sse!Terminals
  <2> QED
    BY <1>1, <2>1, <2>2 DEF Sse!NotCompletedEarly, SseEnd
<1>6. Sse!VerdictCarried
  <2> SUFFICES ASSUME over = "ended", up.reason # "none"
               PROVE  Sse!VerdictCarried
    BY DEF Sse!VerdictCarried
  <2>1. up.reason \in SseDeclared \ {"none"}
    BY <1>1 DEF Sse!WireReasons, Sse!Endpoints, SseDeclared
  <2>2. SseDone /\ em.reason = SseNeutral
    BY <1>1 DEF SseVerdict
  <2>3. CASE to = "responses"
    <3>1. em.out[Len(em.out)].val = Sse!Status(SseNeutral)
      BY <1>1, <2>2, <2>3 DEF SseVerdict
    <3>2. Sse!Meaning(Sse!Status(SseNeutral)) =
            IF Sse!Declared = "tools" THEN "done" ELSE Sse!Declared
      BY <2>1 DEF SseNeutral, SseDeclared, Sse!Meaning, Sse!Status, Sse!Declared
    <3> QED
      BY <2>3, <3>1, <3>2 DEF Sse!VerdictCarried
  <2>4. CASE to # "responses"
    <3>1. PICK k \in DOMAIN em.out :
              SseFinishes(em.out) = {k} /\ em.out[k].val = SseWord(SseNeutral)
      BY <1>1, <2>2, <2>4 DEF SseVerdict
    <3>2. Sse!Meaning(SseWord(SseNeutral)) = Sse!Declared
      BY <2>1 DEF SseNeutral, SseDeclared, SseWord, Sse!ToMessages, Sse!Meaning, Sse!Declared
    <3> QED
      BY <2>4, <3>1, <3>2 DEF Sse!VerdictCarried, SseFinishes
  <2> QED
    BY <2>3, <2>4
<1>7. Sse!StreamAgrees
  <2> SUFFICES ASSUME over = "ended", to = "responses"
               PROVE  Sse!StreamAgrees
    BY DEF Sse!StreamAgrees
  <2>1. SseAgrees(em, acc) /\ em.current.kind = "none" /\ em.closed \in Seq(Sse!Items)
    BY <1>1 DEF SseEmitter
  <2>2. ASSUME NEW i \in Sse!Indexes
        PROVE  LET c == acc.calls[i] IN
               IF ~c.named THEN Sse!ItemsOf(i) = {}
               ELSE \E k \in DOMAIN em.closed :
                      /\ Sse!ItemsOf(i) = {k} /\ em.closed[k].named
                      /\ em.closed[k].body = IF c.body = <<>> THEN <<0>> ELSE c.body
    <3>1. SseCallOk(em, acc.calls[i], i)
      BY <2>1 DEF SseAgrees
    <3>2. Sse!ItemsOf(i) = SseItems(em, i)
      BY DEF Sse!ItemsOf, SseItems
    <3> QED
      BY <2>1, <3>1, <3>2 DEF SseCallOk, SseFilled
  <2>3. ASSUME NEW kind \in {"text", "reasoning"} PROVE acc[kind] = Sse!Said(kind, em.closed)
    <3>1. Sse!Said(kind, em.closed) \in Sse!Bodies
      BY <2>1, SaidTyped
    <3>2. Sse!Said(kind, em.closed) \o <<>> = Sse!Said(kind, em.closed)
      BY <3>1, SseBodies
    <3>3. SseTextOk(em, acc[kind], kind)
      BY <2>1 DEF SseAgrees
    <3> QED
      BY <2>1, <3>2, <3>3 DEF SseTextOk
  <2> QED
    BY <2>2, <2>3 DEF Sse!StreamAgrees
<1> QED
  BY <1>2, <1>3, <1>4, <1>5, <1>6, <1>7

-----------------------------------------------------------------------------
(* The properties of Serving. *)

\* While a component is the one that moves, it has its invariant.
ServingInv ==
    /\ part = "live" => LiveInv
    /\ part = "models" => ModelsInv
    /\ part = "leaf" => LeafInv
    /\ part = "connect" => ConnectInv
    /\ part = "bar" => BarInv
    /\ part = "reading" => NativeInv(Reading)
    /\ part = "reloading" => NativeInv(Reloading)

LEMMA ServingInit == Init => ServingInv
<1> SUFFICES ASSUME Init PROVE ServingInv
  OBVIOUS
<1>1. /\ Live!Init /\ Models!Init /\ Leaf!Init /\ Connect!Init /\ Bar!Init
      /\ part = "reading" => Native(Reading)!Init
      /\ part = "reloading" => Native(Reloading)!Init
  BY DEF Init
<1>2. LiveInv /\ ModelsInv /\ LeafInv /\ ConnectInv /\ BarInv
  BY <1>1, ServingAssumption, LiveInit, ModelsInit, LeafInit, SessionInit, BarInit
<1>3. part = "reading" => NativeInv(Reading)
  BY <1>1, ServingAssumption, NativeInit
<1>4. part = "reloading" => NativeInv(Reloading)
  BY <1>1, ServingAssumption, NativeInit
<1> QED
  BY <1>2, <1>3, <1>4 DEF ServingInv

\* A step keeps the invariant, and takes nothing back.
LEMMA ServingStep ==
    ASSUME ServingInv, [Next]_vars
    PROVE  /\ ServingInv'
           /\ part = "models" => Models!OnceListedStaysListed
           /\ part = "leaf" => Leaf!ReturnsValid /\ Leaf!FreshKept
           /\ part = "connect" => Connect!EndsIdle
<1>1. /\ part' = part
      /\ part = "live" => [Live!Next]_(Live!vars)
      /\ part = "models" => [Models!Next]_(Models!vars)
      /\ part = "leaf" => [Leaf!Next]_(Leaf!vars)
      /\ part = "connect" => [Connect!Next]_(Connect!vars)
      /\ part = "bar" => [Bar!Next]_(Bar!vars)
      /\ part = "reading" => [Native(Reading)!Next]_(Native(Reading)!vars)
      /\ part = "reloading" => [Native(Reloading)!Next]_(Native(Reloading)!vars)
  BY PartStep
<1>2. ASSUME part = "live" PROVE LiveInv'
  <2>1. Live!LiveAssumption /\ LiveInv /\ [Live!Next]_(Live!vars)
    BY <1>1, <1>2, ServingAssumption DEF ServingInv
  <2> QED
    BY <2>1, LiveNext
<1>3. ASSUME part = "models" PROVE ModelsInv' /\ Models!OnceListedStaysListed
  <2>1. Models!DiscoveryAssumption /\ ModelsInv /\ [Models!Next]_(Models!vars)
    BY <1>1, <1>3, ServingAssumption DEF ServingInv
  <2> QED
    BY <2>1, ModelsNext
<1>4. ASSUME part = "leaf" PROVE LeafInv' /\ Leaf!ReturnsValid /\ Leaf!FreshKept
  <2>1. Leaf!LeafAssumption /\ LeafInv /\ [Leaf!Next]_(Leaf!vars)
    BY <1>1, <1>4, ServingAssumption DEF ServingInv
  <2> QED
    BY <2>1, LeafNext DEF LeafGoal
<1>5. ASSUME part = "connect" PROVE ConnectInv' /\ Connect!EndsIdle
  <2>1. /\ Connect!SessionAssumption /\ Route \in {"direct", "socks5"}
        /\ ConnectInv /\ [Connect!Next]_(Connect!vars)
    BY <1>1, <1>5, ServingAssumption DEF ServingInv
  <2> QED
    BY <2>1, SessionNext DEF SessionGoal
<1>6. ASSUME part = "reading" PROVE NativeInv(Reading)'
  <2>1. /\ Native(Reading)!NativeAssumption /\ NativeInv(Reading)
        /\ [Native(Reading)!Next]_(Native(Reading)!vars)
    BY <1>1, <1>6, ServingAssumption DEF ServingInv
  <2> QED
    BY <2>1, NativeNext
<1>7. ASSUME part = "reloading" PROVE NativeInv(Reloading)'
  <2>1. /\ Native(Reloading)!NativeAssumption /\ NativeInv(Reloading)
        /\ [Native(Reloading)!Next]_(Native(Reloading)!vars)
    BY <1>1, <1>7, ServingAssumption DEF ServingInv
  <2> QED
    BY <2>1, NativeNext
<1>8. ASSUME part = "bar" PROVE BarInv'
  <2>1. Bar!ProgressAssumption /\ BarInv /\ [Bar!Next]_(Bar!vars)
    BY <1>1, <1>8, ServingAssumption DEF ServingInv
  <2> QED
    BY <2>1, BarNext
<1> QED
  BY <1>1, <1>2, <1>3, <1>4, <1>5, <1>6, <1>7, <1>8 DEF ServingInv

\* The inductive invariant of all components.
THEOREM ServingInvariant == Spec => []ServingInv
<1>1. ServingInv /\ [Next]_vars => ServingInv'
  BY ServingStep
<1> QED
  BY ServingInit, <1>1, PTL DEF Spec

\* A reload that was answered with success stays in effect however many requests overlap
\* and whatever the two background tasks put in, and what needs a restart is what the
\* process started with (LiveRuntime::replace, install_admin_reloader).
THEOREM ReloadsStand == Spec => []ReloadStands
<1>1. ServingInv => ReloadStands
  <2>1. ASSUME LiveInv PROVE Live!TypeOK /\ Live!AnswerStands /\ Live!ServedAsStarted
    <3>1. ASSUME NEW r \in Requests, pc[r] = "ok" PROVE asked[r] <= Live!Served.ver
      <4>1. RequestInv(pc[r], holder = r, asked[r], loaded[r].ver, disk.ver, Live!Served.ver)
        BY <2>1 DEF LiveInv
      <4> QED
        BY <3>1, <4>1 DEF RequestInv
    <3>2. asked \in [Requests -> 0 .. MaxEdits] /\ Live!Served.ver \in Nat
      BY <2>1, LiveServedTyped DEF LiveInv, Live!TypeOK
    <3>3. Live!AnswerStands
      <4> SUFFICES ASSUME NEW r \in Requests, pc[r] = "ok" PROVE Live!Served.ver >= asked[r]
        BY DEF Live!AnswerStands
      <4>1. asked[r] \in 0 .. MaxEdits /\ asked[r] <= Live!Served.ver
        BY <3>1, <3>2
      <4> QED
        BY <3>2, <4>1
    <3> QED
      BY <2>1, <3>3 DEF LiveInv
  <2> QED
    BY <2>1 DEF ServingInv, ReloadStands
<1> QED
  BY ServingInvariant, <1>1, PTL

\* Routing reads the union of its accounts' last good lists, for any number of accounts
\* that are asked at once and dropped in the middle (DiscoveryRuntime::publish_upstream);
\* and the cache of leaf certificates keeps its bound with any number of CONNECTs
\* (certified_key_for_at).
THEOREM CachesAreSound == Spec => []CachesSound
<1>1. ServingInv => CachesSound
  <2>1. ASSUME part = "models", ServingInv PROVE Models!TypeOK /\ Models!PublishedIsUnion
    BY <2>1, ModelsUnion DEF ServingInv
  <2>2. ASSUME part = "leaf", ServingInv PROVE Leaf!TypeOK /\ Leaf!Bounded
    BY <2>2, LeafSound DEF ServingInv
  <2> QED
    BY <2>1, <2>2 DEF CachesSound
<1> QED
  BY ServingInvariant, <1>1, PTL

\* A CONNECT is run as the generation decided that authenticated it, the channel of the
\* upgrade is never full, a request inside TLS is run by no older generation, and a tunnel
\* changes nothing of what it carries, through any number of reloads and a shutdown at any
\* point (ConnectHandler, serve_connection, copy_bidirectional).
THEOREM SessionsAreSound == Spec => []ConnectSound
<1>1. ServingInv => ConnectSound
  <2>1. ASSUME part = "connect", ServingInv
        PROVE  /\ Connect!TypeOK
               /\ Connect!SendNeverBlocks /\ Connect!OneGeneration /\ Connect!InnerIsCurrent
               /\ Connect!TunnelOpaque
    BY <2>1, SessionSound DEF ServingInv
  <2> QED
    BY <2>1 DEF ConnectSound
<1> QED
  BY ServingInvariant, <1>1, PTL

\* An attempt has at most one line whichever of the handler, the grace thread and flush come
\* to print it, and the usage that came while it was owed is in it; where the bus lost
\* nothing the closing line counts the lines above it; and the footer is off by no more than
\* the completions that found no bar (finalize_pending, flush, ProgressEventHandler).
THEOREM ProgressIsExact == Spec => []ProgressExact
<1>1. ServingInv => ProgressExact
  <2>1. ASSUME part = "bar", ServingInv
        PROVE  /\ Bar!TypeOK /\ Bar!OneLine /\ Bar!SummaryComplete
               /\ Bar!FooterDrift /\ Bar!LineCarriesUsage
    BY <2>1, BarSound DEF ServingInv
  <2> QED
    BY <2>1 DEF ProgressExact
<1> QED
  BY ServingInvariant, <1>1, PTL

\* The table of a native client has the operations that are going on, through every way in
\* which its tasks, readers and cleanups let go of them; nothing runs once a close() has
\* returned; a cancelled stream is not left in its object (ClientState, ClosableStream,
\* Cancellation).
THEOREM NativeClientIsQuiet == Spec => []NativeClientQuiet
<1>1. ASSUME NEW n, NativeInv(n)
      PROVE  /\ Native(n)!TypeOK /\ Native(n)!GuardsExact
             /\ Native(n)!ClosedIsQuiet /\ Native(n)!CancelledNotKept
  BY <1>1 DEF NativeInv, Native!GuardsExact, Quiet, Native!ClosedIsQuiet
<1>2. ServingInv => NativeClientQuiet
  <2>1. ASSUME part = "reading", ServingInv
        PROVE  /\ Native(Reading)!TypeOK /\ Native(Reading)!GuardsExact
               /\ Native(Reading)!ClosedIsQuiet /\ Native(Reading)!CancelledNotKept
    BY <1>1, <2>1 DEF ServingInv
  <2>2. ASSUME part = "reloading", ServingInv
        PROVE  /\ Native(Reloading)!TypeOK /\ Native(Reloading)!GuardsExact
               /\ Native(Reloading)!ClosedIsQuiet
    BY <1>1, <2>2 DEF ServingInv
  <2> QED
    BY <2>1, <2>2 DEF NativeClientQuiet
<1> QED
  BY ServingInvariant, <1>2, PTL

\* In the client's stream the items come one after another, with one terminal event, last
\* and only when the provider declared the response over, and with its reason; and the items
\* are the response that a client without a stream gets.  For responses of any length and
\* any number of parts, cut off anywhere, between any two endpoints, where the provider does
\* not go back to an earlier tool call (EndpointTranslator, ResponsesEmitter).
THEOREM TranslationIsFaithful == ASSUME ~Interleaved PROVE Spec => []TranslationFaithful
<1> DEFINE Translating == part = "sse" => SseInv
<1>1. Init => Translating
  BY SseInit, ServingAssumption DEF Init
<1>2. Translating /\ [Next]_vars => Translating'
  <2> SUFFICES ASSUME Translating, [Next]_vars, part' = "sse" PROVE SseInv'
    OBVIOUS
  <2>1. part = "sse" /\ [Sse!Next]_(Sse!vars)
    BY PartStep
  <2> QED
    BY <2>1, SseNextKept, ServingAssumption
<1>3. Translating => TranslationFaithful
  <2>1. MaxParts \in Nat /\ MaxEvents \in Nat
    BY ServingAssumption DEF Sse!SseAssumption
  <2> QED
    BY <2>1, SseSound DEF TranslationFaithful
<1> QED
  BY <1>1, <1>2, <1>3, PTL DEF Spec

\* No step takes back what a client has: a listing that has answered with models answers no
\* error later (DiscoveryRuntime::models), a leaf is valid when it is returned and a fresh
\* one stays in the cache (certified_key_for_at), a shutdown ends no session in the middle
\* of a request (graceful_shutdown).
THEOREM NothingIsTakenBack == Spec => NothingTakenBack
<1> DEFINE Seen == /\ part = "models" => Models!OnceListedStaysListed
                   /\ part = "leaf" => Leaf!ReturnsValid /\ Leaf!FreshKept
                   /\ part = "connect" => Connect!EndsIdle
<1>1. ServingInv /\ [Next]_vars => [Seen]_<<modelVars, leafVars, connectVars>>
  BY ServingStep
<1> QED
  BY ServingInvariant, <1>1, PTL DEF Spec, NothingTakenBack
=============================================================================
