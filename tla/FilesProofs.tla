----------------------------- MODULE FilesProofs -----------------------------
(***************************************************************************)
(* The components of Files keep their invariants for every value of the    *)
(* constants.  An instance with a parameter is the component in a setting; *)
(* what is proved of it for every setting k that satisfies the component's *)
(* assumption is used for the settings of Files.                           *)
(***************************************************************************)
EXTENDS Files, NaturalsInduction, SequenceTheorems, WellFoundedInduction, TLAPS

-----------------------------------------------------------------------------
(* Which component moves. *)

\* A step leaves `part` and moves at most the component it names.
LEMMA PartStep ==
    ASSUME [Next]_vars
    PROVE  /\ part' = part
           /\ part = "rotation" => [Store(Rotation)!Next]_(Store(Rotation)!vars)
           /\ part = "crashing" => [Store(Crashing)!Next]_(Store(Crashing)!vars)
           /\ part = "token" => [Token!Next]_(Token!vars)
           /\ part = "locked" => [Config(Locked)!Next]_(Config(Locked)!vars)
           /\ part = "outside" => [Config(Outside)!Next]_(Config(Outside)!vars)
           /\ part = "agent" => [Agent!Next]_(Agent!vars)
           /\ part = "authority" => [Ca(Authority)!Next]_(Ca(Authority)!vars)
           /\ part = "renewal" => [Ca(Renewal)!Next]_(Ca(Renewal)!vars)
<1>1. CASE UNCHANGED vars
  <2>1. UNCHANGED <<part, storeVars, tokenVars, configVars, agentVars, caVars>>
    BY <1>1 DEF vars
  <2>2. UNCHANGED Store(Rotation)!vars /\ UNCHANGED Store(Crashing)!vars
    BY <2>1 DEF storeVars, Store!vars
  <2>3. UNCHANGED Token!vars
    BY <2>1 DEF tokenVars, Token!vars
  <2>4. UNCHANGED Config(Locked)!vars /\ UNCHANGED Config(Outside)!vars
    BY <2>1 DEF configVars, Config!vars
  <2>5. UNCHANGED Agent!vars
    BY <2>1 DEF agentVars, Agent!vars, Agent!disk, Agent!user
  <2>6. UNCHANGED Ca(Authority)!vars /\ UNCHANGED Ca(Renewal)!vars
    BY <2>1 DEF caVars, Ca!vars
  <2> QED
    BY <2>1, <2>2, <2>3, <2>4, <2>5, <2>6
<1>2. CASE Next
  BY <1>2, Zenon DEF Next
<1> QED
  BY <1>1, <1>2

-----------------------------------------------------------------------------
(* The authority (ProxyCa). *)

CaProcs(k) == k.loaders \cup k.regenerate

\* Calls that come one after another: one process at a time is in the call.
OneCalls(k) ==
    \A p, q \in CaProcs(k) :
        caStep[p] \in Ca(k)!Inside /\ caStep[q] \in Ca(k)!Inside => p = q

\* The certificate is written before the key, and nobody writes either once there is a
\* whole key: what a process has read or made stays what the files hold.
AuthorityFiles(k) ==
    /\ crt = NoFile => key = NoFile
    /\ key \in CaProcs(k) => crt = key
    /\ bundle \in {NoFile, Torn} \/ (key \in CaProcs(k) /\ bundle = crt)

AuthorityProc(k, p) ==
    /\ caStep[p] = "lookkey" => crt # NoFile
    /\ caStep[p] \in {"readcrt", "readkey"} => key # NoFile
    /\ caStep[p] = "readkey" => ca[p].crt = crt
    /\ caStep[p] \in {"truncate", "write", "truncatekey"} => key = NoFile
    /\ caStep[p] \in {"truncatekey", "writekey"} => crt = p
    /\ caStep[p] = "writekey" => key = Torn
    /\ caStep[p] \in {"bundle", "writebundle", "loaded"} =>
          key \in CaProcs(k) /\ ca[p].key = key /\ ca[p].crt = crt
    /\ caStep[p] = "failed" =>
          key = Torn /\ \A q \in CaProcs(k) : caStep[q] # "writekey"

AuthorityInv(k) ==
    /\ Ca(k)!TypeOK /\ OneCalls(k) /\ AuthorityFiles(k)
    /\ \A p \in CaProcs(k) : AuthorityProc(k, p)

LEMMA CaTypeInit ==
    ASSUME NEW CONSTANT k, Ca(k)!CaAssumption, Ca(k)!Init
    PROVE  Ca(k)!TypeOK /\ OneCalls(k)
<1>1. Ca(k)!TypeOK
  BY DEF Ca!Init, Ca!TypeOK, Ca!CaAssumption, Ca!Contents, Ca!Procs, Ca!Inside
<1>2. OneCalls(k)
  BY DEF Ca!Init, OneCalls, Ca!Inside, Ca!Procs, CaProcs
<1> QED
  BY <1>1, <1>2

\* What a step of process p does to the places of the processes.
LEMMA CaTypeStep ==
    ASSUME NEW CONSTANT k, Ca(k)!CaAssumption, ~k.overlap, Ca(k)!TypeOK, OneCalls(k),
           [Ca(k)!Next]_(Ca(k)!vars)
    PROVE  Ca(k)!TypeOK' /\ OneCalls(k)'
<1>0. Ca(k)!Procs = CaProcs(k)
  BY DEF Ca!Procs, CaProcs
<1>1. Ca(k)!TypeOK'
  <2>1. ASSUME NEW p \in Ca(k)!Procs,
               Ca(k)!Start(p) \/ Ca(k)!Look(p) \/ Ca(k)!LookKey(p) \/ Ca(k)!NoBundle(p)
        PROVE  Ca(k)!TypeOK'
    BY <2>1 DEF Ca!TypeOK, Ca!Start, Ca!Look, Ca!LookKey, Ca!NoBundle, Ca!Goto, Ca!Inside
  <2>2. ASSUME NEW p \in Ca(k)!Procs, Ca(k)!ReadCrt(p) PROVE Ca(k)!TypeOK'
    BY <2>2 DEF Ca!TypeOK, Ca!ReadCrt, Ca!Goto, Ca!Inside
  <2>3. ASSUME NEW p \in Ca(k)!Procs, Ca(k)!ReadKey(p) PROVE Ca(k)!TypeOK'
    BY <2>3 DEF Ca!TypeOK, Ca!ReadKey, Ca!Goto, Ca!Inside
  <2>4. ASSUME NEW p \in Ca(k)!Procs, Ca(k)!WriteCrt(p) PROVE Ca(k)!TypeOK'
    BY <2>4 DEF Ca!TypeOK, Ca!WriteCrt, Ca!Goto, Ca!Inside, Ca!Contents
  <2>5. ASSUME NEW p \in Ca(k)!Procs, Ca(k)!WriteKey(p) PROVE Ca(k)!TypeOK'
    BY <2>5 DEF Ca!TypeOK, Ca!WriteKey, Ca!Goto, Ca!Inside, Ca!Contents
  <2>6. ASSUME NEW p \in Ca(k)!Procs, Ca(k)!EnsureBundle(p) PROVE Ca(k)!TypeOK'
    BY <2>6 DEF Ca!TypeOK, Ca!EnsureBundle, Ca!Goto, Ca!Inside, Ca!Contents
  <2>7. ASSUME NEW p \in Ca(k)!Procs, Ca(k)!Die(p) PROVE Ca(k)!TypeOK'
    BY <2>7 DEF Ca!TypeOK, Ca!Die, Ca!Goto, Ca!Inside, Ca!CaAssumption
  <2>8. CASE UNCHANGED Ca(k)!vars
    BY <2>8 DEF Ca!TypeOK, Ca!vars
  <2> QED
    BY <2>1, <2>2, <2>3, <2>4, <2>5, <2>6, <2>7, <2>8 DEF Ca!Next, Ca!Ended
<1>2. OneCalls(k)'
  <2>1. ASSUME NEW p \in CaProcs(k), NEW l, caStep' = [caStep EXCEPT ![p] = l],
               caStep[p] \in Ca(k)!Inside
                 \/ \A q \in CaProcs(k) : caStep[q] \notin Ca(k)!Inside
        PROVE  OneCalls(k)'
    <3>1. \A q \in CaProcs(k) : q # p => caStep'[q] = caStep[q]
      BY <2>1, <1>0 DEF Ca!TypeOK
    <3> QED
      BY <2>1, <3>1 DEF OneCalls
  <2>2. ASSUME NEW p \in CaProcs(k), Ca(k)!Start(p) PROVE OneCalls(k)'
    BY <1>0, <2>1, <2>2 DEF Ca!Start, Ca!Goto
  <2>3. ASSUME NEW p \in CaProcs(k),
               \/ Ca(k)!Look(p) \/ Ca(k)!LookKey(p) \/ Ca(k)!ReadCrt(p) \/ Ca(k)!ReadKey(p)
               \/ Ca(k)!WriteCrt(p) \/ Ca(k)!WriteKey(p) \/ Ca(k)!EnsureBundle(p)
               \/ Ca(k)!NoBundle(p) \/ Ca(k)!Die(p)
        PROVE  OneCalls(k)'
    <3>1. caStep[p] \in Ca(k)!Inside
      BY <2>3 DEF Ca!Look, Ca!LookKey, Ca!ReadCrt, Ca!ReadKey, Ca!WriteCrt, Ca!WriteKey,
         Ca!EnsureBundle, Ca!NoBundle, Ca!Die, Ca!Inside
    <3>2. \E l : caStep' = [caStep EXCEPT ![p] = l]
      BY <2>3, Zenon DEF Ca!Look, Ca!LookKey, Ca!ReadCrt, Ca!ReadKey, Ca!WriteCrt, Ca!WriteKey,
         Ca!EnsureBundle, Ca!NoBundle, Ca!Die, Ca!Goto
    <3> QED
      BY <2>1, <3>1, <3>2
  <2>4. CASE UNCHANGED Ca(k)!vars
    BY <2>4 DEF OneCalls, Ca!vars
  <2> QED
    BY <1>0, <2>2, <2>3, <2>4 DEF Ca!Next, Ca!Ended
<1> QED
  BY <1>1, <1>2

LEMMA AuthorityInit ==
    ASSUME NEW CONSTANT k, Ca(k)!CaAssumption, Ca(k)!Init
    PROVE  AuthorityInv(k)
<1>1. Ca(k)!TypeOK /\ OneCalls(k)
  BY CaTypeInit
<1>2. AuthorityFiles(k) /\ \A p \in CaProcs(k) : AuthorityProc(k, p)
  BY DEF Ca!Init, AuthorityFiles, AuthorityProc, Ca!CaAssumption, Ca!Procs, CaProcs
<1> QED
  BY <1>1, <1>2 DEF AuthorityInv

\* Only the process inside the call changes the files, and those outside it look at them
\* only once there is a whole key, or a key that nobody will finish.
LEMMA AuthorityStep ==
    ASSUME NEW CONSTANT k, Ca(k)!CaAssumption, ~k.overlap, k.regenerate = {},
           AuthorityInv(k), [Ca(k)!Next]_(Ca(k)!vars)
    PROVE  AuthorityInv(k)'
<1> USE DEF CaProcs
<1>0. /\ Ca(k)!TypeOK' /\ OneCalls(k)'
      /\ Ca(k)!Procs = CaProcs(k) /\ CaProcs(k) = k.loaders
      /\ NoFile \notin CaProcs(k) /\ Torn \notin CaProcs(k) /\ NoFile # Torn
  BY CaTypeStep DEF AuthorityInv, Ca!CaAssumption, Ca!Procs
<1>1. ASSUME NEW p \in CaProcs(k), NEW q \in CaProcs(k), q # p,
             caStep[p] \in Ca(k)!Inside
      PROVE  caStep[q] \notin Ca(k)!Inside
  BY <1>1 DEF AuthorityInv, OneCalls
<1>2. /\ caStep \in [CaProcs(k) -> Ca(k)!Inside \cup {"new", "loaded", "failed", "dead"}]
      /\ ca \in [CaProcs(k) -> [crt : Ca(k)!Contents, key : {NoFile} \cup CaProcs(k)]]
      /\ key \in {NoFile, Torn} \cup CaProcs(k)
  BY <1>0 DEF AuthorityInv, Ca!TypeOK, Ca!Contents
<1>3. AuthorityFiles(k) /\ \A p \in CaProcs(k) : AuthorityProc(k, p)
  BY DEF AuthorityInv
<1>4. ASSUME NEW p \in CaProcs(k), NEW q \in CaProcs(k), q # p, caStep[p] \in Ca(k)!Inside
      PROVE  caStep[q] \in {"new", "loaded", "failed", "dead"}
  BY <1>1, <1>2, <1>4
<1>5. ASSUME NEW p \in CaProcs(k), Ca(k)!Start(p) \/ Ca(k)!Look(p) \/ Ca(k)!LookKey(p)
      PROVE  AuthorityFiles(k)' /\ \A q \in CaProcs(k) : AuthorityProc(k, q)'
  <2>1. /\ UNCHANGED <<crt, key, ca, bundle>>
        /\ \E l : caStep' = [caStep EXCEPT ![p] = l]
        /\ caStep'[p] \in {"look", "lookkey", "readcrt", "truncate"}
        /\ caStep'[p] = "lookkey" => crt # NoFile
        /\ caStep'[p] = "readcrt" => key # NoFile
        /\ caStep'[p] = "truncate" => key = NoFile
    BY <1>0, <1>2, <1>3, <1>5 DEF Ca!Start, Ca!Look, Ca!LookKey, Ca!Goto, AuthorityFiles
  <2>2. \A q \in CaProcs(k) : q # p => caStep'[q] = caStep[q]
    BY <1>2, <2>1
  <2>3. AuthorityFiles(k)'
    BY <1>3, <2>1 DEF AuthorityFiles
  <2>4. AuthorityProc(k, p)'
    BY <2>1 DEF AuthorityProc
  <2>5. ASSUME NEW q \in CaProcs(k), q # p PROVE AuthorityProc(k, q)'
    <3>1. AuthorityProc(k, q)
      BY <1>3
    <3> QED
      BY <2>1, <2>2, <2>5, <3>1 DEF AuthorityProc
  <2> QED
    BY <2>3, <2>4, <2>5
<1>6. ASSUME NEW p \in CaProcs(k),
             \/ Ca(k)!ReadCrt(p) \/ Ca(k)!ReadKey(p) \/ Ca(k)!EnsureBundle(p)
             \/ Ca(k)!NoBundle(p) \/ Ca(k)!Die(p)
      PROVE  AuthorityFiles(k)' /\ \A q \in CaProcs(k) : AuthorityProc(k, q)'
  <2>1. UNCHANGED <<crt, key>>
    BY <1>6 DEF Ca!ReadCrt, Ca!ReadKey, Ca!EnsureBundle, Ca!NoBundle, Ca!Die
  <2>2. \A q \in CaProcs(k) : q # p => caStep'[q] = caStep[q] /\ ca'[q] = ca[q]
    BY <1>2, <1>6 DEF Ca!ReadCrt, Ca!ReadKey, Ca!EnsureBundle, Ca!NoBundle, Ca!Die, Ca!Goto
  <2>0. caStep'[p] # "writekey" /\ caStep[p] \in Ca(k)!Inside
    BY <1>2, <1>6 DEF Ca!ReadCrt, Ca!ReadKey, Ca!EnsureBundle, Ca!NoBundle, Ca!Die, Ca!Goto,
       Ca!Inside
  <2>3. ASSUME NEW q \in CaProcs(k), q # p PROVE AuthorityProc(k, q)'
    <3>1. AuthorityProc(k, q)
      BY <1>3
    <3> QED
      BY <2>0, <2>1, <2>2, <2>3, <3>1 DEF AuthorityProc
  <2>4. AuthorityProc(k, p)
    BY <1>3
  <2>5. AuthorityFiles(k)
    BY <1>3
  <2>6. CASE Ca(k)!ReadCrt(p)
    <3>1. /\ caStep[p] = "readcrt" /\ caStep'[p] = "readkey" /\ ca'[p].crt = crt
          /\ bundle' = bundle
      BY <1>2, <2>6 DEF Ca!ReadCrt, Ca!Goto
    <3> QED
      BY <2>1, <2>3, <2>4, <2>5, <3>1 DEF AuthorityFiles, AuthorityProc
  <2>7. CASE Ca(k)!ReadKey(p)
    <3>1. /\ caStep[p] = "readkey" /\ bundle' = bundle
          /\ \/ /\ key \in CaProcs(k) /\ caStep'[p] = "bundle"
                /\ ca'[p].key = key /\ ca'[p].crt = ca[p].crt
             \/ key \notin CaProcs(k) /\ caStep'[p] = "failed"
      BY <1>0, <1>2, <2>7 DEF Ca!ReadKey, Ca!Goto
    <3>2. \A q \in CaProcs(k) : caStep'[q] # "writekey"
      BY <1>4, <2>0, <2>2
    <3>3. AuthorityProc(k, p)'
      BY <1>0, <1>2, <2>1, <2>4, <2>5, <3>1, <3>2 DEF AuthorityFiles, AuthorityProc
    <3> QED
      BY <2>1, <2>3, <2>5, <3>1, <3>3 DEF AuthorityFiles
  <2>8. CASE Ca(k)!EnsureBundle(p) \/ Ca(k)!NoBundle(p)
    <3>1. /\ caStep[p] \in {"bundle", "writebundle"} /\ caStep'[p] \in {"writebundle", "loaded"}
          /\ bundle' \in {bundle, Torn, ca[p].crt} /\ ca' = ca
      BY <1>2, <2>8 DEF Ca!EnsureBundle, Ca!NoBundle, Ca!Goto
    <3>2. AuthorityProc(k, p)'
      BY <2>1, <2>4, <3>1 DEF AuthorityProc
    <3>3. key \in CaProcs(k) /\ ca[p].crt = crt
      BY <2>4, <3>1 DEF AuthorityProc
    <3>4. AuthorityFiles(k)'
      BY <2>1, <2>5, <3>1, <3>3 DEF AuthorityFiles
    <3> QED
      BY <2>3, <3>2, <3>4
  <2>9. CASE Ca(k)!Die(p)
    <3>1. caStep'[p] = "dead" /\ bundle' = bundle
      BY <1>2, <2>9 DEF Ca!Die, Ca!Goto
    <3> QED
      BY <2>1, <2>3, <2>5, <3>1 DEF AuthorityFiles, AuthorityProc
  <2> QED
    BY <1>6, <2>6, <2>7, <2>8, <2>9
<1>7. ASSUME NEW p \in CaProcs(k), Ca(k)!WriteCrt(p) \/ Ca(k)!WriteKey(p)
      PROVE  AuthorityFiles(k)' /\ \A q \in CaProcs(k) : AuthorityProc(k, q)'
  <2>1. /\ bundle' = bundle
        /\ \/ /\ caStep[p] = "truncate" /\ caStep'[p] = "write"
              /\ crt' = Torn /\ key' = key /\ ca' = ca
           \/ /\ caStep[p] = "write" /\ caStep'[p] = "truncatekey"
              /\ crt' = p /\ key' = key /\ ca' = ca
           \/ /\ caStep[p] = "truncatekey" /\ caStep'[p] = "writekey"
              /\ crt' = crt /\ key' = Torn /\ ca' = ca
           \/ /\ caStep[p] = "writekey" /\ caStep'[p] = "bundle"
              /\ crt' = crt /\ key' = p /\ ca'[p] = [crt |-> p, key |-> p]
    BY <1>2, <1>7 DEF Ca!WriteCrt, Ca!WriteKey, Ca!Goto
  <2>2. \A q \in CaProcs(k) : q # p => caStep'[q] = caStep[q] /\ ca'[q] = ca[q]
    BY <1>2, <1>7 DEF Ca!WriteCrt, Ca!WriteKey, Ca!Goto
  <2>3. AuthorityProc(k, p) /\ AuthorityFiles(k)
    BY <1>3
  <2>4. caStep[p] \in Ca(k)!Inside
    BY <2>1 DEF Ca!Inside
  <2>5. key = NoFile \/ (key = Torn /\ caStep[p] = "writekey")
    BY <2>1, <2>3 DEF AuthorityProc
  <2>6. AuthorityFiles(k)'
    BY <1>0, <2>1, <2>3, <2>5 DEF AuthorityFiles, AuthorityProc
  <2>7. AuthorityProc(k, p)'
    BY <1>0, <2>1, <2>3, <2>5 DEF AuthorityProc
  <2>8. ASSUME NEW q \in CaProcs(k), q # p PROVE AuthorityProc(k, q)'
    <3>1. caStep[q] \in {"new", "loaded", "failed", "dead"}
      BY <1>4, <2>4, <2>8
    <3>2. AuthorityProc(k, q)
      BY <1>3
    <3>3. caStep[q] # "loaded"
      BY <1>0, <2>5, <3>2 DEF AuthorityProc
    <3>4. caStep[q] # "failed"
      BY <1>0, <2>5, <3>2 DEF AuthorityProc
    <3> QED
      BY <2>2, <2>8, <3>1, <3>3, <3>4 DEF AuthorityProc
  <2> QED
    BY <2>6, <2>7, <2>8
<1>8. ASSUME UNCHANGED Ca(k)!vars
      PROVE  AuthorityFiles(k)' /\ \A q \in CaProcs(k) : AuthorityProc(k, q)'
  <2>1. UNCHANGED <<crt, key, caStep, ca, bundle>>
    BY <1>8 DEF Ca!vars
  <2>2. AuthorityFiles(k)'
    BY <1>3, <2>1 DEF AuthorityFiles
  <2>3. ASSUME NEW q \in CaProcs(k) PROVE AuthorityProc(k, q)'
    <3>1. AuthorityProc(k, q)
      BY <1>3
    <3> QED
      BY <2>1, <3>1 DEF AuthorityProc
  <2> QED
    BY <2>2, <2>3
<1>9. AuthorityFiles(k)' /\ \A q \in CaProcs(k) : AuthorityProc(k, q)'
  <2>1. CASE Ca(k)!Ended
    BY <1>8, <2>1 DEF Ca!Ended
  <2>2. CASE \E p \in CaProcs(k) :
               \/ Ca(k)!Start(p) \/ Ca(k)!Look(p) \/ Ca(k)!LookKey(p) \/ Ca(k)!ReadCrt(p)
               \/ Ca(k)!ReadKey(p) \/ Ca(k)!WriteCrt(p) \/ Ca(k)!WriteKey(p)
               \/ Ca(k)!EnsureBundle(p) \/ Ca(k)!NoBundle(p) \/ Ca(k)!Die(p)
    BY <1>5, <1>6, <1>7, <2>2
  <2> QED
    BY <1>0, <1>8, <2>1, <2>2 DEF Ca!Next
<1> QED
  BY <1>0, <1>9 DEF AuthorityInv

\* Nobody dies and one regenerates: the two files are of one process, or missing both,
\* except while a process is between writing the one and the other.
Writing == {"write", "truncatekey", "writekey"}

RenewalInv(k) ==
    /\ Ca(k)!TypeOK /\ OneCalls(k)
    /\ (\A p \in CaProcs(k) : caStep[p] \notin Writing) =>
          crt = key /\ crt \in CaProcs(k) \cup {NoFile}
    /\ \A p \in CaProcs(k) :
          /\ caStep[p] = "readcrt" => key # NoFile
          /\ caStep[p] = "readkey" => ca[p].crt = crt
          /\ caStep[p] \in {"truncatekey", "writekey"} => crt = p
          /\ caStep[p] \in {"bundle", "writebundle", "loaded"} => ca[p].crt = ca[p].key

LEMMA RenewalInit ==
    ASSUME NEW CONSTANT k, Ca(k)!CaAssumption, Ca(k)!Init
    PROVE  RenewalInv(k)
<1>1. Ca(k)!TypeOK /\ OneCalls(k)
  BY CaTypeInit
<1> QED
  BY <1>1 DEF RenewalInv, Ca!Init, Ca!Procs, CaProcs, Writing

LEMMA RenewalStep ==
    ASSUME NEW CONSTANT k, Ca(k)!CaAssumption, ~k.overlap, k.maxDeaths = 0,
           RenewalInv(k), [Ca(k)!Next]_(Ca(k)!vars)
    PROVE  RenewalInv(k)'
<1> DEFINE P == CaProcs(k)
           Proc(q) == /\ caStep[q] = "readcrt" => key # NoFile
                      /\ caStep[q] = "readkey" => ca[q].crt = crt
                      /\ caStep[q] \in {"truncatekey", "writekey"} => crt = q
                      /\ caStep[q] \in {"bundle", "writebundle", "loaded"} => ca[q].crt = ca[q].key
           Settled == (\A q \in P : caStep[q] \notin Writing) => crt = key /\ crt \in P \cup {NoFile}
<1>0. /\ Ca(k)!TypeOK' /\ OneCalls(k)' /\ Ca(k)!Procs = P
      /\ NoFile \notin P
  BY CaTypeStep DEF RenewalInv, Ca!CaAssumption, Ca!Procs, CaProcs
<1>1. /\ caStep \in [P -> Ca(k)!Inside \cup {"new", "loaded", "failed", "dead"}]
      /\ ca \in [P -> [crt : Ca(k)!Contents, key : {NoFile} \cup P]]
  BY <1>0 DEF RenewalInv, Ca!TypeOK
<1>2. ASSUME NEW p \in P, NEW q \in P, q # p, caStep[p] \in Ca(k)!Inside
      PROVE  caStep[q] \in {"new", "loaded", "failed", "dead"}
  BY <1>1, <1>2 DEF RenewalInv, OneCalls
<1>3. Settled /\ \A q \in P : Proc(q)
  BY DEF RenewalInv
<1>4. ASSUME NEW p \in P, caStep[p] \in Ca(k)!Inside, caStep[p] \notin Writing
      PROVE  crt = key /\ crt \in P \cup {NoFile}
  <2>1. \A q \in P : caStep[q] \notin Writing
    <3>1. ASSUME NEW q \in P, q # p PROVE caStep[q] \notin Writing
      BY <1>2, <1>4, <3>1 DEF Writing
    <3> QED
      BY <1>4, <3>1
  <2> QED
    BY <1>3, <2>1
<1>5. ASSUME NEW p \in P, Ca(k)!Start(p) \/ Ca(k)!Look(p) \/ Ca(k)!LookKey(p)
      PROVE  Settled' /\ \A q \in P : Proc(q)'
  <2>1. /\ UNCHANGED <<crt, key, ca>>
        /\ caStep[p] \in {"new", "look", "lookkey"}
        /\ caStep'[p] \in {"look", "lookkey", "readcrt", "truncate"}
        /\ caStep'[p] = "readcrt" => key # NoFile
    BY <1>1, <1>5 DEF Ca!Start, Ca!Look, Ca!LookKey, Ca!Goto
  <2>2. \A q \in P : q # p => caStep'[q] = caStep[q]
    BY <1>1, <1>5 DEF Ca!Start, Ca!Look, Ca!LookKey, Ca!Goto
  <2>3. Settled'
    BY <1>3, <2>1, <2>2 DEF Writing
  <2>4. ASSUME NEW q \in P PROVE Proc(q)'
    <3>1. Proc(q)
      BY <1>3
    <3> QED
      BY <2>1, <2>2, <3>1
  <2> QED
    BY <2>3, <2>4
<1>6. ASSUME NEW p \in P, \/ Ca(k)!ReadCrt(p) \/ Ca(k)!ReadKey(p)
                          \/ Ca(k)!EnsureBundle(p) \/ Ca(k)!NoBundle(p)
      PROVE  Settled' /\ \A q \in P : Proc(q)'
  <2>1. /\ UNCHANGED <<crt, key>> /\ caStep[p] \in Ca(k)!Inside
        /\ caStep[p] \notin Writing /\ caStep'[p] \notin Writing
    BY <1>1, <1>6 DEF Ca!ReadCrt, Ca!ReadKey, Ca!EnsureBundle, Ca!NoBundle, Ca!Goto, Ca!Inside,
       Writing
  <2>2. \A q \in P : q # p => caStep'[q] = caStep[q] /\ ca'[q] = ca[q]
    BY <1>1, <1>6 DEF Ca!ReadCrt, Ca!ReadKey, Ca!EnsureBundle, Ca!NoBundle, Ca!Goto
  <2>3. crt = key /\ crt \in P \cup {NoFile}
    BY <1>4, <2>1
  <2>4. Settled'
    BY <2>1, <2>3
  <2>5. Proc(p)
    BY <1>3
  <2>7. Proc(p)'
    <3>1. CASE Ca(k)!ReadCrt(p)
      <4>1. caStep'[p] = "readkey" /\ ca'[p].crt = crt
        BY <1>1, <3>1 DEF Ca!ReadCrt, Ca!Goto
      <4> QED
        BY <2>1, <4>1
    <3>2. CASE Ca(k)!ReadKey(p)
      <4>1. /\ caStep[p] = "readkey"
            /\ \/ caStep'[p] = "bundle" /\ ca'[p].key = key /\ ca'[p].crt = ca[p].crt
               \/ caStep'[p] = "failed"
        BY <1>1, <3>2 DEF Ca!ReadKey, Ca!Goto
      <4> QED
        BY <2>1, <2>3, <2>5, <4>1
    <3>3. CASE Ca(k)!EnsureBundle(p) \/ Ca(k)!NoBundle(p)
      <4>1. /\ caStep[p] \in {"bundle", "writebundle"} /\ caStep'[p] \in {"writebundle", "loaded"}
            /\ ca' = ca
        BY <1>1, <3>3 DEF Ca!EnsureBundle, Ca!NoBundle, Ca!Goto
      <4> QED
        BY <2>1, <2>5, <4>1
    <3> QED
      BY <1>6, <3>1, <3>2, <3>3
  <2>8. ASSUME NEW q \in P, q # p PROVE Proc(q)'
    <3>1. Proc(q)
      BY <1>3
    <3> QED
      BY <2>1, <2>2, <2>8, <3>1
  <2> QED
    BY <2>4, <2>7, <2>8
<1>7. ASSUME NEW p \in P, Ca(k)!WriteCrt(p) \/ Ca(k)!WriteKey(p)
      PROVE  Settled' /\ \A q \in P : Proc(q)'
  <2>1. \/ /\ caStep[p] = "truncate" /\ caStep'[p] = "write"
           /\ crt' = Torn /\ key' = key /\ ca' = ca
        \/ /\ caStep[p] = "write" /\ caStep'[p] = "truncatekey"
           /\ crt' = p /\ key' = key /\ ca' = ca
        \/ /\ caStep[p] = "truncatekey" /\ caStep'[p] = "writekey"
           /\ crt' = crt /\ key' = Torn /\ ca' = ca
        \/ /\ caStep[p] = "writekey" /\ caStep'[p] = "bundle"
           /\ crt' = crt /\ key' = p /\ ca'[p] = [crt |-> p, key |-> p]
    BY <1>1, <1>7 DEF Ca!WriteCrt, Ca!WriteKey, Ca!Goto
  <2>2. \A q \in P : q # p => caStep'[q] = caStep[q] /\ ca'[q] = ca[q]
    BY <1>1, <1>7 DEF Ca!WriteCrt, Ca!WriteKey, Ca!Goto
  <2>3. caStep[p] \in Ca(k)!Inside
    BY <2>1 DEF Ca!Inside
  <2>4. Proc(p)
    BY <1>3
  <2>5. Settled'
    BY <2>1, <2>4 DEF Writing
  <2>6. Proc(p)'
    BY <2>1, <2>4
  <2>7. ASSUME NEW q \in P, q # p PROVE Proc(q)'
    <3>1. caStep[q] \in {"new", "loaded", "failed", "dead"}
      BY <1>2, <2>3, <2>7
    <3>2. Proc(q)
      BY <1>3
    <3> QED
      BY <2>2, <2>7, <3>1, <3>2
  <2> QED
    BY <2>5, <2>6, <2>7
<1>8. ASSUME UNCHANGED Ca(k)!vars
      PROVE  Settled' /\ \A q \in P : Proc(q)'
  <2>1. UNCHANGED <<crt, key, caStep, ca>>
    BY <1>8 DEF Ca!vars
  <2> QED
    BY <1>3, <2>1
<1>9. \A p \in P : ~Ca(k)!Die(p)
  BY DEF Ca!Die, RenewalInv, Ca!TypeOK
<1>10. Settled' /\ \A q \in P : Proc(q)'
  <2>1. CASE Ca(k)!Ended
    BY <1>8, <2>1 DEF Ca!Ended
  <2>2. CASE \E p \in P :
               \/ Ca(k)!Start(p) \/ Ca(k)!Look(p) \/ Ca(k)!LookKey(p) \/ Ca(k)!ReadCrt(p)
               \/ Ca(k)!ReadKey(p) \/ Ca(k)!WriteCrt(p) \/ Ca(k)!WriteKey(p)
               \/ Ca(k)!EnsureBundle(p) \/ Ca(k)!NoBundle(p) \/ Ca(k)!Die(p)
    <3> HIDE DEF Settled, Proc, P
    <3> QED
      BY <1>5, <1>6, <1>7, <1>9, <2>2
  <2> QED
    BY <1>0, <1>8, <2>1, <2>2 DEF Ca!Next
<1> QED
  BY <1>0, <1>10 DEF RenewalInv

(***************************************************************************)
(* The authority's processes agree, whoever they are and however many:     *)
(* while nobody regenerates it, what one of them signs verifies under      *)
(* every other's certificate, under the file and the bundle, wherever      *)
(* earlier ones died, and only a death in the middle of writing the key    *)
(* file leaves a start that fails; and a pair that was loaded belongs      *)
(* together before and after a regeneration.                               *)
(***************************************************************************)
THEOREM AuthorityIsAgreed == Spec => []AuthorityAgreed
<1> DEFINE I == /\ part = "authority" => AuthorityInv(Authority)
                /\ part = "renewal" => RenewalInv(Renewal)
<1>1. Init => I
  BY FilesAssumption, AuthorityInit, RenewalInit DEF Init
<1>2. I /\ [Next]_vars => I'
  <2> SUFFICES ASSUME I, [Next]_vars PROVE I'
    OBVIOUS
  <2>1. /\ part' = part
        /\ part = "authority" => [Ca(Authority)!Next]_(Ca(Authority)!vars)
        /\ part = "renewal" => [Ca(Renewal)!Next]_(Ca(Renewal)!vars)
    BY PartStep
  <2>2. ASSUME part = "authority" PROVE AuthorityInv(Authority)'
    BY <2>1, <2>2, FilesAssumption, AuthorityStep
  <2>3. ASSUME part = "renewal" PROVE RenewalInv(Renewal)'
    BY <2>1, <2>3, FilesAssumption, RenewalStep
  <2> QED
    BY <2>1, <2>2, <2>3
<1>3. I => AuthorityAgreed
  <2>1. ASSUME AuthorityInv(Authority)
        PROVE  Ca(Authority)!TypeOK /\ Ca(Authority)!OneAuthority /\ Ca(Authority)!DeathRepaired
    BY <2>1 DEF AuthorityInv, AuthorityFiles, AuthorityProc, CaProcs, Ca!OneAuthority,
       Ca!DeathRepaired
  <2>2. ASSUME RenewalInv(Renewal)
        PROVE  Ca(Renewal)!TypeOK /\ Ca(Renewal)!PairMatches
    BY <2>2 DEF RenewalInv, CaProcs, Ca!PairMatches, Ca!Procs
  <2> QED
    BY <2>1, <2>2 DEF AuthorityAgreed
<1> QED
  BY <1>1, <1>2, <1>3, PTL DEF Spec

-----------------------------------------------------------------------------
(* The configuration (ConfigEdit). *)

CfgWriters(k) == Config(k)!Writers
Holding == {"recheck", "read", "verify", "commit"}
Entered == {"read", "verify", "commit"}

\* The system's lock: a holder has a lock file of its own, and one that got past the
\* second comparison has the file at the lock path, which is not removed under it.
FlockInv(k) ==
    /\ \A w \in CfgWriters(k) :
          /\ w \in flock <=> step[w] \in Holding
          /\ step[w] \in Holding \cup {"check", "lock"} => opened[w] # 0
          /\ step[w] \in Entered => opened[w] = linked
    /\ \A v, w \in flock : opened[v] = opened[w] => v = w

\* What a writer has staged has all the edits of the document, but those that came from
\* outside since it looked; and it was made from the preimage that it compares.
StageInv(k) ==
    \A w \in CfgWriters(k) :
        /\ w \in k.inits /\ step[w] \notin {"start", "failed"} => seen[w].schema = "none"
        /\ step[w] = "verify" => w \in Config(k)!Checking /\ seen[w].edits \subseteq staged[w].edits
        /\ step[w] \in {"verify", "commit"} => doc.edits \subseteq staged[w].edits \cup after[w]

\* Where nobody writes without the lock, it is the document and the edit, of its schema.
ExactInv(k) ==
    /\ doc.edits = applied
    /\ \A w \in CfgWriters(k) : step[w] \in {"verify", "commit"} =>
          /\ staged[w].edits = doc.edits \cup {w}
          /\ doc.schema # "none" => staged[w].schema = doc.schema

ConfigInv(k) ==
    Config(k)!TypeOK /\ FlockInv(k) /\ StageInv(k) /\ (k.externals = {} => ExactInv(k))

\* What a document can be.
LEMMA DocFacts ==
    ASSUME NEW CONSTANT k, NEW d \in Config(k)!Docs
    PROVE  /\ d.schema \in {"none", "legacy", "v2"}
           /\ d.edits \in SUBSET (CfgWriters(k) \cup k.externals)
           /\ d.schema = "none" => d.edits = {}
<1>1. CASE d = Config(k)!Missing
  BY <1>1 DEF Config!Missing
<1>2. CASE d \in [schema : {"legacy", "v2"}, edits : SUBSET (CfgWriters(k) \cup k.externals)]
  BY <1>2
<1> QED
  BY <1>1, <1>2 DEF Config!Docs, CfgWriters

LEMMA MakeDoc ==
    ASSUME NEW CONSTANT k, NEW s \in {"legacy", "v2"},
           NEW E \in SUBSET (CfgWriters(k) \cup k.externals)
    PROVE  [schema |-> s, edits |-> E] \in Config(k)!Docs
BY DEF Config!Docs, CfgWriters

\* The staged document.
LEMMA PostImageFacts ==
    ASSUME NEW CONSTANT k, NEW w \in CfgWriters(k), NEW d \in Config(k)!Docs
    PROVE  /\ Config(k)!PostImage(w, d) \in Config(k)!Docs
           /\ w \notin k.inits =>
                /\ Config(k)!PostImage(w, d).edits = d.edits \cup {w}
                /\ d.schema # "none" => Config(k)!PostImage(w, d).schema = d.schema
           /\ w \in k.inits => Config(k)!PostImage(w, d).edits = {w}
<1>1. /\ d.schema \in {"none", "legacy", "v2"} /\ d.edits \in SUBSET (CfgWriters(k) \cup k.externals)
  BY DocFacts
<1>2. CASE w \in k.inits
  <2>1. Config(k)!PostImage(w, d) = [schema |-> "v2", edits |-> {w}]
    BY <1>2 DEF Config!PostImage
  <2> QED
    BY <1>2, <2>1, MakeDoc
<1>3. CASE w \notin k.inits
  <2>1. PICK s : s = Config(k)!EditSchema(w, d.schema)
    OBVIOUS
  <2>2. s \in {"legacy", "v2"} /\ (d.schema # "none" => s = d.schema)
    BY <1>1, <2>1 DEF Config!EditSchema
  <2>3. Config(k)!PostImage(w, d) = [schema |-> s, edits |-> d.edits \cup {w}]
    BY <1>3, <2>1 DEF Config!PostImage
  <2> QED
    BY <1>1, <1>3, <2>2, <2>3, MakeDoc
<1> QED
  BY <1>2, <1>3

LEMMA ConfigInit ==
    ASSUME NEW CONSTANT k, Config(k)!ConfigAssumption, Config(k)!Init
    PROVE  ConfigInv(k)
<1>1. Config(k)!Missing \in Config(k)!Docs
  BY DEF Config!Docs
<1>2. doc \in Config(k)!Docs
  <2>1. CASE k.schema = "none"
    BY <1>1, <2>1 DEF Config!Init, Config!Missing
  <2>2. CASE k.schema # "none"
    BY <2>2, MakeDoc DEF Config!Init, Config!ConfigAssumption
  <2> QED
    BY <2>1, <2>2
<1>3. /\ seen \in [Config(k)!Writers -> Config(k)!Docs]
      /\ staged \in [Config(k)!Writers -> Config(k)!Docs]
  BY <1>1 DEF Config!Init
<1>4. /\ linked \in 0..k.maxInodes /\ inodes \in 0..k.maxInodes
      /\ opened \in [Config(k)!Writers -> 0..k.maxInodes]
  BY DEF Config!Init, Config!ConfigAssumption
<1>5. /\ flock \subseteq Config(k)!Writers /\ applied \subseteq Config(k)!Writers \cup k.externals
      /\ after \in [Config(k)!Writers -> SUBSET k.externals]
      /\ step \in [Config(k)!Writers -> {"start", "open", "check", "lock", "recheck", "read",
                                          "verify", "commit", "done", "failed"}]
  BY DEF Config!Init
<1>6. Config(k)!TypeOK
  BY <1>2, <1>3, <1>4, <1>5 DEF Config!TypeOK
<1>7. FlockInv(k) /\ StageInv(k) /\ ExactInv(k)
  BY DEF Config!Init, FlockInv, StageInv, ExactInv, CfgWriters, Holding, Entered
<1> QED
  BY <1>6, <1>7 DEF ConfigInv

\* What a step of one writer does to the writers' state: it moves that writer alone.
LEMMA ConfigMoves ==
    ASSUME NEW CONSTANT k, Config(k)!TypeOK,
           NEW w \in CfgWriters(k), Config(k)!Step(w) \/ Config(k)!Die(w)
    PROVE  /\ \A v \in CfgWriters(k) : v # w =>
                /\ step'[v] = step[v] /\ opened'[v] = opened[v] /\ seen'[v] = seen[v]
                /\ staged'[v] = staged[v] /\ after'[v] = after[v] /\ (v \in flock' <=> v \in flock)
           /\ linked' = linked \/ linked = 0
           /\ \/ doc' = doc /\ applied' = applied
              \/ Config(k)!Commit(w) /\ step[w] = "commit" /\ ~Config(k)!Fail(w)
<1> DEFINE W == CfgWriters(k)
           Others == \A v \in W : v # w =>
                /\ step'[v] = step[v] /\ opened'[v] = opened[v] /\ seen'[v] = seen[v]
                /\ staged'[v] = staged[v] /\ after'[v] = after[v] /\ (v \in flock' <=> v \in flock)
           Linked == linked' = linked \/ linked = 0
           Same == doc' = doc /\ applied' = applied
<1>0. /\ DOMAIN step = W /\ step = [v \in W |-> step[v]]
      /\ DOMAIN opened = W /\ opened = [v \in W |-> opened[v]]
      /\ DOMAIN seen = W /\ seen = [v \in W |-> seen[v]]
      /\ DOMAIN staged = W /\ staged = [v \in W |-> staged[v]]
      /\ DOMAIN after = W /\ after = [v \in W |-> after[v]]
  BY DEF Config!TypeOK, CfgWriters
<1>1. ASSUME Config(k)!Fail(w) PROVE Others /\ Linked /\ Same
  BY <1>0, <1>1 DEF Config!Fail, Config!Goto
<1>2. ASSUME Config(k)!Start(w), ~Config(k)!Fail(w) PROVE Others /\ Linked /\ Same
  BY <1>0, <1>2 DEF Config!Start, Config!Goto
<1>3. ASSUME Config(k)!OpenLock(w) PROVE Others /\ Linked /\ Same
  BY <1>0, <1>3 DEF Config!OpenLock, Config!Goto
<1>4. ASSUME Config(k)!ValidateLock(w), ~Config(k)!Fail(w) PROVE Others /\ Linked /\ Same
  BY <1>0, <1>4 DEF Config!ValidateLock, Config!Goto
<1>5. ASSUME Config(k)!TryLock(w), ~Config(k)!Fail(w) PROVE Others /\ Linked /\ Same
  BY <1>0, <1>5 DEF Config!TryLock, Config!Goto
<1>6. ASSUME Config(k)!Read(w), ~Config(k)!Fail(w) PROVE Others /\ Linked /\ Same
  BY <1>0, <1>6 DEF Config!Read, Config!Goto, Config!Looked
<1>7. ASSUME Config(k)!Verify(w), ~Config(k)!Fail(w) PROVE Others /\ Linked /\ Same
  BY <1>0, <1>7 DEF Config!Verify, Config!Goto, Config!Looked
<1>8. ASSUME Config(k)!Commit(w), ~Config(k)!Fail(w) PROVE Others /\ Linked /\ step[w] = "commit"
  <2>1. step[w] = "commit"
    BY <1>8 DEF Config!Commit
  <2> QED
    BY <1>0, <1>8, <2>1 DEF Config!Commit, Config!Goto
<1> QED
  BY <1>1, <1>2, <1>3, <1>4, <1>5, <1>6, <1>7, <1>8, Zenon DEF Config!Step, Config!Die

LEMMA ConfigTypeStep ==
    ASSUME NEW CONSTANT k, Config(k)!ConfigAssumption, Config(k)!TypeOK, Config(k)!Next
    PROVE  Config(k)!TypeOK'
<1> DEFINE W == CfgWriters(k)
           Steps == {"start", "open", "check", "lock", "recheck", "read",
                     "verify", "commit", "done", "failed"}
<1>0. /\ doc \in Config(k)!Docs
      /\ linked \in 0..k.maxInodes /\ inodes \in 0..k.maxInodes
      /\ opened \in [W -> 0..k.maxInodes] /\ flock \subseteq W
      /\ step \in [W -> Steps]
      /\ seen \in [W -> Config(k)!Docs] /\ staged \in [W -> Config(k)!Docs]
      /\ applied \subseteq W \cup k.externals /\ after \in [W -> SUBSET k.externals]
  BY DEF Config!TypeOK, CfgWriters
<1>1. ASSUME NEW w \in W, Config(k)!Fail(w) PROVE Config(k)!TypeOK'
  <2>1. step' \in [W -> Steps] /\ flock' \subseteq W
    BY <1>0, <1>1 DEF Config!Fail, Config!Goto
  <2> QED
    BY <1>0, <1>1, <2>1 DEF Config!Fail, Config!TypeOK, CfgWriters
<1>2. ASSUME NEW w \in W, Config(k)!Start(w) PROVE Config(k)!TypeOK'
  <2>1. CASE Config(k)!Fail(w)
    BY <1>1, <2>1
  <2>2. CASE ~Config(k)!Fail(w)
    <3>1. step' = [step EXCEPT ![w] = "open"]
          /\ seen' = [seen EXCEPT ![w] = IF w \in Config(k)!Checking THEN doc ELSE @]
          /\ UNCHANGED <<doc, linked, inodes, opened, flock, staged, applied, after>>
      BY <1>2, <2>2 DEF Config!Start, Config!Goto
    <3>2. step' \in [W -> Steps]
      BY <1>0, <3>1
    <3>3. seen' \in [W -> Config(k)!Docs]
      BY <1>0, <3>1
    <3> QED
      BY <1>0, <3>1, <3>2, <3>3 DEF Config!TypeOK, CfgWriters
  <2> QED
    BY <2>1, <2>2
<1>3. ASSUME NEW w \in W, Config(k)!OpenLock(w) PROVE Config(k)!TypeOK'
  <2>1. step' \in [W -> Steps]
    BY <1>0, <1>3 DEF Config!OpenLock, Config!Goto
  <2>2. linked' \in 0..k.maxInodes /\ inodes' \in 0..k.maxInodes
    BY <1>0, <1>3 DEF Config!OpenLock, Config!ConfigAssumption
  <2>3. opened' \in [W -> 0..k.maxInodes]
    <3>1. opened' = [opened EXCEPT ![w] = linked']
      BY <1>3 DEF Config!OpenLock
    <3> QED
      BY <1>0, <2>2, <3>1
  <2> QED
    BY <1>0, <1>3, <2>1, <2>2, <2>3 DEF Config!OpenLock, Config!TypeOK, CfgWriters
<1>4. ASSUME NEW w \in W, Config(k)!ValidateLock(w) PROVE Config(k)!TypeOK'
  <2>1. CASE Config(k)!Fail(w)
    BY <1>1, <2>1
  <2>2. CASE ~Config(k)!Fail(w)
    <3>1. step' \in [W -> Steps]
      BY <1>0, <1>4, <2>2 DEF Config!ValidateLock, Config!Goto
    <3> QED
      BY <1>0, <1>4, <2>2, <3>1 DEF Config!ValidateLock, Config!TypeOK, CfgWriters
  <2> QED
    BY <2>1, <2>2
<1>5. ASSUME NEW w \in W, Config(k)!TryLock(w) PROVE Config(k)!TypeOK'
  <2>1. CASE Config(k)!Fail(w)
    BY <1>1, <2>1
  <2>2. CASE ~Config(k)!Fail(w)
    <3>1. step' \in [W -> Steps] /\ flock' \subseteq W
      BY <1>0, <1>5, <2>2 DEF Config!TryLock, Config!Goto
    <3> QED
      BY <1>0, <1>5, <2>2, <3>1 DEF Config!TryLock, Config!TypeOK, CfgWriters
  <2> QED
    BY <2>1, <2>2
<1>6. ASSUME NEW w \in W, Config(k)!Read(w) PROVE Config(k)!TypeOK'
  <2>1. CASE Config(k)!Fail(w)
    BY <1>1, <2>1
  <2>2. CASE ~Config(k)!Fail(w)
    <3>1. PICK d \in Config(k)!Docs : d = Config(k)!Base(w)
      BY <1>0 DEF Config!Base
    <3>2. PICK s \in Config(k)!Docs : s = Config(k)!PostImage(w, d)
      BY PostImageFacts
    <3>3. staged' = [staged EXCEPT ![w] = s] /\ after' = [after EXCEPT ![w] = {}]
      BY <1>6, <2>2, <3>1, <3>2 DEF Config!Read, Config!Looked
    <3>4. staged' \in [W -> Config(k)!Docs]
      BY <1>0, <3>3
    <3>5. after' \in [W -> SUBSET k.externals]
      BY <1>0, <3>3
    <3>6. step' \in [W -> Steps]
      BY <1>0, <1>6, <2>2 DEF Config!Read, Config!Goto
    <3>7. UNCHANGED <<doc, linked, inodes, opened, flock, seen, applied>>
      BY <1>6, <2>2 DEF Config!Read
    <3> QED
      BY <1>0, <3>4, <3>5, <3>6, <3>7 DEF Config!TypeOK, CfgWriters
  <2> QED
    BY <2>1, <2>2
<1>7. ASSUME NEW w \in W, Config(k)!Verify(w) PROVE Config(k)!TypeOK'
  <2>1. CASE Config(k)!Fail(w)
    BY <1>1, <2>1
  <2>2. CASE ~Config(k)!Fail(w)
    <3>1. step' \in [W -> Steps]
      BY <1>0, <1>7, <2>2 DEF Config!Verify, Config!Goto
    <3>2. after' \in [W -> SUBSET k.externals]
      BY <1>0, <1>7, <2>2 DEF Config!Verify, Config!Looked
    <3> QED
      BY <1>0, <1>7, <2>2, <3>1, <3>2 DEF Config!Verify, Config!TypeOK, CfgWriters
  <2> QED
    BY <2>1, <2>2
<1>8. ASSUME NEW w \in W, Config(k)!Commit(w) PROVE Config(k)!TypeOK'
  <2>1. CASE Config(k)!Fail(w)
    BY <1>1, <2>1
  <2>2. CASE ~Config(k)!Fail(w)
    <3>1. step' \in [W -> Steps] /\ flock' \subseteq W
      BY <1>0, <1>8, <2>2 DEF Config!Commit, Config!Goto
    <3>2. doc' \in Config(k)!Docs /\ applied' \subseteq W \cup k.externals
      BY <1>0, <1>8, <2>2 DEF Config!Commit
    <3> QED
      BY <1>0, <1>8, <2>2, <3>1, <3>2 DEF Config!Commit, Config!TypeOK, CfgWriters
  <2> QED
    BY <2>1, <2>2
<1>9. ASSUME NEW e \in k.externals, Config(k)!ExternalWrite(e) PROVE Config(k)!TypeOK'
  <2>1. doc.schema \in {"none", "legacy", "v2"} /\ doc.edits \in SUBSET (W \cup k.externals)
    BY <1>0, DocFacts
  <2>2. PICK s \in {"legacy", "v2"} : s = IF doc.schema = "none" THEN "legacy" ELSE doc.schema
    BY <2>1
  <2>3. doc' = [schema |-> s, edits |-> doc.edits \cup {e}]
    BY <1>9, <2>2 DEF Config!ExternalWrite
  <2>4. doc' \in Config(k)!Docs
    BY <2>1, <2>2, <2>3, MakeDoc
  <2>5. after' = [w \in W |-> after[w] \cup {e}]
    BY <1>9 DEF Config!ExternalWrite, CfgWriters
  <2>6. after' \in [W -> SUBSET k.externals] /\ applied' \subseteq W \cup k.externals
    BY <1>0, <1>9, <2>5 DEF Config!ExternalWrite
  <2> QED
    BY <1>0, <1>9, <2>4, <2>6 DEF Config!ExternalWrite, Config!TypeOK, CfgWriters
<1>10. CASE Config(k)!RemoveLockFile
  <2>1. linked' \in 0..k.maxInodes
    BY <1>10 DEF Config!RemoveLockFile, Config!ConfigAssumption
  <2> QED
    BY <1>0, <1>10, <2>1 DEF Config!RemoveLockFile, Config!TypeOK, CfgWriters
<1>11. CASE Config(k)!Finished
  BY <1>11 DEF Config!Finished, Config!TypeOK, Config!vars
<1> QED
  BY <1>1, <1>2, <1>3, <1>4, <1>5, <1>6, <1>7, <1>8, <1>9, <1>10, <1>11
  DEF Config!Next, Config!Step, Config!Die, CfgWriters

LEMMA FlockStep ==
    ASSUME NEW CONSTANT k, Config(k)!ConfigAssumption, Config(k)!TypeOK, FlockInv(k),
           Config(k)!Next
    PROVE  FlockInv(k)'
<1> DEFINE W == CfgWriters(k)
           Own(w) == /\ w \in flock <=> step[w] \in Holding
                     /\ step[w] \in Holding \cup {"check", "lock"} => opened[w] # 0
                     /\ step[w] \in Entered => opened[w] = linked
           Distinct == \A v, w \in flock : opened[v] = opened[w] => v = w
<1>0. /\ linked \in Nat /\ inodes \in Nat
      /\ DOMAIN opened = W /\ DOMAIN step = W
      /\ flock \subseteq W
      /\ Distinct /\ \A w \in W : Own(w)
  BY DEF Config!TypeOK, Config!ConfigAssumption, CfgWriters, FlockInv
<1>1. ASSUME NEW w \in W, Config(k)!Fail(w) PROVE Distinct' /\ \A v \in W : Own(v)'
  <2>1. step' = [step EXCEPT ![w] = "failed"] /\ flock' = flock \ {w}
        /\ UNCHANGED <<linked, opened>>
    BY <1>1 DEF Config!Fail, Config!Goto
  <2>2. Distinct'
    BY <1>0, <2>1
  <2>3. ASSUME NEW v \in W PROVE Own(v)'
    <3>1. Own(v)
      BY <1>0
    <3>2. CASE v = w
      BY <1>0, <2>1, <3>2 DEF Holding, Entered
    <3>3. CASE v # w
      BY <1>0, <2>1, <3>1, <3>3
    <3> QED
      BY <3>2, <3>3
  <2> QED
    BY <2>2, <2>3
<1>2. ASSUME NEW w \in W, Config(k)!Step(w), ~Config(k)!Fail(w)
      PROVE  Distinct' /\ \A v \in W : Own(v)'
  <2>0. /\ Own(w)
        /\ \A v \in W : v # w => /\ step'[v] = step[v] /\ opened'[v] = opened[v]
                                 /\ (v \in flock' <=> v \in flock)
        /\ linked' = linked \/ linked = 0
    BY <1>0, <1>2, ConfigMoves
  <2>1. ASSUME NEW v \in W, v # w PROVE Own(v)'
    <3>1. Own(v)
      BY <1>0
    <3> QED
      BY <2>0, <2>1, <3>1 DEF Holding, Entered
  <2>2. CASE Config(k)!Start(w)
    <3>1. step[w] = "start" /\ step'[w] = "open" /\ flock' = flock /\ opened' = opened
      BY <1>0, <1>2, <2>2 DEF Config!Start, Config!Goto
    <3>2. Own(w)'
      BY <2>0, <3>1 DEF Holding, Entered
    <3> QED
      BY <1>0, <2>1, <3>1, <3>2
  <2>3. CASE Config(k)!OpenLock(w)
    <3>1. step[w] = "open" /\ step'[w] = "check" /\ flock' = flock
          /\ opened' = [opened EXCEPT ![w] = linked']
      BY <1>0, <2>3 DEF Config!OpenLock, Config!Goto
    <3>2. linked' # 0
      BY <1>0, <2>3 DEF Config!OpenLock
    <3>3. Own(w)'
      BY <1>0, <2>0, <3>1, <3>2 DEF Holding, Entered
    <3>4. Distinct'
      BY <1>0, <2>0, <3>1 DEF Holding
    <3> QED
      BY <2>1, <3>3, <3>4
  <2>4. CASE Config(k)!ValidateLock(w)
    <3>1. /\ flock' = flock /\ opened' = opened /\ linked' = linked /\ opened[w] = linked
          /\ \/ step[w] = "check" /\ step'[w] = "lock"
             \/ step[w] = "recheck" /\ step'[w] = "read"
      BY <1>0, <1>2, <2>4 DEF Config!ValidateLock, Config!Goto, Config!SameLockFile
    <3>2. Own(w)'
      BY <2>0, <3>1 DEF Holding, Entered
    <3> QED
      BY <1>0, <2>1, <3>1, <3>2
  <2>5. CASE Config(k)!TryLock(w)
    <3>1. /\ flock' = flock \cup {w} /\ opened' = opened /\ linked' = linked
          /\ step[w] = "lock" /\ step'[w] = "recheck"
          /\ \A o \in flock : opened[o] # opened[w]
      BY <1>0, <1>2, <2>5 DEF Config!TryLock, Config!Goto
    <3>2. Own(w)'
      BY <2>0, <3>1 DEF Holding, Entered
    <3>3. Distinct'
      BY <1>0, <3>1
    <3> QED
      BY <2>1, <3>2, <3>3
  <2>6. CASE Config(k)!Read(w) \/ Config(k)!Verify(w)
    <3>1. /\ flock' = flock /\ opened' = opened /\ linked' = linked
          /\ step[w] \in {"read", "verify"} /\ step'[w] \in {"verify", "commit"}
      BY <1>0, <1>2, <2>6 DEF Config!Read, Config!Verify, Config!Goto
    <3>2. Own(w)'
      BY <2>0, <3>1 DEF Holding, Entered
    <3> QED
      BY <1>0, <2>1, <3>1, <3>2
  <2>7. CASE Config(k)!Commit(w)
    <3>1. /\ flock' = flock \ {w} /\ opened' = opened /\ linked' = linked
          /\ step'[w] = "done"
      BY <1>0, <1>2, <2>7 DEF Config!Commit, Config!Goto
    <3>2. Own(w)'
      BY <3>1 DEF Holding, Entered
    <3> QED
      BY <1>0, <2>1, <3>1, <3>2
  <2> QED
    BY <1>2, <2>2, <2>3, <2>4, <2>5, <2>6, <2>7 DEF Config!Step
<1>3. ASSUME NEW e \in k.externals, Config(k)!ExternalWrite(e) PROVE FlockInv(k)'
  BY <1>3 DEF Config!ExternalWrite, FlockInv, CfgWriters
<1>4. ASSUME Config(k)!RemoveLockFile PROVE Distinct' /\ \A w \in W : Own(w)'
  <2>1. /\ UNCHANGED <<step, opened, flock>> /\ \A w \in flock : opened[w] # linked
    BY <1>4 DEF Config!RemoveLockFile
  <2> QED
    BY <1>0, <2>1 DEF Holding, Entered
<1>5. ASSUME Config(k)!Finished PROVE FlockInv(k)'
  BY <1>5 DEF Config!Finished, Config!vars, FlockInv, CfgWriters
<1>6. (Distinct' /\ \A w \in W : Own(w)') => FlockInv(k)'
  BY DEF FlockInv, CfgWriters
<1> QED
  BY <1>1, <1>2, <1>3, <1>4, <1>5, <1>6 DEF Config!Next, Config!Die, CfgWriters

\* Past the second comparison there is one writer.
LEMMA OneInside ==
    ASSUME NEW CONSTANT k, FlockInv(k), NEW v \in CfgWriters(k), NEW w \in CfgWriters(k),
           step[v] \in Entered, step[w] \in Entered
    PROVE  v = w
BY DEF FlockInv, Holding, Entered

LEMMA StageStep ==
    ASSUME NEW CONSTANT k, Config(k)!ConfigAssumption, Config(k)!TypeOK, FlockInv(k),
           StageInv(k), Config(k)!Next
    PROVE  StageInv(k)'
<1> DEFINE W == CfgWriters(k)
           Looking(w) == w \in k.inits /\ step[w] \notin {"start", "failed"} => seen[w].schema = "none"
           Made(w) == step[w] = "verify" =>
                        w \in Config(k)!Checking /\ seen[w].edits \subseteq staged[w].edits
           Whole(w) == step[w] \in {"verify", "commit"} => doc.edits \subseteq staged[w].edits \cup after[w]
           Own(w) == Looking(w) /\ Made(w) /\ Whole(w)
<1>0. /\ DOMAIN step = W /\ DOMAIN seen = W /\ DOMAIN staged = W /\ DOMAIN after = W
      /\ doc \in Config(k)!Docs /\ \A w \in W : seen[w] \in Config(k)!Docs
      /\ \A w \in W : Own(w)
  BY DEF Config!TypeOK, CfgWriters, StageInv
<1>1. ASSUME NEW w \in W, Config(k)!Fail(w) PROVE \A v \in W : Own(v)'
  <2>1. step' = [step EXCEPT ![w] = "failed"] /\ UNCHANGED <<doc, seen, staged, after>>
    BY <1>1 DEF Config!Fail, Config!Goto
  <2>2. Own(w)'
    BY <1>0, <2>1
  <2>3. ASSUME NEW v \in W, v # w PROVE Own(v)'
    <3>1. Own(v) /\ step'[v] = step[v]
      BY <1>0, <2>1, <2>3
    <3> QED
      BY <2>1, <3>1
  <2> QED
    BY <2>2, <2>3
<1>2. ASSUME NEW w \in W, Config(k)!Step(w), ~Config(k)!Fail(w)
      PROVE  \A v \in W : Own(v)'
  <2>0. /\ Own(w)
        /\ \A v \in W : v # w => /\ step'[v] = step[v] /\ seen'[v] = seen[v]
                                 /\ staged'[v] = staged[v] /\ after'[v] = after[v]
        /\ doc' = doc \/ step[w] = "commit"
    BY <1>0, <1>2, ConfigMoves
  <2>1. ASSUME NEW v \in W, v # w PROVE Own(v)'
    <3>1. Own(v) /\ step'[v] = step[v] /\ seen'[v] = seen[v] /\ staged'[v] = staged[v] /\ after'[v] = after[v]
      BY <1>0, <2>0, <2>1
    <3>2. doc' = doc \/ step[v] \notin {"verify", "commit"}
      BY <2>0, <2>1, OneInside DEF Entered
    <3>3. Looking(v)' /\ Made(v)'
      BY <3>1
    <3>4. Whole(v)'
      BY <3>1, <3>2
    <3> QED
      BY <3>3, <3>4
  <2>2. CASE Config(k)!Start(w)
    <3>1. /\ step'[w] = "open"
          /\ seen'[w] = IF w \in Config(k)!Checking THEN doc ELSE seen[w]
          /\ w \in k.inits => doc.schema = "none"
      BY <1>0, <1>2, <2>2 DEF Config!Start, Config!Goto
    <3>2. Own(w)'
      BY <3>1 DEF Config!Checking
    <3> QED
      BY <2>1, <3>2
  <2>3. CASE Config(k)!OpenLock(w) \/ Config(k)!ValidateLock(w) \/ Config(k)!TryLock(w)
    <3>1. /\ step[w] \notin {"start", "failed"} /\ seen' = seen
          /\ step'[w] \in {"check", "lock", "read", "recheck"}
      BY <1>0, <1>2, <2>3 DEF Config!OpenLock, Config!ValidateLock, Config!TryLock, Config!Goto
    <3>2. Own(w)'
      BY <2>0, <3>1
    <3> QED
      BY <2>1, <3>2
  <2>4. CASE Config(k)!Read(w)
    <3>1. PICK d \in Config(k)!Docs : d = Config(k)!Base(w)
      BY <1>0 DEF Config!Base
    <3>2. PICK s : s = Config(k)!PostImage(w, d)
      OBVIOUS
    <3>3. /\ step[w] = "read" /\ seen' = seen /\ doc' = doc
          /\ step'[w] = IF w \in Config(k)!Checking THEN "verify" ELSE "commit"
          /\ staged'[w] = s /\ after'[w] = {}
          /\ w \in Config(k)!Checking => doc = seen[w]
      BY <1>0, <1>2, <2>4, <3>1, <3>2
      DEF Config!Read, Config!Goto, Config!Looked, Config!Matches
    <3>4. d = doc
      BY <3>1, <3>3 DEF Config!Base, Config!Checking
    <3>5. doc.edits \subseteq s.edits
      <4>1. CASE w \notin k.inits
        BY <3>2, <3>4, <4>1, PostImageFacts
      <4>2. CASE w \in k.inits
        <5>1. doc.schema = "none"
          BY <2>0, <3>3, <4>2 DEF Config!Checking
        <5> QED
          BY <1>0, <5>1, DocFacts
      <4> QED
        BY <4>1, <4>2
    <3>6. Own(w)'
      BY <2>0, <3>3, <3>5
    <3> QED
      BY <2>1, <3>6
  <2>5. CASE Config(k)!Verify(w)
    <3>1. /\ step[w] = "verify" /\ step'[w] = "commit" /\ doc = seen[w]
          /\ UNCHANGED <<doc, seen, staged>>
      BY <1>0, <1>2, <2>5 DEF Config!Verify, Config!Goto, Config!Matches
    <3>2. Own(w)'
      BY <2>0, <3>1
    <3> QED
      BY <2>1, <3>2
  <2>6. CASE Config(k)!Commit(w)
    <3>1. step[w] = "commit" /\ step'[w] = "done" /\ seen' = seen
      BY <1>0, <1>2, <2>6 DEF Config!Commit, Config!Goto
    <3>2. Own(w)'
      BY <2>0, <3>1
    <3> QED
      BY <2>1, <3>2
  <2> QED
    BY <1>2, <2>2, <2>3, <2>4, <2>5, <2>6 DEF Config!Step
<1>3. ASSUME NEW e \in k.externals, Config(k)!ExternalWrite(e) PROVE \A v \in W : Own(v)'
  <2>1. /\ UNCHANGED <<step, seen, staged>> /\ doc'.edits = doc.edits \cup {e}
        /\ after' = [w \in W |-> after[w] \cup {e}]
    BY <1>3 DEF Config!ExternalWrite, CfgWriters
  <2>2. ASSUME NEW v \in W PROVE Own(v)'
    <3>1. Own(v) /\ after'[v] = after[v] \cup {e}
      BY <1>0, <2>1
    <3>2. Looking(v)' /\ Made(v)'
      BY <2>1, <3>1
    <3>3. Whole(v)'
      BY <2>1, <3>1
    <3> QED
      BY <3>2, <3>3
  <2> QED
    BY <2>2
<1>4. ASSUME Config(k)!RemoveLockFile \/ Config(k)!Finished PROVE \A v \in W : Own(v)'
  <2>1. UNCHANGED <<step, seen, staged, doc, after>>
    BY <1>4 DEF Config!RemoveLockFile, Config!Finished, Config!vars
  <2> QED
    BY <1>0, <2>1
<1>5. (\A w \in W : Own(w)') => StageInv(k)'
  BY DEF StageInv, CfgWriters
<1> QED
  BY <1>1, <1>2, <1>3, <1>4, <1>5 DEF Config!Next, Config!Die, CfgWriters

LEMMA ExactStep ==
    ASSUME NEW CONSTANT k, Config(k)!ConfigAssumption, k.externals = {}, Config(k)!TypeOK,
           FlockInv(k), StageInv(k), ExactInv(k), Config(k)!Next
    PROVE  ExactInv(k)'
<1> DEFINE W == CfgWriters(k)
           Own(w) == step[w] \in {"verify", "commit"} =>
                        /\ staged[w].edits = doc.edits \cup {w}
                        /\ doc.schema # "none" => staged[w].schema = doc.schema
<1>0. /\ DOMAIN step = W /\ DOMAIN staged = W /\ doc \in Config(k)!Docs
      /\ \A w \in W : seen[w] \in Config(k)!Docs
      /\ doc.edits = applied /\ \A w \in W : Own(w)
  BY DEF Config!TypeOK, CfgWriters, ExactInv
<1>1. ASSUME NEW w \in W, Config(k)!Fail(w) PROVE doc'.edits = applied' /\ \A v \in W : Own(v)'
  <2>1. step' = [step EXCEPT ![w] = "failed"] /\ UNCHANGED <<doc, staged, applied>>
    BY <1>1 DEF Config!Fail, Config!Goto
  <2>2. ASSUME NEW v \in W PROVE Own(v)'
    <3>1. Own(v) /\ step'[v] \in {step[v], "failed"}
      BY <1>0, <2>1
    <3> QED
      BY <2>1, <3>1
  <2> QED
    BY <1>0, <2>1, <2>2
<1>2. ASSUME NEW w \in W, Config(k)!Step(w), ~Config(k)!Fail(w)
      PROVE  doc'.edits = applied' /\ \A v \in W : Own(v)'
  <2>0. /\ Own(w)
        /\ \A v \in W : v # w => step'[v] = step[v] /\ staged'[v] = staged[v]
        /\ (doc' = doc /\ applied' = applied) \/ step[w] = "commit"
    BY <1>0, <1>2, ConfigMoves
  <2>1. ASSUME NEW v \in W, v # w PROVE Own(v)'
    <3>1. Own(v) /\ step'[v] = step[v] /\ staged'[v] = staged[v]
      BY <1>0, <2>0, <2>1
    <3>2. doc' = doc \/ step[v] \notin {"verify", "commit"}
      BY <2>0, <2>1, OneInside DEF Entered
    <3> QED
      BY <3>1, <3>2
  <2>2. CASE Config(k)!Start(w) \/ Config(k)!OpenLock(w) \/ Config(k)!ValidateLock(w) \/ Config(k)!TryLock(w)
    <3>1. step'[w] \notin {"verify", "commit"} /\ UNCHANGED <<doc, applied>>
      BY <1>0, <1>2, <2>2
      DEF Config!Start, Config!OpenLock, Config!ValidateLock, Config!TryLock, Config!Goto
    <3> QED
      BY <1>0, <2>1, <3>1
  <2>3. CASE Config(k)!Read(w)
    <3>1. PICK d \in Config(k)!Docs : d = Config(k)!Base(w)
      BY <1>0 DEF Config!Base
    <3>2. PICK s : s = Config(k)!PostImage(w, d)
      OBVIOUS
    <3>3. /\ step[w] = "read" /\ UNCHANGED <<doc, applied>>
          /\ staged'[w] = s
          /\ w \in Config(k)!Checking => doc = seen[w]
      BY <1>0, <1>2, <2>3, <3>1, <3>2 DEF Config!Read, Config!Matches
    <3>4. d = doc
      BY <3>1, <3>3 DEF Config!Base, Config!Checking
    <3>5. s.edits = doc.edits \cup {w} /\ (doc.schema # "none" => s.schema = doc.schema)
      <4>1. CASE w \notin k.inits
        BY <3>2, <3>4, <4>1, PostImageFacts
      <4>2. CASE w \in k.inits
        <5>1. doc.schema = "none"
          BY <3>3, <4>2 DEF Config!Checking, StageInv, CfgWriters
        <5>2. doc.edits = {}
          BY <1>0, <5>1, DocFacts
        <5> QED
          BY <3>2, <3>4, <4>2, <5>1, <5>2, PostImageFacts
      <4> QED
        BY <4>1, <4>2
    <3>6. Own(w)'
      BY <3>3, <3>5
    <3> QED
      BY <1>0, <2>1, <3>3, <3>6
  <2>4. CASE Config(k)!Verify(w)
    <3>1. step[w] = "verify" /\ UNCHANGED <<doc, staged, applied>>
      BY <1>2, <2>4 DEF Config!Verify
    <3> QED
      BY <1>0, <2>0, <2>1, <3>1
  <2>5. CASE Config(k)!Commit(w)
    <3>1. /\ step[w] = "commit" /\ step'[w] = "done"
          /\ doc' = staged[w] /\ applied' = applied \cup {w}
      BY <1>0, <1>2, <2>5 DEF Config!Commit, Config!Goto
    <3> QED
      BY <1>0, <2>0, <2>1, <3>1
  <2> QED
    BY <1>2, <2>2, <2>3, <2>4, <2>5 DEF Config!Step
<1>3. ASSUME Config(k)!RemoveLockFile \/ Config(k)!Finished
      PROVE  doc'.edits = applied' /\ \A v \in W : Own(v)'
  <2>1. UNCHANGED <<step, staged, doc, applied>>
    BY <1>3 DEF Config!RemoveLockFile, Config!Finished, Config!vars
  <2> QED
    BY <1>0, <2>1
<1>4. (doc'.edits = applied' /\ \A w \in W : Own(w)') => ExactInv(k)'
  BY DEF ExactInv, CfgWriters
<1> QED
  BY <1>1, <1>2, <1>3, <1>4 DEF Config!Next, Config!Die, CfgWriters

LEMMA ConfigStep ==
    ASSUME NEW CONSTANT k, Config(k)!ConfigAssumption, ConfigInv(k),
           [Config(k)!Next]_(Config(k)!vars)
    PROVE  ConfigInv(k)'
<1>1. CASE Config(k)!Next
  BY <1>1, ConfigTypeStep, FlockStep, StageStep, ExactStep DEF ConfigInv
<1>2. CASE UNCHANGED Config(k)!vars
  <2>1. UNCHANGED <<doc, linked, inodes, opened, flock, step, seen, staged, applied, after>>
    BY <1>2 DEF Config!vars
  <2>2. Config(k)!TypeOK'
    BY <2>1 DEF ConfigInv, Config!TypeOK
  <2>3. FlockInv(k)' /\ StageInv(k)'
    BY <2>1 DEF ConfigInv, FlockInv, StageInv
  <2>4. k.externals = {} => ExactInv(k)'
    BY <2>1 DEF ConfigInv, ExactInv
  <2> QED
    BY <2>2, <2>3, <2>4 DEF ConfigInv
<1> QED
  BY <1>1, <1>2

LEMMA OneWriter ==
    ASSUME NEW CONSTANT k, FlockInv(k)
    PROVE  Config(k)!OneWriterInside
BY OneInside DEF Config!OneWriterInside, Config!Inside, CfgWriters, Entered

\* The invariant of the configuration in its two settings.
ConfigsInv ==
    /\ part = "locked" => ConfigInv(Locked)
    /\ part = "outside" => ConfigInv(Outside)

LEMMA ConfigsStep ==
    ASSUME ConfigsInv, [Next]_vars
    PROVE  ConfigsInv'
<1>1. /\ part' = part
      /\ part = "locked" => [Config(Locked)!Next]_(Config(Locked)!vars)
      /\ part = "outside" => [Config(Outside)!Next]_(Config(Outside)!vars)
  BY PartStep
<1>2. ASSUME part = "locked" PROVE ConfigInv(Locked)'
  BY <1>1, <1>2, FilesAssumption, ConfigStep DEF ConfigsInv
<1>3. ASSUME part = "outside" PROVE ConfigInv(Outside)'
  BY <1>1, <1>3, FilesAssumption, ConfigStep DEF ConfigsInv
<1> QED
  BY <1>1, <1>2, <1>3 DEF ConfigsInv

\* What no step of the writers does.
LEMMA ConfigActions ==
    ASSUME NEW CONSTANT k, ConfigInv(k), [Config(k)!Next]_(Config(k)!vars)
    PROVE  /\ Config(k)!MissingNeverClobbers /\ Config(k)!LostOnlyInWindow
           /\ k.externals = {} => Config(k)!SchemaFixed
<1> DEFINE W == CfgWriters(k)
<1>0. /\ doc \in Config(k)!Docs /\ Config(k)!TypeOK /\ DOMAIN step = W
      /\ FlockInv(k) /\ StageInv(k)
  BY DEF ConfigInv, Config!TypeOK, CfgWriters
<1>1. ASSUME NEW w \in W, Config(k)!Commit(w), ~Config(k)!Fail(w)
      PROVE  /\ Config(k)!MissingNeverClobbers /\ Config(k)!LostOnlyInWindow
             /\ k.externals = {} => Config(k)!SchemaFixed
  <2>1. /\ step[w] = "commit" /\ doc' = staged[w]
        /\ w \in Config(k)!Checking /\ seen[w].schema = "none" => doc.schema = "none"
    BY <1>1 DEF Config!Commit, Config!NoClobber
  <2>2. \A v \in W : v # w => step[v] # "commit"
    BY <1>0, <2>1, OneInside DEF Entered
  <2>3. Config(k)!MissingNeverClobbers
    BY <2>1, <2>2 DEF Config!MissingNeverClobbers, Config!Checking, CfgWriters, Config!Writers
  <2>4. Config(k)!LostOnlyInWindow
    <3> SUFFICES ASSUME NEW e \in k.externals, e \in doc.edits, e \notin doc'.edits
                 PROVE  \E v \in Config(k)!Inside :
                            /\ step[v] = "commit" /\ e \in after[v]
                            /\ v \in Config(k)!Checking => seen[v].schema # "none"
      BY DEF Config!LostOnlyInWindow
    <3>1. e \in after[w]
      BY <1>0, <2>1 DEF StageInv, CfgWriters
    <3>2. doc.schema # "none"
      BY <1>0, DocFacts
    <3>3. w \in Config(k)!Inside
      BY <2>1 DEF Config!Inside, CfgWriters
    <3> QED
      BY <2>1, <3>1, <3>2, <3>3
  <2>5. k.externals = {} => Config(k)!SchemaFixed
    BY <2>1 DEF ConfigInv, ExactInv, Config!SchemaFixed
  <2> QED
    BY <2>3, <2>4, <2>5
<1>2. ASSUME doc' = doc \/ \E e \in k.externals : Config(k)!ExternalWrite(e),
             \A w \in W : step[w] = "commit" /\ step'[w] = "done" => FALSE
      PROVE  /\ Config(k)!MissingNeverClobbers /\ Config(k)!LostOnlyInWindow
             /\ k.externals = {} => Config(k)!SchemaFixed
  <2>1. Config(k)!MissingNeverClobbers
    BY <1>2 DEF Config!MissingNeverClobbers, Config!Checking, CfgWriters, Config!Writers
  <2>2. Config(k)!LostOnlyInWindow
    BY <1>2 DEF Config!LostOnlyInWindow, Config!ExternalWrite
  <2>3. k.externals = {} => Config(k)!SchemaFixed
    BY <1>2 DEF Config!SchemaFixed
  <2> QED
    BY <2>1, <2>2, <2>3
<1>3. ASSUME NEW w \in W, Config(k)!Step(w) \/ Config(k)!Die(w),
             ~(Config(k)!Commit(w) /\ ~Config(k)!Fail(w))
      PROVE  doc' = doc /\ \A v \in W : ~(step[v] = "commit" /\ step'[v] = "done")
  <2>1. doc' = doc /\ \A v \in W : v # w => step'[v] = step[v]
    BY <1>0, <1>3, ConfigMoves
  <2>2. Config(k)!Fail(w) => step'[w] = "failed"
    BY <1>0 DEF Config!Fail, Config!Goto
  <2>3. ~Config(k)!Fail(w) => step'[w] # "done"
    <3>1. CASE Config(k)!Start(w)
      BY <1>0, <3>1 DEF Config!Start, Config!Goto
    <3>2. CASE Config(k)!OpenLock(w)
      BY <1>0, <3>2 DEF Config!OpenLock, Config!Goto
    <3>3. CASE Config(k)!ValidateLock(w)
      BY <1>0, <3>3 DEF Config!ValidateLock, Config!Goto
    <3>4. CASE Config(k)!TryLock(w)
      BY <1>0, <3>4 DEF Config!TryLock, Config!Goto
    <3>5. CASE Config(k)!Read(w)
      BY <1>0, <3>5 DEF Config!Read, Config!Goto
    <3>6. CASE Config(k)!Verify(w)
      BY <1>0, <3>6 DEF Config!Verify, Config!Goto
    <3> QED
      BY <1>3, <3>1, <3>2, <3>3, <3>4, <3>5, <3>6 DEF Config!Step, Config!Die
  <2> QED
    BY <2>1, <2>2, <2>3
<1>4. ASSUME \/ \E e \in k.externals : Config(k)!ExternalWrite(e)
             \/ Config(k)!RemoveLockFile \/ Config(k)!Finished \/ UNCHANGED Config(k)!vars
      PROVE  /\ doc' = doc \/ \E e \in k.externals : Config(k)!ExternalWrite(e)
             /\ \A w \in W : ~(step[w] = "commit" /\ step'[w] = "done")
  BY <1>4 DEF Config!ExternalWrite, Config!RemoveLockFile, Config!Finished, Config!vars
<1> QED
  BY <1>1, <1>2, <1>3, <1>4 DEF Config!Next, CfgWriters

\* One writer of the configuration at a time gets past the lock, however the lock file is
\* removed and made again, and where all writers take the lock the document carries
\* exactly the acknowledged edits (lock_config_file, edit_document_in_place_with_contents).
THEOREM EditsAreSerial == Spec => []EditsSerial
<1>1. Init => ConfigsInv
  BY FilesAssumption, ConfigInit DEF Init, ConfigsInv
<1>2. ConfigsInv /\ [Next]_vars => ConfigsInv'
  BY ConfigsStep
<1>3. ConfigsInv => EditsSerial
  <2>1. ASSUME ConfigInv(Locked)
        PROVE  Config(Locked)!TypeOK /\ Config(Locked)!OneWriterInside /\ Config(Locked)!NoLostEdit
    BY <2>1, FilesAssumption, OneWriter DEF ConfigInv, ExactInv, Config!NoLostEdit
  <2> QED
    BY <2>1 DEF ConfigsInv, EditsSerial, ConfigInv
<1> QED
  BY <1>1, <1>2, <1>3, PTL DEF Spec

-----------------------------------------------------------------------------
(* The token of a provider (TokenCache). *)

TokenSteps == {"idle", "waiting", "checking", "exchanging", "snapshot"}
Queued(c) == \E i \in 1..Len(queue) : queue[i] = c

\* The type invariant, with its operators on sequences spelled out.
TokenTyped ==
    /\ now \in Nat /\ minted \in Seq(Int)
    /\ cache \in [tok : 0..Len(minted), exp : Int]
    /\ holder \in Callers \cup {Nobody}
    /\ queue \in Seq(Callers)
    /\ \A i, j \in 1..Len(queue) : queue[i] = queue[j] => i = j
    /\ pc \in [Callers -> TokenSteps]
    /\ t0 \in [Callers -> 0..now] /\ start \in [Callers -> 0..now]
    /\ out \in [Callers -> [tok : 0..Len(minted), at : 0..now]]
    /\ saved \subseteq [tok : 1..Len(minted), exp : Int]
    /\ calls \in [Callers -> 0..Calls]
    /\ \A c \in Callers : c = holder <=> pc[c] \in {"checking", "exchanging"}
    /\ \A c \in Callers : Queued(c) <=> pc[c] = "waiting"

LEMMA TokenTypes == Token!TypeOK <=> TokenTyped
<1>1. ASSUME queue \in Seq(Callers)
      PROVE  /\ Token!IsInjective(queue) <=>
                    \A i, j \in 1..Len(queue) : queue[i] = queue[j] => i = j
             /\ \A c : c \in Token!ToSet(queue) <=> Queued(c)
  BY <1>1 DEF Token!IsInjective, Token!ToSet, Queued
<1> QED
  BY <1>1 DEF Token!TypeOK, TokenTyped, TokenSteps

\* The callers wait in the order of their readings of the clock, and the one that has the
\* lock read it before all of them.
QueueInv ==
    /\ \A i, j \in 1..Len(queue) : i < j => t0[queue[i]] <= t0[queue[j]]
    /\ holder # Nobody => \A i \in 1..Len(queue) : t0[holder] <= t0[queue[i]]

\* The cached pair is one token's own.
CacheInv ==
    /\ cache.tok = 0 => cache.exp = -1
    /\ cache.tok # 0 => cache.exp \in {-1, minted[cache.tok]}

\* An exchange was needed by the time its caller read, and no reading on which a caller
\* may still rely makes a token look fresh that has expired.
TimeInv ==
    \A c \in Callers :
        /\ pc[c] = "exchanging" => ~Token!Fresh(t0[c]) /\ now <= start[c] + Delay
        /\ pc[c] \in {"waiting", "checking"} /\ Token!Fresh(t0[c]) => cache.exp > now

\* Between a return and the snapshot the clock stands, so no exchange ends.
SnapshotInv ==
    \A c \in Callers : pc[c] = "snapshot" =>
        /\ out[c].tok # 0 /\ (cache.tok = 0 \/ cache.tok = out[c].tok)
        /\ \A d \in Callers : pc[d] = "exchanging" => start[d] = now

TokenInv ==
    /\ TokenTyped /\ QueueInv /\ CacheInv /\ TimeInv /\ SnapshotInv
    /\ Token!HandedOutUnexpired /\ Token!SavedPairMatches

LEMMA TokenInit ==
    ASSUME Token!TokenAssumption, Token!Init
    PROVE  TokenInv
<1> USE DEF Token!TokenAssumption
<1>1. PICK e \in Nat : /\ minted = <<e>>
                       /\ \/ cache.tok = 0 /\ cache.exp = -1
                          \/ cache.tok = 1 /\ cache.exp \in {-1, e}
                       /\ cache \in [tok : 0..1, exp : Int]
  BY DEF Token!Init, Token!Empty, Token!NoExp
<1>2. minted \in Seq(Int) /\ Len(minted) = 1 /\ minted[1] = e
  BY <1>1
<1>3. TokenTyped
  BY <1>1, <1>2 DEF Token!Init, TokenTyped, TokenSteps, Queued
<1>4. QueueInv /\ TimeInv /\ SnapshotInv
  BY DEF Token!Init, QueueInv, TimeInv, SnapshotInv
<1>5. CacheInv
  BY <1>1, <1>2 DEF CacheInv
<1>6. Token!HandedOutUnexpired /\ Token!SavedPairMatches
  BY DEF Token!Init, Token!HandedOutUnexpired, Token!SavedPairMatches
<1> QED
  BY <1>3, <1>4, <1>5, <1>6 DEF TokenInv

\* A return moves its caller alone.
LEMMA ReturnFacts ==
    ASSUME TokenTyped, NEW c \in Callers, NEW n \in Nat, Len(minted) <= n, NEW tok \in 0..n,
           NEW kind, Token!Return(c, tok, kind)
    PROVE  /\ t0' \in [Callers -> 0..now] /\ start' \in [Callers -> 0..now]
           /\ out' \in [Callers -> [tok : 0..n, at : 0..now]]
           /\ pc' \in [Callers -> TokenSteps]
           /\ pc'[c] \in {"idle", "snapshot"} /\ (pc'[c] = "snapshot" => tok # 0)
           /\ out'[c].tok = tok /\ (tok # 0 => out'[c].at = now)
           /\ \A d \in Callers : d # c => /\ pc'[d] = pc[d] /\ t0'[d] = t0[d]
                                          /\ start'[d] = start[d] /\ out'[d] = out[d]
<1>0. /\ now \in Nat /\ Len(minted) \in Nat
      /\ t0 \in [Callers -> 0..now] /\ start \in [Callers -> 0..now]
      /\ out \in [Callers -> [tok : 0..Len(minted), at : 0..now]]
      /\ pc \in [Callers -> TokenSteps]
  BY SMTT(30) DEF TokenTyped
<1>1. PICK l \in {"idle", "snapshot"} : /\ pc' = [pc EXCEPT ![c] = l]
                                        /\ l = "snapshot" => tok # 0
  BY DEF Token!Return
<1>2. PICK o : /\ out' = [out EXCEPT ![c] = o] /\ o \in [tok : 0..n, at : 0..now]
               /\ o.tok = tok /\ (tok # 0 => o.at = now)
  <2>1. PICK a \in 0..now : a = IF tok = 0 THEN 0 ELSE now
    BY <1>0
  <2>2. out' = [out EXCEPT ![c] = [tok |-> tok, at |-> a]]
    BY <2>1 DEF Token!Return
  <2>3. [tok |-> tok, at |-> a] \in [tok : 0..n, at : 0..now]
    BY <2>1
  <2>4. [tok |-> tok, at |-> a].tok = tok /\ [tok |-> tok, at |-> a].at = a
    OBVIOUS
  <2>5. tok # 0 => a = now
    BY <2>1
  <2> QED
    BY <2>2, <2>3, <2>4, <2>5
<1>3. /\ t0' = [t0 EXCEPT ![c] = 0] /\ start' = [start EXCEPT ![c] = 0]
  BY DEF Token!Return
<1>4. out \in [Callers -> [tok : 0..n, at : 0..now]]
  <2>1. \A d \in Callers : out[d] \in [tok : 0..n, at : 0..now]
    BY <1>0
  <2> QED
    BY <1>0, <2>1
<1>5. t0' \in [Callers -> 0..now] /\ start' \in [Callers -> 0..now]
  BY <1>0, <1>3
<1>6. out' \in [Callers -> [tok : 0..n, at : 0..now]]
  BY <1>2, <1>4
<1>7. pc' \in [Callers -> TokenSteps] /\ pc'[c] = l
  BY <1>0, <1>1 DEF TokenSteps
<1>8. \A d \in Callers : d # c => /\ pc'[d] = pc[d] /\ t0'[d] = t0[d]
                                  /\ start'[d] = start[d] /\ out'[d] = out[d]
  BY <1>0, <1>1, <1>2, <1>3
<1>9. out'[c] = o
  BY <1>0, <1>2
<1> QED
  BY <1>1, <1>2, <1>5, <1>6, <1>7, <1>8, <1>9

\* The queue without its i-th caller.
LEMMA RemoveAtFacts ==
    ASSUME NEW S, NEW q \in Seq(S), NEW i \in 1..Len(q)
    PROVE  /\ Token!RemoveAt(q, i) \in Seq(S)
           /\ Len(Token!RemoveAt(q, i)) = Len(q) - 1
           /\ \A j \in 1..(Len(q) - 1) : Token!RemoveAt(q, i)[j] = IF j < i THEN q[j] ELSE q[j + 1]
<1>1. /\ SubSeq(q, 1, i - 1) \in Seq(S) /\ Len(SubSeq(q, 1, i - 1)) = i - 1
      /\ \A j \in 1..(i - 1) : SubSeq(q, 1, i - 1)[j] = q[j]
  OBVIOUS
<1>2. /\ SubSeq(q, i + 1, Len(q)) \in Seq(S) /\ Len(SubSeq(q, i + 1, Len(q))) = Len(q) - i
      /\ \A j \in 1..(Len(q) - i) : SubSeq(q, i + 1, Len(q))[j] = q[j + i]
  OBVIOUS
<1>3. PICK a, b : a = SubSeq(q, 1, i - 1) /\ b = SubSeq(q, i + 1, Len(q))
  OBVIOUS
<1>4. /\ a \o b \in Seq(S) /\ Len(a \o b) = Len(q) - 1
      /\ \A j \in 1..(Len(q) - 1) : (a \o b)[j] = IF j < i THEN a[j] ELSE b[j - i + 1]
  <2>1. a \in Seq(S) /\ b \in Seq(S) /\ Len(a) = i - 1 /\ Len(b) = Len(q) - i
    BY <1>1, <1>2, <1>3
  <2>2. /\ a \o b \in Seq(S) /\ Len(a \o b) = Len(a) + Len(b)
        /\ \A j \in 1..(Len(a) + Len(b)) :
              (a \o b)[j] = IF j <= Len(a) THEN a[j] ELSE b[j - Len(a)]
    BY <2>1, ConcatProperties
  <2>3. Len(a) + Len(b) = Len(q) - 1 /\ \A j \in 1..(Len(q) - 1) : j - Len(a) = j - i + 1
    BY <2>1
  <2>4. \A j \in 1..(Len(q) - 1) : j <= Len(a) <=> j < i
    BY <2>1
  <2> QED
    BY <2>2, <2>3, <2>4
<1>5. \A j \in 1..(Len(q) - 1) : (a \o b)[j] = IF j < i THEN q[j] ELSE q[j + 1]
  <2>1. \A j \in 1..(Len(q) - 1) : j < i => a[j] = q[j]
    BY <1>1, <1>3
  <2>2. \A j \in 1..(Len(q) - 1) : ~(j < i) => b[j - i + 1] = q[j + 1]
    <3> TAKE j \in 1..(Len(q) - 1)
    <3> HAVE ~(j < i)
    <3>1. j - i + 1 \in 1..(Len(q) - i)
      OBVIOUS
    <3>2. b[j - i + 1] = q[(j - i + 1) + i]
      BY <1>2, <1>3, <3>1
    <3>3. (j - i + 1) + i = j + 1
      OBVIOUS
    <3> QED
      BY <3>2, <3>3
  <2> QED
    BY <1>4, <2>1, <2>2
<1> QED
  BY <1>3, <1>4, <1>5 DEF Token!RemoveAt

\* What the steps do to the queue and to its holder.
LEMMA QueueFacts ==
    ASSUME TokenTyped, Token!TokenAssumption, NEW c \in Callers
    PROVE  /\ pc[c] = "idle" /\ queue' = Append(queue, c) =>
                /\ queue' \in Seq(Callers) /\ Len(queue') = Len(queue) + 1
                /\ \A i \in 1..Len(queue) : queue'[i] = queue[i] /\ queue[i] # c
                /\ queue'[Len(queue) + 1] = c
           /\ queue # <<>> /\ c = Head(queue) /\ queue' = Tail(queue) =>
                /\ queue' \in Seq(Callers) /\ Len(queue') = Len(queue) - 1 /\ Len(queue) >= 1
                /\ \A i \in 1..(Len(queue) - 1) : queue'[i] = queue[i + 1] /\ queue[i + 1] # c
                /\ c = queue[1]
<1>0. /\ queue \in Seq(Callers) /\ Len(queue) \in Nat
      /\ \A i, j \in 1..Len(queue) : queue[i] = queue[j] => i = j
      /\ pc[c] = "idle" => \A i \in 1..Len(queue) : queue[i] # c
  <2>1. queue \in Seq(Callers) /\ \A i, j \in 1..Len(queue) : queue[i] = queue[j] => i = j
    BY DEF TokenTyped
  <2>2. Queued(c) <=> pc[c] = "waiting"
    BY DEF TokenTyped
  <2> QED
    BY <2>1, <2>2 DEF Queued
<1>1. ASSUME pc[c] = "idle", queue' = Append(queue, c)
      PROVE  /\ queue' \in Seq(Callers) /\ Len(queue') = Len(queue) + 1
             /\ \A i \in 1..Len(queue) : queue'[i] = queue[i] /\ queue[i] # c
             /\ queue'[Len(queue) + 1] = c
  BY <1>0, <1>1
<1>2. ASSUME queue # <<>>, c = Head(queue), queue' = Tail(queue)
      PROVE  /\ queue' \in Seq(Callers) /\ Len(queue') = Len(queue) - 1 /\ Len(queue) >= 1
             /\ \A i \in 1..(Len(queue) - 1) : queue'[i] = queue[i + 1] /\ queue[i + 1] # c
             /\ c = queue[1]
  <2>1. Len(queue) >= 1 /\ c = queue[1]
    BY <1>0, <1>2
  <2>2. queue' \in Seq(Callers) /\ Len(queue') = Len(queue) - 1
    BY <1>0, <1>2
  <2>3. ASSUME NEW i \in 1..(Len(queue) - 1) PROVE queue'[i] = queue[i + 1] /\ queue[i + 1] # c
    <3>1. queue'[i] = queue[i + 1]
      BY <1>0, <1>2, <2>2
    <3>2. i + 1 \in 1..Len(queue) /\ 1 \in 1..Len(queue) /\ i + 1 # 1
      BY <1>0
    <3> QED
      BY <1>0, <2>1, <3>1, <3>2
  <2> QED
    BY <2>1, <2>2, <2>3
<1> QED
  BY <1>1, <1>2

TimeOf(c) ==
    /\ pc[c] = "exchanging" => ~Token!Fresh(t0[c]) /\ now <= start[c] + Delay
    /\ pc[c] \in {"waiting", "checking"} /\ Token!Fresh(t0[c]) => cache.exp > now

SnapshotOf(c) == pc[c] = "snapshot" =>
    /\ out[c].tok # 0 /\ (cache.tok = 0 \/ cache.tok = out[c].tok)
    /\ \A d \in Callers : pc[d] = "exchanging" => start[d] = now

HandedOf(c) == out[c].tok # 0 => minted[out[c].tok] > out[c].at

\* A token that is fresh at a time was so before.
LEMMA FreshEarlier ==
    ASSUME NEW s \in Int, NEW t \in Int, s <= t, cache.exp \in Int, SKEW \in Nat, Token!Fresh(t)
    PROVE  Token!Fresh(s)
BY DEF Token!Fresh

\* A step that moves one caller, and neither the clock nor the cache, leaves the others
\* as they are.
LEMMA OthersKept ==
    ASSUME TimeInv, SnapshotInv, Token!HandedOutUnexpired, NEW c \in Callers,
           UNCHANGED <<now, cache, minted>>,
           \A d \in Callers : d # c => /\ pc'[d] = pc[d] /\ t0'[d] = t0[d]
                                       /\ start'[d] = start[d] /\ out'[d] = out[d],
           pc'[c] = "exchanging" => start'[c] = now
    PROVE  \A d \in Callers : d # c => TimeOf(d)' /\ SnapshotOf(d)' /\ HandedOf(d)'
<1> TAKE d \in Callers
<1> HAVE d # c
<1>1. TimeOf(d)'
  <2>1. TimeOf(d)
    BY DEF TimeInv, TimeOf
  <2> QED
    BY <2>1 DEF TimeOf, Token!Fresh
<1>2. SnapshotOf(d)'
  <2>1. SnapshotOf(d)
    BY DEF SnapshotInv, SnapshotOf
  <2> QED
    BY <2>1 DEF SnapshotOf
<1>3. HandedOf(d)'
  <2>1. HandedOf(d)
    BY DEF Token!HandedOutUnexpired, HandedOf
  <2> QED
    BY <2>1 DEF HandedOf
<1> QED
  BY <1>1, <1>2, <1>3

\* The queue keeps its order when a caller outside it returns.
LEMMA QueueKept ==
    ASSUME TokenTyped, QueueInv, NEW c \in Callers, ~Queued(c), UNCHANGED queue,
           \A d \in Callers : d # c => t0'[d] = t0[d],
           holder' \in {holder, Nobody}, holder' # c
    PROVE  QueueInv'
<1>1. \A i \in 1..Len(queue) : queue[i] \in Callers /\ queue[i] # c
  <2>1. queue \in Seq(Callers)
    BY DEF TokenTyped
  <2> QED
    BY <2>1 DEF Queued
<1>2. \A i \in 1..Len(queue) : t0'[queue[i]] = t0[queue[i]]
  BY <1>1
<1>3. holder' # Nobody => holder' = holder /\ t0'[holder] = t0[holder]
  BY DEF TokenTyped
<1> QED
  BY <1>2, <1>3 DEF QueueInv

\* The invariant again, from its parts.
LEMMA TokenParts ==
    ASSUME TokenTyped', QueueInv', CacheInv',
           \A c \in Callers : TimeOf(c)' /\ SnapshotOf(c)' /\ HandedOf(c)',
           Token!SavedPairMatches'
    PROVE  TokenInv'
<1>1. TimeInv'
  BY DEF TimeInv, TimeOf
<1>2. SnapshotInv'
  BY DEF SnapshotInv, SnapshotOf
<1>3. Token!HandedOutUnexpired'
  BY DEF Token!HandedOutUnexpired, HandedOf
<1> QED
  BY <1>1, <1>2, <1>3 DEF TokenInv

\* A call that the cache answers, the second look that does, an exchange that fails and a
\* cancelled one: the caller leaves, and nothing but the lock changes with it.
LEMMA LeaveStep ==
    ASSUME Token!TokenAssumption, TokenInv, NEW c \in Callers, pc[c] # "waiting",
           NEW tok, NEW kind, Token!Return(c, tok, kind),
           \/ tok = 0
           \/ /\ tok = cache.tok /\ cache.tok # 0 /\ cache.exp # -1 /\ cache.exp > now
              /\ \A d \in Callers : pc[d] = "exchanging" => d = c,
           UNCHANGED <<now, cache, queue, saved, minted>>, calls' \in [Callers -> 0..Calls],
           holder' = IF holder = c THEN Nobody ELSE holder
    PROVE  TokenInv'
<1>0. /\ TokenTyped /\ QueueInv /\ CacheInv /\ TimeInv /\ SnapshotInv
      /\ Token!HandedOutUnexpired /\ Token!SavedPairMatches
      /\ Nobody \notin Callers
  BY DEF TokenInv, Token!TokenAssumption
<1>1. /\ Len(minted) \in Nat /\ now \in Nat /\ tok \in 0..Len(minted) /\ tok \in Nat
      /\ cache.tok \in 0..Len(minted) /\ cache.exp \in Int
      /\ minted \in Seq(Int)
  BY <1>0, SMTT(30) DEF TokenTyped
<1>2. /\ t0' \in [Callers -> 0..now] /\ start' \in [Callers -> 0..now]
      /\ out' \in [Callers -> [tok : 0..Len(minted), at : 0..now]]
      /\ pc' \in [Callers -> TokenSteps]
      /\ pc'[c] \in {"idle", "snapshot"} /\ (pc'[c] = "snapshot" => tok # 0)
      /\ out'[c].tok = tok /\ (tok # 0 => out'[c].at = now)
      /\ \A d \in Callers : d # c => /\ pc'[d] = pc[d] /\ t0'[d] = t0[d]
                                     /\ start'[d] = start[d] /\ out'[d] = out[d]
  BY SMTT(30), <1>0, <1>1, ReturnFacts
<1>3. ~Queued(c) /\ holder' \in {holder, Nobody} /\ holder' # c
  BY <1>0 DEF TokenTyped
<1>4. QueueInv'
  BY <1>0, <1>2, <1>3, QueueKept
<1>5. TokenTyped'
  <2>1. \A d \in Callers : (d = holder)' <=> pc'[d] \in {"checking", "exchanging"}
    BY <1>0, <1>2, <1>3 DEF TokenTyped
  <2>2. \A d \in Callers : Queued(d)' <=> pc'[d] = "waiting"
    <3> TAKE d \in Callers
    <3>1. Queued(d)' <=> Queued(d)
      BY DEF Queued
    <3>2. Queued(d) <=> pc[d] = "waiting"
      BY <1>0 DEF TokenTyped
    <3> QED
      BY <1>2, <3>1, <3>2
  <2>3. /\ now' \in Nat /\ minted' \in Seq(Int) /\ cache' \in [tok : 0..Len(minted'), exp : Int]
        /\ saved' \subseteq [tok : 1..Len(minted'), exp : Int]
        /\ queue' \in Seq(Callers)
        /\ \A i, j \in 1..Len(queue') : queue'[i] = queue'[j] => i = j
    BY <1>0 DEF TokenTyped
  <2>4. holder' \in Callers \cup {Nobody}
    BY <1>0, <1>3 DEF TokenTyped
  <2> QED
    BY <1>2, <2>1, <2>2, <2>3, <2>4 DEF TokenTyped
<1>6. CacheInv' /\ Token!SavedPairMatches'
  BY <1>0 DEF CacheInv, Token!SavedPairMatches
<1>7. \A d \in Callers : d # c => TimeOf(d)' /\ SnapshotOf(d)' /\ HandedOf(d)'
  BY <1>0, <1>2, OthersKept
<1>8. TimeOf(c)'
  BY <1>2 DEF TimeOf
<1>9. SnapshotOf(c)'
  BY <1>2 DEF SnapshotOf
<1>10. HandedOf(c)'
  <2>1. ASSUME tok # 0 PROVE minted[tok] > now
    BY <1>0, <1>1, <2>1 DEF CacheInv
  <2> QED
    BY <1>2, <2>1 DEF HandedOf
<1> QED
  BY <1>4, <1>5, <1>6, <1>7, <1>8, <1>9, <1>10, TokenParts

\* A call that the cache does not answer.
LEMMA WaitStep ==
    ASSUME Token!TokenAssumption, TokenInv, NEW c \in Callers, pc[c] = "idle",
           ~Token!Fresh(now), queue' = Append(queue, c), t0' = [t0 EXCEPT ![c] = now],
           pc' = [pc EXCEPT ![c] = "waiting"], calls' \in [Callers -> 0..Calls],
           UNCHANGED <<out, start, now, cache, holder, saved, minted>>
    PROVE  TokenInv'
<1>0. /\ TokenTyped /\ QueueInv /\ CacheInv /\ TimeInv /\ SnapshotInv
      /\ Token!HandedOutUnexpired /\ Token!SavedPairMatches
      /\ Nobody \notin Callers
  BY DEF TokenInv, Token!TokenAssumption
<1>1. /\ queue' \in Seq(Callers) /\ Len(queue') = Len(queue) + 1
      /\ \A i \in 1..Len(queue) : queue'[i] = queue[i] /\ queue[i] # c
      /\ queue'[Len(queue) + 1] = c
  BY <1>0, QueueFacts
<1>2. /\ now \in Nat /\ t0 \in [Callers -> 0..now] /\ pc \in [Callers -> TokenSteps]
      /\ queue \in Seq(Callers) /\ Len(queue) \in Nat
      /\ \A i \in 1..Len(queue) : queue[i] \in Callers
      /\ \A i, j \in 1..Len(queue) : queue[i] = queue[j] => i = j
  <2>1. now \in Nat /\ t0 \in [Callers -> 0..now] /\ pc \in [Callers -> TokenSteps]
    BY <1>0 DEF TokenTyped
  <2>2. queue \in Seq(Callers) /\ \A i, j \in 1..Len(queue) : queue[i] = queue[j] => i = j
    BY <1>0 DEF TokenTyped
  <2>3. Len(queue) \in Nat /\ \A i \in 1..Len(queue) : queue[i] \in Callers
    BY <2>2
  <2> QED
    BY <2>1, <2>2, <2>3
<1>3. /\ t0' \in [Callers -> 0..now] /\ pc' \in [Callers -> TokenSteps]
      /\ t0'[c] = now /\ pc'[c] = "waiting"
      /\ \A d \in Callers : d # c => pc'[d] = pc[d] /\ t0'[d] = t0[d]
  BY <1>2 DEF TokenSteps
<1>4. \A i \in 1..Len(queue) : t0'[queue'[i]] = t0[queue[i]] /\ t0[queue[i]] \in 0..now
  BY <1>1, <1>2, <1>3
<1>5. QueueInv'
  <2>1. ASSUME NEW i \in 1..Len(queue'), NEW j \in 1..Len(queue'), i < j
        PROVE  t0'[queue'[i]] <= t0'[queue'[j]]
    <3>1. i \in 1..Len(queue)
      BY <1>1, <1>2, <2>1
    <3>2. CASE j \in 1..Len(queue)
      BY <1>0, <1>4, <2>1, <3>1, <3>2 DEF QueueInv
    <3>3. CASE j = Len(queue) + 1
      BY <1>1, <1>2, <1>3, <1>4, <3>1, <3>3
    <3> QED
      BY <1>1, <1>2, <3>2, <3>3
  <2>2. ASSUME holder # Nobody, NEW i \in 1..Len(queue') PROVE t0'[holder] <= t0'[queue'[i]]
    <3>1. holder \in Callers /\ holder # c
      BY <1>0, <2>2 DEF TokenTyped
    <3>2. t0'[holder] = t0[holder] /\ t0[holder] \in 0..now
      BY <1>2, <1>3, <3>1
    <3>3. CASE i \in 1..Len(queue)
      BY <1>0, <1>4, <2>2, <3>2, <3>3 DEF QueueInv
    <3>4. CASE i = Len(queue) + 1
      BY <1>1, <1>2, <1>3, <3>2, <3>4
    <3> QED
      BY <1>1, <1>2, <3>3, <3>4
  <2> QED
    BY <2>1, <2>2 DEF QueueInv
<1>6. TokenTyped'
  <2>1. \A d \in Callers : (d = holder)' <=> pc'[d] \in {"checking", "exchanging"}
    BY <1>0, <1>3 DEF TokenTyped
  <2>2. ASSUME NEW d \in Callers PROVE Queued(d)' <=> pc'[d] = "waiting"
    <3>1. Queued(d) <=> pc[d] = "waiting"
      BY <1>0 DEF TokenTyped
    <3>2. CASE d = c
      <4>1. Len(queue) + 1 \in 1..Len(queue')
        BY <1>1, <1>2
      <4> QED
        BY <1>1, <1>3, <3>2, <4>1 DEF Queued
    <3>3. CASE d # c
      <4>1. ASSUME NEW i \in 1..Len(queue'), queue'[i] = d PROVE Queued(d)
        <5>1. i \in 1..Len(queue)
          BY <1>1, <1>2, <3>3, <4>1
        <5> QED
          BY <1>1, <4>1, <5>1 DEF Queued
      <4>2. ASSUME NEW i \in 1..Len(queue), queue[i] = d PROVE Queued(d)'
        <5>1. i \in 1..Len(queue')
          BY <1>1, <1>2
        <5> QED
          BY <1>1, <4>2, <5>1 DEF Queued
      <4> QED
        BY <1>3, <3>1, <3>3, <4>1, <4>2 DEF Queued
    <3> QED
      BY <3>2, <3>3
  <2>3. ASSUME NEW i \in 1..Len(queue'), NEW j \in 1..Len(queue'), queue'[i] = queue'[j] PROVE i = j
    <3>1. i \in 1..Len(queue) \/ i = Len(queue) + 1
      BY <1>1, <1>2
    <3>2. j \in 1..Len(queue) \/ j = Len(queue) + 1
      BY <1>1, <1>2
    <3> QED
      BY <1>1, <1>2, <2>3, <3>1, <3>2
  <2>4. /\ now' \in Nat /\ minted' \in Seq(Int) /\ cache' \in [tok : 0..Len(minted'), exp : Int]
        /\ saved' \subseteq [tok : 1..Len(minted'), exp : Int]
        /\ holder' \in Callers \cup {Nobody}
        /\ start' \in [Callers -> 0..now']
        /\ out' \in [Callers -> [tok : 0..Len(minted'), at : 0..now']]
    BY <1>0 DEF TokenTyped
  <2> QED
    BY <1>1, <1>3, <2>1, <2>2, <2>3, <2>4 DEF TokenTyped
<1>7. CacheInv' /\ Token!SavedPairMatches'
  BY <1>0 DEF CacheInv, Token!SavedPairMatches
<1>8. \A d \in Callers : d # c => TimeOf(d)' /\ SnapshotOf(d)' /\ HandedOf(d)'
  BY <1>0, <1>3, OthersKept
<1>9. TimeOf(c)' /\ SnapshotOf(c)'
  BY <1>3 DEF TimeOf, SnapshotOf, Token!Fresh
<1>10. HandedOf(c)'
  BY <1>0 DEF HandedOf, Token!HandedOutUnexpired
<1> QED
  BY <1>5, <1>6, <1>7, <1>8, <1>9, <1>10, TokenParts

LEMMA AcquireStep ==
    ASSUME Token!TokenAssumption, TokenInv, NEW c \in Callers, Token!Acquire(c)
    PROVE  TokenInv'
<1>0. /\ TokenTyped /\ QueueInv /\ CacheInv /\ TimeInv /\ SnapshotInv
      /\ Token!HandedOutUnexpired /\ Token!SavedPairMatches
      /\ Nobody \notin Callers
  BY DEF TokenInv, Token!TokenAssumption
<1>a. /\ holder = Nobody /\ holder' = c /\ pc' = [pc EXCEPT ![c] = "checking"]
      /\ queue # <<>> /\ c = Head(queue) /\ queue' = Tail(queue)
      /\ UNCHANGED <<now, cache, t0, start, out, saved, minted, calls>>
  BY DEF Token!Acquire
<1>1. /\ queue' \in Seq(Callers) /\ Len(queue') = Len(queue) - 1 /\ Len(queue) >= 1
      /\ \A i \in 1..(Len(queue) - 1) : queue'[i] = queue[i + 1] /\ queue[i + 1] # c
      /\ c = queue[1]
  BY <1>0, <1>a, QueueFacts
<1>2. /\ pc \in [Callers -> TokenSteps] /\ Len(queue) \in Nat
      /\ \A i, j \in 1..Len(queue) : queue[i] = queue[j] => i = j
      /\ queue \in Seq(Callers)
  BY <1>0 DEF TokenTyped
<1>3. /\ pc' \in [Callers -> TokenSteps] /\ pc'[c] = "checking" /\ pc[c] = "waiting"
      /\ \A d \in Callers : d # c => pc'[d] = pc[d]
  <2>1. Queued(c)
    BY <1>1, <1>2 DEF Queued
  <2>2. pc[c] = "waiting"
    BY <1>0, <2>1 DEF TokenTyped
  <2> QED
    BY <1>2, <1>a, <2>2 DEF TokenSteps
<1>4. \A i \in 1..Len(queue') : i + 1 \in 1..Len(queue) /\ queue'[i] = queue[i + 1]
  BY <1>1, <1>2
<1>5. QueueInv'
  <2>1. ASSUME NEW i \in 1..Len(queue'), NEW j \in 1..Len(queue'), i < j
        PROVE  t0[queue'[i]] <= t0[queue'[j]]
    <3>1. i + 1 < j + 1 /\ i + 1 \in 1..Len(queue) /\ j + 1 \in 1..Len(queue)
      BY <1>4, <2>1
    <3> QED
      BY <1>0, <1>4, <3>1 DEF QueueInv
  <2>2. ASSUME NEW i \in 1..Len(queue') PROVE t0[c] <= t0[queue'[i]]
    <3>1. 1 < i + 1 /\ 1 \in 1..Len(queue) /\ i + 1 \in 1..Len(queue)
      BY <1>1, <1>2, <1>4
    <3> QED
      BY <1>0, <1>1, <1>4, <3>1 DEF QueueInv
  <2> QED
    BY <1>a, <2>1, <2>2 DEF QueueInv
<1>6. TokenTyped'
  <2>1. \A d \in Callers : (d = holder)' <=> pc'[d] \in {"checking", "exchanging"}
    BY <1>0, <1>3, <1>a DEF TokenTyped
  <2>2. ASSUME NEW d \in Callers PROVE Queued(d)' <=> pc'[d] = "waiting"
    <3>1. Queued(d) <=> pc[d] = "waiting"
      BY <1>0 DEF TokenTyped
    <3>2. CASE d = c
      BY <1>1, <1>3, <1>4, <3>2 DEF Queued
    <3>3. CASE d # c
      <4>1. ASSUME NEW i \in 1..Len(queue'), queue'[i] = d PROVE Queued(d)
        BY <1>4, <4>1 DEF Queued
      <4>2. ASSUME NEW i \in 1..Len(queue), queue[i] = d PROVE Queued(d)'
        <5>1. PICK j \in 1..Len(queue') : j + 1 = i
          BY <1>1, <1>2, <3>3, <4>2
        <5> QED
          BY <1>4, <4>2, <5>1 DEF Queued
      <4> QED
        BY <1>3, <3>1, <3>3, <4>1, <4>2 DEF Queued
    <3> QED
      BY <3>2, <3>3
  <2>3. ASSUME NEW i \in 1..Len(queue'), NEW j \in 1..Len(queue'), queue'[i] = queue'[j] PROVE i = j
    <3>1. i + 1 = j + 1
      BY <1>2, <1>4, <2>3
    <3> QED
      BY <3>1
  <2>4. /\ now' \in Nat /\ minted' \in Seq(Int) /\ cache' \in [tok : 0..Len(minted'), exp : Int]
        /\ saved' \subseteq [tok : 1..Len(minted'), exp : Int]
        /\ holder' \in Callers \cup {Nobody} /\ calls' \in [Callers -> 0..Calls]
        /\ start' \in [Callers -> 0..now'] /\ t0' \in [Callers -> 0..now']
        /\ out' \in [Callers -> [tok : 0..Len(minted'), at : 0..now']]
    BY <1>0, <1>a DEF TokenTyped
  <2> QED
    BY <1>1, <1>3, <2>1, <2>2, <2>3, <2>4 DEF TokenTyped
<1>7. CacheInv' /\ Token!SavedPairMatches'
  BY <1>0, <1>a DEF CacheInv, Token!SavedPairMatches
<1>8. \A d \in Callers : d # c => TimeOf(d)' /\ SnapshotOf(d)' /\ HandedOf(d)'
  BY <1>0, <1>3, <1>a, OthersKept
<1>9. TimeOf(c)' /\ SnapshotOf(c)'
  BY <1>0, <1>3, <1>a DEF TimeOf, SnapshotOf, TimeInv, Token!Fresh
<1>10. HandedOf(c)'
  BY <1>0, <1>a DEF HandedOf, Token!HandedOutUnexpired
<1> QED
  BY <1>5, <1>6, <1>7, <1>8, <1>9, <1>10, TokenParts

\* The second look finds nothing and the exchange is posted.
LEMMA PostStep ==
    ASSUME Token!TokenAssumption, TokenInv, NEW c \in Callers, pc[c] = "checking",
           ~Token!Fresh(t0[c]),
           pc' = [pc EXCEPT ![c] = "exchanging"], start' = [start EXCEPT ![c] = now],
           UNCHANGED <<out, holder, t0, now, cache, queue, saved, minted, calls>>
    PROVE  TokenInv'
<1>0. /\ TokenTyped /\ QueueInv /\ CacheInv /\ TimeInv /\ SnapshotInv
      /\ Token!HandedOutUnexpired /\ Token!SavedPairMatches
      /\ Delay \in Nat
  BY DEF TokenInv, Token!TokenAssumption
<1>1. /\ now \in Nat /\ pc \in [Callers -> TokenSteps] /\ start \in [Callers -> 0..now]
  BY <1>0 DEF TokenTyped
<1>2. /\ start' \in [Callers -> 0..now] /\ pc' \in [Callers -> TokenSteps]
      /\ start'[c] = now /\ pc'[c] = "exchanging"
      /\ \A d \in Callers : d # c => pc'[d] = pc[d] /\ start'[d] = start[d]
  BY <1>1 DEF TokenSteps
<1>3. QueueInv' /\ CacheInv' /\ Token!SavedPairMatches'
  BY <1>0 DEF QueueInv, CacheInv, Token!SavedPairMatches
<1>4. TokenTyped'
  <2>1. \A d \in Callers : (d = holder)' <=> pc'[d] \in {"checking", "exchanging"}
    BY <1>0, <1>2 DEF TokenTyped
  <2>2. ASSUME NEW d \in Callers PROVE Queued(d)' <=> pc'[d] = "waiting"
    <3>1. (Queued(d) <=> pc[d] = "waiting") /\ (Queued(d)' <=> Queued(d))
      BY <1>0 DEF TokenTyped, Queued
    <3> QED
      BY <1>2, <3>1
  <2>3. /\ now' \in Nat /\ minted' \in Seq(Int) /\ cache' \in [tok : 0..Len(minted'), exp : Int]
        /\ saved' \subseteq [tok : 1..Len(minted'), exp : Int]
        /\ holder' \in Callers \cup {Nobody} /\ calls' \in [Callers -> 0..Calls]
        /\ t0' \in [Callers -> 0..now']
        /\ out' \in [Callers -> [tok : 0..Len(minted'), at : 0..now']]
        /\ queue' \in Seq(Callers)
        /\ \A i, j \in 1..Len(queue') : queue'[i] = queue'[j] => i = j
    BY <1>0 DEF TokenTyped
  <2> QED
    BY <1>2, <2>1, <2>2, <2>3 DEF TokenTyped
<1>5. \A d \in Callers : d # c => TimeOf(d)' /\ SnapshotOf(d)' /\ HandedOf(d)'
  BY <1>0, <1>2, OthersKept
<1>6. TimeOf(c)' /\ SnapshotOf(c)'
  BY <1>0, <1>1, <1>2 DEF TimeOf, SnapshotOf, Token!Fresh
<1>7. HandedOf(c)'
  BY <1>0 DEF HandedOf, Token!HandedOutUnexpired
<1> QED
  BY <1>3, <1>4, <1>5, <1>6, <1>7, TokenParts

\* A waiter is cancelled.
LEMMA LeaveQueueStep ==
    ASSUME Token!TokenAssumption, TokenInv, NEW c \in Callers, pc[c] = "waiting",
           NEW n \in 1..Len(queue), queue[n] = c, queue' = Token!RemoveAt(queue, n),
           Token!Return(c, 0, "use"),
           UNCHANGED <<now, cache, holder, saved, minted, calls>>
    PROVE  TokenInv'
<1>0. /\ TokenTyped /\ QueueInv /\ CacheInv /\ TimeInv /\ SnapshotInv
      /\ Token!HandedOutUnexpired /\ Token!SavedPairMatches
      /\ Nobody \notin Callers
  BY DEF TokenInv, Token!TokenAssumption
<1>1. /\ Len(minted) \in Nat /\ now \in Nat /\ minted \in Seq(Int)
      /\ queue \in Seq(Callers) /\ Len(queue) \in Nat
      /\ \A i, j \in 1..Len(queue) : queue[i] = queue[j] => i = j
  <2>1. /\ now \in Nat /\ minted \in Seq(Int) /\ queue \in Seq(Callers)
        /\ \A i, j \in 1..Len(queue) : queue[i] = queue[j] => i = j
    BY <1>0 DEF TokenTyped
  <2> QED
    BY <2>1
<1>2. /\ t0' \in [Callers -> 0..now] /\ start' \in [Callers -> 0..now]
      /\ out' \in [Callers -> [tok : 0..Len(minted), at : 0..now]]
      /\ pc' \in [Callers -> TokenSteps]
      /\ pc'[c] = "idle" /\ out'[c].tok = 0
      /\ \A d \in Callers : d # c => /\ pc'[d] = pc[d] /\ t0'[d] = t0[d]
                                     /\ start'[d] = start[d] /\ out'[d] = out[d]
  <2>1. 0 \in 0..Len(minted) /\ Len(minted) <= Len(minted)
    BY <1>1
  <2> QED
    BY <1>0, <1>1, <2>1, ReturnFacts
<1>3. /\ queue' \in Seq(Callers) /\ Len(queue') = Len(queue) - 1
      /\ \A i \in 1..(Len(queue) - 1) : queue'[i] = IF i < n THEN queue[i] ELSE queue[i + 1]
  BY <1>1, RemoveAtFacts
<1> DEFINE at(i) == IF i < n THEN i ELSE i + 1
<1>4. ASSUME NEW i \in 1..Len(queue')
      PROVE  at(i) \in 1..Len(queue) /\ at(i) # n /\ queue'[i] = queue[at(i)]
  BY <1>1, <1>3
<1>5. \A i, j \in 1..Len(queue') : (i < j => at(i) < at(j)) /\ (at(i) = at(j) => i = j)
  BY <1>1, <1>3
<1>6. \A i \in 1..Len(queue') : /\ queue'[i] \in Callers /\ queue'[i] # c
                                /\ t0'[queue'[i]] = t0[queue[at(i)]]
  <2> TAKE i \in 1..Len(queue')
  <2>1. queue'[i] \in Callers
    BY <1>3
  <2>2. queue'[i] # c
    BY <1>1, <1>4
  <2> QED
    BY <1>2, <1>4, <2>1, <2>2
<1> HIDE DEF at
<1>7. QueueInv'
  <2>1. ASSUME NEW i \in 1..Len(queue'), NEW j \in 1..Len(queue'), i < j
        PROVE  t0'[queue'[i]] <= t0'[queue'[j]]
    BY <1>0, <1>4, <1>5, <1>6, <2>1 DEF QueueInv
  <2>2. ASSUME holder # Nobody, NEW i \in 1..Len(queue') PROVE t0'[holder] <= t0'[queue'[i]]
    <3>1. holder \in Callers /\ holder # c
      BY <1>0, <2>2 DEF TokenTyped
    <3> QED
      BY <1>0, <1>2, <1>4, <1>6, <2>2, <3>1 DEF QueueInv
  <2> QED
    BY <2>1, <2>2 DEF QueueInv
<1>8. TokenTyped'
  <2>1. \A d \in Callers : (d = holder)' <=> pc'[d] \in {"checking", "exchanging"}
    BY <1>0, <1>2 DEF TokenTyped
  <2>2. ASSUME NEW d \in Callers PROVE Queued(d)' <=> pc'[d] = "waiting"
    <3>1. Queued(d) <=> pc[d] = "waiting"
      BY <1>0 DEF TokenTyped
    <3>2. CASE d = c
      BY <1>2, <1>6, <3>2 DEF Queued
    <3>3. CASE d # c
      <4>1. ASSUME NEW i \in 1..Len(queue'), queue'[i] = d PROVE Queued(d)
        BY <1>4, <4>1 DEF Queued
      <4>2. ASSUME NEW i \in 1..Len(queue), queue[i] = d PROVE Queued(d)'
        <5>1. i # n
          BY <3>3, <4>2
        <5>2. PICK j \in 1..Len(queue') : at(j) = i
          <6>1. CASE i < n
            <7>1. i \in 1..Len(queue')
              BY <1>1, <1>3, <6>1
            <7> QED
              BY <6>1, <7>1 DEF at
          <6>2. CASE i > n
            <7>1. i - 1 \in 1..Len(queue') /\ ~(i - 1 < n) /\ (i - 1) + 1 = i
              BY <1>1, <1>3, <6>2
            <7> QED
              BY <7>1 DEF at
          <6>3. i \in Int /\ n \in Int
            OBVIOUS
          <6>4. i < n \/ i > n
            BY <5>1, <6>3
          <6> QED
            BY <6>1, <6>2, <6>4
        <5> QED
          BY <1>4, <4>2, <5>2 DEF Queued
      <4> QED
        BY <1>2, <3>1, <3>3, <4>1, <4>2 DEF Queued
    <3> QED
      BY <3>2, <3>3
  <2>3. ASSUME NEW i \in 1..Len(queue'), NEW j \in 1..Len(queue'), queue'[i] = queue'[j] PROVE i = j
    BY SMTT(30), <1>1, <1>4, <1>5, <2>3
  <2>4. /\ now' \in Nat /\ minted' \in Seq(Int) /\ cache' \in [tok : 0..Len(minted'), exp : Int]
        /\ saved' \subseteq [tok : 1..Len(minted'), exp : Int]
        /\ holder' \in Callers \cup {Nobody} /\ calls' \in [Callers -> 0..Calls]
    BY <1>0 DEF TokenTyped
  <2> QED
    BY <1>2, <1>3, <2>1, <2>2, <2>3, <2>4 DEF TokenTyped
<1>9. CacheInv' /\ Token!SavedPairMatches'
  BY <1>0 DEF CacheInv, Token!SavedPairMatches
<1>10. \A d \in Callers : d # c => TimeOf(d)' /\ SnapshotOf(d)' /\ HandedOf(d)'
  BY <1>0, <1>2, OthersKept
<1>11. TimeOf(c)' /\ SnapshotOf(c)' /\ HandedOf(c)'
  BY <1>2 DEF TimeOf, SnapshotOf, HandedOf
<1> QED
  BY <1>7, <1>8, <1>9, <1>10, <1>11, TokenParts

\* The exchange answers.
LEMMA ExchangedStep ==
    ASSUME Token!TokenAssumption, TokenInv, NEW c \in Callers, NEW kind, Token!Exchanged(c, kind)
    PROVE  TokenInv'
<1>0. /\ TokenTyped /\ QueueInv /\ CacheInv /\ TimeInv /\ SnapshotInv
      /\ Token!HandedOutUnexpired /\ Token!SavedPairMatches
      /\ Nobody \notin Callers /\ Delay \in Nat
      /\ \A l \in Lifetimes : l \in Nat /\ l > Delay
  BY DEF TokenInv, Token!TokenAssumption
<1>1. /\ now \in Nat /\ minted \in Seq(Int) /\ Len(minted) \in Nat
      /\ start[c] \in 0..now /\ pc \in [Callers -> TokenSteps]
      /\ cache \in [tok : 0..Len(minted), exp : Int]
  BY <1>0 DEF TokenTyped
<1> DEFINE n == Len(minted) + 1
<1>2. /\ pc[c] = "exchanging" /\ now > start[c] /\ now <= start[c] + Delay
  BY <1>0 DEF Token!Exchanged, TimeInv
<1>3. PICK e \in Int : minted' = Append(minted, e) /\ e > now
  <2>1. PICK l \in Lifetimes, at \in {start[c], now} : minted' = Append(minted, at + l)
    BY DEF Token!Exchanged
  <2>2. at + l \in Int /\ at + l > now
    BY <1>0, <1>1, <1>2, <2>1
  <2> QED
    BY <2>1, <2>2
<1>4. /\ minted' \in Seq(Int) /\ Len(minted') = n /\ minted'[n] = e
      /\ \A i \in 1..Len(minted) : minted'[i] = minted[i]
  BY <1>1, <1>3
<1>5. cache' = [tok |-> n, exp |-> e]
  <2>1. cache' = [tok |-> Len(minted'), exp |-> minted'[Len(minted')]]
    BY DEF Token!Exchanged, Token!Last
  <2> QED
    BY <1>4, <2>1
<1>6. /\ Token!Return(c, n, kind) /\ holder' = Nobody /\ UNCHANGED <<now, queue, saved, calls>>
  BY <1>4 DEF Token!Exchanged, Token!Unlock
<1>7. /\ t0' \in [Callers -> 0..now] /\ start' \in [Callers -> 0..now]
      /\ out' \in [Callers -> [tok : 0..n, at : 0..now]]
      /\ pc' \in [Callers -> TokenSteps]
      /\ pc'[c] \in {"idle", "snapshot"}
      /\ out'[c].tok = n /\ out'[c].at = now
      /\ \A d \in Callers : d # c => /\ pc'[d] = pc[d] /\ t0'[d] = t0[d]
                                     /\ start'[d] = start[d] /\ out'[d] = out[d]
  <2>1. n \in Nat /\ n \in 0..n /\ Len(minted) <= n /\ n # 0
    BY <1>1
  <2>2. PICK m \in Nat : m = n
    BY <2>1
  <2> HIDE DEF n
  <2> QED
    BY <1>0, <1>6, <2>1, <2>2, ReturnFacts
<1>8. ~Queued(c) /\ holder = c
  BY <1>0, <1>2 DEF TokenTyped
<1>9. QueueInv'
  BY <1>0, <1>6, <1>7, <1>8, QueueKept
<1>10. \A d \in Callers : d # c => pc[d] \notin {"checking", "exchanging", "snapshot"}
  <2>1. \A d \in Callers : d # c => pc[d] \notin {"checking", "exchanging"}
    BY <1>0, <1>8 DEF TokenTyped
  <2>2. \A d \in Callers : pc[d] = "snapshot" => start[c] = now
    BY <1>0, <1>2 DEF SnapshotInv
  <2>3. start[c] # now
    BY <1>1, <1>2
  <2> QED
    BY <2>1, <2>2, <2>3
<1>11. TokenTyped'
  <2>1. \A d \in Callers : (d = holder)' <=> pc'[d] \in {"checking", "exchanging"}
    BY <1>0, <1>6, <1>7, <1>10
  <2>2. ASSUME NEW d \in Callers PROVE Queued(d)' <=> pc'[d] = "waiting"
    <3>1. (Queued(d) <=> pc[d] = "waiting") /\ (Queued(d)' <=> Queued(d))
      BY <1>0, <1>6 DEF TokenTyped, Queued
    <3> QED
      BY <1>7, <1>8, <3>1
  <2>3. cache' \in [tok : 0..Len(minted'), exp : Int]
    BY <1>1, <1>3, <1>4, <1>5
  <2>4. saved' \subseteq [tok : 1..Len(minted'), exp : Int]
    <3>1. saved \subseteq [tok : 1..Len(minted), exp : Int]
      BY <1>0 DEF TokenTyped
    <3>2. 1..Len(minted) \subseteq 1..n
      BY <1>1
    <3> QED
      BY <1>4, <1>6, <3>1, <3>2
  <2>5. /\ now' \in Nat /\ holder' \in Callers \cup {Nobody} /\ calls' \in [Callers -> 0..Calls]
        /\ queue' \in Seq(Callers)
        /\ \A i, j \in 1..Len(queue') : queue'[i] = queue'[j] => i = j
    BY <1>0, <1>6 DEF TokenTyped
  <2>6. /\ t0' \in [Callers -> 0..now'] /\ start' \in [Callers -> 0..now']
        /\ out' \in [Callers -> [tok : 0..Len(minted'), at : 0..now']]
    BY <1>4, <1>6, <1>7
  <2> QED
    BY <1>4, <1>7, <2>1, <2>2, <2>3, <2>4, <2>5, <2>6 DEF TokenTyped
<1>12. CacheInv'
  BY <1>1, <1>4, <1>5 DEF CacheInv
<1>13. Token!SavedPairMatches'
  <2>1. saved \subseteq [tok : 1..Len(minted), exp : Int]
    BY <1>0 DEF TokenTyped
  <2>2. \A p \in saved : p.exp \in {-1, minted[p.tok]}
    BY <1>0 DEF Token!SavedPairMatches, Token!NoExp
  <2>3. \A p \in saved : minted'[p.tok] = minted[p.tok]
    BY <1>4, <2>1
  <2> QED
    BY <1>6, <2>2, <2>3 DEF Token!SavedPairMatches, Token!NoExp
<1>14. ASSUME NEW d \in Callers PROVE TimeOf(d)'
  <2>1. pc'[d] # "exchanging"
    BY <1>7, <1>10
  <2>2. cache'.exp > now'
    BY <1>3, <1>5, <1>6
  <2> QED
    BY <2>1, <2>2 DEF TimeOf
<1>15. ASSUME NEW d \in Callers PROVE SnapshotOf(d)'
  <2>1. CASE d = c
    <3>1. out'[c].tok # 0 /\ cache'.tok = out'[c].tok
      BY <1>1, <1>5, <1>7
    <3>2. \A x \in Callers : pc'[x] # "exchanging"
      BY <1>7, <1>10
    <3> QED
      BY <2>1, <3>1, <3>2 DEF SnapshotOf
  <2>2. CASE d # c
    BY <1>7, <1>10, <2>2 DEF SnapshotOf
  <2> QED
    BY <2>1, <2>2
<1>16. ASSUME NEW d \in Callers PROVE HandedOf(d)'
  <2>1. CASE d = c
    BY <1>3, <1>4, <1>7, <2>1 DEF HandedOf
  <2>2. CASE d # c
    <3>1. out'[d] = out[d] /\ HandedOf(d) /\ out[d].tok \in 0..Len(minted)
      BY <1>0, <1>7, <2>2 DEF HandedOf, Token!HandedOutUnexpired, TokenTyped
    <3>2. out[d].tok # 0 => minted'[out[d].tok] = minted[out[d].tok]
      BY SMTT(30), <1>1, <1>4, <3>1
    <3> QED
      BY <3>1, <3>2 DEF HandedOf
  <2> QED
    BY <2>1, <2>2
<1> QED
  BY <1>9, <1>11, <1>12, <1>13, <1>14, <1>15, <1>16, TokenParts

\* refresh pairs the token with the cache's expiry.
LEMMA SnapshotStep ==
    ASSUME TokenInv, NEW c \in Callers, Token!Snapshot(c)
    PROVE  TokenInv'
<1>0. /\ TokenTyped /\ QueueInv /\ CacheInv /\ TimeInv /\ SnapshotInv
      /\ Token!HandedOutUnexpired /\ Token!SavedPairMatches
  BY DEF TokenInv
<1>1. /\ pc[c] = "snapshot" /\ saved' = saved \cup {[tok |-> out[c].tok, exp |-> cache.exp]}
      /\ pc' = [pc EXCEPT ![c] = "idle"]
      /\ UNCHANGED <<now, cache, holder, queue, t0, start, out, minted, calls>>
  BY DEF Token!Snapshot
<1>2. /\ pc \in [Callers -> TokenSteps] /\ out[c].tok \in 1..Len(minted)
      /\ cache \in [tok : 0..Len(minted), exp : Int] /\ out[c].tok \in 0..Len(minted)
      /\ cache.tok = 0 \/ cache.tok = out[c].tok
  <2>1. /\ pc \in [Callers -> TokenSteps] /\ minted \in Seq(Int)
        /\ cache \in [tok : 0..Len(minted), exp : Int] /\ out[c].tok \in 0..Len(minted)
    BY <1>0 DEF TokenTyped
  <2>2. out[c].tok # 0 /\ (cache.tok = 0 \/ cache.tok = out[c].tok)
    BY <1>0, <1>1 DEF SnapshotInv
  <2> QED
    BY <2>1, <2>2
<1>3. /\ pc' \in [Callers -> TokenSteps] /\ pc'[c] = "idle"
      /\ \A d \in Callers : d # c => pc'[d] = pc[d]
  BY <1>1, <1>2 DEF TokenSteps
<1>4. QueueInv' /\ CacheInv'
  BY <1>0, <1>1 DEF QueueInv, CacheInv
<1>5. TokenTyped'
  <2>1. \A d \in Callers : (d = holder)' <=> pc'[d] \in {"checking", "exchanging"}
    BY <1>0, <1>1, <1>3 DEF TokenTyped
  <2>2. ASSUME NEW d \in Callers PROVE Queued(d)' <=> pc'[d] = "waiting"
    <3>1. (Queued(d) <=> pc[d] = "waiting") /\ (Queued(d)' <=> Queued(d))
      BY <1>0, <1>1 DEF TokenTyped, Queued
    <3> QED
      BY <1>1, <1>3, <3>1
  <2>3. saved' \subseteq [tok : 1..Len(minted'), exp : Int]
    BY <1>0, <1>1, <1>2, SMTT(30) DEF TokenTyped
  <2>4. /\ now' \in Nat /\ minted' \in Seq(Int) /\ cache' \in [tok : 0..Len(minted'), exp : Int]
        /\ holder' \in Callers \cup {Nobody} /\ calls' \in [Callers -> 0..Calls]
        /\ t0' \in [Callers -> 0..now'] /\ start' \in [Callers -> 0..now']
        /\ out' \in [Callers -> [tok : 0..Len(minted'), at : 0..now']]
        /\ queue' \in Seq(Callers)
        /\ \A i, j \in 1..Len(queue') : queue'[i] = queue'[j] => i = j
    BY <1>0, <1>1 DEF TokenTyped
  <2> QED
    BY <1>3, <2>1, <2>2, <2>3, <2>4 DEF TokenTyped
<1>6. Token!SavedPairMatches'
  <2>1. cache.exp \in {-1, minted[out[c].tok]}
    BY <1>0, <1>2 DEF CacheInv
  <2>2. \A p \in saved : p.exp \in {-1, minted[p.tok]}
    BY <1>0 DEF Token!SavedPairMatches, Token!NoExp
  <2> QED
    BY <1>1, <2>1, <2>2 DEF Token!SavedPairMatches, Token!NoExp
<1>7. \A d \in Callers : d # c => TimeOf(d)' /\ SnapshotOf(d)' /\ HandedOf(d)'
  BY <1>0, <1>1, <1>3, OthersKept
<1>8. TimeOf(c)' /\ SnapshotOf(c)'
  BY <1>3 DEF TimeOf, SnapshotOf
<1>9. HandedOf(c)'
  BY <1>0, <1>1 DEF HandedOf, Token!HandedOutUnexpired
<1> QED
  BY <1>4, <1>5, <1>6, <1>7, <1>8, <1>9, TokenParts

LEMMA InvalidateStep ==
    ASSUME TokenInv, Token!Invalidate
    PROVE  TokenInv'
<1>0. /\ TokenTyped /\ QueueInv /\ CacheInv /\ TimeInv /\ SnapshotInv
      /\ Token!HandedOutUnexpired /\ Token!SavedPairMatches
  BY DEF TokenInv
<1>1. /\ cache' = [tok |-> 0, exp |-> -1]
      /\ UNCHANGED <<now, holder, queue, pc, t0, start, out, saved, minted, calls>>
  BY DEF Token!Invalidate, Token!Empty, Token!NoExp
<1>2. cache'.tok = 0 /\ cache'.exp = -1
  BY <1>1
<1>3. TokenTyped'
  <2>1. cache' \in [tok : 0..Len(minted'), exp : Int]
    <3>1. minted \in Seq(Int)
      BY <1>0 DEF TokenTyped
    <3> QED
      BY <1>1, <3>1
  <2>2. \A d \in Callers : Queued(d)' <=> pc'[d] = "waiting"
    BY <1>0, <1>1 DEF TokenTyped, Queued
  <2> QED
    BY <1>0, <1>1, <2>1, <2>2 DEF TokenTyped
<1>4. QueueInv' /\ CacheInv' /\ Token!SavedPairMatches'
  BY <1>0, <1>1, <1>2 DEF QueueInv, CacheInv, Token!SavedPairMatches
<1>5. ASSUME NEW d \in Callers PROVE TimeOf(d)'
  <2>1. TimeOf(d)
    BY <1>0 DEF TimeInv, TimeOf
  <2> QED
    BY <1>1, <1>2, <2>1 DEF TimeOf, Token!Fresh
<1>6. ASSUME NEW d \in Callers PROVE SnapshotOf(d)' /\ HandedOf(d)'
  <2>1. SnapshotOf(d) /\ HandedOf(d)
    BY <1>0 DEF SnapshotInv, SnapshotOf, HandedOf, Token!HandedOutUnexpired
  <2> QED
    BY <1>1, <1>2, <2>1 DEF SnapshotOf, HandedOf
<1> QED
  BY <1>3, <1>4, <1>5, <1>6, TokenParts

\* Time passes: whoever still waits does so behind an exchange that was needed by an
\* older reading than its own.
LEMMA TickStep ==
    ASSUME Token!TokenAssumption, TokenInv, Token!Tick
    PROVE  TokenInv'
<1>0. /\ TokenTyped /\ QueueInv /\ CacheInv /\ TimeInv /\ SnapshotInv
      /\ Token!HandedOutUnexpired /\ Token!SavedPairMatches
      /\ SKEW \in Nat /\ Delay \in Nat
  BY DEF TokenInv, Token!TokenAssumption
<1>1. /\ now' = now + 1
      /\ holder # Nobody \/ queue = <<>>
      /\ \A c \in Callers : pc[c] \notin {"checking", "snapshot"}
      /\ \A c \in Callers : pc[c] = "exchanging" => now < start[c] + Delay
      /\ UNCHANGED <<cache, holder, queue, pc, t0, start, out, saved, minted, calls>>
  BY DEF Token!Tick
<1>2. /\ now \in Nat /\ now' \in Nat /\ cache.exp \in Int
      /\ t0 \in [Callers -> 0..now] /\ start \in [Callers -> 0..now]
      /\ out \in [Callers -> [tok : 0..Len(minted), at : 0..now]]
      /\ queue \in Seq(Callers)
  <2>1. /\ now \in Nat /\ t0 \in [Callers -> 0..now] /\ start \in [Callers -> 0..now]
        /\ out \in [Callers -> [tok : 0..Len(minted), at : 0..now]]
        /\ queue \in Seq(Callers)
    BY <1>0, Zenon DEF TokenTyped
  <2>2. minted \in Seq(Int) /\ cache \in [tok : 0..Len(minted), exp : Int]
    BY <1>0, Zenon DEF TokenTyped
  <2>3. cache.exp \in Int
    BY <2>2
  <2> QED
    BY <1>1, <2>1, <2>3
<1>3. 0..now \subseteq 0..now'
  BY <1>1, <1>2
<1>4. TokenTyped'
  <2>1. t0' \in [Callers -> 0..now'] /\ start' \in [Callers -> 0..now']
    BY <1>1, <1>2, <1>3
  <2>2. out' \in [Callers -> [tok : 0..Len(minted'), at : 0..now']]
    <3>1. \A c \in Callers : out[c] \in [tok : 0..Len(minted), at : 0..now']
      BY <1>2, <1>3
    <3> QED
      BY <1>1, <1>2, <3>1
  <2>3. \A d \in Callers : Queued(d)' <=> pc'[d] = "waiting"
    BY <1>0, <1>1 DEF TokenTyped, Queued
  <2>4. /\ minted' \in Seq(Int) /\ cache' \in [tok : 0..Len(minted'), exp : Int]
        /\ saved' \subseteq [tok : 1..Len(minted'), exp : Int]
        /\ holder' \in Callers \cup {Nobody} /\ calls' \in [Callers -> 0..Calls]
        /\ pc' \in [Callers -> TokenSteps] /\ queue' \in Seq(Callers)
        /\ \A i, j \in 1..Len(queue') : queue'[i] = queue'[j] => i = j
    <3>1. /\ minted \in Seq(Int) /\ cache \in [tok : 0..Len(minted), exp : Int]
          /\ saved \subseteq [tok : 1..Len(minted), exp : Int]
          /\ holder \in Callers \cup {Nobody} /\ calls \in [Callers -> 0..Calls]
          /\ pc \in [Callers -> TokenSteps] /\ queue \in Seq(Callers)
          /\ \A i, j \in 1..Len(queue) : queue[i] = queue[j] => i = j
      BY <1>0, Zenon DEF TokenTyped
    <3> QED
      BY <1>1, <3>1, ZenonT(30)
  <2>5. \A c \in Callers : (c = holder)' <=> pc'[c] \in {"checking", "exchanging"}
    BY <1>0, <1>1 DEF TokenTyped
  <2> QED
    BY <1>2, <2>1, <2>2, <2>3, <2>4, <2>5 DEF TokenTyped
<1>5. QueueInv' /\ CacheInv' /\ Token!SavedPairMatches'
  BY <1>0, <1>1 DEF QueueInv, CacheInv, Token!SavedPairMatches
<1>6. ASSUME NEW d \in Callers, pc[d] = "waiting" PROVE ~Token!Fresh(t0[d])
  <2>1. PICK i \in 1..Len(queue) : queue[i] = d
    BY <1>0, <1>6 DEF TokenTyped, Queued
  <2>2. holder \in Callers /\ holder # Nobody
    BY <1>0, <1>1, <1>2, <2>1 DEF TokenTyped
  <2>3. pc[holder] = "exchanging"
    BY <1>0, <1>1, <2>2 DEF TokenTyped
  <2>4. ~Token!Fresh(t0[holder]) /\ t0[holder] <= t0[d]
    BY <1>0, <2>1, <2>2, <2>3 DEF TimeInv, QueueInv
  <2>5. t0[holder] \in Int /\ t0[d] \in Int
    BY <1>2, <2>2
  <2> QED
    BY <1>0, <1>2, <2>4, <2>5, FreshEarlier
<1>7. ASSUME NEW d \in Callers PROVE TimeOf(d)'
  <2>1. TimeOf(d) /\ start[d] \in 0..now
    BY <1>0, <1>2 DEF TimeInv, TimeOf
  <2>2. pc'[d] = "exchanging" => now' <= start'[d] + Delay
    BY <1>0, <1>1, <1>2, <2>1
  <2>3. pc'[d] = "exchanging" => ~Token!Fresh(t0[d])'
    BY <1>1, <2>1 DEF TimeOf, Token!Fresh
  <2>4. pc'[d] \in {"waiting", "checking"} => ~Token!Fresh(t0[d])'
    BY <1>1, <1>6 DEF Token!Fresh
  <2> QED
    BY <2>2, <2>3, <2>4 DEF TimeOf
<1>8. ASSUME NEW d \in Callers PROVE SnapshotOf(d)' /\ HandedOf(d)'
  BY <1>0, <1>1 DEF SnapshotOf, HandedOf, Token!HandedOutUnexpired
<1> QED
  BY <1>4, <1>5, <1>7, <1>8, TokenParts

LEMMA TokenStep ==
    ASSUME Token!TokenAssumption, TokenInv, [Token!Next]_(Token!vars)
    PROVE  TokenInv'
<1>0. /\ TokenTyped /\ TimeInv /\ CacheInv /\ SKEW \in Nat /\ Calls \in Nat
      /\ Nobody \notin Callers
  BY DEF TokenInv, Token!TokenAssumption
<1>1. /\ now \in Nat /\ cache.exp \in Int /\ t0 \in [Callers -> 0..now]
      /\ calls \in [Callers -> 0..Calls]
  BY <1>0 DEF TokenTyped
<1>2. ASSUME NEW c \in Callers, NEW kind, Token!Call(c, kind) PROVE TokenInv'
  <2>1. pc[c] = "idle" /\ UNCHANGED <<now, cache, holder, saved, minted>>
    BY <1>2 DEF Token!Call
  <2>2. calls' \in [Callers -> 0..Calls]
    BY <1>0, <1>1, <1>2 DEF Token!Call
  <2>3. CASE Token!Fresh(now) /\ Token!Return(c, cache.tok, kind) /\ UNCHANGED queue
    <3>1. cache.tok # 0 /\ cache.exp # -1 /\ cache.exp > now
      BY <1>0, <1>1, <2>3 DEF Token!Fresh, Token!NoExp
    <3>2. \A d \in Callers : pc[d] # "exchanging"
      <4>1. ASSUME NEW d \in Callers, pc[d] = "exchanging" PROVE FALSE
        <5>1. ~Token!Fresh(t0[d]) /\ t0[d] \in 0..now
          BY <1>0, <1>1, <4>1 DEF TimeInv
        <5> QED
          BY <1>0, <1>1, <2>3, <5>1 DEF Token!Fresh
      <4> QED
        BY <4>1
    <3>3. holder # c
      BY <1>0, <2>1 DEF TokenTyped
    <3> QED
      BY <2>1, <2>2, <2>3, <3>1, <3>2, <3>3, LeaveStep
  <2>4. CASE /\ ~Token!Fresh(now) /\ queue' = Append(queue, c)
             /\ t0' = [t0 EXCEPT ![c] = now]
             /\ pc' = [pc EXCEPT ![c] = "waiting"] /\ UNCHANGED <<out, start>>
    BY <2>1, <2>2, <2>4, WaitStep
  <2> QED
    BY <1>2, <2>3, <2>4 DEF Token!Call
<1>3. ASSUME NEW c \in Callers, NEW kind, Token!Recheck(c, kind) PROVE TokenInv'
  <2>1. pc[c] = "checking" /\ UNCHANGED <<now, cache, queue, saved, minted, calls>>
    BY <1>3 DEF Token!Recheck
  <2>2. CASE Token!Fresh(t0[c]) /\ Token!Return(c, cache.tok, kind) /\ Token!Unlock
    <3>1. cache.tok # 0 /\ cache.exp # -1 /\ cache.exp > now
      BY <1>0, <2>1, <2>2 DEF Token!Fresh, Token!NoExp, TimeInv
    <3>2. holder = c /\ \A d \in Callers : pc[d] = "exchanging" => d = c
      BY <1>0, <2>1 DEF TokenTyped
    <3>3. holder' = IF holder = c THEN Nobody ELSE holder
      BY <2>2, <3>2 DEF Token!Unlock
    <3> QED
      BY <1>1, <2>1, <2>2, <3>1, <3>2, <3>3, LeaveStep
  <2>3. CASE /\ ~Token!Fresh(t0[c])
             /\ pc' = [pc EXCEPT ![c] = "exchanging"] /\ start' = [start EXCEPT ![c] = now]
             /\ UNCHANGED <<out, holder, t0>>
    BY <2>1, <2>3, PostStep
  <2> QED
    BY <1>3, <2>2, <2>3 DEF Token!Recheck
<1>4. ASSUME NEW c \in Callers, Token!ExchangeFails(c) \/ (pc[c] = "exchanging" /\ Token!Cancel(c))
      PROVE  TokenInv'
  <2>1. /\ pc[c] = "exchanging" /\ Token!Return(c, 0, "use") /\ holder' = Nobody
        /\ UNCHANGED <<now, cache, queue, saved, minted, calls>>
    BY <1>4 DEF Token!ExchangeFails, Token!Cancel, Token!Unlock
  <2>2. holder = c
    BY <1>0, <2>1 DEF TokenTyped
  <2>3. holder' = IF holder = c THEN Nobody ELSE holder
    BY <2>1, <2>2
  <2> QED
    BY <1>1, <2>1, <2>3, LeaveStep
<1>5. ASSUME NEW c \in Callers, pc[c] = "waiting", Token!Cancel(c) PROVE TokenInv'
  <2>1. PICK i \in 1..Len(queue) : queue[i] = c /\ queue' = Token!RemoveAt(queue, i)
    BY <1>0, <1>5 DEF Token!Cancel, TokenTyped
  <2>2. Token!Return(c, 0, "use") /\ UNCHANGED <<now, cache, holder, saved, minted, calls>>
    BY <1>5 DEF Token!Cancel
  <2> QED
    BY <1>5, <2>1, <2>2, LeaveQueueStep
<1>6. ASSUME NEW c \in Callers, Token!Cancel(c) PROVE TokenInv'
  <2>1. pc[c] \in {"waiting", "exchanging"}
    BY <1>6 DEF Token!Cancel
  <2> QED
    BY <1>4, <1>5, <1>6, <2>1
<1>7. ASSUME NEW c \in Callers, Token!Finish(c) PROVE TokenInv'
  BY <1>3, <1>4, <1>7, AcquireStep, ExchangedStep, SnapshotStep DEF Token!Finish
<1>8. CASE UNCHANGED Token!vars
  <2>1. UNCHANGED <<now, cache, holder, queue, pc, t0, start, out, saved, minted, calls>>
    BY <1>8 DEF Token!vars
  <2>2. TokenTyped'
    BY <1>0, <2>1, SMTT(30) DEF TokenTyped, Queued
  <2>3. QueueInv' /\ CacheInv' /\ TimeInv'
    BY <2>1 DEF TokenInv, QueueInv, CacheInv, TimeInv, Token!Fresh
  <2>4. SnapshotInv' /\ Token!HandedOutUnexpired' /\ Token!SavedPairMatches'
    BY <2>1 DEF TokenInv, SnapshotInv, Token!HandedOutUnexpired, Token!SavedPairMatches
  <2> QED
    BY <2>2, <2>3, <2>4 DEF TokenInv
<1> QED
  BY <1>2, <1>6, <1>7, <1>8, InvalidateStep, TickStep DEF Token!Next

\* However callers find the token stale together, wait, fail or are cancelled: an exchange
\* runs only while no fresh token is cached, nobody is handed an expired token, and refresh
\* saves a token with its own expiry (ensure_api_token, refresh).
THEOREM TokenIsUsable == Spec => []TokenUsable
<1> DEFINE I == part = "token" => TokenInv
<1>1. Init => I
  BY FilesAssumption, TokenInit DEF Init
<1>2. I /\ [Next]_vars => I'
  BY PartStep, TokenStep, FilesAssumption
<1>3. I => TokenUsable
  <2>1. ASSUME TokenInv PROVE Token!ExchangeNeeded
    <3> SUFFICES ASSUME NEW c \in Callers, pc[c] = "exchanging" PROVE ~Token!Fresh(now)
      BY DEF Token!ExchangeNeeded
    <3>1. ~Token!Fresh(t0[c]) /\ t0[c] \in 0..now /\ now \in Nat /\ cache.exp \in Int
      BY <2>1 DEF TokenInv, TimeInv, TokenTyped
    <3>2. SKEW \in Nat
      BY FilesAssumption DEF Token!TokenAssumption
    <3> QED
      BY <3>1, <3>2 DEF Token!Fresh
  <2> QED
    BY <2>1, TokenTypes DEF TokenInv, TokenUsable
<1> QED
  BY <1>1, <1>2, <1>3, PTL DEF Spec

-----------------------------------------------------------------------------
(* The credential store (AuthStore). *)

Places(k) == DOMAIN Store(k)!SourceOrder
Kept(k) == {Absent} \cup Store(k)!Contents
Snaps(k) == [Store(k)!Sources -> Kept(k)]
Mems(k) == [Store(k)!Sources -> Store(k)!Contents]
StoreSteps == {"idle", "load", "loaded", "changed", "validate", "stage", "commit"}
ProcStates(k) == [cmd : k.commands \cup {None}, pc : StoreSteps, snap : Snaps(k), mem : Mems(k),
                  todo : SUBSET Places(k), rotated : SUBSET k.accounts]

StoreTyped(k) ==
    /\ files \in Snaps(k) /\ issued \in [k.accounts -> 0..k.maxTok]
    /\ lock \in k.procs \cup {None} /\ proc \in [k.procs -> ProcStates(k)]
    /\ lost \subseteq k.accounts /\ raced \subseteq Store(k)!Sources

LEMMA StoreTypes ==
    ASSUME NEW CONSTANT k
    PROVE  Store(k)!TypeOK <=> StoreTyped(k)
BY DEF StoreTyped, Snaps, Mems, Kept, ProcStates, StoreSteps, Places, Store!TypeOK

\* The order of the sources.
LEMMA OrderFacts ==
    ASSUME NEW CONSTANT k, Store(k)!StoreAssumption
    PROVE  /\ Places(k) \subseteq Nat /\ Places(k) # {}
           /\ \A i \in Places(k) : Store(k)!SourceOrder[i] \in Store(k)!Sources
           /\ \A s \in Store(k)!Sources : \E i \in Places(k) : Store(k)!SourceOrder[i] = s
<1>1. PICK S : k.shards \in Seq(S)
  BY DEF Store!StoreAssumption
<1>2. k.shards \in Seq(S \cup {k.main}) /\ <<k.main>> \in Seq(S \cup {k.main})
  BY <1>1
<1>3. <<k.main>> \o k.shards \in Seq(S \cup {k.main}) /\ Len(<<k.main>> \o k.shards) >= 1
  BY <1>2
<1>4. Places(k) \subseteq Nat /\ Places(k) # {}
  BY <1>3 DEF Places, Store!SourceOrder
<1> QED
  BY <1>4 DEF Places, Store!Sources, Store!Range

LEMMA SourceFacts ==
    ASSUME NEW CONSTANT k, Store(k)!StoreAssumption
    PROVE  k.main \in Store(k)!Sources /\ Store(k)!Range(k.shards) \subseteq Store(k)!Sources
<1>1. PICK S : k.shards \in Seq(S)
  BY DEF Store!StoreAssumption
<1>2. PICK o : o = <<k.main>> \o k.shards
  OBVIOUS
<1>3. k.shards \in Seq(S \cup {k.main}) /\ <<k.main>> \in Seq(S \cup {k.main})
  BY <1>1
<1>4. Len(o) = 1 + Len(k.shards) /\ o[1] = k.main /\ o \in Seq(S \cup {k.main})
  BY <1>2, <1>3
<1>5. ASSUME NEW j \in DOMAIN k.shards
      PROVE  j + 1 \in DOMAIN o /\ o[j + 1] = k.shards[j]
  <2>1. j \in 1..Len(k.shards) /\ Len(k.shards) \in Nat
    BY <1>1, <1>5
  <2> QED
    BY <1>2, <1>3, <1>4, <2>1, ConcatProperties
<1>6. 1 \in DOMAIN o
  <2>1. Len(k.shards) \in Nat
    BY <1>1
  <2> QED
    BY <1>4, <2>1
<1>7. Store(k)!Sources = {o[j] : j \in DOMAIN o}
  BY <1>2 DEF Store!Sources, Store!SourceOrder, Store!Range
<1>8. Store(k)!Range(k.shards) = {k.shards[j] : j \in DOMAIN k.shards}
  BY DEF Store!Range
<1>9. k.main \in Store(k)!Sources
  BY <1>4, <1>6, <1>7
<1>10. Store(k)!Range(k.shards) \subseteq Store(k)!Sources
  BY <1>5, <1>7, <1>8
<1> QED
  BY <1>9, <1>10

LEMMA EmptyFacts ==
    ASSUME NEW CONSTANT k, Store(k)!StoreAssumption
    PROVE  /\ Store(k)!Empty \in Store(k)!Contents
           /\ \A a \in k.accounts : Store(k)!Empty[a] = None
           /\ \A f \in Kept(k) : Store(k)!Content(f) \in Store(k)!Contents
           /\ \A c \in Store(k)!Contents : Store(k)!Content(c) = c
BY DEF Store!StoreAssumption, Store!Empty, Store!Contents, Store!Content, Kept

\* The next source to be loaded or written.
LEMMA NextPlaceFacts ==
    ASSUME NEW CONSTANT k, Store(k)!StoreAssumption, NEW p \in k.procs,
           proc[p].todo \subseteq Places(k), proc[p].todo # {}
    PROVE  Store(k)!NextPlace(p) \in proc[p].todo
<1>1. proc[p].todo \subseteq Nat
  BY OrderFacts
<1>2. PICK i \in proc[p].todo : \A j \in proc[p].todo : ~(<<j, i>> \in OpToRel(<, Nat))
  BY <1>1, NatLessThanWellFounded, WFMin
<1>3. ASSUME NEW j \in proc[p].todo PROVE i <= j
  <2>1. i \in Nat /\ j \in Nat
    BY <1>1
  <2>2. ASSUME j < i PROVE FALSE
    <3>1. <<j, i>> \in OpToRel(<, Nat)
      BY <2>1, <2>2 DEF OpToRel
    <3> QED
      BY <1>2, <3>1
  <2> QED
    BY <2>1, <2>2
<1> QED
  BY <1>2, <1>3 DEF Store!NextPlace

\* The state of one process.
LEMMA ProcFacts ==
    ASSUME NEW CONSTANT k, StoreTyped(k), NEW p \in k.procs
    PROVE  /\ proc[p].cmd \in k.commands \cup {None} /\ proc[p].pc \in StoreSteps
           /\ proc[p].snap \in Snaps(k) /\ proc[p].mem \in Mems(k)
           /\ proc[p].todo \subseteq Places(k) /\ proc[p].rotated \subseteq k.accounts
           /\ proc[p] \in ProcStates(k)
BY DEF StoreTyped, ProcStates

LEMMA IdleFacts ==
    ASSUME NEW CONSTANT k
    PROVE  /\ Store(k)!Idle.pc = "idle" /\ Store(k)!Idle.rotated = {} /\ Store(k)!Idle.todo = {}
           /\ \A s \in Store(k)!Sources :
                Store(k)!Idle.snap[s] = Absent /\ Store(k)!Idle.mem[s] = Store(k)!Empty
BY DEF Store!Idle

LEMMA IdleTyped ==
    ASSUME NEW CONSTANT k, Store(k)!StoreAssumption
    PROVE  Store(k)!Idle \in ProcStates(k)
<1>1. [s \in Store(k)!Sources |-> Absent] \in Snaps(k)
  BY DEF Snaps, Kept
<1>2. [s \in Store(k)!Sources |-> Store(k)!Empty] \in Mems(k)
  BY EmptyFacts DEF Mems
<1> QED
  BY <1>1, <1>2 DEF Store!Idle, ProcStates, StoreSteps

\* What the steps of a process make of its state.
LEMMA EndFacts ==
    ASSUME NEW CONSTANT k, Store(k)!StoreAssumption, StoreTyped(k), NEW p \in k.procs,
           Store(k)!End(p)
    PROVE  /\ proc' \in [k.procs -> ProcStates(k)] /\ lock' \in k.procs \cup {None}
           /\ proc'[p] = Store(k)!Idle
           /\ \A q \in k.procs : q # p => proc'[q] = proc[q]
           /\ \A q \in k.procs : q # p /\ lock = q => lock' = q
           /\ lock' # p
<1>1. /\ proc \in [k.procs -> ProcStates(k)] /\ lock \in k.procs \cup {None} /\ None \notin k.procs
  BY DEF StoreTyped, Store!StoreAssumption
<1>2. Store(k)!Idle \in ProcStates(k)
  BY IdleTyped
<1>3. proc' = [proc EXCEPT ![p] = Store(k)!Idle] /\ lock' = IF lock = p THEN None ELSE lock
  BY DEF Store!End
<1> QED
  BY <1>1, <1>2, <1>3

LEMMA StartFacts ==
    ASSUME NEW CONSTANT k, Store(k)!StoreAssumption, StoreTyped(k), NEW p \in k.procs,
           NEW c \in k.commands, Store(k)!Start(p, c)
    PROVE  /\ proc' \in [k.procs -> ProcStates(k)] /\ lock' \in k.procs \cup {None}
           /\ proc'[p].cmd = c /\ proc'[p].pc = "load" /\ proc'[p].rotated = {}
           /\ proc'[p].todo = Places(k)
           /\ \A s \in Store(k)!Sources :
                proc'[p].snap[s] = Absent /\ proc'[p].mem[s] = Store(k)!Empty
           /\ \A q \in k.procs : q # p => proc'[q] = proc[q]
           /\ \A q \in k.procs : q # p /\ lock = q => lock' = q
           /\ Store(k)!LocksFirst(c) => lock' = p
<1>1. /\ proc \in [k.procs -> ProcStates(k)] /\ lock \in k.procs \cup {None} /\ None \notin k.procs
  BY DEF StoreTyped, Store!StoreAssumption
<1> DEFINE r == [Store(k)!Idle EXCEPT !.cmd = c, !.pc = "load", !.todo = Places(k)]
<1>2. /\ r \in ProcStates(k) /\ r.cmd = c /\ r.pc = "load" /\ r.todo = Places(k)
      /\ r.snap = Store(k)!Idle.snap /\ r.mem = Store(k)!Idle.mem /\ r.rotated = {}
  <2>1. Store(k)!Idle \in ProcStates(k)
    BY IdleTyped
  <2>2. Store(k)!Idle.rotated = {}
    BY IdleFacts
  <2> QED
    BY <2>1, <2>2 DEF ProcStates, StoreSteps
<1>3. proc' = [proc EXCEPT ![p] = r]
  BY DEF Store!Start, Places
<1>4. /\ Store(k)!LocksFirst(c) => lock = None
      /\ lock' = IF Store(k)!LocksFirst(c) THEN p ELSE lock
  BY DEF Store!Start
<1> HIDE DEF r
<1>5. /\ proc' \in [k.procs -> ProcStates(k)] /\ proc'[p] = r
      /\ \A q \in k.procs : q # p => proc'[q] = proc[q]
  BY <1>1, <1>2, <1>3
<1>6. \A q \in k.procs : q # p /\ lock = q => lock' = q
  BY <1>1, <1>4
<1> QED
  BY <1>1, <1>2, <1>4, <1>5, <1>6, IdleFacts

LEMMA LoadFacts ==
    ASSUME NEW CONSTANT k, Store(k)!StoreAssumption, StoreTyped(k), NEW p \in k.procs,
           Store(k)!LoadSource(p), ~Store(k)!End(p), proc[p].todo # {}
    PROVE  \E i \in proc[p].todo :
             LET s == Store(k)!SourceOrder[i] IN
             /\ proc[p].pc = "load" /\ s \in Store(k)!Sources
             /\ proc' \in [k.procs -> ProcStates(k)]
             /\ \A a \in k.accounts : Store(k)!Content(files[s])[a] # None =>
                  \A t \in Store(k)!Sources : proc[p].mem[t][a] = None
             /\ proc'[p].snap = [proc[p].snap EXCEPT ![s] = files[s]]
             /\ proc'[p].mem = [proc[p].mem EXCEPT ![s] = Store(k)!Content(files[s])]
             /\ proc'[p].todo = proc[p].todo \ {i} /\ proc'[p].cmd = proc[p].cmd
             /\ proc'[p].rotated = proc[p].rotated
             /\ proc'[p].pc = IF proc[p].todo = {i} THEN "loaded" ELSE "load"
             /\ \A q \in k.procs : q # p => proc'[q] = proc[q]
             /\ UNCHANGED <<files, issued, lock, lost, raced>>
<1>1. PICK i \in proc[p].todo : i = Store(k)!NextPlace(p)
  BY ProcFacts, NextPlaceFacts
<1>2. PICK s \in Store(k)!Sources : s = Store(k)!SourceOrder[i]
  BY <1>1, ProcFacts, OrderFacts
<1>3. /\ proc[p].pc = "load" /\ UNCHANGED <<files, issued, lock, lost, raced>>
      /\ ~\E a \in k.accounts : /\ Store(k)!Content(files[s])[a] # None
                                /\ Store(k)!OwnerOf(proc[p].mem, a) # {}
      /\ proc' = [proc EXCEPT ![p].snap[s] = files[s], ![p].mem[s] = Store(k)!Content(files[s]),
                              ![p].todo = @ \ {i},
                              ![p].pc = IF proc[p].todo = {i} THEN "loaded" ELSE "load"]
  BY <1>1, <1>2 DEF Store!LoadSource, Store!NextSource
<1> DEFINE r == [proc[p] EXCEPT !.snap = [@ EXCEPT ![s] = files[s]],
                                !.mem = [@ EXCEPT ![s] = Store(k)!Content(files[s])],
                                !.todo = @ \ {i},
                                !.pc = IF proc[p].todo = {i} THEN "loaded" ELSE "load"]
<1>4. proc' = [proc EXCEPT ![p] = r]
  BY <1>3
<1>5. PICK sn : sn = [proc[p].snap EXCEPT ![s] = files[s]]
  OBVIOUS
<1>6. PICK me : me = [proc[p].mem EXCEPT ![s] = Store(k)!Content(files[s])]
  OBVIOUS
<1>7. sn \in Snaps(k) /\ me \in Mems(k)
  <2>1. files[s] \in Kept(k) /\ Store(k)!Content(files[s]) \in Store(k)!Contents
    BY EmptyFacts DEF StoreTyped, Snaps
  <2> QED
    BY <1>5, <1>6, <2>1, ProcFacts DEF Snaps, Mems
<1>8. PICK l \in StoreSteps : l = IF proc[p].todo = {i} THEN "loaded" ELSE "load"
  BY DEF StoreSteps
<1>9. /\ r.snap = sn /\ r.mem = me /\ r.todo = proc[p].todo \ {i} /\ r.pc = l
      /\ r.cmd = proc[p].cmd /\ r.rotated = proc[p].rotated /\ r \in ProcStates(k)
  BY <1>5, <1>6, <1>7, <1>8, ProcFacts DEF ProcStates
<1>10. /\ proc' \in [k.procs -> ProcStates(k)] /\ proc'[p] = r
       /\ \A q \in k.procs : q # p => proc'[q] = proc[q]
  <2>1. proc \in [k.procs -> ProcStates(k)]
    BY DEF StoreTyped
  <2> HIDE DEF r
  <2> QED
    BY <1>4, <1>9, <2>1
<1>11. \A a \in k.accounts : Store(k)!Content(files[s])[a] # None =>
                  \A t \in Store(k)!Sources : proc[p].mem[t][a] = None
  BY <1>3 DEF Store!OwnerOf
<1> HIDE DEF r
<1> WITNESS i \in proc[p].todo
<1> QED
  BY <1>2, <1>3, <1>5, <1>6, <1>8, <1>9, <1>10, <1>11

\* One account of a source is replaced in memory.
Edited(k, p, s, a, v, R) ==
    /\ proc' \in [k.procs -> ProcStates(k)]
    /\ proc'[p].mem = [proc[p].mem EXCEPT ![s] = [@ EXCEPT ![a] = v]]
    /\ proc'[p].rotated = R /\ proc'[p].pc = "changed"
    /\ proc'[p].cmd = proc[p].cmd /\ proc'[p].snap = proc[p].snap /\ proc'[p].todo = proc[p].todo
    /\ \A q \in k.procs : q # p => proc'[q] = proc[q]

LEMMA MakeEdited ==
    ASSUME NEW CONSTANT k, Store(k)!StoreAssumption, StoreTyped(k), NEW p \in k.procs,
           NEW s \in Store(k)!Sources, NEW a \in k.accounts, NEW v \in {None} \cup Store(k)!Account,
           NEW R \in SUBSET k.accounts, R = proc[p].rotated,
           proc' = [proc EXCEPT ![p].mem[s][a] = v, ![p].pc = "changed"]
    PROVE  Edited(k, p, s, a, v, R)
<1> DEFINE V == {None} \cup Store(k)!Account
           A == k.accounts
           S == Store(k)!Sources
<1>1. proc \in [k.procs -> [cmd : k.commands \cup {None}, pc : StoreSteps, snap : Snaps(k),
                            mem : [S -> [A -> V]], todo : SUBSET Places(k), rotated : SUBSET A]]
  BY DEF StoreTyped, ProcStates, Mems, Store!Contents
<1>2. "changed" \in StoreSteps
  BY DEF StoreSteps
<1> HIDE DEF V, A, S
<1>3. v \in V /\ a \in A /\ s \in S
  BY DEF V, A, S
<1>4. /\ proc'[p].rotated = R /\ proc'[p].pc = "changed" /\ proc'[p].cmd = proc[p].cmd
      /\ proc'[p].snap = proc[p].snap /\ proc'[p].todo = proc[p].todo
      /\ \A q \in k.procs : q # p => proc'[q] = proc[q]
  BY <1>1
<1>5. proc'[p].mem = [proc[p].mem EXCEPT ![s] = [@ EXCEPT ![a] = v]]
  BY <1>1, <1>3
<1>6. proc' \in [k.procs -> [cmd : k.commands \cup {None}, pc : StoreSteps, snap : Snaps(k),
                             mem : [S -> [A -> V]], todo : SUBSET Places(k), rotated : SUBSET A]]
  <2> DEFINE m == [proc[p].mem EXCEPT ![s] = [@ EXCEPT ![a] = v]]
             y == [proc[p] EXCEPT !.mem = m, !.pc = "changed"]
  <2>1. proc[p].mem \in [S -> [A -> V]] /\ [proc[p].mem[s] EXCEPT ![a] = v] \in [A -> V]
    BY <1>1, <1>3
  <2>2. m \in [S -> [A -> V]]
    BY <2>1, <1>3
  <2>3. proc' = [proc EXCEPT ![p] = y]
    BY <1>1, <1>3
  <2> HIDE DEF m
  <2>4. y \in [cmd : k.commands \cup {None}, pc : StoreSteps, snap : Snaps(k),
               mem : [S -> [A -> V]], todo : SUBSET Places(k), rotated : SUBSET A]
    <3>1. proc[p] \in [cmd : k.commands \cup {None}, pc : StoreSteps, snap : Snaps(k),
                       mem : [S -> [A -> V]], todo : SUBSET Places(k), rotated : SUBSET A]
      BY <1>1
    <3> QED
      BY <1>2, <2>2, <3>1
  <2> HIDE DEF y
  <2> QED
    BY <1>1, <2>3, <2>4
<1>7. proc' \in [k.procs -> ProcStates(k)]
  BY <1>6 DEF ProcStates, Mems, Store!Contents, V, A, S
<1> QED
  BY <1>4, <1>5, <1>7 DEF Edited

LEMMA AccountFacts ==
    ASSUME NEW CONSTANT k, Store(k)!StoreAssumption, StoreTyped(k), NEW p \in k.procs,
           NEW s \in Store(k)!Sources, NEW a \in k.accounts
    PROVE  /\ proc[p].mem[s] \in Store(k)!Contents
           /\ proc[p].mem[s][a] \in {None} \cup Store(k)!Account
<1>1. proc[p].mem \in Mems(k)
  BY ProcFacts
<1> QED
  BY <1>1 DEF Mems, Store!Contents

LEMMA UpsertFacts ==
    ASSUME NEW CONSTANT k, Store(k)!StoreAssumption, StoreTyped(k), NEW p \in k.procs,
           NEW s \in Store(k)!Sources, NEW a \in k.accounts,
           Store(k)!Upsert(p, s, a), ~Store(k)!End(p)
    PROVE  /\ proc[p].pc = "loaded" /\ UNCHANGED <<files, issued, lock, lost, raced>>
           /\ \A t \in Store(k)!Sources : t # s => proc[p].mem[t][a] = None
           /\ Edited(k, p, s, a, [tok |-> None, label |-> FALSE], proc[p].rotated)
<1>1. /\ proc[p].pc = "loaded" /\ UNCHANGED <<files, issued, lock, lost, raced>>
      /\ Store(k)!OwnerOf(proc[p].mem, a) \subseteq {s}
      /\ proc' = [proc EXCEPT ![p].mem[s][a] = [tok |-> None, label |-> FALSE], ![p].pc = "changed"]
  BY DEF Store!Upsert, Store!MayUpsert
<1>2. PICK v : v = [tok |-> None, label |-> FALSE]
  OBVIOUS
<1>3. v \in {None} \cup Store(k)!Account
  BY <1>2 DEF Store!Account
<1>4. proc' = [proc EXCEPT ![p].mem[s][a] = v, ![p].pc = "changed"]
  BY <1>1, <1>2
<1>5. proc[p].rotated \in SUBSET k.accounts
  BY ProcFacts
<1>7. Edited(k, p, s, a, v, proc[p].rotated)
  BY <1>3, <1>4, <1>5, MakeEdited
<1>8. \A t \in Store(k)!Sources : t # s => proc[p].mem[t][a] = None
  BY <1>1 DEF Store!OwnerOf
<1> QED
  BY <1>1, <1>2, <1>7, <1>8

LEMMA UpdateFacts ==
    ASSUME NEW CONSTANT k, Store(k)!StoreAssumption, StoreTyped(k), NEW p \in k.procs,
           NEW a \in k.accounts, Store(k)!Update(p, a)
    PROVE  /\ proc[p].pc = "loaded" /\ UNCHANGED <<files, issued, lock, lost, raced>>
           /\ \E s \in Store(k)!Sources, v \in Store(k)!Account :
                /\ proc[p].mem[s][a] # None /\ v.tok = proc[p].mem[s][a].tok
                /\ Edited(k, p, s, a, v, proc[p].rotated)
<1>1. PICK s \in Store(k)!Sources :
        /\ proc[p].mem[s][a] # None
        /\ proc' = [proc EXCEPT ![p].mem[s][a].label = ~@, ![p].pc = "changed"]
  BY DEF Store!Update, Store!OwnerOf
<1>2. proc[p].mem[s][a] \in Store(k)!Account
  BY <1>1, AccountFacts
<1>3. PICK v : v = [proc[p].mem[s][a] EXCEPT !.label = ~@]
  OBVIOUS
<1>4. v \in Store(k)!Account /\ v.tok = proc[p].mem[s][a].tok
  BY <1>2, <1>3 DEF Store!Account
<1>5. proc' = [proc EXCEPT ![p].mem[s][a] = v, ![p].pc = "changed"]
  BY <1>1, <1>3
<1>6. proc[p].rotated \in SUBSET k.accounts
  BY ProcFacts
<1>7. Edited(k, p, s, a, v, proc[p].rotated)
  BY <1>4, <1>5, <1>6, MakeEdited
<1> QED
  BY <1>1, <1>4, <1>7 DEF Store!Update

LEMMA RemoveFacts ==
    ASSUME NEW CONSTANT k, Store(k)!StoreAssumption, StoreTyped(k), NEW p \in k.procs,
           NEW a \in k.accounts, Store(k)!RemoveAccount(p, a)
    PROVE  /\ proc[p].pc = "loaded" /\ UNCHANGED <<files, issued, lock, lost, raced>>
           /\ \E s \in Store(k)!Sources : Edited(k, p, s, a, None, proc[p].rotated)
<1>1. PICK s \in Store(k)!Sources : proc' = [proc EXCEPT ![p].mem[s][a] = None, ![p].pc = "changed"]
  BY DEF Store!RemoveAccount, Store!OwnerOf
<1>2. proc[p].rotated \in SUBSET k.accounts
  BY ProcFacts
<1>3. Edited(k, p, s, a, None, proc[p].rotated)
  BY <1>1, <1>2, MakeEdited
<1> QED
  BY <1>3 DEF Store!RemoveAccount

LEMMA ExchangeFacts ==
    ASSUME NEW CONSTANT k, Store(k)!StoreAssumption, StoreTyped(k), NEW p \in k.procs,
           NEW a \in k.accounts, Store(k)!Exchange(p, a)
    PROVE  /\ Store(k)!Exchanges(p, a) /\ UNCHANGED <<files, lock, lost, raced>>
           /\ issued[a] < k.maxTok /\ issued' = [issued EXCEPT ![a] = @ + 1]
           /\ \E s \in Store(k)!Sources, v \in Store(k)!Account :
                /\ proc[p].mem[s][a] # None /\ proc[p].mem[s][a].tok = issued[a]
                /\ v.tok = issued[a] + 1
                /\ Edited(k, p, s, a, v, proc[p].rotated \cup {a})
<1>1. PICK s \in Store(k)!Sources :
        /\ proc[p].mem[s][a] # None /\ proc[p].mem[s][a].tok = issued[a] /\ issued[a] < k.maxTok
        /\ issued' = [issued EXCEPT ![a] = @ + 1]
        /\ proc' = [proc EXCEPT ![p].mem[s][a] = Store(k)!ApplyTo(@, issued[a] + 1),
                                ![p].rotated = @ \cup {a}, ![p].pc = "changed"]
  BY DEF Store!Exchange, Store!OwnerOf
<1>2. proc[p].mem[s][a] \in Store(k)!Account /\ issued[a] \in 0..k.maxTok /\ k.maxTok \in Nat
  BY <1>1, AccountFacts DEF StoreTyped, Store!StoreAssumption
<1>3. PICK v : v = Store(k)!ApplyTo(proc[p].mem[s][a], issued[a] + 1)
  OBVIOUS
<1>4. v \in Store(k)!Account /\ v.tok = issued[a] + 1
  <2>1. v = [proc[p].mem[s][a] EXCEPT !.tok = issued[a] + 1]
    BY <1>3 DEF Store!ApplyTo
  <2>2. issued[a] + 1 \in 0..k.maxTok
    BY <1>1, <1>2
  <2> QED
    BY <1>2, <2>1, <2>2 DEF Store!Account
<1>5. proc' = [proc EXCEPT ![p].mem[s][a] = v, ![p].rotated = @ \cup {a}, ![p].pc = "changed"]
  BY <1>1, <1>3
<1>6. Edited(k, p, s, a, v, proc[p].rotated \cup {a})
  <2> DEFINE V == {None} \cup Store(k)!Account
             A == k.accounts
             S == Store(k)!Sources
  <2>1. proc \in [k.procs -> [cmd : k.commands \cup {None}, pc : StoreSteps, snap : Snaps(k),
                              mem : [S -> [A -> V]], todo : SUBSET Places(k), rotated : SUBSET A]]
    BY DEF StoreTyped, ProcStates, Mems, Store!Contents
  <2>2. "changed" \in StoreSteps
    BY DEF StoreSteps
  <2>3. v \in V /\ a \in A /\ s \in S
    BY <1>4
  <2> HIDE DEF V, A, S
  <2>4. /\ proc'[p].rotated = proc[p].rotated \cup {a} /\ proc'[p].pc = "changed"
        /\ proc'[p].cmd = proc[p].cmd
        /\ proc'[p].snap = proc[p].snap /\ proc'[p].todo = proc[p].todo
        /\ \A q \in k.procs : q # p => proc'[q] = proc[q]
    BY <1>5, <2>1
  <2>5. proc'[p].mem = [proc[p].mem EXCEPT ![s] = [@ EXCEPT ![a] = v]]
    BY <1>5, <2>1, <2>3
  <2>6. proc' \in [k.procs -> [cmd : k.commands \cup {None}, pc : StoreSteps, snap : Snaps(k),
                               mem : [S -> [A -> V]], todo : SUBSET Places(k), rotated : SUBSET A]]
    <3>1. PICK R \in SUBSET A : R = proc[p].rotated \cup {a}
      BY <2>1, <2>3
    <3>2. PICK m : m = [proc[p].mem EXCEPT ![s] = [@ EXCEPT ![a] = v]]
      OBVIOUS
    <3>3. PICK x : x = proc[p] /\ x \in [cmd : k.commands \cup {None}, pc : StoreSteps, snap : Snaps(k),
                          mem : [S -> [A -> V]], todo : SUBSET Places(k), rotated : SUBSET A]
      BY <2>1
    <3>4. m \in [S -> [A -> V]]
      BY <2>3, <3>2, <3>3
    <3>5. PICK y : y = [x EXCEPT !.mem = m, !.rotated = R, !.pc = "changed"]
      OBVIOUS
    <3>6. y \in [cmd : k.commands \cup {None}, pc : StoreSteps, snap : Snaps(k),
                 mem : [S -> [A -> V]], todo : SUBSET Places(k), rotated : SUBSET A]
      BY <2>2, <3>1, <3>3, <3>4, <3>5
    <3>7. proc' = [proc EXCEPT ![p] = y]
      BY <1>5, <2>1, <3>1, <3>2, <3>3, <3>5
    <3> QED
      BY <2>1, <3>6, <3>7
  <2>7. proc' \in [k.procs -> ProcStates(k)]
    BY <2>6 DEF ProcStates, Mems, Store!Contents, V, A, S
  <2> QED
    BY <2>4, <2>5, <2>7 DEF Edited
<1> QED
  BY <1>1, <1>4, <1>6 DEF Store!Exchange

\* The steps of a save that change no account.
LEMMA GotoFacts ==
    ASSUME NEW CONSTANT k, StoreTyped(k), NEW p \in k.procs, NEW l \in StoreSteps,
           Store(k)!Goto(p, l)
    PROVE  /\ proc' \in [k.procs -> ProcStates(k)]
           /\ proc'[p].pc = l /\ proc'[p].cmd = proc[p].cmd /\ proc'[p].snap = proc[p].snap
           /\ proc'[p].mem = proc[p].mem /\ proc'[p].todo = proc[p].todo
           /\ proc'[p].rotated = proc[p].rotated
           /\ \A q \in k.procs : q # p => proc'[q] = proc[q]
<1>1. proc' = [proc EXCEPT ![p].pc = l]
  BY DEF Store!Goto
<1> QED
  BY <1>1 DEF StoreTyped, ProcStates

LEMMA ValidateFacts ==
    ASSUME NEW CONSTANT k, StoreTyped(k), NEW p \in k.procs,
           Store(k)!Validate(p), ~Store(k)!End(p)
    PROVE  /\ proc[p].pc = "validate" /\ UNCHANGED <<files, issued, lock, lost, raced>>
           /\ files = proc[p].snap /\ Store(k)!Changed(p) # {}
           /\ proc' \in [k.procs -> ProcStates(k)]
           /\ proc'[p].pc = "stage" /\ proc'[p].cmd = proc[p].cmd /\ proc'[p].snap = proc[p].snap
           /\ proc'[p].mem = proc[p].mem /\ proc'[p].todo = Store(k)!Changed(p)
           /\ proc'[p].rotated = proc[p].rotated
           /\ \A q \in k.procs : q # p => proc'[q] = proc[q]
<1>1. /\ proc[p].pc = "validate" /\ UNCHANGED <<files, issued, lock, lost, raced>>
      /\ files = proc[p].snap /\ Store(k)!Changed(p) # {}
      /\ proc' = [proc EXCEPT ![p].todo = Store(k)!Changed(p), ![p].pc = "stage"]
  BY DEF Store!Validate, Store!SourcesUnchanged
<1>2. PICK T \in SUBSET Places(k) : T = Store(k)!Changed(p)
  BY DEF Store!Changed, Places
<1>3. proc' = [proc EXCEPT ![p].todo = T, ![p].pc = "stage"]
  BY <1>1, <1>2
<1>4. /\ proc' \in [k.procs -> ProcStates(k)]
      /\ proc'[p].pc = "stage" /\ proc'[p].cmd = proc[p].cmd /\ proc'[p].snap = proc[p].snap
      /\ proc'[p].mem = proc[p].mem /\ proc'[p].todo = T
      /\ proc'[p].rotated = proc[p].rotated
      /\ \A q \in k.procs : q # p => proc'[q] = proc[q]
  BY <1>3 DEF StoreTyped, ProcStates, StoreSteps
<1> QED
  BY <1>1, <1>2, <1>4

\* What Commit makes of place i, which is that of s.
Commits(k, p, i, s) ==
    \/ /\ Store(k)!End(p) /\ UNCHANGED <<files, raced>>
       /\ proc[p].snap[s] = Absent /\ files[s] # Absent
    \/ /\ files' = [files EXCEPT ![s] = proc[p].mem[s]] /\ raced' = raced \ {s}
       /\ proc[p].snap[s] = Absent => files[s] = Absent
       /\ \/ Store(k)!End(p) /\ proc[p].todo = {i}
          \/ /\ lock' = lock /\ proc[p].todo # {i}
             /\ proc' \in [k.procs -> ProcStates(k)]
             /\ proc'[p].snap = [proc[p].snap EXCEPT ![s] = proc[p].mem[s]]
             /\ proc'[p].todo = proc[p].todo \ {i} /\ proc'[p].pc = "stage"
             /\ proc'[p].rotated = {a \in proc[p].rotated : proc[p].mem[s][a] = None}
             /\ proc'[p].mem = proc[p].mem /\ proc'[p].cmd = proc[p].cmd
             /\ \A q \in k.procs : q # p => proc'[q] = proc[q]

LEMMA CommitFacts ==
    ASSUME NEW CONSTANT k, Store(k)!StoreAssumption, StoreTyped(k), NEW p \in k.procs,
           Store(k)!Commit(p), proc[p].todo # {}
    PROVE  \E i \in proc[p].todo, s \in Store(k)!Sources :
             /\ i = Store(k)!NextPlace(p) /\ s = Store(k)!SourceOrder[i]
             /\ proc[p].pc = "commit" /\ UNCHANGED <<issued, lost>> /\ Commits(k, p, i, s)
<1>1. PICK i \in proc[p].todo : i = Store(k)!NextPlace(p)
  BY ProcFacts, NextPlaceFacts
<1>2. PICK s \in Store(k)!Sources : s = Store(k)!SourceOrder[i]
  BY <1>1, ProcFacts, OrderFacts
<1>3. PICK new : new = proc[p].mem[s]
  OBVIOUS
<1>4. /\ proc[p].pc = "commit" /\ UNCHANGED <<issued, lost>>
      /\ IF ~Store(k)!Installs(p, s) THEN Store(k)!End(p) /\ UNCHANGED <<files, raced>>
         ELSE /\ files' = [files EXCEPT ![s] = new] /\ raced' = raced \ {s}
              /\ IF proc[p].todo = {i} THEN Store(k)!End(p)
                 ELSE /\ proc' = [proc EXCEPT ![p].snap[s] = new, ![p].todo = @ \ {i},
                                    ![p].rotated = {a \in @ : new[a] = None}, ![p].pc = "stage"]
                      /\ UNCHANGED lock
  BY <1>1, <1>2, <1>3 DEF Store!Commit, Store!NextSource
<1>5. ASSUME ~Store(k)!Installs(p, s)
      PROVE  /\ Store(k)!End(p) /\ UNCHANGED <<files, raced>>
             /\ proc[p].snap[s] = Absent /\ files[s] # Absent
  <2>1. proc[p].snap[s] = Absent /\ files[s] # Absent
    BY <1>5 DEF Store!Installs
  <2>2. Store(k)!End(p) /\ UNCHANGED <<files, raced>>
    BY <1>4, <1>5
  <2> QED
    BY <2>1, <2>2
<1>6. ASSUME Store(k)!Installs(p, s), proc[p].todo = {i}
      PROVE  /\ files' = [files EXCEPT ![s] = new] /\ raced' = raced \ {s} /\ Store(k)!End(p)
             /\ proc[p].snap[s] = Absent => files[s] = Absent
  <2>1. proc[p].snap[s] = Absent => files[s] = Absent
    BY <1>6 DEF Store!Installs
  <2>2. /\ files' = [files EXCEPT ![s] = new] /\ raced' = raced \ {s} /\ Store(k)!End(p)
    BY <1>4, <1>6
  <2> QED
    BY <2>1, <2>2
<1>7. ASSUME Store(k)!Installs(p, s), proc[p].todo # {i}
      PROVE  /\ files' = [files EXCEPT ![s] = new] /\ raced' = raced \ {s} /\ lock' = lock
             /\ proc[p].snap[s] = Absent => files[s] = Absent
             /\ proc' \in [k.procs -> ProcStates(k)]
             /\ proc'[p].snap = [proc[p].snap EXCEPT ![s] = new]
             /\ proc'[p].todo = proc[p].todo \ {i} /\ proc'[p].pc = "stage"
             /\ proc'[p].rotated = {a \in proc[p].rotated : new[a] = None}
             /\ proc'[p].mem = proc[p].mem /\ proc'[p].cmd = proc[p].cmd
             /\ \A q \in k.procs : q # p => proc'[q] = proc[q]
  <2>1. proc[p].snap[s] = Absent => files[s] = Absent
    BY <1>7 DEF Store!Installs
  <2>2. /\ files' = [files EXCEPT ![s] = new] /\ raced' = raced \ {s} /\ lock' = lock
        /\ proc' = [proc EXCEPT ![p].snap[s] = new, ![p].todo = @ \ {i},
                                ![p].rotated = {a \in @ : new[a] = None}, ![p].pc = "stage"]
    BY <1>4, <1>7
  <2>3. PICK T \in SUBSET Places(k) : T = proc[p].todo \ {i}
    BY ProcFacts
  <2>4. PICK R \in SUBSET k.accounts : R = {a \in proc[p].rotated : new[a] = None}
    BY ProcFacts
  <2>5. proc' = [proc EXCEPT ![p].snap[s] = new, ![p].todo = T, ![p].rotated = R, ![p].pc = "stage"]
    BY <2>2, <2>3, <2>4
  <2>6. new \in Kept(k)
    <3>1. proc[p].mem \in Mems(k)
      BY ProcFacts
    <3> QED
      BY <1>3, <3>1 DEF Mems, Kept
  <2>7. /\ proc' \in [k.procs -> ProcStates(k)]
        /\ proc'[p].snap = [proc[p].snap EXCEPT ![s] = new]
        /\ proc'[p].todo = T /\ proc'[p].pc = "stage" /\ proc'[p].rotated = R
        /\ proc'[p].mem = proc[p].mem /\ proc'[p].cmd = proc[p].cmd
        /\ \A q \in k.procs : q # p => proc'[q] = proc[q]
    <3>1. proc \in [k.procs -> [cmd : k.commands \cup {None}, pc : StoreSteps,
                                snap : [Store(k)!Sources -> Kept(k)], mem : Mems(k),
                                todo : SUBSET Places(k), rotated : SUBSET k.accounts]]
      BY DEF StoreTyped, ProcStates, Snaps
    <3>2. "stage" \in StoreSteps
      BY DEF StoreSteps
    <3>3. /\ proc'[p].todo = T /\ proc'[p].pc = "stage" /\ proc'[p].rotated = R
          /\ proc'[p].mem = proc[p].mem /\ proc'[p].cmd = proc[p].cmd
          /\ \A q \in k.procs : q # p => proc'[q] = proc[q]
      BY <2>5, <3>1
    <3>4. proc'[p].snap = [proc[p].snap EXCEPT ![s] = new]
      BY <2>5, <3>1
    <3>5. proc' \in [k.procs -> [cmd : k.commands \cup {None}, pc : StoreSteps,
                                 snap : [Store(k)!Sources -> Kept(k)], mem : Mems(k),
                                 todo : SUBSET Places(k), rotated : SUBSET k.accounts]]
      <4>1. PICK x : x = proc[p] /\ x \in [cmd : k.commands \cup {None}, pc : StoreSteps,
                          snap : [Store(k)!Sources -> Kept(k)], mem : Mems(k),
                          todo : SUBSET Places(k), rotated : SUBSET k.accounts]
        BY <3>1
      <4>2. PICK n : n = [proc[p].snap EXCEPT ![s] = new]
        OBVIOUS
      <4>3. n \in [Store(k)!Sources -> Kept(k)]
        BY <2>6, <4>1, <4>2
      <4>4. PICK y : y = [x EXCEPT !.snap = n, !.todo = T, !.rotated = R, !.pc = "stage"]
        OBVIOUS
      <4>5. y \in [cmd : k.commands \cup {None}, pc : StoreSteps,
                   snap : [Store(k)!Sources -> Kept(k)], mem : Mems(k),
                   todo : SUBSET Places(k), rotated : SUBSET k.accounts]
        BY <2>3, <2>4, <3>2, <4>1, <4>3, <4>4
      <4>6. proc' = [proc EXCEPT ![p] = y]
        BY <2>5, <3>1, <4>1, <4>2, <4>4
      <4> QED
        BY <3>1, <4>5, <4>6
    <3>6. proc' \in [k.procs -> ProcStates(k)]
      BY <3>5 DEF ProcStates, Snaps
    <3> QED
      BY <3>3, <3>4, <3>6
  <2> QED
    BY <2>1, <2>2, <2>3, <2>4, <2>7
<1>8. Commits(k, p, i, s)
  <2>1. CASE ~Store(k)!Installs(p, s)
    BY <1>5, <2>1 DEF Commits
  <2>2. CASE Store(k)!Installs(p, s) /\ proc[p].todo = {i}
    BY <1>3, <1>6, <2>2 DEF Commits
  <2>3. CASE Store(k)!Installs(p, s) /\ proc[p].todo # {i}
    BY <1>3, <1>7, <2>3 DEF Commits
  <2> QED
    BY <2>1, <2>2, <2>3
<1> QED
  BY <1>1, <1>2, <1>4, <1>8

-----------------------------------------------------------------------------
(* Every account stays in one source. *)

\* What is true of one process, whose state is x: it holds the lock while it saves, and
\* throughout when its command locks first; the accounts it has in memory are in one
\* source each, and in no other when it loaded them; when it saves, no source has gained
\* an account, and what it changed is still to be written.
Has(k, f, a) == Store(k)!Content(f)[a] # None

LockOf(x, holds) ==
    /\ x.pc \in {"validate", "stage", "commit"} => holds
    /\ x.pc # "idle" /\ x.cmd \in {"edit", "probe"} => holds

MemOf(k, x) ==
    /\ \A s, t \in Store(k)!Sources, a \in k.accounts :
         s # t /\ x.mem[s][a] # None => x.mem[t][a] = None /\ ~Has(k, x.snap[t], a)
    /\ x.pc \in {"idle", "load", "loaded"} =>
         \A s \in Store(k)!Sources : x.mem[s] = Store(k)!Content(x.snap[s])
    /\ x.pc \in {"load", "stage", "commit"} => x.todo # {}

ChangedIn(k, x) ==
    {i \in Places(k) : x.mem[Store(k)!SourceOrder[i]] # Store(k)!Content(x.snap[Store(k)!SourceOrder[i]])}

SaveOf(k, x, f, r) ==
    /\ x.pc \in {"stage", "commit"} =>
         /\ \A s \in Store(k)!Sources, a \in k.accounts : Has(k, f[s], a) => Has(k, x.snap[s], a)
         /\ ChangedIn(k, x) \subseteq x.todo
    /\ x.pc = "commit" => \A s \in Store(k)!Sources \ r : f[s] = x.snap[s]

Apart(k, f) ==
    \A s, t \in Store(k)!Sources, a \in k.accounts : s # t => ~Has(k, f[s], a) \/ ~Has(k, f[t], a)

StoreInv(k) ==
    /\ StoreTyped(k) /\ Apart(k, files)
    /\ \A p \in k.procs : /\ LockOf(proc[p], lock = p) /\ MemOf(k, proc[p])
                          /\ SaveOf(k, proc[p], files, raced)

\* The others keep what they have while one process moves.
LEMMA ProcessesKept ==
    ASSUME NEW CONSTANT k, StoreInv(k), NEW p \in k.procs,
           \A q \in k.procs : q # p => proc'[q] = proc[q],
           \A q \in k.procs : q # p /\ lock = q => lock' = q,
           UNCHANGED <<files, raced>> \/ lock = p, NEW q \in k.procs, q # p
    PROVE  /\ LockOf(proc'[q], lock' = q) /\ MemOf(k, proc'[q])
           /\ SaveOf(k, proc'[q], files', raced')
<1>1. proc'[q] = proc[q]
  OBVIOUS
<1>2. LockOf(proc[q], lock = q) /\ MemOf(k, proc[q]) /\ SaveOf(k, proc[q], files, raced)
  BY DEF StoreInv
<1>3. LockOf(proc'[q], lock' = q)
  BY <1>1, <1>2 DEF LockOf
<1>4. SaveOf(k, proc[q], files', raced')
  <2>1. CASE proc[q].pc \in {"stage", "commit"}
    <3>1. lock = q
      BY <1>2, <2>1 DEF LockOf
    <3>2. files' = files /\ raced' = raced
      BY <3>1
    <3> QED
      BY <1>2, <3>2
  <2>2. CASE proc[q].pc \notin {"stage", "commit"}
    BY <2>2 DEF SaveOf
  <2> QED
    BY <2>1, <2>2
<1> QED
  BY <1>1, <1>2, <1>3, <1>4

\* What a step has to establish.
LEMMA StoreInvStep ==
    ASSUME NEW CONSTANT k, StoreInv(k), NEW p \in k.procs,
           files' \in Snaps(k), issued' \in [k.accounts -> 0..k.maxTok],
           lock' \in k.procs \cup {None}, proc' \in [k.procs -> ProcStates(k)],
           lost' \subseteq k.accounts, raced' \subseteq Store(k)!Sources,
           \A q \in k.procs : q # p => proc'[q] = proc[q],
           \A q \in k.procs : q # p /\ lock = q => lock' = q,
           UNCHANGED <<files, raced>> \/ lock = p,
           Apart(k, files'), LockOf(proc'[p], lock' = p), MemOf(k, proc'[p]),
           SaveOf(k, proc'[p], files', raced')
    PROVE  StoreInv(k)'
<1>1. StoreTyped(k)'
  BY DEF StoreTyped
<1>2. ASSUME NEW q \in k.procs
      PROVE  /\ LockOf(proc'[q], lock' = q) /\ MemOf(k, proc'[q])
             /\ SaveOf(k, proc'[q], files', raced')
  <2>1. CASE q = p
    BY <2>1
  <2>2. CASE q # p
    BY <2>2, ProcessesKept
  <2> QED
    BY <2>1, <2>2
<1> QED
  BY <1>1, <1>2 DEF StoreInv

\* A process that has ended.
LEMMA IdleInv ==
    ASSUME NEW CONSTANT k, Store(k)!StoreAssumption, NEW f, NEW r, NEW holds
    PROVE  /\ LockOf(Store(k)!Idle, holds) /\ MemOf(k, Store(k)!Idle)
           /\ SaveOf(k, Store(k)!Idle, f, r)
<1>1. /\ Store(k)!Idle.pc = "idle"
      /\ \A s \in Store(k)!Sources :
           Store(k)!Idle.snap[s] = Absent /\ Store(k)!Idle.mem[s] = Store(k)!Empty
  BY IdleFacts
<1>2. Store(k)!Content(Absent) = Store(k)!Empty /\ \A a \in k.accounts : Store(k)!Empty[a] = None
  BY EmptyFacts DEF Store!Content
<1> QED
  BY <1>1, <1>2 DEF LockOf, MemOf, SaveOf, Has

LEMMA EndInv ==
    ASSUME NEW CONSTANT k, Store(k)!StoreAssumption, StoreInv(k), NEW p \in k.procs,
           Store(k)!End(p),
           files' \in Snaps(k), issued' \in [k.accounts -> 0..k.maxTok],
           lost' \subseteq k.accounts, raced' \subseteq Store(k)!Sources,
           UNCHANGED <<files, raced>> \/ lock = p, Apart(k, files')
    PROVE  StoreInv(k)'
<1>1. StoreTyped(k)
  BY DEF StoreInv
<1>2. /\ proc' \in [k.procs -> ProcStates(k)] /\ lock' \in k.procs \cup {None}
      /\ proc'[p] = Store(k)!Idle
      /\ \A q \in k.procs : q # p => proc'[q] = proc[q]
      /\ \A q \in k.procs : q # p /\ lock = q => lock' = q
  BY <1>1, EndFacts
<1>3. /\ LockOf(proc'[p], lock' = p) /\ MemOf(k, proc'[p])
      /\ SaveOf(k, proc'[p], files', raced')
  BY <1>2, IdleInv
<1> QED
  BY <1>2, <1>3, StoreInvStep

\* The same when the files stay.
LEMMA EndQuietly ==
    ASSUME NEW CONSTANT k, Store(k)!StoreAssumption, StoreInv(k), NEW p \in k.procs,
           Store(k)!End(p), UNCHANGED <<files, raced>>,
           issued' \in [k.accounts -> 0..k.maxTok], lost' \subseteq k.accounts
    PROVE  StoreInv(k)'
<1>1. files' \in Snaps(k) /\ raced' \subseteq Store(k)!Sources /\ Apart(k, files')
  BY DEF StoreInv, StoreTyped
<1> QED
  BY <1>1, EndInv

LEMMA StartInv ==
    ASSUME NEW CONSTANT k, Store(k)!StoreAssumption, StoreInv(k), NEW p \in k.procs,
           NEW c \in k.commands, Store(k)!Start(p, c)
    PROVE  StoreInv(k)'
<1>1. StoreTyped(k) /\ Apart(k, files)
  BY DEF StoreInv
<1>2. UNCHANGED <<files, issued, lost, raced>>
  BY DEF Store!Start
<1>3. /\ proc' \in [k.procs -> ProcStates(k)] /\ lock' \in k.procs \cup {None}
      /\ proc'[p].cmd = c /\ proc'[p].pc = "load" /\ proc'[p].todo = Places(k)
      /\ \A s \in Store(k)!Sources :
           proc'[p].snap[s] = Absent /\ proc'[p].mem[s] = Store(k)!Empty
      /\ \A q \in k.procs : q # p => proc'[q] = proc[q]
      /\ \A q \in k.procs : q # p /\ lock = q => lock' = q
      /\ Store(k)!LocksFirst(c) => lock' = p
  BY <1>1, StartFacts
<1>4. LockOf(proc'[p], lock' = p)
  BY <1>3 DEF LockOf, Store!LocksFirst
<1>5. MemOf(k, proc'[p])
  <2>1. Store(k)!Content(Absent) = Store(k)!Empty /\ \A a \in k.accounts : Store(k)!Empty[a] = None
    BY EmptyFacts DEF Store!Content
  <2>2. Places(k) # {}
    BY OrderFacts
  <2> QED
    BY <1>3, <2>1, <2>2 DEF MemOf, Has
<1>6. SaveOf(k, proc'[p], files', raced')
  BY <1>3 DEF SaveOf
<1>7. /\ files' \in Snaps(k) /\ issued' \in [k.accounts -> 0..k.maxTok]
      /\ lost' \subseteq k.accounts /\ raced' \subseteq Store(k)!Sources /\ Apart(k, files')
  BY <1>1, <1>2 DEF StoreTyped
<1> QED
  BY <1>2, <1>3, <1>4, <1>5, <1>6, <1>7, StoreInvStep

LEMMA LoadInv ==
    ASSUME NEW CONSTANT k, Store(k)!StoreAssumption, StoreInv(k), NEW p \in k.procs,
           Store(k)!LoadSource(p)
    PROVE  StoreInv(k)'
<1>1. /\ StoreTyped(k) /\ Apart(k, files) /\ LockOf(proc[p], lock = p) /\ MemOf(k, proc[p])
      /\ files \in Snaps(k) /\ issued \in [k.accounts -> 0..k.maxTok]
      /\ lost \subseteq k.accounts /\ raced \subseteq Store(k)!Sources
  BY DEF StoreInv, StoreTyped
<1>2. proc[p].pc = "load" /\ UNCHANGED <<files, issued, lost, raced>>
  BY DEF Store!LoadSource
<1>3. proc[p].todo # {}
  BY <1>1, <1>2 DEF MemOf
<1>4. CASE Store(k)!End(p)
  BY <1>1, <1>2, <1>4, EndQuietly
<1>5. CASE ~Store(k)!End(p)
  <2>1. PICK i \in proc[p].todo :
             LET s == Store(k)!SourceOrder[i] IN
             /\ proc[p].pc = "load" /\ s \in Store(k)!Sources
             /\ proc' \in [k.procs -> ProcStates(k)]
             /\ \A a \in k.accounts : Store(k)!Content(files[s])[a] # None =>
                  \A t \in Store(k)!Sources : proc[p].mem[t][a] = None
             /\ proc'[p].snap = [proc[p].snap EXCEPT ![s] = files[s]]
             /\ proc'[p].mem = [proc[p].mem EXCEPT ![s] = Store(k)!Content(files[s])]
             /\ proc'[p].todo = proc[p].todo \ {i} /\ proc'[p].cmd = proc[p].cmd
             /\ proc'[p].rotated = proc[p].rotated
             /\ proc'[p].pc = IF proc[p].todo = {i} THEN "loaded" ELSE "load"
             /\ \A q \in k.procs : q # p => proc'[q] = proc[q]
             /\ UNCHANGED <<files, issued, lock, lost, raced>>
    BY <1>1, <1>3, <1>5, LoadFacts
  <2>2. PICK s \in Store(k)!Sources : s = Store(k)!SourceOrder[i]
    BY <2>1
  <2>3. PICK c : c = Store(k)!Content(files[s])
    OBVIOUS
  <2>4. proc[p].snap \in Snaps(k) /\ proc[p].mem \in Mems(k)
    BY <1>1, ProcFacts
  <2>5. /\ proc'[p].snap[s] = files[s] /\ proc'[p].mem[s] = c
        /\ \A t \in Store(k)!Sources : t # s =>
             proc'[p].snap[t] = proc[p].snap[t] /\ proc'[p].mem[t] = proc[p].mem[t]
    BY <2>1, <2>2, <2>3, <2>4 DEF Snaps, Mems
  <2>6. \A t \in Store(k)!Sources : proc[p].mem[t] = Store(k)!Content(proc[p].snap[t])
    BY <1>1, <1>2 DEF MemOf
  <2>7. proc'[p].pc \in {"load", "loaded"} /\ (proc'[p].pc = "load" => proc'[p].todo # {})
    BY <2>1
  <2>8. LockOf(proc'[p], lock' = p)
    BY <1>1, <1>2, <2>1, <2>7 DEF LockOf
  <2>9. \A t \in Store(k)!Sources : proc'[p].mem[t] = Store(k)!Content(proc'[p].snap[t])
    BY <2>3, <2>5, <2>6
  <2>10. ASSUME NEW t \in Store(k)!Sources, NEW u \in Store(k)!Sources, NEW a \in k.accounts,
                t # u, proc'[p].mem[t][a] # None
         PROVE  proc'[p].mem[u][a] = None
    <3>1. CASE t = s
      BY <2>1, <2>2, <2>3, <2>5, <2>10, <3>1
    <3>2. CASE u = s
      BY <2>1, <2>2, <2>3, <2>5, <2>10, <3>2
    <3>3. CASE t # s /\ u # s
      BY <1>1, <2>5, <2>10, <3>3 DEF MemOf
    <3> QED
      BY <3>1, <3>2, <3>3
  <2>11. MemOf(k, proc'[p])
    BY <2>7, <2>9, <2>10 DEF MemOf, Has
  <2>12. SaveOf(k, proc'[p], files', raced')
    BY <2>7 DEF SaveOf
  <2>13. lock' \in k.procs \cup {None}
    BY <1>1, <2>1 DEF StoreTyped
  <2> QED
    BY <1>1, <2>1, <2>8, <2>11, <2>12, <2>13, StoreInvStep
<1> QED
  BY <1>4, <1>5

\* An account that no other source has, neither in memory nor when it was loaded, is
\* replaced.
LEMMA EditInv ==
    ASSUME NEW CONSTANT k, Store(k)!StoreAssumption, StoreInv(k), NEW p \in k.procs,
           NEW s \in Store(k)!Sources, NEW a \in k.accounts, NEW v, NEW R,
           Edited(k, p, s, a, v, R), proc[p].pc \in {"loaded", "changed"},
           v # None => \A t \in Store(k)!Sources \ {s} :
                         proc[p].mem[t][a] = None /\ ~Has(k, proc[p].snap[t], a),
           UNCHANGED <<files, lock, lost, raced>>, issued' \in [k.accounts -> 0..k.maxTok]
    PROVE  StoreInv(k)'
<1>1. /\ StoreTyped(k) /\ Apart(k, files) /\ LockOf(proc[p], lock = p) /\ MemOf(k, proc[p])
      /\ files \in Snaps(k) /\ lock \in k.procs \cup {None}
      /\ lost \subseteq k.accounts /\ raced \subseteq Store(k)!Sources
  BY DEF StoreInv, StoreTyped
<1>2. /\ proc' \in [k.procs -> ProcStates(k)]
      /\ proc'[p].mem = [proc[p].mem EXCEPT ![s] = [@ EXCEPT ![a] = v]]
      /\ proc'[p].pc = "changed" /\ proc'[p].cmd = proc[p].cmd
      /\ proc'[p].snap = proc[p].snap
      /\ \A q \in k.procs : q # p => proc'[q] = proc[q]
  BY DEF Edited
<1>3. proc[p].mem \in Mems(k) /\ \A t \in Store(k)!Sources : proc[p].mem[t] \in Store(k)!Contents
  BY <1>1, ProcFacts DEF Mems
<1>4. /\ proc'[p].mem[s][a] = v
      /\ \A t \in Store(k)!Sources, b \in k.accounts :
           t # s \/ b # a => proc'[p].mem[t][b] = proc[p].mem[t][b]
  BY <1>2, <1>3 DEF Mems, Store!Contents
<1>5. LockOf(proc'[p], lock' = p)
  BY <1>1, <1>2 DEF LockOf
<1>6. SaveOf(k, proc'[p], files', raced')
  BY <1>2 DEF SaveOf
<1>7. ASSUME NEW t \in Store(k)!Sources, NEW u \in Store(k)!Sources, NEW b \in k.accounts,
             t # u, proc'[p].mem[t][b] # None
      PROVE  proc'[p].mem[u][b] = None /\ ~Has(k, proc'[p].snap[u], b)
  <2>1. CASE b # a
    BY <1>1, <1>2, <1>4, <1>7, <2>1 DEF MemOf
  <2>2. CASE b = a /\ t = s
    BY <1>2, <1>4, <1>7, <2>2
  <2>3. CASE b = a /\ t # s
    <3>1. proc[p].mem[t][a] # None
      BY <1>4, <1>7, <2>3
    <3>2. v = None
      BY <2>3, <3>1
    <3>3. proc[p].mem[u][a] = None /\ ~Has(k, proc[p].snap[u], a)
      BY <1>1, <1>7, <3>1 DEF MemOf
    <3> QED
      BY <1>2, <1>4, <2>3, <3>2, <3>3
  <2> QED
    BY <2>1, <2>2, <2>3
<1>8. MemOf(k, proc'[p])
  BY <1>2, <1>7 DEF MemOf
<1> QED
  BY <1>1, <1>2, <1>5, <1>6, <1>8, StoreInvStep

\* Upsert, Update and RemoveAccount.
LEMMA ChangeInv ==
    ASSUME NEW CONSTANT k, Store(k)!StoreAssumption, StoreInv(k), NEW p \in k.procs,
           Store(k)!Change(p)
    PROVE  StoreInv(k)'
<1>1. /\ StoreTyped(k) /\ MemOf(k, proc[p]) /\ issued \in [k.accounts -> 0..k.maxTok]
      /\ lost \subseteq k.accounts
  BY DEF StoreInv, StoreTyped
<1>2. ASSUME NEW s \in Store(k)!Sources, NEW a \in k.accounts, Store(k)!Upsert(p, s, a)
      PROVE  StoreInv(k)'
  <2>1. CASE Store(k)!End(p)
    <3>1. UNCHANGED <<files, issued, lost, raced>>
      BY <1>2 DEF Store!Upsert
    <3> QED
      BY <1>1, <2>1, <3>1, EndQuietly
  <2>2. CASE ~Store(k)!End(p)
    <3>1. /\ proc[p].pc = "loaded" /\ UNCHANGED <<files, issued, lock, lost, raced>>
          /\ \A t \in Store(k)!Sources : t # s => proc[p].mem[t][a] = None
          /\ Edited(k, p, s, a, [tok |-> None, label |-> FALSE], proc[p].rotated)
      BY <1>1, <1>2, <2>2, UpsertFacts
    <3>2. PICK v : Edited(k, p, s, a, v, proc[p].rotated)
      BY <3>1
    <3>3. \A t \in Store(k)!Sources \ {s} : proc[p].mem[t][a] = None /\ ~Has(k, proc[p].snap[t], a)
      BY <1>1, <3>1 DEF MemOf, Has
    <3> QED
      BY <1>1, <3>1, <3>2, <3>3, EditInv
  <2> QED
    BY <2>1, <2>2
<1>3. ASSUME NEW a \in k.accounts, Store(k)!Update(p, a) PROVE StoreInv(k)'
  <2>1. PICK s \in Store(k)!Sources, v \in Store(k)!Account :
          /\ proc[p].pc = "loaded" /\ UNCHANGED <<files, issued, lock, lost, raced>>
          /\ proc[p].mem[s][a] # None /\ Edited(k, p, s, a, v, proc[p].rotated)
    BY <1>1, <1>3, UpdateFacts
  <2>2. \A t \in Store(k)!Sources \ {s} : proc[p].mem[t][a] = None /\ ~Has(k, proc[p].snap[t], a)
    BY <1>1, <2>1 DEF MemOf
  <2> QED
    BY <1>1, <2>1, <2>2, EditInv
<1>4. ASSUME NEW a \in k.accounts, Store(k)!RemoveAccount(p, a) PROVE StoreInv(k)'
  <2>1. PICK s \in Store(k)!Sources :
          /\ proc[p].pc = "loaded" /\ UNCHANGED <<files, issued, lock, lost, raced>>
          /\ Edited(k, p, s, a, None, proc[p].rotated)
    BY <1>1, <1>4, RemoveFacts
  <2> QED
    BY <1>1, <2>1, EditInv
<1>5. k.main \in Store(k)!Sources /\ Store(k)!Range(k.shards) \subseteq Store(k)!Sources
  BY SourceFacts
<1> QED
  BY <1>2, <1>3, <1>4, <1>5 DEF Store!Change

LEMMA ExchangeInv ==
    ASSUME NEW CONSTANT k, Store(k)!StoreAssumption, StoreInv(k), NEW p \in k.procs,
           NEW a \in k.accounts, Store(k)!Exchange(p, a) \/ Store(k)!ExchangeFails(p, a)
    PROVE  StoreInv(k)'
<1>1. /\ StoreTyped(k) /\ MemOf(k, proc[p]) /\ issued \in [k.accounts -> 0..k.maxTok]
      /\ lost \subseteq k.accounts /\ k.maxTok \in Nat
  BY DEF StoreInv, StoreTyped, Store!StoreAssumption
<1>2. ASSUME issued[a] < k.maxTok, issued' = [issued EXCEPT ![a] = @ + 1]
      PROVE  issued' \in [k.accounts -> 0..k.maxTok]
  <2>1. issued[a] + 1 \in 0..k.maxTok
    BY <1>1, <1>2
  <2> QED
    BY <1>1, <1>2, <2>1
<1>3. CASE Store(k)!Exchange(p, a)
  <2>1. /\ Store(k)!Exchanges(p, a) /\ UNCHANGED <<files, lock, lost, raced>>
        /\ issued[a] < k.maxTok /\ issued' = [issued EXCEPT ![a] = @ + 1]
    BY <1>1, <1>3, ExchangeFacts
  <2>2. PICK s \in Store(k)!Sources, v \in Store(k)!Account :
          proc[p].mem[s][a] # None /\ Edited(k, p, s, a, v, proc[p].rotated \cup {a})
    BY <1>1, <1>3, ExchangeFacts
  <2>3. \A t \in Store(k)!Sources \ {s} : proc[p].mem[t][a] = None /\ ~Has(k, proc[p].snap[t], a)
    BY <1>1, <2>2 DEF MemOf
  <2>4. proc[p].pc \in {"loaded", "changed"}
    BY <2>1 DEF Store!Exchanges
  <2> QED
    BY <1>2, <2>1, <2>2, <2>3, <2>4, EditInv
<1>4. CASE Store(k)!ExchangeFails(p, a)
  <2>1. /\ UNCHANGED <<files, raced>>
        /\ issued' \in [k.accounts -> 0..k.maxTok] /\ lost' \subseteq k.accounts
    BY <1>1, <1>2, <1>4 DEF Store!ExchangeFails
  <2>2. CASE UNCHANGED <<proc, lock>>
    BY <2>1, <2>2 DEF StoreInv, StoreTyped
  <2>3. CASE Store(k)!End(p)
    BY <2>1, <2>3, EndQuietly
  <2> QED
    BY <1>4, <2>2, <2>3 DEF Store!ExchangeFails
<1> QED
  BY <1>3, <1>4

LEMMA CrashInv ==
    ASSUME NEW CONSTANT k, Store(k)!StoreAssumption, StoreInv(k), NEW p \in k.procs,
           Store(k)!Crash(p)
    PROVE  StoreInv(k)'
<1>1. issued \in [k.accounts -> 0..k.maxTok] /\ lost \subseteq k.accounts /\ StoreTyped(k)
  BY DEF StoreInv, StoreTyped
<1>2. proc[p].rotated \subseteq k.accounts
  BY <1>1, ProcFacts
<1>3. /\ Store(k)!End(p) /\ UNCHANGED <<files, issued, raced>>
      /\ lost' = lost \cup proc[p].rotated
  BY DEF Store!Crash
<1> QED
  BY <1>1, <1>2, <1>3, EndQuietly

\* A save before it writes.
LEMMA AcquireInv ==
    ASSUME NEW CONSTANT k, Store(k)!StoreAssumption, StoreInv(k), NEW p \in k.procs,
           Store(k)!AcquireLock(p)
    PROVE  StoreInv(k)'
<1>1. /\ StoreTyped(k) /\ Apart(k, files) /\ LockOf(proc[p], lock = p) /\ MemOf(k, proc[p])
      /\ files \in Snaps(k) /\ issued \in [k.accounts -> 0..k.maxTok]
      /\ lost \subseteq k.accounts /\ raced \subseteq Store(k)!Sources /\ None \notin k.procs
  BY DEF StoreInv, StoreTyped, Store!StoreAssumption
<1>2. proc[p].pc = "changed" /\ UNCHANGED <<files, issued, lost, raced>>
  BY DEF Store!AcquireLock
<1>3. CASE Store(k)!End(p)
  BY <1>1, <1>2, <1>3, EndQuietly
<1>4. CASE lock \in {None, p} /\ lock' = p /\ Store(k)!Goto(p, "validate")
  <2>1. /\ proc' \in [k.procs -> ProcStates(k)] /\ proc'[p].pc = "validate"
        /\ proc'[p].snap = proc[p].snap /\ proc'[p].mem = proc[p].mem
        /\ \A q \in k.procs : q # p => proc'[q] = proc[q]
    <3>1. "validate" \in StoreSteps
      BY DEF StoreSteps
    <3> QED
      BY <1>1, <1>4, <3>1, GotoFacts
  <2>2. LockOf(proc'[p], lock' = p)
    BY <1>4 DEF LockOf
  <2>3. MemOf(k, proc'[p]) /\ SaveOf(k, proc'[p], files', raced')
    BY <1>1, <2>1 DEF MemOf, SaveOf
  <2>4. \A q \in k.procs : q # p /\ lock = q => lock' = q
    BY <1>1, <1>4
  <2> QED
    BY <1>1, <1>2, <1>4, <2>1, <2>2, <2>3, <2>4, StoreInvStep
<1> QED
  BY <1>3, <1>4 DEF Store!AcquireLock

LEMMA ValidateInv ==
    ASSUME NEW CONSTANT k, Store(k)!StoreAssumption, StoreInv(k), NEW p \in k.procs,
           Store(k)!Validate(p)
    PROVE  StoreInv(k)'
<1>1. /\ StoreTyped(k) /\ Apart(k, files) /\ LockOf(proc[p], lock = p) /\ MemOf(k, proc[p])
      /\ files \in Snaps(k) /\ issued \in [k.accounts -> 0..k.maxTok] /\ lock \in k.procs \cup {None}
      /\ lost \subseteq k.accounts /\ raced \subseteq Store(k)!Sources
  BY DEF StoreInv, StoreTyped
<1>2. UNCHANGED <<files, issued, lost, raced>>
  BY DEF Store!Validate
<1>3. CASE Store(k)!End(p)
  BY <1>1, <1>2, <1>3, EndQuietly
<1>4. CASE ~Store(k)!End(p)
  <2>1. /\ proc[p].pc = "validate" /\ lock' = lock
        /\ files = proc[p].snap /\ Store(k)!Changed(p) # {}
        /\ proc' \in [k.procs -> ProcStates(k)]
        /\ proc'[p].pc = "stage" /\ proc'[p].cmd = proc[p].cmd /\ proc'[p].snap = proc[p].snap
        /\ proc'[p].mem = proc[p].mem /\ proc'[p].todo = Store(k)!Changed(p)
        /\ \A q \in k.procs : q # p => proc'[q] = proc[q]
    BY <1>1, <1>4, ValidateFacts
  <2>2. LockOf(proc'[p], lock' = p)
    BY <1>1, <2>1 DEF LockOf
  <2>3. MemOf(k, proc'[p])
    BY <1>1, <2>1 DEF MemOf
  <2>4. ChangedIn(k, proc'[p]) \subseteq proc'[p].todo
    BY <2>1 DEF ChangedIn, Store!Changed, Places
  <2>5. SaveOf(k, proc'[p], files', raced')
    BY <1>2, <2>1, <2>4 DEF SaveOf
  <2> QED
    BY <1>1, <1>2, <2>1, <2>2, <2>3, <2>5, StoreInvStep
<1> QED
  BY <1>3, <1>4

LEMMA StoreStageInv ==
    ASSUME NEW CONSTANT k, Store(k)!StoreAssumption, StoreInv(k), NEW p \in k.procs,
           Store(k)!Stage(p)
    PROVE  StoreInv(k)'
<1>1. /\ StoreTyped(k) /\ Apart(k, files) /\ LockOf(proc[p], lock = p) /\ MemOf(k, proc[p])
      /\ SaveOf(k, proc[p], files, raced)
      /\ files \in Snaps(k) /\ issued \in [k.accounts -> 0..k.maxTok] /\ lock \in k.procs \cup {None}
      /\ lost \subseteq k.accounts /\ raced \subseteq Store(k)!Sources
  BY DEF StoreInv, StoreTyped
<1>2. proc[p].pc = "stage" /\ UNCHANGED <<files, issued, lost, raced>>
  BY DEF Store!Stage
<1>3. CASE Store(k)!End(p)
  BY <1>1, <1>2, <1>3, EndQuietly
<1>4. CASE files = proc[p].snap /\ Store(k)!Goto(p, "commit") /\ lock' = lock
  <2>1. /\ proc' \in [k.procs -> ProcStates(k)] /\ proc'[p].pc = "commit"
        /\ proc'[p].snap = proc[p].snap /\ proc'[p].mem = proc[p].mem
        /\ proc'[p].todo = proc[p].todo
        /\ \A q \in k.procs : q # p => proc'[q] = proc[q]
    <3>1. "commit" \in StoreSteps
      BY DEF StoreSteps
    <3> QED
      BY <1>1, <1>4, <3>1, GotoFacts
  <2>2. LockOf(proc'[p], lock' = p)
    BY <1>1, <1>2, <1>4, <2>1 DEF LockOf
  <2>3. MemOf(k, proc'[p])
    BY <1>1, <1>2, <2>1 DEF MemOf
  <2>4. ChangedIn(k, proc'[p]) \subseteq proc'[p].todo
    BY <1>1, <1>2, <2>1 DEF ChangedIn, SaveOf
  <2>5. SaveOf(k, proc'[p], files', raced')
    BY <1>2, <1>4, <2>1, <2>4 DEF SaveOf
  <2> QED
    BY <1>1, <1>2, <1>4, <2>1, <2>2, <2>3, <2>5, StoreInvStep
<1> QED
  BY <1>3, <1>4 DEF Store!Stage, Store!SourcesUnchanged

\* A source is written: what it holds then is in no other source.
LEMMA WriteInv ==
    ASSUME NEW CONSTANT k, Store(k)!StoreAssumption, StoreInv(k), NEW p \in k.procs,
           proc[p].pc = "commit", NEW s \in Store(k)!Sources,
           files' = [files EXCEPT ![s] = proc[p].mem[s]]
    PROVE  /\ files' \in Snaps(k) /\ Apart(k, files') /\ files'[s] = proc[p].mem[s]
           /\ \A t \in Store(k)!Sources : t # s => files'[t] = files[t]
           /\ Store(k)!Content(proc[p].mem[s]) = proc[p].mem[s]
<1>1. /\ StoreTyped(k) /\ Apart(k, files) /\ MemOf(k, proc[p]) /\ SaveOf(k, proc[p], files, raced)
      /\ files \in Snaps(k)
  BY DEF StoreInv, StoreTyped
<1>2. proc[p].mem[s] \in Store(k)!Contents
  BY <1>1, ProcFacts DEF Mems
<1>3. /\ files' \in Snaps(k) /\ files'[s] = proc[p].mem[s]
      /\ \A t \in Store(k)!Sources : t # s => files'[t] = files[t]
  BY <1>1, <1>2 DEF Snaps, Kept
<1>4. Store(k)!Content(proc[p].mem[s]) = proc[p].mem[s]
  BY <1>2, EmptyFacts
<1>5. ASSUME NEW t \in Store(k)!Sources, NEW a \in k.accounts, t # s, Has(k, files'[s], a)
      PROVE  ~Has(k, files'[t], a)
  <2>1. proc[p].mem[s][a] # None
    BY <1>3, <1>4, <1>5 DEF Has
  <2>2. ~Has(k, proc[p].snap[t], a)
    BY <1>1, <1>5, <2>1 DEF MemOf
  <2> QED
    BY <1>1, <1>3, <1>5, <2>2 DEF SaveOf
<1>6. Apart(k, files')
  BY <1>1, <1>3, <1>5 DEF Apart
<1> QED
  BY <1>3, <1>4, <1>6

LEMMA CommitInv ==
    ASSUME NEW CONSTANT k, Store(k)!StoreAssumption, StoreInv(k), NEW p \in k.procs,
           Store(k)!Commit(p)
    PROVE  StoreInv(k)'
<1>1. /\ StoreTyped(k) /\ Apart(k, files) /\ LockOf(proc[p], lock = p) /\ MemOf(k, proc[p])
      /\ SaveOf(k, proc[p], files, raced)
      /\ files \in Snaps(k) /\ issued \in [k.accounts -> 0..k.maxTok] /\ lock \in k.procs \cup {None}
      /\ lost \subseteq k.accounts /\ raced \subseteq Store(k)!Sources
  BY DEF StoreInv, StoreTyped
<1>2. proc[p].pc = "commit"
  BY DEF Store!Commit
<1>3. lock = p /\ proc[p].todo # {}
  BY <1>1, <1>2 DEF LockOf, MemOf
<1>4. UNCHANGED <<issued, lost>>
  BY DEF Store!Commit
<1>5. PICK i \in proc[p].todo, s \in Store(k)!Sources :
        s = Store(k)!SourceOrder[i] /\ Commits(k, p, i, s)
  BY <1>1, <1>3, CommitFacts
<1>6. s = Store(k)!SourceOrder[i]
  BY <1>5
<1>7. CASE Store(k)!End(p) /\ UNCHANGED <<files, raced>>
  BY <1>1, <1>4, <1>7, EndQuietly
<1>8. ASSUME files' = [files EXCEPT ![s] = proc[p].mem[s]], raced' = raced \ {s}
      PROVE  /\ files' \in Snaps(k) /\ Apart(k, files') /\ files'[s] = proc[p].mem[s]
             /\ \A t \in Store(k)!Sources : t # s => files'[t] = files[t]
             /\ Store(k)!Content(proc[p].mem[s]) = proc[p].mem[s]
             /\ raced' \subseteq Store(k)!Sources
  <2>1. /\ files' \in Snaps(k) /\ Apart(k, files') /\ files'[s] = proc[p].mem[s]
        /\ \A t \in Store(k)!Sources : t # s => files'[t] = files[t]
        /\ Store(k)!Content(proc[p].mem[s]) = proc[p].mem[s]
    BY <1>2, <1>8, WriteInv, ZenonT(30)
  <2> QED
    BY <1>1, <1>8, <2>1
<1>9. CASE files' = [files EXCEPT ![s] = proc[p].mem[s]] /\ raced' = raced \ {s} /\ Store(k)!End(p)
  BY <1>1, <1>3, <1>4, <1>8, <1>9, EndInv
<1>10. CASE /\ files' = [files EXCEPT ![s] = proc[p].mem[s]] /\ raced' = raced \ {s}
            /\ lock' = lock /\ proc[p].todo # {i}
            /\ proc' \in [k.procs -> ProcStates(k)]
            /\ proc'[p].snap = [proc[p].snap EXCEPT ![s] = proc[p].mem[s]]
            /\ proc'[p].todo = proc[p].todo \ {i} /\ proc'[p].pc = "stage"
            /\ proc'[p].mem = proc[p].mem /\ proc'[p].cmd = proc[p].cmd
            /\ \A q \in k.procs : q # p => proc'[q] = proc[q]
  <2>1. /\ files' \in Snaps(k) /\ Apart(k, files') /\ files'[s] = proc[p].mem[s]
        /\ \A t \in Store(k)!Sources : t # s => files'[t] = files[t]
        /\ Store(k)!Content(proc[p].mem[s]) = proc[p].mem[s]
        /\ raced' \subseteq Store(k)!Sources
    BY <1>8, <1>10
  <2>2. proc[p].snap \in Snaps(k)
    BY <1>1, ProcFacts
  <2>3. /\ proc'[p].snap[s] = proc[p].mem[s]
        /\ \A t \in Store(k)!Sources : t # s => proc'[p].snap[t] = proc[p].snap[t]
    BY <1>10, <2>2 DEF Snaps
  <2>4. proc'[p].todo # {}
    BY <1>10
  <2>5. LockOf(proc'[p], lock' = p)
    BY <1>3, <1>10 DEF LockOf
  <2>6. ASSUME NEW u \in Store(k)!Sources, NEW t \in Store(k)!Sources, NEW a \in k.accounts,
               u # t, proc[p].mem[u][a] # None
        PROVE  proc[p].mem[t][a] = None /\ ~Has(k, proc'[p].snap[t], a)
    <3>1. proc[p].mem[t][a] = None /\ ~Has(k, proc[p].snap[t], a)
      BY <1>1, <2>6 DEF MemOf
    <3> QED
      BY <2>1, <2>3, <3>1 DEF Has
  <2>7. MemOf(k, proc'[p])
    BY <1>10, <2>4, <2>6 DEF MemOf
  <2>8. ASSUME NEW t \in Store(k)!Sources, NEW a \in k.accounts, Has(k, files'[t], a)
        PROVE  Has(k, proc'[p].snap[t], a)
    <3>1. CASE t = s
      BY <2>1, <2>3, <2>8, <3>1
    <3>2. CASE t # s
      BY <1>1, <1>2, <2>1, <2>3, <2>8, <3>2 DEF SaveOf
    <3> QED
      BY <3>1, <3>2
  <2>9. ASSUME NEW j \in ChangedIn(k, proc'[p]) PROVE j \in proc'[p].todo
    <3>1. PICK t \in Store(k)!Sources : t = Store(k)!SourceOrder[j] /\ j \in Places(k)
      BY OrderFacts DEF ChangedIn
    <3>2. proc[p].mem[t] # Store(k)!Content(proc'[p].snap[t])
      BY <1>10, <3>1 DEF ChangedIn
    <3>3. t # s
      BY <2>1, <2>3, <3>2
    <3>4. j \in ChangedIn(k, proc[p])
      BY <2>3, <3>1, <3>2, <3>3 DEF ChangedIn
    <3> QED
      BY <1>1, <1>2, <1>6, <1>10, <3>1, <3>3, <3>4 DEF SaveOf
  <2>10. SaveOf(k, proc'[p], files', raced')
    BY <1>10, <2>8, <2>9 DEF SaveOf
  <2>11. issued' \in [k.accounts -> 0..k.maxTok] /\ lost' \subseteq k.accounts
    BY <1>1, <1>4
  <2> QED
    BY <1>1, <1>3, <1>10, <2>1, <2>5, <2>7, <2>10, <2>11, StoreInvStep
<1> QED
  BY <1>5, <1>7, <1>9, <1>10 DEF Commits

\* The editor changes an account's label, so no source gains or loses an account.
LEMMA UserEditInv ==
    ASSUME NEW CONSTANT k, Store(k)!StoreAssumption, StoreInv(k),
           NEW s \in k.editable, NEW a \in k.accounts, Store(k)!UserEdit(s, a)
    PROVE  StoreInv(k)'
<1>1. /\ Apart(k, files) /\ files \in Snaps(k) /\ raced \subseteq Store(k)!Sources
      /\ StoreTyped(k) /\ s \in Store(k)!Sources
  BY DEF StoreInv, StoreTyped, Store!StoreAssumption
<1>2. /\ Store(k)!Content(files[s])[a] # None
      /\ files' = [files EXCEPT ![s][a].label = ~@]
      /\ raced' = IF \E p \in k.procs : proc[p].pc = "commit" THEN raced \cup {s} ELSE raced
      /\ UNCHANGED <<issued, lock, proc, lost>>
  BY DEF Store!UserEdit
<1>3. files[s] \in Store(k)!Contents /\ files[s][a] \in Store(k)!Account
  <2>1. files[s] \in {Absent} \cup Store(k)!Contents
    BY <1>1 DEF Snaps, Kept
  <2>2. files[s] # Absent
    BY <1>2, EmptyFacts DEF Store!Content
  <2>3. files[s] \in Store(k)!Contents /\ Store(k)!Content(files[s]) = files[s]
    BY <2>1, <2>2, EmptyFacts
  <2> QED
    BY <1>2, <2>3 DEF Store!Contents
<1>4. PICK v : v = [files[s][a] EXCEPT !.label = ~@]
  OBVIOUS
<1>5. v \in Store(k)!Account /\ v # None
  BY <1>3, <1>4 DEF Store!Account, Store!StoreAssumption
<1>6. PICK c : c = [files[s] EXCEPT ![a] = v]
  OBVIOUS
<1>7. c \in Store(k)!Contents /\ c[a] = v /\ \A b \in k.accounts : b # a => c[b] = files[s][b]
  BY <1>3, <1>5, <1>6 DEF Store!Contents
<1>8. files' = [files EXCEPT ![s] = c]
  BY <1>2, <1>4, <1>6
<1>9. /\ files' \in Snaps(k) /\ files'[s] = c
      /\ \A t \in Store(k)!Sources : t # s => files'[t] = files[t]
  BY <1>1, <1>7, <1>8 DEF Snaps, Kept
<1>10. \A b \in k.accounts : Has(k, files'[s], b) <=> Has(k, files[s], b)
  <2>1. Store(k)!Content(c) = c /\ Store(k)!Content(files[s]) = files[s]
    BY <1>3, <1>7, EmptyFacts
  <2> QED
    BY <1>2, <1>5, <1>7, <1>9, <2>1 DEF Has
<1>11. \A t \in Store(k)!Sources, b \in k.accounts : Has(k, files'[t], b) <=> Has(k, files[t], b)
  BY <1>9, <1>10
<1>12. Apart(k, files')
  BY <1>1, <1>11 DEF Apart
<1>13. StoreTyped(k)'
  BY <1>1, <1>2, <1>9 DEF StoreTyped
<1>14. ASSUME NEW p \in k.procs
       PROVE  /\ LockOf(proc'[p], lock' = p) /\ MemOf(k, proc'[p])
              /\ SaveOf(k, proc'[p], files', raced')
  <2>1. /\ LockOf(proc[p], lock = p) /\ MemOf(k, proc[p]) /\ SaveOf(k, proc[p], files, raced)
    BY DEF StoreInv
  <2>2. proc[p].pc = "commit" => raced' = raced \cup {s}
    BY <1>2
  <2>3. SaveOf(k, proc[p], files', raced')
    BY <1>9, <1>11, <2>1, <2>2 DEF SaveOf
  <2> QED
    BY <1>2, <2>1, <2>3
<1> QED
  BY <1>12, <1>13, <1>14 DEF StoreInv

LEMMA StoreStep ==
    ASSUME NEW CONSTANT k, Store(k)!StoreAssumption, StoreInv(k),
           [Store(k)!Next]_(Store(k)!vars)
    PROVE  StoreInv(k)'
<1>1. CASE UNCHANGED Store(k)!vars
  BY <1>1 DEF Store!vars, StoreInv, StoreTyped
<1>2. ASSUME NEW p \in k.procs, Store(k)!Step(p) PROVE StoreInv(k)'
  BY <1>2, StartInv, LoadInv, ChangeInv, ExchangeInv, AcquireInv, ValidateInv, StoreStageInv,
     CommitInv, CrashInv DEF Store!Step
<1> QED
  BY <1>1, <1>2, UserEditInv DEF Store!Next

-----------------------------------------------------------------------------
(* A rotated refresh token reaches the disk, when every command that rotates one takes the *)
(* lock before it loads and nobody edits the files by hand.                                 *)

\* What is true of one process, whose state is x: only a probe has new tokens that are not
\* on disk; while it has the lock, its snapshot is what the files hold; a token that it has
\* in memory is the one it loaded, or one that the provider accepts and that the save will
\* write.
RotOf(k, x, f, is) ==
    /\ x.rotated # {} => x.cmd = "probe" /\ x.pc \in {"changed", "validate", "stage", "commit"}
    /\ x.cmd = "probe" /\ x.pc = "load" =>
         \A i \in Places(k) \ x.todo : f[Store(k)!SourceOrder[i]] = x.snap[Store(k)!SourceOrder[i]]
    /\ x.cmd = "probe" /\ x.pc \in {"loaded", "changed", "validate"} => f = x.snap
    /\ x.pc \in {"stage", "commit"} => f = x.snap
    /\ \A s \in Store(k)!Sources, a \in k.accounts :
         x.mem[s][a] # None /\ a \notin x.rotated /\ x.mem[s][a].tok # None =>
           Has(k, x.snap[s], a) /\ x.snap[s][a].tok = x.mem[s][a].tok
    /\ \A s \in Store(k)!Sources, a \in x.rotated :
         x.mem[s][a] # None => x.mem[s][a].tok = is[a] /\ x.mem[s][a] # Store(k)!Content(x.snap[s])[a]
    /\ \A a \in x.rotated : \E s \in Store(k)!Sources : x.mem[s][a] # None

TokensKept(k, f, is, lo, pr) ==
    \A s \in Store(k)!Sources, a \in k.accounts \ lo :
        /\ Has(k, f[s], a) /\ f[s][a].tok # None
        /\ \A p \in k.procs : a \notin pr[p].rotated
        => f[s][a].tok = is[a]

RotInv(k) ==
    /\ StoreInv(k) /\ TokensKept(k, files, issued, lost, proc)
    /\ \A p \in k.procs : RotOf(k, proc[p], files, issued)

Locking(k) == "refresh" \notin k.commands /\ k.editable = {}

\* A process without the lock has no new tokens, and expects nothing of the files.
LEMMA RotOthers ==
    ASSUME NEW CONSTANT k, RotInv(k), NEW p \in k.procs, NEW q \in k.procs, q # p,
           UNCHANGED <<files, issued>> \/ lock = p
    PROVE  RotOf(k, proc[q], files', issued')
<1>1. RotOf(k, proc[q], files, issued) /\ LockOf(proc[q], lock = q)
  BY DEF RotInv, StoreInv
<1>2. CASE UNCHANGED <<files, issued>>
  BY <1>1, <1>2
<1>3. CASE lock = p
  <2>1. proc[q].pc \notin {"validate", "stage", "commit"}
    BY <1>1, <1>3 DEF LockOf
  <2>2. proc[q].pc = "idle" \/ proc[q].cmd # "probe"
    BY <1>1, <1>3 DEF LockOf
  <2>3. proc[q].rotated = {}
    BY <1>1, <2>2 DEF RotOf
  <2> QED
    BY <1>1, <2>1, <2>2, <2>3 DEF RotOf
<1> QED
  BY <1>2, <1>3

\* What a step has to establish.
LEMMA RotInvStep ==
    ASSUME NEW CONSTANT k, RotInv(k), NEW p \in k.procs, StoreInv(k)',
           \A q \in k.procs : q # p => proc'[q] = proc[q],
           UNCHANGED <<files, issued>> \/ lock = p,
           RotOf(k, proc'[p], files', issued'),
           TokensKept(k, files', issued', lost', proc')
    PROVE  RotInv(k)'
<1>1. ASSUME NEW q \in k.procs PROVE RotOf(k, proc'[q], files', issued')
  <2>1. CASE q = p
    BY <2>1
  <2>2. CASE q # p
    <3>1. RotOf(k, proc[q], files', issued')
      BY <2>2, RotOthers
    <3> QED
      BY <2>2, <3>1
  <2> QED
    BY <2>1, <2>2
<1> QED
  BY <1>1 DEF RotInv

\* The tokens on disk stay good when the files stay and no new token is dropped.
LEMMA TokensStay ==
    ASSUME NEW CONSTANT k, RotInv(k), NEW p \in k.procs,
           \A q \in k.procs : q # p => proc'[q] = proc[q], files' = files,
           lost \subseteq lost',
           \A a \in k.accounts : a \notin proc'[p].rotated /\ a \notin lost' =>
             a \notin proc[p].rotated /\ issued'[a] = issued[a]
    PROVE  TokensKept(k, files', issued', lost', proc')
<1>1. TokensKept(k, files, issued, lost, proc)
  BY DEF RotInv
<1>2. ASSUME NEW s \in Store(k)!Sources, NEW a \in k.accounts \ lost',
             Has(k, files[s], a), files[s][a].tok # None,
             \A q \in k.procs : a \notin proc'[q].rotated
      PROVE  files[s][a].tok = issued'[a]
  <2>1. a \notin proc[p].rotated /\ issued'[a] = issued[a]
    BY <1>2
  <2>2. \A q \in k.procs : a \notin proc[q].rotated
    BY <1>2, <2>1
  <2>3. a \in k.accounts \ lost
    BY <1>2
  <2>4. files[s][a].tok = issued[a]
    BY <1>1, <1>2, <2>2, <2>3 DEF TokensKept
  <2> QED
    BY <2>1, <2>4
<1> QED
  BY <1>2 DEF TokensKept

LEMMA IdleRot ==
    ASSUME NEW CONSTANT k, Store(k)!StoreAssumption, NEW f, NEW is
    PROVE  RotOf(k, Store(k)!Idle, f, is)
<1>1. /\ Store(k)!Idle.pc = "idle" /\ Store(k)!Idle.rotated = {}
      /\ \A s \in Store(k)!Sources : Store(k)!Idle.mem[s] = Store(k)!Empty
  BY IdleFacts
<1>2. \A a \in k.accounts : Store(k)!Empty[a] = None
  BY EmptyFacts
<1> QED
  BY <1>1, <1>2 DEF RotOf

\* A command ends that has no new tokens, or whose new tokens are lost.
LEMMA EndRot ==
    ASSUME NEW CONSTANT k, Store(k)!StoreAssumption, RotInv(k), NEW p \in k.procs,
           StoreInv(k)', Store(k)!End(p), files' = files, lost \subseteq lost',
           UNCHANGED issued \/ lock = p, proc[p].rotated \subseteq lost',
           \A a \in k.accounts \ lost' : issued'[a] = issued[a]
    PROVE  RotInv(k)'
<1>1. StoreTyped(k)
  BY DEF RotInv, StoreInv
<1>2. proc'[p] = Store(k)!Idle /\ \A q \in k.procs : q # p => proc'[q] = proc[q]
  BY <1>1, EndFacts
<1>3. RotOf(k, proc'[p], files', issued')
  BY <1>2, IdleRot
<1>4. TokensKept(k, files', issued', lost', proc')
  BY <1>2, TokensStay
<1> QED
  BY <1>2, <1>3, <1>4, RotInvStep

\* What is loaded is what the sources held.
LEMMA LoadedSame ==
    ASSUME NEW CONSTANT k, Store(k)!StoreAssumption, NEW x, MemOf(k, x),
           x.pc \in {"idle", "load", "loaded"},
           NEW t \in Store(k)!Sources, NEW a \in k.accounts, x.mem[t][a] # None
    PROVE  Has(k, x.snap[t], a) /\ x.snap[t][a].tok = x.mem[t][a].tok
<1>1. x.mem[t] = Store(k)!Content(x.snap[t])
  BY DEF MemOf
<1>2. x.snap[t] # Absent
  BY <1>1, EmptyFacts DEF Store!Content
<1>3. x.snap[t] = x.mem[t]
  BY <1>1, <1>2 DEF Store!Content
<1> QED
  BY <1>1, <1>3 DEF Has

LEMMA StartRot ==
    ASSUME NEW CONSTANT k, Store(k)!StoreAssumption, RotInv(k), NEW p \in k.procs,
           StoreInv(k)', NEW c \in k.commands, Store(k)!Start(p, c)
    PROVE  RotInv(k)'
<1>1. StoreTyped(k) /\ RotOf(k, proc[p], files, issued)
  BY DEF RotInv, StoreInv
<1>2. proc[p].pc = "idle" /\ UNCHANGED <<files, issued, lost, raced>>
  BY DEF Store!Start
<1>3. /\ proc'[p].pc = "load" /\ proc'[p].todo = Places(k) /\ proc'[p].rotated = {}
      /\ \A s \in Store(k)!Sources : proc'[p].mem[s] = Store(k)!Empty
      /\ \A q \in k.procs : q # p => proc'[q] = proc[q]
  BY <1>1, StartFacts
<1>4. \A a \in k.accounts : Store(k)!Empty[a] = None
  BY EmptyFacts
<1>5. RotOf(k, proc'[p], files', issued')
  BY <1>3, <1>4 DEF RotOf
<1>6. proc[p].rotated = {}
  BY <1>1, <1>2 DEF RotOf
<1>7. TokensKept(k, files', issued', lost', proc')
  BY <1>2, <1>3, <1>6, TokensStay
<1> QED
  BY <1>2, <1>3, <1>5, <1>7, RotInvStep

LEMMA LoadRot ==
    ASSUME NEW CONSTANT k, Store(k)!StoreAssumption, RotInv(k), NEW p \in k.procs,
           StoreInv(k)', Store(k)!LoadSource(p)
    PROVE  RotInv(k)'
<1>1. StoreTyped(k) /\ RotOf(k, proc[p], files, issued) /\ MemOf(k, proc[p]) /\ files \in Snaps(k)
  BY DEF RotInv, StoreInv, StoreTyped
<1>2. proc[p].pc = "load" /\ UNCHANGED <<files, issued, lost, raced>>
  BY DEF Store!LoadSource
<1>3. proc[p].rotated = {} /\ proc[p].todo # {}
  BY <1>1, <1>2 DEF RotOf, MemOf
<1>4. CASE Store(k)!End(p)
  BY <1>2, <1>3, <1>4, EndRot
<1>5. CASE ~Store(k)!End(p)
  <2>1. PICK i \in proc[p].todo :
             LET s == Store(k)!SourceOrder[i] IN
             /\ proc[p].pc = "load" /\ s \in Store(k)!Sources
             /\ proc' \in [k.procs -> ProcStates(k)]
             /\ \A a \in k.accounts : Store(k)!Content(files[s])[a] # None =>
                  \A t \in Store(k)!Sources : proc[p].mem[t][a] = None
             /\ proc'[p].snap = [proc[p].snap EXCEPT ![s] = files[s]]
             /\ proc'[p].mem = [proc[p].mem EXCEPT ![s] = Store(k)!Content(files[s])]
             /\ proc'[p].todo = proc[p].todo \ {i} /\ proc'[p].cmd = proc[p].cmd
             /\ proc'[p].rotated = proc[p].rotated
             /\ proc'[p].pc = IF proc[p].todo = {i} THEN "loaded" ELSE "load"
             /\ \A q \in k.procs : q # p => proc'[q] = proc[q]
             /\ UNCHANGED <<files, issued, lock, lost, raced>>
    BY <1>1, <1>3, <1>5, LoadFacts
  <2>2. PICK s \in Store(k)!Sources : s = Store(k)!SourceOrder[i]
    BY <2>1
  <2>3. proc[p].snap \in Snaps(k) /\ proc'[p].snap \in Snaps(k)
    <3>1. proc'[p] \in ProcStates(k)
      BY <2>1
    <3> QED
      BY <1>1, <3>1, ProcFacts DEF ProcStates
  <2>4. /\ proc'[p].snap[s] = files[s]
        /\ \A t \in Store(k)!Sources : t # s => proc'[p].snap[t] = proc[p].snap[t]
    BY <2>1, <2>2, <2>3 DEF Snaps
  <2>5. proc'[p].pc \in {"load", "loaded"} /\ proc'[p].rotated = {}
    BY <1>3, <2>1
  <2>6. ASSUME proc[p].cmd = "probe", NEW j \in Places(k) \ proc'[p].todo
        PROVE  files[Store(k)!SourceOrder[j]] = proc'[p].snap[Store(k)!SourceOrder[j]]
    <3>1. PICK t \in Store(k)!Sources : t = Store(k)!SourceOrder[j]
      BY <2>6, OrderFacts
    <3>2. CASE t = s
      BY <2>4, <3>1, <3>2
    <3>3. CASE t # s
      <4>1. j # i /\ j \notin proc[p].todo
        BY <2>1, <2>2, <2>6, <3>1, <3>3
      <4>2. files[t] = proc[p].snap[t]
        BY <1>1, <1>2, <2>6, <3>1, <4>1 DEF RotOf
      <4> QED
        BY <2>4, <3>1, <3>3, <4>2
    <3> QED
      BY <3>2, <3>3
  <2>7. ASSUME proc[p].cmd = "probe", proc'[p].pc = "loaded"
        PROVE  files = proc'[p].snap
    <3>1. proc'[p].todo = {}
      BY <2>1, <2>7
    <3>2. \A t \in Store(k)!Sources : files[t] = proc'[p].snap[t]
      BY <2>6, <2>7, <3>1, OrderFacts
    <3> QED
      BY <1>1, <2>3, <3>2 DEF Snaps
  <2>8. MemOf(k, proc'[p]) /\ StoreTyped(k)'
    BY DEF StoreInv
  <2>9. ASSUME NEW t \in Store(k)!Sources, NEW a \in k.accounts, proc'[p].mem[t][a] # None
        PROVE  Has(k, proc'[p].snap[t], a) /\ proc'[p].snap[t][a].tok = proc'[p].mem[t][a].tok
    BY <2>5, <2>8, <2>9, LoadedSame
  <2>10. RotOf(k, proc'[p], files', issued')
    BY <1>2, <2>1, <2>5, <2>6, <2>7, <2>9 DEF RotOf
  <2>11. TokensKept(k, files', issued', lost', proc')
    BY <1>2, <1>3, <2>1, TokensStay
  <2> QED
    BY <1>2, <2>1, <2>10, <2>11, RotInvStep
<1> QED
  BY <1>4, <1>5

\* An edit of a loaded account leaves its token or gives it none.
LEMMA EditRot ==
    ASSUME NEW CONSTANT k, Store(k)!StoreAssumption, RotInv(k), NEW p \in k.procs,
           StoreInv(k)', NEW s \in Store(k)!Sources, NEW a \in k.accounts, NEW v,
           Edited(k, p, s, a, v, proc[p].rotated), proc[p].pc = "loaded",
           v # None /\ v.tok # None =>
             proc[p].mem[s][a] # None /\ v.tok = proc[p].mem[s][a].tok,
           UNCHANGED <<files, issued, lock, lost, raced>>
    PROVE  RotInv(k)'
<1>1. StoreTyped(k) /\ RotOf(k, proc[p], files, issued)
  BY DEF RotInv, StoreInv
<1>2. /\ proc'[p].mem = [proc[p].mem EXCEPT ![s] = [@ EXCEPT ![a] = v]]
      /\ proc'[p].rotated = proc[p].rotated /\ proc'[p].pc = "changed"
      /\ proc'[p].cmd = proc[p].cmd /\ proc'[p].snap = proc[p].snap
      /\ \A q \in k.procs : q # p => proc'[q] = proc[q]
  BY DEF Edited
<1>3. proc[p].mem \in Mems(k)
  BY <1>1, ProcFacts
<1>4. /\ proc'[p].mem[s][a] = v
      /\ \A t \in Store(k)!Sources, b \in k.accounts :
           t # s \/ b # a => proc'[p].mem[t][b] = proc[p].mem[t][b]
  BY <1>2, <1>3 DEF Mems, Store!Contents
<1>5. proc[p].rotated = {}
  BY <1>1 DEF RotOf
<1>6. ASSUME NEW t \in Store(k)!Sources, NEW b \in k.accounts,
             proc'[p].mem[t][b] # None, proc'[p].mem[t][b].tok # None
      PROVE  Has(k, proc'[p].snap[t], b) /\ proc'[p].snap[t][b].tok = proc'[p].mem[t][b].tok
  <2>1. /\ proc[p].mem[t][b] # None /\ proc[p].mem[t][b].tok = proc'[p].mem[t][b].tok
    <3>1. CASE t = s /\ b = a
      BY <1>4, <1>6, <3>1
    <3>2. CASE t # s \/ b # a
      BY <1>4, <1>6, <3>2
    <3> QED
      BY <3>1, <3>2
  <2>2. Has(k, proc[p].snap[t], b) /\ proc[p].snap[t][b].tok = proc[p].mem[t][b].tok
    BY <1>1, <1>5, <1>6, <2>1 DEF RotOf
  <2> QED
    BY <1>2, <2>1, <2>2
<1>7. proc[p].cmd = "probe" => files = proc[p].snap
  BY <1>1 DEF RotOf
<1>8. RotOf(k, proc'[p], files', issued')
  BY <1>2, <1>5, <1>6, <1>7 DEF RotOf
<1>9. TokensKept(k, files', issued', lost', proc')
  BY <1>2, TokensStay
<1> QED
  BY <1>2, <1>8, <1>9, RotInvStep

LEMMA ChangeRot ==
    ASSUME NEW CONSTANT k, Store(k)!StoreAssumption, RotInv(k), NEW p \in k.procs,
           StoreInv(k)', Store(k)!Change(p)
    PROVE  RotInv(k)'
<1>1. StoreTyped(k) /\ RotOf(k, proc[p], files, issued)
  BY DEF RotInv, StoreInv
<1>2. ASSUME NEW s \in Store(k)!Sources, NEW a \in k.accounts, Store(k)!Upsert(p, s, a)
      PROVE  RotInv(k)'
  <2>1. CASE Store(k)!End(p)
    <3>1. UNCHANGED <<files, issued, lost, raced>> /\ proc[p].pc = "loaded"
      BY <1>2 DEF Store!Upsert
    <3>2. proc[p].rotated = {}
      BY <1>1, <3>1 DEF RotOf
    <3> QED
      BY <2>1, <3>1, <3>2, EndRot
  <2>2. CASE ~Store(k)!End(p)
    <3>1. /\ proc[p].pc = "loaded" /\ UNCHANGED <<files, issued, lock, lost, raced>>
          /\ Edited(k, p, s, a, [tok |-> None, label |-> FALSE], proc[p].rotated)
      BY <1>1, <1>2, <2>2, UpsertFacts
    <3>2. PICK v : Edited(k, p, s, a, v, proc[p].rotated) /\ v.tok = None
      BY <3>1
    <3> QED
      BY <3>1, <3>2, EditRot
  <2> QED
    BY <2>1, <2>2
<1>3. ASSUME NEW a \in k.accounts, Store(k)!Update(p, a) PROVE RotInv(k)'
  <2>1. PICK s \in Store(k)!Sources, v \in Store(k)!Account :
          /\ proc[p].pc = "loaded" /\ UNCHANGED <<files, issued, lock, lost, raced>>
          /\ proc[p].mem[s][a] # None /\ v.tok = proc[p].mem[s][a].tok
          /\ Edited(k, p, s, a, v, proc[p].rotated)
    BY <1>1, <1>3, UpdateFacts
  <2> QED
    BY <2>1, EditRot
<1>4. ASSUME NEW a \in k.accounts, Store(k)!RemoveAccount(p, a) PROVE RotInv(k)'
  <2>1. PICK s \in Store(k)!Sources :
          /\ proc[p].pc = "loaded" /\ UNCHANGED <<files, issued, lock, lost, raced>>
          /\ Edited(k, p, s, a, None, proc[p].rotated)
    BY <1>1, <1>4, RemoveFacts
  <2> QED
    BY <2>1, EditRot
<1>5. k.main \in Store(k)!Sources /\ Store(k)!Range(k.shards) \subseteq Store(k)!Sources
  BY SourceFacts
<1> QED
  BY <1>2, <1>3, <1>4, <1>5 DEF Store!Change

\* A probe exchanges one token, and has the lock.
LEMMA ProbeFacts ==
    ASSUME NEW CONSTANT k, Store(k)!StoreAssumption, Locking(k), RotInv(k),
           NEW p \in k.procs, NEW a \in k.accounts, Store(k)!Exchanges(p, a)
    PROVE  /\ proc[p].cmd = "probe" /\ proc[p].rotated = {} /\ lock = p
           /\ proc[p].pc \in {"loaded", "changed"} /\ files = proc[p].snap
<1>1. /\ StoreTyped(k) /\ RotOf(k, proc[p], files, issued) /\ LockOf(proc[p], lock = p)
  BY DEF RotInv, StoreInv
<1>2. proc[p].cmd \in k.commands \cup {None}
  BY <1>1, ProcFacts
<1>3. /\ proc[p].pc \in {"loaded", "changed"} /\ proc[p].cmd \in {"probe", "refresh"}
      /\ proc[p].cmd = "probe" => proc[p].rotated = {}
  BY DEF Store!Exchanges
<1>4. proc[p].cmd = "probe"
  BY <1>2, <1>3 DEF Locking, Store!StoreAssumption, Store!CommandNames
<1> QED
  BY <1>1, <1>3, <1>4 DEF LockOf, RotOf

LEMMA ExchangeRot ==
    ASSUME NEW CONSTANT k, Store(k)!StoreAssumption, Locking(k), RotInv(k), NEW p \in k.procs,
           StoreInv(k)', NEW a \in k.accounts, Store(k)!Exchange(p, a)
    PROVE  RotInv(k)'
<1>1. /\ StoreTyped(k) /\ RotOf(k, proc[p], files, issued) /\ MemOf(k, proc[p])
      /\ issued \in [k.accounts -> 0..k.maxTok] /\ k.maxTok \in Nat
      /\ None \notin 0..k.maxTok
  BY DEF RotInv, StoreInv, StoreTyped, Store!StoreAssumption
<1>2. /\ Store(k)!Exchanges(p, a) /\ UNCHANGED <<files, lock, lost, raced>>
      /\ issued[a] < k.maxTok /\ issued' = [issued EXCEPT ![a] = @ + 1]
  BY <1>1, ExchangeFacts
<1>3. PICK s \in Store(k)!Sources, v \in Store(k)!Account :
        /\ proc[p].mem[s][a] # None /\ proc[p].mem[s][a].tok = issued[a]
        /\ v.tok = issued[a] + 1 /\ Edited(k, p, s, a, v, proc[p].rotated \cup {a})
  BY <1>1, ExchangeFacts
<1>4. /\ proc[p].cmd = "probe" /\ proc[p].rotated = {} /\ lock = p
      /\ proc[p].pc \in {"loaded", "changed"} /\ files = proc[p].snap
  BY <1>2, ProbeFacts
<1>5. /\ proc'[p].mem = [proc[p].mem EXCEPT ![s] = [@ EXCEPT ![a] = v]]
      /\ proc'[p].rotated = {a} /\ proc'[p].pc = "changed"
      /\ proc'[p].cmd = proc[p].cmd /\ proc'[p].snap = proc[p].snap
      /\ \A q \in k.procs : q # p => proc'[q] = proc[q]
  BY <1>3, <1>4 DEF Edited
<1>6. proc[p].mem \in Mems(k)
  BY <1>1, ProcFacts
<1>7. /\ proc'[p].mem[s][a] = v
      /\ \A t \in Store(k)!Sources, b \in k.accounts :
           t # s \/ b # a => proc'[p].mem[t][b] = proc[p].mem[t][b]
  BY <1>5, <1>6 DEF Mems, Store!Contents
<1>8. /\ issued'[a] = issued[a] + 1 /\ issued[a] \in 0..k.maxTok
      /\ \A b \in k.accounts : b # a => issued'[b] = issued[b]
  BY <1>1, <1>2
<1>9. v # None
  BY DEF Store!StoreAssumption
<1>10. Has(k, proc[p].snap[s], a) /\ proc[p].snap[s][a].tok = issued[a]
  BY <1>1, <1>3, <1>4, <1>8 DEF RotOf
<1>11. v # Store(k)!Content(proc[p].snap[s])[a]
  <2>1. proc[p].snap[s] # Absent
    BY <1>10, EmptyFacts DEF Has, Store!Content
  <2>2. Store(k)!Content(proc[p].snap[s])[a].tok = issued[a]
    BY <1>10, <2>1 DEF Store!Content
  <2>3. v.tok # issued[a]
    BY <1>3, <1>8
  <2> QED
    BY <2>2, <2>3
<1>12. ASSUME NEW t \in Store(k)!Sources, proc'[p].mem[t][a] # None PROVE t = s
  BY <1>1, <1>3, <1>7, <1>12 DEF MemOf
<1>13. ASSUME NEW t \in Store(k)!Sources, NEW b \in k.accounts, b # a,
              proc'[p].mem[t][b] # None, proc'[p].mem[t][b].tok # None
       PROVE  Has(k, proc'[p].snap[t], b) /\ proc'[p].snap[t][b].tok = proc'[p].mem[t][b].tok
  BY <1>1, <1>4, <1>5, <1>7, <1>13 DEF RotOf
<1>14. ASSUME NEW t \in Store(k)!Sources, proc'[p].mem[t][a] # None
       PROVE  /\ proc'[p].mem[t][a].tok = issued'[a]
              /\ proc'[p].mem[t][a] # Store(k)!Content(proc'[p].snap[t])[a]
  BY <1>3, <1>5, <1>7, <1>8, <1>11, <1>12, <1>14
<1>15. RotOf(k, proc'[p], files', issued')
  BY <1>2, <1>4, <1>5, <1>7, <1>9, <1>13, <1>14, SMTT(30) DEF RotOf
<1>16. TokensKept(k, files', issued', lost', proc')
  BY <1>2, <1>4, <1>5, <1>8, TokensStay
<1> QED
  BY <1>4, <1>5, <1>15, <1>16, RotInvStep

LEMMA ExchangeFailsRot ==
    ASSUME NEW CONSTANT k, Store(k)!StoreAssumption, Locking(k), RotInv(k), NEW p \in k.procs,
           StoreInv(k)', NEW a \in k.accounts, Store(k)!ExchangeFails(p, a)
    PROVE  RotInv(k)'
<1>1. /\ RotOf(k, proc[p], files, issued) /\ issued \in [k.accounts -> 0..k.maxTok]
      /\ TokensKept(k, files, issued, lost, proc)
  BY DEF RotInv, StoreInv, StoreTyped
<1>2. Store(k)!Exchanges(p, a) /\ UNCHANGED <<files, raced>>
  BY DEF Store!ExchangeFails
<1>3. proc[p].rotated = {} /\ lock = p
  BY <1>2, ProbeFacts
<1>4. lost \subseteq lost' /\ \A b \in k.accounts \ lost' : issued'[b] = issued[b]
  <2>1. CASE UNCHANGED <<issued, lost>>
    BY <2>1
  <2>2. CASE issued' = [issued EXCEPT ![a] = @ + 1] /\ lost' = lost \cup {a}
    BY <1>1, <2>2
  <2> QED
    BY <2>1, <2>2 DEF Store!ExchangeFails
<1>5. CASE Store(k)!End(p)
  BY <1>2, <1>3, <1>4, <1>5, EndRot
<1>6. CASE UNCHANGED <<proc, lock>>
  <2>1. RotOf(k, proc[p], files', issued')
    BY <1>1, <1>2, <1>3 DEF RotOf
  <2>2. TokensKept(k, files', issued', lost', proc')
    BY <1>2, <1>3, <1>4, <1>6, TokensStay
  <2> QED
    BY <1>3, <1>6, <2>1, <2>2, RotInvStep
<1> QED
  BY <1>5, <1>6 DEF Store!ExchangeFails

LEMMA CrashRot ==
    ASSUME NEW CONSTANT k, Store(k)!StoreAssumption, RotInv(k), NEW p \in k.procs,
           StoreInv(k)', Store(k)!Crash(p)
    PROVE  RotInv(k)'
BY EndRot DEF Store!Crash

\* The probe's save gets the lock it has, and the sources are as they were.
LEMMA AcquireRot ==
    ASSUME NEW CONSTANT k, Store(k)!StoreAssumption, RotInv(k), NEW p \in k.procs,
           StoreInv(k)', Store(k)!AcquireLock(p)
    PROVE  RotInv(k)'
<1>1. StoreTyped(k) /\ RotOf(k, proc[p], files, issued) /\ LockOf(proc[p], lock = p)
  BY DEF RotInv, StoreInv
<1>2. proc[p].pc = "changed" /\ UNCHANGED <<files, issued, lost, raced>>
  BY DEF Store!AcquireLock
<1>3. CASE lock \notin {None, p}
  <2>1. Store(k)!End(p)
    BY <1>3 DEF Store!AcquireLock
  <2>2. proc[p].rotated = {}
    BY <1>1, <1>2, <1>3 DEF LockOf, RotOf
  <2> QED
    BY <1>2, <2>1, <2>2, EndRot
<1>4. CASE lock \in {None, p}
  <2>1. Store(k)!Goto(p, "validate")
    BY <1>4 DEF Store!AcquireLock
  <2>2. /\ proc'[p].pc = "validate" /\ proc'[p].cmd = proc[p].cmd /\ proc'[p].snap = proc[p].snap
        /\ proc'[p].mem = proc[p].mem /\ proc'[p].rotated = proc[p].rotated
        /\ \A q \in k.procs : q # p => proc'[q] = proc[q]
    <3>1. "validate" \in StoreSteps
      BY DEF StoreSteps
    <3> QED
      BY <1>1, <2>1, <3>1, GotoFacts
  <2>3. RotOf(k, proc'[p], files', issued')
    BY <1>1, <1>2, <2>2 DEF RotOf
  <2>4. TokensKept(k, files', issued', lost', proc')
    BY <1>2, <2>2, TokensStay
  <2> QED
    BY <1>2, <2>2, <2>3, <2>4, RotInvStep
<1> QED
  BY <1>3, <1>4

\* A new token is a change of the source that has the account.
LEMMA RotatedChanged ==
    ASSUME NEW CONSTANT k, Store(k)!StoreAssumption, NEW x, NEW f, NEW is, RotOf(k, x, f, is),
           x.rotated \subseteq k.accounts, NEW a \in x.rotated
    PROVE  \E i \in ChangedIn(k, x) : x.mem[Store(k)!SourceOrder[i]][a] # None
<1>1. PICK s \in Store(k)!Sources : x.mem[s][a] # None
  BY DEF RotOf
<1>2. x.mem[s] # Store(k)!Content(x.snap[s])
  BY <1>1 DEF RotOf
<1>3. PICK i \in Places(k) : Store(k)!SourceOrder[i] = s
  BY OrderFacts
<1> QED
  BY <1>1, <1>2, <1>3 DEF ChangedIn

LEMMA ValidateRot ==
    ASSUME NEW CONSTANT k, Store(k)!StoreAssumption, RotInv(k), NEW p \in k.procs,
           StoreInv(k)', Store(k)!Validate(p)
    PROVE  RotInv(k)'
<1>1. /\ StoreTyped(k) /\ RotOf(k, proc[p], files, issued)
      /\ proc[p].rotated \subseteq k.accounts
  BY ProcFacts DEF RotInv, StoreInv
<1>2. proc[p].pc = "validate" /\ UNCHANGED <<files, issued, lost, raced>>
  BY DEF Store!Validate
<1>3. CASE ~(Store(k)!SourcesUnchanged(p) /\ Store(k)!Changed(p) # {})
  <2>1. Store(k)!End(p)
    BY <1>3 DEF Store!Validate
  <2>2. ASSUME NEW a \in proc[p].rotated PROVE FALSE
    <3>1. files = proc[p].snap
      BY <1>1, <1>2, <2>2 DEF RotOf
    <3>2. ChangedIn(k, proc[p]) # {}
      BY <1>1, <2>2, RotatedChanged
    <3> QED
      BY <1>3, <3>1, <3>2 DEF Store!SourcesUnchanged, Store!Changed, ChangedIn, Places
  <2> QED
    BY <1>2, <2>1, <2>2, EndRot
<1>4. CASE Store(k)!SourcesUnchanged(p) /\ Store(k)!Changed(p) # {}
  <2>1. /\ proc'[p].pc = "stage" /\ proc'[p].cmd = proc[p].cmd /\ proc'[p].snap = proc[p].snap
        /\ proc'[p].mem = proc[p].mem /\ proc'[p].rotated = proc[p].rotated
        /\ files = proc[p].snap
        /\ \A q \in k.procs : q # p => proc'[q] = proc[q]
    <3>1. ~Store(k)!End(p)
      <4>1. proc' = [proc EXCEPT ![p].todo = Store(k)!Changed(p), ![p].pc = "stage"]
        BY <1>4 DEF Store!Validate
      <4>2. proc'[p].pc = "stage"
        BY <1>1, <4>1 DEF StoreTyped, ProcStates
      <4>3. ASSUME Store(k)!End(p) PROVE FALSE
        <5>1. proc'[p].pc = "idle"
          BY <1>1, <4>3, EndFacts, IdleFacts
        <5> QED
          BY <4>2, <5>1
      <4> QED
        BY <4>3
    <3> QED
      BY <1>1, <3>1, ValidateFacts
  <2>2. RotOf(k, proc'[p], files', issued')
    BY <1>1, <1>2, <2>1 DEF RotOf
  <2>3. TokensKept(k, files', issued', lost', proc')
    BY <1>2, <2>1, TokensStay
  <2> QED
    BY <1>2, <2>1, <2>2, <2>3, RotInvStep
<1> QED
  BY <1>3, <1>4

LEMMA StageRot ==
    ASSUME NEW CONSTANT k, Store(k)!StoreAssumption, RotInv(k), NEW p \in k.procs,
           StoreInv(k)', Store(k)!Stage(p)
    PROVE  RotInv(k)'
<1>1. StoreTyped(k) /\ RotOf(k, proc[p], files, issued)
  BY DEF RotInv, StoreInv
<1>2. proc[p].pc = "stage" /\ UNCHANGED <<files, issued, lost, raced>>
  BY DEF Store!Stage
<1>3. files = proc[p].snap
  BY <1>1, <1>2 DEF RotOf
<1>4. Store(k)!Goto(p, "commit")
  BY <1>3 DEF Store!Stage, Store!SourcesUnchanged
<1>5. /\ proc'[p].pc = "commit" /\ proc'[p].cmd = proc[p].cmd /\ proc'[p].snap = proc[p].snap
      /\ proc'[p].mem = proc[p].mem /\ proc'[p].rotated = proc[p].rotated
      /\ \A q \in k.procs : q # p => proc'[q] = proc[q]
  <2>1. "commit" \in StoreSteps
    BY DEF StoreSteps
  <2> QED
    BY <1>1, <1>4, <2>1, GotoFacts
<1>6. RotOf(k, proc'[p], files', issued')
  BY <1>1, <1>2, <1>5 DEF RotOf
<1>7. TokensKept(k, files', issued', lost', proc')
  BY <1>2, <1>5, TokensStay
<1> QED
  BY <1>2, <1>5, <1>6, <1>7, RotInvStep

\* A source is written, and its new tokens with it.
LEMMA WriteRot ==
    ASSUME NEW CONSTANT k, Store(k)!StoreAssumption, RotInv(k), NEW p \in k.procs,
           proc[p].pc = "commit", NEW s \in Store(k)!Sources,
           files'[s] = proc[p].mem[s], Store(k)!Content(proc[p].mem[s]) = proc[p].mem[s],
           \A t \in Store(k)!Sources : t # s => files'[t] = files[t], UNCHANGED <<issued, lost>>,
           \A q \in k.procs : q # p => proc'[q] = proc[q],
           \A a \in k.accounts : a \in proc[p].rotated /\ a \notin proc'[p].rotated =>
             proc[p].mem[s][a] # None
    PROVE  TokensKept(k, files', issued', lost', proc')
<1>1. /\ StoreInv(k) /\ RotOf(k, proc[p], files, issued) /\ MemOf(k, proc[p])
      /\ TokensKept(k, files, issued, lost, proc)
  BY DEF RotInv, StoreInv
<1>2. files = proc[p].snap
  BY <1>1 DEF RotOf
<1>3. /\ files'[s] = proc[p].mem[s]
      /\ \A t \in Store(k)!Sources : t # s => files'[t] = files[t]
      /\ Store(k)!Content(proc[p].mem[s]) = proc[p].mem[s]
  OBVIOUS
<1>4. ASSUME NEW t \in Store(k)!Sources, NEW a \in k.accounts \ lost,
             Has(k, files'[t], a), files'[t][a].tok # None,
             \A q \in k.procs : a \notin proc'[q].rotated
      PROVE  files'[t][a].tok = issued[a]
  <2>1. \A q \in k.procs : q # p => a \notin proc[q].rotated
    BY <1>4
  <2>2. CASE a \notin proc[p].rotated
    <3>1. \A q \in k.procs : a \notin proc[q].rotated
      BY <2>1, <2>2
    <3>2. ASSUME Has(k, files[t], a), files[t][a].tok # None
          PROVE  files[t][a].tok = issued[a]
      BY <1>1, <1>4, <3>1, <3>2 DEF TokensKept
    <3>3. CASE t # s
      BY <1>3, <1>4, <3>2, <3>3
    <3>4. CASE t = s
      <4>1. proc[p].mem[s][a] # None /\ proc[p].mem[s][a].tok # None
        BY <1>3, <1>4, <3>4 DEF Has
      <4>2. Has(k, proc[p].snap[s], a) /\ proc[p].snap[s][a].tok = proc[p].mem[s][a].tok
        BY <1>1, <1>4, <2>2, <4>1 DEF RotOf
      <4> QED
        BY <1>2, <1>3, <3>2, <3>4, <4>1, <4>2
    <3> QED
      BY <3>3, <3>4
  <2>3. CASE a \in proc[p].rotated
    <3>1. proc[p].mem[s][a] # None
      BY <1>4, <2>3
    <3>2. CASE t = s
      BY <1>1, <1>3, <2>3, <3>1, <3>2 DEF RotOf
    <3>3. CASE t # s
      <4>1. ~Has(k, proc[p].snap[t], a)
        BY <1>1, <1>4, <3>1, <3>3 DEF MemOf
      <4> QED
        BY <1>2, <1>3, <1>4, <3>3, <4>1
    <3> QED
      BY <3>2, <3>3
  <2> QED
    BY <2>2, <2>3
<1> QED
  BY <1>4 DEF TokensKept

LEMMA CommitRot ==
    ASSUME NEW CONSTANT k, Store(k)!StoreAssumption, RotInv(k), NEW p \in k.procs,
           StoreInv(k)', Store(k)!Commit(p)
    PROVE  RotInv(k)'
<1>1. /\ StoreInv(k) /\ StoreTyped(k) /\ RotOf(k, proc[p], files, issued) /\ MemOf(k, proc[p])
      /\ SaveOf(k, proc[p], files, raced) /\ LockOf(proc[p], lock = p) /\ files \in Snaps(k)
      /\ proc[p].rotated \subseteq k.accounts
  BY ProcFacts DEF RotInv, StoreInv, StoreTyped
<1>2. proc[p].pc = "commit" /\ UNCHANGED <<issued, lost>>
  BY DEF Store!Commit
<1>3. proc[p].todo # {} /\ lock = p /\ files = proc[p].snap
  BY <1>1, <1>2 DEF MemOf, LockOf, RotOf
<1>4. PICK i \in proc[p].todo, s \in Store(k)!Sources :
        s = Store(k)!SourceOrder[i] /\ Commits(k, p, i, s)
  BY <1>1, <1>3, CommitFacts
<1>5. files' = [files EXCEPT ![s] = proc[p].mem[s]]
  BY <1>3, <1>4 DEF Commits
<1> DEFINE Wrote == /\ files'[s] = proc[p].mem[s]
                    /\ \A t \in Store(k)!Sources : t # s => files'[t] = files[t]
                    /\ Store(k)!Content(proc[p].mem[s]) = proc[p].mem[s]
<1>6. Wrote
  <2>1. StoreInv(k) /\ proc[p].pc = "commit"
    BY <1>1, <1>2
  <2>2. /\ files' \in Snaps(k) /\ Apart(k, files') /\ files'[s] = proc[p].mem[s]
        /\ \A t \in Store(k)!Sources : t # s => files'[t] = files[t]
        /\ Store(k)!Content(proc[p].mem[s]) = proc[p].mem[s]
    BY <1>5, <2>1, WriteInv, ZenonT(30)
  <2> QED
    BY <2>2
<1>7. CASE Store(k)!End(p) /\ proc[p].todo = {i}
  <2>1. proc'[p] = Store(k)!Idle /\ \A q \in k.procs : q # p => proc'[q] = proc[q]
    BY <1>1, <1>7, EndFacts
  <2>2. RotOf(k, proc'[p], files', issued')
    BY <2>1, IdleRot
  <2>3. ASSUME NEW a \in k.accounts, a \in proc[p].rotated PROVE proc[p].mem[s][a] # None
    <3>1. PICK j \in ChangedIn(k, proc[p]) : proc[p].mem[Store(k)!SourceOrder[j]][a] # None
      BY <1>1, <2>3, RotatedChanged
    <3>2. j = i
      BY <1>1, <1>2, <1>7, <3>1 DEF SaveOf
    <3> QED
      BY <1>4, <3>1, <3>2
  <2>4. TokensKept(k, files', issued', lost', proc')
    BY <1>2, <1>6, <2>1, <2>3, WriteRot
  <2> QED
    BY <1>3, <2>1, <2>2, <2>4, RotInvStep
<1>8. CASE /\ proc'[p].snap = [proc[p].snap EXCEPT ![s] = proc[p].mem[s]]
           /\ proc'[p].pc = "stage"
           /\ proc'[p].rotated = {a \in proc[p].rotated : proc[p].mem[s][a] = None}
           /\ proc'[p].mem = proc[p].mem /\ proc'[p].cmd = proc[p].cmd
           /\ \A q \in k.procs : q # p => proc'[q] = proc[q]
  <2>1. files' = proc'[p].snap
    BY <1>3, <1>5, <1>8
  <2>2. TokensKept(k, files', issued', lost', proc')
    BY <1>2, <1>6, <1>8, WriteRot
  <2>3. /\ proc'[p].snap[s] = proc[p].mem[s]
        /\ \A t \in Store(k)!Sources : t # s => proc'[p].snap[t] = proc[p].snap[t]
        /\ Store(k)!Content(proc[p].mem[s]) = proc[p].mem[s]
    BY <1>3, <1>6, <2>1
  <2>4. ASSUME NEW t \in Store(k)!Sources, NEW a \in k.accounts, proc[p].mem[t][a] # None,
               a \notin proc'[p].rotated, proc[p].mem[t][a].tok # None
        PROVE  Has(k, proc'[p].snap[t], a) /\ proc'[p].snap[t][a].tok = proc[p].mem[t][a].tok
    <3>1. CASE t = s
      BY <2>3, <2>4, <3>1 DEF Has
    <3>2. CASE t # s
      <4>1. a \notin proc[p].rotated
        BY <1>1, <1>8, <2>4, <3>2 DEF MemOf
      <4> QED
        BY <1>1, <2>3, <2>4, <3>2, <4>1 DEF RotOf
    <3> QED
      BY <3>1, <3>2
  <2>5. ASSUME NEW t \in Store(k)!Sources, NEW a \in proc'[p].rotated, proc[p].mem[t][a] # None
        PROVE  /\ proc[p].mem[t][a].tok = issued[a]
               /\ proc[p].mem[t][a] # Store(k)!Content(proc'[p].snap[t])[a]
    <3>1. a \in proc[p].rotated /\ t # s
      BY <1>8, <2>5
    <3> QED
      BY <1>1, <2>3, <2>5, <3>1 DEF RotOf
  <2>6. \A a \in proc'[p].rotated : \E t \in Store(k)!Sources : proc[p].mem[t][a] # None
    BY <1>1, <1>8 DEF RotOf
  <2>7. proc'[p].rotated # {} => proc'[p].cmd = "probe"
    BY <1>1, <1>8 DEF RotOf
  <2>8. RotOf(k, proc'[p], files', issued')
    BY <1>2, <1>8, <2>1, <2>4, <2>5, <2>6, <2>7 DEF RotOf
  <2> QED
    BY <1>3, <1>8, <2>2, <2>8, RotInvStep
<1> QED
  BY <1>3, <1>4, <1>7, <1>8 DEF Commits

LEMMA RotStep ==
    ASSUME NEW CONSTANT k, Store(k)!StoreAssumption, Locking(k), RotInv(k),
           [Store(k)!Next]_(Store(k)!vars)
    PROVE  RotInv(k)'
<1>1. StoreInv(k)'
  BY StoreStep DEF RotInv
<1>2. CASE UNCHANGED Store(k)!vars
  BY <1>1, <1>2 DEF Store!vars, RotInv
<1>3. ASSUME NEW p \in k.procs, Store(k)!Step(p) PROVE RotInv(k)'
  BY <1>1, <1>3, StartRot, LoadRot, ChangeRot, ExchangeRot, ExchangeFailsRot, AcquireRot,
     ValidateRot, StageRot, CommitRot, CrashRot DEF Store!Step
<1> QED
  BY <1>2, <1>3 DEF Store!Next, Locking

LEMMA StoreInit ==
    ASSUME NEW CONSTANT k, Store(k)!StoreAssumption, Store(k)!Init
    PROVE  StoreInv(k) /\ RotInv(k)
<1> DEFINE Fresh(a) == [Store(k)!Empty EXCEPT ![a] = [tok |-> 0, label |-> FALSE]]
<1>1. /\ files \in [Store(k)!Sources -> {Absent, Store(k)!Empty} \cup {Fresh(a) : a \in k.accounts}]
      /\ \A s, t \in Store(k)!Sources : s # t /\ files[s] # Absent /\ files[t] # Absent =>
           \A a \in k.accounts : files[s][a] = None \/ files[t][a] = None
      /\ issued = [a \in k.accounts |-> 0] /\ lock = None
      /\ proc = [p \in k.procs |-> Store(k)!Idle] /\ lost = {} /\ raced = {}
  BY DEF Store!Init
<1>2. ASSUME NEW a \in k.accounts
      PROVE  /\ Fresh(a) \in Store(k)!Contents
             /\ \A b \in k.accounts : Fresh(a)[b] # None => Fresh(a)[b].tok = 0
  <2>1. PICK v : v = [tok |-> 0, label |-> FALSE]
    OBVIOUS
  <2>2. v \in Store(k)!Account /\ v.tok = 0
    BY <2>1 DEF Store!Account, Store!StoreAssumption
  <2>3. /\ Store(k)!Empty \in Store(k)!Contents
        /\ \A b \in k.accounts : Store(k)!Empty[b] = None
    BY EmptyFacts
  <2>4. PICK c : c = [Store(k)!Empty EXCEPT ![a] = v]
    OBVIOUS
  <2>5. c \in Store(k)!Contents /\ \A b \in k.accounts : c[b] # None => c[b].tok = 0
    BY <2>2, <2>3, <2>4 DEF Store!Contents
  <2>6. Fresh(a) = c
    BY <2>1, <2>4
  <2> HIDE DEF Fresh
  <2> QED
    BY <2>5, <2>6
<1> HIDE DEF Fresh
<1>3. /\ Store(k)!Empty \in Store(k)!Contents
      /\ \A b \in k.accounts : Store(k)!Empty[b] = None
      /\ Store(k)!Content(Absent) = Store(k)!Empty
      /\ \A c \in Store(k)!Contents : Store(k)!Content(c) = c
  BY EmptyFacts DEF Store!Content
<1>4. files \in Snaps(k)
  BY <1>1, <1>2, <1>3 DEF Snaps, Kept
<1>5. Store(k)!Idle \in ProcStates(k)
  BY IdleTyped
<1>6. StoreTyped(k)
  BY <1>1, <1>4, <1>5 DEF StoreTyped, Store!StoreAssumption
<1>7. ASSUME NEW s \in Store(k)!Sources, NEW a \in k.accounts, Has(k, files[s], a)
      PROVE  files[s] # Absent /\ files[s][a] # None /\ files[s][a].tok = 0
  <2>1. files[s] # Absent
    BY <1>3, <1>7 DEF Has
  <2>2. files[s] \in Store(k)!Contents
    BY <1>4, <2>1 DEF Snaps, Kept
  <2>3. files[s][a] # None
    BY <1>3, <1>7, <2>2 DEF Has
  <2> QED
    BY <1>1, <1>2, <1>3, <2>1, <2>3
<1>8. Apart(k, files)
  BY <1>1, <1>7 DEF Apart
<1>9. ASSUME NEW p \in k.procs
      PROVE  /\ LockOf(proc[p], lock = p) /\ MemOf(k, proc[p])
             /\ SaveOf(k, proc[p], files, raced) /\ RotOf(k, proc[p], files, issued)
  <2>1. proc[p] = Store(k)!Idle
    BY <1>1
  <2> QED
    BY <2>1, IdleInv, IdleRot
<1>10. TokensKept(k, files, issued, lost, proc)
  BY <1>1, <1>7 DEF TokensKept
<1> QED
  BY <1>6, <1>8, <1>9, <1>10 DEF StoreInv, RotInv

\* The invariant of the credential store in its two settings.
StoresInv ==
    /\ part = "rotation" => RotInv(Rotation)
    /\ part = "crashing" => StoreInv(Crashing)

LEMMA StoresStep ==
    ASSUME StoresInv, [Next]_vars
    PROVE  StoresInv'
<1>1. /\ part' = part
      /\ part = "rotation" => [Store(Rotation)!Next]_(Store(Rotation)!vars)
      /\ part = "crashing" => [Store(Crashing)!Next]_(Store(Crashing)!vars)
  BY PartStep
<1>2. ASSUME part = "rotation" PROVE RotInv(Rotation)'
  <2>1. Store(Rotation)!StoreAssumption /\ Locking(Rotation)
    BY FilesAssumption DEF Locking
  <2> QED
    BY <1>1, <1>2, <2>1, RotStep DEF StoresInv
<1>3. ASSUME part = "crashing" PROVE StoreInv(Crashing)'
  <2>1. Store(Crashing)!StoreAssumption
    BY FilesAssumption
  <2> QED
    BY <1>1, <1>3, <2>1, StoreStep DEF StoresInv
<1> QED
  BY <1>1, <1>2, <1>3 DEF StoresInv

LEMMA StoresInit ==
    ASSUME Init
    PROVE  StoresInv
<1>1. Store(Rotation)!StoreAssumption /\ Store(Crashing)!StoreAssumption
  BY FilesAssumption
<1>2. ASSUME part = "rotation" PROVE RotInv(Rotation)
  <2>1. Store(Rotation)!Init
    BY <1>2 DEF Init
  <2> QED
    BY <1>1, <2>1, StoreInit
<1>3. ASSUME part = "crashing" PROVE StoreInv(Crashing)
  <2>1. Store(Crashing)!Init
    BY <1>3 DEF Init
  <2> QED
    BY <1>1, <2>1, StoreInit
<1> QED
  BY <1>2, <1>3 DEF StoresInv

\* Where every command that rotates a token locks first, the token on disk is the one the
\* provider accepts once the exchanges are over; and whatever the commands, the crashes
\* and the edits by hand, an account stays in one source (AuthStore::save,
\* validate_sources_unchanged, refresh_credential).
THEOREM CredentialsAreKept == Spec => []CredentialsKept
<1>1. Init => StoresInv
  BY StoresInit
<1>2. StoresInv /\ [Next]_vars => StoresInv'
  BY StoresStep
<1>3. StoresInv => CredentialsKept
  <2>1. ASSUME RotInv(Rotation) PROVE Store(Rotation)!TypeOK /\ Store(Rotation)!RotationKept
    <3>1. StoreTyped(Rotation) /\ TokensKept(Rotation, files, issued, lost, proc)
      BY <2>1 DEF RotInv, StoreInv
    <3>2. Store(Rotation)!RotationKept
      BY <3>1 DEF TokensKept, Has, Store!RotationKept
    <3> QED
      BY <3>1, <3>2, StoreTypes
  <2>2. ASSUME StoreInv(Crashing) PROVE Store(Crashing)!TypeOK /\ Store(Crashing)!UniqueAccounts
    <3>1. StoreTyped(Crashing) /\ Apart(Crashing, files)
      BY <2>2 DEF StoreInv
    <3>2. Store(Crashing)!UniqueAccounts
      BY <3>1 DEF Apart, Has, Store!UniqueAccounts
    <3> QED
      BY <3>1, <3>2, StoreTypes
  <2> QED
    BY <2>1, <2>2 DEF StoresInv, CredentialsKept
<1> QED
  BY <1>1, <1>2, <1>3, PTL DEF Spec

\* What a process is about to write over is what it loaded.
LEMMA StoreActions ==
    ASSUME NEW CONSTANT k, StoreInv(k)
    PROVE  Store(k)!NoLostUpdate
<1> SUFFICES ASSUME NEW p \in k.procs, NEW s \in Store(k)!Sources,
                    proc[p].pc = "commit", s \notin raced
             PROVE  files[s] = proc[p].snap[s]
  BY DEF Store!NoLostUpdate
<1>1. SaveOf(k, proc[p], files, raced)
  BY DEF StoreInv
<1> QED
  BY <1>1 DEF SaveOf

\* No step overwrites what its process has not seen (AuthStore::save and its second look at
\* every source; the comparison in front of each write of the configuration).
THEOREM NothingIsClobbered == Spec => NoBlindWrite
<1> DEFINE Seen == /\ part = "crashing" => Store(Crashing)!NoLostUpdate
                   /\ part = "locked" => Config(Locked)!SchemaFixed
                   /\ part = "outside" => /\ Config(Outside)!MissingNeverClobbers
                                          /\ Config(Outside)!LostOnlyInWindow
<1>1. Init => StoresInv /\ ConfigsInv
  BY StoresInit, FilesAssumption, ConfigInit DEF Init, ConfigsInv
<1>2. StoresInv /\ ConfigsInv /\ [Next]_vars => StoresInv' /\ ConfigsInv'
  BY StoresStep, ConfigsStep
<1>3. ASSUME StoresInv, ConfigsInv, [Next]_vars PROVE Seen
  <2>1. /\ part = "locked" => [Config(Locked)!Next]_(Config(Locked)!vars)
        /\ part = "outside" => [Config(Outside)!Next]_(Config(Outside)!vars)
    BY <1>3, PartStep
  <2>2. ASSUME part = "crashing" PROVE Store(Crashing)!NoLostUpdate
    BY <1>3, <2>2, StoreActions DEF StoresInv
  <2>3. ASSUME part = "locked" PROVE Config(Locked)!SchemaFixed
    <3>1. ConfigInv(Locked) /\ Locked.externals = {}
      BY <1>3, <2>3, FilesAssumption DEF ConfigsInv
    <3> QED
      BY <2>1, <2>3, <3>1, ConfigActions
  <2>4. ASSUME part = "outside"
        PROVE  Config(Outside)!MissingNeverClobbers /\ Config(Outside)!LostOnlyInWindow
    <3>1. ConfigInv(Outside)
      BY <1>3, <2>4 DEF ConfigsInv
    <3> QED
      BY <2>1, <2>4, <3>1, ConfigActions
  <2> QED
    BY <2>2, <2>3, <2>4
<1>4. StoresInv /\ ConfigsInv /\ [Next]_vars => [Seen]_<<storeVars, configVars>>
  BY <1>3
<1> QED
  BY <1>1, <1>2, <1>4, PTL DEF Spec, NoBlindWrite

-----------------------------------------------------------------------------
(* Linking and unlinking an agent (AgentMigration). *)

\* The places of a link once it has the lock: until the agent's auth file is stripped,
\* and after that.
AgentSaving == {"backup", "shard"}
AgentSaved == {"moved", "bind", "bound", Agent!Fragment, "fragmentWritten", "strip"}
AgentStripped == {Agent!Config, "configWritten", "complete"}
AgentApplying == AgentSaving \cup AgentSaved \cup AgentStripped

AgentPlan ==
    [ts : 0..MaxPlans, previous : 0..MaxPlans, auth : Agent!Credentials,
     shard : Agent!Credentials, file : [Agent!Files -> Agent!Contents], bound : BOOLEAN]
AgentTasks ==
    {"load", "restore", "handoff", Agent!Config, Agent!Fragment, "shard", "unbind", "mark"}
AgentCommand ==
    [pc : {"idle", "planned", "resolved", "unlink"} \cup AgentApplying, plan : AgentPlan,
     do : AgentTasks, at : Nat, accounts : Agent!Credentials]

AgentTyped ==
    /\ auth \in Agent!Credentials /\ shard \in Agent!Credentials /\ live \in Agent!Credentials
    /\ file \in [Agent!Files -> Agent!Contents] /\ bound \in BOOLEAN
    /\ Agent!Written \subseteq 1..MaxPlans
    /\ \A m \in Agent!Written :
          manifest[m] \in Agent!ManifestType /\ manifest[m].previous < m
    /\ agentLock \in Commands \cup {Nobody} /\ cmd \in [Commands -> AgentCommand]
    /\ clock \in 0..MaxPlans /\ edits \in 1..(MaxEdits + 1) /\ tokens \in 1..MaxTokens
    /\ lateEdit \in BOOLEAN /\ sharedRefresh \in BOOLEAN

\* A command at work holds the lock.
Working(c) == cmd[c].pc \in AgentApplying \cup {"unlink"}
LockOk(c) == Working(c) => agentLock = c

Planned(c) == cmd[c].pc \in {"planned", "backup"}
Recorded(c) == cmd[c].pc \in AgentApplying \ {"backup"}

\* A manifest's predecessor is there, one that has none was written when no trace of a
\* link was left, and a digest of the config is of a file with the text of the backup.
ManifestOk(m) ==
    /\ manifest[m].previous \in Agent!Written \cup {0} /\ m <= clock
    /\ manifest[m].previous = 0 =>
          /\ manifest[m].shardBackup = Agent!Nowhere /\ ~manifest[m].before
          /\ \A f \in Agent!Files : manifest[m].backup[f].links = {}
    /\ manifest[m].digest[Agent!Config] # Agent!NoDigest =>
          manifest[m].digest[Agent!Config].text = manifest[m].backup[Agent!Config].text
    /\ Agent!Held(manifest[m].shardBackup) \subseteq Agent!Held(live)
    /\ manifest[m].backup[Agent!Config].text <= edits

Manifests == \A m \in Agent!Written : ManifestOk(m)

\* A plan's manifest is not written before its backup, and has a timestamp of its own.
PlanOk(c) ==
    /\ cmd[c].plan.ts \in 1..clock /\ cmd[c].plan.ts \notin Agent!Written
    /\ cmd[c].plan.previous \in Agent!Written \cup {0} /\ cmd[c].plan.previous < cmd[c].plan.ts
    /\ \A d \in Commands \ {c} : Planned(d) => cmd[d].plan.ts # cmd[c].plan.ts

PlannedOk(c) ==
    /\ Planned(c) => PlanOk(c)
    /\ cmd[c].pc = "resolved" => cmd[c].plan.previous \in Agent!Written
    /\ cmd[c].pc \in {"planned"} \cup AgentApplying =>
          /\ Agent!Held(Agent!Imported(cmd[c].plan)) # {}
          /\ Agent!Held(cmd[c].plan.auth) \cup Agent!Held(cmd[c].plan.shard) \subseteq Agent!Held(live)

\* The latest active manifest is m; with 0 there is none.
Latest(m) == (m # 0 => m \in Agent!Active) /\ \A n \in Agent!Active : n <= m

\* The manifest of a link at work is the latest, and says what the plan says.
LinkOk(c) ==
    LET plan == cmd[c].plan IN
    /\ cmd[c].pc = "backup" => Latest(plan.previous) /\ bound = plan.bound
    /\ Recorded(c) =>
          /\ plan.ts # 0 /\ Latest(plan.ts)
          /\ manifest[plan.ts].stripped = Agent!Held(plan.auth)
          /\ Agent!Held(plan.auth) \subseteq manifest[plan.ts].imported
          /\ manifest[plan.ts].handoff <=> Agent!Held(plan.auth) = {}

\* Nothing is left when no manifest is active.
Traceless ==
    Agent!Active = {} =>
        /\ shard = Agent!Nowhere /\ ~bound
        /\ \A f \in Agent!Files : file[f].links = {}

\* The providers whose credential the agent lacks: the latest manifest has imported it, and one
\* that may still hand it back has stripped it.
Taken == Agent!Held(live) \ Agent!Held(auth)
Returnable ==
    \A p \in Taken :
        /\ \A m \in Agent!Active : Latest(m) => p \in manifest[m].imported
        /\ \E m \in Agent!Active : ~manifest[m].handoff /\ p \in manifest[m].stripped

Credentialed ==
    /\ Agent!Held(auth) \cup Agent!Held(shard) \subseteq Agent!Held(live)
    /\ Agent!CredentialHeld /\ Agent!LiveCredentialHeld
    /\ sharedRefresh \/ \A p \in Agent!Held(auth) : live[p] = auth[p]

\* What a link at work knows of the credentials.
HandoverOk(c) ==
    LET plan == cmd[c].plan IN
    /\ cmd[c].pc \in AgentSaving \cup AgentSaved => Agent!Held(plan.auth) \subseteq Agent!Held(auth)
    /\ cmd[c].pc = "backup" => Taken \subseteq Agent!Held(plan.shard)
    /\ cmd[c].pc \in AgentSaved =>
          \A p \in Agent!Held(plan.auth) :
              shard[p] # 0 /\ (sharedRefresh \/ shard[p] = plan.auth[p])

\* The text of the config only grows, so a file that is as planned was not edited.
TextOk(c) ==
    LET text == cmd[c].plan.file[Agent!Config].text
        kept == manifest[cmd[c].plan.ts].backup[Agent!Config].text
    IN
    /\ cmd[c].pc = "backup" => text <= file[Agent!Config].text
    /\ cmd[c].pc \in ({"shard"} \cup AgentSaved \cup {Agent!Config}) =>
          text <= kept /\ kept <= file[Agent!Config].text
    /\ cmd[c].pc = "configWritten" => text = kept

\* An unlink undoes the latest manifest and all before it: first the credentials, then the
\* files back to those before the oldest, then the binding.
UndoOk(c) ==
    LET m == cmd[c].plan.previous
        ch == Agent!Chain(c)
        do == cmd[c].do
        last == cmd[c].at = Len(ch)
    IN
    /\ m # 0 /\ Latest(m) /\ cmd[c].at \in DOMAIN ch
    /\ lateEdit \/ \A i \in DOMAIN ch : manifest[ch[i]].backup[Agent!Config].text = edits
    /\ do = "restore" =>
          /\ \A p \in Taken : p \in Agent!ToRestore(ch) /\ cmd[c].accounts[p] # 0
          /\ \A p \in Agent!Held(cmd[c].accounts) :
                live[p] # 0 /\ (sharedRefresh \/ cmd[c].accounts[p] = shard[p])
    /\ do \notin {"load", "restore"} => Taken = {}
    /\ do \in {Agent!Fragment, "shard"} /\ last => file[Agent!Config].links = {}
    /\ do = "shard" /\ last => file[Agent!Fragment].links = {}
    /\ do \in {"unbind", "mark"} =>
          shard = Agent!Nowhere /\ \A f \in Agent!Files : file[f].links = {}
    /\ do = "mark" =>
          ~bound /\ \A i \in DOMAIN ch : i > cmd[c].at => manifest[ch[i]].unlinked

AgentDisk ==
    /\ Manifests /\ Agent!OneChain /\ Traceless /\ Returnable /\ Credentialed
    /\ file[Agent!Config].text <= edits /\ Agent!EditsKept

CommandOk(c) ==
    /\ LockOk(c) /\ PlannedOk(c) /\ LinkOk(c) /\ HandoverOk(c) /\ TextOk(c)
    /\ cmd[c].pc = "unlink" => UndoOk(c)

AgentInv == AgentTyped /\ AgentDisk /\ \A c \in Commands : CommandOk(c)

-----------------------------------------------------------------------------
(* The chain of a manifest. *)

\* The least element of a set of naturals.
LEMMA LeastOf ==
    ASSUME NEW S, S \subseteq Nat, S # {}
    PROVE  \E i \in S : \A j \in S : i <= j
<1>1. PICK i \in S : \A j \in S : ~(<<j, i>> \in OpToRel(<, Nat))
  BY NatLessThanWellFounded, WFMin
<1>2. ASSUME NEW j \in S PROVE i <= j
  <2>1. i \in Nat /\ j \in Nat
    BY <1>1
  <2>2. ASSUME j < i PROVE FALSE
    <3>1. <<j, i>> \in OpToRel(<, Nat)
      BY <2>1, <2>2 DEF OpToRel
    <3> QED
      BY <1>1, <1>2, <3>1
  <2> QED
    BY <2>1, <2>2
<1> QED
  BY <1>1, <1>2

\* What the walk from each manifest to its predecessor gives, among the manifests `man`.
AgentWalk(man, g, n) ==
    [m \in 0..n |->
        IF m \in DOMAIN man THEN <<m>> \o g[man[m].previous] ELSE <<>>]

PreviousBefore(man) ==
    /\ DOMAIN man \subseteq 1..MaxPlans
    /\ \A m \in DOMAIN man :
          man[m].previous \in DOMAIN man \cup {0} /\ man[m].previous < m

\* There is such a function.
LEMMA WalkExists ==
    ASSUME NEW man, MaxPlans \in Nat, PreviousBefore(man)
    PROVE  \E g : g = AgentWalk(man, g, MaxPlans)
<1> DEFINE bad == {n \in 0..MaxPlans : ~\E g : g = AgentWalk(man, g, n)}
<1>1. ASSUME bad # {} PROVE FALSE
  <2>0. bad \subseteq Nat
    OBVIOUS
  <2>1. PICK n \in bad : \A j \in bad : n <= j
    <3> HIDE DEF bad
    <3> QED
      BY <1>1, <2>0, LeastOf
  <2>2. n \in 0..MaxPlans /\ ~\E g : g = AgentWalk(man, g, n)
    OBVIOUS
  <2> HIDE DEF bad
  <2>3. CASE n = 0
    <3> DEFINE g == [m \in 0..0 |-> <<>>]
    <3>1. 0 \notin DOMAIN man
      BY DEF PreviousBefore
    <3>2. g = AgentWalk(man, g, 0)
      BY <3>1 DEF AgentWalk
    <3> QED
      BY <2>2, <2>3, <3>2
  <2>4. CASE n # 0
    <3>1. n - 1 \in 0..MaxPlans /\ n - 1 < n
      BY <2>2, <2>4
    <3>2. n - 1 \notin bad
      <4>1. ASSUME n - 1 \in bad PROVE FALSE
        <5>1. n <= n - 1
          BY <2>1, <4>1
        <5> QED
          BY <5>1, <2>2
      <4> QED
        BY <4>1
    <3>3. PICK g : g = AgentWalk(man, g, n - 1)
      BY <3>1, <3>2 DEF bad
    <3> DEFINE h == [m \in 0..n |->
                       IF m = n
                       THEN IF n \in DOMAIN man THEN <<n>> \o g[man[n].previous] ELSE <<>>
                       ELSE g[m]]
    <3>4. ASSUME NEW m \in 0..n
          PROVE  h[m] = AgentWalk(man, h, n)[m]
      <4>1. CASE m \in DOMAIN man
        <5>1. man[m].previous \in 0..(n - 1) /\ man[m].previous < m
          <6>1. man[m].previous \in Nat /\ man[m].previous < m /\ m <= n
            <7>1. DOMAIN man \subseteq Nat
              BY DEF PreviousBefore
            <7> QED
              BY <7>1, <4>1, <2>2 DEF PreviousBefore
          <6> QED
            BY <6>1, <2>2
        <5>2. h[man[m].previous] = g[man[m].previous]
          BY <5>1, <2>2, <3>1
        <5>3. AgentWalk(man, h, n)[m] = <<m>> \o g[man[m].previous]
          BY <4>1, <5>2 DEF AgentWalk
        <5>4. CASE m = n
          BY <5>3, <5>4, <4>1
        <5>5. CASE m # n
          <6>1. m \in 0..(n - 1)
            BY <5>5, <2>2
          <6>2. g[m] = <<m>> \o g[man[m].previous]
            BY <3>3, <4>1, <6>1 DEF AgentWalk
          <6>3. h[m] = g[m]
            BY <5>5
          <6> QED
            BY <6>2, <6>3, <5>3
        <5> QED
          BY <5>4, <5>5
      <4>2. CASE m \notin DOMAIN man
        <5>1. AgentWalk(man, h, n)[m] = <<>>
          BY <4>2 DEF AgentWalk
        <5>2. CASE m = n
          BY <5>1, <5>2, <4>2
        <5>3. CASE m # n
          <6>1. m \in 0..(n - 1)
            BY <5>3, <2>2
          <6>2. g[m] = <<>>
            BY <3>3, <4>2, <6>1 DEF AgentWalk
          <6> QED
            BY <5>1, <5>3, <6>2
        <5> QED
          BY <5>2, <5>3
      <4> QED
        BY <4>1, <4>2
    <3>5. h = AgentWalk(man, h, n)
      <4>1. DOMAIN AgentWalk(man, h, n) = 0..n /\ AgentWalk(man, h, n) = [m \in 0..n |-> AgentWalk(man, h, n)[m]]
        BY DEF AgentWalk
      <4> HIDE DEF h
      <4>2. h = [m \in 0..n |-> h[m]]
        BY DEF h
      <4> QED
        BY <3>4, <4>1, <4>2
    <3> QED
      BY <2>2, <3>5
  <2> QED
    BY <2>3, <2>4
<1>2. MaxPlans \notin bad
  BY <1>1
<1> QED
  BY <1>2

LEMMA ChainIs ==
    ASSUME MaxPlans \in Nat, PreviousBefore(manifest)
    PROVE  Agent!chainTo = AgentWalk(manifest, Agent!chainTo, MaxPlans)
<1>1. Agent!chainTo = CHOOSE g : g = AgentWalk(manifest, g, MaxPlans)
  BY DEF Agent!chainTo, AgentWalk, Agent!Written
<1>2. \E g : g = AgentWalk(manifest, g, MaxPlans)
  BY WalkExists
<1> QED
  BY <1>1, <1>2

LEMMA NextChainIs ==
    ASSUME MaxPlans \in Nat, PreviousBefore(manifest')
    PROVE  Agent!chainTo' = AgentWalk(manifest', Agent!chainTo', MaxPlans)
<1>1. Agent!chainTo' = CHOOSE g : g = AgentWalk(manifest', g, MaxPlans)
  BY DEF Agent!chainTo, AgentWalk, Agent!Written
<1>2. \E g : g = AgentWalk(manifest', g, MaxPlans)
  BY WalkExists
<1> QED
  BY <1>1, <1>2

\* A chain goes from its manifest, from each to the one before it, to one that has none.
ChainOf(man, ch, m) ==
    /\ ch \in Seq(DOMAIN man) /\ Len(ch) > 0 /\ ch[1] = m
    /\ man[ch[Len(ch)]].previous = 0
    /\ \A i \in DOMAIN ch : i < Len(ch) => man[ch[i]].previous = ch[i + 1]

LEMMA WalkFacts ==
    ASSUME NEW man, NEW g, MaxPlans \in Nat, PreviousBefore(man), g = AgentWalk(man, g, MaxPlans)
    PROVE  /\ \A m \in DOMAIN man : ChainOf(man, g[m], m)
           /\ \A m \in DOMAIN man : g[m] = <<m>> \o g[man[m].previous]
           /\ g[0] = <<>>
<1> DEFINE bad == {m \in DOMAIN man : ~ChainOf(man, g[m], m)}
<1>0. DOMAIN man \subseteq 1..MaxPlans /\ 0 \notin DOMAIN man
  BY DEF PreviousBefore
<1>1. g[0] = <<>>
  <2>1. 0 \in 0..MaxPlans
    OBVIOUS
  <2> QED
    BY <1>0, <2>1 DEF AgentWalk
<1>2. ASSUME NEW m \in DOMAIN man PROVE g[m] = <<m>> \o g[man[m].previous]
  <2>1. m \in 0..MaxPlans
    BY <1>0, <1>2
  <2> QED
    BY <1>2, <2>1 DEF AgentWalk
<1>3. ASSUME bad # {} PROVE FALSE
  <2>1. bad \subseteq Nat
    BY <1>0
  <2>2. PICK m \in bad : \A j \in bad : m <= j
    <3> HIDE DEF bad
    <3> QED
      BY <1>3, <2>1, LeastOf
  <2>3. m \in DOMAIN man /\ ~ChainOf(man, g[m], m) /\ m \in Nat
    BY <2>1
  <2> DEFINE prev == man[m].previous
  <2>4. (prev \in DOMAIN man \/ prev = 0) /\ prev < m /\ prev \in Nat
    BY <1>0, <2>3 DEF PreviousBefore
  <2>5. g[m] = <<m>> \o g[prev]
    BY <1>2, <2>3
  <2>6. CASE prev = 0
    <3>1. g[m] = <<m>>
      <4>1. <<m>> \in Seq(Nat)
        BY <2>3
      <4>2. <<m>> \o <<>> = <<m>>
        BY <4>1, ConcatEmptySeq
      <4> QED
        BY <1>1, <2>5, <2>6, <4>2
    <3>2. ChainOf(man, g[m], m)
      BY <3>1, <2>3, <2>6 DEF ChainOf
    <3> QED
      BY <3>2, <2>3
  <2>7. CASE prev \in DOMAIN man
    <3> DEFINE rest == g[prev]
    <3>1. ChainOf(man, rest, prev)
      <4>1. prev \notin bad
        <5>1. ASSUME prev \in bad PROVE FALSE
          <6>1. m <= prev
            BY <2>2, <5>1
          <6> QED
            BY <6>1, <2>3, <2>4
        <5> QED
          BY <5>1
      <4> QED
        BY <4>1, <2>7
    <3> HIDE DEF rest
    <3>2. /\ rest \in Seq(DOMAIN man) /\ Len(rest) > 0 /\ Len(rest) \in Nat
          /\ rest[1] = prev /\ man[rest[Len(rest)]].previous = 0
      BY <3>1 DEF ChainOf
    <3> DEFINE ch == <<m>> \o rest
    <3>3. ch \in Seq(DOMAIN man) /\ Len(ch) = Len(rest) + 1 /\ ch[1] = m
          /\ \A i \in 1..Len(rest) : ch[i + 1] = rest[i]
      BY <3>2, <2>3
    <3>4. man[ch[Len(ch)]].previous = 0
      BY <3>2, <3>3
    <3>5. ASSUME NEW i \in DOMAIN ch, i < Len(ch) PROVE man[ch[i]].previous = ch[i + 1]
      <4>1. i \in 1..Len(rest) /\ ch[i + 1] = rest[i]
        BY <3>3, <3>5, <3>2
      <4>2. CASE i = 1
        BY <4>1, <4>2, <3>2, <3>3
      <4>3. CASE i # 1
        <5>1. i - 1 \in 1..Len(rest) /\ i - 1 \in DOMAIN rest /\ i - 1 < Len(rest)
          BY <4>1, <4>3, <3>2
        <5>2. ch[i] = rest[i - 1]
          <6>1. ch[(i - 1) + 1] = rest[i - 1]
            BY <5>1, <3>3
          <6> QED
            BY <6>1, <4>1
        <5>3. man[rest[i - 1]].previous = rest[(i - 1) + 1]
          BY <3>1, <5>1 DEF ChainOf
        <5> QED
          BY <4>1, <5>2, <5>3
      <4> QED
        BY <4>2, <4>3
    <3>6. ChainOf(man, ch, m)
      BY <3>2, <3>3, <3>4, <3>5 DEF ChainOf
    <3> QED
      BY <3>6, <2>3, <2>5 DEF rest
  <2> QED
    BY <2>4, <2>6, <2>7
<1> QED
  BY <1>1, <1>2, <1>3

LEMMA ChainFacts ==
    ASSUME MaxPlans \in Nat, PreviousBefore(manifest)
    PROVE  /\ \A m \in Agent!Written : ChainOf(manifest, Agent!manifest_chain(m), m)
           /\ \A m \in Agent!Written :
                 Agent!manifest_chain(m) = <<m>> \o Agent!manifest_chain(manifest[m].previous)
           /\ Agent!manifest_chain(0) = <<>>
BY ChainIs, WalkFacts DEF Agent!manifest_chain, Agent!Written

\* The chains of the manifests that are there do not change.
LEMMA ChainsKept ==
    ASSUME MaxPlans \in Nat, PreviousBefore(manifest), PreviousBefore(manifest'),
           Agent!Written \subseteq Agent!Written',
           \A m \in Agent!Written : manifest'[m].previous = manifest[m].previous
    PROVE  \A m \in Agent!Written \cup {0} :
              Agent!manifest_chain(m)' = Agent!manifest_chain(m)
<1> DEFINE g == Agent!chainTo
           h == Agent!chainTo'
           W == DOMAIN manifest
           bad == {m \in W \cup {0} : h[m] # g[m]}
<1>0. W \subseteq DOMAIN (manifest') /\ W \subseteq 1..MaxPlans /\ 0 \notin W
  BY DEF PreviousBefore, Agent!Written
<1>1. /\ \A m \in W : g[m] = <<m>> \o g[manifest[m].previous]
      /\ g[0] = <<>>
  <2>1. g = AgentWalk(manifest, g, MaxPlans)
    BY ChainIs
  <2> HIDE DEF g
  <2> QED
    BY <2>1, WalkFacts
<1>2. /\ \A m \in W : h[m] = <<m>> \o h[manifest[m].previous]
      /\ h[0] = <<>>
  <2>1. h = AgentWalk(manifest', h, MaxPlans)
    BY NextChainIs
  <2> HIDE DEF h
  <2>2. /\ \A m \in DOMAIN (manifest') : h[m] = <<m>> \o h[manifest'[m].previous]
        /\ h[0] = <<>>
    BY <2>1, WalkFacts
  <2> QED
    BY <2>2, <1>0 DEF Agent!Written
<1> HIDE DEF g, h
<1>3. ASSUME bad # {} PROVE FALSE
  <2>1. bad \subseteq Nat
    BY <1>0
  <2>2. PICK m \in bad : \A j \in bad : m <= j
    <3> HIDE DEF bad
    <3> QED
      BY <1>3, <2>1, LeastOf
  <2>3. m \in W
    BY <1>1, <1>2
  <2> DEFINE prev == manifest[m].previous
  <2>4. prev \in W \cup {0} /\ prev < m /\ prev \in Nat /\ m \in Nat
    BY <1>0, <2>3 DEF PreviousBefore
  <2>5. h[prev] = g[prev]
    <3>1. ASSUME prev \in bad PROVE FALSE
      <4>1. m <= prev
        BY <2>2, <3>1
      <4> QED
        BY <4>1, <2>4
    <3> QED
      BY <3>1, <2>4
  <2> QED
    BY <1>1, <1>2, <2>3, <2>5
<1> QED
  BY <1>3 DEF g, h, Agent!manifest_chain, Agent!Written

-----------------------------------------------------------------------------
(* How a command moves. *)

\* The step of a link after each.
LEMMA AfterIs ==
    /\ Agent!After("backup") = "shard" /\ Agent!After("shard") = "moved"
    /\ Agent!After("moved") = "bind" /\ Agent!After("bind") = "bound"
    /\ Agent!After("bound") = Agent!Fragment
    /\ Agent!After(Agent!Fragment) = "fragmentWritten"
    /\ Agent!After("fragmentWritten") = "strip" /\ Agent!After("strip") = Agent!Config
    /\ Agent!After(Agent!Config) = "configWritten" /\ Agent!After("configWritten") = "complete"
<1> DEFINE order == Agent!ApplyOrder
<1>1. /\ DOMAIN order = 1..11
      /\ order[1] = "backup" /\ order[2] = "shard" /\ order[3] = "moved" /\ order[4] = "bind"
      /\ order[5] = "bound" /\ order[6] = "fragment" /\ order[7] = "fragmentWritten"
      /\ order[8] = "strip" /\ order[9] = "config" /\ order[10] = "configWritten"
      /\ order[11] = "complete"
  BY DEF Agent!ApplyOrder, Agent!Fragment, Agent!Config
<1> HIDE DEF order
<1>2. \A i, j \in DOMAIN order : order[i] = order[j] => i = j
  BY <1>1
<1>3. ASSUME NEW i \in 1..10 PROVE Agent!After(order[i]) = order[i + 1]
  <2>1. i \in DOMAIN order
    BY <1>1
  <2>2. (CHOOSE j \in DOMAIN order : order[j] = order[i]) = i
    BY <1>2, <2>1
  <2>3. Agent!After(order[i]) = order[1 + (CHOOSE j \in DOMAIN order : order[j] = order[i])]
    BY Zenon DEF Agent!After, order
  <2>4. 1 + i = i + 1
    OBVIOUS
  <2> QED
    BY <2>2, <2>3, <2>4
<1>4. /\ Agent!After(order[1]) = order[2] /\ Agent!After(order[2]) = order[3]
      /\ Agent!After(order[3]) = order[4] /\ Agent!After(order[4]) = order[5]
      /\ Agent!After(order[5]) = order[6] /\ Agent!After(order[6]) = order[7]
      /\ Agent!After(order[7]) = order[8] /\ Agent!After(order[8]) = order[9]
      /\ Agent!After(order[9]) = order[10] /\ Agent!After(order[10]) = order[11]
  <2>1. \A i \in 1..10 : Agent!After(order[i]) = order[i + 1]
    BY <1>3
  <2> QED
    BY <2>1
<1> QED
  BY <1>1, <1>4 DEF Agent!Fragment, Agent!Config

AgentMoves(c, new) ==
    /\ cmd' \in [Commands -> AgentCommand] /\ cmd'[c] = new
    /\ \A d \in Commands \ {c} : cmd'[d] = cmd[d]

LEMMA AgentIdle ==
    ASSUME Agent!AgentMigrationAssumption
    PROVE  Agent!Idle \in AgentCommand /\ Agent!Idle.pc = "idle"
<1>1. Agent!Nowhere \in Agent!Credentials
  BY DEF Agent!Nowhere, Agent!Credentials, Agent!AgentMigrationAssumption
<1>2. Agent!Missing \in Agent!Contents
  BY DEF Agent!Missing, Agent!Contents, Agent!AgentMigrationAssumption
<1>3. Agent!NoPlan \in AgentPlan
  BY <1>1, <1>2 DEF Agent!NoPlan, AgentPlan, Agent!AgentMigrationAssumption
<1> QED
  BY <1>1, <1>3 DEF Agent!Idle, AgentCommand, AgentTasks

LEMMA AgentStops ==
    ASSUME Agent!AgentMigrationAssumption, cmd \in [Commands -> AgentCommand],
           NEW c \in Commands, Agent!Stop(c)
    PROVE  /\ AgentMoves(c, Agent!Idle) /\ cmd'[c].pc = "idle"
           /\ agentLock' = IF agentLock = c THEN Nobody ELSE agentLock
BY AgentIdle DEF Agent!Stop, AgentMoves

LEMMA AgentAdvances ==
    ASSUME cmd \in [Commands -> AgentCommand], NEW c \in Commands,
           cmd[c].pc \in AgentApplying \ {"complete"}, Agent!Advance(c)
    PROVE  /\ AgentMoves(c, [cmd[c] EXCEPT !.pc = Agent!After(cmd[c].pc)])
           /\ cmd'[c].pc = Agent!After(cmd[c].pc) /\ cmd'[c].pc \in AgentApplying
           /\ cmd'[c].plan = cmd[c].plan /\ agentLock' = agentLock
<1>1. Agent!After(cmd[c].pc) \in AgentApplying
  BY AfterIs DEF AgentApplying, AgentSaving, AgentSaved, AgentStripped
<1>2. cmd[c] \in AgentCommand
  OBVIOUS
<1>3. cmd' = [cmd EXCEPT ![c] = [cmd[c] EXCEPT !.pc = Agent!After(cmd[c].pc)]] /\ agentLock' = agentLock
  BY DEF Agent!Advance
<1>4. [cmd[c] EXCEPT !.pc = Agent!After(cmd[c].pc)] \in AgentCommand
  BY <1>1, <1>2 DEF AgentCommand
<1> QED
  BY <1>1, <1>2, <1>3, <1>4 DEF AgentMoves, AgentCommand

LEMMA AgentTurns ==
    ASSUME cmd \in [Commands -> AgentCommand], NEW c \in Commands, NEW do \in AgentTasks,
           NEW i \in Nat, Agent!Turn(c, do, i)
    PROVE  /\ AgentMoves(c, cmd'[c]) /\ cmd'[c].pc = cmd[c].pc /\ cmd'[c].plan = cmd[c].plan
           /\ cmd'[c].do = do /\ cmd'[c].at = i /\ cmd'[c].accounts = cmd[c].accounts
           /\ agentLock' = agentLock
<1>1. cmd[c] \in AgentCommand
  OBVIOUS
<1>2. cmd' = [cmd EXCEPT ![c] = [cmd[c] EXCEPT !.do = do, !.at = i]] /\ agentLock' = agentLock
  BY DEF Agent!Turn
<1>3. [cmd[c] EXCEPT !.do = do, !.at = i] \in AgentCommand
  BY <1>1 DEF AgentCommand
<1> QED
  BY <1>1, <1>2, <1>3 DEF AgentMoves, AgentCommand

-----------------------------------------------------------------------------
(* What a step of one command leaves to the others. *)

\* A command that is idle again knows nothing.
LEMMA AgentIdleOk ==
    ASSUME NEW c \in Commands, cmd'[c].pc = "idle"
    PROVE  CommandOk(c)'
BY DEF CommandOk, LockOk, Working, PlannedOk, Planned, LinkOk, Recorded, HandoverOk, TextOk,
   AgentApplying, AgentSaving, AgentSaved, AgentStripped, Agent!Fragment, Agent!Config

\* What a command knows stands while the disk, its plan and its place do.
LEMMA SameDisk ==
    ASSUME UNCHANGED <<Agent!disk, Agent!user>>
    PROVE  /\ Agent!Written' = Agent!Written /\ Agent!Active' = Agent!Active
           /\ Taken' = Taken
           /\ \A m : Latest(m)' <=> Latest(m)
           /\ \A m : Agent!manifest_chain(m)' = Agent!manifest_chain(m)
           /\ Agent!latest_active_manifest' = Agent!latest_active_manifest
BY DEF Agent!disk, Agent!user, Agent!Written, Agent!Active, Agent!Held, Taken, Latest,
   Agent!manifest_chain, Agent!chainTo, Agent!latest_active_manifest

LEMMA DiskKept ==
    ASSUME AgentTyped, AgentDisk, UNCHANGED <<Agent!disk, Agent!user>>, clock' \in Nat, clock' >= clock
    PROVE  AgentDisk'
<1>1. Manifests'
  <2>1. ASSUME NEW m \in Agent!Written PROVE ManifestOk(m)'
    <3>1. m <= clock /\ m \in Nat /\ clock \in Nat
      <4>1. m <= clock
        BY <2>1 DEF AgentDisk, Manifests, ManifestOk
      <4>2. Agent!Written \subseteq 1..MaxPlans /\ clock \in 0..MaxPlans
        BY DEF AgentTyped
      <4> QED
        BY <2>1, <4>1, <4>2
    <3>2. m <= clock'
      BY <3>1
    <3> QED
      BY <2>1, <3>2, SameDisk DEF AgentDisk, Manifests, ManifestOk, Agent!disk, Agent!user, Agent!Held
  <2> QED
    BY <2>1, SameDisk DEF Manifests
<1>2. Agent!OneChain'
  BY SameDisk DEF AgentDisk, Agent!OneChain
<1>3. Traceless' /\ Returnable'
  BY SameDisk DEF AgentDisk, Traceless, Returnable, Agent!disk, Agent!user
<1>4. Credentialed' /\ (file[Agent!Config].text <= edits)' /\ Agent!EditsKept'
  BY DEF AgentDisk, Credentialed, Agent!CredentialHeld, Agent!LiveCredentialHeld, Agent!EditsKept,
     Agent!disk, Agent!user, Agent!Held
<1> QED
  BY <1>1, <1>2, <1>3, <1>4 DEF AgentDisk

\* Command c moves: another's knowledge stands if the disk does, and otherwise the other is
\* not at work, as c has the lock.
LEMMA OthersOk ==
    ASSUME Agent!AgentMigrationAssumption, AgentTyped, NEW c \in Commands, NEW d \in Commands, d # c, \A e \in Commands : CommandOk(e),
           AgentMoves(c, cmd'[c]), UNCHANGED Agent!user, clock' \in Nat, clock' >= clock,
           \/ UNCHANGED Agent!disk /\ (agentLock' = agentLock \/ agentLock \in {Nobody, c})
           \/ agentLock = c,
           Agent!Written \subseteq Agent!Written',
           Planned(d) => /\ cmd[d].plan.ts \notin Agent!Written'
                         /\ Planned(c)' => cmd'[c].plan.ts # cmd[d].plan.ts
    PROVE  CommandOk(d)'
<1>1. cmd'[d] = cmd[d] /\ \A e \in Commands \ {c} : cmd'[e] = cmd[e]
  BY DEF AgentMoves
<1>2. LockOk(d)'
  <2>1. Working(d)' <=> Working(d)
    BY <1>1 DEF Working
  <2>2. CASE ~Working(d)
    BY <2>1, <2>2 DEF LockOk
  <2>3. CASE Working(d)
    <3>1. agentLock = d /\ agentLock # c /\ agentLock # Nobody
      BY <2>3 DEF CommandOk, LockOk, Agent!AgentMigrationAssumption
    <3> QED
      BY <3>1 DEF LockOk
  <2> QED
    BY <2>2, <2>3
<1>3. PlannedOk(d)'
  <2>1. ASSUME Planned(d) PROVE PlanOk(d)'
    <3>1. PlanOk(d)
      BY <2>1 DEF CommandOk, PlannedOk
    <3>2. cmd[d].plan.ts \in 1..clock'
      BY <3>1 DEF PlanOk, AgentTyped
    <3>3. ASSUME NEW e \in Commands \ {d}, Planned(e)' PROVE cmd'[e].plan.ts # cmd'[d].plan.ts
      <4>1. CASE e = c
        BY <1>1, <2>1, <3>3, <4>1
      <4>2. CASE e # c
        <5>1. cmd'[e] = cmd[e] /\ Planned(e)
          BY <1>1, <3>3, <4>2 DEF Planned
        <5> QED
          BY <1>1, <3>1, <3>3, <5>1 DEF PlanOk
      <4> QED
        BY <4>1, <4>2
    <3> QED
      BY <1>1, <2>1, <3>1, <3>2, <3>3 DEF PlanOk
  <2>2. Planned(d)' <=> Planned(d)
    BY <1>1 DEF Planned
  <2>3. PlannedOk(d)
    BY DEF CommandOk
  <2>4. Agent!Imported(cmd[d].plan)' = Agent!Imported(cmd[d].plan)
    BY <1>1 DEF Agent!Imported, Agent!Merged, Agent!Held, Agent!Nowhere
  <2>5. live' = live
    BY DEF Agent!user
  <2> QED
    BY <1>1, <2>1, <2>2, <2>3, <2>4, <2>5 DEF PlannedOk, Agent!Held
<1>4. CASE UNCHANGED Agent!disk
  <2>1. LinkOk(d)' /\ HandoverOk(d)' /\ TextOk(d)'
    BY <1>1, <1>4, SameDisk DEF CommandOk, LinkOk, HandoverOk, TextOk, Recorded, Agent!disk,
       Agent!user, Agent!Held
  <2>2. Agent!Chain(d)' = Agent!Chain(d)
    BY <1>1, <1>4, SameDisk DEF Agent!Chain
  <2>3. \A ch : Agent!ToRestore(ch)' = Agent!ToRestore(ch)
    BY <1>4 DEF Agent!ToRestore, Agent!Pending, Agent!disk
  <2>4. (cmd[d].pc = "unlink" => UndoOk(d))'
    BY <1>1, <1>4, <2>2, <2>3, SameDisk DEF CommandOk, UndoOk, Agent!disk, Agent!user, Agent!Held
  <2> QED
    BY <1>2, <1>3, <2>1, <2>4 DEF CommandOk
<1>5. CASE agentLock = c
  <2>1. ~Working(d)
    BY <1>5 DEF CommandOk, LockOk
  <2>2. cmd'[d].pc \notin AgentApplying /\ cmd'[d].pc # "unlink"
    BY <1>1, <2>1 DEF Working
  <2>3. LinkOk(d)' /\ HandoverOk(d)' /\ TextOk(d)'
    BY <2>2 DEF LinkOk, HandoverOk, TextOk, Recorded, AgentApplying, AgentSaving, AgentSaved,
       AgentStripped
  <2> QED
    BY <1>2, <1>3, <2>2, <2>3 DEF CommandOk
<1> QED
  BY <1>4, <1>5

\* A step of c that leaves the disk alone.
LEMMA QuietStep ==
    ASSUME Agent!AgentMigrationAssumption, AgentInv, NEW c \in Commands, AgentMoves(c, cmd'[c]),
           UNCHANGED <<Agent!disk, Agent!user>>,
           clock' \in 0..MaxPlans, clock' >= clock,
           agentLock' \in Commands \cup {Nobody},
           agentLock' = agentLock \/ agentLock \in {Nobody, c},
           CommandOk(c)',
           \A d \in Commands \ {c} :
               Planned(d) /\ Planned(c)' => cmd'[c].plan.ts # cmd[d].plan.ts
    PROVE  AgentInv'
<1>1. AgentTyped'
  BY SameDisk DEF AgentInv, AgentTyped, AgentMoves, Agent!disk, Agent!user
<1>2. AgentDisk'
  BY DiskKept DEF AgentInv
<1>3. ASSUME NEW d \in Commands, d # c PROVE CommandOk(d)'
  <2>1. Planned(d) => cmd[d].plan.ts \notin Agent!Written
    BY <1>3 DEF AgentInv, CommandOk, PlannedOk, PlanOk
  <2> QED
    BY <1>3, <2>1, OthersOk, SameDisk DEF AgentInv
<1> QED
  BY <1>1, <1>2, <1>3 DEF AgentInv

\* A step of c, which has the lock, on the disk.
LEMMA HolderStep ==
    ASSUME Agent!AgentMigrationAssumption, AgentInv, NEW c \in Commands, agentLock = c,
           AgentMoves(c, cmd'[c]), UNCHANGED <<Agent!user, clock>>,
           agentLock' \in Commands \cup {Nobody},
           auth' \in Agent!Credentials, shard' \in Agent!Credentials,
           file' \in [Agent!Files -> Agent!Contents], bound' \in BOOLEAN,
           Agent!Written' = Agent!Written,
           \A m \in Agent!Written : manifest'[m] \in Agent!ManifestType /\ manifest'[m].previous < m,
           AgentDisk', CommandOk(c)', ~Planned(c)'
    PROVE  AgentInv'
<1>1. AgentTyped'
  BY DEF AgentInv, AgentTyped, AgentMoves, Agent!user
<1>2. ASSUME NEW d \in Commands, d # c PROVE CommandOk(d)'
  <2>1. Planned(d) => cmd[d].plan.ts \notin Agent!Written
    BY <1>2 DEF AgentInv, CommandOk, PlannedOk, PlanOk
  <2>2. clock' \in Nat /\ clock' >= clock
    BY DEF AgentInv, AgentTyped
  <2> QED
    BY <1>2, <2>1, <2>2, OthersOk DEF AgentInv
<1> QED
  BY <1>1, <1>2 DEF AgentInv

-----------------------------------------------------------------------------
(* Planning, taking the lock, dying. *)

\* The greatest element of a bounded set of naturals.
LEMMA NewestFacts ==
    ASSUME NEW n \in Nat, NEW S, S \subseteq 1..n
    PROVE  /\ S = {} => Agent!Newest(S) = 0
           /\ S # {} => Agent!Newest(S) \in S /\ \A i \in S : i <= Agent!Newest(S)
<1>1. S = {} => Agent!Newest(S) = 0
  BY DEF Agent!Newest
<1>2. ASSUME S # {} PROVE \E m \in S : \A i \in S : i <= m
  <2> DEFINE above == {k \in Nat : \A i \in S : i <= k}
  <2>1. n \in above
    OBVIOUS
  <2>2. PICK k \in above : \A j \in above : k <= j
    <3>1. above \subseteq Nat
      OBVIOUS
    <3> HIDE DEF above
    <3> QED
      BY <2>1, <3>1, LeastOf
  <2>3. CASE k \in S
    BY <2>3
  <2>4. CASE k \notin S
    <3>0. PICK i \in S : i <= k /\ i \in 1..n
      BY <1>2
    <3>1. k # 0
      BY <3>0
    <3>2. k - 1 \in above
      BY <3>1, <2>4
    <3> QED
      BY <2>2, <3>2
  <2> QED
    BY <2>3, <2>4
<1> QED
  BY <1>1, <1>2 DEF Agent!Newest

LEMMA ManifestsBefore ==
    ASSUME AgentTyped, Manifests
    PROVE  PreviousBefore(manifest)
BY DEF AgentTyped, Manifests, ManifestOk, PreviousBefore, Agent!Written

LEMMA LatestIs ==
    ASSUME Agent!AgentMigrationAssumption, AgentTyped
    PROVE  /\ Latest(Agent!latest_active_manifest)
           /\ Agent!latest_active_manifest \in Agent!Active \cup {0}
           /\ \A m : Latest(m) => m = Agent!latest_active_manifest \/ m = 0
           /\ \A m \in Nat : Latest(m) => m = Agent!latest_active_manifest
<1>1. Agent!Active \subseteq 1..MaxPlans /\ MaxPlans \in Nat
  BY DEF AgentTyped, Agent!Active, Agent!AgentMigrationAssumption
<1> DEFINE top == Agent!latest_active_manifest
<1>2. /\ Agent!Active = {} => top = 0
      /\ Agent!Active # {} => top \in Agent!Active /\ \A i \in Agent!Active : i <= top
  BY <1>1, NewestFacts DEF Agent!latest_active_manifest
<1> HIDE DEF top
<1>3. Latest(top) /\ top \in Agent!Active \cup {0}
  BY <1>2 DEF Latest
<1>4. ASSUME NEW m, Latest(m), m # 0 PROVE m = top
  <2>1. m \in Agent!Active /\ top \in Agent!Active /\ m <= top /\ top <= m
    BY <1>2, <1>4 DEF Latest
  <2> QED
    BY <1>1, <2>1
<1>5. ASSUME NEW m \in Nat, Latest(m), m = 0 PROVE m = top
  <2>1. Agent!Active = {}
    BY <1>1, <1>5 DEF Latest
  <2> QED
    BY <1>2, <1>5, <2>1
<1> QED
  BY <1>3, <1>4, <1>5 DEF top

LEMMA PlanStep ==
    ASSUME Agent!AgentMigrationAssumption, AgentInv, NEW c \in Commands, Agent!Plan(c)
    PROVE  AgentInv'
<1> USE DEF AgentInv
<1> DEFINE plan == [ts |-> clock + 1, previous |-> Agent!latest_active_manifest, auth |-> auth,
                    shard |-> shard, file |-> file, bound |-> bound]
           new == [Agent!Idle EXCEPT !.pc = "planned", !.plan = plan]
<1>1. /\ cmd[c].pc = "idle" /\ clock < MaxPlans /\ Agent!Held(Agent!Imported(plan)) # {}
      /\ cmd' = [cmd EXCEPT ![c] = new] /\ clock' = clock + 1
      /\ UNCHANGED <<Agent!disk, agentLock, Agent!user>>
  BY DEF Agent!Plan
<1>2. clock \in Nat /\ clock' \in 1..MaxPlans /\ clock' >= clock /\ MaxPlans \in Nat
  BY <1>1 DEF AgentTyped, Agent!AgentMigrationAssumption
<1>3. /\ Agent!latest_active_manifest \in Agent!Written \cup {0}
      /\ \A m \in Agent!Written : m <= clock /\ m \in Nat
  <2>1. Agent!latest_active_manifest \in Agent!Written \cup {0}
    BY LatestIs DEF Agent!Active
  <2>2. \A m \in Agent!Written : m <= clock /\ m \in Nat
    <3>1. \A m \in Agent!Written : m <= clock
      BY DEF AgentDisk, Manifests, ManifestOk
    <3>2. Agent!Written \subseteq 1..MaxPlans
      BY DEF AgentTyped
    <3> QED
      BY <3>1, <3>2
  <2> QED
    BY <2>1, <2>2
<1>4. plan \in AgentPlan
  <2>1. Agent!latest_active_manifest \in 0..MaxPlans
    BY <1>2, <1>3 DEF AgentTyped
  <2> QED
    BY <1>1, <1>2, <2>1 DEF AgentPlan, AgentTyped
<1>5. /\ new \in AgentCommand /\ new.pc = "planned" /\ new.plan = plan
  BY <1>4, AgentIdle DEF AgentCommand
<1> HIDE DEF new
<1>6. AgentMoves(c, cmd'[c]) /\ cmd'[c] = new
  BY <1>1, <1>5 DEF AgentMoves, AgentTyped
<1>7. cmd'[c].plan = plan /\ cmd'[c].pc = "planned"
  BY <1>5, <1>6
<1> HIDE DEF plan
<1>8. ASSUME NEW d \in Commands, d # c, Planned(d) PROVE cmd[d].plan.ts # cmd'[c].plan.ts
  <2>1. cmd[d].plan.ts \in 1..clock
    BY <1>8 DEF CommandOk, PlannedOk, PlanOk
  <2>2. cmd'[c].plan.ts = clock + 1
    BY <1>7 DEF plan
  <2> QED
    BY <1>2, <2>1, <2>2
<1>9. PlannedOk(c)'
  <2>1. /\ cmd'[c].plan.ts = clock + 1 /\ cmd'[c].plan.previous = Agent!latest_active_manifest
        /\ cmd'[c].plan.auth = auth /\ cmd'[c].plan.shard = shard
    BY <1>7 DEF plan
  <2>2. cmd'[c].plan.ts \in 1..clock' /\ cmd'[c].plan.ts \notin Agent!Written
        /\ cmd'[c].plan.previous < cmd'[c].plan.ts
    <3>1. clock + 1 \notin Agent!Written /\ Agent!latest_active_manifest < clock + 1
      BY <1>2, <1>3
    <3> QED
      BY <1>1, <1>2, <2>1, <3>1
  <2>3. \A d \in Commands \ {c} : Planned(d)' => cmd'[d].plan.ts # cmd'[c].plan.ts
    BY <1>6, <1>8 DEF AgentMoves, Planned
  <2>4. PlanOk(c)'
    BY <1>1, <1>3, <2>1, <2>2, <2>3, SameDisk DEF PlanOk
  <2>5. Agent!Held(auth) \cup Agent!Held(shard) \subseteq Agent!Held(live)
    BY DEF AgentDisk, Credentialed
  <2>6. (Agent!Held(Agent!Imported(cmd[c].plan)) # {})'
    BY <1>1, <1>7 DEF Agent!Held, Agent!Imported, Agent!Merged, Agent!Nowhere
  <2>7. (Agent!Held(cmd[c].plan.auth) \cup Agent!Held(cmd[c].plan.shard) \subseteq Agent!Held(live))'
    BY <1>1, <2>1, <2>5 DEF Agent!Held, Agent!user
  <2> QED
    BY <1>7, <2>4, <2>6, <2>7 DEF PlannedOk
<1>10. CommandOk(c)'
  BY <1>7, <1>9 DEF CommandOk, LockOk, Working, LinkOk, Recorded, HandoverOk, TextOk,
     AgentApplying, AgentSaving, AgentSaved, AgentStripped, Agent!Fragment, Agent!Config
<1>11. clock' \in 0..MaxPlans /\ agentLock' \in Commands \cup {Nobody}
  BY <1>1, <1>2 DEF AgentTyped
<1> QED
  BY <1>1, <1>2, <1>6, <1>8, <1>10, <1>11, QuietStep

LEMMA StopStep ==
    ASSUME Agent!AgentMigrationAssumption, AgentInv, NEW c \in Commands, Agent!Stop(c),
           UNCHANGED <<Agent!disk, Agent!user, clock>>
    PROVE  AgentInv'
<1>1. AgentMoves(c, cmd'[c]) /\ cmd'[c].pc = "idle"
      /\ agentLock' = IF agentLock = c THEN Nobody ELSE agentLock
  BY AgentStops DEF AgentInv, AgentTyped, AgentMoves
<1>2. CommandOk(c)' /\ ~Planned(c)'
  BY <1>1, AgentIdleOk DEF Planned
<1>3. clock' \in 0..MaxPlans /\ clock' >= clock
  BY DEF AgentInv, AgentTyped
<1>4. agentLock' \in Commands \cup {Nobody} /\ (agentLock' = agentLock \/ agentLock \in {Nobody, c})
  BY <1>1 DEF AgentInv, AgentTyped
<1> QED
  BY <1>1, <1>2, <1>3, <1>4, QuietStep

LEMMA ResolveStep ==
    ASSUME Agent!AgentMigrationAssumption, AgentInv, NEW c \in Commands, NEW m \in Agent!Written,
           Agent!Resolve(c, m)
    PROVE  AgentInv'
<1> DEFINE new == [Agent!Idle EXCEPT !.pc = "resolved", !.plan.previous = m]
<1>1. /\ cmd' = [cmd EXCEPT ![c] = new] /\ UNCHANGED <<Agent!disk, agentLock, clock, Agent!user>>
  BY DEF Agent!Resolve
<1>2. new \in AgentCommand /\ new.pc = "resolved" /\ new.plan.previous = m
  <2>1. m \in 0..MaxPlans
    <3>1. Agent!Written \subseteq 1..MaxPlans /\ MaxPlans \in Nat
      BY DEF AgentInv, AgentTyped, Agent!AgentMigrationAssumption
    <3> QED
      BY <3>1
  <2>2. Agent!Idle.plan \in AgentPlan
    BY AgentIdle DEF AgentCommand
  <2>3. [Agent!Idle.plan EXCEPT !.previous = m] \in AgentPlan
    BY <2>1, <2>2 DEF AgentPlan
  <2>4. [Agent!Idle.plan EXCEPT !.previous = m].previous = m
    BY <2>2 DEF AgentPlan
  <2>5. new = [Agent!Idle EXCEPT !.pc = "resolved",
                                 !.plan = [Agent!Idle.plan EXCEPT !.previous = m]]
    OBVIOUS
  <2> QED
    BY <2>3, <2>4, <2>5, AgentIdle DEF AgentCommand
<1> HIDE DEF new
<1>3. AgentMoves(c, cmd'[c]) /\ cmd'[c] = new
  BY <1>1, <1>2 DEF AgentMoves, AgentInv, AgentTyped
<1>4. CommandOk(c)' /\ ~Planned(c)'
  <2>1. cmd'[c].pc = "resolved" /\ cmd'[c].plan.previous \in Agent!Written'
    BY <1>1, <1>2, <1>3, SameDisk
  <2> QED
    BY <2>1 DEF CommandOk, LockOk, Working, PlannedOk, Planned, LinkOk, Recorded, HandoverOk, TextOk,
       AgentApplying, AgentSaving, AgentSaved, AgentStripped, Agent!Fragment, Agent!Config
<1>5. clock' \in 0..MaxPlans /\ clock' >= clock /\ agentLock' \in Commands \cup {Nobody}
  BY <1>1 DEF AgentInv, AgentTyped
<1> QED
  BY <1>1, <1>3, <1>4, <1>5, QuietStep

LEMMA BeginStep ==
    ASSUME Agent!AgentMigrationAssumption, AgentInv, NEW c \in Commands, Agent!Begin(c)
    PROVE  AgentInv'
<1> DEFINE plan == cmd[c].plan
<1>1. CASE Agent!Stop(c)
  BY <1>1, StopStep DEF Agent!Begin
<1>2. CASE ~Agent!Stop(c)
  <2>1. /\ agentLock = Nobody /\ Agent!latest_active_manifest = plan.previous
        /\ file = plan.file /\ bound = plan.bound /\ auth = plan.auth /\ shard = plan.shard
        /\ agentLock' = c /\ cmd' = [cmd EXCEPT ![c].pc = Agent!ApplyOrder[1]]
        /\ cmd[c].pc = "planned" /\ UNCHANGED <<Agent!disk, clock, Agent!user>>
    BY <1>2 DEF Agent!Begin
  <2>2. Agent!ApplyOrder[1] = "backup"
    BY DEF Agent!ApplyOrder
  <2>3. /\ AgentMoves(c, cmd'[c]) /\ cmd'[c].pc = "backup" /\ cmd'[c].plan = plan
    BY <2>1, <2>2 DEF AgentMoves, AgentInv, AgentTyped, AgentCommand, AgentApplying, AgentSaving
  <2>4. PlannedOk(c)'
    <3>1. /\ PlanOk(c) /\ Agent!Held(Agent!Imported(plan)) # {}
          /\ Agent!Held(plan.auth) \cup Agent!Held(plan.shard) \subseteq Agent!Held(live)
      BY <2>1 DEF AgentInv, CommandOk, PlannedOk, Planned
    <3>2. PlanOk(c)'
      BY <2>1, <2>3, <3>1, SameDisk DEF PlanOk, Planned, AgentMoves
    <3>3. (Agent!Held(Agent!Imported(cmd[c].plan)) # {})'
      BY <2>3, <3>1 DEF Agent!Held, Agent!Imported, Agent!Merged, Agent!Nowhere
    <3>4. (Agent!Held(cmd[c].plan.auth) \cup Agent!Held(cmd[c].plan.shard) \subseteq Agent!Held(live))'
      BY <2>1, <2>3, <3>1 DEF Agent!Held, Agent!user
    <3> QED
      BY <2>3, <3>2, <3>3, <3>4 DEF PlannedOk
  <2>5. LinkOk(c)'
    BY <2>1, <2>3, LatestIs, SameDisk DEF LinkOk, Recorded, AgentInv, Agent!disk
  <2>6. HandoverOk(c)'
    <3>1. Taken \subseteq Agent!Held(plan.shard)
      BY <2>1 DEF AgentInv, AgentDisk, Credentialed, Agent!CredentialHeld, Taken, Agent!Held
    <3>2. Agent!Held(plan.auth)' \subseteq Agent!Held(auth)'
      BY <2>1, <2>3 DEF Agent!Held, Agent!disk
    <3> QED
      BY <2>1, <2>3, <3>1, <3>2, SameDisk DEF HandoverOk, AgentSaved, Agent!Held, Agent!Fragment
  <2>7. TextOk(c)'
    <3>1. file[Agent!Config].text \in Nat
      BY DEF AgentInv, AgentTyped, Agent!Files, Agent!Contents
    <3> QED
      BY <2>1, <2>3, <3>1 DEF TextOk, AgentSaved, Agent!Fragment, Agent!Config, Agent!disk
  <2>8. CommandOk(c)'
    BY <2>1, <2>3, <2>4, <2>5, <2>6, <2>7 DEF CommandOk, LockOk
  <2>9. clock' \in 0..MaxPlans /\ clock' >= clock /\ agentLock' \in Commands \cup {Nobody}
    BY <2>1 DEF AgentInv, AgentTyped
  <2>10. \A d \in Commands \ {c} : Planned(d) => cmd'[c].plan.ts # cmd[d].plan.ts
    BY <2>1, <2>3 DEF AgentInv, CommandOk, PlannedOk, PlanOk, Planned
  <2> QED
    BY <2>1, <2>3, <2>8, <2>9, <2>10, QuietStep
<1> QED
  BY <1>1, <1>2

-----------------------------------------------------------------------------
(* Undoing a link. *)

\* The manifests of a chain, each with its place.
LEMMA ChainPlaces ==
    ASSUME Agent!AgentMigrationAssumption, AgentTyped, Manifests, NEW m \in Agent!Written
    PROVE  LET ch == Agent!manifest_chain(m) IN
             /\ ch \in Seq(Agent!Written) /\ Len(ch) \in Nat \ {0} /\ ch[1] = m
             /\ DOMAIN ch = 1..Len(ch) /\ \A i \in DOMAIN ch : ch[i] \in Agent!Written
             /\ manifest[ch[Len(ch)]].previous = 0
<1>1. ChainOf(manifest, Agent!manifest_chain(m), m)
  BY ManifestsBefore, ChainFacts DEF Agent!AgentMigrationAssumption
<1> DEFINE ch == Agent!manifest_chain(m)
<1> HIDE DEF ch
<1>2. ch \in Seq(Agent!Written) /\ Len(ch) > 0 /\ ch[1] = m /\ manifest[ch[Len(ch)]].previous = 0
  BY <1>1 DEF ChainOf, ch, Agent!Written
<1>3. Len(ch) \in Nat \ {0} /\ DOMAIN ch = 1..Len(ch) /\ \A i \in DOMAIN ch : ch[i] \in Agent!Written
  BY <1>2
<1> QED
  BY <1>2, <1>3 DEF ch

\* An unlink that has passed its checks is of the latest manifest.
LEMMA PassedIsLatest ==
    ASSUME Agent!AgentMigrationAssumption, AgentTyped, AgentDisk,
           NEW m \in Agent!Written, Agent!Preflight(m)
    PROVE  m \in Agent!Active /\ Latest(m) /\ m = Agent!latest_active_manifest
<1> DEFINE top == Agent!latest_active_manifest
           ch == Agent!manifest_chain(top)
<1>1. m \in Agent!Active
  BY DEF Agent!Preflight, Agent!Active
<1>2. top \in Agent!Active /\ top \in Agent!Written
  <2>1. top \in Agent!Active \cup {0} /\ Latest(top)
    BY LatestIs
  <2>2. m \in 1..MaxPlans /\ MaxPlans \in Nat
    BY DEF AgentTyped, Agent!AgentMigrationAssumption
  <2>3. top # 0
    BY <1>1, <2>1, <2>2 DEF Latest
  <2> QED
    BY <2>1, <2>3 DEF Agent!Active
<1>3. PICK i \in DOMAIN ch : ch[i] = m
  BY <1>1 DEF AgentDisk, Agent!OneChain
<1>4. ch[1] = top /\ DOMAIN ch = 1..Len(ch)
  BY <1>2, ChainPlaces DEF AgentDisk
<1>5. m = top
  <2>1. ASSUME m # top PROVE FALSE
    <3>1. i \in 2..Len(ch)
      BY <1>3, <1>4, <2>1
    <3>2. Agent!HasSuccessor(m)
      BY <1>2, <1>3, <2>1, <3>1 DEF Agent!HasSuccessor
    <3> QED
      BY <3>2 DEF Agent!Preflight
  <2> QED
    BY <2>1
<1> QED
  BY <1>1, <1>5, LatestIs

\* Every manifest of a chain whose files are restorable has the user's text in its backup.
LEMMA BackupTexts ==
    ASSUME Agent!AgentMigrationAssumption, AgentTyped, AgentDisk, NEW m \in Agent!Written,
           Agent!FilesRestorable(Agent!manifest_chain(m))
    PROVE  \A i \in DOMAIN Agent!manifest_chain(m) :
              manifest[Agent!manifest_chain(m)[i]].backup[Agent!Config].text
                  = file[Agent!Config].text
<1> DEFINE ch == Agent!manifest_chain(m)
           text(i) == manifest[ch[i]].backup[Agent!Config].text
           bad == {i \in DOMAIN ch : text(i) # file[Agent!Config].text}
<1>1. DOMAIN ch = 1..Len(ch) /\ Len(ch) \in Nat /\ \A i \in DOMAIN ch : ch[i] \in Agent!Written
  BY ChainPlaces DEF AgentDisk
<1>2. ASSUME NEW i \in DOMAIN ch PROVE Agent!Simulated(ch, i, Agent!Config).text = text(i)
  <2>1. Agent!Simulated(ch, i, Agent!Config)
          = IF manifest[ch[i]].digest[Agent!Config] = Agent!NoDigest
            THEN manifest[ch[i]].backup[Agent!Config] ELSE manifest[ch[i]].digest[Agent!Config]
    BY DEF Agent!FilesRestorable, Agent!Files
  <2>2. ManifestOk(ch[i])
    BY <1>1 DEF AgentDisk, Manifests
  <2> QED
    BY <2>1, <2>2 DEF ManifestOk
<1>3. ASSUME bad # {} PROVE FALSE
  <2>1. bad \subseteq Nat
    BY <1>1
  <2>2. PICK i \in bad : \A j \in bad : i <= j
    <3> HIDE DEF bad
    <3> QED
      BY <1>3, <2>1, LeastOf
  <2>3. i \in DOMAIN ch /\ i \in Nat
    BY <2>1
  <2>4. CASE i = 1
    BY <1>2, <2>3, <2>4 DEF Agent!Simulated
  <2>5. CASE i # 1
    <3>1. i - 1 \in DOMAIN ch
      BY <1>1, <2>3, <2>5
    <3>2. text(i - 1) = file[Agent!Config].text
      <4>1. ASSUME i - 1 \in bad PROVE FALSE
        <5>1. i <= i - 1
          BY <2>2, <4>1
        <5> QED
          BY <2>3, <5>1
      <4> QED
        BY <3>1, <4>1
    <3>3. Agent!Simulated(ch, i, Agent!Config).text = text(i - 1)
      BY <2>5 DEF Agent!Simulated
    <3> QED
      BY <1>2, <2>3, <3>2, <3>3
  <2> QED
    BY <2>4, <2>5
<1> QED
  BY <1>3

\* What the agent lacks is what a pending manifest of the chain has stripped.
LEMMA TakenIsPending ==
    ASSUME Agent!AgentMigrationAssumption, AgentTyped, AgentDisk, NEW m \in Agent!Written, Latest(m),
           NEW p \in Taken
    PROVE  /\ p \in Agent!ToRestore(Agent!manifest_chain(m))
           /\ Agent!Pending(Agent!manifest_chain(m)) # {}
           /\ m \in Agent!Active => p \in manifest[m].imported
<1> DEFINE ch == Agent!manifest_chain(m)
<1>1. PICK n \in Agent!Active : ~manifest[n].handoff /\ p \in manifest[n].stripped
  BY DEF AgentDisk, Returnable
<1>2. m = Agent!latest_active_manifest
  <2>1. m \in Nat
    BY DEF AgentTyped
  <2> QED
    BY <2>1, LatestIs
<1>3. PICK i \in DOMAIN ch : ch[i] = n
  BY <1>2 DEF AgentDisk, Agent!OneChain
<1>4. i \in Agent!Pending(ch)
  BY <1>1, <1>3 DEF Agent!Pending
<1>5. p \in Agent!ToRestore(ch)
  BY <1>1, <1>3, <1>4 DEF Agent!ToRestore
<1> QED
  BY <1>4, <1>5 DEF AgentDisk, Returnable

LEMMA StartUnlinkStep ==
    ASSUME Agent!AgentMigrationAssumption, AgentInv, NEW c \in Commands, Agent!StartUnlink(c)
    PROVE  AgentInv'
<1> DEFINE m == cmd[c].plan.previous
           ch == Agent!manifest_chain(m)
<1>1. CASE Agent!Stop(c)
  BY <1>1, StopStep DEF Agent!StartUnlink
<1>2. CASE ~Agent!Stop(c)
  <2> DEFINE do == IF Agent!Pending(ch) = {} THEN Agent!Config ELSE "load"
  <2>1. /\ cmd[c].pc = "resolved" /\ agentLock = Nobody /\ Agent!Preflight(m) /\ agentLock' = c
        /\ cmd' = [cmd EXCEPT ![c].pc = "unlink", ![c].at = 1, ![c].do = do]
        /\ UNCHANGED <<Agent!disk, clock, Agent!user>>
    BY <1>2 DEF Agent!StartUnlink
  <2>2. do \in AgentTasks
    BY DEF AgentTasks
  <2> HIDE DEF do
  <2>3. /\ AgentMoves(c, cmd'[c]) /\ cmd'[c].pc = "unlink" /\ cmd'[c].plan = cmd[c].plan
        /\ cmd'[c].at = 1 /\ cmd'[c].do = do
    BY <2>1, <2>2 DEF AgentMoves, AgentInv, AgentTyped, AgentCommand
  <2>4. m \in Agent!Written
    BY <2>1 DEF AgentInv, CommandOk, PlannedOk
  <2>5. m \in Agent!Active /\ Latest(m)
    BY <2>1, <2>4, PassedIsLatest DEF AgentInv
  <2>6. m # 0 /\ 1 \in DOMAIN ch
    <3>1. m # 0
      BY <2>4 DEF AgentInv, AgentTyped
    <3>2. DOMAIN ch = 1..Len(ch) /\ Len(ch) \in Nat \ {0}
      BY <2>4, ChainPlaces DEF AgentInv, AgentDisk
    <3> QED
      BY <3>1, <3>2
  <2>7. lateEdit \/ \A i \in DOMAIN ch : manifest[ch[i]].backup[Agent!Config].text = edits
    BY <2>1, <2>4, BackupTexts DEF AgentInv, AgentDisk, Agent!EditsKept, Agent!Preflight
  <2>8. do = Agent!Config => Taken = {}
    BY <2>4, <2>5, TakenIsPending DEF AgentInv, do, Agent!Config
  <2>9. do = Agent!Config \/ do = "load"
    BY DEF do
  <2>10. Agent!Chain(c)' = ch
    BY <2>1, <2>3, SameDisk DEF Agent!Chain
  <2>11. UndoOk(c)'
    <3>1. /\ cmd'[c].plan.previous = m /\ Latest(cmd[c].plan.previous)' /\ Taken' = Taken
          /\ manifest' = manifest /\ edits' = edits /\ lateEdit' = lateEdit
      BY <2>1, <2>3, <2>5, SameDisk DEF Agent!disk, Agent!user
    <3>2. (lateEdit \/ \A i \in DOMAIN Agent!Chain(c) :
                            manifest[Agent!Chain(c)[i]].backup[Agent!Config].text = edits)'
      BY <2>7, <2>10, <3>1
    <3>3. cmd'[c].at \in DOMAIN Agent!Chain(c)'
      BY <2>3, <2>6, <2>10
    <3>4. /\ cmd'[c].do \notin {"restore", Agent!Fragment, "shard", "unbind", "mark"}
          /\ cmd'[c].do \notin {"load", "restore"} => Taken' = {}
      BY <2>3, <2>8, <2>9, <3>1 DEF Agent!Config, Agent!Fragment
    <3> HIDE DEF ch, m
    <3> QED
      BY <2>6, <3>1, <3>2, <3>3, <3>4 DEF UndoOk
  <2>12. CommandOk(c)' /\ ~Planned(c)'
    BY <2>1, <2>3, <2>11 DEF CommandOk, LockOk, PlannedOk, Planned, LinkOk, Recorded, HandoverOk,
       TextOk, AgentApplying, AgentSaving, AgentSaved, AgentStripped, Agent!Fragment, Agent!Config
  <2>13. clock' \in 0..MaxPlans /\ clock' >= clock /\ agentLock' \in Commands \cup {Nobody}
    BY <2>1 DEF AgentInv, AgentTyped
  <2> QED
    BY <2>1, <2>3, <2>12, <2>13, QuietStep
<1> QED
  BY <1>1, <1>2

\* What an unlink at work knows.
LEMMA UndoFacts ==
    ASSUME Agent!AgentMigrationAssumption, AgentInv, NEW c \in Commands, cmd[c].pc = "unlink"
    PROVE  LET m == cmd[c].plan.previous  ch == Agent!Chain(c) IN
             /\ agentLock = c /\ UndoOk(c) /\ m \in Agent!Active /\ m \in Agent!Written /\ Latest(m)
             /\ ch = Agent!manifest_chain(m) /\ ch \in Seq(Agent!Written) /\ Len(ch) \in Nat \ {0}
             /\ DOMAIN ch = 1..Len(ch) /\ ch[1] = m /\ \A i \in DOMAIN ch : ch[i] \in Agent!Written
             /\ manifest[ch[Len(ch)]].previous = 0 /\ cmd[c].at \in DOMAIN ch
<1> DEFINE m == cmd[c].plan.previous
<1>1. UndoOk(c) /\ agentLock = c
  BY DEF AgentInv, CommandOk, LockOk, Working
<1>2. m # 0 /\ Latest(m) /\ cmd[c].at \in DOMAIN Agent!Chain(c)
  BY <1>1 DEF UndoOk
<1>3. m \in Agent!Active /\ m \in Agent!Written
  BY <1>2 DEF Latest, Agent!Active
<1>4. Agent!Chain(c) = Agent!manifest_chain(m)
  BY DEF Agent!Chain
<1> HIDE DEF m
<1> QED
  BY <1>1, <1>2, <1>3, <1>4, ChainPlaces DEF AgentInv, AgentDisk, m

LEMMA LoadStep ==
    ASSUME Agent!AgentMigrationAssumption, AgentInv, NEW c \in Commands, Agent!LoadCredentials(c)
    PROVE  AgentInv'
<1> DEFINE m == cmd[c].plan.previous
           ch == Agent!Chain(c)
           found == {p \in manifest[ch[1]].imported : shard[p] # 0}
           accounts == [p \in Providers |-> IF p \in found THEN shard[p] ELSE 0]
<1>1. CASE Agent!Stop(c)
  BY <1>1, StopStep DEF Agent!LoadCredentials
<1>2. CASE ~Agent!Stop(c)
  <2>1. /\ cmd[c].pc = "unlink" /\ cmd[c].do = "load" /\ agentLock' = agentLock
        /\ cmd' = [cmd EXCEPT ![c].accounts = accounts, ![c].do = "restore"]
        /\ UNCHANGED <<Agent!disk, clock, Agent!user>>
    BY <1>2 DEF Agent!LoadCredentials, Agent!Doing
  <2>2. accounts \in Agent!Credentials
    BY DEF AgentInv, AgentTyped, Agent!Credentials, Agent!AgentMigrationAssumption
  <2>3. \A p \in Providers : accounts[p] = IF p \in found THEN shard[p] ELSE 0
    OBVIOUS
  <2> HIDE DEF accounts
  <2>4. /\ AgentMoves(c, cmd'[c]) /\ cmd'[c].pc = "unlink" /\ cmd'[c].plan = cmd[c].plan
        /\ cmd'[c].at = cmd[c].at /\ cmd'[c].do = "restore" /\ cmd'[c].accounts = accounts
    BY <2>1, <2>2 DEF AgentMoves, AgentInv, AgentTyped, AgentCommand, AgentTasks
  <2>5. /\ agentLock = c /\ UndoOk(c) /\ m \in Agent!Active /\ m \in Agent!Written /\ Latest(m)
        /\ ch = Agent!manifest_chain(m) /\ ch[1] = m
    BY <2>1, UndoFacts
  <2>6. ASSUME NEW p \in Taken PROVE p \in Agent!ToRestore(ch) /\ accounts[p] # 0
    <3>1. p \in Agent!ToRestore(ch) /\ p \in manifest[m].imported
      BY <2>5, <2>6, TakenIsPending DEF AgentInv
    <3>2. shard[p] # 0 /\ p \in Providers
      BY <2>6 DEF AgentInv, AgentDisk, Credentialed, Agent!CredentialHeld, Taken, Agent!Held
    <3> QED
      BY <2>3, <2>5, <3>1, <3>2
  <2>7. ASSUME NEW p \in Agent!Held(accounts) PROVE live[p] # 0 /\ accounts[p] = shard[p]
    <3>1. p \in Providers /\ accounts[p] # 0 /\ accounts[p] = shard[p]
      BY <2>3, <2>7 DEF Agent!Held
    <3> QED
      BY <3>1 DEF AgentInv, AgentDisk, Credentialed, Agent!Held
  <2>8. Agent!Chain(c)' = ch
    BY <2>1, <2>4, SameDisk DEF Agent!Chain
  <2>9. Agent!ToRestore(Agent!Chain(c))' = Agent!ToRestore(ch)
    BY <2>1, <2>8 DEF Agent!ToRestore, Agent!Pending, Agent!disk
  <2>10. UndoOk(c)'
    <3>1. /\ cmd'[c].plan.previous = m /\ Latest(cmd[c].plan.previous)' /\ Taken' = Taken
          /\ manifest' = manifest /\ edits' = edits /\ lateEdit' = lateEdit
          /\ shard' = shard /\ live' = live /\ sharedRefresh' = sharedRefresh
      BY <2>1, <2>4, <2>5, SameDisk DEF Agent!disk, Agent!user
    <3>2. /\ m # 0
          /\ (lateEdit \/ \A i \in DOMAIN Agent!Chain(c) :
                 manifest[Agent!Chain(c)[i]].backup[Agent!Config].text = edits)'
          /\ cmd'[c].at \in DOMAIN Agent!Chain(c)'
      BY <2>4, <2>5, <2>8, <3>1 DEF UndoOk
    <3>3. \A p \in Taken' : (p \in Agent!ToRestore(Agent!Chain(c)) /\ cmd[c].accounts[p] # 0)'
      BY <2>4, <2>6, <2>9, <3>1
    <3>4. \A p \in Agent!Held(cmd[c].accounts)' :
             (live[p] # 0 /\ (sharedRefresh \/ cmd[c].accounts[p] = shard[p]))'
      BY <2>4, <2>7, <3>1 DEF Agent!Held
    <3> HIDE DEF ch, m
    <3> QED
      BY <2>4, <3>1, <3>2, <3>3, <3>4 DEF UndoOk, Agent!Config, Agent!Fragment
  <2>11. CommandOk(c)' /\ ~Planned(c)'
    BY <2>1, <2>4, <2>5, <2>10 DEF CommandOk, LockOk, PlannedOk, Planned, LinkOk, Recorded, HandoverOk,
       TextOk, AgentApplying, AgentSaving, AgentSaved, AgentStripped, Agent!Fragment, Agent!Config
  <2>12. clock' \in 0..MaxPlans /\ clock' >= clock /\ agentLock' \in Commands \cup {Nobody}
    BY <2>1 DEF AgentInv, AgentTyped
  <2> QED
    BY <2>1, <2>4, <2>11, <2>12, QuietStep
<1> QED
  BY <1>1, <1>2

-----------------------------------------------------------------------------
(* A link's writes. *)

\* Manifests that are rewritten without a change to what ties them together.
LEMMA ManifestFrame ==
    ASSUME Agent!AgentMigrationAssumption, AgentTyped, Manifests, Agent!Written' = Agent!Written,
           \A m \in Agent!Written :
               /\ manifest'[m].previous = manifest[m].previous
               /\ manifest'[m].unlinked = manifest[m].unlinked
    PROVE  /\ Agent!Active' = Agent!Active /\ \A m : Latest(m)' <=> Latest(m)
           /\ Agent!latest_active_manifest' = Agent!latest_active_manifest
           /\ \A m \in Agent!Written \cup {0} : Agent!manifest_chain(m)' = Agent!manifest_chain(m)
<1>1. Agent!Active' = Agent!Active
  BY DEF Agent!Active
<1>2. Agent!latest_active_manifest' = Agent!latest_active_manifest
  BY <1>1 DEF Agent!latest_active_manifest
<1>3. PreviousBefore(manifest)
  BY ManifestsBefore
<1>4. PreviousBefore(manifest')
  BY <1>3 DEF PreviousBefore, Agent!Written
<1>5. \A m \in Agent!Written \cup {0} : Agent!manifest_chain(m)' = Agent!manifest_chain(m)
  BY <1>3, <1>4, ChainsKept DEF Agent!AgentMigrationAssumption
<1> QED
  BY <1>1, <1>2, <1>5 DEF Latest

\* The fields of a manifest that say how to undo it.
UndoKept(new, old) ==
    /\ new.previous = old.previous /\ new.unlinked = old.unlinked /\ new.before = old.before
    /\ new.imported = old.imported /\ new.stripped = old.stripped
    /\ new.backup = old.backup /\ new.shardBackup = old.shardBackup

LEMMA RecordKept ==
    ASSUME Agent!AgentMigrationAssumption, AgentTyped, AgentDisk,
           UNCHANGED <<auth, shard, file, bound, clock, Agent!user>>, Agent!Written' = Agent!Written,
           \A m \in Agent!Written :
               /\ UndoKept(manifest'[m], manifest[m]) /\ manifest'[m].handoff = manifest[m].handoff
               /\ manifest'[m].digest[Agent!Config] # Agent!NoDigest =>
                     manifest'[m].digest[Agent!Config].text = manifest[m].backup[Agent!Config].text
    PROVE  AgentDisk'
<1>1. /\ Agent!Active' = Agent!Active /\ \A m : Latest(m)' <=> Latest(m)
      /\ Agent!latest_active_manifest' = Agent!latest_active_manifest
      /\ \A m \in Agent!Written \cup {0} : Agent!manifest_chain(m)' = Agent!manifest_chain(m)
  BY ManifestFrame DEF AgentDisk, UndoKept
<1>2. Manifests'
  BY DEF AgentDisk, Manifests, ManifestOk, UndoKept, Agent!Held, Agent!user
<1>3. Agent!OneChain'
  <2>1. Agent!latest_active_manifest \in Agent!Written \cup {0}
    BY LatestIs DEF Agent!Active
  <2> QED
    BY <1>1, <2>1 DEF AgentDisk, Agent!OneChain
<1>4. Traceless'
  BY <1>1 DEF AgentDisk, Traceless
<1>5. Returnable'
  <2>1. Taken' = Taken
    BY DEF Taken, Agent!Held, Agent!user
  <2> QED
    BY <1>1, <2>1 DEF AgentDisk, Returnable, UndoKept, Agent!Active
<1>6. Credentialed' /\ (file[Agent!Config].text <= edits)' /\ Agent!EditsKept'
  BY DEF AgentDisk, Credentialed, Agent!CredentialHeld, Agent!LiveCredentialHeld, Agent!EditsKept,
     Agent!user, Agent!Held
<1> QED
  BY <1>2, <1>3, <1>4, <1>5, <1>6 DEF AgentDisk

\* What a link at work knows.
LEMMA LinkFacts ==
    ASSUME Agent!AgentMigrationAssumption, AgentInv, NEW c \in Commands, cmd[c].pc \in AgentApplying
    PROVE  /\ agentLock = c /\ PlannedOk(c) /\ LinkOk(c) /\ HandoverOk(c) /\ TextOk(c)
           /\ Agent!Imported(cmd[c].plan) = Agent!Merged(cmd[c].plan)
           /\ cmd[c] \in AgentCommand /\ cmd[c].plan \in AgentPlan
           /\ cmd[c].pc # "backup" =>
                 /\ cmd[c].plan.ts \in Agent!Written /\ cmd[c].plan.ts \in Agent!Active
                 /\ Latest(cmd[c].plan.ts)
                 /\ manifest[cmd[c].plan.ts] \in Agent!ManifestType
<1>1. agentLock = c /\ PlannedOk(c) /\ LinkOk(c) /\ HandoverOk(c) /\ TextOk(c)
  BY DEF AgentInv, CommandOk, LockOk, Working
<1>2. Agent!Imported(cmd[c].plan) = Agent!Merged(cmd[c].plan)
  <2>1. Agent!Held(Agent!Imported(cmd[c].plan)) # {}
    BY <1>1 DEF PlannedOk
  <2>2. Agent!Held(Agent!Nowhere) = {}
    BY DEF Agent!Held, Agent!Nowhere
  <2> QED
    BY <2>1, <2>2 DEF Agent!Imported
<1>3. cmd[c] \in AgentCommand /\ cmd[c].plan \in AgentPlan
  BY DEF AgentInv, AgentTyped, AgentCommand
<1>4. ASSUME cmd[c].pc # "backup"
      PROVE  /\ cmd[c].plan.ts \in Agent!Written /\ cmd[c].plan.ts \in Agent!Active
             /\ Latest(cmd[c].plan.ts) /\ manifest[cmd[c].plan.ts] \in Agent!ManifestType
  <2>1. cmd[c].plan.ts \in Agent!Active /\ Latest(cmd[c].plan.ts)
    BY <1>1, <1>4 DEF LinkOk, Recorded, Latest
  <2>2. cmd[c].plan.ts \in Agent!Written
    BY <2>1 DEF Agent!Active
  <2> QED
    BY <2>1, <2>2 DEF AgentInv, AgentTyped
<1> QED
  BY <1>1, <1>2, <1>3, <1>4

\* c rewrites the manifest of its link, and goes on or ends.
LEMMA RecordStep ==
    ASSUME Agent!AgentMigrationAssumption, AgentInv, NEW c \in Commands,
           cmd[c].pc \in AgentApplying \ {"backup"}, NEW new \in Agent!ManifestType,
           manifest' = [manifest EXCEPT ![cmd[c].plan.ts] = new],
           UndoKept(new, Agent!Mine(c)), new.handoff = Agent!Mine(c).handoff,
           new.digest[Agent!Config] # Agent!NoDigest =>
               new.digest[Agent!Config].text = Agent!Mine(c).backup[Agent!Config].text,
           UNCHANGED <<auth, shard, file, bound, clock, Agent!user>>,
           \/ Agent!Stop(c)
           \/ /\ cmd[c].pc # "complete" /\ Agent!Advance(c)
              /\ \/ cmd'[c].pc = "complete"
                 \/ cmd[c].pc \in AgentSaved /\ cmd'[c].pc \in AgentSaved
    PROVE  AgentInv'
<1> DEFINE ts == cmd[c].plan.ts
<1>1. /\ agentLock = c /\ PlannedOk(c) /\ LinkOk(c) /\ HandoverOk(c) /\ TextOk(c)
      /\ ts \in Agent!Written /\ Latest(ts)
  BY LinkFacts
<1>2. /\ Agent!Written' = Agent!Written /\ manifest'[ts] = new
      /\ \A m \in Agent!Written \ {ts} : manifest'[m] = manifest[m]
  BY <1>1 DEF Agent!Written
<1>3. UndoKept(new, manifest[ts]) /\ new.handoff = manifest[ts].handoff
  BY DEF Agent!Mine
<1>4. \A m \in Agent!Written :
         UndoKept(manifest'[m], manifest[m]) /\ manifest'[m].handoff = manifest[m].handoff
  BY <1>2, <1>3 DEF UndoKept
<1>5. AgentDisk'
  <2>1. \A m \in Agent!Written :
           manifest'[m].digest[Agent!Config] # Agent!NoDigest =>
               manifest'[m].digest[Agent!Config].text = manifest[m].backup[Agent!Config].text
    BY <1>2 DEF AgentInv, AgentDisk, Manifests, ManifestOk, Agent!Mine
  <2> QED
    BY <1>2, <1>4, <2>1, RecordKept DEF AgentInv
<1>6. \A m \in Agent!Written :
         manifest'[m] \in Agent!ManifestType /\ manifest'[m].previous < m
  BY <1>2, <1>4 DEF AgentInv, AgentTyped, UndoKept
<1>7. CASE Agent!Stop(c)
  <2>1. AgentMoves(c, cmd'[c]) /\ cmd'[c].pc = "idle" /\ agentLock' = Nobody
    BY <1>1, <1>7, AgentStops DEF AgentInv, AgentTyped, AgentMoves
  <2>2. CommandOk(c)' /\ ~Planned(c)'
    BY <2>1, AgentIdleOk DEF Planned
  <2> QED
    BY <1>1, <1>2, <1>5, <1>6, <2>1, <2>2, HolderStep DEF AgentInv, AgentTyped
<1>8. CASE /\ cmd[c].pc # "complete" /\ Agent!Advance(c)
           /\ \/ cmd'[c].pc = "complete"
              \/ cmd[c].pc \in AgentSaved /\ cmd'[c].pc \in AgentSaved
  <2>1. /\ AgentMoves(c, cmd'[c]) /\ cmd'[c].plan = cmd[c].plan /\ agentLock' = c
        /\ cmd'[c].pc \in AgentApplying \ {"backup"}
    <3>1. "complete" \notin AgentSaved /\ "backup" \notin AgentSaved
      BY DEF AgentSaved, Agent!Fragment
    <3> QED
      BY <1>1, <1>8, <3>1, AgentAdvances DEF AgentInv, AgentTyped, AgentMoves
  <2>2. PlannedOk(c)'
    <3>1. cmd'[c].pc # "resolved" /\ ~Planned(c)'
      BY <2>1 DEF Planned, AgentApplying, AgentSaving, AgentSaved, AgentStripped, Agent!Fragment,
         Agent!Config
    <3>2. Agent!Held(Agent!Imported(cmd[c].plan))' = Agent!Held(Agent!Imported(cmd[c].plan))
      BY <2>1 DEF Agent!Held, Agent!Imported, Agent!Merged, Agent!Nowhere
    <3>3. /\ Agent!Held(cmd[c].plan.auth)' = Agent!Held(cmd[c].plan.auth)
          /\ Agent!Held(cmd[c].plan.shard)' = Agent!Held(cmd[c].plan.shard)
          /\ Agent!Held(live)' = Agent!Held(live)
      BY <2>1 DEF Agent!Held, Agent!user
    <3> QED
      BY <1>1, <3>1, <3>2, <3>3 DEF PlannedOk
  <2>3. LinkOk(c)'
    <3>1. \A m : Latest(m)' <=> Latest(m)
      BY <1>2, <1>4, ManifestFrame DEF AgentInv, AgentDisk, UndoKept
    <3>2. /\ ts # 0 /\ manifest[ts].stripped = Agent!Held(cmd[c].plan.auth)
          /\ Agent!Held(cmd[c].plan.auth) \subseteq manifest[ts].imported
          /\ manifest[ts].handoff <=> Agent!Held(cmd[c].plan.auth) = {}
      BY <1>1 DEF LinkOk, Recorded
    <3>3. Agent!Held(cmd[c].plan.auth)' = Agent!Held(cmd[c].plan.auth)
      BY <2>1 DEF Agent!Held
    <3>4. Latest(cmd[c].plan.ts)'
      BY <1>1, <2>1, <3>1
    <3> HIDE DEF ts
    <3> QED
      BY <1>2, <1>3, <2>1, <3>2, <3>3, <3>4 DEF LinkOk, Recorded, UndoKept, ts
  <2>4. HandoverOk(c)' /\ TextOk(c)'
    <3>1. cmd'[c].pc = "complete" => HandoverOk(c)' /\ TextOk(c)'
      BY DEF HandoverOk, TextOk, AgentSaving, AgentSaved, Agent!Fragment, Agent!Config
    <3>2. ASSUME cmd[c].pc \in AgentSaved, cmd'[c].pc \in AgentSaved
          PROVE  HandoverOk(c)' /\ TextOk(c)'
      <4>1. cmd'[c].pc \notin {"backup", "configWritten"}
        BY <3>2 DEF AgentSaved, Agent!Fragment
      <4>2. Taken' = Taken /\ manifest'[ts].backup = manifest[ts].backup
        BY <1>2, <1>3 DEF Taken, Agent!Held, Agent!user, UndoKept
      <4>3. HandoverOk(c)'
        BY <1>1, <2>1, <3>2, <4>1, <4>2 DEF HandoverOk, Agent!Held, Agent!user
      <4>4. TextOk(c)'
        BY <1>1, <2>1, <3>2, <4>1, <4>2 DEF TextOk, Agent!user
      <4> QED
        BY <4>3, <4>4
    <3> QED
      BY <1>8, <3>1, <3>2
  <2>5. CommandOk(c)' /\ ~Planned(c)'
    BY <2>1, <2>2, <2>3, <2>4 DEF CommandOk, LockOk, Planned, AgentApplying, AgentSaving, AgentSaved,
       AgentStripped, Agent!Fragment, Agent!Config
  <2> QED
    BY <1>1, <1>2, <1>5, <1>6, <2>1, <2>5, HolderStep DEF AgentInv, AgentTyped
<1> QED
  BY <1>7, <1>8

LEMMA ShardMovedStep ==
    ASSUME Agent!AgentMigrationAssumption, AgentInv, NEW c \in Commands, Agent!ShardMoved(c)
    PROVE  AgentInv'
<1> DEFINE new == [Agent!Mine(c) EXCEPT !.moved = TRUE]
<1>1. /\ cmd[c].pc = "moved" /\ Agent!Advance(c)
      /\ manifest' = [manifest EXCEPT ![cmd[c].plan.ts] = new]
      /\ UNCHANGED <<auth, shard, file, bound, clock, Agent!user>>
  BY DEF Agent!ShardMoved, Agent!Record
<1>2. cmd[c].pc \in AgentApplying \ {"backup"} /\ cmd[c].pc # "complete" /\ cmd[c].pc \in AgentSaved
  BY <1>1 DEF AgentApplying, AgentSaved
<1>3. Agent!Mine(c) \in Agent!ManifestType /\ cmd[c].plan.ts \in Agent!Written
  BY <1>2, LinkFacts DEF Agent!Mine
<1>4. new \in Agent!ManifestType /\ UndoKept(new, Agent!Mine(c))
      /\ new.handoff = Agent!Mine(c).handoff /\ new.digest = Agent!Mine(c).digest
  BY <1>3 DEF Agent!ManifestType, UndoKept
<1>5. new.digest[Agent!Config] # Agent!NoDigest =>
         new.digest[Agent!Config].text = Agent!Mine(c).backup[Agent!Config].text
  BY <1>3, <1>4 DEF AgentInv, AgentDisk, Manifests, ManifestOk, Agent!Mine
<1>6. cmd'[c].pc \in AgentSaved
  BY <1>1, <1>2, AgentAdvances, AfterIs DEF AgentInv, AgentTyped, AgentSaved
<1> HIDE DEF new
<1> QED
  BY <1>1, <1>2, <1>4, <1>5, <1>6, RecordStep

LEMMA BoundStep ==
    ASSUME Agent!AgentMigrationAssumption, AgentInv, NEW c \in Commands, Agent!Bound(c)
    PROVE  AgentInv'
<1> DEFINE new == [Agent!Mine(c) EXCEPT !.applied = TRUE]
<1>1. /\ cmd[c].pc = "bound" /\ (Agent!Advance(c) \/ Agent!Stop(c))
      /\ manifest' = [manifest EXCEPT ![cmd[c].plan.ts] = new]
      /\ UNCHANGED <<auth, shard, file, bound, clock, Agent!user>>
  BY DEF Agent!Bound, Agent!Record
<1>2. cmd[c].pc \in AgentApplying \ {"backup"} /\ cmd[c].pc # "complete" /\ cmd[c].pc \in AgentSaved
  BY <1>1 DEF AgentApplying, AgentSaved
<1>3. Agent!Mine(c) \in Agent!ManifestType /\ cmd[c].plan.ts \in Agent!Written
  BY <1>2, LinkFacts DEF Agent!Mine
<1>4. new \in Agent!ManifestType /\ UndoKept(new, Agent!Mine(c))
      /\ new.handoff = Agent!Mine(c).handoff /\ new.digest = Agent!Mine(c).digest
  BY <1>3 DEF Agent!ManifestType, UndoKept
<1>5. new.digest[Agent!Config] # Agent!NoDigest =>
         new.digest[Agent!Config].text = Agent!Mine(c).backup[Agent!Config].text
  BY <1>3, <1>4 DEF AgentInv, AgentDisk, Manifests, ManifestOk, Agent!Mine
<1>6. Agent!Advance(c) => cmd'[c].pc \in AgentSaved
  BY <1>1, <1>2, AgentAdvances, AfterIs DEF AgentInv, AgentTyped, AgentSaved
<1> HIDE DEF new
<1> QED
  BY <1>1, <1>2, <1>4, <1>5, <1>6, RecordStep

LEMMA CompleteStep ==
    ASSUME Agent!AgentMigrationAssumption, AgentInv, NEW c \in Commands, Agent!Complete(c)
    PROVE  AgentInv'
<1> DEFINE new == [Agent!Mine(c) EXCEPT !.completed = TRUE]
<1>1. /\ cmd[c].pc = "complete" /\ Agent!Stop(c)
      /\ UNCHANGED manifest \/ manifest' = [manifest EXCEPT ![cmd[c].plan.ts] = new]
      /\ UNCHANGED <<auth, shard, file, bound, clock, Agent!user>>
  BY DEF Agent!Complete, Agent!Record
<1>2. CASE UNCHANGED manifest
  BY <1>1, <1>2, StopStep DEF Agent!disk
<1>3. CASE manifest' = [manifest EXCEPT ![cmd[c].plan.ts] = new]
  <2>1. cmd[c].pc \in AgentApplying \ {"backup"}
    BY <1>1 DEF AgentApplying, AgentStripped
  <2>2. Agent!Mine(c) \in Agent!ManifestType /\ cmd[c].plan.ts \in Agent!Written
    BY <2>1, LinkFacts DEF Agent!Mine
  <2>3. new \in Agent!ManifestType /\ UndoKept(new, Agent!Mine(c))
        /\ new.handoff = Agent!Mine(c).handoff /\ new.digest = Agent!Mine(c).digest
    BY <2>2 DEF Agent!ManifestType, UndoKept
  <2>4. new.digest[Agent!Config] # Agent!NoDigest =>
           new.digest[Agent!Config].text = Agent!Mine(c).backup[Agent!Config].text
    BY <2>2, <2>3 DEF AgentInv, AgentDisk, Manifests, ManifestOk, Agent!Mine
  <2> HIDE DEF new
  <2> QED
    BY <1>1, <1>3, <2>1, <2>3, <2>4, RecordStep
<1> QED
  BY <1>1, <1>2, <1>3

\* What a link makes of a file.
LEMMA RewrittenFacts ==
    ASSUME Agent!AgentMigrationAssumption, NEW plan \in AgentPlan, NEW f \in Agent!Files
    PROVE  /\ Agent!Rewritten(plan, f) \in Agent!Contents
           /\ Agent!Rewritten(plan, f).text = plan.file[f].text
<1>1. plan.file[f] \in Agent!Contents
  BY DEF AgentPlan
<1>2. Agent!Held(Agent!Imported(plan)) \subseteq Providers
  BY DEF Agent!Held
<1> QED
  BY <1>1, <1>2 DEF Agent!Rewritten, Agent!Contents

LEMMA CheckpointStep ==
    ASSUME Agent!AgentMigrationAssumption, AgentInv, NEW c \in Commands, NEW f \in Agent!Files,
           Agent!Checkpoint(c, f)
    PROVE  AgentInv'
<1> DEFINE text == Agent!Rewritten(cmd[c].plan, f)
           new == [Agent!Mine(c) EXCEPT !.digest[f] = text]
<1>1. /\ cmd[c].pc = Agent!Noting[f] /\ (Agent!Advance(c) \/ Agent!Stop(c))
      /\ manifest' = [manifest EXCEPT ![cmd[c].plan.ts] = new]
      /\ UNCHANGED <<auth, shard, file, bound, clock, Agent!user>>
  BY DEF Agent!Checkpoint, Agent!Record
<1>2. \/ f = Agent!Fragment /\ cmd[c].pc = "fragmentWritten"
      \/ f = Agent!Config /\ cmd[c].pc = "configWritten"
  BY <1>1 DEF Agent!Noting, Agent!Files, Agent!Fragment, Agent!Config
<1>3. cmd[c].pc \in AgentApplying \ {"backup"} /\ cmd[c].pc # "complete"
  BY <1>2 DEF AgentApplying, AgentSaved, AgentStripped
<1>4. /\ Agent!Mine(c) \in Agent!ManifestType /\ cmd[c].plan.ts \in Agent!Written
      /\ cmd[c].plan \in AgentPlan /\ TextOk(c)
  BY <1>3, LinkFacts DEF Agent!Mine
<1>5. text \in Agent!Contents /\ text.text = cmd[c].plan.file[f].text
  BY <1>4, RewrittenFacts
<1> HIDE DEF text
<1>6. /\ new \in Agent!ManifestType /\ UndoKept(new, Agent!Mine(c))
      /\ new.handoff = Agent!Mine(c).handoff
      /\ new.digest = [Agent!Mine(c).digest EXCEPT ![f] = text]
  <2>1. [Agent!Mine(c).digest EXCEPT ![f] = text]
           \in [Agent!Files -> Agent!Contents \cup {Agent!NoDigest}]
    BY <1>4, <1>5 DEF Agent!ManifestType
  <2> DEFINE digest == [Agent!Mine(c).digest EXCEPT ![f] = text]
  <2>2. new = [Agent!Mine(c) EXCEPT !.digest = digest]
    OBVIOUS
  <2> HIDE DEF digest
  <2>3. digest \in [Agent!Files -> Agent!Contents \cup {Agent!NoDigest}]
    BY <2>1 DEF digest
  <2>4. /\ new \in Agent!ManifestType /\ UndoKept(new, Agent!Mine(c))
        /\ new.handoff = Agent!Mine(c).handoff /\ new.digest = digest
    BY <1>4, <2>2, <2>3 DEF Agent!ManifestType, UndoKept
  <2> QED
    BY <2>4 DEF digest
<1>7. new.digest[Agent!Config] # Agent!NoDigest =>
         new.digest[Agent!Config].text = Agent!Mine(c).backup[Agent!Config].text
  <2>1. Agent!Mine(c).digest \in [Agent!Files -> Agent!Contents \cup {Agent!NoDigest}]
    BY <1>4 DEF Agent!ManifestType
  <2>2. CASE f = Agent!Config
    <3>1. cmd[c].pc = "configWritten"
      BY <1>2, <2>2 DEF Agent!Config, Agent!Fragment
    <3>2. cmd[c].plan.file[Agent!Config].text = Agent!Mine(c).backup[Agent!Config].text
      BY <1>4, <3>1 DEF TextOk, Agent!Mine
    <3>3. new.digest[Agent!Config] = text
      BY <1>6, <2>1, <2>2
    <3> HIDE DEF new
    <3> QED
      BY <1>5, <2>2, <3>2, <3>3
  <2>3. CASE f # Agent!Config
    <3>1. new.digest[Agent!Config] = Agent!Mine(c).digest[Agent!Config]
      BY <1>6, <2>3
    <3> HIDE DEF new
    <3> QED
      BY <1>4, <3>1 DEF AgentInv, AgentDisk, Manifests, ManifestOk, Agent!Mine
  <2> QED
    BY <2>2, <2>3
<1>8. Agent!Advance(c) =>
         \/ cmd'[c].pc = "complete"
         \/ cmd[c].pc \in AgentSaved /\ cmd'[c].pc \in AgentSaved
  BY <1>2, <1>3, AgentAdvances, AfterIs DEF AgentInv, AgentTyped, AgentSaved
<1>9. \/ Agent!Stop(c)
      \/ /\ cmd[c].pc # "complete" /\ Agent!Advance(c)
         /\ \/ cmd'[c].pc = "complete"
            \/ cmd[c].pc \in AgentSaved /\ cmd'[c].pc \in AgentSaved
  BY <1>1, <1>3, <1>8
<1>10. new \in Agent!ManifestType /\ UndoKept(new, Agent!Mine(c))
       /\ new.handoff = Agent!Mine(c).handoff
  BY <1>6
<1> HIDE DEF new
<1> QED
  BY <1>1, <1>3, <1>7, <1>9, <1>10, RecordStep

\* c writes a file of its link, of which the manifest knows, and goes on.
LEMMA WriteStep ==
    ASSUME Agent!AgentMigrationAssumption, AgentInv, NEW c \in Commands,
           cmd[c].pc \in AgentApplying \ {"backup", "complete"}, Agent!Advance(c),
           UNCHANGED <<manifest, clock, Agent!user>>,
           auth' \in Agent!Credentials, shard' \in Agent!Credentials,
           file' \in [Agent!Files -> Agent!Contents], bound' \in BOOLEAN,
           Returnable', Credentialed', file'[Agent!Config].text = file[Agent!Config].text,
           HandoverOk(c)', TextOk(c)'
    PROVE  AgentInv'
<1> DEFINE ts == cmd[c].plan.ts
<1>1. /\ agentLock = c /\ PlannedOk(c) /\ LinkOk(c) /\ ts \in Agent!Active /\ ts \in Agent!Written
      /\ Latest(ts)
  BY LinkFacts
<1>2. /\ AgentMoves(c, cmd'[c]) /\ cmd'[c].plan = cmd[c].plan /\ agentLock' = c
      /\ cmd'[c].pc \in AgentApplying /\ cmd'[c].pc # "backup"
  <2>1. Agent!After(cmd[c].pc) # "backup"
    BY AfterIs DEF AgentApplying, AgentSaving, AgentSaved, AgentStripped, Agent!Fragment, Agent!Config
  <2> QED
    BY <1>1, <2>1, AgentAdvances DEF AgentInv, AgentTyped, AgentMoves
<1>3. /\ Agent!Written' = Agent!Written /\ Agent!Active' = Agent!Active
      /\ \A m : Latest(m)' <=> Latest(m)
      /\ Agent!latest_active_manifest' = Agent!latest_active_manifest
      /\ \A m : Agent!manifest_chain(m)' = Agent!manifest_chain(m)
  BY DEF Agent!Written, Agent!Active, Latest, Agent!latest_active_manifest, Agent!manifest_chain,
     Agent!chainTo
<1>4. AgentDisk'
  <2>1. Manifests'
    BY <1>3 DEF AgentInv, AgentDisk, Manifests, ManifestOk, Agent!Held, Agent!user
  <2>2. Agent!OneChain'
    BY <1>3 DEF AgentInv, AgentDisk, Agent!OneChain
  <2>3. Traceless'
    BY <1>1, <1>3 DEF Traceless
  <2>4. (file[Agent!Config].text <= edits)' /\ Agent!EditsKept'
    BY DEF AgentInv, AgentDisk, Agent!EditsKept, Agent!user
  <2> QED
    BY <2>1, <2>2, <2>3, <2>4 DEF AgentDisk
<1>5. ~Planned(c)' /\ cmd'[c].pc \notin {"resolved", "unlink"}
  BY <1>2 DEF Planned, AgentApplying, AgentSaving, AgentSaved, AgentStripped, Agent!Fragment,
     Agent!Config
<1>6. PlannedOk(c)'
  <2>1. Agent!Held(Agent!Imported(cmd[c].plan))' = Agent!Held(Agent!Imported(cmd[c].plan))
    BY <1>2 DEF Agent!Held, Agent!Imported, Agent!Merged, Agent!Nowhere
  <2>2. /\ Agent!Held(cmd[c].plan.auth)' = Agent!Held(cmd[c].plan.auth)
        /\ Agent!Held(cmd[c].plan.shard)' = Agent!Held(cmd[c].plan.shard)
        /\ Agent!Held(live)' = Agent!Held(live)
    BY <1>2 DEF Agent!Held, Agent!user
  <2> QED
    BY <1>1, <1>5, <2>1, <2>2 DEF PlannedOk
<1>7. LinkOk(c)'
  <2>1. Latest(cmd[c].plan.ts)'
    BY <1>1, <1>2, <1>3
  <2>2. Agent!Held(cmd[c].plan.auth)' = Agent!Held(cmd[c].plan.auth)
    BY <1>2 DEF Agent!Held
  <2>3. /\ ts # 0 /\ manifest[ts].stripped = Agent!Held(cmd[c].plan.auth)
        /\ Agent!Held(cmd[c].plan.auth) \subseteq manifest[ts].imported
        /\ manifest[ts].handoff <=> Agent!Held(cmd[c].plan.auth) = {}
    BY <1>1 DEF LinkOk, Recorded
  <2> HIDE DEF ts
  <2> QED
    BY <1>2, <2>1, <2>2, <2>3 DEF LinkOk, Recorded, ts
<1>8. CommandOk(c)'
  BY <1>2, <1>5, <1>6, <1>7 DEF CommandOk, LockOk
<1>9. /\ Agent!Written' = Agent!Written /\ agentLock' \in Commands \cup {Nobody}
      /\ \A m \in Agent!Written :
            manifest'[m] \in Agent!ManifestType /\ manifest'[m].previous < m
  BY <1>2, <1>3 DEF AgentInv, AgentTyped
<1> QED
  BY <1>1, <1>2, <1>4, <1>5, <1>8, <1>9, HolderStep

\* A write that leaves the credentials alone.
LEMMA CredentialsKeptBy ==
    ASSUME AgentDisk, UNCHANGED <<auth, shard, manifest, Agent!user>>
    PROVE  Returnable' /\ Credentialed'
<1>1. Returnable'
  BY DEF AgentDisk, Returnable, Taken, Agent!Held, Agent!Active, Agent!Written, Latest, Agent!user
<1>2. Credentialed'
  BY DEF AgentDisk, Credentialed, Agent!Held, Agent!CredentialHeld, Agent!LiveCredentialHeld, Agent!user
<1> QED
  BY <1>1, <1>2

LEMMA BindStep ==
    ASSUME Agent!AgentMigrationAssumption, AgentInv, NEW c \in Commands, Agent!Bind(c)
    PROVE  AgentInv'
<1>1. cmd[c].pc = "bind" /\ UNCHANGED <<clock, Agent!user>>
  BY DEF Agent!Bind
<1>2. CASE Agent!Stop(c) /\ UNCHANGED Agent!disk
  BY <1>1, <1>2, StopStep
<1>3. CASE bound' = TRUE /\ UNCHANGED <<auth, shard, file, manifest>> /\ Agent!Advance(c)
  <2>1. cmd[c].pc \in AgentApplying \ {"backup", "complete"} /\ cmd[c].pc \in AgentSaved
    BY <1>1 DEF AgentApplying, AgentSaved
  <2>2. cmd'[c].pc = "bound" /\ cmd'[c].plan = cmd[c].plan
    BY <1>1, <1>3, <2>1, AgentAdvances, AfterIs DEF AgentInv, AgentTyped
  <2>3. HandoverOk(c) /\ TextOk(c)
    BY <2>1, LinkFacts
  <2>4. Returnable' /\ Credentialed'
    BY <1>1, <1>3, CredentialsKeptBy DEF AgentInv
  <2>5. HandoverOk(c)'
    BY <1>1, <1>3, <2>1, <2>2, <2>3 DEF HandoverOk, AgentSaved, Agent!Held, Agent!user
  <2>6. TextOk(c)'
    BY <1>3, <2>1, <2>2, <2>3 DEF TextOk, AgentSaved, Agent!Config
  <2>7. /\ auth' \in Agent!Credentials /\ shard' \in Agent!Credentials
        /\ file' \in [Agent!Files -> Agent!Contents] /\ bound' \in BOOLEAN
    BY <1>3 DEF AgentInv, AgentTyped
  <2> QED
    BY <1>1, <1>3, <2>1, <2>4, <2>5, <2>6, <2>7, WriteStep
<1> QED
  BY <1>2, <1>3 DEF Agent!Bind, Agent!Try

LEMMA WriteFileStep ==
    ASSUME Agent!AgentMigrationAssumption, AgentInv, NEW c \in Commands, NEW f \in Agent!Files,
           Agent!WriteFile(c, f)
    PROVE  AgentInv'
<1>1. cmd[c].pc = f /\ UNCHANGED <<clock, Agent!user>>
  BY DEF Agent!WriteFile
<1>2. CASE Agent!Stop(c) /\ UNCHANGED Agent!disk
  BY <1>1, <1>2, StopStep
<1>3. CASE /\ file[f] = cmd[c].plan.file[f]
           /\ file' = [file EXCEPT ![f] = Agent!Rewritten(cmd[c].plan, f)]
           /\ UNCHANGED <<auth, shard, bound, manifest>> /\ Agent!Advance(c)
  <2>1. /\ cmd[c].pc \in AgentApplying \ {"backup", "complete"}
        /\ f = Agent!Fragment \/ f = Agent!Config
    BY <1>1 DEF AgentApplying, AgentSaved, AgentStripped, Agent!Files, Agent!Fragment, Agent!Config
  <2>2. /\ cmd'[c].plan = cmd[c].plan
        /\ f = Agent!Fragment => cmd'[c].pc = "fragmentWritten"
        /\ f = Agent!Config => cmd'[c].pc = "configWritten"
    BY <1>1, <1>3, <2>1, AgentAdvances, AfterIs DEF AgentInv, AgentTyped
  <2>3. HandoverOk(c) /\ TextOk(c) /\ cmd[c].plan \in AgentPlan
    BY <2>1, LinkFacts
  <2>4. Returnable' /\ Credentialed'
    BY <1>1, <1>3, CredentialsKeptBy DEF AgentInv
  <2> DEFINE new == Agent!Rewritten(cmd[c].plan, f)
  <2>5. new \in Agent!Contents /\ new.text = file[f].text
    BY <1>3, <2>3, RewrittenFacts
  <2> HIDE DEF new
  <2>6. /\ file \in [Agent!Files -> Agent!Contents] /\ file' = [file EXCEPT ![f] = new]
        /\ Agent!Config \in Agent!Files
    BY <1>3 DEF AgentInv, AgentTyped, new, Agent!Files
  <2>7. /\ file' \in [Agent!Files -> Agent!Contents]
        /\ file'[Agent!Config].text = file[Agent!Config].text
    BY <2>5, <2>6
  <2>8. HandoverOk(c)'
    <3>1. CASE f = Agent!Fragment
      <4>1. cmd[c].pc \in AgentSaved /\ cmd'[c].pc # "backup"
        BY <1>1, <2>2, <3>1 DEF AgentSaved
      <4> QED
        BY <1>1, <1>3, <2>2, <2>3, <4>1 DEF HandoverOk, Agent!Held, Agent!user
    <3>2. CASE f = Agent!Config
      BY <2>2, <3>2 DEF HandoverOk, AgentSaving, AgentSaved, Agent!Fragment
    <3> QED
      BY <2>1, <3>1, <3>2
  <2>9. TextOk(c)'
    <3>1. CASE f = Agent!Fragment
      <4>1. cmd[c].pc \in AgentSaved /\ cmd'[c].pc \notin {"backup", "configWritten"}
        BY <1>1, <2>2, <3>1 DEF AgentSaved
      <4> QED
        BY <1>3, <2>2, <2>3, <2>7, <4>1 DEF TextOk
    <3>2. CASE f = Agent!Config
      <4> DEFINE text == cmd[c].plan.file[Agent!Config].text
                 kept == manifest[cmd[c].plan.ts].backup[Agent!Config].text
      <4>1. text <= kept /\ kept <= text
        BY <1>1, <1>3, <2>3, <3>2 DEF TextOk
      <4>2. text \in Int /\ kept \in Int
        <5>1. manifest[cmd[c].plan.ts] \in Agent!ManifestType
          BY <2>1, LinkFacts
        <5>2. manifest[cmd[c].plan.ts].backup \in [Agent!Files -> Agent!Contents]
          BY <5>1 DEF Agent!ManifestType
        <5>3. cmd[c].plan.file \in [Agent!Files -> Agent!Contents]
          BY <2>3 DEF AgentPlan
        <5> QED
          BY <2>6, <5>2, <5>3 DEF Agent!Contents
      <4>3. text = kept
        <5> HIDE DEF text, kept
        <5> QED
          BY <4>1, <4>2
      <4>4. /\ cmd'[c].pc = "configWritten"
            /\ "configWritten" \notin {"backup", "shard", Agent!Config} \cup AgentSaved
        BY <2>2, <3>2 DEF AgentSaved, Agent!Config, Agent!Fragment
      <4>5. (cmd[c].plan.file[Agent!Config].text
               = manifest[cmd[c].plan.ts].backup[Agent!Config].text)'
        BY <1>3, <2>2, <4>3
      <4> QED
        BY <4>4, <4>5 DEF TextOk
    <3> QED
      BY <2>1, <3>1, <3>2
  <2>10. auth' \in Agent!Credentials /\ shard' \in Agent!Credentials /\ bound' \in BOOLEAN
    BY <1>3 DEF AgentInv, AgentTyped
  <2> QED
    BY <1>1, <1>3, <2>1, <2>4, <2>7, <2>8, <2>9, <2>10, WriteStep
<1> QED
  BY <1>2, <1>3 DEF Agent!WriteFile, Agent!Try

\* The shard has what the plan found in the agent's auth file before that is stripped.
LEMMA SaveShardStep ==
    ASSUME Agent!AgentMigrationAssumption, AgentInv, NEW c \in Commands, Agent!SaveShard(c)
    PROVE  AgentInv'
<1> DEFINE plan == cmd[c].plan
<1>1. cmd[c].pc = "shard" /\ UNCHANGED <<clock, Agent!user>>
  BY DEF Agent!SaveShard
<1>2. CASE Agent!Stop(c) /\ UNCHANGED Agent!disk
  BY <1>1, <1>2, StopStep
<1>3. CASE /\ shard = plan.shard /\ shard' = Agent!Imported(plan)
           /\ UNCHANGED <<auth, file, bound, manifest>> /\ Agent!Advance(c)
  <2>1. cmd[c].pc \in AgentApplying \ {"backup", "complete"} /\ cmd[c].pc \in AgentSaving
    BY <1>1 DEF AgentApplying, AgentSaving
  <2>2. cmd'[c].pc = "moved" /\ cmd'[c].plan = plan
    BY <1>1, <1>3, <2>1, AgentAdvances, AfterIs DEF AgentInv, AgentTyped
  <2>3. /\ HandoverOk(c) /\ TextOk(c) /\ plan \in AgentPlan /\ PlannedOk(c)
        /\ Agent!Imported(plan) = Agent!Merged(plan)
    BY <2>1, LinkFacts
  <2>4. /\ plan.auth \in Agent!Credentials /\ plan.shard \in Agent!Credentials
        /\ Agent!Held(plan.auth) \subseteq Agent!Held(auth)
        /\ Agent!Held(plan.auth) \cup Agent!Held(plan.shard) \subseteq Agent!Held(live)
    <3>1. Agent!Held(plan.auth) \subseteq Agent!Held(auth)
      BY <2>1, <2>3 DEF HandoverOk
    <3>2. Agent!Held(plan.auth) \cup Agent!Held(plan.shard) \subseteq Agent!Held(live)
      BY <1>1, <2>1, <2>3 DEF PlannedOk
    <3> QED
      BY <2>3, <3>1, <3>2 DEF AgentPlan
  <2> DEFINE kept == plan.shard
             given == plan.auth
  <2>5. /\ \A p \in Providers : shard'[p] = IF given[p] # 0 THEN given[p] ELSE shard[p]
        /\ shard' \in Agent!Credentials
    BY <1>3, <2>3, <2>4 DEF Agent!Merged, Agent!Credentials
  <2> HIDE DEF given
  <2>6. \A p \in Providers : given[p] # 0 => auth[p] # 0 /\ live[p] # 0
    BY <2>4 DEF given, Agent!Held
  <2>7. Credentialed'
    <3>1. Credentialed
      BY DEF AgentInv, AgentDisk
    <3>2. (Agent!Held(auth) \cup Agent!Held(shard) \subseteq Agent!Held(live))'
      BY <1>1, <1>3, <2>5, <2>6, <3>1 DEF Credentialed, Agent!Held, Agent!user
    <3>3. Agent!CredentialHeld'
      BY <1>1, <1>3, <2>5, <3>1 DEF Credentialed, Agent!CredentialHeld, Agent!Held, Agent!user
    <3>4. Agent!LiveCredentialHeld'
      <4>1. ASSUME ~sharedRefresh, NEW p \in Agent!Held(live)
            PROVE  live[p] \in {auth[p], shard'[p]}
        <5>1. p \in Providers /\ live[p] \in {auth[p], shard[p]}
              /\ (auth[p] # 0 => live[p] = auth[p])
          BY <3>1, <4>1 DEF Credentialed, Agent!LiveCredentialHeld, Agent!Held
        <5> QED
          BY <2>5, <2>6, <5>1
      <4> QED
        BY <1>1, <1>3, <4>1 DEF Agent!LiveCredentialHeld, Agent!user, Agent!Held
    <3>5. (sharedRefresh \/ \A p \in Agent!Held(auth) : live[p] = auth[p])'
      BY <1>1, <1>3, <3>1 DEF Credentialed, Agent!user, Agent!Held
    <3> QED
      BY <3>2, <3>3, <3>4, <3>5 DEF Credentialed
  <2>8. Returnable'
    BY <1>1, <1>3 DEF AgentInv, AgentDisk, Returnable, Taken, Agent!Held, Agent!Active,
       Agent!Written, Latest, Agent!user
  <2>9. HandoverOk(c)'
    <3>1. (Agent!Held(cmd[c].plan.auth) \subseteq Agent!Held(auth))'
      BY <1>3, <2>2, <2>4 DEF Agent!Held
    <3>2. \A p \in Agent!Held(cmd[c].plan.auth)' :
             (shard[p] # 0 /\ (sharedRefresh \/ shard[p] = cmd[c].plan.auth[p]))'
      BY <2>2, <2>5 DEF given, Agent!Held
    <3> QED
      BY <2>2, <3>1, <3>2 DEF HandoverOk
  <2>10. TextOk(c)'
    BY <1>1, <1>3, <2>2, <2>3 DEF TextOk
  <2>11. file' \in [Agent!Files -> Agent!Contents] /\ bound' \in BOOLEAN /\ auth' \in Agent!Credentials
    BY <1>3 DEF AgentInv, AgentTyped
  <2> QED
    BY <1>1, <1>3, <2>1, <2>5, <2>7, <2>8, <2>9, <2>10, <2>11, WriteStep
<1> QED
  BY <1>2, <1>3 DEF Agent!SaveShard, Agent!Try

\* What is stripped is in the shard, and the manifest says that it is to be given back.
LEMMA StripStep ==
    ASSUME Agent!AgentMigrationAssumption, AgentInv, NEW c \in Commands, Agent!Strip(c)
    PROVE  AgentInv'
<1> DEFINE plan == cmd[c].plan
           given == cmd[c].plan.auth
           ts == cmd[c].plan.ts
           new == [p \in Providers |-> IF p \in Agent!Held(given) THEN 0 ELSE auth[p]]
<1>1. cmd[c].pc = "strip" /\ UNCHANGED <<clock, Agent!user>>
  BY DEF Agent!Strip
<1>2. CASE Agent!Stop(c) /\ UNCHANGED Agent!disk
  BY <1>1, <1>2, StopStep
<1>3. CASE /\ auth = given \/ Agent!Held(given) = {}
           /\ auth' = new
           /\ UNCHANGED <<shard, file, bound, manifest>> /\ Agent!Advance(c)
  <2>1. cmd[c].pc \in AgentApplying \ {"backup", "complete"} /\ cmd[c].pc \in AgentSaved
    BY <1>1 DEF AgentApplying, AgentSaved
  <2>2. cmd'[c].pc = Agent!Config /\ cmd'[c].plan = plan
    BY <1>1, <1>3, <2>1, AgentAdvances, AfterIs DEF AgentInv, AgentTyped
  <2>3. HandoverOk(c) /\ TextOk(c) /\ LinkOk(c) /\ ts \in Agent!Written /\ ts \in Agent!Active /\ Latest(ts)
    BY <2>1, LinkFacts
  <2>4. /\ \A p \in Providers : auth'[p] = IF p \in Agent!Held(given) THEN 0 ELSE auth[p]
        /\ auth' \in Agent!Credentials
    BY <1>3 DEF AgentInv, AgentTyped, Agent!Credentials, Agent!AgentMigrationAssumption
  <2> HIDE DEF new
  <2>5. \A p \in Agent!Held(given) :
           p \in Providers /\ auth[p] = given[p] /\ shard[p] # 0 /\ (sharedRefresh \/ shard[p] = given[p])
    <3>1. \A p \in Agent!Held(given) :
             p \in Providers /\ shard[p] # 0 /\ (sharedRefresh \/ shard[p] = given[p])
      BY <2>1, <2>3 DEF HandoverOk, Agent!Held
    <3> QED
      BY <1>3, <3>1
  <2> HIDE DEF given
  <2>6. Credentialed
    BY DEF AgentInv, AgentDisk
  <2>7. Credentialed'
    <3>2. (Agent!Held(auth) \cup Agent!Held(shard) \subseteq Agent!Held(live))'
      BY <1>1, <1>3, <2>4, <2>6 DEF Credentialed, Agent!Held, Agent!user
    <3>3. Agent!CredentialHeld'
      BY <1>1, <1>3, <2>4, <2>5, <2>6 DEF Credentialed, Agent!CredentialHeld, Agent!Held, Agent!user
    <3>4. Agent!LiveCredentialHeld'
      <4>1. ASSUME ~sharedRefresh, NEW p \in Agent!Held(live)
            PROVE  live[p] \in {auth'[p], shard[p]}
        <5>1. p \in Providers /\ live[p] \in {auth[p], shard[p]}
              /\ (auth[p] # 0 => live[p] = auth[p]) /\ live[p] # 0
          BY <2>6, <4>1 DEF Credentialed, Agent!LiveCredentialHeld, Agent!Held
        <5> QED
          BY <2>4, <2>5, <4>1, <5>1
      <4> QED
        BY <1>1, <1>3, <4>1 DEF Agent!LiveCredentialHeld, Agent!user, Agent!Held
    <3>5. (sharedRefresh \/ \A p \in Agent!Held(auth) : live[p] = auth[p])'
      BY <1>1, <1>3, <2>4, <2>6 DEF Credentialed, Agent!user, Agent!Held
    <3> QED
      BY <3>2, <3>3, <3>4, <3>5 DEF Credentialed
  <2>8. Returnable'
    <3>1. /\ Agent!Active' = Agent!Active /\ manifest' = manifest
          /\ \A m : Latest(m)' <=> Latest(m)
      BY <1>3 DEF Agent!Active, Agent!Written, Latest
    <3>2. ASSUME NEW p \in Taken'
          PROVE  /\ \A m \in Agent!Active : Latest(m) => p \in manifest[m].imported
                 /\ \E m \in Agent!Active : ~manifest[m].handoff /\ p \in manifest[m].stripped
      <4>1. CASE p \in Agent!Held(given)
        <5>1. /\ p \in manifest[ts].imported /\ p \in manifest[ts].stripped
              /\ ~manifest[ts].handoff
          BY <1>1, <2>1, <2>3, <4>1 DEF LinkOk, Recorded, given, AgentApplying
        <5>2. \A m \in Agent!Active : Latest(m) => m = ts
          <6>1. Agent!Active \subseteq Nat
            BY DEF AgentInv, AgentTyped, Agent!Active
          <6> QED
            BY <2>3, <6>1, LatestIs DEF AgentInv
        <5> QED
          BY <2>3, <5>1, <5>2
      <4>2. CASE p \notin Agent!Held(given)
        <5>1. p \in Taken
          BY <1>1, <2>4, <3>2, <4>2 DEF Taken, Agent!Held, Agent!user
        <5> QED
          BY <5>1 DEF AgentInv, AgentDisk, Returnable
      <4> QED
        BY <4>1, <4>2
    <3> QED
      BY <3>1, <3>2 DEF Returnable
  <2>9. HandoverOk(c)'
    BY <2>2 DEF HandoverOk, AgentSaving, AgentSaved, Agent!Fragment, Agent!Config
  <2>10. TextOk(c)'
    BY <1>3, <2>1, <2>2, <2>3 DEF TextOk, Agent!Config, AgentSaved
  <2>11. file' \in [Agent!Files -> Agent!Contents] /\ bound' \in BOOLEAN /\ shard' \in Agent!Credentials
    BY <1>3 DEF AgentInv, AgentTyped
  <2> QED
    BY <1>1, <1>3, <2>1, <2>4, <2>7, <2>8, <2>9, <2>10, <2>11, WriteStep
<1> QED
  BY <1>2, <1>3 DEF Agent!Strip, Agent!Try

LEMMA BackupStep ==
    ASSUME Agent!AgentMigrationAssumption, AgentInv, NEW c \in Commands, Agent!Backup(c)
    PROVE  AgentInv'
<1> DEFINE plan == cmd[c].plan
           ts == cmd[c].plan.ts
           prev == cmd[c].plan.previous
           given == Agent!Held(cmd[c].plan.auth)
           imported == Agent!Held(Agent!Imported(cmd[c].plan))
           new == [previous |-> prev, completed |-> FALSE, unlinked |-> FALSE,
                   handoff |-> given = {}, before |-> plan.bound, applied |-> FALSE,
                   imported |-> imported, stripped |-> given,
                   backup |-> file, shardBackup |-> shard,
                   digest |-> [f \in Agent!Files |-> Agent!NoDigest], moved |-> FALSE]
<1>1. /\ cmd[c].pc = "backup" /\ Agent!Advance(c)
      /\ manifest' = [m \in Agent!Written \cup {ts} |-> IF m = ts THEN new ELSE manifest[m]]
      /\ UNCHANGED <<auth, shard, file, bound, clock, Agent!user>>
  BY DEF Agent!Backup
<1>2. cmd[c].pc \in AgentApplying \ {"complete"} /\ cmd[c].pc \in AgentSaving
  BY <1>1 DEF AgentApplying, AgentSaving
<1>3. /\ agentLock = c /\ PlannedOk(c) /\ LinkOk(c) /\ HandoverOk(c) /\ TextOk(c)
      /\ Agent!Imported(plan) = Agent!Merged(plan) /\ plan \in AgentPlan
  BY <1>2, LinkFacts
<1>4. /\ AgentMoves(c, cmd'[c]) /\ cmd'[c].pc = "shard" /\ cmd'[c].plan = plan /\ agentLock' = c
  BY <1>1, <1>2, <1>3, AgentAdvances, AfterIs DEF AgentInv, AgentTyped, AgentMoves
<1>5. /\ PlanOk(c) /\ Latest(prev) /\ bound = plan.bound
      /\ given \cup Agent!Held(plan.shard) \subseteq Agent!Held(live)
  BY <1>1, <1>2, <1>3 DEF PlannedOk, Planned, LinkOk
<1>6. /\ ts \in 1..clock /\ ts \notin Agent!Written /\ ts \in 1..MaxPlans /\ ts \in Nat \ {0}
      /\ prev \in Agent!Written \cup {0} /\ prev < ts /\ prev \in 0..MaxPlans
      /\ MaxPlans \in Nat /\ clock \in Nat
      /\ Agent!Written \subseteq 1..MaxPlans
  BY <1>3, <1>5 DEF PlanOk, AgentInv, AgentTyped, AgentPlan, Agent!AgentMigrationAssumption
<1>7. /\ imported \subseteq Providers /\ given \subseteq imported
      /\ Agent!Held(plan.shard) \subseteq imported
  BY <1>3 DEF Agent!Held, Agent!Merged
<1>8. /\ new \in Agent!ManifestType
      /\ new.previous = prev /\ ~new.unlinked /\ new.handoff = (given = {})
      /\ new.before = plan.bound /\ new.imported = imported /\ new.stripped = given
      /\ new.backup = file /\ new.shardBackup = shard
      /\ \A f \in Agent!Files : new.digest[f] = Agent!NoDigest
  <2>1. /\ file \in [Agent!Files -> Agent!Contents] /\ shard \in Agent!Credentials
        /\ plan.bound \in BOOLEAN
    BY <1>3 DEF AgentInv, AgentTyped, AgentPlan
  <2>2. [f \in Agent!Files |-> Agent!NoDigest]
           \in [Agent!Files -> Agent!Contents \cup {Agent!NoDigest}]
    OBVIOUS
  <2> DEFINE digest == [f \in Agent!Files |-> Agent!NoDigest]
             old == plan.bound
  <2>3. given \subseteq Providers /\ imported \subseteq Providers /\ prev \in 0..MaxPlans
    BY <1>6, <1>7
  <2>4. digest \in [Agent!Files -> Agent!Contents \cup {Agent!NoDigest}]
    OBVIOUS
  <2>5. \A f \in Agent!Files : digest[f] = Agent!NoDigest
    OBVIOUS
  <2> HIDE DEF digest, given, imported, prev, old
  <2>6. new \in Agent!ManifestType
    BY <2>1, <2>3, <2>4 DEF Agent!ManifestType, old
  <2> QED
    BY <2>5, <2>6
<1> HIDE DEF new
<1>9. /\ Agent!Written' = Agent!Written \cup {ts} /\ manifest'[ts] = new
      /\ \A m \in Agent!Written : manifest'[m] = manifest[m]
      /\ Agent!Active' = Agent!Active \cup {ts}
  <2>1. /\ DOMAIN manifest' = Agent!Written \cup {ts} /\ manifest'[ts] = new
        /\ \A m \in Agent!Written : manifest'[m] = manifest[m]
    BY <1>1, <1>6
  <2> QED
    BY <1>6, <1>8, <2>1 DEF Agent!Active, Agent!Written
<1> HIDE DEF ts, prev, given, imported
<1>10. /\ \A n \in Agent!Active : n <= prev /\ n \in Nat
       /\ Latest(ts)' /\ \A m : Latest(m)' => m = ts
       /\ ts' = ts
  <2>1. Agent!Active \subseteq Nat
    <3>1. Agent!Active \subseteq Agent!Written
      BY DEF Agent!Active
    <3>2. Agent!Written \subseteq Nat
      BY <1>6
    <3> QED
      BY <3>1, <3>2
  <2>2. \A n \in Agent!Active : n <= prev /\ n \in Nat /\ n <= ts
    BY <1>5, <1>6, <2>1 DEF Latest
  <2>3. \A n \in Agent!Active' : n <= ts
    BY <1>6, <1>9, <2>2
  <2>4. ASSUME NEW m, (m # 0 => m \in Agent!Active'), \A n \in Agent!Active' : n <= m PROVE m = ts
    <3>1. ts <= m /\ m # 0
      BY <1>6, <1>9, <2>4
    <3>2. m \in Agent!Active \cup {ts}
      BY <1>9, <2>4, <3>1
    <3> QED
      BY <1>6, <2>2, <3>1, <3>2
  <2>5. (ts # 0 => ts \in Agent!Active') /\ \A n \in Agent!Active' : n <= ts
    BY <1>9, <2>3
  <2>6. ts' = ts
    BY <1>4 DEF ts
  <2>7. Latest(ts)'
    BY <2>5, <2>6 DEF Latest
  <2>8. \A m : Latest(m)' => m = ts
    BY <2>4 DEF Latest
  <2> QED
    BY <2>2, <2>6, <2>7, <2>8
<1>11. AgentTyped'
  <2>1. \A m \in Agent!Written' : manifest'[m] \in Agent!ManifestType /\ manifest'[m].previous < m
    BY <1>6, <1>8, <1>9 DEF AgentInv, AgentTyped
  <2>2. Agent!Written' \subseteq 1..MaxPlans
    BY <1>6, <1>9
  <2> QED
    BY <1>1, <1>4, <2>1, <2>2 DEF AgentInv, AgentTyped, AgentMoves, Agent!user
<1>12. Manifests'
  <2>1. ASSUME NEW m \in Agent!Written PROVE ManifestOk(m)'
    BY <1>1, <1>9, <2>1 DEF AgentInv, AgentDisk, Manifests, ManifestOk, Agent!Held, Agent!user
  <2>2. ManifestOk(ts)'
    <3>1. prev = 0 => Agent!Active = {}
      <4>1. Agent!Written \subseteq 1..MaxPlans /\ Agent!Active \subseteq Agent!Written
        BY <1>6 DEF Agent!Active
      <4>2. prev = 0 => \A n \in Agent!Active : n <= 0
        BY <1>10
      <4> QED
        BY <4>1, <4>2
    <3>2. prev = 0 => /\ shard = Agent!Nowhere /\ ~bound
                      /\ \A f \in Agent!Files : file[f].links = {}
      BY <3>1 DEF AgentInv, AgentDisk, Traceless
    <3>3. Agent!Held(shard) \subseteq Agent!Held(live)
      BY DEF AgentInv, AgentDisk, Credentialed
    <3>4. (manifest[ts].previous \in Agent!Written \cup {0} /\ ts <= clock)'
      BY <1>1, <1>6, <1>8, <1>9, <1>10
    <3>5. (manifest[ts].previous = 0 =>
             /\ manifest[ts].shardBackup = Agent!Nowhere /\ ~manifest[ts].before
             /\ \A f \in Agent!Files : manifest[ts].backup[f].links = {})'
      BY <1>1, <1>5, <1>8, <1>9, <1>10, <3>2
    <3>6. manifest'[ts].digest[Agent!Config] = Agent!NoDigest
      BY <1>8, <1>9 DEF Agent!Files
    <3>7. (Agent!Held(manifest[ts].shardBackup) \subseteq Agent!Held(live))'
      BY <1>1, <1>8, <1>9, <1>10, <3>3 DEF Agent!Held, Agent!user
    <3>8. (manifest[ts].backup[Agent!Config].text <= edits)'
      BY <1>1, <1>8, <1>9, <1>10 DEF AgentInv, AgentDisk, Agent!user
    <3> QED
      BY <1>10, <3>4, <3>5, <3>6, <3>7, <3>8 DEF ManifestOk
  <2>3. \A m \in Agent!Written' : ManifestOk(m)'
    BY <1>9, <1>10, <2>1, <2>2
  <2> QED
    BY <2>3 DEF Manifests
<1>13. Agent!OneChain'
  <2>1. PreviousBefore(manifest) /\ PreviousBefore(manifest')
    <3>1. PreviousBefore(manifest)
      BY ManifestsBefore DEF AgentInv, AgentDisk
    <3>2. PreviousBefore(manifest')
      BY <1>6, <1>8, <1>9, <3>1 DEF PreviousBefore, Agent!Written
    <3> QED
      BY <3>1, <3>2
  <2>2. \A m \in Agent!Written \cup {0} : Agent!manifest_chain(m)' = Agent!manifest_chain(m)
    BY <1>6, <1>9, <2>1, ChainsKept
  <2> DEFINE ch == Agent!manifest_chain(prev)
             next == Agent!manifest_chain(ts)'
  <2>3. next = <<ts>> \o Agent!manifest_chain(prev)'
    <3>1. Agent!chainTo' = AgentWalk(manifest', Agent!chainTo', MaxPlans)
      BY <1>6, <2>1, NextChainIs
    <3>2. \A m \in DOMAIN (manifest') :
             Agent!chainTo'[m] = <<m>> \o Agent!chainTo'[manifest'[m].previous]
      BY <1>6, <2>1, <3>1, WalkFacts
    <3>3. ts \in DOMAIN (manifest') /\ manifest'[ts].previous = prev
      BY <1>8, <1>9 DEF Agent!Written
    <3>4. Agent!chainTo'[ts] = <<ts>> \o Agent!chainTo'[prev]
      BY <3>2, <3>3
    <3>5. Agent!manifest_chain(ts)' = Agent!chainTo'[ts] /\ Agent!manifest_chain(prev)' = Agent!chainTo'[prev]
      BY <1>4 DEF Agent!manifest_chain, ts, prev
    <3> QED
      BY <3>4, <3>5
  <2>4. Agent!manifest_chain(prev)' = ch
    <3>1. prev' = prev
      BY <1>4 DEF prev
    <3> QED
      BY <1>6, <2>2, <3>1
  <2>5. next = <<ts>> \o ch
    BY <2>3, <2>4
  <2>6. ch \in Seq(Nat)
    <3>1. CASE prev = 0
      <4>1. Agent!manifest_chain(0) = <<>>
        BY <1>6, <2>1, ChainFacts
      <4> QED
        BY <3>1, <4>1, EmptySeq DEF ch
    <3>2. CASE prev \in Agent!Written
      <4>1. ch \in Seq(Agent!Written)
        BY <3>2, ChainPlaces DEF AgentInv, AgentDisk
      <4>2. Agent!Written \subseteq Nat
        BY <1>6
      <4> HIDE DEF ch
      <4>3. ch \in Seq(Nat)
        BY <4>1, <4>2, SeqMonotonic
      <4> QED
        BY <4>3
    <3> QED
      BY <1>6, <3>1, <3>2
  <2> HIDE DEF ch, next
  <2>7. /\ next[1] = ts /\ 1 \in DOMAIN next
        /\ \A i \in DOMAIN ch : i + 1 \in DOMAIN next /\ next[i + 1] = ch[i]
    BY <1>6, <2>5, <2>6
  <2>8. \A m \in Agent!Active' : \E i \in DOMAIN next : next[i] = m
    <3>1. prev = Agent!latest_active_manifest
      BY <1>5, <1>6, LatestIs DEF AgentInv
    <3>2. \A m \in Agent!Active : \E i \in DOMAIN ch : ch[i] = m
      BY <3>1 DEF AgentInv, AgentDisk, Agent!OneChain, ch
    <3> QED
      BY <1>9, <2>7, <3>2
  <2>9. Agent!latest_active_manifest' = ts
    <3>1. Agent!Newest(Agent!Active') = ts
      <4>1. Agent!Active' \subseteq 1..MaxPlans /\ Agent!Active' # {}
        BY <1>6, <1>9 DEF Agent!Active
      <4>2. /\ Agent!Newest(Agent!Active') \in Agent!Active'
            /\ \A i \in Agent!Active' : i <= Agent!Newest(Agent!Active')
        BY <1>6, <4>1, NewestFacts
      <4>3. \A n \in Agent!Active' : n <= ts
        BY <1>6, <1>9, <1>10
      <4>4. /\ Agent!Newest(Agent!Active') <= ts /\ ts <= Agent!Newest(Agent!Active')
            /\ Agent!Newest(Agent!Active') \in Int
        BY <1>9, <4>1, <4>2, <4>3
      <4> QED
        BY <1>6, <4>4
    <3> QED
      BY <3>1 DEF Agent!latest_active_manifest, Agent!Newest
  <2>10. Agent!manifest_chain(Agent!latest_active_manifest)' = next
    <3>1. ts' = ts
      BY <1>4 DEF ts
    <3> QED
      BY <2>9, <3>1 DEF next, Agent!manifest_chain
  <2> QED
    BY <2>8, <2>10 DEF Agent!OneChain
<1>14. Traceless'
  BY <1>9 DEF Traceless
<1>15. Returnable'
  <2>1. Taken' = Taken
    BY <1>1 DEF Taken, Agent!Held, Agent!user
  <2>2. ASSUME NEW p \in Taken
        PROVE  /\ p \in manifest'[ts].imported
               /\ \E m \in Agent!Active' : ~manifest'[m].handoff /\ p \in manifest'[m].stripped
    <3>1. PICK m \in Agent!Active : ~manifest[m].handoff /\ p \in manifest[m].stripped
      BY DEF AgentInv, AgentDisk, Returnable
    <3>2. m \in Agent!Active' /\ manifest'[m] = manifest[m]
      BY <1>9, <3>1 DEF Agent!Active
    <3>3. p \in imported
      BY <1>1, <1>3, <1>7, <2>2 DEF HandoverOk
    <3> QED
      BY <1>8, <1>9, <3>1, <3>2, <3>3
  <2>3. \A m : Latest(m)' => m = ts
    BY <1>10
  <2> QED
    BY <2>1, <2>2, <2>3 DEF Returnable
<1>16. AgentDisk'
  <2>1. Credentialed' /\ (file[Agent!Config].text <= edits)' /\ Agent!EditsKept'
    BY <1>1 DEF AgentInv, AgentDisk, Credentialed, Agent!CredentialHeld, Agent!LiveCredentialHeld,
       Agent!EditsKept, Agent!user, Agent!Held
  <2> QED
    BY <1>12, <1>13, <1>14, <1>15, <2>1 DEF AgentDisk
<1>17. CommandOk(c)'
  <2>1. LockOk(c)'
    BY <1>4 DEF LockOk
  <2>2. PlannedOk(c)'
    <3>1. Agent!Held(Agent!Imported(cmd[c].plan))' = imported
      BY <1>4 DEF Agent!Held, Agent!Imported, Agent!Merged, Agent!Nowhere, imported
    <3>2. /\ Agent!Held(cmd[c].plan.auth)' = given
          /\ Agent!Held(cmd[c].plan.shard)' = Agent!Held(plan.shard)
          /\ Agent!Held(live)' = Agent!Held(live)
      BY <1>1, <1>4 DEF Agent!Held, Agent!user, given
    <3>3. imported # {}
      BY <1>2, <1>3 DEF PlannedOk, imported
    <3> QED
      BY <1>4, <1>5, <3>1, <3>2, <3>3 DEF PlannedOk, Planned
  <2>3. LinkOk(c)'
    <3>1. /\ cmd'[c].plan.ts = ts /\ Agent!Held(cmd[c].plan.auth)' = given
          /\ Latest(cmd[c].plan.ts)'
      BY <1>4, <1>10 DEF Agent!Held, given, ts
    <3>2. /\ ts # 0 /\ manifest'[ts].stripped = given /\ given \subseteq manifest'[ts].imported
          /\ manifest'[ts].handoff <=> given = {}
      BY <1>6, <1>7, <1>8, <1>9
    <3> QED
      BY <1>4, <3>1, <3>2 DEF LinkOk
  <2>4. HandoverOk(c)'
    <3>1. given \subseteq Agent!Held(auth)
      BY <1>2, <1>3 DEF HandoverOk, given
    <3>2. (Agent!Held(cmd[c].plan.auth) \subseteq Agent!Held(auth))'
      BY <1>1, <1>4, <3>1 DEF Agent!Held, given
    <3> QED
      BY <1>4, <3>2 DEF HandoverOk, AgentSaved, Agent!Fragment
  <2>5. TextOk(c)'
    <3>1. cmd[c].plan.file[Agent!Config].text <= file[Agent!Config].text
          /\ file[Agent!Config].text \in Nat
      BY <1>1, <1>3 DEF TextOk, AgentInv, AgentTyped, Agent!Files, Agent!Contents
    <3>2. (manifest[cmd[c].plan.ts].backup[Agent!Config].text)' = file[Agent!Config].text
      BY <1>4, <1>8, <1>9 DEF ts
    <3>3. file[Agent!Config].text <= file'[Agent!Config].text
      BY <1>1, <3>1
    <3> QED
      BY <1>4, <3>1, <3>2, <3>3 DEF TextOk, Agent!Config
  <2> QED
    BY <1>4, <2>1, <2>2, <2>3, <2>4, <2>5 DEF CommandOk
<1>18. ASSUME NEW d \in Commands, d # c PROVE CommandOk(d)'
  <2>1. Planned(d) => cmd[d].plan.ts \notin Agent!Written'
    <3>1. Planned(d) => cmd[d].plan.ts \notin Agent!Written
      BY <1>18 DEF AgentInv, CommandOk, PlannedOk, PlanOk
    <3>2. Planned(d) => cmd[d].plan.ts # ts
      BY <1>5, <1>18 DEF PlanOk, ts
    <3> QED
      BY <1>9, <3>1, <3>2
  <2>2. Agent!Written \subseteq Agent!Written' /\ ~Planned(c)'
    BY <1>4, <1>9 DEF Planned
  <2>3. clock' \in Nat /\ clock' >= clock /\ UNCHANGED Agent!user
    BY <1>1, <1>6
  <2> QED
    BY <1>3, <1>4, <1>18, <2>1, <2>2, <2>3, OthersOk DEF AgentInv
<1> QED
  BY <1>11, <1>16, <1>17, <1>18 DEF AgentInv

-----------------------------------------------------------------------------
(* An unlink's writes. *)

\* c goes on with its unlink once the agent has its credentials.
LEMMA UndoGoesOn ==
    ASSUME Agent!AgentMigrationAssumption, AgentInv, NEW c \in Commands, cmd[c].pc = "unlink",
           NEW do \in AgentTasks \ {"load", "restore"}, NEW i \in DOMAIN Agent!Chain(c),
           Agent!Turn(c, do, i), UNCHANGED <<clock, Agent!user>>,
           auth' \in Agent!Credentials, shard' \in Agent!Credentials,
           file' \in [Agent!Files -> Agent!Contents], bound' \in BOOLEAN,
           Agent!Written' = Agent!Written,
           \A m \in Agent!Written :
               /\ manifest'[m] \in Agent!ManifestType
               /\ manifest'[m].previous = manifest[m].previous
               /\ manifest'[m].backup = manifest[m].backup,
           \A m : m = cmd[c].plan.previous => Latest(m)',
           AgentDisk', Taken' = {},
           do \in {Agent!Fragment, "shard"} /\ i = Len(Agent!Chain(c)) =>
               file'[Agent!Config].links = {},
           do = "shard" /\ i = Len(Agent!Chain(c)) => file'[Agent!Fragment].links = {},
           do \in {"unbind", "mark"} =>
               shard' = Agent!Nowhere /\ \A f \in Agent!Files : file'[f].links = {},
           do = "mark" => ~bound' /\ \A j \in DOMAIN Agent!Chain(c) :
                                        j > i => manifest'[Agent!Chain(c)[j]].unlinked
    PROVE  AgentInv'
<1> DEFINE m == cmd[c].plan.previous
           ch == Agent!Chain(c)
<1>1. /\ agentLock = c /\ UndoOk(c) /\ m \in Agent!Written /\ ch = Agent!manifest_chain(m)
      /\ DOMAIN ch = 1..Len(ch) /\ \A j \in DOMAIN ch : ch[j] \in Agent!Written
  BY UndoFacts
<1>2. i \in Nat /\ do \in AgentTasks
  BY <1>1
<1>3. /\ AgentMoves(c, cmd'[c]) /\ cmd'[c].pc = "unlink" /\ cmd'[c].plan = cmd[c].plan
      /\ cmd'[c].do = do /\ cmd'[c].at = i /\ agentLock' = agentLock
  BY <1>2, AgentTurns DEF AgentInv, AgentTyped
<1>4. PreviousBefore(manifest) /\ PreviousBefore(manifest')
  <2>1. PreviousBefore(manifest)
    BY ManifestsBefore DEF AgentInv, AgentDisk
  <2>2. PreviousBefore(manifest')
    BY <2>1 DEF PreviousBefore, Agent!Written
  <2> QED
    BY <2>1, <2>2
<1>5. Agent!Chain(c)' = ch
  <2>1. \A n \in Agent!Written \cup {0} : Agent!manifest_chain(n)' = Agent!manifest_chain(n)
    BY <1>4, ChainsKept DEF Agent!AgentMigrationAssumption
  <2>2. Agent!Chain(c)' = Agent!manifest_chain(cmd[c].plan.previous)'
    BY DEF Agent!Chain
  <2>3. Agent!manifest_chain(cmd[c].plan.previous)' = Agent!manifest_chain(m)
    <3>1. m' = m
      BY <1>3
    <3> QED
      BY <1>1, <2>1, <3>1 DEF Agent!manifest_chain
  <2> QED
    BY <1>1, <2>2, <2>3
<1>6. UndoOk(c)'
  <2>1. m # 0 /\ cmd'[c].plan.previous = m /\ Latest(cmd[c].plan.previous)'
    BY <1>1, <1>3 DEF UndoOk, Latest
  <2>2. (cmd[c].at \in DOMAIN Agent!Chain(c))'
    BY <1>3, <1>5
  <2>3. (lateEdit \/ \A j \in DOMAIN Agent!Chain(c) :
                          manifest[Agent!Chain(c)[j]].backup[Agent!Config].text = edits)'
    <3>1. lateEdit' = lateEdit /\ edits' = edits
      BY DEF Agent!user
    <3>2. lateEdit \/ \A j \in DOMAIN ch : manifest[ch[j]].backup[Agent!Config].text = edits
      BY <1>1 DEF UndoOk
    <3>3. \A j \in DOMAIN ch : manifest'[ch[j]].backup = manifest[ch[j]].backup
      BY <1>1
    <3> HIDE DEF ch
    <3> QED
      BY <1>5, <3>1, <3>2, <3>3
  <2>4. /\ cmd'[c].do \notin {"load", "restore"} /\ Taken' = {}
        /\ cmd'[c].do \in {Agent!Fragment, "shard"} /\ (cmd[c].at = Len(Agent!Chain(c)))' =>
               file'[Agent!Config].links = {}
        /\ cmd'[c].do = "shard" /\ (cmd[c].at = Len(Agent!Chain(c)))' =>
               file'[Agent!Fragment].links = {}
        /\ cmd'[c].do \in {"unbind", "mark"} =>
               shard' = Agent!Nowhere /\ \A f \in Agent!Files : file'[f].links = {}
    BY <1>3, <1>5
  <2>5. cmd'[c].do = "mark" =>
           ~bound' /\ (\A j \in DOMAIN Agent!Chain(c) :
                          j > cmd[c].at => manifest[Agent!Chain(c)[j]].unlinked)'
    BY <1>3, <1>5
  <2> HIDE DEF m, ch
  <2> QED
    BY <2>1, <2>2, <2>3, <2>4, <2>5 DEF UndoOk, Agent!Nowhere, Agent!Files
<1>7. CommandOk(c)' /\ ~Planned(c)'
  BY <1>1, <1>3, <1>6 DEF CommandOk, LockOk, PlannedOk, Planned, LinkOk, Recorded, HandoverOk,
     TextOk, AgentApplying, AgentSaving, AgentSaved, AgentStripped, Agent!Fragment, Agent!Config
<1>8. /\ agentLock' \in Commands \cup {Nobody}
      /\ \A n \in Agent!Written :
            manifest'[n] \in Agent!ManifestType /\ manifest'[n].previous < n
  BY <1>1, <1>3 DEF AgentInv, AgentTyped
<1> QED
  BY <1>1, <1>3, <1>7, <1>8, HolderStep

\* The disk after a write of an unlink that leaves every manifest active.
LEMMA UndoDisk ==
    ASSUME Agent!AgentMigrationAssumption, AgentTyped, AgentDisk, Agent!Active # {},
           UNCHANGED <<clock, Agent!user>>, Agent!Written' = Agent!Written,
           \A m \in Agent!Written :
               /\ manifest'[m].previous = manifest[m].previous
               /\ manifest'[m].unlinked = manifest[m].unlinked
               /\ manifest'[m].before = manifest[m].before
               /\ manifest'[m].backup = manifest[m].backup
               /\ manifest'[m].shardBackup = manifest[m].shardBackup
               /\ manifest'[m].digest = manifest[m].digest,
           Taken' = {}, Credentialed', (file[Agent!Config].text <= edits)', Agent!EditsKept'
    PROVE  AgentDisk' /\ \A m : Latest(m)' <=> Latest(m)
<1>1. /\ Agent!Active' = Agent!Active /\ \A m : Latest(m)' <=> Latest(m)
      /\ Agent!latest_active_manifest' = Agent!latest_active_manifest
      /\ \A m \in Agent!Written \cup {0} : Agent!manifest_chain(m)' = Agent!manifest_chain(m)
  BY ManifestFrame DEF AgentDisk
<1>2. Manifests'
  BY DEF AgentDisk, Manifests, ManifestOk, Agent!Held, Agent!user
<1>3. Agent!OneChain'
  <2>1. Agent!latest_active_manifest \in Agent!Written \cup {0}
    BY LatestIs DEF Agent!Active
  <2> QED
    BY <1>1, <2>1 DEF AgentDisk, Agent!OneChain
<1>4. Traceless' /\ Returnable'
  BY <1>1 DEF Traceless, Returnable
<1> QED
  BY <1>1, <1>2, <1>3, <1>4 DEF AgentDisk

\* With the agent's credentials back, nothing of the shard is needed.
LEMMA GivenBack ==
    ASSUME AgentTyped, AgentDisk, Taken = {}, UNCHANGED <<auth, Agent!user>>,
           Agent!Held(shard') \subseteq Agent!Held(live), shard' \in Agent!Credentials
    PROVE  Taken' = {} /\ Credentialed'
<1>1. Taken' = {}
  BY DEF Taken, Agent!Held, Agent!user
<1>2. \A p \in Agent!Held(live) : auth[p] # 0
  BY DEF Taken, Agent!Held
<1>3. Credentialed
  BY DEF AgentDisk
<1>4. Agent!Held(auth)' = Agent!Held(auth) /\ Agent!Held(live)' = Agent!Held(live)
      /\ live' = live /\ sharedRefresh' = sharedRefresh /\ Agent!Held(shard)' = Agent!Held(shard')
  BY DEF Agent!Held, Agent!user
<1>5. (Agent!Held(auth) \cup Agent!Held(shard) \subseteq Agent!Held(live))'
  BY <1>3, <1>4 DEF Credentialed
<1>6. Agent!CredentialHeld'
  BY <1>2, <1>4 DEF Agent!CredentialHeld
<1>7. (sharedRefresh \/ \A p \in Agent!Held(auth) : live[p] = auth[p])'
  BY <1>3, <1>4 DEF Credentialed
<1>8. Agent!LiveCredentialHeld'
  <2>1. ASSUME ~sharedRefresh, NEW p \in Agent!Held(live) PROVE live[p] = auth[p]
    BY <1>2, <1>3, <2>1 DEF Credentialed, Agent!Held
  <2> QED
    BY <1>4, <2>1 DEF Agent!LiveCredentialHeld
<1> QED
  BY <1>1, <1>5, <1>6, <1>7, <1>8 DEF Credentialed

LEMMA RestoreCredentialsStep ==
    ASSUME Agent!AgentMigrationAssumption, AgentInv, NEW c \in Commands, Agent!RestoreCredentials(c)
    PROVE  AgentInv'
<1> DEFINE ch == Agent!Chain(c)
           given == cmd[c].accounts
<1>1. /\ cmd[c].pc = "unlink" /\ cmd[c].do = "restore" /\ Agent!Turn(c, "handoff", 1)
      /\ auth' = [p \in Providers |-> IF p \in Agent!ToRestore(ch) /\ auth[p] = 0 THEN given[p] ELSE auth[p]]
      /\ UNCHANGED <<shard, file, bound, manifest, clock, Agent!user>>
  BY DEF Agent!RestoreCredentials, Agent!Doing
<1>2. /\ UndoOk(c) /\ cmd[c].plan.previous \in Agent!Active /\ Latest(cmd[c].plan.previous)
      /\ DOMAIN ch = 1..Len(ch) /\ Len(ch) \in Nat \ {0}
  BY <1>1, UndoFacts
<1>3. given \in Agent!Credentials
  BY DEF AgentInv, AgentTyped, AgentCommand
<1>4. /\ \A p \in Taken : p \in Agent!ToRestore(ch) /\ given[p] # 0
      /\ \A p \in Agent!Held(given) : live[p] # 0 /\ (sharedRefresh \/ given[p] = shard[p])
  BY <1>1, <1>2 DEF UndoOk
<1>5. /\ \A p \in Providers :
            \/ auth[p] # 0 /\ auth'[p] = auth[p]
            \/ auth[p] = 0 /\ auth'[p] \in {0, given[p]}
               /\ (p \in Agent!ToRestore(ch) => auth'[p] = given[p])
      /\ auth' \in Agent!Credentials
  <2>1. auth \in Agent!Credentials
    BY DEF AgentInv, AgentTyped
  <2> HIDE DEF given
  <2> QED
    BY <1>1, <1>3, <2>1 DEF Agent!Credentials
<1> HIDE DEF given, ch
<1>6. \A p \in Agent!Held(live) : auth'[p] # 0
  <2>1. ASSUME NEW p \in Agent!Held(live), auth[p] = 0 PROVE auth'[p] # 0
    <3>1. p \in Taken /\ p \in Providers
      BY <2>1 DEF Taken, Agent!Held
    <3> QED
      BY <1>4, <1>5, <2>1, <3>1
  <2>2. ASSUME NEW p \in Agent!Held(live), auth[p] # 0 PROVE auth'[p] # 0
    <3>1. p \in Providers
      BY DEF Agent!Held
    <3> QED
      BY <1>5, <2>2, <3>1
  <2> QED
    BY <2>1, <2>2
<1>7. Taken' = {}
  BY <1>1, <1>6 DEF Taken, Agent!Held, Agent!user
<1>8. Credentialed'
  <2>1. Credentialed
    BY DEF AgentInv, AgentDisk
  <2>2. /\ Agent!Held(live)' = Agent!Held(live) /\ live' = live /\ shard' = shard
        /\ sharedRefresh' = sharedRefresh /\ Agent!Held(shard)' = Agent!Held(shard)
    BY <1>1 DEF Agent!Held, Agent!user
  <2>3. ASSUME NEW p \in Providers, auth'[p] # 0
        PROVE  live[p] # 0 /\ (sharedRefresh \/ live[p] = auth'[p])
    <3>1. CASE auth[p] # 0
      <4>1. p \in Agent!Held(auth) /\ auth'[p] = auth[p]
        BY <1>5, <3>1 DEF Agent!Held
      <4> QED
        BY <2>1, <4>1 DEF Credentialed, Agent!Held
    <3>2. CASE auth[p] = 0
      <4>1. p \in Agent!Held(given) /\ auth'[p] = given[p]
        BY <1>5, <2>3, <3>2 DEF Agent!Held
      <4>2. live[p] # 0 /\ (sharedRefresh \/ auth'[p] = shard[p])
        BY <1>4, <4>1
      <4>3. p \in Agent!Held(live)
        BY <4>2 DEF Agent!Held
      <4>4. sharedRefresh \/ live[p] \in {auth[p], shard[p]}
        BY <2>1, <4>3 DEF Credentialed, Agent!LiveCredentialHeld
      <4> QED
        BY <3>2, <4>2, <4>4
    <3> QED
      BY <3>1, <3>2
  <2>4. (Agent!Held(auth) \cup Agent!Held(shard) \subseteq Agent!Held(live))'
    BY <2>1, <2>2, <2>3 DEF Credentialed, Agent!Held
  <2>5. Agent!CredentialHeld'
    BY <1>6, <2>2 DEF Agent!CredentialHeld
  <2>6. (sharedRefresh \/ \A p \in Agent!Held(auth) : live[p] = auth[p])'
    BY <2>2, <2>3 DEF Agent!Held
  <2>7. Agent!LiveCredentialHeld'
    <3>1. ASSUME ~sharedRefresh, NEW p \in Agent!Held(live) PROVE live[p] = auth'[p]
      <4>1. p \in Providers
        BY DEF Agent!Held
      <4> QED
        BY <1>6, <2>3, <3>1, <4>1
    <3> QED
      BY <2>2, <3>1 DEF Agent!LiveCredentialHeld
  <2> QED
    BY <2>4, <2>5, <2>6, <2>7 DEF Credentialed
<1>9. AgentDisk' /\ \A m : Latest(m)' <=> Latest(m)
  <2>1. (file[Agent!Config].text <= edits)' /\ Agent!EditsKept'
    BY <1>1 DEF AgentInv, AgentDisk, Agent!EditsKept, Agent!user
  <2>2. Agent!Written' = Agent!Written
    BY <1>1 DEF Agent!Written
  <2> QED
    BY <1>1, <1>2, <1>7, <1>8, <2>1, <2>2, UndoDisk DEF AgentInv
<1>10. /\ file' \in [Agent!Files -> Agent!Contents] /\ bound' \in BOOLEAN
       /\ shard' \in Agent!Credentials /\ Agent!Written' = Agent!Written
       /\ \A m \in Agent!Written :
             /\ manifest'[m] \in Agent!ManifestType
             /\ manifest'[m].previous = manifest[m].previous
             /\ manifest'[m].backup = manifest[m].backup
  BY <1>1 DEF AgentInv, AgentTyped, Agent!Written
<1>11. /\ "handoff" \in AgentTasks \ {"load", "restore"} /\ 1 \in DOMAIN Agent!Chain(c)
       /\ "handoff" \notin {Agent!Fragment, "shard", "unbind", "mark"}
  BY <1>2 DEF AgentTasks, Agent!Fragment, ch
<1> QED
  BY <1>1, <1>2, <1>5, <1>7, <1>9, <1>10, <1>11, UndoGoesOn

LEMMA HandedOffStep ==
    ASSUME Agent!AgentMigrationAssumption, AgentInv, NEW c \in Commands, Agent!HandedOff(c)
    PROVE  AgentInv'
<1> DEFINE ch == Agent!Chain(c)
<1>1. cmd[c].pc = "unlink" /\ cmd[c].do = "handoff"
      /\ UNCHANGED <<auth, shard, file, bound, clock, Agent!user>>
  BY DEF Agent!HandedOff, Agent!Doing
<1>2. PICK i \in Agent!Pending(ch) :
         /\ manifest' = [manifest EXCEPT ![ch[i]].handoff = TRUE]
         /\ Agent!Turn(c, IF Agent!Pending(ch) = {i} THEN Agent!Config ELSE "handoff", 1)
  BY DEF Agent!HandedOff
<1>3. /\ UndoOk(c) /\ cmd[c].plan.previous \in Agent!Active /\ Latest(cmd[c].plan.previous)
      /\ DOMAIN ch = 1..Len(ch) /\ Len(ch) \in Nat \ {0}
      /\ \A j \in DOMAIN ch : ch[j] \in Agent!Written
  BY <1>1, UndoFacts
<1> DEFINE n == ch[i]
<1>4. n \in Agent!Written
  BY <1>3 DEF Agent!Pending
<1> HIDE DEF ch, n
<1>5. /\ Agent!Written' = Agent!Written
      /\ \A m \in Agent!Written :
             /\ manifest'[m] \in Agent!ManifestType
             /\ manifest'[m].previous = manifest[m].previous
             /\ manifest'[m].unlinked = manifest[m].unlinked
             /\ manifest'[m].before = manifest[m].before
             /\ manifest'[m].backup = manifest[m].backup
             /\ manifest'[m].shardBackup = manifest[m].shardBackup
             /\ manifest'[m].digest = manifest[m].digest
  <2> DEFINE new == [manifest[n] EXCEPT !.handoff = TRUE]
  <2>1. manifest' = [manifest EXCEPT ![n] = new]
    BY <1>2 DEF n
  <2>2. manifest[n] \in Agent!ManifestType
    BY <1>4 DEF AgentInv, AgentTyped
  <2>3. /\ new \in Agent!ManifestType /\ new.previous = manifest[n].previous
        /\ new.unlinked = manifest[n].unlinked /\ new.before = manifest[n].before
        /\ new.backup = manifest[n].backup /\ new.shardBackup = manifest[n].shardBackup
        /\ new.digest = manifest[n].digest
    BY <2>2 DEF Agent!ManifestType
  <2> HIDE DEF new
  <2>4. /\ Agent!Written' = Agent!Written /\ manifest'[n] = new
        /\ \A m \in Agent!Written \ {n} : manifest'[m] = manifest[m]
    BY <1>4, <2>1 DEF Agent!Written
  <2>5. \A m \in Agent!Written : manifest[m] \in Agent!ManifestType
    BY DEF AgentInv, AgentTyped
  <2> QED
    BY <2>3, <2>4, <2>5
<1>6. Taken = {}
  BY <1>1, <1>3 DEF UndoOk
<1>7. Taken' = {} /\ Credentialed'
  BY <1>1, <1>6, GivenBack DEF AgentInv, AgentTyped, AgentDisk, Credentialed
<1>8. AgentDisk' /\ \A m : Latest(m)' <=> Latest(m)
  <2>1. (file[Agent!Config].text <= edits)' /\ Agent!EditsKept'
    BY <1>1 DEF AgentInv, AgentDisk, Agent!EditsKept, Agent!user
  <2> QED
    BY <1>1, <1>3, <1>5, <1>7, <2>1, UndoDisk DEF AgentInv
<1>9. /\ auth' \in Agent!Credentials /\ file' \in [Agent!Files -> Agent!Contents]
      /\ bound' \in BOOLEAN /\ shard' \in Agent!Credentials
  BY <1>1 DEF AgentInv, AgentTyped
<1>10. 1 \in DOMAIN Agent!Chain(c)
  BY <1>3 DEF ch
<1> DEFINE do == IF Agent!Pending(ch) = {i} THEN Agent!Config ELSE "handoff"
<1>11. /\ do \in AgentTasks \ {"load", "restore"} /\ Agent!Turn(c, do, 1)
       /\ do \notin {Agent!Fragment, "shard", "unbind", "mark"}
  BY <1>2 DEF AgentTasks, Agent!Fragment, Agent!Config
<1> HIDE DEF do
<1> QED
  BY <1>1, <1>3, <1>5, <1>7, <1>8, <1>9, <1>10, <1>11, UndoGoesOn

\* The files go back to the user's text, and with the oldest manifest to no generated one.
LEMMA RestoreFileStep ==
    ASSUME Agent!AgentMigrationAssumption, AgentInv, NEW c \in Commands, NEW f \in Agent!Files,
           Agent!RestoreFile(c, f)
    PROVE  AgentInv'
<1> DEFINE ch == Agent!Chain(c)
           i == cmd[c].at
           n == ch[i]
           do == IF f = Agent!Config THEN Agent!Fragment ELSE "shard"
<1>1. /\ cmd[c].pc = "unlink" /\ cmd[c].do = f /\ Agent!Turn(c, do, i)
      /\ file' = [file EXCEPT ![f] = manifest[n].backup[f]]
      /\ UNCHANGED <<auth, shard, bound, manifest, clock, Agent!user>>
  BY DEF Agent!RestoreFile, Agent!Doing, Agent!At
<1>2. /\ UndoOk(c) /\ cmd[c].plan.previous \in Agent!Active /\ Latest(cmd[c].plan.previous)
      /\ \A j \in DOMAIN ch : ch[j] \in Agent!Written
      /\ i \in DOMAIN ch /\ n \in Agent!Written /\ manifest[ch[Len(ch)]].previous = 0
  BY <1>1, UndoFacts
<1>3. f = Agent!Fragment \/ f = Agent!Config
  BY DEF Agent!Files
<1>4. /\ do \in AgentTasks \ {"load", "restore", "mark", "unbind"}
      /\ f = Agent!Config => do = Agent!Fragment
      /\ f = Agent!Fragment => do = "shard"
      /\ Agent!Fragment # Agent!Config /\ Agent!Fragment # "shard"
  BY <1>3 DEF AgentTasks, Agent!Fragment, Agent!Config
<1>5. /\ lateEdit \/ manifest[n].backup[Agent!Config].text = edits
      /\ Taken = {}
      /\ f = Agent!Fragment /\ i = Len(ch) => file[Agent!Config].links = {}
  BY <1>1, <1>2, <1>3 DEF UndoOk, Agent!Fragment, Agent!Config
<1>6. /\ i = Len(ch) => \A g \in Agent!Files : manifest[n].backup[g].links = {}
      /\ manifest[n].backup[Agent!Config].text <= edits
      /\ manifest[n].backup \in [Agent!Files -> Agent!Contents]
  <2>1. ManifestOk(n)
    BY <1>2 DEF AgentInv, AgentDisk, Manifests
  <2>2. i = Len(ch) => manifest[n].previous = 0
    BY <1>2
  <2>3. manifest[n] \in Agent!ManifestType
    BY <1>2 DEF AgentInv, AgentTyped
  <2> HIDE DEF n, i, ch
  <2> QED
    BY <2>1, <2>2, <2>3 DEF ManifestOk, Agent!ManifestType
<1> HIDE DEF n, do, i, ch
<1>7. /\ file' \in [Agent!Files -> Agent!Contents] /\ file'[f] = manifest[n].backup[f]
      /\ \A g \in Agent!Files \ {f} : file'[g] = file[g]
      /\ Agent!Fragment \in Agent!Files /\ Agent!Config \in Agent!Files
  BY <1>1, <1>6 DEF AgentInv, AgentTyped, Agent!Files
<1>8. Taken' = {} /\ Credentialed'
  BY <1>1, <1>5, GivenBack DEF AgentInv, AgentTyped, AgentDisk, Credentialed
<1>9. (file[Agent!Config].text <= edits)' /\ Agent!EditsKept'
  <2>1. file[Agent!Config].text <= edits /\ Agent!EditsKept
    BY DEF AgentInv, AgentDisk
  <2>2. edits' = edits /\ lateEdit' = lateEdit
    BY <1>1 DEF Agent!user
  <2>3. CASE f = Agent!Config
    BY <1>5, <1>6, <1>7, <2>2, <2>3 DEF Agent!EditsKept
  <2>4. CASE f # Agent!Config
    BY <1>7, <2>1, <2>2, <2>4 DEF Agent!EditsKept
  <2> QED
    BY <2>3, <2>4
<1>10. Agent!Written' = Agent!Written
  BY <1>1 DEF Agent!Written
<1>11. AgentDisk' /\ \A m : Latest(m)' <=> Latest(m)
  BY <1>1, <1>2, <1>8, <1>9, <1>10, UndoDisk DEF AgentInv
<1>12. /\ auth' \in Agent!Credentials /\ bound' \in BOOLEAN /\ shard' \in Agent!Credentials
       /\ \A m \in Agent!Written :
             /\ manifest'[m] \in Agent!ManifestType
             /\ manifest'[m].previous = manifest[m].previous
             /\ manifest'[m].backup = manifest[m].backup
  BY <1>1 DEF AgentInv, AgentTyped
<1>13. /\ do \in {Agent!Fragment, "shard"} /\ i = Len(Agent!Chain(c)) =>
             file'[Agent!Config].links = {}
       /\ do = "shard" /\ i = Len(Agent!Chain(c)) => file'[Agent!Fragment].links = {}
  <2>1. CASE f = Agent!Config
    BY <1>4, <1>6, <1>7, <2>1 DEF ch
  <2>2. CASE f = Agent!Fragment
    BY <1>4, <1>5, <1>6, <1>7, <2>2 DEF ch
  <2> QED
    BY <1>3, <2>1, <2>2
<1>14. i \in DOMAIN Agent!Chain(c)
  BY <1>2 DEF ch
<1> QED
  BY <1>1, <1>2, <1>4, <1>7, <1>8, <1>10, <1>11, <1>12, <1>13, <1>14, UndoGoesOn

LEMMA RestoreShardStep ==
    ASSUME Agent!AgentMigrationAssumption, AgentInv, NEW c \in Commands, Agent!RestoreShard(c)
    PROVE  AgentInv'
<1> DEFINE ch == Agent!Chain(c)
           i == cmd[c].at
           n == ch[i]
           do == IF i < Len(ch) THEN Agent!Config ELSE "unbind"
           next == IF i < Len(ch) THEN i + 1 ELSE 1
<1>1. /\ cmd[c].pc = "unlink" /\ cmd[c].do = "shard" /\ Agent!Turn(c, do, next)
      /\ shard' = manifest[n].shardBackup
      /\ UNCHANGED <<auth, file, bound, manifest, clock, Agent!user>>
  BY DEF Agent!RestoreShard, Agent!Doing, Agent!At
<1>2. /\ UndoOk(c) /\ cmd[c].plan.previous \in Agent!Active /\ Latest(cmd[c].plan.previous)
      /\ DOMAIN ch = 1..Len(ch) /\ Len(ch) \in Nat \ {0}
      /\ \A j \in DOMAIN ch : ch[j] \in Agent!Written
      /\ i \in DOMAIN ch /\ n \in Agent!Written /\ manifest[ch[Len(ch)]].previous = 0
  BY <1>1, UndoFacts
<1>3. /\ Taken = {}
      /\ i = Len(ch) => file[Agent!Config].links = {} /\ file[Agent!Fragment].links = {}
  BY <1>1, <1>2 DEF UndoOk
<1>4. /\ i = Len(ch) => manifest[n].shardBackup = Agent!Nowhere
      /\ Agent!Held(manifest[n].shardBackup) \subseteq Agent!Held(live)
      /\ manifest[n].shardBackup \in Agent!Credentials
  <2>1. ManifestOk(n)
    BY <1>2 DEF AgentInv, AgentDisk, Manifests
  <2>2. i = Len(ch) => manifest[n].previous = 0
    BY <1>2
  <2>3. manifest[n] \in Agent!ManifestType
    BY <1>2 DEF AgentInv, AgentTyped
  <2> HIDE DEF n, i, ch
  <2> QED
    BY <2>1, <2>2, <2>3 DEF ManifestOk, Agent!ManifestType
<1>5. /\ do \in AgentTasks \ {"load", "restore", "mark"} /\ next \in DOMAIN ch
      /\ do \notin {Agent!Fragment, "shard"} /\ (do = "unbind" => i = Len(ch))
  <2>1. i \in 1..Len(ch) /\ Len(ch) \in Nat
    BY <1>2
  <2> HIDE DEF i, ch
  <2> QED
    BY <1>2, <2>1 DEF AgentTasks, Agent!Fragment, Agent!Config
<1> HIDE DEF n, do, next, ch, i
<1>6. Taken' = {} /\ Credentialed'
  BY <1>1, <1>3, <1>4, GivenBack DEF AgentInv
<1>7. (file[Agent!Config].text <= edits)' /\ Agent!EditsKept'
  BY <1>1 DEF AgentInv, AgentDisk, Agent!EditsKept, Agent!user
<1>8. Agent!Written' = Agent!Written
  BY <1>1 DEF Agent!Written
<1>9. AgentDisk' /\ \A m : Latest(m)' <=> Latest(m)
  BY <1>1, <1>2, <1>6, <1>7, <1>8, UndoDisk DEF AgentInv
<1>10. /\ auth' \in Agent!Credentials /\ bound' \in BOOLEAN /\ shard' \in Agent!Credentials
       /\ file' \in [Agent!Files -> Agent!Contents]
       /\ \A m \in Agent!Written :
             /\ manifest'[m] \in Agent!ManifestType
             /\ manifest'[m].previous = manifest[m].previous
             /\ manifest'[m].backup = manifest[m].backup
  BY <1>1, <1>4 DEF AgentInv, AgentTyped
<1>11. do \in {"unbind", "mark"} =>
          shard' = Agent!Nowhere /\ \A f \in Agent!Files : file'[f].links = {}
  BY <1>1, <1>3, <1>4, <1>5 DEF Agent!Files
<1>12. next \in DOMAIN Agent!Chain(c)
  BY <1>5 DEF ch
<1> QED
  BY <1>1, <1>2, <1>5, <1>6, <1>8, <1>9, <1>10, <1>11, <1>12, UndoGoesOn

LEMMA UnbindStep ==
    ASSUME Agent!AgentMigrationAssumption, AgentInv, NEW c \in Commands, Agent!Unbind(c)
    PROVE  AgentInv'
<1> DEFINE ch == Agent!Chain(c)
           i == cmd[c].at
           n == ch[i]
           do == IF i < Len(ch) THEN "unbind" ELSE "mark"
           next == IF i < Len(ch) THEN i + 1 ELSE i
<1>1. /\ cmd[c].pc = "unlink" /\ cmd[c].do = "unbind"
      /\ UNCHANGED <<auth, shard, file, manifest, clock, Agent!user>>
  BY DEF Agent!Unbind, Agent!Doing
<1>a. CASE UNCHANGED bound /\ Agent!Stop(c)
  BY <1>1, <1>a, StopStep DEF Agent!disk
<1>b. CASE bound' = manifest[n].before /\ Agent!Turn(c, do, next)
  <2>2. /\ UndoOk(c) /\ cmd[c].plan.previous \in Agent!Active /\ Latest(cmd[c].plan.previous)
        /\ DOMAIN ch = 1..Len(ch) /\ Len(ch) \in Nat \ {0}
        /\ i \in DOMAIN ch /\ n \in Agent!Written /\ manifest[ch[Len(ch)]].previous = 0
    BY <1>1, UndoFacts
  <2>3. /\ Taken = {}
        /\ shard = Agent!Nowhere /\ \A f \in Agent!Files : file[f].links = {}
    BY <1>1, <2>2 DEF UndoOk
  <2>4. /\ i = Len(ch) => ~manifest[n].before
        /\ manifest[n].before \in BOOLEAN
    <3>1. ManifestOk(n)
      BY <2>2 DEF AgentInv, AgentDisk, Manifests
    <3>2. i = Len(ch) => manifest[n].previous = 0
      BY <2>2
    <3>3. manifest[n] \in Agent!ManifestType
      BY <2>2 DEF AgentInv, AgentTyped
    <3> HIDE DEF n, i, ch
    <3> QED
      BY <3>1, <3>2, <3>3 DEF ManifestOk, Agent!ManifestType
  <2>5. /\ do \in AgentTasks \ {"load", "restore"} /\ next \in DOMAIN ch
        /\ do \notin {Agent!Fragment, "shard"}
        /\ do = "mark" => i = Len(ch) /\ next = Len(ch)
    <3>1. i \in 1..Len(ch) /\ Len(ch) \in Nat
      BY <2>2
    <3> HIDE DEF i, ch
    <3> QED
      BY <2>2, <3>1 DEF AgentTasks, Agent!Fragment
  <2>6. \A j \in DOMAIN ch : ~(j > Len(ch))
    BY <2>2
  <2> HIDE DEF n, do, next, ch, i
  <2>7. Taken' = {} /\ Credentialed'
    BY <1>1, <2>3, GivenBack DEF AgentInv, AgentTyped, AgentDisk, Credentialed
  <2>8. (file[Agent!Config].text <= edits)' /\ Agent!EditsKept'
    BY <1>1 DEF AgentInv, AgentDisk, Agent!EditsKept, Agent!user
  <2>9. Agent!Written' = Agent!Written
    BY <1>1 DEF Agent!Written
  <2>10. AgentDisk' /\ \A m : Latest(m)' <=> Latest(m)
    BY <1>1, <2>2, <2>7, <2>8, <2>9, UndoDisk DEF AgentInv
  <2>11. /\ auth' \in Agent!Credentials /\ bound' \in BOOLEAN /\ shard' \in Agent!Credentials
         /\ file' \in [Agent!Files -> Agent!Contents]
         /\ \A m \in Agent!Written :
               /\ manifest'[m] \in Agent!ManifestType
               /\ manifest'[m].previous = manifest[m].previous
               /\ manifest'[m].backup = manifest[m].backup
    BY <1>1, <1>b, <2>4 DEF AgentInv, AgentTyped
  <2>12. shard' = Agent!Nowhere /\ \A f \in Agent!Files : file'[f].links = {}
    BY <1>1, <2>3
  <2>13. do = "mark" => ~bound' /\ \A j \in DOMAIN Agent!Chain(c) :
                                        j > next => manifest'[Agent!Chain(c)[j]].unlinked
    BY <1>b, <2>4, <2>5, <2>6 DEF ch
  <2>14. next \in DOMAIN Agent!Chain(c)
    BY <2>5 DEF ch
  <2> QED
    BY <1>1, <1>b, <2>2, <2>5, <2>7, <2>9, <2>10, <2>11, <2>12, <2>13, <2>14, UndoGoesOn
<1> QED
  BY <1>a, <1>b DEF Agent!Unbind, Agent!At

\* The manifests of a chain get older.
LEMMA ChainGetsOlder ==
    ASSUME NEW man, NEW ch, NEW m, PreviousBefore(man), ChainOf(man, ch, m)
    PROVE  \A i \in DOMAIN ch : i # 1 => ch[i] < m
<1> DEFINE bad == {i \in DOMAIN ch : i # 1 /\ ~(ch[i] < m)}
<1>1. /\ DOMAIN ch = 1..Len(ch) /\ Len(ch) \in Nat /\ \A i \in DOMAIN ch : ch[i] \in DOMAIN man
      /\ ch[1] = m
  BY DEF ChainOf
<1>2. \A i \in DOMAIN ch : ch[i] \in 1..MaxPlans
  BY <1>1 DEF PreviousBefore
<1>3. ASSUME bad # {} PROVE FALSE
  <2>1. bad \subseteq Nat
    BY <1>1
  <2>2. PICK i \in bad : \A j \in bad : i <= j
    <3> HIDE DEF bad
    <3> QED
      BY <1>3, <2>1, LeastOf
  <2>3. i \in DOMAIN ch /\ i # 1 /\ ~(ch[i] < m)
    OBVIOUS
  <2>4. i - 1 \in DOMAIN ch /\ i - 1 < Len(ch) /\ (i - 1) + 1 = i /\ i - 1 < i
    BY <1>1, <2>3
  <2>5. man[ch[i - 1]].previous = ch[i]
    <3>1. man[ch[i - 1]].previous = ch[(i - 1) + 1]
      BY <2>4 DEF ChainOf
    <3> QED
      BY <2>4, <3>1
  <2>6. ch[i] < ch[i - 1]
    <3>1. man[ch[i - 1]].previous < ch[i - 1]
      BY <1>1, <2>4 DEF PreviousBefore
    <3> QED
      BY <2>5, <3>1
  <2>7. CASE i - 1 = 1
    BY <1>1, <2>3, <2>6, <2>7
  <2>8. CASE i - 1 # 1
    <3>1. i - 1 \notin bad
      <4>1. ASSUME i - 1 \in bad PROVE FALSE
        <5>1. i <= i - 1
          BY <2>2, <4>1
        <5> QED
          BY <1>1, <2>3, <5>1
      <4> QED
        BY <4>1
    <3>2. ch[i - 1] < m
      BY <2>4, <2>8, <3>1
    <3>3. ch[i] \in 1..MaxPlans /\ ch[i - 1] \in 1..MaxPlans /\ m \in 1..MaxPlans
      <4>1. 1 \in DOMAIN ch
        BY <1>1, <2>3
      <4> QED
        BY <1>1, <1>2, <2>3, <2>4, <4>1
    <3> QED
      BY <2>3, <2>6, <3>2, <3>3
  <2> QED
    BY <2>7, <2>8
<1> QED
  BY <1>3

\* The manifests are marked oldest first, so that until the last the newest is active and
\* its chain is that of the undo; then none is, and nothing is left.
LEMMA UnlinkedStep ==
    ASSUME Agent!AgentMigrationAssumption, AgentInv, NEW c \in Commands, Agent!Unlinked(c)
    PROVE  AgentInv'
<1> DEFINE ch == Agent!Chain(c)
           i == cmd[c].at
           n == ch[i]
           m == cmd[c].plan.previous
           new == [manifest[n] EXCEPT !.unlinked = TRUE]
<1>1. /\ cmd[c].pc = "unlink" /\ cmd[c].do = "mark" /\ manifest' = [manifest EXCEPT ![n] = new]
      /\ IF i > 1 THEN Agent!Turn(c, "mark", i - 1) ELSE Agent!Stop(c)
      /\ UNCHANGED <<auth, shard, file, bound, clock, Agent!user>>
  BY DEF Agent!Unlinked, Agent!Doing, Agent!At
<1>2. /\ agentLock = c /\ UndoOk(c) /\ m \in Agent!Active /\ m \in Agent!Written /\ Latest(m)
      /\ ch = Agent!manifest_chain(m) /\ ch[1] = m
      /\ DOMAIN ch = 1..Len(ch) /\ Len(ch) \in Nat \ {0}
      /\ \A j \in DOMAIN ch : ch[j] \in Agent!Written
      /\ i \in DOMAIN ch /\ n \in Agent!Written
  BY <1>1, UndoFacts
<1>3. /\ Taken = {} /\ shard = Agent!Nowhere /\ \A f \in Agent!Files : file[f].links = {}
      /\ ~bound /\ \A j \in DOMAIN ch : j > i => manifest[ch[j]].unlinked
  BY <1>1, <1>2 DEF UndoOk
<1>4. /\ new \in Agent!ManifestType
      /\ new.previous = manifest[n].previous /\ new.unlinked
      /\ new.before = manifest[n].before /\ new.backup = manifest[n].backup
      /\ new.shardBackup = manifest[n].shardBackup /\ new.digest = manifest[n].digest
  <2>1. manifest[n] \in Agent!ManifestType
    BY <1>2 DEF AgentInv, AgentTyped
  <2> HIDE DEF n
  <2> QED
    BY <2>1 DEF Agent!ManifestType
<1> HIDE DEF new
<1>5. /\ Agent!Written' = Agent!Written /\ manifest'[n] = new
      /\ \A k \in Agent!Written \ {n} : manifest'[k] = manifest[k]
      /\ \A k \in Agent!Written :
             /\ manifest'[k] \in Agent!ManifestType
             /\ manifest'[k].previous = manifest[k].previous
             /\ manifest'[k].before = manifest[k].before
             /\ manifest'[k].backup = manifest[k].backup
             /\ manifest'[k].shardBackup = manifest[k].shardBackup
             /\ manifest'[k].digest = manifest[k].digest
  <2>1. /\ Agent!Written' = Agent!Written /\ manifest'[n] = new
        /\ \A k \in Agent!Written \ {n} : manifest'[k] = manifest[k]
    BY <1>1, <1>2 DEF Agent!Written
  <2>2. \A k \in Agent!Written : manifest[k] \in Agent!ManifestType
    BY DEF AgentInv, AgentTyped
  <2> QED
    BY <1>4, <2>1, <2>2
<1>6. Agent!Active' = Agent!Active \ {n}
  <2>1. \A k \in Agent!Written \ {n} : manifest'[k].unlinked = manifest[k].unlinked
    BY <1>5
  <2> HIDE DEF n
  <2> QED
    BY <1>2, <1>4, <1>5, <2>1 DEF Agent!Active
<1>7. m = Agent!latest_active_manifest
  <2>1. m \in Nat
    <3>1. Agent!Written \subseteq 1..MaxPlans
      BY DEF AgentInv, AgentTyped
    <3>2. m \in Agent!Written
      BY <1>2
    <3> HIDE DEF m
    <3> QED
      BY <3>1, <3>2
  <2> QED
    BY <1>2, <2>1, LatestIs DEF AgentInv
<1>8. \A k \in Agent!Active : \E j \in DOMAIN ch : ch[j] = k
  BY <1>2, <1>7 DEF AgentInv, AgentDisk, Agent!OneChain
<1>9. Manifests'
  BY <1>1, <1>5 DEF AgentInv, AgentDisk, Manifests, ManifestOk, Agent!Held, Agent!user
<1>10. Taken' = {} /\ Credentialed' /\ (file[Agent!Config].text <= edits)' /\ Agent!EditsKept'
  <2>1. (file[Agent!Config].text <= edits)' /\ Agent!EditsKept'
    BY <1>1 DEF AgentInv, AgentDisk, Agent!EditsKept, Agent!user
  <2>2. Taken' = {} /\ Credentialed'
    BY <1>1, <1>3, GivenBack DEF AgentInv, AgentTyped, AgentDisk, Credentialed
  <2> QED
    BY <2>1, <2>2
<1>11. Traceless' /\ Returnable'
  BY <1>1, <1>3, <1>10 DEF Traceless, Returnable
<1>12. CASE i > 1
  <2>1. n # m
    <3>1. PreviousBefore(manifest) /\ MaxPlans \in Nat
      BY ManifestsBefore DEF AgentInv, AgentDisk, Agent!AgentMigrationAssumption
    <3>2. ChainOf(manifest, Agent!manifest_chain(m), m)
      BY <1>2, <3>1, ChainFacts
    <3>3. \A j \in DOMAIN ch : j # 1 => ch[j] < m
      BY <1>2, <3>1, <3>2, ChainGetsOlder
    <3>4. i # 1 /\ m \in Nat
      BY <1>2, <1>12, <3>1 DEF PreviousBefore, Agent!Written
    <3>5. n < m
      BY <1>2, <3>3, <3>4
    <3> QED
      BY <3>4, <3>5
  <2>2. m \in Agent!Active' /\ \A k \in Agent!Active' : k <= m
    BY <1>2, <1>6, <2>1 DEF Latest
  <2>3. \A k : k = m => Latest(k)'
    BY <2>2 DEF Latest
  <2>4. Agent!latest_active_manifest' = m
    <3>1. Agent!Active' \subseteq 1..MaxPlans /\ MaxPlans \in Nat
      BY <1>6 DEF AgentInv, AgentTyped, Agent!Active, Agent!AgentMigrationAssumption
    <3>2. /\ Agent!Newest(Agent!Active') \in Agent!Active'
          /\ \A k \in Agent!Active' : k <= Agent!Newest(Agent!Active')
      BY <2>2, <3>1, NewestFacts
    <3>3. Agent!Newest(Agent!Active') = m
      <4> DEFINE top == Agent!Newest(Agent!Active')
      <4> HIDE DEF top, m
      <4>1. m <= top /\ top <= m /\ top \in Int /\ m \in Int
        <5>1. top \in Agent!Active' /\ \A k \in Agent!Active' : k <= top
          BY <3>2 DEF top
        <5>2. top \in 1..MaxPlans /\ m \in 1..MaxPlans
          BY <2>2, <3>1, <5>1
        <5> QED
          BY <2>2, <5>1, <5>2
      <4>2. top = m
        BY <4>1
      <4> QED
        BY <4>2 DEF top
    <3> QED
      BY <3>3 DEF Agent!latest_active_manifest, Agent!Newest
  <2>5. PreviousBefore(manifest) /\ PreviousBefore(manifest')
    <3>1. PreviousBefore(manifest)
      BY ManifestsBefore DEF AgentInv, AgentDisk
    <3>2. PreviousBefore(manifest')
      BY <1>5, <3>1 DEF PreviousBefore, Agent!Written
    <3> QED
      BY <3>1, <3>2
  <2>6. Agent!OneChain'
    <3>1. \A k \in Agent!Written \cup {0} : Agent!manifest_chain(k)' = Agent!manifest_chain(k)
      BY <1>5, <2>5, ChainsKept DEF Agent!AgentMigrationAssumption
    <3>2. Agent!manifest_chain(Agent!latest_active_manifest)' = ch
      <4>1. \A k : k = m => Agent!manifest_chain(k)' = ch
        BY <1>2, <3>1
      <4> HIDE DEF m, ch
      <4> QED
        BY <2>4, <4>1 DEF Agent!manifest_chain
    <3> HIDE DEF m, ch, n
    <3> QED
      BY <1>6, <1>8, <3>2 DEF Agent!OneChain
  <2>7. AgentDisk'
    BY <1>9, <1>10, <1>11, <2>6 DEF AgentDisk
  <2>8. /\ "mark" \in AgentTasks \ {"load", "restore"} /\ "mark" \notin {Agent!Fragment, "shard"}
        /\ i - 1 \in DOMAIN Agent!Chain(c) /\ Agent!Turn(c, "mark", i - 1)
    <3>1. i - 1 \in DOMAIN ch
      BY <1>2, <1>12
    <3> QED
      BY <1>1, <1>12, <3>1 DEF AgentTasks, Agent!Fragment
  <2>9. ~bound' /\ \A j \in DOMAIN Agent!Chain(c) :
                      j > i - 1 => manifest'[Agent!Chain(c)[j]].unlinked
    <3>1. ASSUME NEW j \in DOMAIN ch, j > i - 1 PROVE manifest'[ch[j]].unlinked
      <4>1. CASE j = i
        BY <1>4, <1>5, <4>1
      <4>2. CASE j # i
        <5>1. j > i
          BY <1>2, <3>1, <4>2
        <5>2. manifest[ch[j]].unlinked /\ ch[j] \in Agent!Written
          BY <1>2, <1>3, <5>1
        <5> QED
          BY <1>4, <1>5, <5>2
      <4> QED
        BY <4>1, <4>2
    <3> QED
      BY <1>1, <1>3, <3>1
  <2>10. /\ auth' \in Agent!Credentials /\ shard' \in Agent!Credentials
         /\ file' \in [Agent!Files -> Agent!Contents] /\ bound' \in BOOLEAN
         /\ shard' = Agent!Nowhere /\ \A f \in Agent!Files : file'[f].links = {}
    BY <1>1, <1>3 DEF AgentInv, AgentTyped
  <2>11. \A k : k = cmd[c].plan.previous => Latest(k)'
    BY <2>3
  <2> HIDE DEF m, n, i, ch
  <2> QED
    BY <1>1, <1>5, <1>10, <2>7, <2>8, <2>9, <2>10, <2>11, UndoGoesOn
<1>13. CASE ~(i > 1)
  <2>1. i = 1
    BY <1>2, <1>13
  <2>2. Agent!Active' = {}
    <3>1. ASSUME NEW k \in Agent!Active' PROVE FALSE
      <4>1. k \in Agent!Active /\ k # n
        BY <1>6, <3>1
      <4>2. PICK j \in DOMAIN ch : ch[j] = k
        BY <1>8, <4>1
      <4>3. j # 1 /\ j > i
        BY <1>2, <2>1, <4>1, <4>2
      <4>4. manifest[k].unlinked
        BY <1>3, <4>2, <4>3
      <4> QED
        BY <4>1, <4>4 DEF Agent!Active
    <3> QED
      BY <3>1
  <2>3. AgentDisk'
    BY <1>9, <1>10, <1>11, <2>2 DEF AgentDisk, Agent!OneChain
  <2>4. /\ AgentMoves(c, cmd'[c]) /\ cmd'[c].pc = "idle" /\ agentLock' = Nobody
    BY <1>1, <1>2, <1>13, AgentStops DEF AgentInv, AgentTyped, AgentMoves
  <2>5. CommandOk(c)' /\ ~Planned(c)'
    BY <2>4, AgentIdleOk DEF Planned
  <2>6. /\ auth' \in Agent!Credentials /\ shard' \in Agent!Credentials
        /\ file' \in [Agent!Files -> Agent!Contents] /\ bound' \in BOOLEAN
    BY <1>1 DEF AgentInv, AgentTyped
  <2>7. \A k \in Agent!Written : manifest'[k] \in Agent!ManifestType /\ manifest'[k].previous < k
    BY <1>5 DEF AgentInv, AgentTyped
  <2> HIDE DEF m, n, i, ch
  <2> QED
    BY <1>1, <1>2, <1>5, <2>3, <2>4, <2>5, <2>6, <2>7, HolderStep
<1> QED
  BY <1>12, <1>13

-----------------------------------------------------------------------------
(* The user and the gateway. *)

\* A step beside the commands: it takes no credential away, and what it does to the
\* config, or to a token that the agent has too, is noted if it can matter.
LEMMA OutsideStep ==
    ASSUME Agent!AgentMigrationAssumption, AgentInv,
           UNCHANGED <<bound, manifest, agentLock, cmd, clock>>,
           auth' \in Agent!Credentials, shard' \in Agent!Credentials, live' \in Agent!Credentials,
           file' \in [Agent!Files -> Agent!Contents],
           edits' \in 1..(MaxEdits + 1), tokens' \in 1..MaxTokens,
           lateEdit' \in BOOLEAN, sharedRefresh' \in BOOLEAN,
           Agent!Held(auth) \subseteq Agent!Held(auth'), Agent!Held(live) \subseteq Agent!Held(live'),
           Taken' \subseteq Taken, Credentialed',
           shard = Agent!Nowhere => shard' = Agent!Nowhere,
           Agent!Held(shard) \subseteq Agent!Held(shard'),
           ~sharedRefresh' =>
               ~sharedRefresh /\ \A p \in Providers : shard'[p] = shard[p] \/ (auth[p] = 0 /\ ~Agent!Unlinking),
           \A f \in Agent!Files : file'[f].links = file[f].links,
           file[Agent!Config].text <= file'[Agent!Config].text, edits <= edits',
           file'[Agent!Config].text <= edits', Agent!EditsKept',
           ~lateEdit' => ~lateEdit /\ (edits' = edits \/ ~Agent!Unlinking)
    PROVE  AgentInv'
<1>1. /\ Agent!Written' = Agent!Written /\ Agent!Active' = Agent!Active
      /\ \A m : Latest(m)' <=> Latest(m)
      /\ \A m : Agent!manifest_chain(m)' = Agent!manifest_chain(m)
      /\ Agent!latest_active_manifest' = Agent!latest_active_manifest
  BY DEF Agent!Written, Agent!Active, Latest, Agent!manifest_chain, Agent!chainTo,
     Agent!latest_active_manifest
<1>2. AgentTyped'
  BY <1>1 DEF AgentInv, AgentTyped
<1>3. Agent!Held(live)' = Agent!Held(live') /\ Agent!Held(auth)' = Agent!Held(auth')
      /\ Agent!Held(shard)' = Agent!Held(shard')
  BY DEF Agent!Held
<1>4. edits \in Int /\ edits' \in Int /\ Agent!Config \in Agent!Files /\ Agent!Fragment \in Agent!Files
  BY DEF AgentInv, AgentTyped, Agent!Files, Agent!AgentMigrationAssumption
<1>5. AgentDisk'
  <2>1. Manifests'
    <3>1. ASSUME NEW m \in Agent!Written PROVE ManifestOk(m)'
      <4>1. ManifestOk(m)
        BY <3>1 DEF AgentInv, AgentDisk, Manifests
      <4>2. manifest[m].backup[Agent!Config].text \in Int
        <5>1. manifest[m] \in Agent!ManifestType
          BY <3>1 DEF AgentInv, AgentTyped
        <5>2. manifest[m].backup \in [Agent!Files -> Agent!Contents]
          BY <5>1 DEF Agent!ManifestType
        <5> QED
          BY <1>4, <5>2 DEF Agent!Contents
      <4>3. manifest[m].backup[Agent!Config].text <= edits'
        BY <1>4, <4>1, <4>2 DEF ManifestOk
      <4>4. Agent!Held(manifest[m].shardBackup)' \subseteq Agent!Held(live)'
        <5>1. Agent!Held(manifest[m].shardBackup) \subseteq Agent!Held(live')
          BY <4>1 DEF ManifestOk
        <5> QED
          BY <1>3, <5>1 DEF Agent!Held
      <4> QED
        BY <1>1, <4>1, <4>3, <4>4 DEF ManifestOk
    <3> QED
      BY <1>1, <3>1 DEF Manifests
  <2>2. Agent!OneChain'
    BY <1>1 DEF AgentInv, AgentDisk, Agent!OneChain
  <2>3. Traceless'
    BY <1>1 DEF AgentInv, AgentDisk, Traceless, Agent!Nowhere
  <2>4. Returnable'
    BY <1>1 DEF AgentInv, AgentDisk, Returnable
  <2> QED
    BY <2>1, <2>2, <2>3, <2>4 DEF AgentDisk
<1>6. ASSUME NEW c \in Commands PROVE CommandOk(c)'
  <2>0. /\ LockOk(c) /\ PlannedOk(c) /\ LinkOk(c) /\ HandoverOk(c) /\ TextOk(c)
        /\ cmd[c].pc = "unlink" => UndoOk(c)
        /\ cmd[c] \in AgentCommand /\ cmd[c].plan \in AgentPlan
    BY DEF AgentInv, CommandOk, AgentTyped, AgentCommand
  <2>1. LockOk(c)'
    BY <2>0 DEF LockOk, Working
  <2>2. PlannedOk(c)'
    <3>1. Planned(c) => PlanOk(c)'
      BY <1>1, <2>0 DEF PlannedOk, PlanOk, Planned
    <3>2. /\ Agent!Held(Agent!Imported(cmd[c].plan))' = Agent!Held(Agent!Imported(cmd[c].plan))
          /\ Agent!Held(cmd[c].plan.auth)' = Agent!Held(cmd[c].plan.auth)
          /\ Agent!Held(cmd[c].plan.shard)' = Agent!Held(cmd[c].plan.shard)
      BY DEF Agent!Held, Agent!Imported, Agent!Merged, Agent!Nowhere
    <3>3. Planned(c)' <=> Planned(c)
      BY DEF Planned
    <3> QED
      BY <1>1, <1>3, <2>0, <3>1, <3>2, <3>3 DEF PlannedOk
  <2>3. LinkOk(c)'
    <3>1. Agent!Held(cmd[c].plan.auth)' = Agent!Held(cmd[c].plan.auth)
      BY DEF Agent!Held
    <3>2. Recorded(c)' <=> Recorded(c)
      BY DEF Recorded
    <3>3. Latest(cmd[c].plan.previous)' <=> Latest(cmd[c].plan.previous)
      BY <1>1 DEF Latest
    <3>4. Latest(cmd[c].plan.ts)' <=> Latest(cmd[c].plan.ts)
      BY <1>1 DEF Latest
    <3> QED
      BY <2>0, <3>1, <3>2, <3>3, <3>4 DEF LinkOk
  <2>4. HandoverOk(c)'
    <3>1. /\ Agent!Held(cmd[c].plan.auth)' = Agent!Held(cmd[c].plan.auth)
          /\ Agent!Held(cmd[c].plan.shard)' = Agent!Held(cmd[c].plan.shard)
      BY DEF Agent!Held
    <3>2. cmd[c].pc \in AgentSaving \cup AgentSaved =>
             Agent!Held(cmd[c].plan.auth)' \subseteq Agent!Held(auth)'
      BY <1>3, <2>0, <3>1 DEF HandoverOk
    <3>3. cmd[c].pc = "backup" => Taken' \subseteq Agent!Held(cmd[c].plan.shard)'
      BY <2>0, <3>1 DEF HandoverOk
    <3>4. ASSUME cmd[c].pc \in AgentSaved, NEW p \in Agent!Held(cmd[c].plan.auth)
          PROVE  shard'[p] # 0 /\ (sharedRefresh' \/ shard'[p] = cmd[c].plan.auth[p])
      <4>1. /\ shard[p] # 0 /\ (sharedRefresh \/ shard[p] = cmd[c].plan.auth[p])
            /\ p \in Agent!Held(auth)
        BY <2>0, <3>4 DEF HandoverOk
      <4>2. p \in Providers /\ auth[p] # 0
        BY <4>1 DEF Agent!Held
      <4>3. p \in Agent!Held(shard')
        BY <4>1, <4>2 DEF Agent!Held
      <4> QED
        BY <4>1, <4>2, <4>3 DEF Agent!Held
    <3> QED
      BY <3>1, <3>2, <3>3, <3>4 DEF HandoverOk
  <2>5. TextOk(c)'
    <3> DEFINE text == cmd[c].plan.file[Agent!Config].text
               kept == manifest[cmd[c].plan.ts].backup[Agent!Config].text
               now0 == file[Agent!Config].text
               now1 == file'[Agent!Config].text
    <3>1. text \in Int /\ now0 \in Int /\ now1 \in Int
      <4>1. cmd[c].plan.file \in [Agent!Files -> Agent!Contents]
        BY <2>0 DEF AgentPlan
      <4>2. file \in [Agent!Files -> Agent!Contents]
        BY DEF AgentInv, AgentTyped
      <4> QED
        BY <1>4, <4>1, <4>2 DEF Agent!Contents
    <3>2. cmd[c].pc \in ({"shard"} \cup AgentSaved \cup {Agent!Config}) => kept \in Int
      <4>1. ASSUME cmd[c].pc \in ({"shard"} \cup AgentSaved \cup {Agent!Config})
            PROVE  kept \in Int
        <5>1. cmd[c].pc \in AgentApplying /\ cmd[c].pc # "backup"
          BY <4>1 DEF AgentApplying, AgentSaving, AgentSaved, AgentStripped, Agent!Fragment,
             Agent!Config
        <5>2. manifest[cmd[c].plan.ts] \in Agent!ManifestType
          BY <5>1, LinkFacts
        <5>3. manifest[cmd[c].plan.ts].backup \in [Agent!Files -> Agent!Contents]
          BY <5>2 DEF Agent!ManifestType
        <5> QED
          BY <1>4, <5>3 DEF Agent!Contents
      <4> QED
        BY <4>1
    <3>3. /\ now0 <= now1
          /\ cmd[c].pc = "backup" => text <= now0
          /\ cmd[c].pc \in ({"shard"} \cup AgentSaved \cup {Agent!Config}) =>
                text <= kept /\ kept <= now0
          /\ cmd[c].pc = "configWritten" => text = kept
      BY <2>0 DEF TextOk
    <3>4. /\ cmd[c].pc = "backup" => text <= now1
          /\ cmd[c].pc \in ({"shard"} \cup AgentSaved \cup {Agent!Config}) =>
                text <= kept /\ kept <= now1
      <4> HIDE DEF text, kept, now0, now1
      <4> QED
        BY <3>1, <3>2, <3>3
    <3> QED
      BY <3>3, <3>4 DEF TextOk
  <2>6. ASSUME cmd[c].pc = "unlink" PROVE UndoOk(c)'
    <3> DEFINE ch == Agent!Chain(c)
    <3>1. UndoOk(c) /\ Agent!Unlinking
      BY <2>0, <2>6 DEF Agent!Unlinking
    <3>2. Agent!Chain(c)' = ch
      BY <1>1 DEF Agent!Chain
    <3>3. Agent!ToRestore(Agent!Chain(c))' = Agent!ToRestore(ch)
      BY <3>2 DEF Agent!ToRestore, Agent!Pending
    <3>4. Agent!Held(cmd[c].accounts)' = Agent!Held(cmd[c].accounts)
      BY DEF Agent!Held
    <3>5. cmd'[c].plan.previous # 0 /\ Latest(cmd[c].plan.previous)' /\ cmd'[c].at \in DOMAIN Agent!Chain(c)'
      <4>1. Latest(cmd[c].plan.previous)' <=> Latest(cmd[c].plan.previous)
        BY <1>1 DEF Latest
      <4> QED
        BY <3>1, <3>2, <4>1 DEF UndoOk
    <3>6. (lateEdit \/ \A i \in DOMAIN Agent!Chain(c) :
                            manifest[Agent!Chain(c)[i]].backup[Agent!Config].text = edits)'
      BY <3>1, <3>2 DEF UndoOk
    <3>7. cmd'[c].do = "restore" =>
             /\ \A p \in Taken' : p \in Agent!ToRestore(Agent!Chain(c))' /\ cmd'[c].accounts[p] # 0
             /\ \A p \in Agent!Held(cmd[c].accounts)' :
                   live'[p] # 0 /\ (sharedRefresh' \/ cmd'[c].accounts[p] = shard'[p])
      <4>1. ASSUME cmd[c].do = "restore", NEW p \in Agent!Held(cmd[c].accounts)
            PROVE  live'[p] # 0 /\ (sharedRefresh' \/ cmd[c].accounts[p] = shard'[p])
        <5>1. p \in Providers /\ live[p] # 0 /\ (sharedRefresh \/ cmd[c].accounts[p] = shard[p])
          BY <3>1, <4>1 DEF UndoOk, Agent!Held
        <5>2. p \in Agent!Held(live')
          BY <5>1 DEF Agent!Held
        <5>3. live'[p] # 0
          BY <5>2 DEF Agent!Held
        <5> QED
          BY <3>1, <5>1, <5>3
      <4>2. cmd[c].do = "restore" =>
               \A p \in Taken : p \in Agent!ToRestore(ch) /\ cmd[c].accounts[p] # 0
        BY <3>1 DEF UndoOk
      <4> QED
        BY <3>3, <3>4, <4>1, <4>2
    <3>8. cmd'[c].do \notin {"load", "restore"} => Taken' = {}
      BY <3>1 DEF UndoOk
    <3>9. /\ cmd'[c].do \in {Agent!Fragment, "shard"} /\ cmd'[c].at = Len(Agent!Chain(c)') =>
                file'[Agent!Config].links = {}
          /\ cmd'[c].do = "shard" /\ cmd'[c].at = Len(Agent!Chain(c)') =>
                file'[Agent!Fragment].links = {}
          /\ cmd'[c].do \in {"unbind", "mark"} =>
                shard' = Agent!Nowhere /\ \A f \in Agent!Files : file'[f].links = {}
      BY <1>4, <3>1, <3>2 DEF UndoOk
    <3>10. cmd'[c].do = "mark" =>
              ~bound' /\ \A i \in DOMAIN Agent!Chain(c)' :
                            i > cmd'[c].at => manifest'[Agent!Chain(c)'[i]].unlinked
      BY <3>1, <3>2 DEF UndoOk
    <3> HIDE DEF ch
    <3> QED
      BY <3>5, <3>6, <3>7, <3>8, <3>9, <3>10 DEF UndoOk, Agent!Nowhere
  <2> QED
    BY <2>1, <2>2, <2>3, <2>4, <2>5, <2>6 DEF CommandOk
<1> QED
  BY <1>2, <1>5, <1>6 DEF AgentInv

LEMMA EditStep ==
    ASSUME Agent!AgentMigrationAssumption, AgentInv, Agent!EditConfig
    PROVE  AgentInv'
<1>1. /\ edits <= MaxEdits /\ edits' = edits + 1
      /\ file' = [file EXCEPT ![Agent!Config] = [file[Agent!Config] EXCEPT !.text = edits + 1]]
      /\ lateEdit' = (lateEdit \/ Agent!Unlinking)
      /\ UNCHANGED <<auth, shard, bound, manifest, agentLock, cmd, clock, tokens, live, sharedRefresh>>
  BY DEF Agent!EditConfig
<1>2. /\ file \in [Agent!Files -> Agent!Contents] /\ edits \in 1..(MaxEdits + 1) /\ MaxEdits \in Nat
      /\ Agent!Config \in Agent!Files /\ lateEdit \in BOOLEAN
  BY DEF AgentInv, AgentTyped, Agent!Files, Agent!AgentMigrationAssumption
<1> DEFINE new == [file[Agent!Config] EXCEPT !.text = edits + 1]
<1>3. /\ new \in Agent!Contents /\ new.text = edits + 1 /\ new.links = file[Agent!Config].links
      /\ file[Agent!Config].text \in Nat
  <2>1. file[Agent!Config] \in Agent!Contents /\ edits + 1 \in 0..(MaxEdits + 1)
    BY <1>1, <1>2
  <2> QED
    BY <2>1 DEF Agent!Contents
<1> HIDE DEF new
<1>4. /\ file' \in [Agent!Files -> Agent!Contents] /\ file'[Agent!Config] = new
      /\ \A f \in Agent!Files : file'[f].links = file[f].links
  <2>1. file' = [file EXCEPT ![Agent!Config] = new]
    BY <1>1 DEF new
  <2>2. \A f \in Agent!Files : f # Agent!Config => file'[f] = file[f]
    BY <1>2, <2>1
  <2> QED
    BY <1>2, <1>3, <2>1, <2>2
<1>5. /\ edits' \in 1..(MaxEdits + 1) /\ edits <= edits' /\ lateEdit' \in BOOLEAN
      /\ file[Agent!Config].text <= edits
  BY <1>1, <1>2 DEF AgentInv, AgentDisk, Agent!Unlinking
<1>6. /\ file[Agent!Config].text <= file'[Agent!Config].text
      /\ file'[Agent!Config].text <= edits' /\ Agent!EditsKept'
  BY <1>1, <1>2, <1>3, <1>4, <1>5 DEF Agent!EditsKept
<1>7. /\ Taken' = Taken /\ Credentialed'
  BY <1>1 DEF AgentInv, AgentDisk, Credentialed, Taken, Agent!Held, Agent!CredentialHeld,
     Agent!LiveCredentialHeld
<1>8. /\ auth' \in Agent!Credentials /\ shard' \in Agent!Credentials /\ live' \in Agent!Credentials
      /\ tokens' \in 1..MaxTokens /\ sharedRefresh' \in BOOLEAN
  BY <1>1 DEF AgentInv, AgentTyped
<1>9. /\ Agent!Held(auth) = Agent!Held(auth') /\ Agent!Held(live) = Agent!Held(live')
      /\ Agent!Held(shard) = Agent!Held(shard')
      /\ shard = Agent!Nowhere => shard' = Agent!Nowhere
      /\ ~sharedRefresh' => ~sharedRefresh /\ \A p \in Providers : shard'[p] = shard[p]
      /\ ~lateEdit' => ~lateEdit /\ ~Agent!Unlinking
  BY <1>1
<1> QED
  BY <1>1, <1>4, <1>5, <1>6, <1>7, <1>8, <1>9, OutsideStep

LEMMA LoginStep ==
    ASSUME Agent!AgentMigrationAssumption, AgentInv, NEW p \in Providers, Agent!Login(p)
    PROVE  AgentInv'
<1>1. /\ tokens < MaxTokens /\ tokens' = tokens + 1
      /\ auth' = [auth EXCEPT ![p] = tokens + 1] /\ live' = [live EXCEPT ![p] = tokens + 1]
      /\ UNCHANGED <<shard, file, bound, manifest, agentLock, cmd, clock, edits, lateEdit, sharedRefresh>>
  BY DEF Agent!Login
<1>2. tokens \in 1..MaxTokens /\ MaxTokens \in Nat /\ tokens + 1 \in 1..MaxTokens
  BY <1>1 DEF AgentInv, AgentTyped, Agent!AgentMigrationAssumption
<1>3. auth \in Agent!Credentials /\ live \in Agent!Credentials /\ shard \in Agent!Credentials
  BY DEF AgentInv, AgentTyped
<1>4. /\ auth' \in Agent!Credentials /\ live' \in Agent!Credentials
      /\ auth'[p] = tokens + 1 /\ live'[p] = tokens + 1 /\ tokens + 1 # 0
      /\ \A q \in Providers \ {p} : auth'[q] = auth[q] /\ live'[q] = live[q]
  BY <1>1, <1>2, <1>3 DEF Agent!Credentials
<1>5. /\ Agent!Held(auth) \subseteq Agent!Held(auth') /\ Agent!Held(live) \subseteq Agent!Held(live')
      /\ Taken' \subseteq Taken
  BY <1>4 DEF Agent!Held, Taken
<1>6. Credentialed'
  <2>1. Credentialed /\ sharedRefresh' = sharedRefresh /\ shard' = shard
    BY <1>1 DEF AgentInv, AgentDisk
  <2>2. (Agent!Held(auth) \cup Agent!Held(shard) \subseteq Agent!Held(live))'
    BY <1>4, <2>1 DEF Credentialed, Agent!Held
  <2>3. Agent!CredentialHeld'
    BY <1>4, <2>1 DEF Credentialed, Agent!CredentialHeld, Agent!Held
  <2>4. Agent!LiveCredentialHeld'
    BY <1>4, <2>1 DEF Credentialed, Agent!LiveCredentialHeld, Agent!Held
  <2>5. (sharedRefresh \/ \A q \in Agent!Held(auth) : live[q] = auth[q])'
    BY <1>4, <2>1 DEF Credentialed, Agent!Held
  <2> QED
    BY <2>2, <2>3, <2>4, <2>5 DEF Credentialed
<1>7. /\ shard' \in Agent!Credentials /\ file' \in [Agent!Files -> Agent!Contents]
      /\ edits' \in 1..(MaxEdits + 1) /\ tokens' \in 1..MaxTokens
      /\ lateEdit' \in BOOLEAN /\ sharedRefresh' \in BOOLEAN
  BY <1>1, <1>2 DEF AgentInv, AgentTyped
<1>8. /\ file[Agent!Config].text <= file'[Agent!Config].text /\ edits <= edits'
      /\ file'[Agent!Config].text <= edits' /\ Agent!EditsKept'
  <2>1. file[Agent!Config].text \in Nat /\ edits \in Nat
    BY DEF AgentInv, AgentTyped, Agent!Files, Agent!Contents
  <2>2. file[Agent!Config].text <= edits /\ Agent!EditsKept
    BY DEF AgentInv, AgentDisk
  <2> QED
    BY <1>1, <2>1, <2>2 DEF Agent!EditsKept
<1>9. /\ Agent!Held(shard) \subseteq Agent!Held(shard')
      /\ shard = Agent!Nowhere => shard' = Agent!Nowhere
      /\ ~sharedRefresh' => ~sharedRefresh /\ \A q \in Providers : shard'[q] = shard[q]
      /\ ~lateEdit' => ~lateEdit /\ edits' = edits
      /\ \A f \in Agent!Files : file'[f].links = file[f].links
  BY <1>1
<1> QED
  BY <1>1, <1>4, <1>5, <1>6, <1>7, <1>8, <1>9, OutsideStep

\* A refreshed token that the agent has no copy of is in the shard alone.
LEMMA RefreshStep ==
    ASSUME Agent!AgentMigrationAssumption, AgentInv, NEW p \in Providers, Agent!Refresh(p)
    PROVE  AgentInv'
<1>1. /\ shard[p] # 0 /\ tokens < MaxTokens /\ tokens' = tokens + 1
      /\ shard' = [shard EXCEPT ![p] = tokens + 1]
      /\ live' = [live EXCEPT ![p] = IF shard[p] = live[p] THEN tokens + 1 ELSE live[p]]
      /\ sharedRefresh' = (sharedRefresh \/ Agent!Unlinking \/ auth[p] # 0)
      /\ UNCHANGED <<auth, file, bound, manifest, agentLock, cmd, clock, edits, lateEdit>>
  BY DEF Agent!Refresh
<1>2. tokens \in 1..MaxTokens /\ MaxTokens \in Nat /\ tokens + 1 \in 1..MaxTokens
  BY <1>1 DEF AgentInv, AgentTyped, Agent!AgentMigrationAssumption
<1>3. auth \in Agent!Credentials /\ live \in Agent!Credentials /\ shard \in Agent!Credentials
      /\ sharedRefresh \in BOOLEAN
  BY DEF AgentInv, AgentTyped
<1>4. /\ shard' \in Agent!Credentials /\ live' \in Agent!Credentials
      /\ shard'[p] = tokens + 1 /\ tokens + 1 # 0
      /\ live'[p] = (IF shard[p] = live[p] THEN tokens + 1 ELSE live[p])
      /\ \A q \in Providers \ {p} : shard'[q] = shard[q] /\ live'[q] = live[q]
  BY <1>1, <1>2, <1>3 DEF Agent!Credentials
<1>5. Credentialed /\ live[p] # 0
  BY <1>1 DEF AgentInv, AgentDisk, Credentialed, Agent!Held
<1>6. /\ Agent!Held(live') = Agent!Held(live) /\ Agent!Held(shard') = Agent!Held(shard)
      /\ Taken' = Taken
  <2>1. Agent!Held(live') = Agent!Held(live) /\ Agent!Held(shard') = Agent!Held(shard)
    BY <1>1, <1>4, <1>5 DEF Agent!Held
  <2> QED
    BY <1>1, <2>1 DEF Agent!Held, Taken
<1>7. ~sharedRefresh' => ~sharedRefresh /\ auth[p] = 0 /\ ~Agent!Unlinking
  BY <1>1
<1>8. Credentialed'
  <2>2. (Agent!Held(auth) \cup Agent!Held(shard) \subseteq Agent!Held(live))'
    BY <1>1, <1>5, <1>6 DEF Credentialed, Agent!Held
  <2>3. Agent!CredentialHeld'
    BY <1>1, <1>4, <1>5, <1>6 DEF Credentialed, Agent!CredentialHeld, Agent!Held
  <2>4. Agent!LiveCredentialHeld'
    <3>1. ASSUME ~sharedRefresh', NEW q \in Agent!Held(live)
          PROVE  live'[q] \in {auth[q], shard'[q]}
      <4>1. live[q] \in {auth[q], shard[q]} /\ q \in Providers /\ live[q] # 0
        BY <1>5, <1>7, <3>1 DEF Credentialed, Agent!LiveCredentialHeld, Agent!Held
      <4> QED
        BY <1>4, <1>7, <3>1, <4>1
    <3>2. Agent!Held(live)' = Agent!Held(live)
      BY <1>6 DEF Agent!Held
    <3> QED
      BY <1>1, <3>1, <3>2 DEF Agent!LiveCredentialHeld
  <2>5. (sharedRefresh \/ \A q \in Agent!Held(auth) : live[q] = auth[q])'
    BY <1>1, <1>4, <1>5, <1>7 DEF Credentialed, Agent!Held
  <2> QED
    BY <2>2, <2>3, <2>4, <2>5 DEF Credentialed
<1>9. /\ auth' \in Agent!Credentials /\ file' \in [Agent!Files -> Agent!Contents]
      /\ edits' \in 1..(MaxEdits + 1) /\ tokens' \in 1..MaxTokens
      /\ lateEdit' \in BOOLEAN /\ sharedRefresh' \in BOOLEAN
  BY <1>1, <1>2 DEF AgentInv, AgentTyped, Agent!Unlinking
<1>10. /\ file[Agent!Config].text <= file'[Agent!Config].text /\ edits <= edits'
       /\ file'[Agent!Config].text <= edits' /\ Agent!EditsKept'
  <2>1. file[Agent!Config].text \in Nat /\ edits \in Nat
    BY DEF AgentInv, AgentTyped, Agent!Files, Agent!Contents
  <2>2. file[Agent!Config].text <= edits /\ Agent!EditsKept
    BY DEF AgentInv, AgentDisk
  <2> QED
    BY <1>1, <2>1, <2>2 DEF Agent!EditsKept
<1>11. /\ shard # Agent!Nowhere
       /\ ~sharedRefresh' => ~sharedRefresh /\ \A q \in Providers :
                                shard'[q] = shard[q] \/ (auth[q] = 0 /\ ~Agent!Unlinking)
       /\ ~lateEdit' => ~lateEdit /\ edits' = edits
       /\ \A f \in Agent!Files : file'[f].links = file[f].links
  BY <1>1, <1>4, <1>7 DEF Agent!Nowhere
<1> QED
  BY <1>1, <1>4, <1>6, <1>8, <1>9, <1>10, <1>11, OutsideStep

-----------------------------------------------------------------------------
(* Every step. *)

LEMMA AgentStarts ==
    ASSUME Agent!AgentMigrationAssumption, Agent!Init
    PROVE  AgentInv
<1>1. /\ auth \in [Providers -> {0, 1}] /\ shard = Agent!Nowhere /\ bound = FALSE
      /\ file = [f \in Agent!Files |-> IF f = Agent!Config THEN [Agent!Missing EXCEPT !.text = 1]
                                       ELSE Agent!Missing]
      /\ manifest = <<>> /\ agentLock = Nobody /\ cmd = [c \in Commands |-> Agent!Idle]
      /\ clock = 0 /\ edits = 1 /\ tokens = 1 /\ live = auth
      /\ lateEdit = FALSE /\ sharedRefresh = FALSE
  BY DEF Agent!Init
<1>2. MaxPlans \in Nat \ {0} /\ MaxEdits \in Nat /\ MaxTokens \in Nat \ {0}
  BY DEF Agent!AgentMigrationAssumption
<1>3. Agent!Written = {} /\ Agent!Active = {}
  <2>1. DOMAIN manifest = {}
    BY <1>1
  <2> QED
    BY <2>1 DEF Agent!Written, Agent!Active
<1>4. /\ file \in [Agent!Files -> Agent!Contents] /\ file[Agent!Config].text = 1
      /\ \A f \in Agent!Files : file[f].links = {}
  BY <1>1, <1>2 DEF Agent!Missing, Agent!Contents, Agent!Files
<1>5. AgentTyped
  <2>1. auth \in Agent!Credentials /\ shard \in Agent!Credentials /\ live \in Agent!Credentials
    BY <1>1, <1>2 DEF Agent!Nowhere, Agent!Credentials
  <2>2. cmd \in [Commands -> AgentCommand]
    BY <1>1, AgentIdle
  <2>3. agentLock \in Commands \cup {Nobody} /\ bound \in BOOLEAN
        /\ lateEdit \in BOOLEAN /\ sharedRefresh \in BOOLEAN
    BY <1>1
  <2>4. clock \in 0..MaxPlans /\ edits \in 1..(MaxEdits + 1) /\ tokens \in 1..MaxTokens
    BY <1>1, <1>2
  <2> QED
    BY <1>3, <1>4, <2>1, <2>2, <2>3, <2>4 DEF AgentTyped
<1>6. AgentDisk
  <2>1. Manifests /\ Agent!OneChain
    BY <1>3 DEF Manifests, Agent!OneChain
  <2>2. Traceless
    BY <1>1, <1>4 DEF Traceless
  <2>3. Returnable
    BY <1>1 DEF Returnable, Taken
  <2>4. Credentialed
    BY <1>1 DEF Credentialed, Agent!Held, Agent!CredentialHeld, Agent!LiveCredentialHeld,
       Agent!Nowhere
  <2>5. file[Agent!Config].text <= edits /\ Agent!EditsKept
    BY <1>1, <1>4 DEF Agent!EditsKept
  <2> QED
    BY <2>1, <2>2, <2>3, <2>4, <2>5 DEF AgentDisk
<1>7. ASSUME NEW c \in Commands PROVE CommandOk(c)
  <2>1. cmd[c].pc = "idle"
    BY <1>1, AgentIdle
  <2> QED
    BY <2>1 DEF CommandOk, LockOk, Working, PlannedOk, Planned, LinkOk, Recorded, HandoverOk,
       TextOk, AgentApplying, AgentSaving, AgentSaved, AgentStripped, Agent!Fragment, Agent!Config
<1> QED
  BY <1>5, <1>6, <1>7 DEF AgentInv

LEMMA AgentStep ==
    ASSUME Agent!AgentMigrationAssumption, AgentInv, [Agent!Next]_(Agent!vars)
    PROVE  AgentInv'
<1>1. CASE UNCHANGED Agent!vars
  <2>1. UNCHANGED <<Agent!disk, Agent!user, agentLock, cmd, clock>>
    BY <1>1 DEF Agent!vars
  <2>2. AgentTyped'
    BY <2>1, SameDisk DEF AgentInv, AgentTyped, Agent!disk, Agent!user
  <2>3. AgentDisk'
    <3>1. clock' \in Nat /\ clock' >= clock
      BY <2>1 DEF AgentInv, AgentTyped
    <3> QED
      BY <2>1, <3>1, DiskKept DEF AgentInv
  <2>4. ASSUME NEW c \in Commands PROVE CommandOk(c)'
    <3>1. /\ LockOk(c) /\ PlannedOk(c) /\ LinkOk(c) /\ HandoverOk(c) /\ TextOk(c)
          /\ cmd[c].pc = "unlink" => UndoOk(c)
      BY DEF AgentInv, CommandOk
    <3>2. LockOk(c)' /\ LinkOk(c)' /\ HandoverOk(c)' /\ TextOk(c)'
      BY <2>1, <3>1, SameDisk DEF LockOk, Working, LinkOk, HandoverOk, TextOk, Recorded,
         Agent!disk, Agent!user, Agent!Held
    <3>3. PlannedOk(c)'
      BY <2>1, <3>1, SameDisk DEF PlannedOk, PlanOk, Planned, Agent!disk, Agent!user, Agent!Held,
         Agent!Imported, Agent!Merged, Agent!Nowhere
    <3>4. cmd'[c].pc = "unlink" => UndoOk(c)'
      <4>1. Agent!Chain(c)' = Agent!Chain(c)
        BY <2>1, SameDisk DEF Agent!Chain
      <4>2. \A ch : Agent!ToRestore(ch)' = Agent!ToRestore(ch)
        BY <2>1 DEF Agent!ToRestore, Agent!Pending, Agent!disk
      <4> QED
        BY <2>1, <3>1, <4>1, <4>2, SameDisk DEF UndoOk, Agent!disk, Agent!user, Agent!Held
    <3> QED
      BY <3>2, <3>3, <3>4 DEF CommandOk
  <2> QED
    BY <2>2, <2>3, <2>4 DEF AgentInv
<1>2. ASSUME NEW c \in Commands,
             \/ Agent!Plan(c) \/ Agent!Begin(c) \/ Agent!Backup(c) \/ Agent!SaveShard(c)
             \/ Agent!ShardMoved(c) \/ Agent!Bind(c) \/ Agent!Bound(c)
      PROVE  AgentInv'
  BY <1>2, PlanStep, BeginStep, BackupStep, SaveShardStep, ShardMovedStep, BindStep, BoundStep
<1>3. ASSUME NEW c \in Commands, NEW f \in Agent!Files,
             Agent!WriteFile(c, f) \/ Agent!Checkpoint(c, f) \/ Agent!RestoreFile(c, f)
      PROVE  AgentInv'
  BY <1>3, WriteFileStep, CheckpointStep, RestoreFileStep
<1>4. ASSUME NEW c \in Commands, Agent!Strip(c) \/ Agent!Complete(c)
      PROVE  AgentInv'
  BY <1>4, StripStep, CompleteStep
<1>5. ASSUME NEW c \in Commands, NEW m \in Agent!Written, Agent!Resolve(c, m)
      PROVE  AgentInv'
  BY <1>5, ResolveStep
<1>6. ASSUME NEW c \in Commands,
             \/ Agent!StartUnlink(c) \/ Agent!LoadCredentials(c) \/ Agent!RestoreCredentials(c)
             \/ Agent!HandedOff(c) \/ Agent!RestoreShard(c) \/ Agent!Unbind(c) \/ Agent!Unlinked(c)
      PROVE  AgentInv'
  BY <1>6, StartUnlinkStep, LoadStep, RestoreCredentialsStep, HandedOffStep, RestoreShardStep,
     UnbindStep, UnlinkedStep
<1>7. ASSUME NEW c \in Commands, Agent!Crash(c) PROVE AgentInv'
  BY <1>7, StopStep DEF Agent!Crash
<1>8. ASSUME Agent!EditConfig PROVE AgentInv'
  BY <1>8, EditStep
<1>9. ASSUME NEW p \in Providers, Agent!Login(p) \/ Agent!Refresh(p) PROVE AgentInv'
  BY <1>9, LoginStep, RefreshStep
<1>10. CASE Agent!Next
  BY <1>2, <1>3, <1>4, <1>5, <1>6, <1>7, <1>8, <1>9, <1>10 DEF Agent!Next
<1> QED
  BY <1>1, <1>10

LEMMA AgentSafe ==
    ASSUME Agent!AgentMigrationAssumption, AgentInv
    PROVE  /\ Agent!TypeOK
           /\ Agent!CredentialHeld /\ Agent!LiveCredentialHeld /\ Agent!EditsKept
           /\ Agent!NoTraceLeft /\ Agent!OneChain
<1>1. Agent!TypeOK
  BY DEF AgentInv, AgentTyped, CommandOk, LockOk, Working, Agent!TypeOK
<1>2. Agent!NoTraceLeft
  BY DEF AgentInv, AgentDisk, Traceless, Agent!NoTraceLeft
<1> QED
  BY <1>1, <1>2 DEF AgentInv, AgentDisk, Credentialed

(***************************************************************************)
(* However many commands link, sync and unlink an agent, in any order and  *)
(* dying anywhere, beside a user who edits and logs in and a gateway that  *)
(* refreshes: every credential is in the auth file or in the shard, with   *)
(* the one that works, unless a copy of it was refreshed; the user's last  *)
(* edit stands; once no link is active none of it is left; and the active  *)
(* manifests are one chain, which an unlink of the latest undoes.          *)
(***************************************************************************)
THEOREM AgentIsRecoverable == Spec => []AgentRecoverable
<1> DEFINE I == part = "agent" => AgentInv
<1>1. Init => I
  BY FilesAssumption, AgentStarts DEF Init
<1>2. I /\ [Next]_vars => I'
  <2> SUFFICES ASSUME I, [Next]_vars PROVE I'
    OBVIOUS
  <2>1. part' = part /\ (part = "agent" => [Agent!Next]_(Agent!vars))
    BY PartStep
  <2>2. ASSUME part = "agent" PROVE AgentInv'
    BY <2>1, <2>2, FilesAssumption, AgentStep
  <2> QED
    BY <2>1, <2>2
<1>3. I => AgentRecoverable
  BY FilesAssumption, AgentSafe DEF AgentRecoverable
<1> QED
  BY <1>1, <1>2, <1>3, PTL DEF Spec

=============================================================================
