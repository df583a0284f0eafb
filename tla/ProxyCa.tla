------------------------------ MODULE ProxyCa ------------------------------
(***************************************************************************)
(* router/src/proxy/ca.rs, the files of the proxy's certificate authority: *)
(* every process that needs it (the serving proxy, proxy env, proxy ca)    *)
(* loads the certificate and the key from the CA directory, or makes them  *)
(* when one is missing.  Each file access is a step, and std::fs::write is *)
(* two: the file is truncated, then it has its bytes.                      *)
(*                                                                         *)
(* A file is the process that made it.  The clients of the proxy trust the *)
(* certificate file.                                                       *)
(***************************************************************************)
EXTENDS Naturals, FiniteSets

CONSTANTS
  Loaders,     \* processes that call load_or_generate_ca(dir, false)
  Regenerate,  \* processes that call load_or_generate_ca(dir, true)
  Overlap,     \* whether a process may start while another is in the call
  NoFile, Torn,
  MaxDeaths    \* bound

Procs == Loaders \cup Regenerate
CaAssumption ==
  /\ Overlap \in BOOLEAN /\ MaxDeaths \in Nat
  /\ NoFile # Torn /\ {NoFile, Torn} \cap Procs = {}

VARIABLES
  crt, key,    \* ca.crt and ca.key
  pc,
  ca,          \* the pair each process has in memory
  bundle,      \* the certificate in ca-bundle.crt
  deaths

vars == <<crt, key, pc, ca, bundle, deaths>>

Contents == {NoFile, Torn} \cup Procs
Inside == {"look", "lookkey", "readcrt", "readkey", "truncate", "write",
           "truncatekey", "writekey", "bundle", "writebundle"}

TypeOK ==
  /\ crt \in Contents /\ key \in Contents /\ bundle \in Contents
  /\ pc \in [Procs -> Inside \cup {"new", "loaded", "failed", "dead"}]
  /\ ca \in [Procs -> [crt : Contents, key : {NoFile} \cup Procs]]
  /\ deaths \in 0..MaxDeaths

Init ==
  /\ crt = NoFile /\ key = NoFile /\ bundle = NoFile
  /\ pc = [p \in Procs |-> "new"]
  /\ ca = [p \in Procs |-> [crt |-> NoFile, key |-> NoFile]]
  /\ deaths = 0

-----------------------------------------------------------------------------
Goto(p, l) == pc' = [pc EXCEPT ![p] = l]

\* Mutant of Start: regenerating makes a new key only.
StartKeyOnly(p) ==
  /\ pc[p] = "new" /\ Goto(p, IF p \in Regenerate THEN "truncatekey" ELSE "look")
  /\ Overlap \/ \A q \in Procs : pc[q] \notin Inside
  /\ UNCHANGED <<crt, key, ca, bundle, deaths>>

\* load_or_generate_ca is called.
Start(p) ==
  /\ pc[p] = "new" /\ Goto(p, IF p \in Regenerate THEN "truncate" ELSE "look")
  /\ Overlap \/ \A q \in Procs : pc[q] \notin Inside
  /\ UNCHANGED <<crt, key, ca, bundle, deaths>>

\* cert_path.exists()
Look(p) ==
  /\ pc[p] = "look" /\ Goto(p, IF crt = NoFile THEN "truncate" ELSE "lookkey")
  /\ UNCHANGED <<crt, key, ca, bundle, deaths>>

\* Mutant of LookKey: a missing key is made for the certificate that is there.
LookKeyOnly(p) ==
  /\ pc[p] = "lookkey" /\ Goto(p, IF key = NoFile THEN "truncatekey" ELSE "readcrt")
  /\ UNCHANGED <<crt, key, ca, bundle, deaths>>

\* Mutant of LookKey: a certificate alone is enough to load the pair.
LookKeyNever(p) ==
  /\ pc[p] = "lookkey" /\ Goto(p, "readcrt")
  /\ UNCHANGED <<crt, key, ca, bundle, deaths>>

\* key_path.exists()
LookKey(p) ==
  /\ pc[p] = "lookkey" /\ Goto(p, IF key = NoFile THEN "truncate" ELSE "readcrt")
  /\ UNCHANGED <<crt, key, ca, bundle, deaths>>

\* The certificate is read as text and not parsed.
ReadCrt(p) ==
  /\ pc[p] = "readcrt" /\ Goto(p, "readkey")
  /\ ca' = [ca EXCEPT ![p].crt = crt]
  /\ UNCHANGED <<crt, key, bundle, deaths>>

\* The key is parsed: an unfinished one is an error.
ReadKey(p) ==
  /\ pc[p] = "readkey"
  /\ IF key \in Procs THEN Goto(p, "bundle") /\ ca' = [ca EXCEPT ![p].key = key]
                      ELSE Goto(p, "failed") /\ UNCHANGED ca
  /\ UNCHANGED <<crt, key, bundle, deaths>>

\* generate_ca: write_ca_file of the certificate, then of the key.
WriteCrt(p) ==
  /\ \/ pc[p] = "truncate" /\ crt' = Torn /\ Goto(p, "write")
     \/ pc[p] = "write" /\ crt' = p /\ Goto(p, "truncatekey")
  /\ UNCHANGED <<key, ca, bundle, deaths>>

WriteKey(p) ==
  /\ \/ pc[p] = "truncatekey" /\ key' = Torn /\ Goto(p, "writekey") /\ UNCHANGED ca
     \/ /\ pc[p] = "writekey" /\ key' = p /\ Goto(p, "bundle")
        /\ ca' = [ca EXCEPT ![p] = [crt |-> p, key |-> p]]
  /\ UNCHANGED <<crt, bundle, deaths>>

\* ensure_bundle: the certificate in memory, after the system's.
EnsureBundle(p) ==
  /\ \/ pc[p] = "bundle" /\ bundle' = Torn /\ Goto(p, "writebundle")
     \/ pc[p] = "writebundle" /\ bundle' = ca[p].crt /\ Goto(p, "loaded")
  /\ UNCHANGED <<crt, key, ca, deaths>>

\* proxy ca path, and the serving proxy, do not write the bundle.
NoBundle(p) ==
  /\ pc[p] = "bundle" /\ Goto(p, "loaded")
  /\ UNCHANGED <<crt, key, ca, bundle, deaths>>

Die(p) ==
  /\ deaths < MaxDeaths /\ deaths' = deaths + 1
  /\ pc[p] \in Inside /\ Goto(p, "dead")
  /\ UNCHANGED <<crt, key, ca, bundle>>

Ended == (\A p \in Procs : pc[p] \in {"loaded", "failed", "dead"}) /\ UNCHANGED vars

Next ==
  \/ \E p \in Procs :
       \/ Start(p) \/ Look(p) \/ LookKey(p) \/ ReadCrt(p) \/ ReadKey(p)
       \/ WriteCrt(p) \/ WriteKey(p) \/ EnsureBundle(p) \/ NoBundle(p) \/ Die(p)
  \/ Ended

Spec == Init /\ [][Next]_vars

-----------------------------------------------------------------------------
(***************************************************************************)
(* While nobody regenerates it there is one authority: what one process    *)
(* signs with its key verifies under the certificate every other process   *)
(* has in memory, and under the certificate file and any finished bundle   *)
(* that the clients were pointed at, wherever earlier processes died.      *)
(***************************************************************************)
OneAuthority ==
  \A p, q \in Loaders : pc[p] = "loaded" /\ pc[q] = "loaded" =>
    ca[p].key = ca[q].crt /\ ca[p].key = crt /\ bundle \in {NoFile, Torn, crt}

(***************************************************************************)
(* The pair a process has loaded belongs together, before and after the    *)
(* authority was regenerated.                                              *)
(***************************************************************************)
PairMatches == \A p \in Procs : pc[p] = "loaded" => ca[p].crt = ca[p].key

(***************************************************************************)
(* A death on the first start is repaired by the next one: unless it came  *)
(* in the middle of writing the key file, whoever comes next has the CA.   *)
(***************************************************************************)
DeathRepaired == (\E p \in Loaders : pc[p] = "failed") => key = Torn
=============================================================================
