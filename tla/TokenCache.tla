----------------------------- MODULE TokenCache -----------------------------
(***************************************************************************)
(* The short-lived API token of one GitHub Copilot account                 *)
(* (provider-copilot/src/github_copilot.rs): a cache of (token, expiry)    *)
(* read by every request, and an asynchronous refresh lock under which one *)
(* caller at a time exchanges the account's long-lived token for a new one.*)
(*                                                                         *)
(* A caller reads the clock once, before it waits for the lock, and uses   *)
(* that reading again for the check it makes under the lock: the time it   *)
(* compares the token with may be as old as its wait.  The clock counts    *)
(* coarse units; what a task does without awaiting takes less than one, an *)
(* exchange takes at least one and at most Delay.                          *)
(***************************************************************************)
EXTENDS Integers, Sequences, FiniteSets, SequencesExt

CONSTANTS
  Callers,     \* concurrent users of the provider: requests, discovery, refresh
  Nobody,      \* holder of a free refresh_lock
  SKEW,        \* SKEW_SECS: a token this close to its expiry is not used
  Delay,       \* the longest an exchange takes to answer or to fail
  Lifetimes,   \* how long a token the service mints is valid
  Calls,       \* bound: calls one caller makes
  LastCall     \* bound: no call starts after this time

TokenAssumption ==
  /\ Nobody \notin Callers
  /\ SKEW \in Nat /\ Delay \in Nat \ {0} /\ Calls \in Nat
  /\ Lifetimes \subseteq {l \in Nat : l > Delay}
  /\ LastCall \in Nat

VARIABLES
  now,      \* unix time
  cache,    \* ApiToken: [tok, exp]; tok 0 is None, exp NoExp is None
  holder,   \* the caller that holds refresh_lock, or Nobody
  queue,    \* callers waiting for refresh_lock, oldest first
  pc,       \* where each caller is
  t0,       \* the `now` each caller read on entry
  start,    \* when the exchange a caller runs was posted
  out,      \* [tok, at]: what ensure_api_token returned last and when; tok 0 is none
  saved,    \* [tok, exp] pairs written into an account by refresh
  minted,   \* history: minted[t] is the true expiry of token t
  calls     \* calls each caller has begun

vars == <<now, cache, holder, queue, pc, t0, start, out, saved, minted, calls>>


\* The clock stops when the calls that started have had the time to end.
Horizon == LastCall + Cardinality(Callers) * Delay

NoExp == -1
Empty == [tok |-> 0, exp |-> NoExp]

TypeOK ==
  /\ now \in Nat
  /\ cache \in [tok : 0 .. Len(minted), exp : Int]
  /\ holder \in Callers \cup {Nobody}
  /\ queue \in Seq(Callers) /\ IsInjective(queue)
  /\ pc \in [Callers -> {"idle", "waiting", "checking", "exchanging", "snapshot"}]
  /\ t0 \in [Callers -> 0 .. now] /\ start \in [Callers -> 0 .. now]
  /\ out \in [Callers -> [tok : 0 .. Len(minted), at : 0 .. now]]
  /\ saved \subseteq [tok : 1 .. Len(minted), exp : Int]
  /\ minted \in Seq(Int)
  /\ calls \in [Callers -> 0 .. Calls]
  /\ \A c \in Callers : (c = holder) <=> pc[c] \in {"checking", "exchanging"}
  /\ \A c \in Callers : (c \in ToSet(queue)) <=> pc[c] = "waiting"

\* The account's stored token seeds the cache; either field may be missing.
Init ==
  /\ now = 0
  /\ \E e \in 0 .. LastCall + SKEW :
       /\ minted = <<e>>
       /\ cache \in {Empty, [tok |-> 1, exp |-> e], [tok |-> 1, exp |-> NoExp]}
  /\ holder = Nobody /\ queue = <<>>
  /\ pc = [c \in Callers |-> "idle"]
  /\ t0 = [c \in Callers |-> 0] /\ start = [c \in Callers |-> 0]
  /\ out = [c \in Callers |-> [tok |-> 0, at |-> 0]]
  /\ saved = {} /\ calls = [c \in Callers |-> 0]

-----------------------------------------------------------------------------
\* Both checks of ensure_api_token: a cached token that outlives t by the skew.
Fresh(t) == cache.tok # 0 /\ cache.exp # NoExp /\ cache.exp - SKEW > t

\* ensure_api_token returns tok to c: to a request (kind "use"), or to refresh,
\* which goes on to take a snapshot.  The local `now` is gone.
Return(c, tok, kind) ==
  /\ t0' = [t0 EXCEPT ![c] = 0] /\ start' = [start EXCEPT ![c] = 0]
  /\ out' = [out EXCEPT ![c] = [tok |-> tok, at |-> IF tok = 0 THEN 0 ELSE now]]
  /\ pc' = [pc EXCEPT ![c] = IF kind = "refresh" /\ tok # 0 THEN "snapshot" ELSE "idle"]

\* The guard of refresh_lock is dropped; tokio's mutex hands it to the oldest waiter.
Unlock == holder' = Nobody

\* A caller enters ensure_api_token: reads the clock, tries the cache, and
\* otherwise waits for the lock.
Call(c, kind) ==
  /\ pc[c] = "idle" /\ calls[c] < Calls /\ now <= LastCall
  /\ calls' = [calls EXCEPT ![c] = @ + 1]
  /\ \/ Fresh(now) /\ Return(c, cache.tok, kind) /\ UNCHANGED queue
     \/ /\ ~Fresh(now) /\ queue' = Append(queue, c)
        /\ t0' = [t0 EXCEPT ![c] = now]
        /\ pc' = [pc EXCEPT ![c] = "waiting"] /\ UNCHANGED <<out, start>>
  /\ UNCHANGED <<now, cache, holder, saved, minted>>

\* refresh_lock.lock().await returns.
Acquire(c) ==
  /\ holder = Nobody /\ queue # <<>> /\ c = Head(queue)
  /\ holder' = c /\ queue' = Tail(queue)
  /\ pc' = [pc EXCEPT ![c] = "checking"]
  /\ UNCHANGED <<now, cache, t0, start, out, saved, minted, calls>>

\* Mutant of Recheck: the cache is not looked at again under the lock.
RecheckDropped(c, kind) ==
  /\ pc[c] = "checking"
  /\ pc' = [pc EXCEPT ![c] = "exchanging"] /\ start' = [start EXCEPT ![c] = now]
  /\ UNCHANGED <<now, cache, holder, queue, t0, out, saved, minted, calls>>

\* Mutant of Recheck: any cached token will do the second time.
RecheckAnyToken(c, kind) ==
  /\ pc[c] = "checking"
  /\ \/ /\ cache.tok # 0 /\ Return(c, cache.tok, kind) /\ Unlock
     \/ /\ cache.tok = 0
        /\ pc' = [pc EXCEPT ![c] = "exchanging"] /\ start' = [start EXCEPT ![c] = now]
        /\ UNCHANGED <<out, holder, t0>>
  /\ UNCHANGED <<now, cache, queue, saved, minted, calls>>

\* The second look, with the time read before the wait, and the exchange posted.
Recheck(c, kind) ==
  /\ pc[c] = "checking"
  /\ \/ /\ Fresh(t0[c]) /\ Return(c, cache.tok, kind) /\ Unlock
     \/ /\ ~Fresh(t0[c])
        /\ pc' = [pc EXCEPT ![c] = "exchanging"] /\ start' = [start EXCEPT ![c] = now]
        /\ UNCHANGED <<out, holder, t0>>
  /\ UNCHANGED <<now, cache, queue, saved, minted, calls>>

\* Mutant of Exchanged: the new token is stored with the old expiry.
ExchangedOldExpiry(c, kind) ==
  /\ pc[c] = "exchanging" /\ now > start[c]
  /\ \E l \in Lifetimes, at \in {start[c], now} : minted' = Append(minted, at + l)
  /\ cache' = [tok |-> Len(minted'), exp |-> cache.exp]
  /\ Return(c, Len(minted'), kind) /\ Unlock
  /\ UNCHANGED <<now, queue, saved, calls>>

\* Mutant of Exchanged: the lock's guard is kept.
ExchangedKeepsLock(c, kind) ==
  /\ pc[c] = "exchanging" /\ now > start[c]
  /\ \E l \in Lifetimes, at \in {start[c], now} : minted' = Append(minted, at + l)
  /\ cache' = [tok |-> Len(minted'), exp |-> Last(minted')]
  /\ Return(c, Len(minted'), kind)
  /\ UNCHANGED <<now, holder, queue, saved, calls>>

\* The exchange answers: the service minted a token when it was asked or
\* as late as now; token and expiry enter the cache together and the lock is released.
Exchanged(c, kind) ==
  /\ pc[c] = "exchanging" /\ now > start[c]
  /\ \E l \in Lifetimes, at \in {start[c], now} : minted' = Append(minted, at + l)
  /\ cache' = [tok |-> Len(minted'), exp |-> Last(minted')]
  /\ Return(c, Len(minted'), kind) /\ Unlock
  /\ UNCHANGED <<now, queue, saved, calls>>

\* The exchange fails: the error is returned and the cache is left alone.
ExchangeFails(c) ==
  /\ pc[c] = "exchanging" /\ now > start[c]
  /\ Return(c, 0, "use") /\ Unlock
  /\ UNCHANGED <<now, cache, queue, saved, minted, calls>>

\* The caller's future is dropped at an await: a waiter leaves the queue, the
\* holder's guard is dropped, an answer under way is lost.
Cancel(c) ==
  /\ \/ /\ pc[c] = "waiting" /\ UNCHANGED holder
        /\ \E i \in DOMAIN queue : queue[i] = c /\ queue' = RemoveAt(queue, i)
     \/ pc[c] = "exchanging" /\ Unlock /\ UNCHANGED queue
  /\ Return(c, 0, "use")
  /\ UNCHANGED <<now, cache, saved, minted, calls>>

\* refresh: the expiry is read in a second snapshot of the cache.
Snapshot(c) ==
  /\ pc[c] = "snapshot"
  /\ saved' = saved \cup {[tok |-> out[c].tok, exp |-> cache.exp]}
  /\ pc' = [pc EXCEPT ![c] = "idle"]
  /\ UNCHANGED <<now, cache, holder, queue, t0, start, out, minted, calls>>

\* invalidate_api_token, which on_unauthorized runs: no lock is taken.
Invalidate ==
  /\ cache # Empty /\ cache' = Empty
  /\ UNCHANGED <<now, holder, queue, pc, t0, start, out, saved, minted, calls>>

\* Time passes only when every task that can run without awaiting has run.
Tick ==
  /\ now < Horizon
  /\ now < LastCall \/ \E c \in Callers : pc[c] # "idle"
  /\ \A c \in Callers : pc[c] \notin {"checking", "snapshot"}
  /\ holder # Nobody \/ queue = <<>>
  /\ \A c \in Callers : pc[c] = "exchanging" => now < start[c] + Delay
  /\ now' = now + 1
  /\ UNCHANGED <<cache, holder, queue, pc, t0, start, out, saved, minted, calls>>

Finish(c) ==
  \/ Acquire(c)
  \/ \E kind \in {"use", "refresh"} : Recheck(c, kind) \/ Exchanged(c, kind)
  \/ ExchangeFails(c)
  \/ Snapshot(c)

Next ==
  \/ \E c \in Callers, kind \in {"use", "refresh"} : Call(c, kind)
  \/ \E c \in Callers : Finish(c) \/ Cancel(c)
  \/ Invalidate
  \/ Tick

Spec == Init /\ [][Next]_vars

\* The runtime polls every task that can run, an exchange ends, time passes.
FairSpec == Spec /\ WF_vars(Tick) /\ \A c \in Callers : WF_vars(Finish(c))

-----------------------------------------------------------------------------
(***************************************************************************)
(* However many callers found the token stale together, an exchange runs   *)
(* only while the cache holds no token that is fresh by the real clock:    *)
(* the second check of ensure_api_token, made with an old reading of the   *)
(* clock under the lock, shares one exchange among all of them.            *)
(***************************************************************************)
ExchangeNeeded == \A c \in Callers : pc[c] = "exchanging" => ~Fresh(now)

(***************************************************************************)
(* No caller of ensure_api_token is handed a token that has expired by     *)
(* then, although the check under the lock compares with a time as old as  *)
(* a whole series of failed exchanges.                                     *)
(***************************************************************************)
HandedOutUnexpired ==
  \A c \in Callers : out[c].tok # 0 => minted[out[c].tok] > out[c].at

(***************************************************************************)
(* refresh reads the token and its expiry in two steps, with the lock free *)
(* in between: the pair it writes into the account is still that of one    *)
(* token, or has no expiry because the cache was invalidated.              *)
(***************************************************************************)
SavedPairMatches == \A p \in saved : p.exp \in {NoExp, minted[p.tok]}

(***************************************************************************)
(* Every call of ensure_api_token ends, in whatever order the callers      *)
(* before it in the lock's queue succeed, fail or are cancelled.           *)
(***************************************************************************)
CallsEnd == \A c \in Callers : pc[c] # "idle" ~> pc[c] = "idle"
=============================================================================
