------------------------------ MODULE Progress ------------------------------
(***************************************************************************)
(* The console's progress display (gateway-cli/src/progress.rs).           *)
(*                                                                         *)
(* An attempt of a request has a bar from its Started event on.  A         *)
(* successful Completed does not print the attempt's line yet: its usage   *)
(* may still be on the way, so the bar moves to a pending object shared    *)
(* with a thread that sleeps for the grace period and then prints the      *)
(* line.  Usage that arrives in time prints it at once; the end of the     *)
(* session prints what is left.  Three parties can therefore print one     *)
(* line, and only the object's lock and its flag decide who does.          *)
(*                                                                         *)
(* The event bus may overwrite events before the handler sees them, so any *)
(* event may be missing.  What a line shows is abstracted to the set of    *)
(* facts that were merged into the request's state.                        *)
(***************************************************************************)
EXTENDS Integers, Sequences, FiniteSets

CONSTANTS
    Requests,     \* the request ids
    MaxAttempt,   \* the last attempt of a request (bound)
    MaxLost,      \* how many events the bus may lose (bound)
    Tracked,      \* the facts whose fate is followed, of Facts
    None          \* no attempt

ProgressAssumption == MaxAttempt \in Nat /\ MaxLost \in Nat

\* The composite ids: "r" for attempt 0, "r:n" for attempt n.
Ids == Requests \X (0..MaxAttempt)

Facts == {"meta", "status", "error", "usage", "bytes"}

VARIABLES
    ph,         \* what the pipeline has emitted about each attempt
    lost,       \* how many events were overwritten
    bars,       \* the attempts with a bar
    facts,      \* what the state of each attempt has merged
    pending,    \* the attempts in the handler's map of pending completions
    done,       \* the pending objects whose line is printed
    timers,     \* the attempts whose grace thread sleeps
    counters,   \* in_flight, completed, errors
    finishing,  \* the attempt whose usage was merged and whose line is next
    flushing,   \* "no", the set of waiting objects is being printed, "over"
    waiting,    \* the pending objects flush took out of the map
    printed,    \* the lines printed for each attempt
    summary,    \* the numbers of the closing line
    orphans,    \* how many Completed events found no bar
    due         \* <<attempt, fact>>: the fact came while the line was owed

vars == <<ph, lost, bars, facts, pending, done, timers, counters, finishing,
          flushing, waiting, printed, summary, orphans, due>>

env     == <<ph, lost>>
objects == <<pending, done, timers>>
ghosts  == <<orphans, due>>
session == <<finishing, flushing, waiting, summary>>

Phases == {"new", "running", "succeeded", "failed"}
Line   == [kind : {"completed", "failed", "interrupted"}, facts : SUBSET Facts]

Init ==
    /\ ph = [i \in Ids |-> "new"]
    /\ lost = 0
    /\ bars = {}
    /\ facts = [i \in Ids |-> {}]
    /\ pending = {} /\ done = {} /\ timers = {}
    /\ counters = [in_flight |-> 0, completed |-> 0, errors |-> 0]
    /\ finishing = None
    /\ flushing = "no"
    /\ waiting = {}
    /\ printed = [i \in Ids |-> <<>>]
    /\ summary = None
    /\ orphans = 0 /\ due = {}

-----------------------------------------------------------------------------
(* Events.  The handler takes one event at a time. *)

\* The handler's thread is between two events, and flush has not been called.
Free == finishing = None /\ flushing = "no"

\* prune_finished_pending, which runs before every event is handled.
Pruned(p) == p \ done

\* The attempts that are on display: behind a bar, or waiting for usage.
Shown == bars \cup Pruned(pending)

\* The fact is merged into the state of attempt i.
Merged(i, fact) == [facts EXCEPT ![i] = @ \cup ({fact} \cap Tracked)]

Owed(i, fact) == due \cup ({<<i, fact>>} \cap (Shown \X Tracked))

\* The attempt starts: the first of its request, or the one after a failure.
MayStart(i) ==
    /\ ph[i] = "new"
    /\ i[2] > 0 => ph[<<i[1], i[2] - 1>>] = "failed"

\* The pipeline emits an event about attempt i that the bus overwrites.
Overwritten(i) ==
    /\ flushing = "no"
    /\ lost < MaxLost
    /\ lost' = lost + 1
    /\ \/ MayStart(i) /\ ph' = [ph EXCEPT ![i] = "running"]
       \/ /\ ph[i] = "running"
          /\ \E end \in {"succeeded", "failed"} : ph' = [ph EXCEPT ![i] = end]
    /\ UNCHANGED <<bars, facts, counters, printed, objects, session, ghosts>>

\* StageEvent::Started: a new bar.
Started(i) ==
    /\ Free
    /\ MayStart(i)
    /\ ph' = [ph EXCEPT ![i] = "running"]
    /\ bars' = bars \cup {i}
    /\ facts' = [facts EXCEPT ![i] = {}]
    /\ counters' = [counters EXCEPT !.in_flight = @ + 1]
    /\ pending' = Pruned(pending)
    /\ UNCHANGED <<lost, done, timers, printed, session, ghosts>>

\* Extract, Resolve and UpstreamReq fill in the state behind a bar.
Described(i) ==
    /\ Free
    /\ ph[i] = "running"
    /\ facts' = IF i \in bars THEN Merged(i, "meta") ELSE facts
    /\ pending' = Pruned(pending)
    /\ UNCHANGED <<env, bars, done, timers, counters, printed, session, ghosts>>

\* UpstreamResp and Error reach the bar, or the pending object under its lock.
Noted(i, fact) ==
    /\ Free
    /\ ph[i] # "new"
    /\ facts' = IF i \in Shown THEN Merged(i, fact) ELSE facts
    /\ pending' = Pruned(pending)
    /\ UNCHANGED <<env, bars, done, timers, counters, printed, session, ghosts>>

\* Mutant of MergedUsage: usage for a pending object only prints its line.
MergedBehindBar(i) == IF i \in bars THEN Merged(i, "usage") ELSE facts

MergedUsage(i) == IF i \in Shown THEN Merged(i, "usage") ELSE facts

\* Usage behind a bar is merged.  For a pending object it is merged under the
\* lock, the lock is released, and the line is printed in a second step: the
\* grace thread may take the lock in between.
UsageSeen(i) ==
    /\ Free
    /\ ph[i] # "new"
    /\ facts' = MergedUsage(i)
    /\ due' = Owed(i, "usage")
    /\ finishing' = IF i \in Pruned(pending) THEN i ELSE None
    /\ pending' = Pruned(pending)
    /\ UNCHANGED <<env, bars, done, timers, counters, printed, flushing,
                   waiting, summary, orphans>>

\* StreamProgress carries the request id without the attempt.
StreamProgress(i) ==
    /\ Free
    /\ ph[i] = "running"
    /\ LET key == <<i[1], 0>>
       IN  facts' = IF key \in bars THEN Merged(key, "bytes") ELSE facts
    /\ due' = Owed(i, "bytes")
    /\ pending' = Pruned(pending)
    /\ UNCHANGED <<env, bars, done, timers, counters, printed, session, orphans>>

-----------------------------------------------------------------------------
(* Lines. *)

\* Mutant of FinalizePending: prints without looking at the flag.
FinalizeAgain(i) ==
    /\ printed' = [printed EXCEPT
                     ![i] = Append(@, [kind |-> "completed", facts |-> facts[i]])]
    /\ done' = done \cup {i}

\* finalize_pending: under the object's lock, the first to come prints.
FinalizePending(i) ==
    IF i \in done
    THEN UNCHANGED <<printed, done>>
    ELSE /\ printed' = [printed EXCEPT
                          ![i] = Append(@, [kind |-> "completed", facts |-> facts[i]])]
         /\ done' = done \cup {i}

\* u64::saturating_sub.
Subtracted(n, k) == IF n < k THEN 0 ELSE n - k

\* Mutant of Counted: a failed attempt stays in flight.
CountedHalf(c, ok) ==
    [c EXCEPT !.in_flight = IF ok THEN Subtracted(@, 1) ELSE @,
              !.completed = @ + 1,
              !.errors = IF ok THEN @ ELSE @ + 1]

\* The counters after a Completed event, whether or not it found a bar.
Counted(c, ok) ==
    [c EXCEPT !.in_flight = Subtracted(@, 1),
              !.completed = @ + 1,
              !.errors = IF ok THEN @ ELSE @ + 1]

\* Mutant of GraceThreads: no grace thread is started.
NoTimer(i) == timers

\* queue_pending_completion starts a thread that sleeps for the grace period.
GraceThreads(i) == timers \cup {i}

\* StageEvent::Completed: success leaves the line to the pending object, failure
\* prints it.
Completed(i, ok) ==
    /\ Free
    /\ ph[i] = "running"
    /\ ph' = [ph EXCEPT ![i] = IF ok THEN "succeeded" ELSE "failed"]
    /\ bars' = bars \ {i}
    /\ IF i \in bars /\ ok
       THEN /\ pending' = Pruned(pending) \cup {i}
            /\ timers' = GraceThreads(i)
       ELSE /\ pending' = Pruned(pending)
            /\ UNCHANGED timers
    /\ printed' = IF i \in bars /\ ~ok
                  THEN [printed EXCEPT
                          ![i] = Append(@, [kind |-> "failed", facts |-> facts[i]])]
                  ELSE printed
    /\ counters' = Counted(counters, ok)
    /\ orphans' = IF i \in bars THEN orphans ELSE orphans + 1
    /\ UNCHANGED <<lost, facts, done, session, due>>

\* finalize_pending_if_waiting, after the usage was merged.
FinishWaiting ==
    /\ finishing # None
    /\ pending' = pending \ {finishing}
    /\ FinalizePending(finishing)
    /\ finishing' = None
    /\ UNCHANGED <<env, bars, facts, timers, counters, flushing, waiting,
                   summary, ghosts>>

\* The grace thread wakes up.  It does not outlive the process.
GraceOver(i) ==
    /\ i \in timers
    /\ flushing # "over"
    /\ timers' = timers \ {i}
    /\ FinalizePending(i)
    /\ UNCHANGED <<env, bars, facts, pending, counters, session, ghosts>>

-----------------------------------------------------------------------------
(* The end of the session. *)

\* Mutant of FlushWaiting: the pending completions are left to their threads.
FlushNobody(p) == {}

\* flush takes the pending completions out of the map.
FlushWaiting(p) == p

\* flush: the bars that are left are reported as interrupted.
FlushBars ==
    /\ Free
    /\ flushing' = "waiting"
    /\ printed' = [i \in Ids |->
                     IF i \in bars
                     THEN Append(printed[i], [kind |-> "interrupted", facts |-> facts[i]])
                     ELSE printed[i]]
    /\ bars' = {}
    /\ waiting' = FlushWaiting(pending)
    /\ pending' = {}
    /\ UNCHANGED <<env, facts, done, timers, counters, finishing, summary, ghosts>>

FlushOne(i) ==
    /\ flushing = "waiting"
    /\ i \in waiting
    /\ waiting' = waiting \ {i}
    /\ FinalizePending(i)
    /\ UNCHANGED <<env, bars, facts, pending, timers, counters, finishing,
                   flushing, summary, ghosts>>

\* The closing line: completed, errors, and what is still in flight.
FlushSummary ==
    /\ flushing = "waiting"
    /\ waiting = {}
    /\ flushing' = "over"
    /\ summary' = counters
    /\ UNCHANGED <<env, bars, facts, objects, counters, finishing, waiting,
                   printed, ghosts>>

HandleEvent(i) ==
    \/ Started(i) \/ Described(i) \/ UsageSeen(i) \/ StreamProgress(i)
    \/ \E fact \in {"status", "error"} : Noted(i, fact)
    \/ \E ok \in BOOLEAN : Completed(i, ok)

Next ==
    \/ \E i \in Ids : Overwritten(i) \/ HandleEvent(i) \/ GraceOver(i) \/ FlushOne(i)
    \/ FinishWaiting \/ FlushBars \/ FlushSummary

Spec == Init /\ [][Next]_vars

\* The handler's thread goes on with what it started and a sleeping thread wakes
\* up.  Neither the pipeline nor the end of the session is owed.
Fairness ==
    /\ WF_vars(FinishWaiting)
    /\ WF_vars(FlushSummary)
    /\ \A i \in Ids : WF_vars(GraceOver(i)) /\ WF_vars(FlushOne(i))

FairSpec == Spec /\ Fairness

-----------------------------------------------------------------------------
(* Properties. *)

TypeOK ==
    /\ ph \in [Ids -> Phases]
    /\ lost \in 0..MaxLost
    /\ bars \subseteq Ids /\ pending \subseteq Ids /\ waiting \subseteq Ids
    /\ done \subseteq Ids /\ timers \subseteq Ids
    /\ due \subseteq Ids \X Facts
    /\ facts \in [Ids -> SUBSET Facts]
    /\ counters \in [in_flight : Nat, completed : Nat, errors : Nat]
    /\ finishing \in Ids \cup {None}
    /\ flushing \in {"no", "waiting", "over"}
    /\ printed \in [Ids -> Seq(Line)]
    /\ orphans \in Nat

\* How many attempts have a line of this kind.
Lines(kind) == Cardinality({i \in Ids : printed[i] # <<>> /\ printed[i][1].kind = kind})

(***************************************************************************)
(* An attempt has at most one line, whichever of the handler, the grace    *)
(* thread and flush come to print it.                                      *)
(***************************************************************************)
OneLine == \A i \in Ids : Len(printed[i]) <= 1

(***************************************************************************)
(* The session's closing line accounts for everything that was shown: an   *)
(* attempt that had a bar has a line when the session is over, whatever    *)
(* its grace thread was doing; without lost events the numbers of the      *)
(* summary are the numbers of the lines above it.                          *)
(***************************************************************************)
SummaryComplete ==
    flushing = "over" =>
        /\ \A i \in Ids : ph[i] # "new" /\ lost = 0 => printed[i] # <<>>
        /\ done = {i \in Ids : printed[i] # <<>> /\ printed[i][1].kind = "completed"}
        /\ lost = 0 =>
             /\ summary.in_flight = Lines("interrupted")
             /\ summary.errors = Lines("failed")
             /\ summary.completed = Lines("completed") + Lines("failed")

(***************************************************************************)
(* The footer's in-flight number is the number of bars, up to the          *)
(* Completed events whose Started was lost: each of those takes one off    *)
(* that was never put on, and the number never goes below zero.            *)
(***************************************************************************)
FooterDrift ==
    flushing = "no" =>
        /\ counters.in_flight <= Cardinality(bars)
        /\ Cardinality(bars) <= counters.in_flight + orphans

(***************************************************************************)
(* Usage that comes while the attempt's line is owed is in the line, also  *)
(* when the grace thread prints it between the merge and the handler's own *)
(* attempt to print.                                                       *)
(***************************************************************************)
LineCarriesUsage ==
    \A i \in Ids : <<i, "usage">> \in due /\ printed[i] # <<>>
                     => "usage" \in printed[i][1].facts

(***************************************************************************)
(* A successful attempt that had a bar gets its line, also when no usage   *)
(* and no other event ever comes: the grace thread prints it.              *)
(***************************************************************************)
CompletionPrinted ==
    \A i \in Ids : (i \in pending) ~> (i \in done)

=============================================================================
