----------------------- MODULE RequestPipelineProofs -----------------------
(***************************************************************************)
(* Proofs about one run of the request pipeline, for any number of retries *)
(* and frames and any set of calls.                                        *)
(***************************************************************************)
EXTENDS RequestPipeline, SequenceTheorems, TLAPS

(***************************************************************************)
(* The inductive invariant, in parts.                                      *)
(***************************************************************************)
\* What an attempt that is given up may not have emitted.
Answer == {"Send", "CompletedOk"}
GivenUp(a) == Has(a, {"CompletedFailed"}) /\ ~Has(a, Answer)

Unanswered == {"Extract", "Resolve", "BuildHeaders", "ConvertRequest", "Send",
               "await_provider", "error_body"}

\* The attempts: those to come are empty, those left behind given up, and
\* the one under way is not completed by anyone while the runner is at it.
LogInv ==
    /\ \A a \in Attempts : /\ WellFormed(log[a])
                           /\ a > attempt => log[a] = <<>>
                           /\ a < attempt => GivenUp(a)
    /\ pc = "idle" <=> log[attempt] = <<>>
    /\ pc = "idle" => attempt = 0
    /\ pc \in Unanswered \cup {"ConvertResponse"} => ~Has(attempt, Terminal)
    /\ pc \in Unanswered => ~Has(attempt, Answer)
    /\ pc = "backoff" => attempt < MaxRetries /\ GivenUp(attempt)

\* What AccumHelper may have left to emit: its last event completes.
Epilogues ==
    {t \in Seq(Events) :
       \A i \in DOMAIN t : t[i] # "Started" /\ (t[i] \in Terminal <=> i = Len(t))}

\* The two tasks: they start together, and AccumHelper is the one that
\* completes the attempt, as the last thing it emits.
TaskInv ==
    /\ pc \notin {"stream", "done"} => accum.state = "off"
    /\ accum.state = "off" <=> tap = "off"
    /\ accum.state = "run" => ~Has(attempt, Terminal)
    /\ accum.state = "emit" => /\ accum.todo \in Epilogues
                               /\ accum.todo = <<>> <=> Has(attempt, Terminal)

\* Each task holds a finalizer until it is done.
FinalizersInv ==
    finalizers = (IF accum.state \in {"run", "emit"} THEN 1 ELSE 0)
                   + (IF tap \in {"run", "stopping"} THEN 1 ELSE 0)

PipelineInv == TypeOK /\ LogInv /\ TaskInv /\ FinalizersInv

-----------------------------------------------------------------------------
(***************************************************************************)
(* Sequences of events.                                                    *)
(***************************************************************************)
LEMMA ConcatFacts ==
    ASSUME NEW s \in Seq(Events), NEW t \in Seq(Events)
    PROVE  /\ s \o t \in Seq(Events)
           /\ Len(s) \in Nat /\ Len(t) \in Nat
           /\ DOMAIN s = 1..Len(s) /\ DOMAIN t = 1..Len(t)
           /\ DOMAIN (s \o t) = 1..(Len(s) + Len(t))
           /\ \A i \in 1..Len(s) : (s \o t)[i] = s[i]
           /\ \A i \in 1..Len(t) : (s \o t)[Len(s) + i] = t[i]
           /\ \A k \in (Len(s) + 1)..(Len(s) + Len(t)) :
                 k - Len(s) \in 1..Len(t) /\ (s \o t)[k] = t[k - Len(s)]
  OBVIOUS

\* What is in a longer log.
LEMMA ContainsConcat ==
    ASSUME NEW s \in Seq(Events), NEW t \in Seq(Events), NEW E
    PROVE  Contains(s \o t, E) <=> Contains(s, E) \/ Contains(t, E)
<1>1. ASSUME Contains(s, E) PROVE Contains(s \o t, E)
  <2>1. PICK i \in 1..Len(s) : s[i] \in E
    BY <1>1, ConcatFacts DEF Contains
  <2>2. i \in DOMAIN (s \o t) /\ (s \o t)[i] \in E
    BY <2>1, ConcatFacts
  <2> QED
    BY <2>2 DEF Contains
<1>2. ASSUME Contains(t, E) PROVE Contains(s \o t, E)
  <2>1. PICK i \in 1..Len(t) : t[i] \in E
    BY <1>2, ConcatFacts DEF Contains
  <2>2. Len(s) + i \in DOMAIN (s \o t) /\ (s \o t)[Len(s) + i] \in E
    BY <2>1, ConcatFacts
  <2> QED
    BY <2>2 DEF Contains
<1>3. ASSUME Contains(s \o t, E) PROVE Contains(s, E) \/ Contains(t, E)
  <2>1. PICK k \in 1..(Len(s) + Len(t)) : (s \o t)[k] \in E
    BY <1>3, ConcatFacts DEF Contains
  <2>2. CASE k \in 1..Len(s)
    BY <2>1, <2>2, ConcatFacts DEF Contains
  <2>3. CASE k \in (Len(s) + 1)..(Len(s) + Len(t))
    BY <2>1, <2>3, ConcatFacts DEF Contains
  <2> QED
    BY <2>1, <2>2, <2>3, ConcatFacts
<1> QED
  BY <1>1, <1>2, <1>3

\* What may be appended to a log that has begun and is not completed.
Continues(t) ==
    /\ \A i \in DOMAIN t : t[i] # "Started"
    /\ \A i, j \in DOMAIN t : t[i] \in Terminal /\ j > i => t[j] \in Records

LEMMA WellFormedConcat ==
    ASSUME NEW s \in Seq(Events), NEW t \in Seq(Events), s # <<>>, WellFormed(s),
           Continues(t),
           ~Contains(s, Terminal) \/ \A i \in DOMAIN t : t[i] \in Records
    PROVE  WellFormed(s \o t) /\ s \o t # <<>>
<1> DEFINE u == s \o t
           m == Len(s)
           n == Len(t)
<1>1. /\ m \in Nat /\ n \in Nat /\ m # 0
      /\ DOMAIN s = 1..m /\ DOMAIN t = 1..n /\ DOMAIN u = 1..(m + n)
      /\ \A i \in 1..m : u[i] = s[i]
      /\ \A k \in (m + 1)..(m + n) : k - m \in 1..n /\ u[k] = t[k - m]
  BY ConcatFacts
<1> HIDE DEF u, m, n
<1>2. ASSUME NEW i \in DOMAIN u PROVE u[i] = "Started" <=> i = 1
  <2>1. CASE i \in 1..m
    BY <1>1, <2>1 DEF WellFormed
  <2>2. CASE i \in (m + 1)..(m + n)
    <3>1. u[i] # "Started"
      BY <1>1, <2>2 DEF Continues
    <3>2. i # 1
      BY <1>1, <2>2
    <3> QED
      BY <3>1, <3>2
  <2> QED
    BY <1>1, <1>2, <2>1, <2>2
<1>3. ASSUME NEW i \in DOMAIN u, NEW j \in DOMAIN u, u[i] \in Terminal, j > i
      PROVE  u[j] \in Records
  <2>1. CASE i \in 1..m /\ j \in 1..m
    BY <1>1, <1>3, <2>1 DEF WellFormed
  <2>2. CASE i \in 1..m /\ j \in (m + 1)..(m + n)
    <3>1. Contains(s, Terminal)
      BY <1>1, <1>3, <2>2 DEF Contains
    <3> QED
      BY <1>1, <2>2, <3>1
  <2>3. CASE i \in (m + 1)..(m + n) /\ j \in (m + 1)..(m + n)
    <3>1. i - m \in DOMAIN t /\ j - m \in DOMAIN t /\ j - m > i - m
      BY <1>1, <1>3, <2>3
    <3>2. u[i] = t[i - m] /\ u[j] = t[j - m]
      BY <1>1, <2>3
    <3> QED
      BY <1>3, <3>1, <3>2 DEF Continues
  <2> QED
    BY <1>1, <1>3, <2>1, <2>2, <2>3
<1>4. WellFormed(u)
  BY <1>2, <1>3 DEF WellFormed
<1>5. u # <<>>
  BY <1>1
<1> QED
  BY <1>4, <1>5 DEF u

\* Records complete nothing and answer nothing.
LEMMA RecordsFacts ==
    ASSUME NEW t \in Seq(Records)
    PROVE  /\ t \in Seq(Events) /\ Continues(t)
           /\ \A i \in DOMAIN t : t[i] \in Records
           /\ ~Contains(t, Terminal) /\ ~Contains(t, Answer)
           /\ ~Contains(t, {"CompletedFailed"})
<1>1. \A i \in DOMAIN t : t[i] \in Records
  OBVIOUS
<1>2. t \in Seq(Events)
  BY SeqMonotonic DEF Events
<1> QED
  BY <1>1, <1>2 DEF Records, Continues, Contains, Terminal, Answer

\* The records some actions emit.
LEMMA RecordTuples ==
    /\ <<>> \in Seq(Records) /\ <<"UpstreamReq">> \in Seq(Records)
    /\ <<"UpstreamBody">> \in Seq(Records) /\ <<"Usage">> \in Seq(Records)
    /\ <<"UpstreamBody", "Usage">> \in Seq(Records)
  BY DEF Records

\* A single event.
LEMMA OneEvent ==
    ASSUME NEW e \in Events, e # "Started"
    PROVE  /\ <<e>> \in Seq(Events) /\ Continues(<<e>>)
           /\ \A E : Contains(<<e>>, E) <=> e \in E
<1>1. DOMAIN <<e>> = {1} /\ <<e>>[1] = e /\ <<e>> \in Seq(Events)
  OBVIOUS
<1>2. Continues(<<e>>)
  BY <1>1 DEF Continues
<1> QED
  BY <1>1, <1>2 DEF Contains

\* Two events, of which the first does not complete.
LEMMA TwoEvents ==
    ASSUME NEW e \in Events \ Terminal, NEW f \in Events, e # "Started", f # "Started"
    PROVE  /\ <<e, f>> \in Seq(Events) /\ Continues(<<e, f>>)
           /\ \A E : Contains(<<e, f>>, E) <=> e \in E \/ f \in E
<1>1. /\ DOMAIN <<e, f>> = {1, 2} /\ <<e, f>>[1] = e /\ <<e, f>>[2] = f
      /\ <<e, f>> \in Seq(Events)
  OBVIOUS
<1>2. Continues(<<e, f>>)
  BY <1>1 DEF Continues
<1> QED
  BY <1>1, <1>2 DEF Contains

LEMMA ThreeEvents ==
    ASSUME NEW e \in Events \ Terminal, NEW f \in Events \ Terminal, NEW g \in Events,
           e # "Started", f # "Started", g # "Started"
    PROVE  /\ <<e, f, g>> \in Seq(Events) /\ Continues(<<e, f, g>>)
           /\ \A E : Contains(<<e, f, g>>, E) <=> e \in E \/ f \in E \/ g \in E
<1>1. /\ DOMAIN <<e, f, g>> = {1, 2, 3} /\ <<e, f, g>>[1] = e /\ <<e, f, g>>[2] = f
      /\ <<e, f, g>>[3] = g /\ <<e, f, g>> \in Seq(Events)
  OBVIOUS
<1>2. Continues(<<e, f, g>>)
  BY <1>1 DEF Continues
<1> QED
  BY <1>1, <1>2 DEF Contains

(***************************************************************************)
(* What Emit does to the log of an attempt that has begun: it stays well   *)
(* formed if it was not completed or only records are added.               *)
(***************************************************************************)
LEMMA EmitFacts ==
    ASSUME TypeOK, WellFormed(log[attempt]), log[attempt] # <<>>,
           NEW rs \in Seq(Records), NEW es \in Seq(Events), Continues(es), Emit(rs, es),
           ~Has(attempt, Terminal) \/ es = <<>>
    PROVE  /\ log' \in [Attempts -> Seq(Events)]
           /\ \A a \in Attempts \ {attempt} : log'[a] = log[a]
           /\ WellFormed(log'[attempt]) /\ log'[attempt] # <<>>
           /\ Contains(log'[attempt], Terminal) <=> Has(attempt, Terminal) \/ Contains(es, Terminal)
           /\ Contains(log'[attempt], Answer) <=> Has(attempt, Answer) \/ Contains(es, Answer)
           /\ Contains(log'[attempt], {"CompletedFailed"}) <=>
                 Has(attempt, {"CompletedFailed"}) \/ Contains(es, {"CompletedFailed"})
<1>0. attempt \in Attempts /\ log \in [Attempts -> Seq(Events)] /\ log[attempt] \in Seq(Events)
  BY DEF TypeOK
<1>1. PICK s \in Seq(Events) : s = log[attempt]
  BY <1>0
<1>2. log' = [log EXCEPT ![attempt] = s \o rs \o es]
  BY <1>1 DEF Emit
<1>3. rs \in Seq(Events) /\ Continues(rs) /\ \A i \in DOMAIN rs : rs[i] \in Records
  BY RecordsFacts
<1>4. WellFormed(s \o rs) /\ s \o rs # <<>> /\ s \o rs \in Seq(Events)
  <2>1. s \o rs \in Seq(Events)
    BY <1>3, ConcatFacts
  <2> QED
    BY <1>1, <1>3, <2>1, WellFormedConcat
<1>5. \A E : Contains(s \o rs, E) <=> Contains(s, E) \/ Contains(rs, E)
  BY <1>3, ContainsConcat
<1>6. /\ Contains(s \o rs, Terminal) <=> Contains(s, Terminal)
      /\ Contains(s \o rs, Answer) <=> Contains(s, Answer)
      /\ Contains(s \o rs, {"CompletedFailed"}) <=> Contains(s, {"CompletedFailed"})
  BY <1>5, RecordsFacts
<1>7. PICK u \in Seq(Events) : u = s \o rs
  BY <1>4
<1>8. u \o es \in Seq(Events)
  BY ConcatFacts
<1>9. WellFormed(u \o es) /\ u \o es # <<>>
  <2>1. ~Contains(u, Terminal) \/ \A i \in DOMAIN es : es[i] \in Records
    BY <1>1, <1>6, <1>7 DEF Has
  <2> QED
    BY <1>4, <1>7, <2>1, WellFormedConcat
<1>10. \A E : Contains(u \o es, E) <=> Contains(u, E) \/ Contains(es, E)
  BY ContainsConcat
<1>11. log' = [log EXCEPT ![attempt] = u \o es]
  BY <1>2, <1>7
<1>12. /\ log'[attempt] = u \o es /\ log' \in [Attempts -> Seq(Events)]
       /\ \A a \in Attempts \ {attempt} : log'[a] = log[a]
  BY <1>0, <1>8, <1>11
<1> QED
  BY <1>1, <1>6, <1>7, <1>9, <1>10, <1>12 DEF Has

-----------------------------------------------------------------------------
(***************************************************************************)
(* What each emitting action puts in the log, as a pair for EmitFacts.     *)
(***************************************************************************)
LEMMA CapturedRecords == \A rs \in Captured : rs \in Seq(Records)
  BY RecordTuples DEF Captured

LEMMA UnconvertedRecords == \A rs \in Unconverted : rs \in Seq(Records)
  BY RecordTuples DEF Unconverted

LEMMA FailEvents ==
    ASSUME NEW e \in {"Error", "Stop"}
    PROVE  /\ <<e, "CompletedFailed">> \in Seq(Events)
           /\ Continues(<<e, "CompletedFailed">>)
           /\ Contains(<<e, "CompletedFailed">>, Terminal)
           /\ Contains(<<e, "CompletedFailed">>, {"CompletedFailed"})
           /\ ~Contains(<<e, "CompletedFailed">>, Answer)
<1>1. e \in Events \ Terminal /\ "CompletedFailed" \in Events /\ e # "Started"
  BY DEF Events, Terminal, Stages, Records
<1>2. \A E : Contains(<<e, "CompletedFailed">>, E) <=> e \in E \/ "CompletedFailed" \in E
  BY <1>1, TwoEvents
<1> QED
  BY <1>1, <1>2, TwoEvents DEF Terminal, Answer

LEMMA NoEvents ==
    <<>> \in Seq(Events) /\ Continues(<<>>) /\ \A E : ~Contains(<<>>, E)
  BY DEF Continues, Contains

LEMMA StageEvents ==
    ASSUME NEW e \in {"Extract", "Resolve", "BuildHeaders", "ConvertRequest",
                      "ConvertResponse", "UpstreamResp"}
    PROVE  /\ <<e>> \in Seq(Events) /\ Continues(<<e>>)
           /\ ~Contains(<<e>>, Terminal) /\ ~Contains(<<e>>, Answer)
<1>1. e \in Events /\ e # "Started"
  BY DEF Events, Stages, Records
<1> QED
  BY <1>1, OneEvent DEF Terminal, Answer

LEMMA AnsweredEvents ==
    /\ <<"UpstreamResp", "Send">> \in Seq(Events)
    /\ Continues(<<"UpstreamResp", "Send">>)
    /\ ~Contains(<<"UpstreamResp", "Send">>, Terminal)
<1>1. "UpstreamResp" \in Events \ Terminal /\ "Send" \in Events
  BY DEF Events, Stages, Records, Terminal
<1> QED
  BY <1>1, TwoEvents DEF Terminal

LEMMA BufferedEvents ==
    /\ <<"ConvertResponse", "ConvertedBody", "CompletedOk">> \in Seq(Events)
    /\ Continues(<<"ConvertResponse", "ConvertedBody", "CompletedOk">>)
<1>1. /\ "ConvertResponse" \in Events \ Terminal /\ "ConvertedBody" \in Events \ Terminal
      /\ "CompletedOk" \in Events
  BY DEF Events, Stages, Records, Terminal
<1> QED
  BY <1>1, ThreeEvents

(***************************************************************************)
(* An emission of the runner, which never follows the end of its attempt,  *)
(* leaves the other attempts as they are.                                  *)
(***************************************************************************)
LEMMA RunnerEmits ==
    ASSUME TypeOK, LogInv, pc \in Unanswered \cup {"ConvertResponse"},
           NEW rs \in Seq(Records), NEW es \in Seq(Events), Continues(es), Emit(rs, es),
           attempt' = attempt
    PROVE  /\ log' \in [Attempts -> Seq(Events)]
           /\ \A a \in Attempts : /\ WellFormed(log'[a])
                                  /\ a > attempt => log'[a] = <<>>
                                  /\ a < attempt => GivenUp(a)'
           /\ log'[attempt] # <<>>
           /\ Has(attempt, Terminal)' <=> Contains(es, Terminal)
           /\ Has(attempt, Answer)' <=> Has(attempt, Answer) \/ Contains(es, Answer)
           /\ Contains(es, {"CompletedFailed"}) => Has(attempt, {"CompletedFailed"})'
<1>1. /\ WellFormed(log[attempt]) /\ log[attempt] # <<>> /\ attempt \in Attempts
      /\ ~Has(attempt, Terminal) /\ attempt \in Nat
  BY RetriesAssumption DEF LogInv, TypeOK, Unanswered, Attempts
<1>2. /\ log' \in [Attempts -> Seq(Events)]
      /\ \A a \in Attempts \ {attempt} : log'[a] = log[a]
      /\ WellFormed(log'[attempt]) /\ log'[attempt] # <<>>
      /\ Contains(log'[attempt], Terminal) <=> Has(attempt, Terminal) \/ Contains(es, Terminal)
      /\ Contains(log'[attempt], Answer) <=> Has(attempt, Answer) \/ Contains(es, Answer)
      /\ Contains(log'[attempt], {"CompletedFailed"}) <=>
            Has(attempt, {"CompletedFailed"}) \/ Contains(es, {"CompletedFailed"})
  BY <1>1, EmitFacts
<1>3. ASSUME NEW a \in Attempts
      PROVE  /\ WellFormed(log'[a])
             /\ a > attempt => log'[a] = <<>>
             /\ a < attempt => GivenUp(a)'
  <2>1. CASE a = attempt
    BY <1>1, <1>2, <2>1 DEF Attempts
  <2>2. CASE a # attempt
    <3>1. log'[a] = log[a]
      BY <1>2, <2>2
    <3> QED
      BY <3>1 DEF LogInv, GivenUp, Has
  <2> QED
    BY <2>1, <2>2
<1> QED
  BY <1>1, <1>2, <1>3 DEF Has

\* fail and the retry decision.
LEMMA FailStep ==
    ASSUME TypeOK, LogInv, pc \in Unanswered \cup {"ConvertResponse"},
           NEW rs \in Seq(Records), NEW e \in {"Error", "Stop"}, NEW again \in BOOLEAN,
           Fail(rs, e, again), pc = "ConvertResponse" => ~again
    PROVE  LogInv' /\ log' \in [Attempts -> Seq(Events)]
<1>1. /\ Emit(rs, <<e, "CompletedFailed">>) /\ attempt' = attempt
      /\ pc' = IF ShouldRetry(again) THEN "backoff" ELSE "done"
  BY DEF Fail
<1>2. /\ log' \in [Attempts -> Seq(Events)]
      /\ \A a \in Attempts : /\ WellFormed(log'[a])
                             /\ a > attempt => log'[a] = <<>>
                             /\ a < attempt => GivenUp(a)'
      /\ log'[attempt] # <<>>
      /\ Has(attempt, {"CompletedFailed"})'
      /\ Has(attempt, Answer)' <=> Has(attempt, Answer)
  BY <1>1, FailEvents, RunnerEmits
<1>3. pc' = "backoff" => attempt < MaxRetries /\ GivenUp(attempt)'
  <2>1. pc' = "backoff" => pc \in Unanswered /\ attempt < MaxRetries
    BY <1>1 DEF ShouldRetry
  <2>2. pc \in Unanswered => ~Has(attempt, Answer)
    BY DEF LogInv
  <2> QED
    BY <1>2, <2>1, <2>2 DEF GivenUp
<1>4. pc' \in {"backoff", "done"}
  BY <1>1
<1> QED
  BY <1>1, <1>2, <1>3, <1>4 DEF LogInv, Unanswered

(***************************************************************************)
(* The runner's actions keep the attempts in order.                        *)
(***************************************************************************)
LEMMA RunnerLog ==
    ASSUME TypeOK, LogInv, Runner \/ \E c \in Calls : Start(c)
    PROVE  LogInv' /\ log' \in [Attempts -> Seq(Events)]
<1>0. attempt \in Attempts /\ log \in [Attempts -> Seq(Events)] /\ 0 \in Attempts
      /\ attempt \in Nat /\ MaxRetries \in Nat /\ attempt =< MaxRetries
  BY RetriesAssumption DEF TypeOK, Attempts
<1>1. ASSUME NEW c \in Calls, Start(c) PROVE LogInv' /\ log' \in [Attempts -> Seq(Events)]
  <2>1. /\ pc = "idle" /\ pc' = "Extract" /\ attempt' = attempt
        /\ log' = [log EXCEPT ![attempt] = log[attempt] \o <<>> \o <<"Started">>]
    BY <1>1 DEF Start, Emit
  <2>2. attempt = 0 /\ log[attempt] = <<>>
    BY <2>1 DEF LogInv
  <2>3. <<>> \o <<>> \o <<"Started">> = <<"Started">>
    OBVIOUS
  <2>4. log' = [log EXCEPT ![attempt] = <<"Started">>]
    BY <2>1, <2>2, <2>3
  <2>5. "Started" \in Events /\ <<"Started">> \in Seq(Events)
    BY DEF Events
  <2>6. /\ log'[attempt] = <<"Started">> /\ log' \in [Attempts -> Seq(Events)]
        /\ \A a \in Attempts \ {attempt} : log'[a] = log[a]
    BY <1>0, <2>4, <2>5
  <2>7. /\ WellFormed(<<"Started">>) /\ ~Contains(<<"Started">>, Terminal)
        /\ ~Contains(<<"Started">>, Answer) /\ <<"Started">> # <<>>
    BY DEF WellFormed, Contains, Terminal, Answer
  <2>8. \A a \in Attempts : /\ WellFormed(log'[a])
                            /\ a > attempt => log'[a] = <<>>
                            /\ ~(a < attempt)
    BY <1>0, <2>2, <2>6, <2>7 DEF LogInv, Attempts
  <2> QED
    BY <2>1, <2>2, <2>6, <2>7, <2>8 DEF LogInv, Has, Unanswered
<1>2. CASE Prepare
  <2>1. /\ pc \in {"Extract", "Resolve", "BuildHeaders", "ConvertRequest"}
        /\ Emit(<<>>, <<pc>>) /\ attempt' = attempt
        /\ pc' \in {"Resolve", "BuildHeaders", "ConvertRequest", "Send"}
    BY <1>2 DEF Prepare, NextStage
  <2>2. PICK e \in {"Extract", "Resolve", "BuildHeaders", "ConvertRequest"} : e = pc
    BY <2>1
  <2>3. /\ <<e>> \in Seq(Events) /\ Continues(<<e>>)
        /\ ~Contains(<<e>>, Terminal) /\ ~Contains(<<e>>, Answer)
    BY StageEvents
  <2>4. Emit(<<>>, <<e>>)
    BY <2>1, <2>2
  <2>5. ~Has(attempt, Answer) /\ pc \in Unanswered
    BY <2>1 DEF LogInv, Unanswered
  <2>6. /\ log' \in [Attempts -> Seq(Events)]
        /\ \A a \in Attempts : /\ WellFormed(log'[a])
                               /\ a > attempt => log'[a] = <<>>
                               /\ a < attempt => GivenUp(a)'
        /\ log'[attempt] # <<>>
        /\ ~Has(attempt, Terminal)' /\ ~Has(attempt, Answer)'
    BY <2>1, <2>3, <2>4, <2>5, RunnerEmits, RecordTuples
  <2> QED
    BY <2>1, <2>6 DEF LogInv, Unanswered
<1>3. CASE PrepareFails \/ DryRun
  <2>1. /\ pc \in Unanswered
        /\ Fail(<<>>, "Error", FALSE) \/ Fail(<<>>, "Stop", FALSE)
    BY <1>3 DEF PrepareFails, DryRun, NextStage, Unanswered
  <2> QED
    BY <2>1, FailStep, RecordTuples DEF Unanswered
<1>4. CASE Dispatch
  <2>1. /\ pc \in Unanswered /\ pc' = "await_provider" /\ attempt' = attempt
        /\ Emit(<<"UpstreamReq">>, <<>>) \/ Emit(<<>>, <<>>)
    BY <1>4 DEF Dispatch, Unanswered
  <2>2. ~Has(attempt, Answer)
    BY <2>1 DEF LogInv
  <2>3. /\ log' \in [Attempts -> Seq(Events)]
        /\ \A a \in Attempts : /\ WellFormed(log'[a])
                               /\ a > attempt => log'[a] = <<>>
                               /\ a < attempt => GivenUp(a)'
        /\ log'[attempt] # <<>>
        /\ ~Has(attempt, Terminal)' /\ ~Has(attempt, Answer)'
    BY <2>1, <2>2, RunnerEmits, RecordTuples, NoEvents
  <2> QED
    BY <2>1, <2>3 DEF LogInv, Unanswered
<1>5. CASE ProviderFails
  <2>1. PICK rs \in Captured, again \in BOOLEAN : Fail(rs, "Error", again)
    BY <1>5 DEF ProviderFails
  <2>2. pc \in Unanswered /\ pc # "ConvertResponse"
    BY <1>5 DEF ProviderFails, Unanswered
  <2> QED
    BY <2>1, <2>2, CapturedRecords, FailStep
<1>6. CASE ErrorStatus
  <2>1. PICK rs \in Captured : Emit(rs, <<"UpstreamResp">>)
    BY <1>6 DEF ErrorStatus
  <2>2. pc \in Unanswered /\ pc' = "error_body" /\ attempt' = attempt
    BY <1>6 DEF ErrorStatus, Unanswered
  <2>3. ~Has(attempt, Answer)
    BY <2>2 DEF LogInv
  <2>4. /\ log' \in [Attempts -> Seq(Events)]
        /\ \A a \in Attempts : /\ WellFormed(log'[a])
                               /\ a > attempt => log'[a] = <<>>
                               /\ a < attempt => GivenUp(a)'
        /\ log'[attempt] # <<>>
        /\ ~Has(attempt, Terminal)' /\ ~Has(attempt, Answer)'
    BY <2>1, <2>2, <2>3, RunnerEmits, CapturedRecords, StageEvents
  <2> QED
    BY <2>2, <2>4 DEF LogInv, Unanswered
<1>7. CASE ErrorBody
  <2>1. PICK rs \in {<<"UpstreamBody">>, <<>>} : Fail(rs, "Error", recoverable)
    BY <1>7 DEF ErrorBody
  <2>2. pc \in Unanswered /\ pc # "ConvertResponse" /\ recoverable \in BOOLEAN
    BY <1>7 DEF ErrorBody, Unanswered, TypeOK
  <2>3. PICK again \in BOOLEAN : again = recoverable
    BY <2>2
  <2>4. Fail(rs, "Error", again)
    BY <2>1, <2>3
  <2> QED
    BY <2>2, <2>4, RecordTuples, FailStep
<1>8. CASE Answered
  <2>1. PICK rs \in Captured : Emit(rs, <<"UpstreamResp", "Send">>)
    BY <1>8 DEF Answered
  <2>2. pc \in Unanswered /\ pc' = "ConvertResponse" /\ attempt' = attempt
    BY <1>8 DEF Answered, Unanswered
  <2>3. /\ log' \in [Attempts -> Seq(Events)]
        /\ \A a \in Attempts : /\ WellFormed(log'[a])
                               /\ a > attempt => log'[a] = <<>>
                               /\ a < attempt => GivenUp(a)'
        /\ log'[attempt] # <<>>
        /\ ~Has(attempt, Terminal)'
    BY <2>1, <2>2, RunnerEmits, CapturedRecords, AnsweredEvents
  <2> QED
    BY <2>2, <2>3 DEF LogInv, Unanswered
<1>9. CASE RetryAfterBackoff
  <2>1. /\ pc = "backoff" /\ pc' = "Extract" /\ attempt' = attempt + 1
        /\ log' = [log EXCEPT ![attempt + 1] = <<"Started">>]
    BY <1>9 DEF RetryAfterBackoff
  <2>2. attempt < MaxRetries /\ GivenUp(attempt)
    BY <2>1 DEF LogInv
  <2>3. attempt + 1 \in Attempts
    BY <1>0, <2>2 DEF Attempts
  <2>4. "Started" \in Events /\ <<"Started">> \in Seq(Events)
    BY DEF Events
  <2>5. /\ log'[attempt + 1] = <<"Started">> /\ log' \in [Attempts -> Seq(Events)]
        /\ \A a \in Attempts \ {attempt + 1} : log'[a] = log[a]
    BY <1>0, <2>1, <2>3, <2>4
  <2>6. /\ WellFormed(<<"Started">>) /\ ~Contains(<<"Started">>, Terminal)
        /\ ~Contains(<<"Started">>, Answer) /\ <<"Started">> # <<>>
    BY DEF WellFormed, Contains, Terminal, Answer
  <2>7. ASSUME NEW a \in Attempts
        PROVE  /\ WellFormed(log'[a])
               /\ a > attempt + 1 => log'[a] = <<>>
               /\ a < attempt + 1 => GivenUp(a)'
    <3>1. CASE a = attempt + 1
      BY <1>0, <2>5, <2>6, <3>1
    <3>2. CASE a # attempt + 1
      <4>1. log'[a] = log[a]
        BY <2>5, <3>2
      <4>2. GivenUp(a) => GivenUp(a)'
        BY <4>1 DEF GivenUp, Has
      <4>3. a \in Nat
        BY DEF Attempts
      <4>4. a < attempt + 1 => a < attempt \/ a = attempt
        BY <1>0, <4>3
      <4>5. a > attempt + 1 => a > attempt
        BY <1>0, <4>3
      <4> QED
        BY <2>2, <4>1, <4>2, <4>4, <4>5 DEF LogInv
    <3> QED
      BY <3>1, <3>2
  <2>8. attempt' # 0
    BY <1>0, <2>1
  <2> QED
    BY <2>1, <2>5, <2>6, <2>7, <2>8 DEF LogInv, Has, Unanswered
<1>10. CASE Buffered
  <2>1. PICK rs \in {<<"UpstreamBody">>, <<"UpstreamBody", "Usage">>} :
          Emit(rs, <<"ConvertResponse", "ConvertedBody", "CompletedOk">>)
    BY <1>10 DEF Buffered
  <2>2. pc = "ConvertResponse" /\ pc' = "done" /\ attempt' = attempt
    BY <1>10 DEF Buffered
  <2>3. /\ log' \in [Attempts -> Seq(Events)]
        /\ \A a \in Attempts : /\ WellFormed(log'[a])
                               /\ a > attempt => log'[a] = <<>>
                               /\ a < attempt => GivenUp(a)'
        /\ log'[attempt] # <<>>
    BY <2>1, <2>2, RunnerEmits, RecordTuples, BufferedEvents
  <2> QED
    BY <2>2, <2>3 DEF LogInv, Unanswered
<1>11. CASE BufferedFails
  <2>1. PICK rs \in Unconverted : Fail(rs, "Error", FALSE)
    BY <1>11 DEF BufferedFails
  <2>2. pc = "ConvertResponse"
    BY <1>11 DEF BufferedFails
  <2> QED
    BY <2>1, <2>2, UnconvertedRecords, FailStep
<1>12. CASE OpenStream
  <2>1. /\ pc = "ConvertResponse" /\ pc' = "stream" /\ attempt' = attempt
        /\ Emit(<<>>, <<"ConvertResponse">>)
    BY <1>12 DEF OpenStream
  <2>2. /\ log' \in [Attempts -> Seq(Events)]
        /\ \A a \in Attempts : /\ WellFormed(log'[a])
                               /\ a > attempt => log'[a] = <<>>
                               /\ a < attempt => GivenUp(a)'
        /\ log'[attempt] # <<>>
    BY <2>1, RunnerEmits, RecordTuples, StageEvents
  <2> QED
    BY <2>1, <2>2 DEF LogInv, Unanswered
<1>13. CASE Cancel /\ pc # "backoff"
  <2>1. /\ pc \in Unanswered \cup {"ConvertResponse"} /\ pc' = "done" /\ attempt' = attempt
        /\ Emit(<<>>, <<"Error", "CompletedFailed">>)
    BY <1>13 DEF Cancel, Stages, Unanswered
  <2>2. /\ log' \in [Attempts -> Seq(Events)]
        /\ \A a \in Attempts : /\ WellFormed(log'[a])
                               /\ a > attempt => log'[a] = <<>>
                               /\ a < attempt => GivenUp(a)'
        /\ log'[attempt] # <<>>
    BY <2>1, RunnerEmits, RecordTuples, FailEvents
  <2> QED
    BY <2>1, <2>2 DEF LogInv, Unanswered
<1>14. CASE Cancel /\ pc = "backoff"
  <2>1. /\ pc' = "done" /\ attempt' = attempt
        /\ log' = [log EXCEPT ![attempt] = log[attempt] \o <<>> \o <<>>]
    BY <1>14 DEF Cancel, Emit
  <2>2. log[attempt] \in Seq(Events)
    BY <1>0
  <2>3. log[attempt] \o <<>> \o <<>> = log[attempt]
    BY <2>2, ConcatEmptySeq
  <2>4. log' = log
    BY <1>0, <2>1, <2>3
  <2> QED
    BY <1>0, <1>14, <2>1, <2>4 DEF LogInv, GivenUp, Has, Unanswered
<1> QED
  BY <1>1, <1>2, <1>3, <1>4, <1>5, <1>6, <1>7, <1>8, <1>9, <1>10, <1>11, <1>12, <1>13,
     <1>14 DEF Runner

-----------------------------------------------------------------------------
(***************************************************************************)
(* The tasks' emissions.                                                   *)
(***************************************************************************)
LEMMA EpilogueFacts ==
    ASSUME NEW t \in Epilogues, t # <<>>
    PROVE  /\ Tail(t) \in Epilogues /\ Head(t) \in Events /\ Head(t) # "Started"
           /\ Head(t) \in Terminal <=> Tail(t) = <<>>
<1>1. PICK n \in Nat : n = Len(t) /\ n # 0
  BY DEF Epilogues
<1>2. t \in Seq(Events) /\ DOMAIN t = 1..n
  BY <1>1 DEF Epilogues
<1>3. \A i \in 1..n : t[i] # "Started" /\ (t[i] \in Terminal <=> i = n)
  BY <1>1, <1>2 DEF Epilogues
<1>4. Head(t) = t[1] /\ Head(t) \in Events
  BY <1>1, <1>2
<1>5. Tail(t) \in Seq(Events) /\ Len(Tail(t)) = n - 1
  BY <1>1, <1>2, HeadTailProperties
<1>6. \A i \in 1..(n - 1) : Tail(t)[i] = t[i + 1]
  BY <1>1, <1>2, <1>5, HeadTailProperties
<1>7. PICK u \in Seq(Events) : u = Tail(t)
  BY <1>5
<1>8. Len(u) = n - 1 /\ DOMAIN u = 1..(n - 1) /\ \A i \in 1..(n - 1) : u[i] = t[i + 1]
  BY <1>1, <1>5, <1>6, <1>7
<1>9. \A i \in 1..(n - 1) : i + 1 \in 1..n /\ (i + 1 = n <=> i = n - 1)
  BY <1>1
<1>10. u \in Epilogues
  <2>1. \A i \in 1..(n - 1) : u[i] # "Started" /\ (u[i] \in Terminal <=> i = n - 1)
    BY <1>3, <1>8, <1>9
  <2> QED
    BY <1>8, <2>1 DEF Epilogues
<1>11. u = <<>> <=> n = 1
  <2>1. u = <<>> <=> Len(u) = 0
    BY EmptySeq
  <2> QED
    BY <1>1, <1>8, <2>1
<1>12. 1 \in 1..n /\ (t[1] \in Terminal <=> n = 1) /\ t[1] # "Started"
  BY <1>1, <1>3
<1> QED
  BY <1>4, <1>7, <1>10, <1>11, <1>12

\* Two events that do not complete, before an epilogue.
LEMMA EpilogueConcat ==
    ASSUME NEW s \in Seq(Events), Len(s) = 2,
           \A i \in 1..2 : s[i] # "Started" /\ s[i] \notin Terminal,
           NEW t \in Epilogues, t # <<>>
    PROVE  s \o t \in Epilogues /\ s \o t # <<>>
<1>0. PICK n \in Nat \ {0} :
        /\ Len(t) = n
        /\ \A i \in 1..n : t[i] # "Started" /\ (t[i] \in Terminal <=> i = n)
  <2>1. t \in Seq(Events) /\ Len(t) \in Nat \ {0} /\ DOMAIN t = 1..Len(t)
    BY DEF Epilogues
  <2> QED
    BY <2>1 DEF Epilogues
<1> t \in Seq(Events)
  BY DEF Epilogues
<1>1. PICK u \in Seq(Events) : u = s \o t
  BY ConcatProperties
<1>2. /\ Len(u) = Len(s) + Len(t)
      /\ \A i \in 1..Len(s) : u[i] = s[i]
      /\ \A k \in (Len(s) + 1)..(Len(s) + Len(t)) : u[k] = t[k - Len(s)]
  <2>1. Len(s \o t) = Len(s) + Len(t)
    BY ConcatProperties
  <2>2. \A i \in 1..Len(s) : (s \o t)[i] = s[i]
    BY ConcatFacts
  <2>3. \A k \in (Len(s) + 1)..(Len(s) + Len(t)) :
           k - Len(s) \in 1..Len(t) /\ (s \o t)[k] = t[k - Len(s)]
    BY ConcatFacts, Zenon
  <2> QED
    BY <1>1, <2>1, <2>2, <2>3
<1>3. /\ DOMAIN u = 1..(2 + n) /\ Len(u) = 2 + n
      /\ \A i \in 1..2 : u[i] = s[i]
      /\ \A k \in 3..(2 + n) : u[k] = t[k - 2]
  BY <1>0, <1>2
<1>4. ASSUME NEW k \in 1..(2 + n)
      PROVE  u[k] # "Started" /\ (u[k] \in Terminal <=> k = 2 + n)
  <2>1. CASE k \in 1..2
    BY <1>3, <2>1
  <2>2. CASE k \in 3..(2 + n)
    <3>1. k - 2 \in 1..n /\ (k - 2 = n <=> k = 2 + n)
      BY <2>2
    <3>2. u[k] = t[k - 2]
      BY <1>3, <2>2
    <3>3. t[k - 2] # "Started" /\ (t[k - 2] \in Terminal <=> k - 2 = n)
      BY <1>0, <3>1
    <3> QED
      BY <3>1, <3>2, <3>3
  <2> QED
    BY <2>1, <2>2
<1>5. u \in Epilogues
  BY <1>3, <1>4 DEF Epilogues
<1>6. u # <<>>
  BY <1>3
<1> QED
  BY <1>1, <1>5, <1>6

LEMMA EpilogueType == Epilogue \in Epilogues /\ Epilogue # <<>>
<1>1. /\ "UpstreamBody" \in Events /\ "ConvertedBody" \in Events /\ "Error" \in Events
      /\ "CompletedFailed" \in Events /\ "CompletedOk" \in Events
  BY DEF Events, Records, Terminal
<1>2. /\ <<"UpstreamBody", "ConvertedBody">> \in Seq(Events)
      /\ <<"Error", "CompletedFailed">> \in Seq(Events) /\ <<"CompletedOk">> \in Seq(Events)
  BY <1>1
<1>3. PICK s \in Seq(Events) : s = <<"UpstreamBody", "ConvertedBody">>
  BY <1>2, Zenon
<1>4. PICK t \in Seq(Events) : t = <<"Error", "CompletedFailed">>
  BY <1>2, Zenon
<1>5. PICK v \in Seq(Events) : v = <<"CompletedOk">>
  BY <1>2, Zenon
<1>6. Len(s) = 2 /\ \A i \in 1..2 : s[i] # "Started" /\ s[i] \notin Terminal
  BY <1>3 DEF Terminal
<1>7. Len(t) = 2 /\ \A i \in 1..2 : t[i] # "Started" /\ (t[i] \in Terminal <=> i = 2)
  BY <1>4 DEF Terminal
<1>8. Len(v) = 1 /\ \A i \in 1..1 : v[i] # "Started" /\ (v[i] \in Terminal <=> i = 1)
  BY <1>5 DEF Terminal
<1>9. t \in Epilogues /\ t # <<>> /\ v \in Epilogues /\ v # <<>>
  <2>1. DOMAIN t = 1..2 /\ DOMAIN v = 1..1
    BY <1>7, <1>8
  <2>2. t \in Epilogues /\ v \in Epilogues
    BY <1>7, <1>8, <2>1 DEF Epilogues
  <2>3. DOMAIN t # DOMAIN <<>> /\ DOMAIN v # DOMAIN <<>>
    BY <2>1
  <2>4. t # <<>> /\ v # <<>>
    BY <2>3, Zenon
  <2> QED
    BY <2>2, <2>4
<1>10. s \o t \in Epilogues /\ s \o t # <<>> /\ s \o v \in Epilogues /\ s \o v # <<>>
  BY <1>6, <1>9, EpilogueConcat
<1>11. Epilogue = s \o t \/ Epilogue = s \o v
  BY <1>3, <1>4, <1>5 DEF Epilogue
<1> QED
  BY <1>10, <1>11

LEMMA TaskEmits ==
    ASSUME TypeOK, LogInv, pc \in {"stream", "done"},
           NEW rs \in Seq(Records), NEW es \in Seq(Events), Continues(es), Emit(rs, es),
           ~Has(attempt, Terminal) \/ es = <<>>, UNCHANGED <<pc, attempt>>
    PROVE  /\ LogInv' /\ log' \in [Attempts -> Seq(Events)]
           /\ Has(attempt, Terminal)' <=> Has(attempt, Terminal) \/ Contains(es, Terminal)
<1>1. WellFormed(log[attempt]) /\ log[attempt] # <<>> /\ attempt \in Attempts /\ attempt \in Nat
  BY RetriesAssumption DEF LogInv, TypeOK, Attempts
<1>2. /\ log' \in [Attempts -> Seq(Events)]
      /\ \A a \in Attempts \ {attempt} : log'[a] = log[a]
      /\ WellFormed(log'[attempt]) /\ log'[attempt] # <<>>
      /\ Contains(log'[attempt], Terminal) <=> Has(attempt, Terminal) \/ Contains(es, Terminal)
  BY <1>1, EmitFacts
<1>3. ASSUME NEW a \in Attempts
      PROVE  /\ WellFormed(log'[a])
             /\ a > attempt => log'[a] = <<>>
             /\ a < attempt => GivenUp(a)'
  <2>1. CASE a = attempt
    BY <1>1, <1>2, <2>1
  <2>2. CASE a # attempt
    <3>1. log'[a] = log[a]
      BY <1>2, <2>2
    <3> QED
      BY <3>1 DEF LogInv, GivenUp, Has
  <2> QED
    BY <2>1, <2>2
<1>4. LogInv'
  BY <1>2, <1>3 DEF LogInv, Unanswered
<1> QED
  BY <1>2, <1>4 DEF Has

LEMMA AccumEmitLog ==
    ASSUME TypeOK, LogInv, TaskInv, AccumEmit
    PROVE  /\ LogInv' /\ log' \in [Attempts -> Seq(Events)]
           /\ accum'.todo \in Epilogues
           /\ accum'.todo = <<>> <=> Has(attempt, Terminal)'
<1>1. /\ accum.state = "emit" /\ accum.todo # <<>> /\ UNCHANGED <<pc, attempt>>
      /\ Emit(<<>>, <<Head(accum.todo)>>) /\ accum'.todo = Tail(accum.todo)
  BY DEF AccumEmit, runner, TypeOK
<1>2. PICK t \in Epilogues : t = accum.todo
  BY <1>1 DEF TaskInv
<1>3. PICK e \in Events : e = Head(t)
  BY <1>1, <1>2, EpilogueFacts
<1>4. /\ e # "Started" /\ Tail(t) \in Epilogues
      /\ e \in Terminal <=> Tail(t) = <<>>
  BY <1>1, <1>2, <1>3, EpilogueFacts
<1>5. /\ <<e>> \in Seq(Events) /\ Continues(<<e>>)
      /\ Contains(<<e>>, Terminal) <=> e \in Terminal
  BY <1>4, OneEvent
<1>6. Emit(<<>>, <<e>>) /\ ~Has(attempt, Terminal) /\ pc \in {"stream", "done"}
  BY <1>1, <1>2, <1>3 DEF TaskInv
<1>7. /\ LogInv' /\ log' \in [Attempts -> Seq(Events)]
      /\ Has(attempt, Terminal)' <=> Contains(<<e>>, Terminal)
  BY <1>1, <1>5, <1>6, RecordTuples, TaskEmits
<1> QED
  BY <1>1, <1>2, <1>4, <1>5, <1>7

LEMMA TapRecvLog ==
    ASSUME TypeOK, LogInv, TaskInv, TapRecv
    PROVE  /\ LogInv' /\ log' \in [Attempts -> Seq(Events)]
           /\ Has(attempt, Terminal)' <=> Has(attempt, Terminal)
<1>1. /\ UNCHANGED <<pc, attempt>> /\ tap = "run"
      /\ Emit(<<"Usage">>, <<>>) \/ Emit(<<>>, <<>>)
  BY DEF TapRecv, runner
<1>2. pc \in {"stream", "done"}
  BY <1>1 DEF TaskInv
<1> QED
  BY <1>1, <1>2, RecordTuples, NoEvents, TaskEmits

(***************************************************************************)
(* Every step keeps the attempts in order.                                 *)
(***************************************************************************)
LEMMA LogStep ==
    ASSUME TypeOK, LogInv, TaskInv, [Next]_vars
    PROVE  LogInv' /\ log' \in [Attempts -> Seq(Events)]
<1>1. CASE Runner \/ \E c \in Calls : Start(c)
  BY <1>1, RunnerLog
<1>2. CASE AccumEmit
  BY <1>2, AccumEmitLog
<1>3. CASE TapRecv
  BY <1>3, TapRecvLog
<1>4. CASE UNCHANGED <<log, attempt>> /\ pc' = pc
  BY <1>4 DEF TypeOK, LogInv, GivenUp, Has
<1>5. CASE UNCHANGED <<log, attempt>> /\ pc = "stream" /\ pc' = "done"
  BY <1>5 DEF TypeOK, LogInv, GivenUp, Has, Unanswered
<1>6. CASE Poll \/ DropBody
  <2>1. UNCHANGED <<log, attempt>>
    BY <1>6 DEF Poll, PollFrame, PollUnconvertible, PollPending, PollError, PollRest,
                PollEnd, DropBody, CloseBody, runner
  <2>2. pc = "stream" /\ pc' \in {"stream", "done"}
    BY <1>6 DEF Poll, PollFrame, PollUnconvertible, PollPending, PollError, PollRest,
                PollEnd, DropBody, CloseBody, runner
  <2> QED
    BY <1>4, <1>5, <2>1, <2>2
<1>7. CASE AccumRecv \/ AccumDone \/ TapDone \/ UNCHANGED vars
  BY <1>4, <1>7 DEF AccumRecv, AccumDone, TapDone, runner, vars
<1> QED
  BY <1>1, <1>2, <1>3, <1>6, <1>7 DEF Next, Accum, Tap

-----------------------------------------------------------------------------
(***************************************************************************)
(* Types.                                                                  *)
(***************************************************************************)
NoteType == [note : Notes, frame : Frames]

LEMMA NoteTypes ==
    /\ \A n \in Notes : Note(n) \in NoteType
    /\ \A f \in Frames : NoteFrame(f) \in NoteType
    /\ \A n \in Nat : Items(n) \in Seq(NoteType)
<1>1. \A n \in Notes : Note(n) \in NoteType
  BY DEF Note, NoteType, Frames
<1>2. \A f \in Frames : NoteFrame(f) \in NoteType
  BY DEF NoteFrame, NoteType, Notes
<1>3. Note("Converted") \in NoteType
  BY <1>1 DEF Notes
<1>4. \A n \in Nat : Items(n) \in Seq(NoteType)
  BY <1>3 DEF Items
<1> QED
  BY <1>1, <1>2, <1>4

LEMMA OutputTypes ==
    Outputs \subseteq Nat /\ Tapped \subseteq TapMsgs /\ FramesOf(call.upstream) \subseteq Frames
<1>1. Outputs \subseteq Nat /\ Tapped \subseteq TapMsgs
  BY DEF Outputs, Tapped, TapMsgs
<1>2. FramesOf(call.upstream) \subseteq Frames
  BY DEF FramesOf, Frames
<1> QED
  BY <1>1, <1>2

\* The channels and counters after items are handed out.
LEMMA HandOutTypes ==
    ASSUME TypeOK, NEW n \in Nat, NEW notes \in Seq(NoteType), NEW tapped \in Seq(TapMsgs),
           HandOut(n, notes, tapped)
    PROVE  /\ inbox' \in Seq(NoteType) /\ tapbox' \in Seq(TapMsgs)
           /\ pending' \in Nat /\ delivered' \in Nat
<1>1. inbox \in Seq(NoteType) /\ tapbox \in Seq(TapMsgs) /\ delivered \in Nat
  BY DEF TypeOK, NoteType
<1>2. Items(n) \in Seq(NoteType)
  BY NoteTypes
<1>3. inbox \o notes \o Items(n) \in Seq(NoteType) /\ tapbox \o tapped \in Seq(TapMsgs)
  BY <1>1, <1>2, ConcatProperties
<1> QED
  BY <1>1, <1>3 DEF HandOut

LEMMA CloseBodyType ==
    ASSUME TypeOK, CloseBody PROVE TypeOK'
<1>1. Note("Finish") \in NoteType /\ "Done" \in TapMsgs
  BY NoteTypes DEF Notes, TapMsgs
<1>2. inbox \in Seq(NoteType) /\ tapbox \in Seq(TapMsgs)
  BY DEF TypeOK, NoteType
<1>3. inbox' \in Seq(NoteType) /\ tapbox' \in Seq(TapMsgs)
  BY <1>1, <1>2 DEF CloseBody
<1> QED
  BY <1>3 DEF CloseBody, TypeOK, NoteType, Points

\* The client's polls.
LEMMA PollType ==
    ASSUME TypeOK, Poll \/ DropBody PROVE TypeOK'
<1>0. /\ inbox \in Seq(NoteType) /\ tapbox \in Seq(TapMsgs) /\ received \in Seq(Frames)
      /\ pending \in Nat /\ delivered \in Nat
  BY DEF TypeOK, NoteType
<1>1. ASSUME NEW f \in FramesOf(call.upstream), NEW n \in Outputs, NEW t \in Tapped,
             PollFrame(f, n, t)
      PROVE  TypeOK'
  <2>1. f \in Frames /\ n \in Nat /\ t \in TapMsgs
    BY OutputTypes
  <2>2. <<NoteFrame(f)>> \in Seq(NoteType) /\ <<t>> \in Seq(TapMsgs)
    BY <2>1, NoteTypes
  <2>3. /\ inbox' \in Seq(NoteType) /\ tapbox' \in Seq(TapMsgs)
        /\ pending' \in Nat /\ delivered' \in Nat
    BY <1>1, <2>1, <2>2, HandOutTypes DEF PollFrame
  <2>4. received' \in Seq(Frames)
    BY <1>0, <1>1, <2>1 DEF PollFrame
  <2> QED
    BY <1>1, <2>3, <2>4 DEF PollFrame, TypeOK, NoteType, runner
<1>2. ASSUME NEW f \in FramesOf(call.upstream), PollUnconvertible(f) PROVE TypeOK'
  <2>1. f \in Frames
    BY OutputTypes
  <2>2. NoteFrame(f) \in NoteType /\ Note("ConvertedError") \in NoteType
    BY <2>1, NoteTypes DEF Notes
  <2>3. <<NoteFrame(f), Note("ConvertedError")>> \in Seq(NoteType)
    BY <2>2
  <2>4. inbox' \in Seq(NoteType)
    BY <1>0, <1>2, <2>3, ConcatProperties DEF PollUnconvertible
  <2>5. tapbox' \in Seq(TapMsgs)
    <3>1. PICK seen \in {"Usage", "Parsed"} : tapbox' = tapbox \o <<seen, "Error">>
      BY <1>2 DEF PollUnconvertible
    <3>2. <<seen, "Error">> \in Seq(TapMsgs)
      BY DEF TapMsgs
    <3> QED
      BY <1>0, <3>1, <3>2, ConcatProperties
  <2>6. received' \in Seq(Frames)
    BY <1>0, <1>2, <2>1 DEF PollUnconvertible
  <2> QED
    BY <1>2, <2>4, <2>5, <2>6 DEF PollUnconvertible, TypeOK, NoteType, runner
<1>3. CASE PollPending
  <2>1. Note("Converted") \in NoteType
    BY NoteTypes DEF Notes
  <2>2. inbox' \in Seq(NoteType) /\ pending' \in Nat /\ delivered' \in Nat
    BY <1>0, <1>3, <2>1 DEF PollPending
  <2> QED
    BY <1>3, <2>2 DEF PollPending, TypeOK, NoteType, runner
<1>4. CASE PollError
  <2>1. Note("UpstreamError") \in NoteType /\ Note("ConvertedError") \in NoteType
    BY NoteTypes DEF Notes
  <2>2. <<Note("UpstreamError"), Note("ConvertedError")>> \in Seq(NoteType) /\ "Error" \in TapMsgs
    BY <2>1 DEF TapMsgs
  <2>3. inbox' \in Seq(NoteType) /\ tapbox' \in Seq(TapMsgs)
    BY <1>0, <1>4, <2>2, ConcatProperties DEF PollError
  <2> QED
    BY <1>4, <2>3 DEF PollError, TypeOK, NoteType, runner
<1>5. CASE PollRest
  <2>1. /\ inbox' \in Seq(NoteType) /\ tapbox' \in Seq(TapMsgs)
        /\ pending' \in Nat /\ delivered' \in Nat
    <3>1. ASSUME NEW n \in Outputs \ {0}, HandOut(n, <<>>, <<>>)
          PROVE  /\ inbox' \in Seq(NoteType) /\ tapbox' \in Seq(TapMsgs)
                 /\ pending' \in Nat /\ delivered' \in Nat
      <4>1. n \in Nat /\ <<>> \in Seq(NoteType) /\ <<>> \in Seq(TapMsgs)
        BY OutputTypes
      <4> QED
        BY <3>1, <4>1, HandOutTypes
    <3>2. Note("ConvertedError") \in NoteType /\ "Error" \in TapMsgs
      BY NoteTypes DEF Notes, TapMsgs
    <3>3. Append(inbox, Note("ConvertedError")) \in Seq(NoteType)
      BY <1>0, <3>2
    <3>4. Append(tapbox, "Error") \in Seq(TapMsgs)
      BY <1>0, <3>2
    <3>5. \/ \E n \in Outputs \ {0} : HandOut(n, <<>>, <<>>)
          \/ /\ inbox' = Append(inbox, Note("ConvertedError"))
             /\ tapbox' = Append(tapbox, "Error")
             /\ UNCHANGED <<pending, delivered>>
      BY <1>5 DEF PollRest
    <3> QED
      BY <1>0, <3>1, <3>3, <3>4, <3>5
  <2> QED
    BY <1>5, <2>1 DEF PollRest, TypeOK, NoteType, runner
<1>6. CASE PollEnd \/ DropBody
  BY <1>6, CloseBodyType DEF PollEnd, DropBody
<1> QED
  BY <1>1, <1>2, <1>3, <1>4, <1>5, <1>6 DEF Poll

\* What AccumHelper does with a note.
LEMMA AccumRecvCases ==
    ASSUME AccumRecv, NEW m, m = Head(inbox)
    PROVE  \/ accum' = [accum EXCEPT !.upstream = Append(accum.upstream, m.frame)]
           \/ accum' = [accum EXCEPT !.converted = accum.converted + 1]
           \/ accum' = [accum EXCEPT !.state = "emit", !.todo = Epilogue]
           \/ accum' = [accum EXCEPT !.failed = TRUE]
<1>1. accum' = CASE m.note = "Upstream"  -> [accum EXCEPT !.upstream = Append(@, m.frame)]
                 [] m.note = "Converted" -> [accum EXCEPT !.converted = @ + 1]
                 [] m.note = "Finish"    -> [accum EXCEPT !.state = "emit", !.todo = Epilogue]
                 [] OTHER                -> [accum EXCEPT !.failed = TRUE]
  BY DEF AccumRecv
<1>2. CASE m.note = "Upstream"
  BY <1>1, <1>2
<1>3. CASE m.note = "Converted"
  BY <1>1, <1>3
<1>4. CASE m.note = "Finish"
  BY <1>1, <1>4
<1>5. CASE m.note \notin {"Upstream", "Converted", "Finish"}
  BY <1>1, <1>5
<1> QED
  BY <1>2, <1>3, <1>4, <1>5

\* The tasks' steps, given the type of the log.
LEMMA TaskType ==
    ASSUME TypeOK, FinalizersInv, TaskInv, log' \in [Attempts -> Seq(Events)], Accum \/ Tap
    PROVE  TypeOK'
<1>0. /\ inbox \in Seq(NoteType) /\ tapbox \in Seq(TapMsgs)
      /\ accum \in [state : {"off", "run", "emit", "done"}, upstream : Seq(Frames),
                    converted : Nat, failed : BOOLEAN, todo : Seq(Events)]
  BY DEF TypeOK, NoteType
<1>1. CASE AccumRecv
  <2>1. inbox # <<>>
    BY <1>1 DEF AccumRecv
  <2>2. PICK m \in NoteType : m = Head(inbox)
    BY <1>0, <2>1
  <2>3. inbox' \in Seq(NoteType)
    BY <1>0, <1>1, <2>1 DEF AccumRecv
  <2>4. Append(accum.upstream, m.frame) \in Seq(Frames)
    BY <1>0 DEF NoteType
  <2>5. PICK e \in Seq(Events) : e = Epilogue
    BY EpilogueType DEF Epilogues
  <2>6. \/ accum' = [accum EXCEPT !.upstream = Append(accum.upstream, m.frame)]
        \/ accum' = [accum EXCEPT !.converted = accum.converted + 1]
        \/ accum' = [accum EXCEPT !.state = "emit", !.todo = e]
        \/ accum' = [accum EXCEPT !.failed = TRUE]
    BY <1>1, <2>2, <2>5, AccumRecvCases
  <2>7. accum' \in [state : {"off", "run", "emit", "done"}, upstream : Seq(Frames),
                    converted : Nat, failed : BOOLEAN, todo : Seq(Events)]
    <3>1. CASE accum' = [accum EXCEPT !.upstream = Append(accum.upstream, m.frame)]
      <4>1. PICK w \in Seq(Frames) : w = Append(accum.upstream, m.frame)
        BY <2>4
      <4>2. accum' = [accum EXCEPT !.upstream = w]
        BY <3>1, <4>1
      <4> QED
        BY <1>0, <4>2
    <3>2. CASE accum' = [accum EXCEPT !.converted = accum.converted + 1]
      <4>1. PICK n \in Nat : n = accum.converted + 1
        BY <1>0
      <4>2. accum' = [accum EXCEPT !.converted = n]
        BY <3>2, <4>1
      <4> QED
        BY <1>0, <4>2
    <3>3. CASE accum' = [accum EXCEPT !.state = "emit", !.todo = e]
      BY <1>0, <3>3
    <3>4. CASE accum' = [accum EXCEPT !.failed = TRUE]
      BY <1>0, <3>4
    <3> QED
      BY <2>6, <3>1, <3>2, <3>3, <3>4
  <2> QED
    BY <1>1, <2>3, <2>7 DEF AccumRecv, TypeOK, NoteType, runner, body
<1>2. CASE AccumEmit
  <2>1. accum.todo \in Seq(Events) /\ accum.todo # <<>>
    BY <1>0, <1>2 DEF AccumEmit
  <2>2. Tail(accum.todo) \in Seq(Events)
    BY <2>1
  <2>3. accum' = [accum EXCEPT !.todo = Tail(accum.todo)]
    BY <1>2 DEF AccumEmit
  <2>4. accum' \in [state : {"off", "run", "emit", "done"}, upstream : Seq(Frames),
                    converted : Nat, failed : BOOLEAN, todo : Seq(Events)]
    BY <1>0, <2>2, <2>3
  <2> QED
    BY <1>2, <2>4 DEF AccumEmit, TypeOK, runner, body
<1>3. CASE AccumDone
  <2>1. finalizers' \in 0..2
    BY <1>3 DEF AccumDone, FinalizersInv
  <2>2. accum' \in [state : {"off", "run", "emit", "done"}, upstream : Seq(Frames),
                    converted : Nat, failed : BOOLEAN, todo : Seq(Events)]
    BY <1>0, <1>3 DEF AccumDone
  <2> QED
    BY <1>3, <2>1, <2>2 DEF AccumDone, TypeOK, runner, body
<1>4. CASE TapRecv
  <2>1. tapbox' \in Seq(TapMsgs)
    BY <1>0, <1>4 DEF TapRecv
  <2> QED
    BY <1>4, <2>1 DEF TapRecv, TypeOK, runner, body
<1>5. CASE TapDone
  <2>1. finalizers' \in 0..2
    BY <1>5 DEF TapDone, FinalizersInv
  <2> QED
    BY <1>5, <2>1 DEF TapDone, TypeOK, runner, body
<1> QED
  BY <1>1, <1>2, <1>3, <1>4, <1>5 DEF Accum, Tap

\* The runner's steps, given the type of the log.
LEMMA RunnerType ==
    ASSUME TypeOK, LogInv, TaskInv, FinalizersInv, log' \in [Attempts -> Seq(Events)],
           Runner \/ \E c \in Calls : Start(c)
    PROVE  TypeOK'
<1>1. ASSUME NEW c \in Calls, Start(c) PROVE TypeOK'
  BY <1>1 DEF Start, TypeOK, tasks, body, Points, Stages
<1>2. CASE Prepare
  BY <1>2 DEF Prepare, NextStage, TypeOK, tasks, body, Points, Stages
<1>3. ASSUME NEW rs, NEW e, NEW again, Fail(rs, e, again), recoverable' \in BOOLEAN
      PROVE  TypeOK'
  BY <1>3 DEF Fail, TypeOK, tasks, body, Points
<1>4. CASE PrepareFails \/ DryRun \/ ProviderFails \/ BufferedFails
  <2>1. recoverable' \in BOOLEAN
    BY <1>4 DEF PrepareFails, DryRun, ProviderFails, BufferedFails, TypeOK
  <2>2. \E rs, e, again : Fail(rs, e, again)
    BY <1>4 DEF PrepareFails, DryRun, ProviderFails, BufferedFails
  <2> QED
    BY <1>3, <2>1, <2>2
<1>5. CASE Dispatch
  BY <1>5 DEF Dispatch, TypeOK, tasks, body, Points
<1>6. CASE ErrorStatus
  <2>1. recoverable' \in BOOLEAN
    BY <1>6, CallsAssumption DEF ErrorStatus, TypeOK, Call
  <2> QED
    BY <1>6, <2>1 DEF ErrorStatus, TypeOK, tasks, body, Points
<1>7. CASE ErrorBody
  <2>1. recoverable' \in BOOLEAN
    BY <1>7 DEF ErrorBody
  <2>2. \E rs, e, again : Fail(rs, e, again)
    BY <1>7 DEF ErrorBody
  <2> QED
    BY <1>3, <2>1, <2>2
<1>8. CASE Answered
  BY <1>8 DEF Answered, TypeOK, tasks, body, Points, Stages
<1>9. CASE RetryAfterBackoff
  <2>1. attempt + 1 \in Attempts
    BY <1>9, RetriesAssumption DEF RetryAfterBackoff, LogInv, TypeOK, Attempts
  <2> QED
    BY <1>9, <2>1 DEF RetryAfterBackoff, TypeOK, tasks, body, Points, Stages
<1>10. CASE Buffered
  BY <1>10 DEF Buffered, TypeOK, tasks, body, Points
<1>11. CASE OpenStream
  <2>1. accum.state = "off" /\ tap = "off" /\ finalizers = 0
    BY <1>11 DEF OpenStream, TaskInv, FinalizersInv
  <2>2. accum' = [state |-> "run", upstream |-> <<>>, converted |-> 0,
                  failed |-> FALSE, todo |-> <<>>]
    BY <1>11 DEF OpenStream, NoTask
  <2>3. accum' \in [state : {"off", "run", "emit", "done"}, upstream : Seq(Frames),
                    converted : Nat, failed : BOOLEAN, todo : Seq(Events)]
    BY <2>2
  <2>4. finalizers' \in 0..2
    BY <1>11, <2>1 DEF OpenStream
  <2> QED
    BY <1>11, <2>3, <2>4 DEF OpenStream, TypeOK, body, Points
<1>12. CASE Cancel
  BY <1>12 DEF Cancel, TypeOK, tasks, body, Points
<1> QED
  BY <1>1, <1>2, <1>4, <1>5, <1>6, <1>7, <1>8, <1>9, <1>10, <1>11, <1>12 DEF Runner

LEMMA TypeStep ==
    ASSUME PipelineInv, [Next]_vars
    PROVE  TypeOK'
<1>1. log' \in [Attempts -> Seq(Events)]
  BY LogStep DEF PipelineInv
<1>2. CASE Runner \/ \E c \in Calls : Start(c)
  BY <1>1, <1>2, RunnerType DEF PipelineInv
<1>3. CASE Poll \/ DropBody
  BY <1>3, PollType DEF PipelineInv
<1>4. CASE Accum \/ Tap
  BY <1>1, <1>4, TaskType DEF PipelineInv
<1>5. CASE UNCHANGED vars
  BY <1>5 DEF PipelineInv, TypeOK, vars
<1> QED
  BY <1>2, <1>3, <1>4, <1>5 DEF Next

-----------------------------------------------------------------------------
(***************************************************************************)
(* The tasks.                                                              *)
(***************************************************************************)
LEMMA FinalizersStep ==
    ASSUME PipelineInv, [Next]_vars
    PROVE  FinalizersInv'
<1> USE DEF PipelineInv
<1>0. accum \in [state : {"off", "run", "emit", "done"}, upstream : Seq(Frames),
                 converted : Nat, failed : BOOLEAN, todo : Seq(Events)]
  BY DEF TypeOK
<1>1. CASE UNCHANGED <<tap, finalizers>> /\ accum'.state = accum.state
  BY <1>1 DEF FinalizersInv
<1>2. CASE UNCHANGED tasks \/ UNCHANGED vars
  BY <1>1, <1>2 DEF tasks, vars
<1>3. CASE OpenStream
  <2>1. accum.state = "off" /\ tap = "off"
    BY <1>3 DEF OpenStream, TaskInv
  <2>2. accum'.state = "run" /\ tap' = "run" /\ finalizers' = finalizers + 2
    BY <1>3 DEF OpenStream, NoTask
  <2> QED
    BY <2>1, <2>2 DEF FinalizersInv
<1>4. CASE Poll \/ DropBody
  <2>1. UNCHANGED <<accum, tap, finalizers>>
    BY <1>4 DEF Poll, PollFrame, PollUnconvertible, PollPending, PollError, PollRest,
                PollEnd, DropBody, CloseBody
  <2> QED
    BY <1>1, <2>1
<1>5. CASE AccumRecv
  <2>1. UNCHANGED <<tap, finalizers>> /\ accum.state = "run"
    BY <1>5 DEF AccumRecv
  <2>2. accum'.state \in {"run", "emit"}
    BY <1>0, <1>5, <2>1, AccumRecvCases
  <2> QED
    BY <2>1, <2>2 DEF FinalizersInv
<1>6. CASE AccumEmit
  <2>1. UNCHANGED <<tap, finalizers>> /\ accum'.state = accum.state
    BY <1>0, <1>6 DEF AccumEmit
  <2> QED
    BY <1>1, <2>1
<1>7. CASE AccumDone
  <2>1. /\ accum.state = "emit" /\ accum'.state = "done" /\ UNCHANGED tap
        /\ finalizers' = finalizers - 1
    BY <1>0, <1>7 DEF AccumDone
  <2> QED
    BY <2>1 DEF FinalizersInv
<1>8. CASE TapRecv
  <2>1. /\ tap = "run" /\ tap' \in {"run", "stopping"} /\ UNCHANGED <<accum, finalizers>>
    BY <1>8 DEF TapRecv
  <2> QED
    BY <2>1 DEF FinalizersInv
<1>9. CASE TapDone
  <2>1. /\ tap = "stopping" /\ tap' = "done" /\ UNCHANGED accum
        /\ finalizers' = finalizers - 1
    BY <1>9 DEF TapDone
  <2> QED
    BY <2>1 DEF FinalizersInv
<1>10. ASSUME NEW c \in Calls, Start(c) PROVE UNCHANGED tasks
  BY <1>10 DEF Start
<1>11. Runner => UNCHANGED tasks \/ OpenStream
  BY DEF Runner, Prepare, PrepareFails, DryRun, Dispatch, ProviderFails, ErrorStatus,
         ErrorBody, Answered, RetryAfterBackoff, Buffered, BufferedFails, Cancel, Fail
<1> QED
  BY <1>2, <1>3, <1>4, <1>5, <1>6, <1>7, <1>8, <1>9, <1>10, <1>11 DEF Next, Accum, Tap

LEMMA TaskStep ==
    ASSUME PipelineInv, [Next]_vars
    PROVE  TaskInv'
<1> USE DEF PipelineInv
<1>0. accum \in [state : {"off", "run", "emit", "done"}, upstream : Seq(Frames),
                 converted : Nat, failed : BOOLEAN, todo : Seq(Events)]
  BY DEF TypeOK
<1>1. CASE UNCHANGED <<pc, accum, tap, log, attempt>>
  BY <1>1 DEF TaskInv, Has
<1>2. CASE UNCHANGED <<accum, tap>> /\ accum.state = "off"
  BY <1>2 DEF TaskInv
<1>3. CASE OpenStream
  <2>1. /\ pc = "ConvertResponse" /\ pc' = "stream" /\ attempt' = attempt
        /\ accum'.state = "run" /\ tap' = "run" /\ Emit(<<>>, <<"ConvertResponse">>)
    BY <1>3 DEF OpenStream, NoTask
  <2>2. ~Has(attempt, Terminal)'
    BY <2>1, RunnerEmits, RecordTuples, StageEvents
  <2> QED
    BY <2>1, <2>2 DEF TaskInv
<1>4. CASE UNCHANGED <<accum, tap, log, attempt>> /\ pc = "stream" /\ pc' \in {"stream", "done"}
  BY <1>4 DEF TaskInv, Has
<1>5. CASE Poll \/ DropBody
  <2>1. UNCHANGED <<accum, tap, log, attempt>>
    BY <1>5 DEF Poll, PollFrame, PollUnconvertible, PollPending, PollError, PollRest,
                PollEnd, DropBody, CloseBody, runner
  <2>2. pc = "stream" /\ pc' \in {"stream", "done"}
    BY <1>5 DEF Poll, PollFrame, PollUnconvertible, PollPending, PollError, PollRest,
                PollEnd, DropBody, CloseBody, runner
  <2> QED
    BY <1>4, <2>1, <2>2
<1>6. CASE AccumRecv
  <2>1. UNCHANGED <<pc, tap, log, attempt>> /\ accum.state = "run"
    BY <1>6 DEF AccumRecv, runner
  <2>2. /\ pc \in {"stream", "done"} /\ tap # "off" /\ ~Has(attempt, Terminal)
        /\ ~Has(attempt, Terminal)'
    BY <2>1 DEF TaskInv, Has
  <2>3. \/ accum'.state = "run"
        \/ accum'.state = "emit" /\ accum'.todo = Epilogue
    BY <1>0, <1>6, <2>1, AccumRecvCases
  <2>4. PICK t \in Epilogues : t = Epilogue /\ t # <<>>
    BY EpilogueType
  <2>5. accum'.state = "run" \/ (accum'.state = "emit" /\ accum'.todo = t)
    BY <2>3, <2>4
  <2> QED
    BY <2>1, <2>2, <2>4, <2>5 DEF TaskInv
<1>7. CASE AccumEmit
  <2>1. UNCHANGED <<pc, tap>> /\ accum.state = "emit" /\ accum'.state = "emit"
    BY <1>0, <1>7 DEF AccumEmit, runner
  <2>2. /\ accum'.todo \in Epilogues
        /\ accum'.todo = <<>> <=> Has(attempt, Terminal)'
    BY <1>7, AccumEmitLog
  <2> QED
    BY <2>1, <2>2 DEF TaskInv
<1>8. CASE AccumDone
  <2>1. /\ UNCHANGED <<pc, tap, log, attempt>> /\ accum.state = "emit"
        /\ accum'.state = "done"
    BY <1>0, <1>8 DEF AccumDone, runner
  <2> QED
    BY <2>1 DEF TaskInv
<1>9. CASE TapRecv
  <2>1. UNCHANGED <<pc, accum>> /\ tap = "run" /\ tap' # "off"
    BY <1>9 DEF TapRecv, runner
  <2>2. Has(attempt, Terminal)' <=> Has(attempt, Terminal)
    BY <1>9, TapRecvLog
  <2> QED
    BY <2>1, <2>2 DEF TaskInv
<1>10. CASE TapDone
  <2>1. UNCHANGED <<pc, accum, log, attempt>> /\ tap # "off" /\ tap' # "off"
    BY <1>10 DEF TapDone, runner
  <2> QED
    BY <2>1 DEF TaskInv, Has
<1>11. CASE UNCHANGED tasks /\ pc \notin {"stream", "done"}
  BY <1>2, <1>11 DEF tasks, TaskInv
<1>12. ASSUME NEW c \in Calls, Start(c) PROVE UNCHANGED tasks /\ pc \notin {"stream", "done"}
  BY <1>12 DEF Start
<1>13. Runner => \/ UNCHANGED tasks /\ pc \notin {"stream", "done"}
                 \/ OpenStream
  BY DEF Runner, Prepare, PrepareFails, DryRun, Dispatch, ProviderFails, ErrorStatus,
         ErrorBody, Answered, RetryAfterBackoff, Buffered, BufferedFails, Cancel, Fail,
         NextStage, Stages
<1>14. UNCHANGED vars => UNCHANGED <<pc, accum, tap, log, attempt>>
  BY DEF vars
<1> QED
  BY <1>1, <1>3, <1>5, <1>6, <1>7, <1>8, <1>9, <1>10, <1>11, <1>12, <1>13, <1>14
     DEF Next, Accum, Tap

-----------------------------------------------------------------------------
(***************************************************************************)
(* Every state of a run has its type, the retry counter stays within       *)
(* max_retries, and the parts above hold (run_with, AccumHelper).          *)
(***************************************************************************)
THEOREM TypeCorrect == Spec => [](TypeOK /\ PipelineInv)
<1>1. Init => PipelineInv
  <2> SUFFICES ASSUME Init PROVE PipelineInv
    OBVIOUS
  <2>1. call \in Calls /\ 0 \in Attempts
    BY CallsAssumption, RetriesAssumption DEF Init, Attempts
  <2>2. accum \in [state : {"off", "run", "emit", "done"}, upstream : Seq(Frames),
                   converted : Nat, failed : BOOLEAN, todo : Seq(Events)]
    BY DEF Init, NoTask
  <2>3. TypeOK
    BY <2>1, <2>2 DEF Init, TypeOK, Points
  <2>4. \A a \in Attempts : log[a] = <<>> /\ WellFormed(log[a]) /\ ~(a < attempt)
    BY RetriesAssumption DEF Init, WellFormed, Attempts
  <2>5. LogInv
    BY <2>1, <2>4 DEF Init, LogInv, Unanswered
  <2>6. TaskInv /\ FinalizersInv
    BY DEF Init, TaskInv, FinalizersInv, NoTask
  <2> QED
    BY <2>3, <2>5, <2>6 DEF PipelineInv
<1>2. PipelineInv /\ [Next]_vars => PipelineInv'
  BY TypeStep, LogStep, TaskStep, FinalizersStep DEF PipelineInv
<1>3. PipelineInv => TypeOK
  BY DEF PipelineInv
<1> QED
  BY <1>1, <1>2, <1>3, PTL DEF Spec

(***************************************************************************)
(* No attempt is completed twice, and nothing but a record follows its     *)
(* Completed, however runner, cancellation and tasks interleave.           *)
(***************************************************************************)
THEOREM OneTerminalEventCorrect == Spec => []OneTerminalEvent
<1>1. PipelineInv => OneTerminalEvent
  BY DEF PipelineInv, LogInv, OneTerminalEvent
<1> QED
  BY <1>1, TypeCorrect, PTL

(***************************************************************************)
(* A run sends its request again only when the attempt before was closed   *)
(* as failed without an answer, for any max_retries (should_retry).        *)
(***************************************************************************)
THEOREM RetryOnlyUnansweredCorrect == Spec => []RetryOnlyUnanswered
<1>1. PipelineInv => RetryOnlyUnanswered
  <2> SUFFICES ASSUME PipelineInv, NEW a \in Attempts, a + 1 \in Attempts, log[a + 1] # <<>>
               PROVE  Has(a, {"CompletedFailed"}) /\ ~Has(a, {"Send", "CompletedOk"})
    BY DEF RetryOnlyUnanswered
  <2>1. a \in Nat /\ attempt \in Nat
    BY RetriesAssumption DEF PipelineInv, TypeOK, Attempts
  <2>2. ~(a + 1 > attempt)
    BY DEF PipelineInv, LogInv
  <2>3. a < attempt
    BY <2>1, <2>2
  <2> QED
    BY <2>3 DEF PipelineInv, LogInv, GivenUp, Answer
<1> QED
  BY <1>1, TypeCorrect, PTL

(***************************************************************************)
(* A run whose stream holds no finalizer has emitted all it ever will:     *)
(* what EventBus::shutdown relies on.                                      *)
(***************************************************************************)
THEOREM FinalizersCoverStreamCorrect == Spec => FinalizersCoverStream
<1>1. PipelineInv /\ [Next]_vars =>
        [finalizers = 0 /\ accum.state # "off" => UNCHANGED log]_vars
  <2> SUFFICES ASSUME PipelineInv, Next, finalizers = 0, accum.state # "off"
               PROVE  UNCHANGED log
    OBVIOUS
  <2>1. pc \in {"stream", "done"}
    BY DEF PipelineInv, TaskInv
  <2>2. accum.state \notin {"run", "emit"} /\ tap \notin {"run", "stopping"}
    BY DEF PipelineInv, FinalizersInv
  <2>3. ~Runner /\ ~\E c \in Calls : Start(c)
    BY <2>1 DEF Runner, Start, Prepare, PrepareFails, DryRun, Dispatch, ProviderFails,
         ErrorStatus, ErrorBody, Answered, RetryAfterBackoff, Buffered, BufferedFails,
         Cancel, OpenStream, NextStage, Stages
  <2>4. ~Accum /\ ~Tap
    BY <2>2 DEF Accum, AccumRecv, AccumEmit, AccumDone, Tap, TapRecv, TapDone
  <2>5. Poll \/ DropBody => UNCHANGED log
    BY DEF Poll, PollFrame, PollUnconvertible, PollPending, PollError, PollRest,
           PollEnd, DropBody, CloseBody
  <2> QED
    BY <2>3, <2>4, <2>5 DEF Next
<1> QED
  BY <1>1, TypeCorrect, PTL DEF Spec, FinalizersCoverStream

(***************************************************************************)
(* The events of a run are well formed for every call, any number of       *)
(* retries and any length of stream.                                       *)
(***************************************************************************)
THEOREM AttemptsSoundCorrect == Spec => []AttemptsSound
<1>1. TypeOK /\ OneTerminalEvent /\ RetryOnlyUnanswered => AttemptsSound
  BY DEF AttemptsSound
<1> QED
  BY <1>1, TypeCorrect, OneTerminalEventCorrect, RetryOnlyUnansweredCorrect, PTL

-----------------------------------------------------------------------------
(***************************************************************************)
(* The accumulator's channel.  The notes in box take an accumulator that   *)
(* has gathered the frames up and conv items to the frames rec and del     *)
(* items: u and c count frames and items after each note of the box.       *)
(***************************************************************************)
Counts(u, c, box, up, conv, rec, del) ==
    /\ u \in [0..Len(box) -> 0..Len(rec)] /\ c \in [0..Len(box) -> Nat]
    /\ u[0] = Len(up) /\ u[Len(box)] = Len(rec)
    /\ c[0] = conv /\ c[Len(box)] = del
    /\ \A i \in 1..Len(box) :
         /\ u[i] = IF box[i].note = "Upstream" THEN u[i - 1] + 1 ELSE u[i - 1]
         /\ c[i] = IF box[i].note = "Converted" THEN c[i - 1] + 1 ELSE c[i - 1]
         /\ box[i].note = "Upstream" => rec[u[i]] = box[i].frame
    /\ \A i \in 1..Len(up) : up[i] = rec[i]

Tracked(box, up, conv, rec, del) == \E u, c : Counts(u, c, box, up, conv, rec, del)

\* A note is put into the channel with what it notes.
LEMMA AppendNote ==
    ASSUME NEW box \in Seq(NoteType), NEW up \in Seq(Frames), NEW conv \in Nat,
           NEW rec \in Seq(Frames), NEW del \in Nat, NEW m \in NoteType,
           NEW rec2 \in Seq(Frames), NEW del2 \in Nat,
           rec2 = IF m.note = "Upstream" THEN Append(rec, m.frame) ELSE rec,
           del2 = IF m.note = "Converted" THEN del + 1 ELSE del,
           Tracked(box, up, conv, rec, del)
    PROVE  Tracked(Append(box, m), up, conv, rec2, del2)
<1>1. PICK u, c : Counts(u, c, box, up, conv, rec, del)
  BY DEF Tracked
<1>2. PICK n \in Nat : n = Len(box)
  OBVIOUS
<1>3. PICK b \in Seq(NoteType) : b = Append(box, m)
  BY AppendProperties, Zenon
<1>4. Len(b) = n + 1 /\ b[n + 1] = m /\ \A i \in 1..n : b[i] = box[i]
  BY <1>2, <1>3
<1>5. /\ Len(rec2) = IF m.note = "Upstream" THEN Len(rec) + 1 ELSE Len(rec)
      /\ m.note = "Upstream" => rec2[Len(rec) + 1] = m.frame
      /\ \A i \in 1..Len(rec) : rec2[i] = rec[i]
      /\ Len(rec) \in Nat /\ Len(rec2) \in Nat /\ Len(up) \in Nat
  <2>1. CASE m.note = "Upstream"
    <3>1. PICK f \in Frames : f = m.frame
      BY DEF NoteType
    <3>2. rec2 = Append(rec, f)
      BY <2>1, <3>1
    <3> QED
      BY <2>1, <3>1, <3>2
  <2>2. CASE m.note # "Upstream"
    BY <2>2
  <2> QED
    BY <2>1, <2>2
<1> DEFINE v == [i \in 0..(n + 1) |-> IF i = n + 1 THEN Len(rec2) ELSE u[i]]
           d == [i \in 0..(n + 1) |-> IF i = n + 1 THEN del2 ELSE c[i]]
<1>6. /\ u \in [0..n -> 0..Len(rec)] /\ c \in [0..n -> Nat]
      /\ u[0] = Len(up) /\ u[n] = Len(rec) /\ c[0] = conv /\ c[n] = del
      /\ \A i \in 1..Len(up) : up[i] = rec[i]
  BY <1>1, <1>2 DEF Counts
<1>7. \A i \in 1..n :
         /\ u[i] = IF box[i].note = "Upstream" THEN u[i - 1] + 1 ELSE u[i - 1]
         /\ c[i] = IF box[i].note = "Converted" THEN c[i - 1] + 1 ELSE c[i - 1]
         /\ box[i].note = "Upstream" => rec[u[i]] = box[i].frame
  BY <1>1, <1>2 DEF Counts
<1>8. /\ v \in [0..(n + 1) -> 0..Len(rec2)] /\ d \in [0..(n + 1) -> Nat]
      /\ v[0] = Len(up) /\ v[n + 1] = Len(rec2) /\ d[0] = conv /\ d[n + 1] = del2
      /\ \A i \in 0..n : v[i] = u[i] /\ d[i] = c[i]
  BY <1>5, <1>6
<1>9. ASSUME NEW i \in 1..(n + 1)
      PROVE  /\ v[i] = IF b[i].note = "Upstream" THEN v[i - 1] + 1 ELSE v[i - 1]
             /\ d[i] = IF b[i].note = "Converted" THEN d[i - 1] + 1 ELSE d[i - 1]
             /\ b[i].note = "Upstream" => rec2[v[i]] = b[i].frame
  <2> HIDE DEF v, d
  <2>1. CASE i = n + 1
    <3>1. i - 1 = n /\ v[n] = Len(rec) /\ d[n] = del /\ b[i] = m
      BY <1>4, <1>6, <1>8, <2>1
    <3> QED
      BY <1>5, <1>8, <2>1, <3>1
  <2>2. CASE i \in 1..n
    <3>0. i - 1 \in 0..n /\ i \in 0..n
      BY <2>2
    <3>1. /\ i - 1 \in 0..n /\ i \in 0..n /\ b[i] = box[i]
          /\ v[i] = u[i] /\ d[i] = c[i] /\ v[i - 1] = u[i - 1] /\ d[i - 1] = c[i - 1]
      BY <1>4, <1>8, <2>2, <3>0
    <3>2. box[i].note = "Upstream" => u[i] \in 1..Len(rec)
      <4>1. u[i] \in 0..Len(rec) /\ u[i - 1] \in 0..Len(rec)
        BY <1>6, <3>1
      <4> QED
        BY <1>5, <1>7, <2>2, <4>1
    <3> QED
      BY <1>5, <1>7, <2>2, <3>1, <3>2
  <2>3. i = n + 1 \/ i \in 1..n
    OBVIOUS
  <2> QED
    BY <2>1, <2>2, <2>3
<1>10. Len(up) =< Len(rec)
  BY <1>5, <1>6
<1>11. \A i \in 1..Len(up) : up[i] = rec2[i]
  BY <1>5, <1>6, <1>10
<1>12. Counts(v, d, b, up, conv, rec2, del2)
  <2> HIDE DEF v, d
  <2> QED
    BY <1>4, <1>8, <1>9, <1>11 DEF Counts
<1> QED
  BY <1>3, <1>12 DEF Tracked

\* The accumulator takes the oldest note.
LEMMA TakeNote ==
    ASSUME NEW box \in Seq(NoteType), NEW up \in Seq(Frames), NEW conv \in Nat,
           NEW rec \in Seq(Frames), NEW del \in Nat, box # <<>>,
           NEW m \in NoteType, m = Head(box),
           NEW up2 \in Seq(Frames), NEW conv2 \in Nat,
           up2 = IF m.note = "Upstream" THEN Append(up, m.frame) ELSE up,
           conv2 = IF m.note = "Converted" THEN conv + 1 ELSE conv,
           Tracked(box, up, conv, rec, del)
    PROVE  Tracked(Tail(box), up2, conv2, rec, del)
<1>1. PICK u, c : Counts(u, c, box, up, conv, rec, del)
  BY DEF Tracked
<1>2. PICK n \in Nat : n + 1 = Len(box)
  OBVIOUS
<1>3. PICK b \in Seq(NoteType) : b = Tail(box)
  BY HeadTailProperties, Zenon
<1>4. Len(b) = n /\ m = box[1] /\ \A i \in 1..n : b[i] = box[i + 1]
  BY <1>2, <1>3
<1>5. /\ Len(up2) = IF m.note = "Upstream" THEN Len(up) + 1 ELSE Len(up)
      /\ m.note = "Upstream" => up2[Len(up) + 1] = m.frame
      /\ \A i \in 1..Len(up) : up2[i] = up[i]
      /\ Len(rec) \in Nat /\ Len(up) \in Nat /\ Len(up2) \in Nat
  <2>1. CASE m.note = "Upstream"
    <3>1. PICK f \in Frames : f = m.frame
      BY DEF NoteType
    <3>2. up2 = Append(up, f)
      BY <2>1, <3>1
    <3> QED
      BY <2>1, <3>1, <3>2
  <2>2. CASE m.note # "Upstream"
    BY <2>2
  <2> QED
    BY <2>1, <2>2
<1>6. /\ u \in [0..(n + 1) -> 0..Len(rec)] /\ c \in [0..(n + 1) -> Nat]
      /\ u[0] = Len(up) /\ u[n + 1] = Len(rec) /\ c[0] = conv /\ c[n + 1] = del
      /\ \A i \in 1..Len(up) : up[i] = rec[i]
  BY <1>1, <1>2 DEF Counts
<1>7. \A i \in 1..(n + 1) :
         /\ u[i] = IF box[i].note = "Upstream" THEN u[i - 1] + 1 ELSE u[i - 1]
         /\ c[i] = IF box[i].note = "Converted" THEN c[i - 1] + 1 ELSE c[i - 1]
         /\ box[i].note = "Upstream" => rec[u[i]] = box[i].frame
  BY <1>1, <1>2 DEF Counts
<1> DEFINE v == [i \in 0..n |-> u[i + 1]]
           d == [i \in 0..n |-> c[i + 1]]
<1>8. /\ v \in [0..n -> 0..Len(rec)] /\ d \in [0..n -> Nat]
      /\ v[n] = Len(rec) /\ d[n] = del
      /\ \A i \in 0..n : v[i] = u[i + 1] /\ d[i] = c[i + 1]
  BY <1>6
<1>9. v[0] = Len(up2) /\ d[0] = conv2 /\ (m.note = "Upstream" => rec[Len(up2)] = m.frame)
  <2>1. 1 \in 1..(n + 1) /\ 0 \in 0..n
    OBVIOUS
  <2>2. v[0] = u[1] /\ d[0] = c[1]
    OBVIOUS
  <2>3. /\ u[1] = IF m.note = "Upstream" THEN u[0] + 1 ELSE u[0]
        /\ c[1] = IF m.note = "Converted" THEN c[0] + 1 ELSE c[0]
        /\ m.note = "Upstream" => rec[u[1]] = m.frame
    BY <1>4, <1>7, <2>1
  <2> HIDE DEF v, d
  <2> QED
    BY <1>5, <1>6, <2>2, <2>3
<1> HIDE DEF v, d
<1>10. ASSUME NEW i \in 1..n
       PROVE  /\ v[i] = IF b[i].note = "Upstream" THEN v[i - 1] + 1 ELSE v[i - 1]
              /\ d[i] = IF b[i].note = "Converted" THEN d[i - 1] + 1 ELSE d[i - 1]
              /\ b[i].note = "Upstream" => rec[v[i]] = b[i].frame
  <2>0. /\ i + 1 \in 1..(n + 1) /\ (i + 1) - 1 = i
        /\ i - 1 \in 0..n /\ i \in 0..n /\ (i - 1) + 1 = i
    OBVIOUS
  <2>1. b[i] = box[i + 1]
    BY <1>4
  <2>2. v[i] = u[i + 1] /\ d[i] = c[i + 1] /\ v[i - 1] = u[i] /\ d[i - 1] = c[i]
    BY <1>8, <2>0
  <2> QED
    BY <1>7, <2>0, <2>1, <2>2
<1>11. \A i \in 1..Len(up2) : up2[i] = rec[i]
  BY <1>5, <1>6, <1>9
<1>12. Counts(v, d, b, up2, conv2, rec, del)
  BY <1>4, <1>8, <1>9, <1>10, <1>11 DEF Counts
<1> QED
  BY <1>3, <1>12 DEF Tracked

\* Nothing is under way: what is gathered is everything.
LEMMA NothingUnderWay ==
    ASSUME NEW up \in Seq(Frames), NEW conv \in Nat, NEW rec \in Seq(Frames), NEW del \in Nat,
           Tracked(<<>>, up, conv, rec, del)
    PROVE  up = rec /\ conv = del
<1>1. PICK u, c : Counts(u, c, <<>>, up, conv, rec, del)
  BY DEF Tracked
<1>2. Len(up) = Len(rec) /\ conv = del /\ \A i \in 1..Len(up) : up[i] = rec[i]
  BY <1>1 DEF Counts
<1>3. up = rec
  BY <1>2, SeqEqual
<1> QED
  BY <1>2, <1>3

(***************************************************************************)
(* The accumulator's inductive invariant.                                  *)
(***************************************************************************)
RecordInv ==
    /\ Tracked(inbox, accum.upstream, accum.converted, received, delivered)
    /\ accum.state = "off" => accum = NoTask /\ inbox = <<>>
    /\ pc = "stream" => accum.state = "run" /\ \A i \in DOMAIN inbox : inbox[i].note # "Finish"
    /\ accum.state \in {"emit", "done"} => inbox = <<>> /\ pc = "done"
    /\ \A i \in DOMAIN inbox : inbox[i].note = "Finish" => i = Len(inbox)

\* One more note, while the body is open; the one that says it is over comes last.
LEMMA RecordAppend ==
    ASSUME TypeOK, RecordInv, NEW box \in Seq(NoteType), NEW rec \in Seq(Frames), NEW del \in Nat,
           Tracked(box, accum.upstream, accum.converted, rec, del),
           \A i \in DOMAIN box : box[i].note # "Finish",
           NEW m \in NoteType, NEW rec2 \in Seq(Frames), NEW del2 \in Nat,
           rec2 = IF m.note = "Upstream" THEN Append(rec, m.frame) ELSE rec,
           del2 = IF m.note = "Converted" THEN del + 1 ELSE del
    PROVE  /\ Tracked(Append(box, m), accum.upstream, accum.converted, rec2, del2)
           /\ Append(box, m) \in Seq(NoteType)
           /\ m.note # "Finish" =>
                \A i \in DOMAIN Append(box, m) : Append(box, m)[i].note # "Finish"
           /\ \A i \in DOMAIN Append(box, m) :
                Append(box, m)[i].note = "Finish" => i = Len(Append(box, m))
<1>1. accum.upstream \in Seq(Frames) /\ accum.converted \in Nat
  BY DEF TypeOK
<1>2. Tracked(Append(box, m), accum.upstream, accum.converted, rec2, del2)
  BY <1>1, AppendNote
<1>3. PICK b \in Seq(NoteType) : b = Append(box, m)
  BY AppendProperties, Zenon
<1>4. PICK n \in Nat : n = Len(box)
  OBVIOUS
<1>5. /\ Len(b) = n + 1 /\ b[n + 1] = m /\ DOMAIN b = 1..(n + 1) /\ DOMAIN box = 1..n
      /\ \A i \in 1..n : b[i] = box[i]
  BY <1>3, <1>4
<1>6. \A i \in 1..(n + 1) : i \in 1..n \/ i = n + 1
  OBVIOUS
<1> QED
  BY <1>2, <1>3, <1>5, <1>6

\* What the actions of the client put into the channel.
LEMMA RecordPoll ==
    ASSUME TypeOK, RecordInv, Poll \/ DropBody
    PROVE  RecordInv'
<1>0. /\ inbox \in Seq(NoteType) /\ received \in Seq(Frames) /\ delivered \in Nat
      /\ pending \in Nat
      /\ Tracked(inbox, accum.upstream, accum.converted, received, delivered)
  BY DEF TypeOK, NoteType, RecordInv
<1>1. /\ pc = "stream" /\ UNCHANGED accum
  BY DEF Poll, PollFrame, PollUnconvertible, PollPending, PollError, PollRest,
         PollEnd, DropBody, CloseBody, runner
<1>2. accum.state = "run" /\ \A i \in DOMAIN inbox : inbox[i].note # "Finish"
  BY <1>1 DEF RecordInv
<1>3. /\ \A n \in Notes : Note(n) \in NoteType /\ Note(n).note = n
      /\ \A f \in Frames : /\ NoteFrame(f) \in NoteType /\ NoteFrame(f).frame = f
                           /\ NoteFrame(f).note = "Upstream"
      /\ {"Converted", "UpstreamError", "ConvertedError", "Finish"} \subseteq Notes
  BY NoteTypes DEF Note, NoteFrame, Notes
<1>4. ASSUME NEW box, inbox' = box, Tracked(box, accum.upstream, accum.converted, received', delivered'),
             \A i \in DOMAIN box : box[i].note # "Finish", pc' = "stream"
      PROVE  RecordInv'
  BY <1>1, <1>2, <1>4 DEF RecordInv
<1>5. ASSUME NEW m \in NoteType, inbox' = Append(inbox, m), m.note # "Finish", m.note # "Upstream",
             UNCHANGED <<pc, received>>, delivered' \in Nat,
             delivered' = IF m.note = "Converted" THEN delivered + 1 ELSE delivered
      PROVE  RecordInv'
  BY <1>0, <1>1, <1>2, <1>4, <1>5, RecordAppend
<1>6. ASSUME NEW f \in Frames, received' = Append(received, f), pc' = pc
      PROVE  /\ received' \in Seq(Frames)
             /\ Append(inbox, NoteFrame(f)) \in Seq(NoteType)
             /\ Tracked(Append(inbox, NoteFrame(f)), accum.upstream, accum.converted, received', delivered)
             /\ \A i \in DOMAIN Append(inbox, NoteFrame(f)) : Append(inbox, NoteFrame(f))[i].note # "Finish"
  <2>1. PICK rec \in Seq(Frames) : rec = Append(received, f)
    BY <1>0, AppendProperties, Zenon
  <2>2. PICK m \in NoteType : m = NoteFrame(f)
    BY <1>3
  <2>3. m.note = "Upstream" /\ m.frame = f
    BY <1>3, <2>2
  <2>4. /\ Tracked(Append(inbox, m), accum.upstream, accum.converted, rec, delivered)
        /\ Append(inbox, m) \in Seq(NoteType)
        /\ \A i \in DOMAIN Append(inbox, m) : Append(inbox, m)[i].note # "Finish"
    BY <1>0, <1>2, <2>1, <2>3, RecordAppend
  <2> QED
    BY <1>6, <2>1, <2>2, <2>4
<1>7. ASSUME NEW f \in Frames, received' = Append(received, f), pc' = pc,
             NEW n \in Notes \ {"Upstream", "Finish"}, delivered' \in Nat,
             inbox' = Append(Append(inbox, NoteFrame(f)), Note(n)),
             delivered' = IF n = "Converted" THEN delivered + 1 ELSE delivered
      PROVE  RecordInv'
  <2>1. PICK box \in Seq(NoteType) : box = Append(inbox, NoteFrame(f))
    BY <1>6, <1>7
  <2>2. /\ Tracked(box, accum.upstream, accum.converted, received', delivered)
        /\ \A i \in DOMAIN box : box[i].note # "Finish"
        /\ received' \in Seq(Frames)
    BY <1>6, <1>7, <2>1
  <2>3. PICK m \in NoteType : m = Note(n) /\ m.note = n
    BY <1>3
  <2>4. /\ Tracked(Append(box, m), accum.upstream, accum.converted, received', delivered')
        /\ \A i \in DOMAIN Append(box, m) : Append(box, m)[i].note # "Finish"
    <3>1. PICK rec \in Seq(Frames) : rec = received'
      BY <2>2
    <3>2. PICK del \in Nat : del = delivered'
      BY <1>7
    <3> QED
      BY <1>0, <1>7, <2>2, <2>3, <3>1, <3>2, RecordAppend
  <2>5. inbox' = Append(box, m)
    BY <1>7, <2>1, <2>3
  <2> QED
    BY <1>1, <1>4, <1>7, <2>4, <2>5
<1>8. \A s \in Seq(NoteType) : \A a, b \in NoteType :
         /\ s \o <<a>> = Append(s, a) /\ s \o <<>> = s
         /\ s \o <<a, b>> = Append(Append(s, a), b)
         /\ Append(s, a) \o <<b>> = Append(Append(s, a), b)
         /\ Append(s, a) \o <<>> = Append(s, a)
  OBVIOUS
<1>9. ASSUME NEW f \in FramesOf(call.upstream), NEW n \in Outputs, NEW t \in Tapped,
             PollFrame(f, n, t)
      PROVE  RecordInv'
  <2>1. f \in Frames /\ n \in Nat
    BY OutputTypes
  <2>2. /\ inbox' = inbox \o <<NoteFrame(f)>> \o Items(n)
        /\ delivered' = IF n = 0 THEN delivered ELSE delivered + 1
        /\ received' = Append(received, f) /\ pc' = pc
    BY <1>9 DEF PollFrame, HandOut, runner
  <2>3. inbox \o <<NoteFrame(f)>> = Append(inbox, NoteFrame(f)) /\ Append(inbox, NoteFrame(f)) \in Seq(NoteType)
    BY <1>0, <1>3, <1>6, <1>8, <2>1, <2>2
  <2>4. CASE n = 0
    <3>1. inbox' = Append(inbox, NoteFrame(f)) /\ delivered' = delivered
      BY <2>2, <2>3, <2>4, ConcatEmptySeq DEF Items
    <3> QED
      BY <1>1, <1>4, <1>6, <2>1, <2>2, <3>1
  <2>5. CASE n # 0
    <3>1. Items(n) = <<Note("Converted")>>
      BY <2>5 DEF Items
    <3>2. inbox' = Append(inbox, NoteFrame(f)) \o <<Note("Converted")>>
      BY <2>2, <2>3, <3>1
    <3>3. inbox' = Append(Append(inbox, NoteFrame(f)), Note("Converted"))
      BY <1>0, <1>3, <1>8, <2>1, <3>2
    <3>4. delivered' = delivered + 1 /\ delivered' \in Nat
      BY <1>0, <2>2, <2>5
    <3> QED
      BY <1>3, <1>7, <2>1, <2>2, <3>3, <3>4
  <2> QED
    BY <2>4, <2>5
<1>10. ASSUME NEW f \in FramesOf(call.upstream), PollUnconvertible(f) PROVE RecordInv'
  <2>1. f \in Frames
    BY OutputTypes
  <2>2. /\ inbox' = inbox \o <<NoteFrame(f), Note("ConvertedError")>>
        /\ received' = Append(received, f) /\ UNCHANGED <<pc, delivered>>
    BY <1>10 DEF PollUnconvertible, runner
  <2>3. inbox' = Append(Append(inbox, NoteFrame(f)), Note("ConvertedError"))
    BY <1>0, <1>3, <1>8, <2>1, <2>2
  <2> QED
    BY <1>0, <1>3, <1>7, <2>1, <2>2, <2>3
<1>11. CASE PollPending
  <2>1. /\ inbox' = Append(inbox, Note("Converted")) /\ delivered' = delivered + 1
        /\ UNCHANGED <<pc, received>>
    BY <1>11 DEF PollPending, runner
  <2>2. delivered' \in Nat
    BY <1>0, <2>1
  <2> QED
    BY <1>3, <1>5, <2>1, <2>2
<1>12. CASE PollError
  <2>1. /\ inbox' = inbox \o <<Note("UpstreamError"), Note("ConvertedError")>>
        /\ UNCHANGED <<pc, received, delivered>>
    BY <1>12 DEF PollError, runner
  <2>2. PICK m \in NoteType : m = Note("UpstreamError") /\ m.note = "UpstreamError"
    BY <1>3
  <2>3. PICK k \in NoteType : k = Note("ConvertedError") /\ k.note = "ConvertedError"
    BY <1>3
  <2>4. PICK box \in Seq(NoteType) : box = Append(inbox, m)
    BY <1>0, AppendProperties, Zenon
  <2>5. inbox' = Append(box, k)
    BY <1>0, <1>8, <2>1, <2>2, <2>3, <2>4
  <2>6. /\ Tracked(box, accum.upstream, accum.converted, received, delivered)
        /\ \A i \in DOMAIN box : box[i].note # "Finish"
    BY <1>0, <1>2, <2>2, <2>4, RecordAppend
  <2>7. /\ Tracked(Append(box, k), accum.upstream, accum.converted, received, delivered)
        /\ \A i \in DOMAIN Append(box, k) : Append(box, k)[i].note # "Finish"
    BY <1>0, <2>3, <2>6, RecordAppend
  <2> QED
    BY <1>1, <1>4, <2>1, <2>5, <2>7
<1>13. CASE PollRest
  <2>1. UNCHANGED <<pc, received>>
    BY <1>13 DEF PollRest, runner
  <2>2. ASSUME NEW n \in Outputs \ {0}, HandOut(n, <<>>, <<>>) PROVE RecordInv'
    <3>1. inbox' = inbox \o <<>> \o <<Note("Converted")>> /\ delivered' = delivered + 1
      BY <2>2 DEF HandOut, Items
    <3>2. inbox \o <<>> = inbox
      BY <1>0, ConcatEmptySeq
    <3>3. inbox' = Append(inbox, Note("Converted")) /\ delivered' \in Nat
      BY <1>0, <1>3, <1>8, <3>1, <3>2
    <3> QED
      BY <1>3, <1>5, <2>1, <3>1, <3>3
  <2>3. CASE inbox' = Append(inbox, Note("ConvertedError")) /\ UNCHANGED delivered
    BY <1>0, <1>3, <1>5, <2>1, <2>3
  <2> QED
    BY <1>13, <2>2, <2>3 DEF PollRest
<1>14. CASE PollEnd \/ DropBody
  <2>1. /\ pc' = "done" /\ inbox' = Append(inbox, Note("Finish"))
        /\ UNCHANGED <<received, delivered>>
    BY <1>14 DEF PollEnd, DropBody, CloseBody
  <2>2. PICK m \in NoteType : m = Note("Finish") /\ m.note = "Finish"
    BY <1>3
  <2>3. /\ Tracked(Append(inbox, m), accum.upstream, accum.converted, received, delivered)
        /\ \A i \in DOMAIN Append(inbox, m) :
             Append(inbox, m)[i].note = "Finish" => i = Len(Append(inbox, m))
    BY <1>0, <1>2, <2>2, RecordAppend
  <2> QED
    BY <1>1, <1>2, <2>1, <2>2, <2>3 DEF RecordInv
<1> QED
  BY <1>9, <1>10, <1>11, <1>12, <1>13, <1>14 DEF Poll

\* The accumulator takes a note; the last one finds the channel empty.
LEMMA RecordTake ==
    ASSUME TypeOK, TaskInv, RecordInv, AccumRecv
    PROVE  RecordInv'
<1>0. /\ inbox \in Seq(NoteType) /\ received \in Seq(Frames) /\ delivered \in Nat
      /\ accum.upstream \in Seq(Frames) /\ accum.converted \in Nat
      /\ accum \in [state : {"off", "run", "emit", "done"}, upstream : Seq(Frames),
                    converted : Nat, failed : BOOLEAN, todo : Seq(Events)]
  BY DEF TypeOK, NoteType
<1>1. /\ accum.state = "run" /\ inbox # <<>> /\ inbox' = Tail(inbox)
      /\ UNCHANGED <<pc, received, delivered>>
  BY DEF AccumRecv, runner, body
<1>2. PICK m \in NoteType : m = Head(inbox)
  BY <1>0, <1>1, HeadTailProperties, Zenon
<1>3. PICK n \in Nat : n + 1 = Len(inbox)
  <2>1. Len(inbox) \in Nat /\ Len(inbox) # 0
    BY <1>0, <1>1, EmptySeq
  <2>2. Len(inbox) - 1 \in Nat /\ (Len(inbox) - 1) + 1 = Len(inbox)
    BY <2>1
  <2> QED
    BY <2>2
<1>4. PICK b \in Seq(NoteType) : b = Tail(inbox)
  BY <1>0, <1>1, HeadTailProperties, Zenon
<1>5. /\ m = inbox[1] /\ Len(b) = n /\ DOMAIN b = 1..n /\ DOMAIN inbox = 1..(n + 1)
      /\ \A i \in 1..n : b[i] = inbox[i + 1]
  BY <1>0, <1>1, <1>2, <1>3, <1>4
<1>6. accum' = CASE m.note = "Upstream"  -> [accum EXCEPT !.upstream = Append(@, m.frame)]
                 [] m.note = "Converted" -> [accum EXCEPT !.converted = @ + 1]
                 [] m.note = "Finish"    -> [accum EXCEPT !.state = "emit", !.todo = Epilogue]
                 [] OTHER                -> [accum EXCEPT !.failed = TRUE]
  BY <1>2 DEF AccumRecv
<1>7. /\ accum'.upstream = IF m.note = "Upstream" THEN Append(accum.upstream, m.frame)
                           ELSE accum.upstream
      /\ accum'.converted = IF m.note = "Converted" THEN accum.converted + 1 ELSE accum.converted
      /\ accum'.state = IF m.note = "Finish" THEN "emit" ELSE "run"
  <2>1. CASE m.note = "Upstream"
    <3>1. accum' = [accum EXCEPT !.upstream = Append(accum.upstream, m.frame)]
      BY <1>6, <2>1
    <3> QED
      BY <1>0, <1>1, <2>1, <3>1
  <2>2. CASE m.note = "Converted"
    <3>1. accum' = [accum EXCEPT !.converted = accum.converted + 1]
      BY <1>6, <2>2
    <3> QED
      BY <1>0, <1>1, <2>2, <3>1
  <2>3. CASE m.note = "Finish"
    <3>1. accum' = [accum EXCEPT !.state = "emit", !.todo = Epilogue]
      BY <1>6, <2>3
    <3> QED
      BY <1>0, <2>3, <3>1
  <2>4. CASE m.note \notin {"Upstream", "Converted", "Finish"}
    <3>1. accum' = [accum EXCEPT !.failed = TRUE]
      BY <1>6, <2>4
    <3> QED
      BY <1>0, <1>1, <2>4, <3>1
  <2> QED
    BY <2>1, <2>2, <2>3, <2>4
<1>8. accum'.upstream \in Seq(Frames) /\ accum'.converted \in Nat
  <2>1. m.frame \in Frames
    BY DEF NoteType
  <2> QED
    BY <1>0, <1>7, <2>1
<1>9. Tracked(b, accum'.upstream, accum'.converted, received, delivered)
  <2>1. PICK up \in Seq(Frames) : up = accum'.upstream
    BY <1>8
  <2>2. PICK conv \in Nat : conv = accum'.converted
    BY <1>8
  <2>3. Tracked(inbox, accum.upstream, accum.converted, received, delivered)
    BY DEF RecordInv
  <2> QED
    BY <1>0, <1>1, <1>2, <1>4, <1>7, <2>1, <2>2, <2>3, TakeNote
<1>10. \A i \in 1..n : b[i].note = "Finish" => i = n
  <2>1. \A i \in 1..n : i + 1 \in 1..(n + 1) /\ (i + 1 = n + 1 => i = n)
    OBVIOUS
  <2> QED
    BY <1>3, <1>5, <2>1 DEF RecordInv
<1>11. m.note = "Finish" => n = 0 /\ pc = "done"
  <2>1. 1 \in 1..(n + 1)
    OBVIOUS
  <2>2. m.note = "Finish" => 1 = n + 1 /\ pc # "stream"
    BY <1>1, <1>3, <1>5, <2>1 DEF RecordInv
  <2>3. m.note = "Finish" => n = 0
    BY <2>2
  <2> QED
    BY <1>1, <2>2, <2>3 DEF TaskInv
<1>12. n = 0 => b = <<>>
  BY <1>5, EmptySeq
<1>13. pc = "stream" => \A i \in 1..n : b[i].note # "Finish"
  <2>1. \A i \in 1..n : i + 1 \in 1..(n + 1)
    OBVIOUS
  <2> QED
    BY <1>5, <2>1 DEF RecordInv
<1>14. CASE m.note = "Finish"
  BY <1>1, <1>4, <1>5, <1>7, <1>9, <1>10, <1>11, <1>12, <1>14 DEF RecordInv
<1>15. CASE m.note # "Finish"
  BY <1>1, <1>4, <1>5, <1>7, <1>9, <1>10, <1>13, <1>15 DEF RecordInv
<1> QED
  BY <1>14, <1>15

LEMMA RecordStep ==
    ASSUME PipelineInv, RecordInv, [Next]_vars
    PROVE  RecordInv'
<1> USE DEF PipelineInv
<1>1. CASE Poll \/ DropBody
  BY <1>1, RecordPoll
<1>2. CASE AccumRecv
  BY <1>2, RecordTake
<1>3. CASE OpenStream
  <2>1. /\ pc = "ConvertResponse" /\ pc' = "stream" /\ accum' = [NoTask EXCEPT !.state = "run"]
        /\ UNCHANGED <<inbox, received, delivered>>
    BY <1>3 DEF OpenStream, body
  <2>2. accum.state = "off" /\ accum = NoTask
    BY <2>1 DEF TaskInv, RecordInv
  <2>3. /\ accum'.upstream = accum.upstream /\ accum'.converted = accum.converted
        /\ accum'.state = "run"
    BY <2>1, <2>2 DEF NoTask
  <2>4. \A i \in DOMAIN inbox : inbox[i].note # "Finish"
    BY <2>2 DEF RecordInv
  <2> QED
    BY <2>1, <2>3, <2>4 DEF RecordInv
<1>4. CASE /\ UNCHANGED <<inbox, received, delivered>>
           /\ accum'.upstream = accum.upstream /\ accum'.converted = accum.converted
           /\ pc' = pc /\ accum.state = "emit" /\ accum'.state \in {"emit", "done"}
  BY <1>4 DEF RecordInv
<1>5. CASE AccumEmit \/ AccumDone
  <2>1. /\ accum'.upstream = accum.upstream /\ accum'.converted = accum.converted
        /\ accum.state = "emit" /\ accum'.state \in {"emit", "done"}
    BY <1>5 DEF AccumEmit, AccumDone, TypeOK
  <2>2. UNCHANGED <<pc, inbox, received, delivered>>
    BY <1>5 DEF AccumEmit, AccumDone, runner, body
  <2> QED
    BY <1>4, <2>1, <2>2
<1>6. CASE /\ UNCHANGED <<inbox, accum, received, delivered>>
           /\ pc' = pc \/ (pc' # "stream" /\ accum.state = "off")
  BY <1>6 DEF RecordInv
<1>7. CASE TapRecv \/ TapDone \/ UNCHANGED vars
  BY <1>6, <1>7 DEF TapRecv, TapDone, runner, body, vars
<1>8. ASSUME NEW c \in Calls, Start(c)
      PROVE  UNCHANGED <<inbox, accum, received, delivered>> /\ pc' # "stream" /\ pc = "idle"
  BY <1>8 DEF Start, tasks, body
<1>9. Runner => \/ OpenStream
                \/ /\ UNCHANGED <<inbox, accum, received, delivered>> /\ pc' # "stream"
                   /\ pc \notin {"stream", "done"}
  <2>1. Runner => OpenStream \/ UNCHANGED <<tasks, body>>
    BY DEF Runner, Prepare, PrepareFails, DryRun, Dispatch, ProviderFails, ErrorStatus,
           ErrorBody, Answered, RetryAfterBackoff, Buffered, BufferedFails, Cancel, Fail
  <2>2. Runner => OpenStream \/ pc' # "stream"
    <3>1. Prepare => pc' # "stream"
      BY DEF Prepare, NextStage
    <3>2. \A rs, e, again : Fail(rs, e, again) => pc' # "stream"
      BY DEF Fail
    <3>3. PrepareFails \/ DryRun \/ ProviderFails \/ ErrorBody \/ BufferedFails => pc' # "stream"
      BY <3>2 DEF PrepareFails, DryRun, ProviderFails, ErrorBody, BufferedFails
    <3> QED
      BY <3>1, <3>3 DEF Runner, Dispatch, ErrorStatus, Answered, RetryAfterBackoff, Buffered,
                        Cancel
  <2>3. Runner => pc \notin {"stream", "done"}
    BY DEF Runner, Prepare, PrepareFails, DryRun, Dispatch, ProviderFails, ErrorStatus,
           ErrorBody, Answered, RetryAfterBackoff, Buffered, BufferedFails, Cancel,
           OpenStream, NextStage, Stages
  <2> QED
    BY <2>1, <2>2, <2>3 DEF tasks, body
<1>10. pc \notin {"stream", "done"} => accum.state = "off"
  BY DEF TaskInv
<1> QED
  BY <1>1, <1>2, <1>3, <1>5, <1>6, <1>7, <1>8, <1>9, <1>10 DEF Next, Accum, Tap

(***************************************************************************)
(* For any number of frames and items, and wherever the client leaves, the *)
(* accumulator has noted all of them when it is told to finish.            *)
(***************************************************************************)
THEOREM RecordIsWholeCorrect == Spec => []RecordIsWhole
<1>1. Init => RecordInv
  <2> SUFFICES ASSUME Init PROVE RecordInv
    OBVIOUS
  <2>1. /\ inbox = <<>> /\ received = <<>> /\ delivered = 0 /\ accum = NoTask /\ pc = "idle"
    BY DEF Init
  <2>2. accum.upstream = <<>> /\ accum.converted = 0 /\ accum.state = "off"
    BY <2>1 DEF NoTask
  <2>3. Counts([i \in 0..0 |-> 0], [i \in 0..0 |-> 0], <<>>, <<>>, 0, <<>>, 0)
    BY DEF Counts
  <2>4. Tracked(inbox, accum.upstream, accum.converted, received, delivered)
    BY <2>1, <2>2, <2>3 DEF Tracked
  <2> QED
    BY <2>1, <2>2, <2>4 DEF RecordInv
<1>2. PipelineInv /\ RecordInv /\ [Next]_vars => RecordInv'
  BY RecordStep
<1>3. PipelineInv /\ RecordInv => RecordIsWhole
  BY NothingUnderWay DEF PipelineInv, TypeOK, RecordInv, RecordIsWhole
<1> QED
  BY <1>1, <1>2, <1>3, TypeCorrect, PTL DEF Spec

-----------------------------------------------------------------------------
(***************************************************************************)
(* The verdict on a stream.                                                *)
(***************************************************************************)
Ok == {"CompletedOk"}
Bad == {"Error", "Stop"}

\* Why the accumulator reports a failure, and what it has left to emit then or else.
Flawed == accum.failed \/ StreamTerminalError(call.inbound, accum.upstream)
FailedRest == {<<"UpstreamBody", "ConvertedBody", "Error", "CompletedFailed">>,
               <<"ConvertedBody", "Error", "CompletedFailed">>,
               <<"Error", "CompletedFailed">>, <<"CompletedFailed">>, <<>>}
OkRest == {<<"UpstreamBody", "ConvertedBody", "CompletedOk">>,
           <<"ConvertedBody", "CompletedOk">>, <<"CompletedOk">>, <<>>}

VerdictInv ==
    /\ \A a \in Attempts : Has(a, Ok) => ~Has(a, Bad)
    /\ pc \in Unanswered \cup {"ConvertResponse"} \/ accum.state = "run" => ~Has(attempt, Bad)
    /\ accum.state = "emit" /\ Flawed => accum.todo \in FailedRest /\ ~Has(attempt, Ok)
    /\ accum.state = "emit" /\ ~Flawed =>
          /\ accum.todo \in OkRest /\ ~Has(attempt, Bad)
          /\ Has(attempt, Ok) <=> accum.todo = <<>>
    /\ accum.state = "done" => (Has(attempt, Ok) <=> ~Flawed)

\* What Emit adds to the attempt under way, records aside.
LEMMA EmitHas ==
    ASSUME TypeOK, NEW rs \in Seq(Records), NEW es \in Seq(Events), Emit(rs, es),
           NEW E, E \cap Records = {}
    PROVE  /\ \A a \in Attempts \ {attempt} : log'[a] = log[a]
           /\ Contains(log'[attempt], E) <=> Has(attempt, E) \/ Contains(es, E)
<1>0. attempt \in Attempts /\ log \in [Attempts -> Seq(Events)] /\ log[attempt] \in Seq(Events)
  BY DEF TypeOK
<1>1. PICK s \in Seq(Events) : s = log[attempt]
  BY <1>0
<1>2. rs \in Seq(Events) /\ \A i \in DOMAIN rs : rs[i] \in Records
  BY RecordsFacts
<1>3. ~Contains(rs, E)
  BY <1>2 DEF Contains
<1>4. PICK u \in Seq(Events) : u = s \o rs
  BY <1>2, ConcatFacts
<1>5. Contains(u, E) <=> Contains(s, E)
  BY <1>2, <1>3, <1>4, ContainsConcat
<1>6. Contains(u \o es, E) <=> Contains(u, E) \/ Contains(es, E)
  BY ContainsConcat
<1>7. log' = [log EXCEPT ![attempt] = u \o es]
  BY <1>1, <1>4 DEF Emit
<1>8. log'[attempt] = u \o es /\ \A a \in Attempts \ {attempt} : log'[a] = log[a]
  BY <1>0, <1>7
<1> QED
  BY <1>1, <1>5, <1>6, <1>8 DEF Has

LEMMA VerdictEvents ==
    /\ Ok \cap Records = {} /\ Bad \cap Records = {}
    /\ Contains(<<"Error", "CompletedFailed">>, Bad) /\ ~Contains(<<"Error", "CompletedFailed">>, Ok)
    /\ Contains(<<"Stop", "CompletedFailed">>, Bad) /\ ~Contains(<<"Stop", "CompletedFailed">>, Ok)
    /\ ~Contains(<<>>, Ok) /\ ~Contains(<<>>, Bad)
    /\ ~Contains(<<"ConvertResponse", "ConvertedBody", "CompletedOk">>, Bad)
    /\ ~Contains(<<"UpstreamResp", "Send">>, Bad) /\ ~Contains(<<"UpstreamResp", "Send">>, Ok)
    /\ \A e : /\ Contains(<<e>>, Ok) <=> e = "CompletedOk"
              /\ Contains(<<e>>, Bad) <=> e \in Bad
<1>1. Ok \cap Records = {} /\ Bad \cap Records = {}
  BY DEF Ok, Bad, Records
<1>2. \A e, E : Contains(<<e>>, E) <=> e \in E
  <2> SUFFICES ASSUME NEW e, NEW E PROVE Contains(<<e>>, E) <=> e \in E
    OBVIOUS
  <2>1. DOMAIN <<e>> = {1} /\ <<e>>[1] = e
    OBVIOUS
  <2> QED
    BY <2>1 DEF Contains
<1>3. \A e, f, E : Contains(<<e, f>>, E) <=> e \in E \/ f \in E
  <2> SUFFICES ASSUME NEW e, NEW f, NEW E PROVE Contains(<<e, f>>, E) <=> e \in E \/ f \in E
    OBVIOUS
  <2>1. DOMAIN <<e, f>> = {1, 2} /\ <<e, f>>[1] = e /\ <<e, f>>[2] = f
    OBVIOUS
  <2> QED
    BY <2>1 DEF Contains
<1>4. \A e, f, g, E : Contains(<<e, f, g>>, E) <=> e \in E \/ f \in E \/ g \in E
  <2> SUFFICES ASSUME NEW e, NEW f, NEW g, NEW E
               PROVE  Contains(<<e, f, g>>, E) <=> e \in E \/ f \in E \/ g \in E
    OBVIOUS
  <2>1. /\ DOMAIN <<e, f, g>> = {1, 2, 3} /\ <<e, f, g>>[1] = e /\ <<e, f, g>>[2] = f
        /\ <<e, f, g>>[3] = g
    OBVIOUS
  <2> QED
    BY <2>1 DEF Contains
<1> QED
  BY <1>1, <1>2, <1>3, <1>4, NoEvents DEF Ok, Bad

\* An emission of the runner, by what it says of the attempt's outcome.
LEMMA RunnerVerdict ==
    ASSUME TypeOK, LogInv, TaskInv, VerdictInv, pc \in Unanswered \cup {"ConvertResponse"},
           NEW rs \in Seq(Records), NEW es \in Seq(Events), Emit(rs, es),
           UNCHANGED <<attempt, accum>>,
           Contains(es, Ok) => ~Contains(es, Bad),
           Contains(es, Bad) => pc' \notin Unanswered \cup {"ConvertResponse"}
    PROVE  VerdictInv'
<1>1. accum.state = "off" /\ accum'.state = "off"
  BY DEF TaskInv, Unanswered
<1>2. ~Has(attempt, Terminal) /\ ~Has(attempt, Bad)
  BY DEF LogInv, VerdictInv
<1>3. ~Has(attempt, Ok)
  BY <1>2 DEF Has, Contains, Ok, Terminal
<1>4. /\ \A a \in Attempts \ {attempt} : log'[a] = log[a]
      /\ Contains(log'[attempt], Ok) <=> Contains(es, Ok)
      /\ Contains(log'[attempt], Bad) <=> Contains(es, Bad)
  BY <1>2, <1>3, VerdictEvents, EmitHas
<1>5. ASSUME NEW a \in Attempts, Contains(log'[a], Ok) PROVE ~Contains(log'[a], Bad)
  <2>1. CASE a = attempt
    BY <1>4, <1>5, <2>1
  <2>2. CASE a # attempt
    BY <1>4, <1>5, <2>2 DEF VerdictInv, Has
  <2> QED
    BY <2>1, <2>2
<1> QED
  BY <1>1, <1>4, <1>5 DEF VerdictInv, Has

LEMMA RunnerVerdictStep ==
    ASSUME PipelineInv, VerdictInv, (Runner /\ ~OpenStream) \/ \E c \in Calls : Start(c)
    PROVE  VerdictInv'
<1> USE DEF PipelineInv
<1>0. /\ attempt \in Attempts /\ log \in [Attempts -> Seq(Events)]
      /\ {"Extract", "Resolve", "BuildHeaders", "ConvertRequest", "UpstreamResp"} \subseteq Events
  BY DEF TypeOK, Events, Stages, Records
<1>1. ASSUME NEW c \in Calls, Start(c) PROVE VerdictInv'
  <2>1. /\ pc = "idle" /\ attempt' = attempt /\ Emit(<<>>, <<"Started">>) /\ UNCHANGED accum
    BY <1>1 DEF Start, tasks
  <2>2. accum'.state = "off" /\ log[attempt] = <<>>
    BY <2>1 DEF TaskInv, LogInv
  <2>3. ~Has(attempt, Ok) /\ ~Has(attempt, Bad)
    BY <2>2 DEF Has, Contains
  <2>4. <<"Started">> \in Seq(Events) /\ <<>> \in Seq(Records)
    BY DEF Events
  <2>5. /\ \A a \in Attempts \ {attempt} : log'[a] = log[a]
        /\ ~Contains(log'[attempt], Ok) /\ ~Contains(log'[attempt], Bad)
    <3>1. ~Contains(<<"Started">>, Ok) /\ ~Contains(<<"Started">>, Bad)
      BY VerdictEvents DEF Bad
    <3> QED
      BY <2>1, <2>3, <2>4, <3>1, VerdictEvents, EmitHas
  <2> QED
    BY <2>1, <2>2, <2>5 DEF VerdictInv, Has
<1>2. CASE Prepare
  <2>1. PICK e \in {"Extract", "Resolve", "BuildHeaders", "ConvertRequest"} :
          /\ pc = e /\ Emit(<<>>, <<e>>) /\ UNCHANGED <<attempt, accum>>
    BY <1>2 DEF Prepare, NextStage, tasks
  <2>2. <<e>> \in Seq(Events) /\ <<>> \in Seq(Records)
    BY <1>0
  <2>3. ~Contains(<<e>>, Ok) /\ ~Contains(<<e>>, Bad)
    BY VerdictEvents DEF Bad
  <2> QED
    BY <2>1, <2>2, <2>3, RunnerVerdict DEF Unanswered
<1>3. ASSUME NEW rs \in Seq(Records), NEW e \in Bad, NEW again, Fail(rs, e, again),
             pc \in Unanswered \cup {"ConvertResponse"}
      PROVE  VerdictInv'
  <2>1. /\ Emit(rs, <<e, "CompletedFailed">>) /\ UNCHANGED <<attempt, accum>>
        /\ pc' \notin Unanswered \cup {"ConvertResponse"}
    BY <1>3 DEF Fail, tasks, Unanswered
  <2>2. <<e, "CompletedFailed">> \in Seq(Events)
    BY FailEvents DEF Bad
  <2>3. ~Contains(<<e, "CompletedFailed">>, Ok)
    BY VerdictEvents DEF Bad
  <2> QED
    BY <1>3, <2>1, <2>2, <2>3, RunnerVerdict
<1>4. CASE PrepareFails
  BY <1>3, <1>4, RecordTuples DEF PrepareFails, NextStage, Unanswered, Bad
<1>5. CASE DryRun
  BY <1>3, <1>5, RecordTuples DEF DryRun, Unanswered, Bad
<1>6. CASE ProviderFails
  BY <1>3, <1>6, CapturedRecords DEF ProviderFails, Unanswered, Bad
<1>7. CASE ErrorBody
  <2>1. PICK rs \in {<<"UpstreamBody">>, <<>>} : Fail(rs, "Error", recoverable)
    BY <1>7 DEF ErrorBody
  <2>2. pc = "error_body"
    BY <1>7 DEF ErrorBody
  <2> QED
    BY <1>3, <2>1, <2>2, RecordTuples DEF Unanswered, Bad
<1>8. CASE BufferedFails
  BY <1>3, <1>8, UnconvertedRecords DEF BufferedFails, Bad
<1>9. CASE Dispatch
  <2>1. /\ pc = "Send" /\ UNCHANGED <<attempt, accum>>
        /\ Emit(<<"UpstreamReq">>, <<>>) \/ Emit(<<>>, <<>>)
    BY <1>9 DEF Dispatch, tasks
  <2> QED
    BY <2>1, RecordTuples, NoEvents, RunnerVerdict DEF Unanswered
<1>10. CASE ErrorStatus
  <2>1. PICK rs \in Captured : Emit(rs, <<"UpstreamResp">>)
    BY <1>10 DEF ErrorStatus
  <2>2. pc = "await_provider" /\ UNCHANGED <<attempt, accum>>
    BY <1>10 DEF ErrorStatus, tasks
  <2>3. /\ <<"UpstreamResp">> \in Seq(Events)
        /\ ~Contains(<<"UpstreamResp">>, Ok) /\ ~Contains(<<"UpstreamResp">>, Bad)
    BY <1>0, VerdictEvents DEF Bad
  <2> QED
    BY <2>1, <2>2, <2>3, CapturedRecords, RunnerVerdict DEF Unanswered
<1>11. CASE Answered
  <2>1. PICK rs \in Captured : Emit(rs, <<"UpstreamResp", "Send">>)
    BY <1>11 DEF Answered
  <2>2. pc = "await_provider" /\ UNCHANGED <<attempt, accum>>
    BY <1>11 DEF Answered, tasks
  <2> QED
    BY <2>1, <2>2, CapturedRecords, AnsweredEvents, VerdictEvents, RunnerVerdict DEF Unanswered
<1>12. CASE RetryAfterBackoff
  <2>1. /\ pc = "backoff" /\ attempt' = attempt + 1 /\ UNCHANGED accum
        /\ log' = [log EXCEPT ![attempt + 1] = <<"Started">>]
    BY <1>12 DEF RetryAfterBackoff, tasks
  <2>2. accum'.state = "off" /\ attempt + 1 \in Attempts
    BY <2>1, RetriesAssumption DEF TaskInv, LogInv, Attempts, TypeOK
  <2>3. /\ log'[attempt + 1] = <<"Started">>
        /\ \A a \in Attempts \ {attempt + 1} : log'[a] = log[a]
    BY <1>0, <2>1, <2>2
  <2>4. ~Contains(<<"Started">>, Ok) /\ ~Contains(<<"Started">>, Bad)
    BY VerdictEvents DEF Bad
  <2>5. \A a \in Attempts : Contains(log'[a], Ok) => ~Contains(log'[a], Bad)
    BY <2>3, <2>4 DEF VerdictInv, Has
  <2> QED
    BY <2>1, <2>2, <2>3, <2>4, <2>5 DEF VerdictInv, Has
<1>13. CASE Buffered
  <2>1. PICK rs \in {<<"UpstreamBody">>, <<"UpstreamBody", "Usage">>} :
          Emit(rs, <<"ConvertResponse", "ConvertedBody", "CompletedOk">>)
    BY <1>13 DEF Buffered
  <2>2. pc = "ConvertResponse" /\ UNCHANGED <<attempt, accum>>
    BY <1>13 DEF Buffered, tasks
  <2> QED
    BY <2>1, <2>2, RecordTuples, BufferedEvents, VerdictEvents, RunnerVerdict
<1>14. CASE Cancel /\ pc # "backoff"
  <2>1. /\ pc \in Unanswered \cup {"ConvertResponse"} /\ pc' = "done"
        /\ UNCHANGED <<attempt, accum>> /\ Emit(<<>>, <<"Error", "CompletedFailed">>)
    BY <1>14 DEF Cancel, Stages, Unanswered, tasks
  <2> QED
    BY <2>1, RecordTuples, FailEvents, VerdictEvents, RunnerVerdict DEF Unanswered
<1>15. CASE Cancel /\ pc = "backoff"
  <2>1. /\ pc' = "done" /\ UNCHANGED <<attempt, accum>> /\ Emit(<<>>, <<>>)
    BY <1>15 DEF Cancel, tasks
  <2>2. accum'.state = "off"
    BY <1>15, <2>1 DEF TaskInv
  <2>3. /\ \A a \in Attempts \ {attempt} : log'[a] = log[a]
        /\ Contains(log'[attempt], Ok) <=> Has(attempt, Ok)
        /\ Contains(log'[attempt], Bad) <=> Has(attempt, Bad)
    BY <2>1, RecordTuples, NoEvents, VerdictEvents, EmitHas
  <2>4. \A a \in Attempts : Contains(log'[a], Ok) => ~Contains(log'[a], Bad)
    BY <1>0, <2>3 DEF VerdictInv, Has
  <2> QED
    BY <2>1, <2>2, <2>4 DEF VerdictInv, Has, Unanswered
<1> QED
  BY <1>1, <1>2, <1>4, <1>5, <1>6, <1>7, <1>8, <1>9, <1>10, <1>11, <1>12, <1>13, <1>14,
     <1>15 DEF Runner

\* What the accumulator still has to emit, one event less.
LEMMA RestFacts ==
    /\ \A t \in FailedRest : t # <<>> =>
         Head(t) \in Events /\ Head(t) # "CompletedOk" /\ Tail(t) \in FailedRest
    /\ \A t \in OkRest : t # <<>> =>
         /\ Head(t) \in Events /\ Head(t) \notin Bad /\ Tail(t) \in OkRest
         /\ Head(t) = "CompletedOk" <=> Tail(t) = <<>>
<1>0. {"UpstreamBody", "ConvertedBody", "Error", "CompletedFailed", "CompletedOk"} \subseteq Events
  BY DEF Events, Records, Terminal
<1>1. ASSUME NEW t \in FailedRest, t # <<>>
      PROVE  Head(t) \in Events /\ Head(t) # "CompletedOk" /\ Tail(t) \in FailedRest
  <2>1. CASE t = <<"UpstreamBody", "ConvertedBody", "Error", "CompletedFailed">>
    <3>1. Head(t) = "UpstreamBody" /\ Tail(t) = <<"ConvertedBody", "Error", "CompletedFailed">>
      BY <2>1
    <3> QED
      BY <1>0, <3>1 DEF FailedRest
  <2>2. CASE t = <<"ConvertedBody", "Error", "CompletedFailed">>
    <3>1. Head(t) = "ConvertedBody" /\ Tail(t) = <<"Error", "CompletedFailed">>
      BY <2>2
    <3> QED
      BY <1>0, <3>1 DEF FailedRest
  <2>3. CASE t = <<"Error", "CompletedFailed">>
    <3>1. Head(t) = "Error" /\ Tail(t) = <<"CompletedFailed">>
      BY <2>3
    <3> QED
      BY <1>0, <3>1 DEF FailedRest
  <2>4. CASE t = <<"CompletedFailed">>
    <3>1. Head(t) = "CompletedFailed" /\ Tail(t) = <<>>
      BY <2>4
    <3> QED
      BY <1>0, <3>1 DEF FailedRest
  <2> QED
    BY <1>1, <2>1, <2>2, <2>3, <2>4 DEF FailedRest
<1>2. ASSUME NEW t \in OkRest, t # <<>>
      PROVE  /\ Head(t) \in Events /\ Head(t) \notin Bad /\ Tail(t) \in OkRest
             /\ Head(t) = "CompletedOk" <=> Tail(t) = <<>>
  <2>1. CASE t = <<"UpstreamBody", "ConvertedBody", "CompletedOk">>
    <3>1. Head(t) = "UpstreamBody" /\ Tail(t) = <<"ConvertedBody", "CompletedOk">> /\ Tail(t) # <<>>
      BY <2>1
    <3> QED
      BY <1>0, <3>1 DEF OkRest, Bad
  <2>2. CASE t = <<"ConvertedBody", "CompletedOk">>
    <3>1. Head(t) = "ConvertedBody" /\ Tail(t) = <<"CompletedOk">> /\ Tail(t) # <<>>
      BY <2>2
    <3> QED
      BY <1>0, <3>1 DEF OkRest, Bad
  <2>3. CASE t = <<"CompletedOk">>
    <3>1. Head(t) = "CompletedOk" /\ Tail(t) = <<>>
      BY <2>3
    <3> QED
      BY <1>0, <3>1 DEF OkRest, Bad
  <2> QED
    BY <1>2, <2>1, <2>2, <2>3 DEF OkRest
<1> QED
  BY <1>1, <1>2

\* The two epilogues of the accumulator, written out.
LEMMA ConcatAfterTwo ==
    ASSUME NEW S, NEW u \in Seq(S), NEW v \in Seq(S), NEW t \in Seq(S),
           Len(u) = 2, Len(t) = Len(v) + 2, t[1] = u[1], t[2] = u[2],
           \A i \in 1..Len(v) : t[i + 2] = v[i]
    PROVE  u \o v = t
<1>0. /\ u \o v \in Seq(S) /\ Len(u \o v) = Len(u) + Len(v)
      /\ \A i \in 1..(Len(u) + Len(v)) :
            (u \o v)[i] = IF i <= Len(u) THEN u[i] ELSE v[i - Len(u)]
  BY ConcatProperties
<1>1. /\ u \o v \in Seq(S) /\ Len(u \o v) = Len(t)
      /\ \A i \in 1..Len(t) : (u \o v)[i] = IF i <= 2 THEN u[i] ELSE v[i - 2]
  BY <1>0
<1>2. ASSUME NEW i \in 1..Len(t) PROVE (u \o v)[i] = t[i]
  <2>1. CASE i = 1 \/ i = 2
    BY <1>1, <2>1
  <2>2. CASE i # 1 /\ i # 2
    <3>1. i - 2 \in 1..Len(v) /\ (i - 2) + 2 = i
      BY <2>2
    <3>2. t[i] = v[i - 2]
      BY <3>1
    <3> QED
      BY <1>1, <2>2, <3>2
  <2> QED
    BY <2>1, <2>2
<1> QED
  BY <1>1, <1>2, SeqEqual

LEMMA EpilogueTuples ==
    /\ <<"UpstreamBody", "ConvertedBody">> \o <<"Error", "CompletedFailed">>
         = <<"UpstreamBody", "ConvertedBody", "Error", "CompletedFailed">>
    /\ <<"UpstreamBody", "ConvertedBody">> \o <<"CompletedOk">>
         = <<"UpstreamBody", "ConvertedBody", "CompletedOk">>
<1> DEFINE u == <<"UpstreamBody", "ConvertedBody">>
           v == <<"Error", "CompletedFailed">>
           w == <<"CompletedOk">>
           s == <<"UpstreamBody", "ConvertedBody", "Error", "CompletedFailed">>
           t == <<"UpstreamBody", "ConvertedBody", "CompletedOk">>
           S == {"UpstreamBody", "ConvertedBody", "Error", "CompletedFailed", "CompletedOk"}
<1>1. u \in Seq(S) /\ Len(u) = 2 /\ u[1] = "UpstreamBody" /\ u[2] = "ConvertedBody"
  OBVIOUS
<1>2. v \in Seq(S) /\ Len(v) = 2 /\ v[1] = "Error" /\ v[2] = "CompletedFailed"
  OBVIOUS
<1>3. w \in Seq(S) /\ Len(w) = 1 /\ w[1] = "CompletedOk"
  OBVIOUS
<1>4. s \in Seq(S) /\ Len(s) = 4 /\ s[1] = u[1] /\ s[2] = u[2] /\ s[3] = v[1] /\ s[4] = v[2]
  OBVIOUS
<1>5. t \in Seq(S) /\ Len(t) = 3 /\ t[1] = u[1] /\ t[2] = u[2] /\ t[3] = w[1]
  OBVIOUS
<1> HIDE DEF u, v, w, s, t, S
<1>6. u \o v = s
  <2>1. \A i \in 1..Len(v) : s[i + 2] = v[i]
    BY <1>2, <1>4
  <2>2. Len(s) = Len(v) + 2
    BY <1>2, <1>4
  <2> QED
    BY <1>1, <1>2, <1>4, <2>1, <2>2, ConcatAfterTwo
<1>7. u \o w = t
  <2>1. \A i \in 1..Len(w) : t[i + 2] = w[i]
    BY <1>3, <1>5
  <2>2. Len(t) = Len(w) + 2
    BY <1>3, <1>5
  <2> QED
    BY <1>1, <1>3, <1>5, <2>1, <2>2, ConcatAfterTwo
<1> QED
  BY <1>6, <1>7 DEF u, v, w, s, t

LEMMA TaskVerdictStep ==
    ASSUME PipelineInv, VerdictInv, OpenStream \/ Accum \/ Tap
    PROVE  VerdictInv'
<1> USE DEF PipelineInv
<1>0. /\ attempt \in Attempts /\ log \in [Attempts -> Seq(Events)]
      /\ accum \in [state : {"off", "run", "emit", "done"}, upstream : Seq(Frames),
                    converted : Nat, failed : BOOLEAN, todo : Seq(Events)]
  BY DEF TypeOK
<1>1. CASE OpenStream
  <2>1. /\ pc = "ConvertResponse" /\ pc' = "stream" /\ attempt' = attempt
        /\ accum'.state = "run" /\ Emit(<<>>, <<"ConvertResponse">>)
    BY <1>1 DEF OpenStream, NoTask
  <2>2. <<"ConvertResponse">> \in Seq(Events) /\ <<>> \in Seq(Records)
    BY StageEvents, RecordTuples
  <2>3. ~Contains(<<"ConvertResponse">>, Ok) /\ ~Contains(<<"ConvertResponse">>, Bad)
    BY VerdictEvents DEF Bad
  <2>4. /\ \A a \in Attempts \ {attempt} : log'[a] = log[a]
        /\ Contains(log'[attempt], Ok) <=> Has(attempt, Ok)
        /\ Contains(log'[attempt], Bad) <=> Has(attempt, Bad)
    BY <2>1, <2>2, <2>3, VerdictEvents, EmitHas
  <2>5. ~Has(attempt, Bad)
    BY <2>1 DEF VerdictInv
  <2>6. \A a \in Attempts : Contains(log'[a], Ok) => ~Contains(log'[a], Bad)
    BY <1>0, <2>4 DEF VerdictInv, Has
  <2> QED
    BY <2>1, <2>4, <2>5, <2>6 DEF VerdictInv, Has, Unanswered
<1>2. CASE AccumRecv
  <2>1. /\ UNCHANGED <<pc, attempt, log, call>> /\ accum.state = "run"
    BY <1>2 DEF AccumRecv, runner
  <2>2. ~Has(attempt, Terminal) /\ ~Has(attempt, Bad) /\ ~Has(attempt, Ok)
    <3>1. ~Has(attempt, Terminal) /\ ~Has(attempt, Bad)
      BY <2>1 DEF TaskInv, VerdictInv
    <3> QED
      BY <3>1 DEF Has, Contains, Terminal, Ok
  <2>3. CASE accum'.state = "run"
    BY <2>1, <2>2, <2>3 DEF VerdictInv, Has
  <2>4. CASE accum' = [accum EXCEPT !.state = "emit", !.todo = Epilogue]
    <3>1. /\ accum'.state = "emit" /\ accum'.failed = accum.failed /\ accum'.todo = Epilogue
          /\ accum'.upstream = accum.upstream
      BY <1>0, <2>4
    <3>2. Flawed' <=> Flawed
      BY <2>1, <3>1 DEF Flawed
    <3>3. Epilogue = <<"UpstreamBody", "ConvertedBody">>
            \o (IF Flawed THEN <<"Error", "CompletedFailed">> ELSE <<"CompletedOk">>)
      BY DEF Epilogue, Flawed
    <3>4. CASE Flawed
      <4>1. Epilogue = <<"UpstreamBody", "ConvertedBody", "Error", "CompletedFailed">>
        BY <3>3, <3>4, EpilogueTuples
      <4>2. accum'.todo \in FailedRest
        BY <3>1, <4>1 DEF FailedRest
      <4> QED
        BY <2>1, <2>2, <3>1, <3>2, <3>4, <4>2 DEF VerdictInv, Has
    <3>5. CASE ~Flawed
      <4>1. Epilogue = <<"UpstreamBody", "ConvertedBody", "CompletedOk">>
        BY <3>3, <3>5, EpilogueTuples
      <4>2. accum'.todo \in OkRest /\ accum'.todo # <<>>
        BY <3>1, <4>1 DEF OkRest
      <4> QED
        BY <2>1, <2>2, <3>1, <3>2, <3>5, <4>2 DEF VerdictInv, Has
    <3> QED
      BY <3>4, <3>5
  <2>5. accum'.state = "run" \/ accum' = [accum EXCEPT !.state = "emit", !.todo = Epilogue]
    <3>1. \/ accum' = [accum EXCEPT !.upstream = Append(accum.upstream, Head(inbox).frame)]
          \/ accum' = [accum EXCEPT !.converted = accum.converted + 1]
          \/ accum' = [accum EXCEPT !.state = "emit", !.todo = Epilogue]
          \/ accum' = [accum EXCEPT !.failed = TRUE]
      BY <1>2, AccumRecvCases
    <3> QED
      BY <1>0, <2>1, <3>1
  <2> QED
    BY <2>3, <2>4, <2>5
<1>3. CASE AccumEmit
  <2>1. /\ accum.state = "emit" /\ accum.todo # <<>> /\ UNCHANGED <<pc, attempt, call>>
        /\ Emit(<<>>, <<Head(accum.todo)>>) /\ accum' = [accum EXCEPT !.todo = Tail(accum.todo)]
    BY <1>3 DEF AccumEmit, runner
  <2>2. /\ accum'.state = "emit" /\ accum'.failed = accum.failed /\ accum'.todo = Tail(accum.todo)
        /\ accum'.upstream = accum.upstream
    BY <1>0, <2>1
  <2>3. Flawed' <=> Flawed
    BY <2>1, <2>2 DEF Flawed
  <2>4. pc \notin Unanswered \cup {"ConvertResponse"}
    BY <2>1 DEF TaskInv, Unanswered
  <2>5. PICK e \in Events : e = Head(accum.todo)
    BY <1>0, <2>1
  <2>6. /\ \A a \in Attempts \ {attempt} : log'[a] = log[a]
        /\ Contains(log'[attempt], Ok) <=> Has(attempt, Ok) \/ e = "CompletedOk"
        /\ Contains(log'[attempt], Bad) <=> Has(attempt, Bad) \/ e \in Bad
    <3>1. <<e>> \in Seq(Events) /\ <<>> \in Seq(Records) /\ Emit(<<>>, <<e>>)
      BY <2>1, <2>5
    <3> QED
      BY <3>1, VerdictEvents, EmitHas
  <2>7. CASE Flawed
    <3>1. accum.todo \in FailedRest /\ ~Has(attempt, Ok)
      BY <2>1, <2>7 DEF VerdictInv
    <3>2. e # "CompletedOk" /\ Tail(accum.todo) \in FailedRest
      BY <2>1, <2>5, <3>1, RestFacts
    <3>3. ~Contains(log'[attempt], Ok)
      BY <2>6, <3>1, <3>2
    <3>4. \A a \in Attempts : Contains(log'[a], Ok) => ~Contains(log'[a], Bad)
      BY <2>6, <3>3 DEF VerdictInv, Has
    <3> QED
      BY <2>1, <2>2, <2>3, <2>4, <2>7, <3>2, <3>3, <3>4 DEF VerdictInv, Has
  <2>8. CASE ~Flawed
    <3>1. accum.todo \in OkRest /\ ~Has(attempt, Bad) /\ ~Has(attempt, Ok)
      BY <2>1, <2>8 DEF VerdictInv
    <3>2. /\ e \notin Bad /\ Tail(accum.todo) \in OkRest
          /\ e = "CompletedOk" <=> Tail(accum.todo) = <<>>
      BY <2>1, <2>5, <3>1, RestFacts
    <3>3. /\ ~Contains(log'[attempt], Bad)
          /\ Contains(log'[attempt], Ok) <=> Tail(accum.todo) = <<>>
      BY <2>6, <3>1, <3>2
    <3>4. \A a \in Attempts : Contains(log'[a], Ok) => ~Contains(log'[a], Bad)
      BY <2>6, <3>3 DEF VerdictInv, Has
    <3> QED
      BY <2>1, <2>2, <2>3, <2>4, <2>8, <3>2, <3>3, <3>4 DEF VerdictInv, Has
  <2> QED
    BY <2>7, <2>8
<1>4. CASE AccumDone
  <2>1. /\ accum.state = "emit" /\ accum.todo = <<>> /\ UNCHANGED <<pc, attempt, call, log>>
        /\ accum' = [accum EXCEPT !.state = "done"]
    BY <1>4 DEF AccumDone, runner
  <2>2. accum'.state = "done" /\ accum'.failed = accum.failed /\ accum'.upstream = accum.upstream
    BY <1>0, <2>1
  <2>3. Flawed' <=> Flawed
    BY <2>1, <2>2 DEF Flawed
  <2>4. Has(attempt, Ok) <=> ~Flawed
    BY <2>1 DEF VerdictInv
  <2>5. pc \notin Unanswered \cup {"ConvertResponse"}
    BY <2>1 DEF TaskInv, Unanswered
  <2> QED
    BY <2>1, <2>2, <2>3, <2>4, <2>5 DEF VerdictInv, Has
<1>5. CASE TapRecv
  <2>1. /\ UNCHANGED <<pc, attempt, call, accum>>
        /\ Emit(<<"Usage">>, <<>>) \/ Emit(<<>>, <<>>)
    BY <1>5 DEF TapRecv, runner
  <2>2. /\ \A a \in Attempts \ {attempt} : log'[a] = log[a]
        /\ Contains(log'[attempt], Ok) <=> Has(attempt, Ok)
        /\ Contains(log'[attempt], Bad) <=> Has(attempt, Bad)
    BY <2>1, RecordTuples, NoEvents, VerdictEvents, EmitHas
  <2>3. \A a \in Attempts : Contains(log'[a], Ok) => ~Contains(log'[a], Bad)
    BY <1>0, <2>2 DEF VerdictInv, Has
  <2>4. Flawed' <=> Flawed
    BY <2>1 DEF Flawed
  <2> QED
    BY <2>1, <2>2, <2>3, <2>4 DEF VerdictInv, Has
<1>6. CASE TapDone
  <2>1. UNCHANGED <<pc, attempt, call, accum, log>>
    BY <1>6 DEF TapDone, runner
  <2> QED
    BY <2>1 DEF VerdictInv, Has, Flawed
<1> QED
  BY <1>1, <1>2, <1>3, <1>4, <1>5, <1>6 DEF Accum, Tap

LEMMA VerdictStep ==
    ASSUME PipelineInv, VerdictInv, [Next]_vars
    PROVE  VerdictInv'
<1>1. CASE Runner \/ \E c \in Calls : Start(c)
  BY <1>1, RunnerVerdictStep, TaskVerdictStep
<1>2. CASE Accum \/ Tap
  BY <1>2, TaskVerdictStep
<1>3. CASE UNCHANGED <<attempt, call, accum, log>> /\ (pc' = pc \/ pc' = "done")
  BY <1>3 DEF VerdictInv, Has, Flawed, Unanswered
<1>4. CASE Poll \/ DropBody
  <2>1. UNCHANGED <<attempt, call, accum, log>>
    BY <1>4 DEF Poll, PollFrame, PollUnconvertible, PollPending, PollError, PollRest,
                PollEnd, DropBody, CloseBody, runner
  <2>2. pc' = pc \/ pc' = "done"
    BY <1>4 DEF Poll, PollFrame, PollUnconvertible, PollPending, PollError, PollRest,
                PollEnd, DropBody, CloseBody, runner
  <2> QED
    BY <1>3, <2>1, <2>2
<1>5. CASE UNCHANGED vars
  BY <1>3, <1>5 DEF vars
<1> QED
  BY <1>1, <1>2, <1>4, <1>5 DEF Next

(***************************************************************************)
(* For every call and any length of stream: no attempt with an error is    *)
(* reported as a success, and an untranslated stream succeeds just when it *)
(* ended as its protocol ends and nothing of it failed.                    *)
(***************************************************************************)
THEOREM StreamVerdictExactCorrect == Spec => []StreamVerdictExact
<1>1. Init => VerdictInv
  <2> SUFFICES ASSUME Init PROVE VerdictInv
    OBVIOUS
  <2>1. pc = "idle" /\ accum.state = "off" /\ \A a \in Attempts : log[a] = <<>>
    BY DEF Init, NoTask
  <2>2. \A a \in Attempts : ~Has(a, Ok)
    BY <2>1, NoEvents DEF Has
  <2> QED
    BY <2>1, <2>2 DEF VerdictInv, Unanswered
<1>2. PipelineInv /\ VerdictInv /\ [Next]_vars => VerdictInv'
  BY VerdictStep
<1>3. VerdictInv /\ RecordIsWhole => StreamVerdictExact
  <2> SUFFICES ASSUME VerdictInv, RecordIsWhole PROVE StreamVerdictExact
    OBVIOUS
  <2>1. \A a \in Attempts : Has(a, {"CompletedOk"}) => ~Has(a, {"Error", "Stop"})
    BY DEF VerdictInv, Ok, Bad
  <2>2. ASSUME accum.state = "done", call.inbound = call.upstream
        PROVE  Has(attempt, {"CompletedOk"}) <=>
                 /\ ~accum.failed
                 /\ call.upstream \in Protocols => EndsWell(call.upstream, received)
    <3>1. Has(attempt, {"CompletedOk"}) <=> ~Flawed
      BY <2>2 DEF VerdictInv, Ok
    <3>2. accum.upstream = received
      BY <2>2 DEF RecordIsWhole
    <3> QED
      BY <2>2, <3>1, <3>2 DEF Flawed, StreamTerminalError
  <2> QED
    BY <2>1, <2>2 DEF StreamVerdictExact
<1> QED
  BY <1>1, <1>2, <1>3, TypeCorrect, RecordIsWholeCorrect, PTL DEF Spec

=============================================================================
