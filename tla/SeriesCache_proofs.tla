------------------------- MODULE SeriesCache_proofs -------------------------
(***************************************************************************)
(* Proofs about SeriesCache, for every set of callers, keys and calls and  *)
(* for every lifetime and horizon, in four layers, each inductive given    *)
(* the ones before it:                                                     *)
(*   Inv1  what callers, keys and calls hold of each other;                *)
(*   Inv2  how many days a record holds and what its lifetimes are;        *)
(*   Inv3  the order in which data was produced and stored;                *)
(*   Inv4  how young what is stored and what is given out must be.         *)
(***************************************************************************)
EXTENDS SeriesCache, Integers, TLAPS

\* A caller that is not idle has made a request, and waits on a promise
\* exactly while it is waiting.
BusyCallers ==
    \A p \in Callers :
        /\ pc[p] # "idle" => asked[p] \in Request
        /\ pc[p] = "waiting" <=> awaited[p] # NoCall

Inv1 == TypeOK /\ BusyCallers /\ RunningTracksCalls /\ WaitersAwaitTheirCall

----------------------------------------------------------------------------
(***************************************************************************)
(* The pure parts.                                                         *)
(***************************************************************************)

\* Both ends of a lifetime are moments.
LEMMA LifetimesAreMoments ==
    \A t \in Nat : FreshUntil(t, TTL) \in Nat /\ ExpiresAt(t, MaxStale) \in Nat
BY LifetimeAssumption DEF FreshUntil, ExpiresAt, Interval

\* A request is only ever widened to a number of days.
LEMMA WidenedIsNat == \A k \in Keys : \A d \in Nat : Widened(k, d) \in Nat
BY HorizonAssumption DEF Widened, Max2, Min2

LEMMA SlicedIsSeries ==
    \A s \in Series : \A k \in Keys : \A d \in Nat :
        /\ Sliced(s, k, d) \in Series
        /\ Sliced(s, k, d).asOf = s.asOf
<1> SUFFICES ASSUME NEW s \in Series, NEW k \in Keys, NEW d \in Nat
             PROVE  Sliced(s, k, d) \in Series /\ Sliced(s, k, d).asOf = s.asOf
  OBVIOUS
<1>1. s = [asOf |-> s.asOf, days |-> s.days] /\ s.asOf \in Time /\ s.days \in Nat
  BY DEF Series
<1>2. [s EXCEPT !.days = Min2(@, d)] = [asOf |-> s.asOf, days |-> Min2(s.days, d)]
  BY <1>1
<1>3. Min2(s.days, d) \in Nat
  BY <1>1 DEF Min2
<1> QED
  BY <1>1, <1>2, <1>3 DEF Sliced, Series

LEMMA NewRecordIsRecord ==
    ASSUME now \in Time, NEW s \in Series
    PROVE  /\ NewRecord(s) \in Record
           /\ NewRecord(s).series = s
           /\ NewRecord(s).storedAt = now
           /\ NewRecord(s).freshUntil = FreshUntil(now, TTL)
           /\ NewRecord(s).expiresAt = ExpiresAt(now, MaxStale)
BY LifetimesAreMoments, LifetimeAssumption DEF NewRecord, Record, Time

LEMMA AnswerFromIsAnswer ==
    ASSUME now \in Time, NEW p \in Callers, asked[p] \in Request,
           NEW r \in Record, NEW stale \in BOOLEAN, NEW cached \in BOOLEAN
    PROVE  /\ AnswerFrom(p, r, stale, cached) \in Answer
           /\ AnswerFrom(p, r, stale, cached).kind = "series"
           /\ AnswerFrom(p, r, stale, cached).series.asOf = r.series.asOf
           /\ AnswerFrom(p, r, stale, cached).series
                = Sliced(r.series, asked[p].key, asked[p].days)
           /\ AnswerFrom(p, r, stale, cached).stale = stale
           /\ AnswerFrom(p, r, stale, cached).cached = cached
           /\ AnswerFrom(p, r, stale, cached).at = now
           /\ AnswerFrom(p, r, stale, cached).storedAt = r.storedAt
<1> DEFINE sliced == Sliced(r.series, asked[p].key, asked[p].days)
<1>1. r.series \in Series /\ r.storedAt \in Time
  BY DEF Record
<1>2. asked[p].key \in Keys /\ asked[p].days \in Nat
  BY DEF Request
<1>3. sliced \in Series /\ sliced.asOf = r.series.asOf
  BY <1>1, <1>2, SlicedIsSeries
<1> HIDE DEF sliced
<1>4. AnswerFrom(p, r, stale, cached)
        = [kind |-> "series", series |-> sliced, stale |-> stale, at |-> now,
           storedAt |-> r.storedAt, cached |-> cached]
  BY DEF AnswerFrom, sliced
<1>5. AnswerFrom(p, r, stale, cached) \in Answer
  BY <1>1, <1>3, <1>4 DEF Answer
<1>6. AnswerFrom(p, r, stale, cached).series = sliced
      /\ AnswerFrom(p, r, stale, cached).kind = "series"
      /\ AnswerFrom(p, r, stale, cached).stale = stale
      /\ AnswerFrom(p, r, stale, cached).cached = cached
      /\ AnswerFrom(p, r, stale, cached).at = now
      /\ AnswerFrom(p, r, stale, cached).storedAt = r.storedAt
  BY <1>4
<1> QED
  BY <1>3, <1>5, <1>6 DEF sliced

\* What a settled call gives a waiter is an answer, or the shared failure.
LEMMA DeliveredIsAnswer ==
    ASSUME now \in Time, NEW p \in Callers, asked[p] \in Request,
           NEW result \in Record \cup {Failure}
    PROVE  Delivered(p, result) \in Answer \cup {Failure}
<1>1. CASE result = Failure
  BY <1>1 DEF Delivered
<1>2. CASE result # Failure
  BY <1>2, AnswerFromIsAnswer DEF Delivered
<1> QED
  BY <1>1, <1>2

----------------------------------------------------------------------------
(***************************************************************************)
(* Layer 1: what callers, keys and calls hold of each other.               *)
(***************************************************************************)

LEMMA InitInv1 == Init => Inv1
BY CallAssumption, LifetimeAssumption
   DEF Init, Inv1, TypeOK, BusyCallers, RunningTracksCalls, WaitersAwaitTheirCall,
       Time, CallStates, Live, Free, NoRecord, NoRequest, NoAnswer

\* A step of SingleFlight.run leaves the keys and the calls in agreement, and
\* the caller with a promise for its key; no other live call is touched.
LEMMA RunKeeps ==
    ASSUME Inv1, NEW k \in Keys, NEW d \in Nat, NEW c \in Calls, Run(k, d, c)
    PROVE  /\ running' \in [Keys -> Calls \cup {NoCall}]
           /\ call' \in [Calls -> CallStates]
           /\ RunningTracksCalls'
           /\ call'[c].phase # "free"
           /\ call'[c].key = k
           /\ running'[k] = c
           /\ \A e \in Calls : Live(e) => call'[e] = call[e]
           /\ \A e \in Calls : ~Live(e) /\ call'[e] # call[e] =>
                  call'[e] = [phase |-> "out", key |-> k, days |-> Widened(k, d)]
<1>1. TypeOK /\ RunningTracksCalls /\ c # NoCall
  BY CallAssumption DEF Inv1
<1>2. CASE Join(k, c)
  BY <1>1, <1>2 DEF Join, TypeOK, RunningTracksCalls, Live
<1>3. CASE Start(k, d, c)
  <2> DEFINE new == [phase |-> "out", key |-> k, days |-> Widened(k, d)]
  <2>1. new \in CallStates /\ new.phase = "out" /\ new.key = k
    BY WidenedIsNat DEF CallStates
  <2>2. /\ call' = [call EXCEPT ![c] = new]
        /\ running' = [running EXCEPT ![k] = c]
        /\ running[k] = NoCall
        /\ call[c].phase = "free"
    BY <1>3 DEF Start, Live
  <2> HIDE DEF new
  <2>3. /\ call' \in [Calls -> CallStates]
        /\ running' \in [Keys -> Calls \cup {NoCall}]
        /\ call'[c] = new
        /\ running'[k] = c
        /\ \A e \in Calls \ {c} : call'[e] = call[e]
        /\ \A l \in Keys \ {k} : running'[l] = running[l]
    BY <1>1, <2>1, <2>2 DEF TypeOK
  <2>4. RunningTracksCalls'
    <3>1. ASSUME NEW l \in Keys, running'[l] # NoCall
          PROVE  call'[running'[l]].phase # "free" /\ call'[running'[l]].key = l
      <4>1. CASE l = k
        BY <2>1, <2>3, <4>1
      <4>2. CASE l # k
        <5>1. running'[l] = running[l] /\ running[l] # NoCall /\ running[l] \in Calls
          BY <1>1, <2>3, <3>1, <4>2 DEF TypeOK
        <5>2. call[running[l]].phase # "free" /\ call[running[l]].key = l
          BY <1>1, <5>1 DEF RunningTracksCalls, Live
        <5>3. running[l] # c
          BY <2>2, <5>2
        <5> QED
          BY <2>3, <5>1, <5>2, <5>3
      <4> QED
        BY <4>1, <4>2
    <3>2. ASSUME NEW e \in Calls, Live(e)'
          PROVE  running'[call'[e].key] = e
      <4>1. CASE e = c
        BY <2>1, <2>3, <4>1
      <4>2. CASE e # c
        <5>1. call'[e] = call[e] /\ Live(e)
          BY <2>3, <3>2, <4>2 DEF Live
        <5>2. running[call[e].key] = e
          BY <1>1, <5>1 DEF RunningTracksCalls
        <5>3. call[e].key # k
          BY <2>2, <5>2, CallAssumption
        <5>4. call[e].key \in Keys
          BY <1>1, <5>1 DEF TypeOK, CallStates, Live, Free
        <5> QED
          BY <2>3, <5>1, <5>2, <5>3, <5>4
      <4> QED
        BY <4>1, <4>2
    <3> QED
      BY <3>1, <3>2 DEF RunningTracksCalls, Live
  <2> QED
    BY <2>1, <2>2, <2>3, <2>4 DEF Live, new
<1> QED
  BY <1>2, <1>3 DEF Run
LEMMA DaysOfAreDays == \A k \in Keys : DaysOf(k) \subseteq Nat \ {0}
BY HorizonAssumption DEF DaysOf, Min2

LEMMA AskKeeps1 == ASSUME Inv1, NEW p \in Callers, Ask(p) PROVE Inv1'
<1>0. PICK k \in Keys : \E d \in DaysOf(k) :
        /\ asked' = [asked EXCEPT ![p] = [kind |-> "request", key |-> k, days |-> d]]
        /\ floor' = [floor EXCEPT ![p] = newest[k]]
  BY DEF Ask
<1>1. PICK d \in DaysOf(k) :
        /\ asked' = [asked EXCEPT ![p] = [kind |-> "request", key |-> k, days |-> d]]
        /\ floor' = [floor EXCEPT ![p] = newest[k]]
  BY <1>0
<1>2. [kind |-> "request", key |-> k, days |-> d] \in Request
  BY DaysOfAreDays DEF Request
<1>3. TypeOK'
  BY <1>1, <1>2 DEF Ask, Inv1, TypeOK
<1>4. BusyCallers'
  BY <1>1, <1>2 DEF Ask, Inv1, TypeOK, BusyCallers
<1>5. RunningTracksCalls'
  BY DEF Ask, Inv1, RunningTracksCalls, Live
<1>6. WaitersAwaitTheirCall'
  BY <1>1 DEF Ask, Inv1, TypeOK, WaitersAwaitTheirCall, Live
<1> QED
  BY <1>3, <1>4, <1>5, <1>6 DEF Inv1

LEMMA ReadKeeps1 == ASSUME Inv1, NEW p \in Callers, Read(p) PROVE Inv1'
<1>1. asked[p].key \in Keys
  BY DEF Read, Inv1, BusyCallers, Request
<1>2. store' \in [Keys -> Record \cup {NoRecord}] /\ found' \in [Callers -> Record \cup {NoRecord}]
  <2>1. CASE ReadStore(p)
    BY <1>1, <2>1 DEF ReadStore, Inv1, TypeOK
  <2>2. CASE ReadFails(p)
    BY <2>2 DEF ReadFails, Inv1, TypeOK
  <2> QED
    BY <2>1, <2>2 DEF Read
<1>3. TypeOK'
  BY <1>2 DEF Read, Inv1, TypeOK
<1>4. BusyCallers' /\ RunningTracksCalls' /\ WaitersAwaitTheirCall'
  BY DEF Read, Inv1, TypeOK, BusyCallers, RunningTracksCalls, WaitersAwaitTheirCall, Live
<1> QED
  BY <1>3, <1>4 DEF Inv1

LEMMA HitKeeps1 == ASSUME Inv1, NEW p \in Callers, Hit(p) PROVE Inv1'
<1>1. asked[p] \in Request /\ found[p] \in Record /\ now \in Time
  BY DEF Hit, Servable, Inv1, TypeOK, BusyCallers
<1>2. AnswerFrom(p, found[p], FALSE, TRUE) \in Answer
  BY <1>1, AnswerFromIsAnswer
<1>3. TypeOK'
  BY <1>2 DEF Hit, Respond, Inv1, TypeOK
<1>4. BusyCallers' /\ RunningTracksCalls' /\ WaitersAwaitTheirCall'
  BY DEF Hit, Respond, Inv1, TypeOK, BusyCallers, RunningTracksCalls, WaitersAwaitTheirCall, Live
<1> QED
  BY <1>3, <1>4 DEF Inv1

\* The promise a run hands out is a live call for the key.
LEMMA RunGivesLiveCall ==
    ASSUME Inv1, NEW k \in Keys, NEW d \in Nat, NEW c \in Calls, Run(k, d, c)
    PROVE  call'[c].phase # "free" /\ call'[c].key = k
<1>1. c # NoCall /\ TypeOK /\ RunningTracksCalls
  BY CallAssumption DEF Inv1
<1>2. CASE Join(k, c)
  BY <1>1, <1>2 DEF Join, RunningTracksCalls, Live
<1>3. CASE Start(k, d, c)
  <2>1. call' = [call EXCEPT ![c] = [phase |-> "out", key |-> k, days |-> Widened(k, d)]]
    BY <1>3 DEF Start
  <2>2. call'[c] = [phase |-> "out", key |-> k, days |-> Widened(k, d)]
    BY <1>1, <2>1 DEF TypeOK
  <2> QED
    BY <2>2
<1> QED
  BY <1>2, <1>3 DEF Run

\* A caller that waited before a run waits on the same live call after it.
LEMMA RunKeepsWaiters ==
    ASSUME Inv1, NEW k \in Keys, NEW d \in Nat, NEW c \in Calls, Run(k, d, c),
           NEW p \in Callers, pc[p] = "waiting"
    PROVE  call'[awaited[p]].phase # "free" /\ call'[awaited[p]].key = asked[p].key
<1>1. awaited[p] \in Calls /\ Live(awaited[p]) /\ call[awaited[p]].key = asked[p].key
  BY DEF Inv1, TypeOK, WaitersAwaitTheirCall
<1>2. call'[awaited[p]] = call[awaited[p]]
  BY <1>1, RunKeeps
<1> QED
  BY <1>1, <1>2 DEF Live

LEMMA AnswerStaleKeeps1 == ASSUME Inv1, NEW p \in Callers, AnswerStale(p) PROVE Inv1'
<1>1. asked[p] \in Request /\ found[p] \in Record /\ now \in Time
  BY DEF AnswerStale, Servable, Inv1, TypeOK, BusyCallers
<1>2. AnswerFrom(p, found[p], TRUE, TRUE) \in Answer
  BY <1>1, AnswerFromIsAnswer
<1>3. PICK c \in Calls : Run(asked[p].key, asked[p].days, c)
  BY DEF AnswerStale
<1>4. asked[p].key \in Keys /\ asked[p].days \in Nat
  BY <1>1 DEF Request
<1>5. /\ running' \in [Keys -> Calls \cup {NoCall}]
      /\ call' \in [Calls -> CallStates]
      /\ RunningTracksCalls'
  BY <1>3, <1>4, RunKeeps
<1>6. TypeOK'
  BY <1>2, <1>5 DEF AnswerStale, Respond, Inv1, TypeOK
<1>7. BusyCallers'
  BY DEF AnswerStale, Respond, Inv1, TypeOK, BusyCallers
<1>8. ASSUME NEW q \in Callers, pc'[q] = "waiting"
      PROVE  /\ awaited'[q] # NoCall
             /\ call'[awaited'[q]].phase # "free"
             /\ call'[awaited'[q]].key = asked'[q].key
  <2>1. pc[q] = "waiting" /\ awaited' = awaited /\ asked' = asked
    BY <1>8 DEF AnswerStale, Respond, Inv1, TypeOK
  <2>2. awaited[q] # NoCall
    BY <2>1 DEF Inv1, WaitersAwaitTheirCall
  <2> QED
    BY <1>3, <1>4, <2>1, <2>2, RunKeepsWaiters
<1> QED
  BY <1>5, <1>6, <1>7, <1>8 DEF Inv1, WaitersAwaitTheirCall, Live

LEMMA MissKeeps1 == ASSUME Inv1, NEW p \in Callers, Miss(p) PROVE Inv1'
<1>1. asked[p] \in Request /\ asked[p].key \in Keys /\ asked[p].days \in Nat
  BY DEF Miss, Inv1, BusyCallers, Request
<1>2. PICK c \in Calls : /\ Run(asked[p].key, asked[p].days, c)
                         /\ awaited' = [awaited EXCEPT ![p] = c]
  BY DEF Miss
<1>3. /\ running' \in [Keys -> Calls \cup {NoCall}]
      /\ call' \in [Calls -> CallStates]
      /\ RunningTracksCalls'
      /\ call'[c].phase # "free" /\ call'[c].key = asked[p].key
  <2>1. Run(asked[p].key, asked[p].days, c)
    BY <1>2
  <2>2. RunningTracksCalls'
    BY <1>1, <2>1, RunKeeps
  <2>3. running' \in [Keys -> Calls \cup {NoCall}]
    BY <1>1, <2>1, RunKeeps
  <2>4. call' \in [Calls -> CallStates]
    BY <1>1, <2>1, RunKeeps
  <2>5. call'[c].phase # "free" /\ call'[c].key = asked[p].key
    BY <1>1, <2>1, RunGivesLiveCall
  <2> QED
    BY <2>2, <2>3, <2>4, <2>5
<1>4. TypeOK'
  BY <1>2, <1>3 DEF Miss, Inv1, TypeOK
<1>5. BusyCallers'
  BY <1>2, CallAssumption DEF Miss, Inv1, TypeOK, BusyCallers
<1>6. ASSUME NEW q \in Callers, pc'[q] = "waiting"
      PROVE  /\ awaited'[q] # NoCall
             /\ call'[awaited'[q]].phase # "free"
             /\ call'[awaited'[q]].key = asked'[q].key
  <2>1. CASE q = p
    BY <1>2, <1>3, <2>1, CallAssumption DEF Miss, Inv1, TypeOK
  <2>2. CASE q # p
    <3>1. pc[q] = "waiting" /\ awaited'[q] = awaited[q] /\ asked' = asked
      BY <1>2, <1>6, <2>2 DEF Miss, Inv1, TypeOK
    <3>2. awaited[q] # NoCall
      BY <3>1 DEF Inv1, WaitersAwaitTheirCall
    <3> QED
      BY <1>1, <1>2, <3>1, <3>2, RunKeepsWaiters
  <2> QED
    BY <2>1, <2>2
<1> QED
  BY <1>3, <1>4, <1>5, <1>6 DEF Inv1, WaitersAwaitTheirCall, Live

\* A call that goes on to its next stage, under its own key, disturbs nobody.
LEMMA CallMoves ==
    ASSUME Inv1, NEW c \in Calls, Live(c), NEW new \in CallStates,
           new.phase # "free", new.key = call[c].key,
           call' = [call EXCEPT ![c] = new],
           store' \in [Keys -> Record \cup {NoRecord}], newest' \in [Keys -> Time],
           UNCHANGED <<now, running, pc, asked, found, awaited, answer, floor>>
    PROVE  Inv1'
<1>1. TypeOK'
  BY DEF Inv1, TypeOK
<1>2. BusyCallers'
  BY DEF Inv1, BusyCallers
<1>3. \A e \in Calls : /\ call'[e].phase # "free" <=> call[e].phase # "free"
                       /\ call[e].phase # "free" => call'[e].key = call[e].key
  BY DEF Inv1, TypeOK, Live
<1>4. RunningTracksCalls'
  <2>1. ASSUME NEW k \in Keys, running'[k] # NoCall
        PROVE  call'[running'[k]].phase # "free" /\ call'[running'[k]].key = k
    <3>1. running[k] \in Calls /\ running'[k] = running[k]
      BY <2>1 DEF Inv1, TypeOK
    <3>2. call[running[k]].phase # "free" /\ call[running[k]].key = k
      BY <2>1, <3>1 DEF Inv1, RunningTracksCalls, Live
    <3> QED
      BY <1>3, <3>1, <3>2
  <2>2. ASSUME NEW e \in Calls, call'[e].phase # "free"
        PROVE  running'[call'[e].key] = e
    BY <1>3, <2>2 DEF Inv1, RunningTracksCalls, Live
  <2> QED
    BY <2>1, <2>2 DEF RunningTracksCalls, Live
<1>5. ASSUME NEW p \in Callers, pc'[p] = "waiting"
      PROVE  /\ awaited'[p] # NoCall
             /\ call'[awaited'[p]].phase # "free"
             /\ call'[awaited'[p]].key = asked'[p].key
  <2>1. /\ awaited[p] # NoCall /\ awaited[p] \in Calls
        /\ call[awaited[p]].phase # "free" /\ call[awaited[p]].key = asked[p].key
    BY <1>5 DEF Inv1, TypeOK, WaitersAwaitTheirCall, Live
  <2> QED
    BY <1>3, <2>1
<1> QED
  BY <1>1, <1>2, <1>4, <1>5 DEF Inv1, WaitersAwaitTheirCall, Live

LEMMA CallStepKeeps1 ==
    ASSUME Inv1, NEW c \in Calls, SourceAnswers(c) \/ SourceFails(c) \/ Arrive(c) \/ Store(c)
    PROVE  Inv1'
<1>0. TypeOK /\ now \in Time /\ call \in [Calls -> CallStates]
  BY DEF Inv1, TypeOK
<1>1. CASE SourceAnswers(c)
  <2> DEFINE new == [phase |-> "arriving", key |-> call[c].key,
                     series |-> [asOf |-> now, days |-> call[c].days]]
  <2>1. call[c].phase = "out" /\ call[c].key \in Keys /\ call[c].days \in Nat
    BY <1>0, <1>1 DEF SourceAnswers, CallStates, Free
  <2>2. new \in CallStates
    BY <1>0, <2>1 DEF CallStates, Series
  <2>3. new.phase = "arriving" /\ new.key = call[c].key
    OBVIOUS
  <2>4. call' = [call EXCEPT ![c] = new] /\ store' \in [Keys -> Record \cup {NoRecord}]
    BY <1>0, <1>1 DEF SourceAnswers, TypeOK
  <2>5. /\ UNCHANGED <<now, running, pc, asked, found, awaited, answer, floor>>
        /\ newest' \in [Keys -> Time]
    BY <1>0, <1>1 DEF SourceAnswers, TypeOK
  <2> HIDE DEF new
  <2> QED
    BY <2>1, <2>2, <2>3, <2>4, <2>5, CallMoves DEF Live
<1>2. CASE SourceFails(c)
  <2> DEFINE new == [phase |-> "settling", key |-> call[c].key, result |-> Failure]
  <2>1. call[c].phase \in {"out", "arriving"} /\ call[c].key \in Keys
    BY <1>0, <1>2 DEF SourceFails, CallStates, Free
  <2>2. new \in CallStates
    BY <2>1 DEF CallStates
  <2>3. new.phase = "settling" /\ new.key = call[c].key
    OBVIOUS
  <2>4. call' = [call EXCEPT ![c] = new] /\ store' \in [Keys -> Record \cup {NoRecord}]
    BY <1>0, <1>2 DEF SourceFails, TypeOK
  <2>5. /\ UNCHANGED <<now, running, pc, asked, found, awaited, answer, floor>>
        /\ newest' \in [Keys -> Time]
    BY <1>0, <1>2 DEF SourceFails, TypeOK
  <2> HIDE DEF new
  <2> QED
    BY <2>1, <2>2, <2>3, <2>4, <2>5, CallMoves DEF Live
<1>3. CASE Arrive(c)
  <2> DEFINE new == [phase |-> "storing", key |-> call[c].key,
                     record |-> NewRecord(call[c].series)]
  <2>1. call[c].phase = "arriving" /\ call[c].key \in Keys /\ call[c].series \in Series
    BY <1>0, <1>3 DEF Arrive, CallStates, Free
  <2>2. NewRecord(call[c].series) \in Record
    BY <1>0, <2>1, NewRecordIsRecord
  <2>3. new \in CallStates
    BY <2>1, <2>2 DEF CallStates
  <2>4. new.phase = "storing" /\ new.key = call[c].key
    OBVIOUS
  <2>5. call' = [call EXCEPT ![c] = new] /\ store' \in [Keys -> Record \cup {NoRecord}]
    BY <1>0, <1>3 DEF Arrive, TypeOK
  <2>6. /\ UNCHANGED <<now, running, pc, asked, found, awaited, answer, floor>>
        /\ newest' \in [Keys -> Time]
    BY <1>0, <1>3 DEF Arrive, TypeOK
  <2> HIDE DEF new
  <2> QED
    BY <2>1, <2>3, <2>4, <2>5, <2>6, CallMoves DEF Live
<1>4. CASE Store(c)
  <2> DEFINE new == [phase |-> "settling", key |-> call[c].key, result |-> call[c].record]
  <2>1. call[c].phase = "storing" /\ call[c].key \in Keys /\ call[c].record \in Record
    BY <1>0, <1>4 DEF Store, CallStates, Free
  <2>2. new \in CallStates
    BY <2>1 DEF CallStates
  <2>3. new.phase = "settling" /\ new.key = call[c].key
    OBVIOUS
  <2>4. call' = [call EXCEPT ![c] = new]
    BY <1>4 DEF Store
  <2>5. store' \in [Keys -> Record \cup {NoRecord}]
    BY <1>0, <1>4, <2>1 DEF Store, WriteStore, WriteFails, TypeOK
  <2>6. UNCHANGED <<now, running, pc, asked, found, awaited, answer, floor>>
    BY <1>4 DEF Store
  <2>7. newest' \in [Keys -> Time]
    <3>1. call[c].record.series.asOf \in Time
      BY <2>1 DEF Record, Series
    <3>2. Max2(newest[call[c].key], call[c].record.series.asOf) \in Time
      BY <1>0, <2>1, <3>1 DEF TypeOK, Max2
    <3> QED
      BY <1>0, <1>4, <2>1, <3>2 DEF Store, WriteStore, WriteFails, TypeOK
  <2> HIDE DEF new
  <2> QED
    BY <2>1, <2>2, <2>3, <2>4, <2>5, <2>6, <2>7, CallMoves DEF Live
<1> QED
  BY <1>1, <1>2, <1>3, <1>4

\* Settling releases the key of the call and everyone who waited on it.
LEMMA SettleKeeps1 == ASSUME Inv1, NEW c \in Calls, Settle(c) PROVE Inv1'
<1>0. /\ now \in Time
      /\ call \in [Calls -> CallStates]
      /\ call[c].phase = "settling"
      /\ call[c].key \in Keys
      /\ call[c].result \in Record \cup {Failure}
      /\ running[call[c].key] = c
  BY DEF Settle, Inv1, TypeOK, CallStates, Free, RunningTracksCalls, Live
<1>1. /\ call' = [call EXCEPT ![c] = Free]
      /\ running' = [running EXCEPT ![call[c].key] = NoCall]
  BY DEF Settle, ReleaseKey
<1>2. \A p \in Waiters(c) : pc[p] = "waiting" /\ asked[p] \in Request
  BY CallAssumption DEF Waiters, Inv1, BusyCallers
<1>3. \A p \in Waiters(c) : Delivered(p, call[c].result) \in Answer \cup {Failure}
  BY <1>0, <1>2, DeliveredIsAnswer DEF Waiters
<1>4. TypeOK'
  <2>1. call' \in [Calls -> CallStates] /\ running' \in [Keys -> Calls \cup {NoCall}]
    BY <1>0, <1>1 DEF Inv1, TypeOK, CallStates
  <2>2. answer' \in [Callers -> Answer \cup {Failure, NoAnswer}]
    BY <1>3 DEF Settle, Inv1, TypeOK, Waiters
  <2>3. /\ pc' \in [Callers -> {"idle", "reading", "deciding", "waiting"}]
        /\ awaited' \in [Callers -> Calls \cup {NoCall}]
    BY DEF Settle, Inv1, TypeOK
  <2> QED
    BY <2>1, <2>2, <2>3 DEF Settle, Inv1, TypeOK
<1>5. BusyCallers'
  BY DEF Settle, Inv1, TypeOK, BusyCallers, Waiters
<1>6. \A e \in Calls \ {c} : call'[e] = call[e]
  BY <1>0, <1>1
<1>7. call'[c].phase = "free"
  BY <1>0, <1>1 DEF Free
<1>8. RunningTracksCalls'
  <2>1. ASSUME NEW k \in Keys, running'[k] # NoCall
        PROVE  call'[running'[k]].phase # "free" /\ call'[running'[k]].key = k
    <3>1. k # call[c].key /\ running'[k] = running[k] /\ running[k] \in Calls
      BY <1>0, <1>1, <2>1 DEF Inv1, TypeOK
    <3>2. call[running[k]].phase # "free" /\ call[running[k]].key = k
      BY <2>1, <3>1 DEF Inv1, RunningTracksCalls, Live
    <3>3. running[k] # c
      BY <3>1, <3>2
    <3> QED
      BY <1>6, <3>1, <3>2, <3>3
  <2>2. ASSUME NEW e \in Calls, call'[e].phase # "free"
        PROVE  running'[call'[e].key] = e
    <3>1. e # c /\ call'[e] = call[e] /\ call[e].phase # "free"
      BY <1>6, <1>7, <2>2
    <3>2. running[call[e].key] = e /\ call[e].key \in Keys
      BY <1>0, <3>1 DEF Inv1, RunningTracksCalls, Live, CallStates, Free
    <3>3. call[e].key # call[c].key
      BY <1>0, <3>1, <3>2
    <3> QED
      BY <1>1, <3>1, <3>2, <3>3 DEF Inv1, TypeOK
  <2> QED
    BY <2>1, <2>2 DEF RunningTracksCalls, Live
<1>9. ASSUME NEW p \in Callers, pc'[p] = "waiting"
      PROVE  /\ awaited'[p] # NoCall
             /\ call'[awaited'[p]].phase # "free"
             /\ call'[awaited'[p]].key = asked'[p].key
  <2>1. p \notin Waiters(c) /\ pc[p] = "waiting" /\ awaited'[p] = awaited[p] /\ asked' = asked
    BY <1>9 DEF Settle, Waiters
  <2>2. /\ awaited[p] # NoCall /\ awaited[p] \in Calls
        /\ call[awaited[p]].phase # "free" /\ call[awaited[p]].key = asked[p].key
    BY <2>1 DEF Inv1, TypeOK, WaitersAwaitTheirCall, Live
  <2>3. awaited[p] # c
    BY <2>1 DEF Waiters
  <2> QED
    BY <1>6, <2>1, <2>2, <2>3
<1> QED
  BY <1>4, <1>5, <1>8, <1>9 DEF Inv1, WaitersAwaitTheirCall, Live

LEMMA StutterKeeps1 == ASSUME Inv1, UNCHANGED vars PROVE Inv1'
BY DEF vars, Inv1, TypeOK, BusyCallers, RunningTracksCalls, WaitersAwaitTheirCall, Live

LEMMA NextKeeps1 == ASSUME Inv1, [Next]_vars PROVE Inv1'
<1>1. ASSUME NEW p \in Callers, CallerStep(p) PROVE Inv1'
  BY <1>1, AskKeeps1, ReadKeeps1, HitKeeps1, AnswerStaleKeeps1, MissKeeps1 DEF CallerStep
<1>2. ASSUME NEW c \in Calls, CallStep(c) PROVE Inv1'
  BY <1>2, CallStepKeeps1, SettleKeeps1 DEF CallStep
<1>3. ASSUME NEW k \in Keys, Evict(k) PROVE Inv1'
  BY <1>3 DEF Evict, Inv1, TypeOK, BusyCallers, RunningTracksCalls, WaitersAwaitTheirCall, Live
<1>4. CASE Tick
  BY <1>4, LifetimeAssumption
     DEF Tick, Inv1, TypeOK, Time, BusyCallers, RunningTracksCalls, WaitersAwaitTheirCall, Live
<1>5. CASE UNCHANGED vars
  BY <1>5, StutterKeeps1
<1> QED
  BY <1>1, <1>2, <1>3, <1>4, <1>5 DEF Next

LEMMA Invariance1 == Spec => []Inv1
<1>1. Inv1 /\ [Next]_vars => Inv1'
  BY NextKeeps1
<1> QED
  BY InitInv1, <1>1, PTL DEF Spec

\* Every variable keeps its type.
THEOREM TypeCorrect == Spec => []TypeOK
BY Invariance1, PTL DEF Inv1

\* The map of SingleFlight and the live promises agree in every state, for
\* any number of callers, keys and calls: no key is ever held by a call that
\* is over, and no live call is forgotten.
THEOREM FlightsAreTracked == Spec => []RunningTracksCalls
BY Invariance1, PTL DEF Inv1

\* One outbound call per key: two live calls never carry the same key.
THEOREM OneCallEach == Spec => []OneCallPerKey
<1>1. Inv1 => OneCallPerKey
  BY DEF Inv1, RunningTracksCalls, OneCallPerKey
<1> QED
  BY Invariance1, <1>1, PTL

\* A caller that waits, waits on a live call for the key it asked for.
THEOREM WaitersAreServed == Spec => []WaitersAwaitTheirCall
BY Invariance1, PTL DEF Inv1

----------------------------------------------------------------------------
(***************************************************************************)
(* Layer 2: what a record says of itself, and how many days it holds.      *)
(***************************************************************************)

\* Before the end of the interval a moment falls in is in no later interval.
LEMMA FreshMeansSameInterval ==
    ASSUME NEW t \in Nat, NEW s \in Nat
    PROVE  t < FreshUntil(s, TTL) <=> ~(Interval(t, TTL) > Interval(s, TTL))
<1> DEFINE a == t \div TTL
           b == s \div TTL
<1>0. TTL \in Nat /\ TTL > 0
  BY LifetimeAssumption
<1>1. a \in Nat /\ b \in Nat /\ a * TTL <= t /\ t < a * TTL + TTL
  BY <1>0
<1> HIDE DEF a, b
<1>2. CASE a <= b
  <2>1. a * TTL <= b * TTL
    BY <1>0, <1>1, <1>2
  <2> QED
    BY <1>0, <1>1, <1>2, <2>1 DEF FreshUntil, Interval, a, b
<1>3. CASE a > b
  <2>1. (b + 1) * TTL <= a * TTL
    BY <1>0, <1>1, <1>3
  <2>2. (b + 1) * TTL = b * TTL + TTL
    BY <1>0, <1>1
  <2> QED
    BY <1>0, <1>1, <1>3, <2>1, <2>2 DEF FreshUntil, Interval, a, b
<1> QED
  BY <1>1, <1>2, <1>3

\* How many days are behind a key, whoever asked.
WholeDays(k) == IF k \in Rolling THEN Min2(Wanted, Declared) ELSE ExactDays

\* A record of k covers every horizon, and its lifetimes follow its stamp.
Whole(k, r) ==
    /\ r.series.days = WholeDays(k)
    /\ r.freshUntil = FreshUntil(r.storedAt, TTL)
    /\ r.expiresAt = ExpiresAt(r.storedAt, MaxStale)

\* So does what a call will bring, at every stage of it.
Sound(x) ==
    /\ x.phase = "out" => x.days = WholeDays(x.key)
    /\ x.phase = "arriving" => x.series.days = WholeDays(x.key)
    /\ x.phase = "storing" => Whole(x.key, x.record)
    /\ x.phase = "settling" => x.result = Failure \/ Whole(x.key, x.result)

StoreIsWhole == \A k \in Keys : store[k] # NoRecord => Whole(k, store[k])
CallsAreSound == \A c \in Calls : Sound(call[c])
RequestsFit == \A p \in Callers : pc[p] # "idle" => asked[p].days \in DaysOf(asked[p].key)
FoundIsWhole ==
    \A p \in Callers : pc[p] = "deciding" /\ found[p] # NoRecord => Whole(asked[p].key, found[p])

Data == StoreIsWhole /\ CallsAreSound /\ RequestsFit /\ FoundIsWhole
Inv2 == Data /\ AnswerCoversRequest /\ AgeIsHonest

\* Any request of a key is widened to the same horizon.
LEMMA WidenedIsWhole == \A k \in Keys : \A d \in DaysOf(k) : Widened(k, d) = WholeDays(k)
BY HorizonAssumption DEF DaysOf, Widened, WholeDays, Min2, Max2

\* And a series of that horizon is cut to what was asked.
LEMMA SlicedFits ==
    ASSUME NEW k \in Keys, NEW d \in DaysOf(k), NEW s \in Series, s.days = WholeDays(k)
    PROVE  Sliced(s, k, d).days = d
<1>1. s = [asOf |-> s.asOf, days |-> s.days] /\ s.days \in Nat
  BY DEF Series
<1>2. CASE k \in Rolling
  <2>1. d \in 1 .. s.days
    BY <1>2 DEF DaysOf, WholeDays
  <2>2. Min2(s.days, d) = d
    BY <1>1, <2>1 DEF Min2
  <2> QED
    BY <1>1, <1>2, <2>2 DEF Sliced
<1>3. CASE k \notin Rolling
  BY <1>3 DEF DaysOf, WholeDays, Sliced
<1> QED
  BY <1>2, <1>3

LEMMA NewRecordIsWhole ==
    ASSUME now \in Time, NEW k \in Keys, NEW s \in Series, s.days = WholeDays(k)
    PROVE  Whole(k, NewRecord(s))
BY NewRecordIsRecord DEF Whole

\* An answer made for p out of a record of the key it asked for.
LEMMA AnswerFromFits ==
    ASSUME now \in Time, NEW p \in Callers, asked[p] \in Request,
           asked[p].days \in DaysOf(asked[p].key),
           NEW r \in Record, Whole(asked[p].key, r), NEW stale \in BOOLEAN, NEW cached \in BOOLEAN
    PROVE  AnswerFrom(p, r, stale, cached).series.days = asked[p].days
<1>1. r.series \in Series /\ asked[p].key \in Keys
  BY DEF Record, Request
<1> QED
  BY <1>1, AnswerFromIsAnswer, SlicedFits DEF Whole

LEMMA InitInv2 == Init => Inv2
BY DEF Init, Inv2, Data, StoreIsWhole, CallsAreSound, RequestsFit, FoundIsWhole, Sound,
       Free, AnswerCoversRequest, AgeIsHonest, NoAnswer

\* A run of p adds no call but one that is out for the whole horizon.
LEMMA RunStaysSound ==
    ASSUME Inv1, CallsAreSound, NEW k \in Keys, NEW d \in DaysOf(k), NEW c \in Calls, Run(k, d, c)
    PROVE  CallsAreSound'
<1>1. d \in Nat /\ Widened(k, d) = WholeDays(k)
  BY WidenedIsWhole, DaysOfAreDays
<1>2. CASE Join(k, c)
  BY <1>2 DEF Join, CallsAreSound
<1>3. CASE Start(k, d, c)
  <2> DEFINE new == [phase |-> "out", key |-> k, days |-> Widened(k, d)]
  <2>1. Sound(new)
    BY <1>1 DEF Sound
  <2>2. call' = [call EXCEPT ![c] = new] /\ call \in [Calls -> CallStates]
    BY <1>3 DEF Start, Inv1, TypeOK
  <2> HIDE DEF new
  <2> QED
    BY <2>1, <2>2 DEF CallsAreSound
<1> QED
  BY <1>2, <1>3 DEF Run

LEMMA AskKeeps2 == ASSUME Inv1, Inv2, NEW p \in Callers, Ask(p) PROVE Inv2'
<1>0. PICK k \in Keys : \E d \in DaysOf(k) :
        asked' = [asked EXCEPT ![p] = [kind |-> "request", key |-> k, days |-> d]]
  BY DEF Ask
<1>1. PICK d \in DaysOf(k) :
        asked' = [asked EXCEPT ![p] = [kind |-> "request", key |-> k, days |-> d]]
  BY <1>0
<1>2. /\ pc[p] = "idle" /\ pc' = [pc EXCEPT ![p] = "reading"]
      /\ answer' = [answer EXCEPT ![p] = NoAnswer]
      /\ UNCHANGED <<now, store, running, call, found, awaited>>
      /\ TypeOK
  BY DEF Ask, Inv1
<1>3. StoreIsWhole' /\ CallsAreSound'
  BY <1>2 DEF Inv2, Data, StoreIsWhole, CallsAreSound
<1>4. RequestsFit' /\ FoundIsWhole'
  BY <1>1, <1>2 DEF Inv2, Data, TypeOK, RequestsFit, FoundIsWhole
<1>5. AnswerCoversRequest' /\ AgeIsHonest'
  BY <1>1, <1>2 DEF Inv2, TypeOK, AnswerCoversRequest, AgeIsHonest, NoAnswer
<1> QED
  BY <1>3, <1>4, <1>5 DEF Inv2, Data

LEMMA ReadKeeps2 == ASSUME Inv1, Inv2, NEW p \in Callers, Read(p) PROVE Inv2'
<1>1. asked[p].key \in Keys /\ TypeOK
  BY DEF Read, Inv1, BusyCallers, Request
<1>2. /\ \A k \in Keys : store'[k] = NoRecord \/ store'[k] = store[k]
      /\ found'[p] = NoRecord \/ found'[p] = store[asked[p].key]
      /\ \A q \in Callers \ {p} : found'[q] = found[q]
  <2>1. CASE ReadStore(p)
    BY <1>1, <2>1 DEF ReadStore, TypeOK
  <2>2. CASE ReadFails(p)
    BY <1>1, <2>2 DEF ReadFails, TypeOK
  <2> QED
    BY <2>1, <2>2 DEF Read
<1>3. /\ pc[p] = "reading" /\ pc' = [pc EXCEPT ![p] = "deciding"]
      /\ UNCHANGED <<now, running, call, asked, awaited, answer>>
  BY DEF Read
<1>4. StoreIsWhole' /\ CallsAreSound'
  BY <1>2, <1>3 DEF Inv2, Data, StoreIsWhole, CallsAreSound
<1>5. RequestsFit' /\ FoundIsWhole'
  BY <1>1, <1>2, <1>3 DEF Inv2, Data, TypeOK, RequestsFit, FoundIsWhole, StoreIsWhole
<1>6. AnswerCoversRequest' /\ AgeIsHonest'
  BY <1>3 DEF Inv2, AnswerCoversRequest, AgeIsHonest
<1> QED
  BY <1>4, <1>5, <1>6 DEF Inv2, Data

\* A caller that is given a record it found is told its age, whichever way.
LEMMA FoundIsHonest ==
    ASSUME Inv1, Inv2, NEW p \in Callers, pc[p] = "deciding", Servable(p),
           NEW stale \in BOOLEAN, stale <=> ~Fresh(p)
    PROVE  /\ AnswerFrom(p, found[p], stale, TRUE).series.days = asked[p].days
           /\ AnswerFrom(p, found[p], stale, TRUE).at
                < AnswerFrom(p, found[p], stale, TRUE).storedAt + MaxStale
           /\ AnswerFrom(p, found[p], stale, TRUE).stale <=>
                Interval(AnswerFrom(p, found[p], stale, TRUE).at, TTL)
                  > Interval(AnswerFrom(p, found[p], stale, TRUE).storedAt, TTL)
<1>1. /\ asked[p] \in Request /\ found[p] \in Record /\ now \in Time
      /\ asked[p].days \in DaysOf(asked[p].key) /\ Whole(asked[p].key, found[p])
  BY DEF Servable, Inv1, TypeOK, BusyCallers, Inv2, Data, RequestsFit, FoundIsWhole
<1>2. now \in Nat /\ found[p].storedAt \in Nat
  BY <1>1, LifetimeAssumption DEF Time, Record
<1>3. /\ AnswerFrom(p, found[p], stale, TRUE).at = now
      /\ AnswerFrom(p, found[p], stale, TRUE).storedAt = found[p].storedAt
      /\ AnswerFrom(p, found[p], stale, TRUE).stale = stale
  BY DEF AnswerFrom
<1>4. now < found[p].storedAt + MaxStale
  BY <1>1 DEF Servable, Whole, ExpiresAt
<1>5. stale <=> Interval(now, TTL) > Interval(found[p].storedAt, TTL)
  BY <1>1, <1>2, FreshMeansSameInterval DEF Fresh, Whole
<1> QED
  BY <1>1, <1>3, <1>4, <1>5, AnswerFromFits

\* What a step that answers p alone must leave in order.
LEMMA RespondKeeps2 ==
    ASSUME Inv1, Inv2, NEW p \in Callers, NEW given, Respond(p, given), asked' = asked, store' = store,
           given.series.days = asked[p].days,
           given.at < given.storedAt + MaxStale,
           given.stale <=> Interval(given.at, TTL) > Interval(given.storedAt, TTL),
           CallsAreSound'
    PROVE  Inv2'
<1>1. TypeOK /\ answer' = [answer EXCEPT ![p] = given] /\ pc' = [pc EXCEPT ![p] = "idle"]
        /\ found' = [found EXCEPT ![p] = NoRecord]
  BY DEF Inv1, Respond
<1>2. StoreIsWhole' /\ RequestsFit' /\ FoundIsWhole'
  BY <1>1 DEF Inv2, Data, TypeOK, StoreIsWhole, RequestsFit, FoundIsWhole
<1>3. \A q \in Callers : answer'[q] = IF q = p THEN given ELSE answer[q]
  BY <1>1 DEF TypeOK
<1>4. AnswerCoversRequest'
  BY <1>3 DEF Inv2, AnswerCoversRequest
<1>5. AgeIsHonest'
  BY <1>3 DEF Inv2, AgeIsHonest
<1> QED
  BY <1>2, <1>4, <1>5 DEF Inv2, Data

LEMMA HitKeeps2 == ASSUME Inv1, Inv2, NEW p \in Callers, Hit(p) PROVE Inv2'
<1>1. /\ pc[p] = "deciding" /\ Servable(p) /\ Fresh(p)
      /\ Respond(p, AnswerFrom(p, found[p], FALSE, TRUE))
      /\ asked' = asked /\ store' = store /\ call' = call
  BY DEF Hit
<1>2. CallsAreSound'
  BY <1>1 DEF Inv2, Data, CallsAreSound
<1> DEFINE given == AnswerFrom(p, found[p], FALSE, TRUE)
<1>3. /\ given.series.days = asked[p].days
      /\ given.at < given.storedAt + MaxStale
      /\ given.stale <=> Interval(given.at, TTL) > Interval(given.storedAt, TTL)
  BY <1>1, FoundIsHonest
<1> HIDE DEF given
<1> QED
  BY <1>1, <1>2, <1>3, RespondKeeps2 DEF given

LEMMA AnswerStaleKeeps2 == ASSUME Inv1, Inv2, NEW p \in Callers, AnswerStale(p) PROVE Inv2'
<1>1. /\ pc[p] = "deciding" /\ Servable(p) /\ ~Fresh(p)
      /\ Respond(p, AnswerFrom(p, found[p], TRUE, TRUE))
      /\ asked' = asked /\ store' = store
  BY DEF AnswerStale
<1>2. CallsAreSound'
  <2>1. PICK c \in Calls : Run(asked[p].key, asked[p].days, c)
    BY DEF AnswerStale
  <2>2. asked[p].key \in Keys /\ asked[p].days \in DaysOf(asked[p].key)
    BY <1>1 DEF Inv1, BusyCallers, Request, Inv2, Data, RequestsFit
  <2> QED
    BY <2>1, <2>2, RunStaysSound DEF Inv2, Data
<1> DEFINE given == AnswerFrom(p, found[p], TRUE, TRUE)
<1>3. /\ given.series.days = asked[p].days
      /\ given.at < given.storedAt + MaxStale
      /\ given.stale <=> Interval(given.at, TTL) > Interval(given.storedAt, TTL)
  BY <1>1, FoundIsHonest
<1> HIDE DEF given
<1> QED
  BY <1>1, <1>2, <1>3, RespondKeeps2 DEF given

LEMMA MissKeeps2 == ASSUME Inv1, Inv2, NEW p \in Callers, Miss(p) PROVE Inv2'
<1>1. PICK c \in Calls : Run(asked[p].key, asked[p].days, c)
  BY DEF Miss
<1>2. /\ pc[p] = "deciding" /\ pc' = [pc EXCEPT ![p] = "waiting"]
      /\ found' = [found EXCEPT ![p] = NoRecord]
      /\ UNCHANGED <<now, store, asked, answer>>
      /\ TypeOK
  BY DEF Miss, Inv1
<1>3. asked[p].key \in Keys /\ asked[p].days \in DaysOf(asked[p].key)
  BY <1>2 DEF Inv1, BusyCallers, Request, Inv2, Data, RequestsFit
<1>4. CallsAreSound'
  BY <1>1, <1>3, RunStaysSound DEF Inv2, Data
<1>5. StoreIsWhole' /\ RequestsFit' /\ FoundIsWhole'
  BY <1>2 DEF Inv2, Data, TypeOK, StoreIsWhole, RequestsFit, FoundIsWhole
<1>6. AnswerCoversRequest' /\ AgeIsHonest'
  BY <1>2 DEF Inv2, AnswerCoversRequest, AgeIsHonest
<1> QED
  BY <1>4, <1>5, <1>6 DEF Inv2, Data

\* A call that goes on soundly, over a store that stays whole.
LEMMA CallMoves2 ==
    ASSUME Inv1, Inv2, NEW c \in Calls, NEW new, Sound(new), call' = [call EXCEPT ![c] = new],
           StoreIsWhole', UNCHANGED <<now, pc, asked, found, answer>>
    PROVE  Inv2'
<1>1. CallsAreSound'
  BY DEF Inv1, TypeOK, Inv2, Data, CallsAreSound
<1>2. RequestsFit' /\ FoundIsWhole' /\ AnswerCoversRequest' /\ AgeIsHonest'
  BY DEF Inv2, Data, RequestsFit, FoundIsWhole, AnswerCoversRequest, AgeIsHonest
<1> QED
  BY <1>1, <1>2 DEF Inv2, Data

LEMMA CallStepKeeps2 ==
    ASSUME Inv1, Inv2, NEW c \in Calls, SourceAnswers(c) \/ SourceFails(c) \/ Arrive(c) \/ Store(c)
    PROVE  Inv2'
<1>0. TypeOK /\ now \in Time /\ call[c] \in CallStates /\ Sound(call[c]) /\ StoreIsWhole
  BY DEF Inv1, TypeOK, Inv2, Data, CallsAreSound
<1>1. CASE SourceAnswers(c)
  <2> DEFINE new == [phase |-> "arriving", key |-> call[c].key,
                     series |-> [asOf |-> now, days |-> call[c].days]]
  <2>1. Sound(new)
    BY <1>0, <1>1 DEF SourceAnswers, Sound
  <2>2. /\ call' = [call EXCEPT ![c] = new] /\ store' = store
        /\ UNCHANGED <<now, pc, asked, found, answer>>
    BY <1>0, <1>1 DEF SourceAnswers, TypeOK
  <2>3. StoreIsWhole'
    BY <1>0, <2>2 DEF StoreIsWhole
  <2> HIDE DEF new
  <2> QED
    BY <2>1, <2>2, <2>3, CallMoves2
<1>2. CASE SourceFails(c)
  <2> DEFINE new == [phase |-> "settling", key |-> call[c].key, result |-> Failure]
  <2>1. Sound(new)
    BY DEF Sound
  <2>2. /\ call' = [call EXCEPT ![c] = new] /\ store' = store
        /\ UNCHANGED <<now, pc, asked, found, answer>>
    BY <1>0, <1>2 DEF SourceFails, TypeOK
  <2>3. StoreIsWhole'
    BY <1>0, <2>2 DEF StoreIsWhole
  <2> HIDE DEF new
  <2> QED
    BY <2>1, <2>2, <2>3, CallMoves2
<1>3. CASE Arrive(c)
  <2> DEFINE new == [phase |-> "storing", key |-> call[c].key, record |-> NewRecord(call[c].series)]
  <2>1. call[c].phase = "arriving" /\ call[c].key \in Keys /\ call[c].series \in Series
    BY <1>0, <1>3 DEF Arrive, CallStates, Free
  <2>2. Whole(call[c].key, NewRecord(call[c].series))
    BY <1>0, <2>1, NewRecordIsWhole DEF Sound
  <2>3. Sound(new)
    BY <2>2 DEF Sound
  <2>4. /\ call' = [call EXCEPT ![c] = new] /\ store' = store
        /\ UNCHANGED <<now, pc, asked, found, answer>>
    BY <1>0, <1>3 DEF Arrive, TypeOK
  <2>5. StoreIsWhole'
    BY <1>0, <2>4 DEF StoreIsWhole
  <2> HIDE DEF new
  <2> QED
    BY <2>3, <2>4, <2>5, CallMoves2
<1>4. CASE Store(c)
  <2> DEFINE new == [phase |-> "settling", key |-> call[c].key, result |-> call[c].record]
  <2>1. call[c].phase = "storing" /\ call[c].key \in Keys /\ Whole(call[c].key, call[c].record)
    BY <1>0, <1>4 DEF Store, CallStates, Free, Sound
  <2>2. Sound(new)
    BY <2>1 DEF Sound
  <2>3. /\ call' = [call EXCEPT ![c] = new]
        /\ UNCHANGED <<now, pc, asked, found, answer>>
    BY <1>0, <1>4 DEF Store, TypeOK
  <2>4. \A k \in Keys : store'[k] = store[k] \/ (k = call[c].key /\ store'[k] = call[c].record)
    BY <1>0, <1>4, <2>1 DEF Store, WriteStore, WriteFails, TypeOK
  <2>5. StoreIsWhole'
    BY <1>0, <2>1, <2>4 DEF StoreIsWhole
  <2> HIDE DEF new
  <2> QED
    BY <2>2, <2>3, <2>5, CallMoves2
<1> QED
  BY <1>1, <1>2, <1>3, <1>4

\* What each waiter is given covers what it asked, and claims no age.
LEMMA SettleKeeps2 == ASSUME Inv1, Inv2, NEW c \in Calls, Settle(c) PROVE Inv2'
<1> DEFINE result == call[c].result
<1>0. /\ TypeOK /\ now \in Time /\ call[c] \in CallStates /\ Sound(call[c])
      /\ call[c].phase = "settling"
  BY DEF Settle, Inv1, TypeOK, Inv2, Data, CallsAreSound
<1>1. result \in Record \cup {Failure} /\ (result = Failure \/ Whole(call[c].key, result))
  BY <1>0 DEF CallStates, Free, Sound
<1>2. /\ call' = [call EXCEPT ![c] = Free]
      /\ \A p \in Callers : answer'[p] = IF p \in Waiters(c) THEN Delivered(p, result) ELSE answer[p]
      /\ \A p \in Callers : pc'[p] = IF p \in Waiters(c) THEN "idle" ELSE pc[p]
      /\ UNCHANGED <<now, store, asked, found>>
  BY DEF Settle
<1>3. StoreIsWhole' /\ CallsAreSound' /\ RequestsFit' /\ FoundIsWhole'
  <2>1. StoreIsWhole'
    BY <1>2 DEF Inv2, Data, StoreIsWhole
  <2>2. CallsAreSound'
    BY <1>0, <1>2 DEF Inv2, Data, CallsAreSound, TypeOK, Sound, Free
  <2>3. RequestsFit' /\ FoundIsWhole'
    BY <1>2 DEF Inv2, Data, RequestsFit, FoundIsWhole
  <2> QED
    BY <2>1, <2>2, <2>3
<1>4. ASSUME NEW p \in Callers, p \in Waiters(c), Delivered(p, result).kind = "series"
      PROVE  /\ Delivered(p, result).series.days = asked[p].days
             /\ Delivered(p, result).cached = FALSE
  <2>1. pc[p] = "waiting" /\ awaited[p] = c
    BY <1>4, CallAssumption DEF Waiters, Inv1, BusyCallers
  <2>2. asked[p] \in Request /\ asked[p].days \in DaysOf(asked[p].key) /\ call[c].key = asked[p].key
    BY <2>1 DEF Inv1, BusyCallers, WaitersAwaitTheirCall, Inv2, Data, RequestsFit
  <2>3. result # Failure
    BY <1>4 DEF Delivered, Failure
  <2>4. result \in Record /\ Whole(asked[p].key, result)
    BY <1>1, <2>2, <2>3
  <2>5. Delivered(p, result) = AnswerFrom(p, result, FALSE, FALSE)
    BY <2>3 DEF Delivered
  <2>6. AnswerFrom(p, result, FALSE, FALSE).series.days = asked[p].days
    BY <1>0, <2>2, <2>4, AnswerFromFits
  <2>7. AnswerFrom(p, result, FALSE, FALSE).cached = FALSE
    BY DEF AnswerFrom
  <2> QED
    BY <2>5, <2>6, <2>7
<1>5. AnswerCoversRequest' /\ AgeIsHonest'
  <2>1. ASSUME NEW p \in Callers, answer'[p].kind = "series"
        PROVE  answer'[p].series.days = asked'[p].days
    BY <1>2, <1>4, <2>1 DEF Inv2, AnswerCoversRequest
  <2>2. ASSUME NEW p \in Callers, answer'[p].kind = "series", answer'[p].cached
        PROVE  answer'[p] = answer[p]
    BY <1>2, <1>4, <2>2
  <2>3. AgeIsHonest'
    BY <2>2 DEF Inv2, AgeIsHonest
  <2> QED
    BY <2>1, <2>3 DEF AnswerCoversRequest
<1> QED
  BY <1>3, <1>5 DEF Inv2, Data

LEMMA NextKeeps2 == ASSUME Inv1, Inv2, [Next]_vars PROVE Inv2'
<1>1. ASSUME NEW p \in Callers, CallerStep(p) PROVE Inv2'
  BY <1>1, AskKeeps2, ReadKeeps2, HitKeeps2, AnswerStaleKeeps2, MissKeeps2 DEF CallerStep
<1>2. ASSUME NEW c \in Calls, CallStep(c) PROVE Inv2'
  BY <1>2, CallStepKeeps2, SettleKeeps2 DEF CallStep
<1>3. ASSUME NEW k \in Keys, Evict(k) PROVE Inv2'
  BY <1>3 DEF Evict, Inv1, TypeOK, Inv2, Data, StoreIsWhole, CallsAreSound, RequestsFit,
              FoundIsWhole, AnswerCoversRequest, AgeIsHonest
<1>4. CASE Tick
  BY <1>4 DEF Tick, Inv2, Data, StoreIsWhole, CallsAreSound, RequestsFit,
              FoundIsWhole, AnswerCoversRequest, AgeIsHonest
<1>5. CASE UNCHANGED vars
  BY <1>5 DEF vars, Inv2, Data, StoreIsWhole, CallsAreSound, RequestsFit,
              FoundIsWhole, AnswerCoversRequest, AgeIsHonest
<1> QED
  BY <1>1, <1>2, <1>3, <1>4, <1>5 DEF Next

LEMMA Invariance2 == Spec => []Inv2
<1>1. Inv1 /\ Inv2 /\ [Next]_vars => Inv2'
  BY NextKeeps2
<1> QED
  BY InitInv2, Invariance1, <1>1, PTL DEF Spec

\* Every answer covers exactly the days asked for, for any horizons: the call
\* and the entry that all horizons share are long enough for each of them.
THEOREM AnswersCover == Spec => []AnswerCoversRequest
BY Invariance2, PTL DEF Inv2

\* No cached answer misstates its age, for any interval and tolerated age,
\* however late after the read the caller decides.
THEOREM AgesAreHonest == Spec => []AgeIsHonest
BY Invariance2, PTL DEF Inv2

----------------------------------------------------------------------------
(***************************************************************************)
(* Layer 3: the store never goes back.                                     *)
(***************************************************************************)

\* A record was produced, then stored, and neither in the future.
Dated(r, t) == r.series.asOf <= r.storedAt /\ r.storedAt <= t

DatedCall(x, t) ==
    /\ x.phase = "arriving" => x.series.asOf <= t
    /\ x.phase = "storing" => Dated(x.record, t)
    /\ x.phase = "settling" => x.result = Failure \/ Dated(x.result, t)

\* What a call brings is at least as young as s, what is stored under its key.
Follows(x, s) ==
    s # NoRecord =>
        /\ x.phase = "arriving" => s.series.asOf <= x.series.asOf
        /\ x.phase = "storing" => /\ s.series.asOf <= x.record.series.asOf
                                  /\ s.storedAt <= x.record.storedAt

StoreIsDated == \A k \in Keys : store[k] # NoRecord => Dated(store[k], now)
CallsAreDated == \A c \in Calls : DatedCall(call[c], now)
CallsFollow == \A c \in Calls : Live(c) => Follows(call[c], store[call[c].key])

Inv3 == StoreIsDated /\ CallsAreDated /\ CallsFollow

LEMMA InitInv3 == Init => Inv3
BY DEF Init, Inv3, StoreIsDated, CallsAreDated, CallsFollow, DatedCall, Live, Free

\* Two live calls have two keys, and each of them one of Keys.
LEMMA LiveCallsDiffer ==
    ASSUME Inv1, NEW c \in Calls, NEW e \in Calls, call[c].phase # "free", call[e].phase # "free", c # e
    PROVE  call[c].key # call[e].key
BY DEF Inv1, RunningTracksCalls, Live

LEMMA LiveCallsHaveKeys ==
    ASSUME Inv1, NEW c \in Calls, call[c].phase # "free"
    PROVE  call[c].key \in Keys
BY DEF Inv1, TypeOK, CallStates, Free

\* Records only disappear, and calls stay, or start.
LEMMA StartsKeep3 ==
    ASSUME Inv1, Inv3, now' = now,
           \A k \in Keys : store'[k] = NoRecord \/ store'[k] = store[k],
           \A e \in Calls : call'[e] = call[e] \/ call'[e] = Free \/ call'[e].phase = "out"
    PROVE  Inv3'
<1>1. StoreIsDated'
  BY DEF Inv3, StoreIsDated
<1>2. CallsAreDated'
  BY DEF Inv3, CallsAreDated, DatedCall, Free
<1>3. ASSUME NEW e \in Calls, call'[e].phase # "free"
      PROVE  Follows(call'[e], store'[call'[e].key])
  <2>1. CASE call'[e] = call[e]
    <3>1. call[e].key \in Keys /\ Follows(call[e], store[call[e].key])
      BY <1>3, <2>1, LiveCallsHaveKeys DEF Inv3, CallsFollow, Live
    <3> QED
      BY <2>1, <3>1 DEF Follows
  <2>2. CASE call'[e].phase = "out"
    BY <2>2 DEF Follows
  <2> QED
    BY <1>3, <2>1, <2>2 DEF Free
<1> QED
  BY <1>1, <1>2, <1>3 DEF Inv3, CallsFollow, Live

\* A run leaves every call as it is, but for one that starts.
LEMMA RunOnlyStarts ==
    ASSUME Inv1, NEW k, NEW d, NEW c \in Calls, Run(k, d, c)
    PROVE  \A e \in Calls : call'[e] = call[e] \/ call'[e] = Free \/ call'[e].phase = "out"
<1>1. CASE Join(k, c)
  BY <1>1 DEF Join
<1>2. CASE Start(k, d, c)
  BY <1>2 DEF Start, Inv1, TypeOK
<1> QED
  BY <1>1, <1>2 DEF Run

LEMMA CallerKeeps3 == ASSUME Inv1, Inv3, NEW p \in Callers, CallerStep(p) PROVE Inv3'
<1>1. CASE Ask(p)
  BY <1>1, StartsKeep3 DEF Ask
<1>2. CASE Read(p)
  <2>1. asked[p].key \in Keys
    BY <1>2 DEF Read, Inv1, BusyCallers, Request
  <2>2. \A k \in Keys : store'[k] = NoRecord \/ store'[k] = store[k]
    BY <1>2, <2>1 DEF Read, ReadStore, ReadFails, Inv1, TypeOK
  <2> QED
    BY <1>2, <2>2, StartsKeep3 DEF Read
<1>3. CASE Hit(p)
  BY <1>3, StartsKeep3 DEF Hit
<1>4. CASE AnswerStale(p)
  <2>1. PICK c \in Calls : Run(asked[p].key, asked[p].days, c)
    BY <1>4 DEF AnswerStale
  <2> QED
    BY <1>4, <2>1, RunOnlyStarts, StartsKeep3 DEF AnswerStale
<1>5. CASE Miss(p)
  <2>1. PICK c \in Calls : Run(asked[p].key, asked[p].days, c)
    BY <1>5 DEF Miss
  <2> QED
    BY <1>5, <2>1, RunOnlyStarts, StartsKeep3 DEF Miss
<1> QED
  BY <1>1, <1>2, <1>3, <1>4, <1>5 DEF CallerStep

\* A call that goes on, with what it brings dated and following the store.
LEMMA CallMoves3 ==
    ASSUME Inv1, Inv3, NEW c \in Calls, Live(c), NEW new, new.key = call[c].key,
           call' = [call EXCEPT ![c] = new], UNCHANGED <<now, store>>,
           DatedCall(new, now), Follows(new, store[call[c].key])
    PROVE  Inv3'
<1>1. \A e \in Calls : call'[e] = IF e = c THEN new ELSE call[e]
  BY DEF Inv1, TypeOK
<1>2. StoreIsDated'
  BY DEF Inv3, StoreIsDated
<1>3. CallsAreDated'
  BY <1>1 DEF Inv3, CallsAreDated
<1>4. CallsFollow'
  BY <1>1 DEF Inv3, CallsFollow, Live
<1> QED
  BY <1>2, <1>3, <1>4 DEF Inv3

\* The moments in a record, and in a series, are numbers.
LEMMA MomentsAreNumbers ==
    /\ Time \subseteq Int
    /\ \A s \in Series : s.asOf \in Int
    /\ \A r \in Record : /\ r.series \in Series /\ r.series.asOf \in Int
                          /\ r.storedAt \in Int /\ r.expiresAt \in Int
BY LifetimeAssumption DEF Time, Series, Record

LEMMA MovingKeeps3 ==
    ASSUME Inv1, Inv3, NEW c \in Calls, SourceAnswers(c) \/ SourceFails(c) \/ Arrive(c)
    PROVE  Inv3'
<1> DEFINE k == call[c].key
           s == store[k]
<1>0. /\ TypeOK /\ now \in Time /\ call[c] \in CallStates /\ DatedCall(call[c], now)
      /\ Live(c) /\ k \in Keys /\ now \in Int
  BY LiveCallsHaveKeys, MomentsAreNumbers
     DEF Inv1, TypeOK, Inv3, CallsAreDated, SourceAnswers, SourceFails, Arrive, Live
<1>1. /\ s # NoRecord => s \in Record /\ Dated(s, now)
      /\ Follows(call[c], s)
  BY <1>0 DEF Inv3, StoreIsDated, CallsFollow, TypeOK
<1>2. CASE SourceAnswers(c)
  <2> DEFINE new == [phase |-> "arriving", key |-> k, series |-> [asOf |-> now, days |-> call[c].days]]
  <2>1. new.key = k /\ DatedCall(new, now)
    BY <1>0 DEF DatedCall
  <2>2. s # NoRecord => s.series.asOf <= now
    BY <1>0, <1>1, MomentsAreNumbers DEF Dated
  <2>3. Follows(new, s)
    BY <2>2 DEF Follows
  <2>4. call' = [call EXCEPT ![c] = new] /\ UNCHANGED <<now, store>>
    BY <1>0, <1>2 DEF SourceAnswers, TypeOK
  <2> HIDE DEF new
  <2> QED
    BY <1>0, <2>1, <2>3, <2>4, CallMoves3
<1>3. CASE SourceFails(c)
  <2> DEFINE new == [phase |-> "settling", key |-> k, result |-> Failure]
  <2>1. new.key = k /\ DatedCall(new, now) /\ Follows(new, s)
    BY DEF DatedCall, Follows
  <2>2. call' = [call EXCEPT ![c] = new] /\ UNCHANGED <<now, store>>
    BY <1>0, <1>3 DEF SourceFails, TypeOK
  <2> HIDE DEF new
  <2> QED
    BY <1>0, <2>1, <2>2, CallMoves3
<1>4. CASE Arrive(c)
  <2> DEFINE r == NewRecord(call[c].series)
             new == [phase |-> "storing", key |-> k, record |-> r]
  <2>1. call[c].phase = "arriving" /\ call[c].series \in Series
    BY <1>0, <1>4 DEF Arrive, CallStates, Free
  <2>2. r.series = call[c].series /\ r.storedAt = now
    BY <1>0, <2>1, NewRecordIsRecord
  <2>3. Dated(r, now)
    BY <1>0, <2>1, <2>2 DEF DatedCall, Dated
  <2>4. s # NoRecord => s.series.asOf <= r.series.asOf /\ s.storedAt <= r.storedAt
    BY <1>1, <2>1, <2>2 DEF Follows, Dated
  <2> HIDE DEF r
  <2>5. new.key = k /\ DatedCall(new, now) /\ Follows(new, s)
    BY <2>3, <2>4 DEF DatedCall, Follows
  <2>6. call' = [call EXCEPT ![c] = new] /\ UNCHANGED <<now, store>>
    BY <1>0, <1>4 DEF Arrive, TypeOK, r
  <2> HIDE DEF new
  <2> QED
    BY <1>0, <2>5, <2>6, CallMoves3
<1> QED
  BY <1>2, <1>3, <1>4

\* The write of a call: what is stored is what it brought, or stays.
LEMMA StoreWrites ==
    ASSUME Inv1, NEW c \in Calls, Store(c)
    PROVE  /\ call[c].phase = "storing" /\ call[c].key \in Keys /\ call[c].record \in Record
           /\ \A k \in Keys : k # call[c].key => store'[k] = store[k]
           /\ store'[call[c].key] = call[c].record \/ store'[call[c].key] = store[call[c].key]
           /\ \A e \in Calls : e # c => call'[e] = call[e]
           /\ call'[c] = [phase |-> "settling", key |-> call[c].key, result |-> call[c].record]
<1>1. TypeOK /\ call[c] \in CallStates
  BY DEF Inv1, TypeOK
<1>2. call[c].phase = "storing" /\ call[c].key \in Keys /\ call[c].record \in Record
  BY <1>1 DEF Store, CallStates, Free
<1>3. /\ \A k \in Keys : k # call[c].key => store'[k] = store[k]
      /\ store'[call[c].key] = call[c].record \/ store'[call[c].key] = store[call[c].key]
  BY <1>1, <1>2 DEF Store, WriteStore, WriteFails, TypeOK
<1>4. call' = [call EXCEPT ![c] = [phase |-> "settling", key |-> call[c].key, result |-> call[c].record]]
  BY <1>1 DEF Store, TypeOK
<1> QED
  BY <1>1, <1>2, <1>3, <1>4 DEF TypeOK

LEMMA StoreKeeps3 == ASSUME Inv1, Inv3, NEW c \in Calls, Store(c) PROVE Inv3'
<1>1. now' = now /\ Dated(call[c].record, now)
  BY StoreWrites DEF Store, Inv3, CallsAreDated, DatedCall
<1>2. StoreIsDated'
  BY <1>1, StoreWrites DEF Inv3, StoreIsDated
<1>0. call'[c] = [phase |-> "settling", key |-> call[c].key, result |-> call[c].record]
  BY StoreWrites
<1>3. DatedCall(call'[c], now)
  BY <1>0, <1>1 DEF DatedCall
<1>4. CallsAreDated'
  BY <1>1, <1>3, StoreWrites DEF Inv3, CallsAreDated
<1>5. ASSUME NEW e \in Calls, call'[e].phase # "free"
      PROVE  Follows(call'[e], store'[call'[e].key])
  <2>1. CASE e = c
    <3>1. call'[e].phase = "settling"
      BY <1>0, <2>1
    <3> QED
      BY <3>1 DEF Follows
  <2>2. CASE e # c
    <3>1. call'[e] = call[e] /\ call[e].phase # "free" /\ call[c].phase # "free"
      BY <1>5, <2>2, StoreWrites
    <3>2. call[e].key # call[c].key /\ call[e].key \in Keys
      BY <2>2, <3>1, LiveCallsDiffer, LiveCallsHaveKeys
    <3>3. store'[call[e].key] = store[call[e].key]
      BY <3>2, StoreWrites
    <3> QED
      BY <3>1, <3>3 DEF Inv3, CallsFollow, Live
  <2> QED
    BY <2>1, <2>2
<1> QED
  BY <1>2, <1>4, <1>5 DEF Inv3, CallsFollow, Live

LEMMA NextKeeps3 == ASSUME Inv1, Inv3, [Next]_vars PROVE Inv3'
<1>1. ASSUME NEW c \in Calls, CallStep(c) PROVE Inv3'
  <2>1. CASE Settle(c)
    BY <2>1, StartsKeep3 DEF Settle, Inv1, TypeOK
  <2> QED
    BY <1>1, <2>1, MovingKeeps3, StoreKeeps3 DEF CallStep
<1>2. ASSUME NEW k \in Keys, Evict(k) PROVE Inv3'
  BY <1>2, StartsKeep3 DEF Evict, Inv1, TypeOK
<1>3. CASE Tick
  <2>1. now' = now + 1 /\ store' = store /\ call' = call /\ now \in Int
    BY <1>3, MomentsAreNumbers DEF Tick, Inv1, TypeOK
  <2>2. ASSUME NEW r \in Record, Dated(r, now) PROVE Dated(r, now')
    BY <2>1, <2>2, MomentsAreNumbers DEF Dated
  <2>3. StoreIsDated'
    BY <2>1, <2>2 DEF Inv1, TypeOK, Inv3, StoreIsDated
  <2>4. CallsFollow'
    BY <2>1 DEF Inv3, CallsFollow, Live
  <2>5. ASSUME NEW c \in Calls PROVE DatedCall(call[c], now')
    <3>1. call[c] \in CallStates /\ DatedCall(call[c], now)
      BY DEF Inv1, TypeOK, Inv3, CallsAreDated
    <3>2. CASE call[c].phase = "arriving"
      <4>1. call[c].series \in Series /\ call[c].series.asOf \in Int
        BY <3>1, <3>2, MomentsAreNumbers DEF CallStates, Free
      <4> QED
        BY <2>1, <3>1, <3>2, <4>1 DEF DatedCall
    <3>3. CASE call[c].phase = "storing"
      <4>1. call[c].record \in Record
        BY <3>1, <3>3 DEF CallStates, Free
      <4> QED
        BY <2>2, <3>1, <3>3, <4>1 DEF DatedCall
    <3>4. CASE call[c].phase = "settling"
      <4>1. call[c].result \in Record \cup {Failure}
        BY <3>1, <3>4 DEF CallStates, Free
      <4> QED
        BY <2>2, <3>1, <3>4, <4>1 DEF DatedCall
    <3> QED
      BY <3>1, <3>2, <3>3, <3>4 DEF DatedCall
  <2> QED
    BY <2>1, <2>3, <2>4, <2>5 DEF Inv3, CallsAreDated
<1>4. CASE UNCHANGED vars
  BY <1>4, StartsKeep3 DEF vars
<1> QED
  BY <1>1, <1>2, <1>3, <1>4, CallerKeeps3 DEF Next

LEMMA Invariance3 == Spec => []Inv3
<1>1. Inv1 /\ Inv3 /\ [Next]_vars => Inv3'
  BY NextKeeps3
<1> QED
  BY InitInv3, Invariance1, <1>1, PTL DEF Spec

\* No write replaces a record by an older one, for any number of callers and
\* keys and whichever operations of the store fail.
THEOREM StoreKeepsOrder == Spec => StoreNeverGoesBack
<1> DEFINE Forward ==
       \A k \in Keys :
          store[k] # NoRecord /\ store'[k] # NoRecord =>
              store'[k].series.asOf >= store[k].series.asOf
<1>1. ASSUME Inv1, Inv3, [Next]_vars PROVE [Forward]_store
  <2>0. \A k \in Keys : store[k] # NoRecord => store[k].series.asOf \in Int
    BY <1>1, MomentsAreNumbers DEF Inv1, TypeOK
  <2>1. ASSUME \A k \in Keys : store'[k] = NoRecord \/ store'[k] = store[k] PROVE Forward
    BY <2>0, <2>1
  <2>2. ASSUME NEW p \in Callers, CallerStep(p) PROVE [Forward]_store
    <3>1. CASE Read(p)
      <4>1. asked[p].key \in Keys
        BY <1>1, <3>1 DEF Read, Inv1, BusyCallers, Request
      <4> QED
        BY <1>1, <2>1, <3>1, <4>1 DEF Read, ReadStore, ReadFails, Inv1, TypeOK
    <3> QED
      BY <2>2, <3>1 DEF CallerStep, Ask, Hit, AnswerStale, Miss
  <2>3. ASSUME NEW c \in Calls, CallStep(c) PROVE [Forward]_store
    <3>1. CASE Store(c)
      <4>1. Follows(call[c], store[call[c].key])
        BY <1>1, <3>1, StoreWrites DEF Inv3, CallsFollow, Live
      <4>2. /\ call[c].record.series.asOf \in Int
            /\ store[call[c].key] # NoRecord =>
                 store[call[c].key].series.asOf <= call[c].record.series.asOf
        BY <1>1, <3>1, <4>1, StoreWrites, MomentsAreNumbers DEF Follows
      <4>3. ASSUME NEW k \in Keys, store[k] # NoRecord
            PROVE  store'[k].series.asOf >= store[k].series.asOf
        <5>1. CASE k = call[c].key
          <6>1. store'[k] = call[c].record \/ store'[k] = store[k]
            BY <1>1, <3>1, <5>1, StoreWrites
          <6> QED
            BY <2>0, <4>2, <4>3, <5>1, <6>1
        <5>2. CASE k # call[c].key
          <6>1. store'[k] = store[k]
            BY <1>1, <3>1, <5>2, StoreWrites
          <6> QED
            BY <2>0, <4>3, <6>1
        <5> QED
          BY <5>1, <5>2
      <4> QED
        BY <4>3
    <3> QED
      BY <2>3, <3>1 DEF CallStep, SourceAnswers, SourceFails, Arrive, Settle
  <2>4. ASSUME NEW k \in Keys, Evict(k) PROVE Forward
    BY <1>1, <2>1, <2>4 DEF Evict, Inv1, TypeOK
  <2> QED
    BY <1>1, <2>2, <2>3, <2>4 DEF Next, Tick, vars
<1> HIDE DEF Forward
<1>2. Spec => [][Forward]_store
  BY Invariance1, Invariance3, <1>1, PTL DEF Spec
<1> QED
  BY <1>2 DEF StoreNeverGoesBack, Forward

----------------------------------------------------------------------------
(***************************************************************************)
(* Layer 4: answers never go back behind what the store has been given.    *)
(***************************************************************************)

\* A record that has not expired at moment t.
Alive(r, t) == r # NoRecord /\ t < r.expiresAt

\* What a call brings is as young as n, the youngest data of its key so far.
Brings(x, n) ==
    /\ x.phase = "arriving" => n <= x.series.asOf
    /\ x.phase = "storing" => n <= x.record.series.asOf
    /\ x.phase = "settling" /\ x.result # Failure => n <= x.result.series.asOf

NewestIsPast == \A k \in Keys : newest[k] <= now
StoreIsYoungest == \A k \in Keys : Alive(store[k], now) => newest[k] <= store[k].series.asOf
CallsBring ==
    \A c \in Calls : Live(c) => Brings(call[c], newest[call[c].key])
FloorsHold == \A p \in Callers : pc[p] # "idle" => floor[p] <= newest[asked[p].key]
FoundIsYoung ==
    \A p \in Callers :
        pc[p] = "deciding" /\ Alive(found[p], now) => floor[p] <= found[p].series.asOf

Young == NewestIsPast /\ StoreIsYoungest /\ CallsBring
Held == FloorsHold /\ FoundIsYoung /\ AnswersNeverGoBack
Inv4 == Young /\ Held

LEMMA InitInv4 == Init => Inv4
BY DEF Init, Inv4, Young, Held, NewestIsPast, StoreIsYoungest, CallsBring, FloorsHold,
       FoundIsYoung, AnswersNeverGoBack, Alive, Live, Free, NoAnswer

\* Steps that only drop records and start, or end, calls.
LEMMA StartsKeepYoung ==
    ASSUME Inv1, Young, now' = now, newest' = newest,
           \A k \in Keys : store'[k] = NoRecord \/ store'[k] = store[k],
           \A e \in Calls : call'[e] = call[e] \/ call'[e] = Free \/ call'[e].phase = "out"
    PROVE  Young'
<1>1. NewestIsPast' /\ StoreIsYoungest'
  BY DEF Young, NewestIsPast, StoreIsYoungest, Alive
<1>2. ASSUME NEW e \in Calls, call'[e].phase # "free"
      PROVE  Brings(call'[e], newest'[call'[e].key])
  <2>1. CASE call'[e] = call[e]
    <3>1. call[e].key \in Keys /\ Brings(call[e], newest[call[e].key])
      BY <1>2, <2>1, LiveCallsHaveKeys DEF Young, CallsBring, Live
    <3> QED
      BY <2>1, <3>1 DEF Brings, Alive
  <2>2. CASE call'[e].phase = "out"
    BY <2>2 DEF Brings
  <2> QED
    BY <1>2, <2>1, <2>2 DEF Free
<1> QED
  BY <1>1, <1>2 DEF Young, CallsBring, Live

LEMMA AskKeeps4 == ASSUME Inv1, Inv4, NEW p \in Callers, Ask(p) PROVE Inv4'
<1>0. TypeOK /\ UNCHANGED <<now, store, call, newest, found>>
  BY DEF Ask, Inv1
<1>1. Young'
  BY <1>0, StartsKeepYoung DEF Inv4
<1>2. PICK k \in Keys : /\ \E d \in DaysOf(k) : asked' = [asked EXCEPT ![p] = [kind |-> "request", key |-> k, days |-> d]]
                        /\ floor' = [floor EXCEPT ![p] = newest[k]]
  BY DEF Ask
<1>3. PICK d \in DaysOf(k) : asked' = [asked EXCEPT ![p] = [kind |-> "request", key |-> k, days |-> d]]
  BY <1>2
<1>4. /\ asked'[p].key = k /\ floor'[p] = newest[k] /\ newest[k] \in Int
      /\ pc'[p] = "reading" /\ answer'[p] = NoAnswer
  <2>1. asked'[p].key = k /\ floor'[p] = newest[k]
    BY <1>0, <1>2, <1>3 DEF TypeOK
  <2>2. newest[k] \in Int
    BY <1>0, MomentsAreNumbers DEF TypeOK
  <2>3. pc'[p] = "reading" /\ answer'[p] = NoAnswer
    BY <1>0 DEF Ask, TypeOK
  <2> QED
    BY <2>1, <2>2, <2>3
<1>5. \A q \in Callers : q # p => /\ asked'[q] = asked[q] /\ floor'[q] = floor[q]
                                   /\ pc'[q] = pc[q] /\ answer'[q] = answer[q]
  <2>1. \A q \in Callers : q # p => asked'[q] = asked[q] /\ floor'[q] = floor[q]
    BY <1>0, <1>2, <1>3 DEF TypeOK
  <2>2. \A q \in Callers : q # p => pc'[q] = pc[q] /\ answer'[q] = answer[q]
    BY <1>0 DEF Ask, TypeOK
  <2> QED
    BY <2>1, <2>2
<1>6. FloorsHold' /\ FoundIsYoung'
  BY <1>0, <1>4, <1>5 DEF Inv4, Held, FloorsHold, FoundIsYoung
<1>7. AnswersNeverGoBack'
  BY <1>0, <1>4, <1>5 DEF Inv4, Held, AnswersNeverGoBack, NoAnswer
<1> QED
  BY <1>1, <1>6, <1>7 DEF Inv4, Held

LEMMA ReadKeeps4 == ASSUME Inv1, Inv4, NEW p \in Callers, Read(p) PROVE Inv4'
<1> DEFINE k == asked[p].key
<1>0. /\ TypeOK /\ UNCHANGED <<now, call, newest, asked, floor, answer>>
      /\ pc[p] = "reading" /\ k \in Keys
  BY DEF Read, Inv1, BusyCallers, Request
<1>1. /\ \A j \in Keys : store'[j] = NoRecord \/ store'[j] = store[j]
      /\ found'[p] = NoRecord \/ found'[p] = store[k]
      /\ \A q \in Callers : q # p => found'[q] = found[q] /\ pc'[q] = pc[q]
  BY <1>0 DEF Read, ReadStore, ReadFails, TypeOK
<1>2. Young'
  BY <1>0, <1>1, StartsKeepYoung DEF Inv4
<1>3. FloorsHold' /\ AnswersNeverGoBack'
  BY <1>0, <1>1 DEF Inv4, Held, FloorsHold, AnswersNeverGoBack
<1>4. ASSUME Alive(store[k], now) PROVE floor[p] <= store[k].series.asOf
  <2>1. newest[k] <= store[k].series.asOf /\ floor[p] <= newest[k]
    BY <1>0, <1>4 DEF Inv4, Young, StoreIsYoungest, Held, FloorsHold
  <2>2. newest[k] \in Int /\ floor[p] \in Int /\ store[k].series.asOf \in Int
    BY <1>0, <1>4, MomentsAreNumbers DEF TypeOK, Alive
  <2> QED
    BY <2>1, <2>2
<1>5. FoundIsYoung'
  BY <1>0, <1>1, <1>4 DEF Inv4, Held, FoundIsYoung, Alive
<1> QED
  BY <1>2, <1>3, <1>5 DEF Inv4, Held

\* A record that may be served is no older than the floor, and so is the
\* answer made of it.
LEMMA FoundIsYoungEnough ==
    ASSUME Inv1, Inv4, NEW p \in Callers, pc[p] = "deciding", Servable(p), NEW stale \in BOOLEAN
    PROVE  AnswerFrom(p, found[p], stale, TRUE).series.asOf >= floor[p]
<1>1. now \in Time /\ asked[p] \in Request /\ found[p] \in Record
  BY DEF Inv1, TypeOK, BusyCallers, Servable
<1>2. AnswerFrom(p, found[p], stale, TRUE).series.asOf = found[p].series.asOf
  BY <1>1, AnswerFromIsAnswer
<1>3. floor[p] <= found[p].series.asOf
  BY DEF Inv4, Held, FoundIsYoung, Servable, Alive
<1>4. floor[p] \in Int /\ found[p].series.asOf \in Int
  BY <1>1, MomentsAreNumbers DEF Inv1, TypeOK
<1> QED
  BY <1>2, <1>3, <1>4

LEMMA RespondKeepsHeld ==
    ASSUME Inv1, Held, NEW p \in Callers, NEW given, Respond(p, given),
           UNCHANGED <<now, newest, asked, floor>>, given.series.asOf >= floor[p]
    PROVE  Held'
<1>1. /\ \A q \in Callers : answer'[q] = IF q = p THEN given ELSE answer[q]
      /\ \A q \in Callers : pc'[q] = IF q = p THEN "idle" ELSE pc[q]
      /\ \A q \in Callers : q # p => found'[q] = found[q]
  BY DEF Inv1, TypeOK, Respond
<1>2. FloorsHold' /\ FoundIsYoung'
  BY <1>1 DEF Held, FloorsHold, FoundIsYoung
<1>3. AnswersNeverGoBack'
  BY <1>1 DEF Held, AnswersNeverGoBack
<1> QED
  BY <1>2, <1>3 DEF Held

LEMMA HitKeeps4 == ASSUME Inv1, Inv4, NEW p \in Callers, Hit(p) PROVE Inv4'
<1> DEFINE given == AnswerFrom(p, found[p], FALSE, TRUE)
<1>1. given.series.asOf >= floor[p]
  BY FoundIsYoungEnough DEF Hit
<1> HIDE DEF given
<1>2. Respond(p, given) /\ UNCHANGED <<now, newest, asked, floor, store, call>>
  BY DEF Hit, given
<1> QED
  BY <1>1, <1>2, RespondKeepsHeld, StartsKeepYoung DEF Inv4

LEMMA AnswerStaleKeeps4 == ASSUME Inv1, Inv4, NEW p \in Callers, AnswerStale(p) PROVE Inv4'
<1> DEFINE given == AnswerFrom(p, found[p], TRUE, TRUE)
<1>1. given.series.asOf >= floor[p]
  BY FoundIsYoungEnough DEF AnswerStale
<1> HIDE DEF given
<1>2. Respond(p, given) /\ UNCHANGED <<now, newest, asked, floor, store>>
  BY DEF AnswerStale, given
<1>3. PICK c \in Calls : Run(asked[p].key, asked[p].days, c)
  BY DEF AnswerStale
<1>4. \A e \in Calls : call'[e] = call[e] \/ call'[e] = Free \/ call'[e].phase = "out"
  BY <1>3, RunOnlyStarts
<1> QED
  BY <1>1, <1>2, <1>4, RespondKeepsHeld, StartsKeepYoung DEF Inv4

LEMMA MissKeeps4 == ASSUME Inv1, Inv4, NEW p \in Callers, Miss(p) PROVE Inv4'
<1>1. /\ TypeOK /\ UNCHANGED <<now, store, asked, answer, newest, floor>> /\ pc[p] = "deciding"
      /\ pc' = [pc EXCEPT ![p] = "waiting"] /\ found' = [found EXCEPT ![p] = NoRecord]
  BY DEF Miss, Inv1
<1>2. PICK c \in Calls : Run(asked[p].key, asked[p].days, c)
  BY DEF Miss
<1>3. \A e \in Calls : call'[e] = call[e] \/ call'[e] = Free \/ call'[e].phase = "out"
  BY <1>2, RunOnlyStarts
<1>4. Young'
  BY <1>1, <1>3, StartsKeepYoung DEF Inv4
<1>5. \A q \in Callers : /\ pc'[q] # "idle" => pc[q] # "idle"
                         /\ pc'[q] = "deciding" => q # p /\ pc[q] = "deciding" /\ found'[q] = found[q]
  BY <1>1 DEF TypeOK
<1>6. Held'
  BY <1>1, <1>5 DEF Inv4, Held, FloorsHold, FoundIsYoung, AnswersNeverGoBack
<1> QED
  BY <1>4, <1>6 DEF Inv4

\* Nobody's answer, request or reading changes while a call goes on.
LEMMA CallersAreHeld ==
    ASSUME Held, UNCHANGED <<now, pc, asked, found, answer, newest, floor>>
    PROVE  Held'
BY DEF Held, FloorsHold, FoundIsYoung, AnswersNeverGoBack

LEMMA CallMovesYoung ==
    ASSUME Inv1, Young, NEW c \in Calls, Live(c), NEW new, new.key = call[c].key,
           call' = [call EXCEPT ![c] = new], UNCHANGED <<now, store, newest>>,
           Brings(new, newest[call[c].key])
    PROVE  Young'
<1>1. \A e \in Calls : call'[e] = IF e = c THEN new ELSE call[e]
  BY DEF Inv1, TypeOK
<1>2. NewestIsPast' /\ StoreIsYoungest'
  BY DEF Young, NewestIsPast, StoreIsYoungest
<1>3. CallsBring'
  BY <1>1 DEF Young, CallsBring, Live
<1> QED
  BY <1>2, <1>3 DEF Young

LEMMA MovingKeeps4 ==
    ASSUME Inv1, Inv4, NEW c \in Calls, SourceAnswers(c) \/ SourceFails(c) \/ Arrive(c)
    PROVE  Inv4'
<1> DEFINE k == call[c].key
<1>0. /\ TypeOK /\ now \in Time /\ call[c] \in CallStates /\ Live(c) /\ k \in Keys
      /\ Brings(call[c], newest[k]) /\ newest[k] <= now
  BY LiveCallsHaveKeys
     DEF Inv1, TypeOK, Inv4, Young, CallsBring, NewestIsPast, SourceAnswers, SourceFails, Arrive, Live
<1>1. Held'
  BY CallersAreHeld DEF Inv4, SourceAnswers, SourceFails, Arrive
<1>2. CASE SourceAnswers(c)
  <2> DEFINE new == [phase |-> "arriving", key |-> k, series |-> [asOf |-> now, days |-> call[c].days]]
  <2>1. new.key = k /\ Brings(new, newest[k])
    BY <1>0 DEF Brings
  <2>2. call' = [call EXCEPT ![c] = new] /\ UNCHANGED <<now, store, newest>>
    BY <1>0, <1>2 DEF SourceAnswers, TypeOK
  <2> HIDE DEF new
  <2> QED
    BY <1>0, <1>1, <2>1, <2>2, CallMovesYoung DEF Inv4
<1>3. CASE SourceFails(c)
  <2> DEFINE new == [phase |-> "settling", key |-> k, result |-> Failure]
  <2>1. new.key = k /\ Brings(new, newest[k])
    BY DEF Brings
  <2>2. call' = [call EXCEPT ![c] = new] /\ UNCHANGED <<now, store, newest>>
    BY <1>0, <1>3 DEF SourceFails, TypeOK
  <2> HIDE DEF new
  <2> QED
    BY <1>0, <1>1, <2>1, <2>2, CallMovesYoung DEF Inv4
<1>4. CASE Arrive(c)
  <2> DEFINE r == NewRecord(call[c].series)
             new == [phase |-> "storing", key |-> k, record |-> r]
  <2>1. call[c].phase = "arriving" /\ call[c].series \in Series
    BY <1>0, <1>4 DEF Arrive, CallStates, Free
  <2>2. r.series = call[c].series
    BY <1>0, <2>1, NewRecordIsRecord
  <2> HIDE DEF r
  <2>3. new.key = k /\ Brings(new, newest[k])
    BY <1>0, <2>1, <2>2 DEF Brings
  <2>4. call' = [call EXCEPT ![c] = new] /\ UNCHANGED <<now, store, newest>>
    BY <1>0, <1>4 DEF Arrive, TypeOK, r
  <2> HIDE DEF new
  <2> QED
    BY <1>0, <1>1, <2>3, <2>4, CallMovesYoung DEF Inv4
<1> QED
  BY <1>2, <1>3, <1>4

\* A record that is not written, because it has expired, has outlived every
\* record stored before it.
LEMMA UnwrittenOutlives ==
    ASSUME Inv1, Inv2, Inv3, NEW c \in Calls, call[c].phase = "storing",
           call[c].record.expiresAt <= now
    PROVE  ~Alive(store[call[c].key], now)
<1> DEFINE r == call[c].record
           s == store[call[c].key]
<1>1. call[c] \in CallStates /\ call[c].key \in Keys /\ now \in Int
  BY LiveCallsHaveKeys, MomentsAreNumbers DEF Inv1, TypeOK
<1>2. r \in Record /\ Whole(call[c].key, r) /\ Follows(call[c], s)
  BY <1>1 DEF CallStates, Free, Inv2, Data, CallsAreSound, Sound, Inv3, CallsFollow, Live
<1>3. SUFFICES ASSUME s # NoRecord PROVE s.expiresAt <= now
  BY <1>1, MomentsAreNumbers DEF Alive, Inv1, TypeOK
<1>4. s \in Record /\ Whole(call[c].key, s) /\ s.storedAt <= r.storedAt
  BY <1>1, <1>2, <1>3 DEF Inv1, TypeOK, Inv2, Data, StoreIsWhole, Follows
<1>5. s.storedAt + MaxStale <= r.storedAt + MaxStale
  BY <1>2, <1>4, MomentsAreNumbers, LifetimeAssumption
<1>6. s.expiresAt = s.storedAt + MaxStale /\ r.expiresAt = r.storedAt + MaxStale
  BY <1>2, <1>4 DEF Whole, ExpiresAt
<1>7. s.expiresAt \in Int /\ r.expiresAt \in Int
  BY <1>2, <1>4, MomentsAreNumbers
<1> HIDE DEF r, s
<1>8. s.expiresAt <= r.expiresAt
  BY <1>5, <1>6
<1> QED
  BY <1>1, <1>7, <1>8 DEF r

\* The write of a call makes what it brought the youngest of its key, unless
\* it fails; a record that is not written leaves nothing that may be served.
LEMMA StoreMakesNews ==
    ASSUME Inv1, Inv2, Inv3, Inv4, NEW c \in Calls, Store(c)
    PROVE  LET k == call[c].key
               asOf == call[c].record.series.asOf
           IN  /\ newest[k] <= asOf /\ asOf <= now
               /\ newest[k] \in Int /\ asOf \in Int
               /\ \A j \in Keys : j # k => newest'[j] = newest[j] /\ store'[j] = store[j]
               /\ \/ newest'[k] = newest[k] /\ store'[k] = store[k]
                  \/ /\ newest'[k] = asOf
                     /\ store'[k] = call[c].record
                           \/ (store'[k] = store[k] /\ ~Alive(store[k], now))
<1> DEFINE k == call[c].key
           r == call[c].record
<1>0. /\ TypeOK /\ k \in Keys /\ r \in Record /\ now \in Int /\ call[c].phase = "storing"
  BY StoreWrites, MomentsAreNumbers DEF Inv1, TypeOK
<1>1. newest[k] <= r.series.asOf
  BY <1>0 DEF Inv4, Young, CallsBring, Brings, Live
<1>2. r.series.asOf <= now /\ r.series.asOf \in Int /\ newest[k] \in Int
  <2>1. r.series.asOf \in Int /\ r.storedAt \in Int /\ newest[k] \in Int
    BY <1>0, MomentsAreNumbers DEF TypeOK
  <2>2. r.series.asOf <= r.storedAt /\ r.storedAt <= now
    BY <1>0 DEF Inv3, CallsAreDated, DatedCall, Dated
  <2> QED
    BY <1>0, <2>1, <2>2
<1>3. \A j \in Keys : j # k => newest'[j] = newest[j] /\ store'[j] = store[j]
  BY <1>0 DEF Store, WriteStore, WriteFails, TypeOK
<1>4. CASE WriteFails
  BY <1>0, <1>1, <1>2, <1>3, <1>4 DEF WriteFails
<1>5. CASE WriteStore(c)
  <2>1. newest'[k] = r.series.asOf
    <3>1. newest'[k] = Max2(newest[k], r.series.asOf)
      BY <1>0, <1>5 DEF WriteStore, TypeOK
    <3> QED
      BY <1>1, <1>2, <3>1 DEF Max2
  <2>2. CASE r.expiresAt > now
    BY <1>0, <1>1, <1>2, <1>3, <1>5, <2>1, <2>2 DEF WriteStore, TypeOK
  <2>3. CASE ~(r.expiresAt > now)
    <3>1. r.expiresAt <= now
      BY <1>0, <2>3, MomentsAreNumbers
    <3>2. store' = store
      BY <1>5, <2>3 DEF WriteStore
    <3> QED
      BY <1>0, <1>1, <1>2, <1>3, <2>1, <3>1, <3>2, UnwrittenOutlives
  <2> QED
    BY <2>2, <2>3
<1> QED
  BY <1>4, <1>5 DEF Store

LEMMA StoreKeeps4 ==
    ASSUME Inv1, Inv2, Inv3, Inv4, NEW c \in Calls, Store(c)
    PROVE  Inv4'
<1> DEFINE k == call[c].key
           r == call[c].record
<1>0. /\ k \in Keys /\ r \in Record /\ now \in Int /\ now' = now
      /\ UNCHANGED <<pc, asked, found, answer, floor>>
  BY StoreWrites, MomentsAreNumbers DEF Inv1, TypeOK, Store
<1>1. /\ newest[k] <= r.series.asOf /\ r.series.asOf <= now
      /\ newest[k] \in Int /\ r.series.asOf \in Int
      /\ \A j \in Keys : j # k => newest'[j] = newest[j] /\ store'[j] = store[j]
      /\ \/ newest'[k] = newest[k] /\ store'[k] = store[k]
         \/ /\ newest'[k] = r.series.asOf
            /\ store'[k] = r \/ (store'[k] = store[k] /\ ~Alive(store[k], now))
  BY StoreMakesNews
<1>2. /\ call'[c] = [phase |-> "settling", key |-> k, result |-> r]
      /\ \A e \in Calls : e # c => call'[e] = call[e]
  BY StoreWrites
<1>3. \A j \in Keys : newest[j] \in Int /\ newest'[j] \in Int /\ newest[j] <= newest'[j]
  <2>1. \A j \in Keys : newest[j] \in Int
    BY MomentsAreNumbers DEF Inv1, TypeOK
  <2> HIDE DEF k, r
  <2> QED
    BY <1>1, <2>1
<1> HIDE DEF k, r
<1>4. NewestIsPast'
  <2>1. \A j \in Keys : newest'[j] <= now
    BY <1>0, <1>1 DEF Inv4, Young, NewestIsPast
  <2> QED
    BY <1>0, <2>1 DEF NewestIsPast
<1>5. StoreIsYoungest'
  <2>1. ASSUME NEW j \in Keys, Alive(store'[j], now) PROVE newest'[j] <= store'[j].series.asOf
    <3>1. CASE newest'[j] = newest[j] /\ store'[j] = store[j]
      BY <2>1, <3>1 DEF Inv4, Young, StoreIsYoungest
    <3>2. CASE j = k /\ newest'[k] = r.series.asOf /\ store'[k] = r
      BY <1>1, <3>2
    <3> QED
      BY <1>1, <2>1, <3>1, <3>2
  <2> QED
    BY <1>0, <2>1 DEF StoreIsYoungest
<1>6. Brings(call'[c], newest'[k])
  BY <1>1, <1>2 DEF Brings
<1>7. ASSUME NEW e \in Calls, call'[e].phase # "free"
      PROVE  Brings(call'[e], newest'[call'[e].key])
  <2>1. CASE e = c
    <3>1. call'[e].key = k
      BY <1>2, <2>1
    <3> QED
      BY <1>6, <2>1, <3>1
  <2>2. CASE e # c
    <3>1. call'[e] = call[e] /\ call[e].phase # "free"
      BY <1>2, <1>7, <2>2
    <3>2. call[e].key # k /\ call[e].key \in Keys
      BY <2>2, <3>1, StoreWrites, LiveCallsDiffer, LiveCallsHaveKeys DEF k
    <3> QED
      BY <1>1, <3>1, <3>2 DEF Inv4, Young, CallsBring, Live
  <2> QED
    BY <2>1, <2>2
<1>8. FloorsHold'
  <2>1. ASSUME NEW p \in Callers, pc[p] # "idle" PROVE floor[p] <= newest'[asked[p].key]
    <3>1. asked[p].key \in Keys /\ floor[p] <= newest[asked[p].key] /\ floor[p] \in Int
      BY <2>1, MomentsAreNumbers DEF Inv1, BusyCallers, Request, Inv4, Held, FloorsHold, TypeOK
    <3> QED
      BY <1>3, <3>1
  <2> QED
    BY <1>0, <2>1 DEF FloorsHold
<1>9. FoundIsYoung' /\ AnswersNeverGoBack'
  BY <1>0 DEF Inv4, Held, FoundIsYoung, AnswersNeverGoBack
<1> QED
  BY <1>4, <1>5, <1>7, <1>8, <1>9 DEF Inv4, Young, CallsBring, Live, Held

LEMMA SettleKeeps4 ==
    ASSUME Inv1, Inv4, NEW c \in Calls, Settle(c)
    PROVE  Inv4'
<1> DEFINE k == call[c].key
           r == call[c].result
<1>0. /\ TypeOK /\ k \in Keys /\ call[c].phase = "settling"
      /\ r \in Record \cup {Failure} /\ Live(c)
  BY LiveCallsHaveKeys DEF Settle, Inv1, TypeOK, CallStates, Free, Live
<1>1. r # Failure => newest[k] <= r.series.asOf /\ r.series.asOf \in Int /\ newest[k] \in Int
  BY <1>0, MomentsAreNumbers DEF TypeOK, Inv4, Young, CallsBring, Brings
<1>2. /\ \A e \in Calls : call'[e] = IF e = c THEN Free ELSE call[e]
      /\ UNCHANGED <<now, store, asked, found, newest, floor>>
      /\ \A p \in Callers : answer'[p] = IF p \in Waiters(c) THEN Delivered(p, r) ELSE answer[p]
      /\ \A p \in Callers : pc'[p] = IF p \in Waiters(c) THEN "idle" ELSE pc[p]
  BY <1>0 DEF Settle, TypeOK
<1>3. Young'
  <2>1. ASSUME NEW e \in Calls, call'[e].phase # "free"
        PROVE  Brings(call'[e], newest[call'[e].key])
    <3>1. call'[e] = call[e] /\ call[e].phase # "free"
      BY <1>2, <2>1 DEF Free
    <3> QED
      BY <3>1 DEF Inv4, Young, CallsBring, Live
  <2> QED
    BY <1>2, <2>1 DEF Inv4, Young, NewestIsPast, StoreIsYoungest, CallsBring, Live
<1>4. FloorsHold' /\ FoundIsYoung'
  BY <1>2 DEF Inv4, Held, FloorsHold, FoundIsYoung
<1>5. ASSUME NEW p \in Callers, p \in Waiters(c), Delivered(p, r).kind = "series"
      PROVE  Delivered(p, r).series.asOf >= floor[p]
  <2>1. pc[p] = "waiting" /\ awaited[p] = c
    BY <1>5, CallAssumption DEF Waiters, Inv1, BusyCallers
  <2>2. asked[p] \in Request /\ k = asked[p].key
    BY <2>1 DEF Inv1, BusyCallers, WaitersAwaitTheirCall
  <2>3. r # Failure /\ r \in Record
    BY <1>0, <1>5 DEF Delivered, Failure
  <2>4. Delivered(p, r).series.asOf = r.series.asOf
    BY <1>0, <2>2, <2>3, AnswerFromIsAnswer DEF Delivered, TypeOK
  <2>5. floor[p] <= newest[k] /\ floor[p] \in Int
    BY <1>0, <2>1, <2>2, MomentsAreNumbers DEF Inv4, Held, FloorsHold, TypeOK
  <2> HIDE DEF k, r
  <2> QED
    BY <1>1, <2>3, <2>4, <2>5
<1>6. AnswersNeverGoBack'
  <2>1. ASSUME NEW p \in Callers, answer'[p].kind = "series"
        PROVE  answer'[p].series.asOf >= floor[p]
    BY <1>2, <1>5, <2>1 DEF Inv4, Held, AnswersNeverGoBack
  <2> QED
    BY <1>2, <2>1 DEF AnswersNeverGoBack
<1> QED
  BY <1>3, <1>4, <1>6 DEF Inv4, Held

LEMMA EvictKeeps4 == ASSUME Inv1, Inv4, NEW k \in Keys, Evict(k) PROVE Inv4'
<1>1. Held'
  BY CallersAreHeld DEF Inv4, Evict
<1>2. Young'
  BY StartsKeepYoung DEF Inv4, Evict, Inv1, TypeOK
<1> QED
  BY <1>1, <1>2 DEF Inv4

LEMMA TickKeeps4 == ASSUME Inv1, Inv4, Tick PROVE Inv4'
<1>1. /\ now' = now + 1 /\ now \in Int
      /\ UNCHANGED <<store, call, pc, asked, found, answer, newest, floor>>
  BY MomentsAreNumbers DEF Tick, Inv1, TypeOK
<1>2. ASSUME NEW r \in Record \cup {NoRecord}, Alive(r, now') PROVE Alive(r, now)
  BY <1>1, <1>2, MomentsAreNumbers DEF Alive
<1>3. NewestIsPast'
  <2>1. ASSUME NEW k \in Keys PROVE newest[k] <= now + 1
    <3>1. newest[k] \in Int /\ newest[k] <= now
      BY MomentsAreNumbers DEF Inv1, TypeOK, Inv4, Young, NewestIsPast
    <3> QED
      BY <1>1, <3>1
  <2> QED
    BY <1>1, <2>1 DEF NewestIsPast
<1>4. StoreIsYoungest'
  BY <1>1, <1>2 DEF Inv1, TypeOK, Inv4, Young, StoreIsYoungest
<1>5. CallsBring'
  BY <1>1 DEF Inv4, Young, CallsBring, Live
<1>6. FoundIsYoung'
  BY <1>1, <1>2 DEF Inv1, TypeOK, Inv4, Held, FoundIsYoung
<1>7. FloorsHold' /\ AnswersNeverGoBack'
  BY <1>1 DEF Inv4, Held, FloorsHold, AnswersNeverGoBack
<1> QED
  BY <1>3, <1>4, <1>5, <1>6, <1>7 DEF Inv4, Young, Held

LEMMA NextKeeps4 ==
    ASSUME Inv1, Inv2, Inv3, Inv4, [Next]_vars
    PROVE  Inv4'
<1>1. ASSUME NEW p \in Callers, CallerStep(p) PROVE Inv4'
  BY <1>1, AskKeeps4, ReadKeeps4, HitKeeps4, AnswerStaleKeeps4, MissKeeps4 DEF CallerStep
<1>2. ASSUME NEW c \in Calls, CallStep(c) PROVE Inv4'
  BY <1>2, MovingKeeps4, StoreKeeps4, SettleKeeps4 DEF CallStep
<1>3. CASE UNCHANGED vars
  BY <1>3, CallersAreHeld, StartsKeepYoung DEF vars, Inv4
<1> QED
  BY <1>1, <1>2, <1>3, EvictKeeps4, TickKeeps4 DEF Next

\* Nobody is ever answered with data older than what had been stored for the
\* key before it asked, whatever operations of the store fail, for any number of
\* callers, keys and calls, any lifetimes, and any evictions.
THEOREM NobodyGoesBack == Spec => []AnswersNeverGoBack
<1>1. Inv1 /\ Inv2 /\ Inv3 /\ Inv4 /\ [Next]_vars => Inv4'
  BY NextKeeps4
<1>2. Spec => []Inv4
  BY InitInv4, Invariance1, Invariance2, Invariance3, <1>1, PTL DEF Spec
<1> QED
  BY <1>2, PTL DEF Inv4, Held

----------------------------------------------------------------------------
(***************************************************************************)
(* A stale answer and its refresh.                                         *)
(***************************************************************************)

\* Whoever is answered stale leaves a call for its key behind, started or
\* joined, at the moment it is answered.
THEOREM StaleRefreshes == Spec => StaleLeavesARefresh
<1> DEFINE Refreshed ==
       \A p \in Callers :
          answer'[p] # answer[p] /\ answer'[p].kind = "series" /\ answer'[p].stale =>
              running'[asked[p].key] # NoCall
<1>1. ASSUME Inv1, [Next]_vars PROVE [Refreshed]_vars
  <2>1. ASSUME NEW p \in Callers, CallerStep(p) PROVE Refreshed
    <3>1. CASE Ask(p)
      BY <1>1, <3>1 DEF Ask, Inv1, TypeOK, NoAnswer
    <3>2. CASE Read(p)
      BY <3>2 DEF Read
    <3>3. CASE Hit(p)
      BY <1>1, <3>3 DEF Hit, Respond, AnswerFrom, Inv1, TypeOK
    <3>4. CASE AnswerStale(p)
      <4>1. asked[p].key \in Keys
        BY <1>1, <3>4 DEF AnswerStale, Inv1, BusyCallers, Request
      <4>2. PICK c \in Calls : Run(asked[p].key, asked[p].days, c)
        BY <3>4 DEF AnswerStale
      <4>3. running'[asked[p].key] # NoCall
        BY <1>1, <4>1, <4>2, CallAssumption DEF Run, Join, Start, Inv1, TypeOK
      <4>4. \A q \in Callers : q # p => answer'[q] = answer[q]
        BY <1>1, <3>4 DEF AnswerStale, Respond, Inv1, TypeOK
      <4> QED
        BY <4>3, <4>4
    <3>5. CASE Miss(p)
      BY <3>5 DEF Miss
    <3> QED
      BY <2>1, <3>1, <3>2, <3>3, <3>4, <3>5 DEF CallerStep
  <2>2. ASSUME NEW c \in Calls, CallStep(c) PROVE Refreshed
    <3>1. CASE Settle(c)
      BY <3>1 DEF Settle, Delivered, AnswerFrom, Failure
    <3> QED
      BY <2>2, <3>1 DEF CallStep, SourceAnswers, SourceFails, Arrive, Store
  <2>3. ASSUME NEW k \in Keys, Evict(k) PROVE Refreshed
    BY <2>3 DEF Evict
  <2> QED
    BY <1>1, <2>1, <2>2, <2>3 DEF Next, Tick
<1> HIDE DEF Refreshed
<1>2. Spec => [][Refreshed]_vars
  BY Invariance1, <1>1, PTL DEF Spec
<1> QED
  BY <1>2 DEF StaleLeavesARefresh, Refreshed
=============================================================================
