------------------------ MODULE ResilientPort_proofs ------------------------
(***************************************************************************)
(* Proofs about ResilientPort, for any number of fetches and any policy:   *)
(* the bulkhead keeps its books, nobody waits for a test nobody makes, and *)
(* the breaker opens when it should.                                       *)
(***************************************************************************)
EXTENDS ResilientPort, FiniteSetTheorems, TLAPS

Elems(s) == {s[i] : i \in 1 .. Len(s)}

NoRepeats(s) == \A i, j \in 1 .. Len(s) : s[i] = s[j] => i = j

\* An attempt is only begun where one is left, and a fetch begins with none made.
AttemptsAreLeft ==
    \A p \in Callers :
        /\ pc[p] \in {"idle", "entering", "behind"} => attempts[p] = 0
        /\ pc[p] \in {"attempting", "queued", "backing off"} => attempts[p] < MaxAttempts

\* Who is held up by a test does nothing else.
HeldUpWait == \A q \in Callers : behind[q] \in Callers => pc[q] = "behind"

Books ==
    /\ TypeOK
    /\ AttemptsAreLeft
    /\ HeldUpWait
    /\ NoRepeats(queue)
    /\ SlotsFollowTheCalls

----------------------------------------------------------------------------
(***************************************************************************)
(* Sets of fetches, and queues of them.                                    *)
(***************************************************************************)

\* One fetch more or less in a set of them.
LEMMA OneMoreOrLess ==
    ASSUME NEW S \in SUBSET Callers, NEW p \in Callers
    PROVE  /\ Cardinality(S) \in Nat
           /\ p \notin S => Cardinality(S \cup {p}) = Cardinality(S) + 1
           /\ p \in S => Cardinality(S \ {p}) = Cardinality(S) - 1
<1>1. IsFiniteSet(S)
  BY CallerAssumption, FS_Subset
<1> QED
  BY <1>1, FS_CardinalityType, FS_AddElement, FS_RemoveElement

\* What is left of a queue without its head.
LEMMA WithoutHead ==
    ASSUME NEW s \in Seq(Callers), s # << >>, NoRepeats(s)
    PROVE  /\ Head(s) \in Elems(s) /\ Head(s) \in Callers
           /\ Tail(s) \in Seq(Callers) /\ Len(Tail(s)) = Len(s) - 1
           /\ Elems(Tail(s)) = Elems(s) \ {Head(s)}
           /\ NoRepeats(Tail(s))
<1>1. Len(s) \in Nat \ {0} /\ Head(s) = s[1] /\ s[1] \in Callers
  OBVIOUS
<1>2. Tail(s) \in Seq(Callers) /\ Len(Tail(s)) = Len(s) - 1
  OBVIOUS
<1>3. \A i \in 1 .. Len(Tail(s)) : Tail(s)[i] = s[i + 1]
  OBVIOUS
<1>4. Elems(Tail(s)) \subseteq Elems(s) \ {Head(s)}
  BY <1>1, <1>2, <1>3 DEF Elems, NoRepeats
<1>5. Elems(s) \ {Head(s)} \subseteq Elems(Tail(s))
  <2> SUFFICES ASSUME NEW i \in 1 .. Len(s), s[i] # Head(s) PROVE s[i] \in Elems(Tail(s))
    BY DEF Elems
  <2>1. i - 1 \in 1 .. Len(Tail(s)) /\ Tail(s)[i - 1] = s[i]
    BY <1>1, <1>2, <1>3
  <2> QED
    BY <2>1 DEF Elems
<1>6. NoRepeats(Tail(s))
  BY <1>1, <1>2, <1>3 DEF NoRepeats
<1>7. Head(s) \in Elems(s)
  BY <1>1 DEF Elems
<1> QED
  BY <1>1, <1>2, <1>4, <1>5, <1>6, <1>7, Zenon

\* A queue somebody has joined.
LEMMA WithLast ==
    ASSUME NEW s \in Seq(Callers), NEW p \in Callers, p \notin Elems(s), NoRepeats(s)
    PROVE  /\ Append(s, p) \in Seq(Callers) /\ Len(Append(s, p)) = Len(s) + 1
           /\ Elems(Append(s, p)) = Elems(s) \cup {p}
           /\ NoRepeats(Append(s, p))
<1>1. Append(s, p) \in Seq(Callers) /\ Len(Append(s, p)) = Len(s) + 1 /\ Len(s) \in Nat
  OBVIOUS
<1>2. /\ \A i \in 1 .. Len(s) : Append(s, p)[i] = s[i]
      /\ Append(s, p)[Len(s) + 1] = p
  OBVIOUS
<1>3. Elems(Append(s, p)) \subseteq Elems(s) \cup {p}
  BY <1>1, <1>2 DEF Elems
<1>4. Elems(s) \cup {p} \subseteq Elems(Append(s, p))
  <2>1. \A i \in 1 .. Len(s) : s[i] \in Elems(Append(s, p))
    BY <1>1, <1>2 DEF Elems
  <2>2. p \in Elems(Append(s, p))
    BY <1>1, <1>2 DEF Elems
  <2> QED
    BY <2>1, <2>2 DEF Elems
<1>5. NoRepeats(Append(s, p))
  BY <1>1, <1>2 DEF NoRepeats, Elems
<1> QED
  BY <1>1, <1>3, <1>4, <1>5

----------------------------------------------------------------------------
(***************************************************************************)
(* The books, step by step.                                                *)
(***************************************************************************)

\* The stages, one by one.
LEMMA AllStages ==
    /\ "idle" \in Stages /\ "entering" \in Stages /\ "behind" \in Stages
    /\ "attempting" \in Stages /\ "queued" \in Stages /\ "out" \in Stages
    /\ "backing off" \in Stages /\ "judged" \in Stages
  BY DEF Stages

LEMMA BooksInit == Init => Books
<1> SUFFICES ASSUME Init PROVE Books
  OBVIOUS
<1>1. TypeOK
  <2>1. breaker \in Breakers
    BY PolicyAssumption DEF Init, Breakers
  <2>2. /\ pc \in [Callers -> Stages] /\ role \in [Callers -> {"normal", "test"}]
        /\ behind \in [Callers -> Callers \cup {Nobody}] /\ result \in [Callers -> Results]
    BY AllStages DEF Init, Results
  <2>5. queue \in Seq(Callers)
    BY DEF Init
  <2>3. /\ attempts \in [Callers -> 0 .. MaxAttempts] /\ wait \in [Callers -> 0 .. MaxDelay]
    BY PolicyAssumption DEF Init
  <2>4. active \in 0 .. Limit /\ fetches \in 0 .. MaxFetches /\ faults \in 0 .. Threshold
    BY PolicyAssumption DEF Init
  <2> QED
    BY <2>1, <2>2, <2>3, <2>4, <2>5 DEF TypeOK
<1>2. AttemptsAreLeft /\ HeldUpWait /\ NoRepeats(queue)
  <2>1. AttemptsAreLeft
    BY DEF Init, AttemptsAreLeft
  <2>2. HeldUpWait
    BY CallerAssumption DEF Init, HeldUpWait
  <2>3. NoRepeats(queue)
    BY DEF Init, NoRepeats
  <2> QED
    BY <2>1, <2>2, <2>3
<1>3. SlotsFollowTheCalls
  <2>1. At("out") = {} /\ At("queued") = {}
    BY DEF Init, At
  <2>2. queue = << >> /\ Len(queue) = 0 /\ {queue[i] : i \in 1 .. Len(queue)} = {}
    BY DEF Init
  <2>3. active = 0 /\ 0 <= Queue /\ Cardinality({}) = 0
    BY FS_EmptySet, PolicyAssumption DEF Init
  <2> QED
    BY <2>1, <2>2, <2>3 DEF SlotsFollowTheCalls
<1> QED
  BY <1>1, <1>2, <1>3 DEF Books

\* What the books say of the queue when a slot is freed.
LEMMA Freed ==
    ASSUME Books
    PROVE  /\ Released.slots = active - 1
           /\ Released.waiting \in Seq(Callers)
           /\ Released.called \subseteq At("queued")
           /\ Elems(Released.waiting) = At("queued") \ Released.called
           /\ NoRepeats(Released.waiting)
           /\ queue = << >> => Released.called = {} /\ Released.waiting = queue
           /\ queue # << >> =>
                 /\ Released.called = {Head(queue)} /\ Head(queue) \in Callers
                 /\ Len(Released.waiting) = Len(queue) - 1
<1>1. queue \in Seq(Callers) /\ NoRepeats(queue) /\ Elems(queue) = At("queued")
  BY DEF Books, TypeOK, SlotsFollowTheCalls, Elems
<1>2. CASE queue = << >>
  BY <1>1, <1>2 DEF Released
<1>3. CASE queue # << >>
  <2>1. Released = [slots |-> active - 1, waiting |-> Tail(queue), called |-> {Head(queue)}]
    BY <1>3 DEF Released
  <2> QED
    BY <1>1, <1>3, <2>1, WithoutHead
<1> QED
  BY <1>2, <1>3

\* Steps that leave slots and queue alone keep the slots' books if nobody goes
\* out, comes back, joins the queue or leaves it, or stops attempting.
LEMMA SlotsUndisturbed ==
    ASSUME Books, UNCHANGED <<active, queue>>,
           At("out")' = At("out"), At("queued")' = At("queued"),
           At("attempting") \subseteq At("attempting")'
    PROVE  SlotsFollowTheCalls'
<1>1. Cardinality(At("attempting")) <= Cardinality(At("attempting")')
  BY FS_Subset, CallerAssumption DEF At
<1>2. Cardinality(At("attempting")) \in Nat /\ Cardinality(At("attempting")') \in Nat
  BY FS_Subset, FS_CardinalityType, CallerAssumption DEF At
<1>3. active \in Nat /\ Limit \in Nat
  BY PolicyAssumption DEF Books, TypeOK
<1> QED
  BY <1>1, <1>2, <1>3 DEF Books, SlotsFollowTheCalls

LEMMA FetchKeepsBooks ==
    ASSUME Books, NEW p \in Callers, Fetch(p)
    PROVE  Books'
<1>1. TypeOK'
  <2>1. fetches' \in 0 .. MaxFetches
    BY PolicyAssumption DEF Books, TypeOK, Fetch
  <2>2. pc' \in [Callers -> Stages]
    BY AllStages DEF Books, TypeOK, Fetch
  <2> QED
    BY <2>1, <2>2 DEF Books, TypeOK, Fetch
<1>2. AttemptsAreLeft' /\ HeldUpWait' /\ NoRepeats(queue)'
  BY DEF Books, TypeOK, AttemptsAreLeft, HeldUpWait, NoRepeats, Fetch
<1>3. SlotsFollowTheCalls'
  <2>1. /\ At("out")' = At("out") /\ At("queued")' = At("queued")
        /\ At("attempting")' = At("attempting")
    BY DEF Books, TypeOK, At, Fetch
  <2> QED
    BY <2>1, SlotsUndisturbed DEF Fetch
<1> QED
  BY <1>1, <1>2, <1>3 DEF Books

LEMMA EnterKeepsBooks ==
    ASSUME Books, TestsAreUnderWay, NEW p \in Callers, Enter(p)
    PROVE  Books'
<1>1. /\ pc[p] = "entering"
      /\ UNCHANGED <<attempts, wait, result, active, queue, fetches, faults>>
  BY DEF Enter
<1>2. \E to \in {"attempting", "idle", "behind"} : pc' = [pc EXCEPT ![p] = to]
  BY DEF Enter, LetIn
<1>3. \/ UNCHANGED behind
      \/ behind' = [behind EXCEPT ![p] = breaker.tester] /\ pc' = [pc EXCEPT ![p] = "behind"]
  BY DEF Enter, LetIn
<1>4. UNCHANGED role \/ \E as \in {"normal", "test"} : role' = [role EXCEPT ![p] = as]
  BY DEF Enter, LetIn
<1>5. UNCHANGED breaker \/ breaker' = [breaker EXCEPT !.state = "half open", !.tester = p]
  BY DEF Enter
<1>6. pc \in [Callers -> Stages] /\ attempts[p] = 0
  BY <1>1 DEF Books, TypeOK, AttemptsAreLeft
<1>7. TypeOK'
  <2>1. pc' \in [Callers -> Stages]
    BY <1>2, <1>6, AllStages
  <2>2. breaker \in Breakers /\ breaker' \in Breakers
    BY <1>5 DEF Books, TypeOK, Breakers
  <2>3. behind' \in [Callers -> Callers \cup {Nobody}]
    BY <1>3, <2>2 DEF Books, TypeOK, Breakers
  <2>4. role' \in [Callers -> {"normal", "test"}]
    BY <1>4 DEF Books, TypeOK
  <2> QED
    BY <1>1, <2>1, <2>2, <2>3, <2>4 DEF Books, TypeOK
<1>8. AttemptsAreLeft' /\ NoRepeats(queue)'
  <2>1. 0 < MaxAttempts
    BY PolicyAssumption
  <2> QED
    BY <1>1, <1>2, <1>6, <2>1 DEF Books, AttemptsAreLeft, NoRepeats
<1>9. HeldUpWait'
  BY <1>1, <1>2, <1>3, <1>6 DEF Books, TypeOK, HeldUpWait
<1>10. SlotsFollowTheCalls'
  <2>1. /\ At("out")' = At("out") /\ At("queued")' = At("queued")
        /\ At("attempting") \subseteq At("attempting")'
    BY <1>1, <1>2, <1>6 DEF At
  <2> QED
    BY <1>1, <2>1, SlotsUndisturbed
<1> QED
  BY <1>7, <1>8, <1>9, <1>10 DEF Books

LEMMA TakeSlotKeepsBooks ==
    ASSUME Books, NEW p \in Callers, TakeSlot(p)
    PROVE  Books'
<1>1. pc[p] = "attempting" /\ attempts[p] < MaxAttempts /\ active < Limit
  BY DEF Books, AttemptsAreLeft, TakeSlot
<1>2. TypeOK'
  <2>1. attempts \in [Callers -> 0 .. MaxAttempts] /\ active \in 0 .. Limit
    BY DEF Books, TypeOK
  <2>2. attempts' \in [Callers -> 0 .. MaxAttempts] /\ active' \in 0 .. Limit
    BY <1>1, <2>1, PolicyAssumption DEF TakeSlot
  <2>3. pc' \in [Callers -> Stages]
    BY AllStages DEF Books, TypeOK, TakeSlot
  <2> QED
    BY <2>2, <2>3 DEF Books, TypeOK, TakeSlot
<1>3. AttemptsAreLeft' /\ HeldUpWait' /\ NoRepeats(queue)'
  BY <1>1 DEF Books, TypeOK, AttemptsAreLeft, HeldUpWait, NoRepeats, TakeSlot
<1>4. SlotsFollowTheCalls'
  <2>1. /\ At("out")' = At("out") \cup {p} /\ p \notin At("out")
        /\ At("queued")' = At("queued")
        /\ At("attempting")' = At("attempting") \ {p} /\ p \in At("attempting")
    BY <1>1 DEF Books, TypeOK, At, TakeSlot
  <2>2. /\ Cardinality(At("out")') = Cardinality(At("out")) + 1
        /\ Cardinality(At("attempting")') = Cardinality(At("attempting")) - 1
        /\ Cardinality(At("out")) \in Nat /\ Cardinality(At("attempting")) \in Nat
    BY <2>1, OneMoreOrLess DEF At
  <2>3. active' = active + 1 /\ UNCHANGED queue
    BY DEF TakeSlot
  <2>4. Limit \in Nat
    BY PolicyAssumption
  <2> QED
    BY <2>1, <2>2, <2>3, <2>4 DEF Books, SlotsFollowTheCalls
<1> QED
  BY <1>2, <1>3, <1>4 DEF Books

LEMMA WaitForSlotKeepsBooks ==
    ASSUME Books, NEW p \in Callers, WaitForSlot(p)
    PROVE  Books'
<1>1. pc[p] = "attempting" /\ attempts[p] < MaxAttempts /\ active = Limit
  BY DEF Books, AttemptsAreLeft, WaitForSlot
<1>2. /\ queue \in Seq(Callers) /\ Elems(queue) = At("queued") /\ NoRepeats(queue)
      /\ p \notin Elems(queue) /\ Len(queue) \in Nat
  <2>1. queue \in Seq(Callers) /\ NoRepeats(queue)
    BY DEF Books, TypeOK
  <2>2. Elems(queue) = At("queued")
    BY DEF Books, SlotsFollowTheCalls, Elems
  <2> QED
    BY <1>1, <2>1, <2>2 DEF At
<1>3. CASE Len(queue) < Queue
  <2>1. /\ queue' = Append(queue, p) /\ pc' = [pc EXCEPT ![p] = "queued"]
        /\ UNCHANGED <<role, behind, attempts, wait, result, breaker, active, fetches, faults>>
    BY <1>3 DEF WaitForSlot
  <2>2. TypeOK'
    <3>1. queue' \in Seq(Callers)
      BY <1>2, <2>1
    <3>2. pc' \in [Callers -> Stages]
      BY <2>1, AllStages DEF Books, TypeOK
    <3> QED
      BY <2>1, <3>1, <3>2 DEF Books, TypeOK
  <2>3. AttemptsAreLeft' /\ HeldUpWait'
    BY <1>1, <2>1 DEF Books, TypeOK, AttemptsAreLeft, HeldUpWait
  <2>4. NoRepeats(queue)' /\ Elems(queue)' = Elems(queue) \cup {p} /\ Len(queue') = Len(queue) + 1
    <3>1. Elems(queue') = Elems(queue) \cup {p} /\ NoRepeats(queue') /\ Len(queue') = Len(queue) + 1
      BY <1>2, <2>1, WithLast
    <3> QED
      BY <3>1 DEF NoRepeats, Elems
  <2>5. SlotsFollowTheCalls'
    <3>1. /\ At("out")' = At("out")
          /\ At("queued")' = At("queued") \cup {p} /\ p \notin At("queued")
      BY <1>1, <2>1 DEF Books, TypeOK, At
    <3>2. /\ Cardinality(At("queued")') = Cardinality(At("queued")) + 1
          /\ Cardinality(At("attempting")') \in Nat
      BY <3>1, OneMoreOrLess DEF At
    <3> QED
      <4>1. Limit \in Nat /\ Queue \in Nat
        BY PolicyAssumption
      <4>2. active' = active
        BY <2>1
      <4>3. {queue'[i] : i \in 1 .. Len(queue')} = At("queued")'
        BY <1>2, <2>4, <3>1 DEF Elems
      <4>4. Len(queue') = Cardinality(At("queued")') /\ Len(queue') <= Queue
        BY <1>2, <1>3, <2>4, <3>2, <4>1 DEF Books, SlotsFollowTheCalls
      <4>5. active' = Cardinality(At("out")')
        BY <3>1, <4>2 DEF Books, SlotsFollowTheCalls
      <4>6. active' + Cardinality(At("attempting")') >= Limit
        BY <1>1, <3>2, <4>1, <4>2
      <4> QED
        BY <4>3, <4>4, <4>5, <4>6 DEF SlotsFollowTheCalls
  <2> QED
    BY <2>2, <2>3, <2>4, <2>5 DEF Books
<1>4. CASE ~(Len(queue) < Queue)
  <2>1. /\ pc' = [pc EXCEPT ![p] = "judged"] /\ result' = [result EXCEPT ![p] = "busy"]
        /\ UNCHANGED <<role, behind, attempts, wait, breaker, active, queue, fetches, faults>>
    BY <1>4 DEF WaitForSlot
  <2>2. TypeOK'
    <3>1. pc' \in [Callers -> Stages] /\ result' \in [Callers -> Results]
      BY <2>1, AllStages DEF Books, TypeOK, Results
    <3> QED
      BY <2>1, <3>1 DEF Books, TypeOK
  <2>3. AttemptsAreLeft' /\ HeldUpWait' /\ NoRepeats(queue)'
    BY <1>1, <2>1 DEF Books, TypeOK, AttemptsAreLeft, HeldUpWait, NoRepeats
  <2>4. SlotsFollowTheCalls'
    <3>1. At("out")' = At("out") /\ At("queued")' = At("queued")
      BY <1>1, <2>1 DEF Books, TypeOK, At
    <3>2. Cardinality(At("attempting")') \in Nat
      BY OneMoreOrLess DEF At
    <3> QED
      <4>1. Limit \in Nat
        BY PolicyAssumption
      <4>2. active' = active /\ queue' = queue
        BY <2>1
      <4> QED
        BY <1>1, <3>1, <3>2, <4>1, <4>2 DEF Books, SlotsFollowTheCalls
  <2> QED
    BY <2>2, <2>3, <2>4 DEF Books
<1> QED
  BY <1>3, <1>4

\* An attempt gives its slot back, whatever it ended in.
LEMMA AttemptEndsKeepsBooks ==
    ASSUME Books, NEW p \in Callers, NEW r \in Results, NEW says \in SUBSET StatedDelays,
           pc[p] = "out", AttemptEnds(p, r, attempts[p], says),
           UNCHANGED <<role, behind, breaker, fetches, faults>>
    PROVE  Books'
<1> DEFINE next == After(p, r, attempts[p])
           called == Released.called
<1>1. /\ active' = active - 1 /\ queue' = Released.waiting
      /\ pc' = [q \in Callers |-> IF q = p THEN next
                                  ELSE IF q \in called THEN "attempting" ELSE pc[q]]
      /\ \E delay \in IF next = "judged" THEN {0} ELSE Delays(attempts[p], says) :
            wait' = [wait EXCEPT ![p] = delay]
      /\ attempts' = [attempts EXCEPT ![p] = attempts[p]]
      /\ result' = [result EXCEPT ![p] = r]
  BY Freed DEF AttemptEnds
<1>2. /\ next \in {"backing off", "judged"}
      /\ next = "backing off" => attempts[p] < MaxAttempts
  BY DEF After
<1>3. called \subseteq At("queued") /\ p \notin called
  BY Freed DEF At
<1>4. attempts' = attempts
  BY <1>1 DEF Books, TypeOK
<1>5. /\ At("out")' = At("out") \ {p} /\ p \in At("out")
      /\ At("queued")' = At("queued") \ called
      /\ At("attempting")' = At("attempting") \cup called
  <2>1. \A q \in Callers : q # p => pc'[q] = IF q \in called THEN "attempting" ELSE pc[q]
    BY <1>1
  <2>2. pc'[p] = next
    BY <1>1
  <2> QED
    BY <1>2, <1>3, <2>1, <2>2 DEF At
<1>6. active \in Nat \ {0} /\ active <= Limit
  <2>1. Cardinality(At("out")) \in Nat /\ Cardinality(At("out") \ {p}) = Cardinality(At("out")) - 1
        /\ Cardinality(At("out") \ {p}) \in Nat
    BY <1>5, OneMoreOrLess DEF At
  <2>2. active = Cardinality(At("out")) /\ active \in 0 .. Limit
    BY DEF Books, TypeOK, SlotsFollowTheCalls
  <2>3. Limit \in Nat
    BY PolicyAssumption
  <2> QED
    BY <2>1, <2>2, <2>3
<1>7. TypeOK'
  <2>1. pc' \in [Callers -> Stages]
    BY <1>1, <1>2, AllStages DEF Books, TypeOK
  <2>2. active' \in 0 .. Limit
    BY <1>1, <1>6, PolicyAssumption
  <2>3. queue' \in Seq(Callers)
    BY <1>1, Freed
  <2>4. wait' \in [Callers -> 0 .. MaxDelay]
    <3>1. Delays(attempts[p], says) \subseteq 0 .. MaxDelay
      <4>1. \A d \in StatedDelays : Min2(d, MaxDelay) \in 0 .. MaxDelay
        BY PolicyAssumption DEF Min2
      <4> QED
        BY <4>1 DEF Delays
    <3>2. 0 \in 0 .. MaxDelay
      BY PolicyAssumption
    <3>3. PICK delay \in 0 .. MaxDelay : wait' = [wait EXCEPT ![p] = delay]
      BY <1>1, <3>1, <3>2
    <3>4. wait \in [Callers -> 0 .. MaxDelay]
      BY DEF Books, TypeOK
    <3> QED
      BY <3>3, <3>4
  <2>5. result' \in [Callers -> Results]
    BY <1>1 DEF Books, TypeOK
  <2> QED
    BY <1>4, <2>1, <2>2, <2>3, <2>4, <2>5 DEF Books, TypeOK
<1>8. AttemptsAreLeft'
  BY <1>1, <1>2, <1>3, <1>4 DEF Books, AttemptsAreLeft, At
<1>9. HeldUpWait'
  <2>1. p \notin Callers \/ behind[p] \notin Callers
    BY DEF Books, HeldUpWait
  <2> QED
    BY <1>1, <1>3, <2>1 DEF Books, HeldUpWait, At
<1>10. NoRepeats(queue)'
  BY <1>1, Freed DEF NoRepeats
<1>11. SlotsFollowTheCalls'
  <2>1. Limit \in Nat /\ Queue \in Nat
    BY PolicyAssumption
  <2>2. active' = Cardinality(At("out")')
    <3>1. Cardinality(At("out") \ {p}) = Cardinality(At("out")) - 1
      BY <1>5, OneMoreOrLess DEF At
    <3>2. active = Cardinality(At("out"))
      BY DEF Books, SlotsFollowTheCalls
    <3> QED
      BY <1>1, <1>5, <3>1, <3>2
  <2>3. {queue'[i] : i \in 1 .. Len(queue')} = At("queued")'
    BY <1>1, <1>5, Freed DEF Elems
  <2>4. /\ Len(queue') = Cardinality(At("queued")') /\ Len(queue') <= Queue
        /\ queue' # << >> => active' + Cardinality(At("attempting")') >= Limit
    <3>1. CASE queue = << >>
      <4>1. queue' = queue /\ At("queued")' = At("queued")
        BY <1>1, <1>5, <3>1, Freed
      <4> QED
        BY <3>1, <4>1 DEF Books, SlotsFollowTheCalls
    <3>2. CASE queue # << >>
      <4>1. /\ called = {Head(queue)} /\ Head(queue) \in Callers
            /\ Head(queue) \in At("queued") /\ Head(queue) \notin At("attempting")
            /\ Len(queue') = Len(queue) - 1
        BY <1>1, <3>2, Freed DEF At
      <4>2. /\ Cardinality(At("queued")') = Cardinality(At("queued")) - 1
            /\ Cardinality(At("attempting")') = Cardinality(At("attempting")) + 1
            /\ Cardinality(At("queued")) \in Nat /\ Cardinality(At("attempting")) \in Nat
        <5>1. /\ At("queued") \in SUBSET Callers /\ At("attempting") \in SUBSET Callers
              /\ At("queued")' = At("queued") \ {Head(queue)}
              /\ At("attempting")' = At("attempting") \cup {Head(queue)}
          BY <1>5, <4>1 DEF At
        <5>2. /\ Cardinality(At("queued") \ {Head(queue)}) = Cardinality(At("queued")) - 1
              /\ Cardinality(At("queued")) \in Nat
          BY <4>1, <5>1, OneMoreOrLess
        <5>3. /\ Cardinality(At("attempting") \cup {Head(queue)}) = Cardinality(At("attempting")) + 1
              /\ Cardinality(At("attempting")) \in Nat
          BY <4>1, <5>1, OneMoreOrLess
        <5> QED
          BY <5>1, <5>2, <5>3
      <4>3. Len(queue) = Cardinality(At("queued")) /\ Len(queue) <= Queue
            /\ active + Cardinality(At("attempting")) >= Limit
        BY <3>2 DEF Books, SlotsFollowTheCalls
      <4> QED
        BY <1>1, <1>6, <2>1, <4>1, <4>2, <4>3
    <3> QED
      BY <3>1, <3>2
  <2> QED
    BY <2>2, <2>3, <2>4 DEF SlotsFollowTheCalls
<1> QED
  BY <1>7, <1>8, <1>9, <1>10, <1>11 DEF Books

\* A call the budget does not pay gives back the slot it was to take.
LEMMA BudgetSpentKeepsBooks ==
    ASSUME Books, NEW p \in Callers, BudgetSpent(p)
    PROVE  Books'
<1> DEFINE called == Released.called
<1>1. /\ pc[p] = "attempting" /\ active < Limit
      /\ pc' = [q \in Callers |-> IF q = p THEN "judged"
                                  ELSE IF q \in called THEN "attempting" ELSE pc[q]]
      /\ queue' = Released.waiting
      /\ result' = [result EXCEPT ![p] = "busy"]
      /\ UNCHANGED <<role, behind, attempts, wait, breaker, active, fetches, faults>>
  BY DEF BudgetSpent
<1>2. called \subseteq At("queued") /\ p \notin called
  BY <1>1, Freed DEF At
<1>3. /\ At("out")' = At("out")
      /\ At("queued")' = At("queued") \ called
      /\ At("attempting")' = (At("attempting") \ {p}) \cup called /\ p \in At("attempting")
  <2>1. \A q \in Callers : q # p => pc'[q] = IF q \in called THEN "attempting" ELSE pc[q]
    BY <1>1
  <2>2. pc'[p] = "judged"
    BY <1>1
  <2> QED
    BY <1>1, <1>2, <2>1, <2>2 DEF At
<1>4. TypeOK'
  <2>1. pc' \in [Callers -> Stages]
    BY <1>1, AllStages DEF Books, TypeOK
  <2>2. queue' \in Seq(Callers)
    BY <1>1, Freed
  <2>3. result' \in [Callers -> Results]
    BY <1>1 DEF Books, TypeOK, Results
  <2> QED
    BY <1>1, <2>1, <2>2, <2>3 DEF Books, TypeOK
<1>5. AttemptsAreLeft'
  BY <1>1, <1>2 DEF Books, AttemptsAreLeft, At
<1>6. HeldUpWait'
  BY <1>1, <1>2 DEF Books, HeldUpWait, At
<1>7. NoRepeats(queue)'
  BY <1>1, Freed DEF NoRepeats
<1>8. SlotsFollowTheCalls'
  <2>1. Limit \in Nat /\ Queue \in Nat
    BY PolicyAssumption
  <2>2. active' = Cardinality(At("out")')
    BY <1>1, <1>3 DEF Books, SlotsFollowTheCalls
  <2>3. {queue'[i] : i \in 1 .. Len(queue')} = At("queued")'
    BY <1>1, <1>3, Freed DEF Elems
  <2>4. /\ Len(queue') = Cardinality(At("queued")') /\ Len(queue') <= Queue
        /\ queue' # << >> => active' + Cardinality(At("attempting")') >= Limit
    <3>1. CASE queue = << >>
      <4>1. queue' = queue /\ At("queued")' = At("queued")
        BY <1>1, <1>3, <3>1, Freed
      <4> QED
        BY <3>1, <4>1 DEF Books, SlotsFollowTheCalls
    <3>2. CASE queue # << >>
      <4>1. /\ called = {Head(queue)} /\ Head(queue) \in Callers
            /\ Head(queue) \in At("queued") /\ Head(queue) \notin At("attempting")
            /\ Len(queue') = Len(queue) - 1
        BY <1>1, <3>2, Freed DEF At
      <4>2. /\ Cardinality(At("queued")') = Cardinality(At("queued")) - 1
            /\ Cardinality(At("attempting") \ {p}) = Cardinality(At("attempting")) - 1
            /\ Cardinality(At("attempting")') = Cardinality(At("attempting") \ {p}) + 1
            /\ Cardinality(At("queued")) \in Nat /\ Cardinality(At("attempting")) \in Nat
        <5> DEFINE others == At("attempting") \ {p}
        <5>1. /\ At("queued") \in SUBSET Callers /\ At("attempting") \in SUBSET Callers
              /\ At("queued")' = At("queued") \ {Head(queue)}
              /\ At("attempting")' = others \cup {Head(queue)}
              /\ others \in SUBSET Callers /\ Head(queue) \notin others
          BY <1>3, <4>1 DEF At
        <5>2. /\ Cardinality(At("queued") \ {Head(queue)}) = Cardinality(At("queued")) - 1
              /\ Cardinality(At("queued")) \in Nat
          BY <4>1, <5>1, OneMoreOrLess
        <5>3. /\ Cardinality(others) = Cardinality(At("attempting")) - 1
              /\ Cardinality(At("attempting")) \in Nat
          BY <1>3, <5>1, OneMoreOrLess
        <5>4. Cardinality(others \cup {Head(queue)}) = Cardinality(others) + 1
          <6> HIDE DEF others
          <6> QED
            BY <4>1, <5>1, OneMoreOrLess
        <5> QED
          BY <5>1, <5>2, <5>3, <5>4
      <4>3. Len(queue) = Cardinality(At("queued")) /\ Len(queue) <= Queue
            /\ active + Cardinality(At("attempting")) >= Limit
        BY <3>2 DEF Books, SlotsFollowTheCalls
      <4>4. active' = active /\ active \in Nat
        BY <1>1, <2>1 DEF Books, TypeOK
      <4> QED
        BY <2>1, <4>1, <4>2, <4>3, <4>4
    <3> QED
      BY <3>1, <3>2
  <2> QED
    BY <2>2, <2>3, <2>4 DEF SlotsFollowTheCalls
<1> QED
  BY <1>4, <1>5, <1>6, <1>7, <1>8 DEF Books

LEMMA RetryKeepsBooks ==
    ASSUME Books, NEW p \in Callers, Retry(p)
    PROVE  Books'
<1>1. /\ pc[p] = "backing off" /\ pc' = [pc EXCEPT ![p] = "attempting"]
      /\ UNCHANGED <<role, behind, attempts, wait, result, breaker, active, queue, fetches, faults>>
  BY DEF Retry
<1>2. pc \in [Callers -> Stages]
  BY DEF Books, TypeOK
<1>3. TypeOK'
  <2>1. pc' \in [Callers -> Stages]
    BY <1>1, <1>2, AllStages
  <2> QED
    BY <1>1, <2>1 DEF Books, TypeOK
<1>4. AttemptsAreLeft' /\ HeldUpWait' /\ NoRepeats(queue)'
  BY <1>1, <1>2 DEF Books, AttemptsAreLeft, HeldUpWait, NoRepeats
<1>5. SlotsFollowTheCalls'
  <2>1. /\ At("out")' = At("out") /\ At("queued")' = At("queued")
        /\ At("attempting") \subseteq At("attempting")'
    BY <1>1, <1>2 DEF At
  <2> QED
    BY <1>1, <2>1, SlotsUndisturbed
<1> QED
  BY <1>3, <1>4, <1>5 DEF Books

LEMMA JudgeKeepsBooks ==
    ASSUME Books, NEW p \in Callers, Judge(p)
    PROVE  Books'
<1>1. /\ pc[p] = "judged" /\ breaker' = Judged(p)
      /\ pc' = [q \in Callers |-> IF q = p THEN "idle"
                                  ELSE IF q \in CalledByTest(p) THEN "entering" ELSE pc[q]]
      /\ behind' = [q \in Callers |-> IF q \in CalledByTest(p) THEN Nobody ELSE behind[q]]
      /\ role' = [role EXCEPT ![p] = "normal"]
      /\ attempts' = [attempts EXCEPT ![p] = 0]
      /\ result' = [result EXCEPT ![p] = "none"]
      /\ faults' = IF SourceFault(result[p]) THEN Min2(faults + 1, Threshold) ELSE 0
      /\ UNCHANGED <<wait, active, queue, fetches>>
  BY DEF Judge
<1>2. CalledByTest(p) \subseteq At("behind")
  BY DEF Books, HeldUpWait, CalledByTest, At
<1>3. \A q \in Callers : q # p =>
         pc'[q] = (IF q \in CalledByTest(p) THEN "entering" ELSE pc[q]) /\ attempts'[q] = attempts[q]
  BY <1>1 DEF Books, TypeOK
<1>4. pc'[p] = "idle" /\ attempts'[p] = 0
  BY <1>1 DEF Books, TypeOK
<1>5. TypeOK'
  <2>1. pc' \in [Callers -> Stages]
    BY <1>1, AllStages DEF Books, TypeOK
  <2>2. behind' \in [Callers -> Callers \cup {Nobody}]
    BY <1>1 DEF Books, TypeOK
  <2>3. role' \in [Callers -> {"normal", "test"}] /\ result' \in [Callers -> Results]
    BY <1>1 DEF Books, TypeOK, Results
  <2>4. attempts' \in [Callers -> 0 .. MaxAttempts]
    <3>1. attempts \in [Callers -> 0 .. MaxAttempts] /\ 0 \in 0 .. MaxAttempts
      BY PolicyAssumption DEF Books, TypeOK
    <3> QED
      BY <1>1, <3>1
  <2>5. faults' \in 0 .. Threshold
    <3>1. faults \in 0 .. Threshold
      BY DEF Books, TypeOK
    <3> QED
      BY <1>1, <3>1, PolicyAssumption DEF Min2
  <2>6. breaker' \in Breakers
    <3>1. breaker \in Breakers
      BY DEF Books, TypeOK
    <3>2. breaker.count \in 0 .. Threshold
      BY <3>1 DEF Breakers
    <3>3. Counted(p) \in 0 .. Threshold
      BY <3>2, PolicyAssumption DEF Counted, Min2
    <3>4. HalfOpenAfter \in 0 .. HalfOpenAfter
      BY PolicyAssumption
    <3> QED
      BY <1>1, <3>1, <3>3, <3>4 DEF Judged, Breakers
  <2> QED
    BY <1>1, <2>1, <2>2, <2>3, <2>4, <2>5, <2>6 DEF Books, TypeOK
<1>6. AttemptsAreLeft'
  BY <1>2, <1>3, <1>4 DEF Books, AttemptsAreLeft, At
<1>7. HeldUpWait'
  <2>1. behind[p] \notin Callers
    BY <1>1 DEF Books, HeldUpWait
  <2>2. \A q \in Callers : behind'[q] \in Callers => behind[q] \in Callers /\ q \notin CalledByTest(p)
    BY <1>1, CallerAssumption DEF CalledByTest
  <2> QED
    BY <1>3, <2>1, <2>2 DEF Books, HeldUpWait
<1>8. NoRepeats(queue)'
  BY <1>1 DEF Books, NoRepeats
<1>9. SlotsFollowTheCalls'
  <2>1. /\ At("out")' = At("out") /\ At("queued")' = At("queued")
        /\ At("attempting") \subseteq At("attempting")'
    BY <1>1, <1>2, <1>3, <1>4 DEF At
  <2> QED
    BY <1>1, <2>1, SlotsUndisturbed
<1> QED
  BY <1>5, <1>6, <1>7, <1>8, <1>9 DEF Books

LEMMA TickKeepsBooks ==
    ASSUME Books, Tick
    PROVE  Books'
<1>1. /\ wait' = [p \in Callers |-> Down(wait[p])]
      /\ breaker' = [breaker EXCEPT !.cooldown = Down(@)]
      /\ UNCHANGED <<pc, role, behind, attempts, result, active, queue, fetches, faults>>
  BY DEF Tick
<1>2. TypeOK'
  <2>1. wait' \in [Callers -> 0 .. MaxDelay]
    <3>1. wait \in [Callers -> 0 .. MaxDelay]
      BY DEF Books, TypeOK
    <3> QED
      BY <1>1, <3>1, PolicyAssumption DEF Down
  <2>2. breaker' \in Breakers
    <3>1. breaker \in Breakers
      BY DEF Books, TypeOK
    <3>2. breaker.cooldown \in 0 .. HalfOpenAfter
      BY <3>1 DEF Breakers
    <3>3. Down(breaker.cooldown) \in 0 .. HalfOpenAfter
      BY <3>2, PolicyAssumption DEF Down
    <3> QED
      BY <1>1, <3>1, <3>3 DEF Breakers
  <2> QED
    BY <1>1, <2>1, <2>2 DEF Books, TypeOK
<1>3. AttemptsAreLeft' /\ HeldUpWait' /\ NoRepeats(queue)'
  BY <1>1 DEF Books, AttemptsAreLeft, HeldUpWait, NoRepeats
<1>4. SlotsFollowTheCalls'
  <2>1. /\ At("out")' = At("out") /\ At("queued")' = At("queued")
        /\ At("attempting") \subseteq At("attempting")'
    BY <1>1 DEF At
  <2> QED
    BY <1>1, <2>1, SlotsUndisturbed
<1> QED
  BY <1>2, <1>3, <1>4 DEF Books

LEMMA StutterKeepsBooks ==
    ASSUME Books, UNCHANGED vars
    PROVE  Books'
<1>1. TypeOK' /\ AttemptsAreLeft' /\ HeldUpWait' /\ NoRepeats(queue)'
  BY DEF Books, TypeOK, AttemptsAreLeft, HeldUpWait, NoRepeats, vars
<1>2. SlotsFollowTheCalls'
  BY DEF Books, SlotsFollowTheCalls, At, vars
<1> QED
  BY <1>1, <1>2 DEF Books

----------------------------------------------------------------------------
(***************************************************************************)
(* The tests of the half-open breaker.                                     *)
(***************************************************************************)

\* Steps within an attempt: who is under way stays so, and nobody new waits.
LEMMA TestsGoOn ==
    ASSUME TestsAreUnderWay, UNCHANGED <<role, behind>>,
           breaker'.state = breaker.state, breaker'.tester = breaker.tester,
           \A q \in Callers : pc'[q] # pc[q] =>
              /\ pc[q] \notin {"idle", "entering", "behind"}
              /\ pc'[q] \notin {"idle", "entering", "behind"}
    PROVE  TestsAreUnderWay'
<1>1. \A q \in Callers : UnderWay(q) => UnderWay(q)'
  BY DEF UnderWay
<1>2. At("behind")' = At("behind")
  BY DEF At
<1> QED
  BY <1>1, <1>2 DEF TestsAreUnderWay

LEMMA AttemptsKeepTests ==
    ASSUME Books, TestsAreUnderWay, NEW p \in Callers,
           Attempt(p) \/ SourceAnswers(p) \/ TimesOut(p) \/ Retry(p)
    PROVE  TestsAreUnderWay'
<1>1. UNCHANGED <<role, behind, breaker>>
  BY DEF Attempt, TakeSlot, BudgetSpent, WaitForSlot, SourceAnswers, TimesOut, Retry
<1>2. pc[p] \in {"attempting", "out", "backing off"}
  BY DEF Attempt, TakeSlot, BudgetSpent, WaitForSlot, SourceAnswers, TimesOut, Retry
<1>3. \A q \in Callers : q \in Released.called => pc[q] = "queued"
  BY Freed DEF At
<1>4. \A q \in Callers : pc'[q] # pc[q] =>
         /\ pc[q] \notin {"idle", "entering", "behind"}
         /\ pc'[q] \notin {"idle", "entering", "behind"}
  <2> SUFFICES ASSUME NEW q \in Callers, pc'[q] # pc[q]
               PROVE  /\ pc[q] \notin {"idle", "entering", "behind"}
                      /\ pc'[q] \notin {"idle", "entering", "behind"}
    OBVIOUS
  <2>1. pc \in [Callers -> Stages]
    BY DEF Books, TypeOK
  <2>2. CASE TakeSlot(p) \/ WaitForSlot(p) \/ Retry(p)
    <3>1. \E to \in {"out", "queued", "judged", "attempting"} : pc' = [pc EXCEPT ![p] = to]
      BY <2>2 DEF TakeSlot, WaitForSlot, Retry
    <3> QED
      BY <1>2, <2>1, <3>1
  <2>3. CASE BudgetSpent(p)
    <3>1. pc'[q] = IF q = p THEN "judged"
                   ELSE IF q \in Released.called THEN "attempting" ELSE pc[q]
      BY <2>3 DEF BudgetSpent
    <3> QED
      BY <1>2, <1>3, <3>1
  <2>4. CASE SourceAnswers(p) \/ TimesOut(p)
    <3>1. PICK r \in Results : \E says \in SUBSET StatedDelays : AttemptEnds(p, r, attempts[p], says)
      BY <2>4 DEF SourceAnswers, TimesOut, Results
    <3>2. pc'[q] = IF q = p THEN After(p, r, attempts[p])
                   ELSE IF q \in Released.called THEN "attempting" ELSE pc[q]
      BY <3>1 DEF AttemptEnds
    <3>3. After(p, r, attempts[p]) \in {"backing off", "judged"}
      BY DEF After
    <3> QED
      BY <1>2, <1>3, <3>2, <3>3
  <2> QED
    BY <2>2, <2>3, <2>4 DEF Attempt
<1> QED
  BY <1>1, <1>4, TestsGoOn

LEMMA FetchKeepsTests ==
    ASSUME Books, TestsAreUnderWay, NEW p \in Callers, Fetch(p)
    PROVE  TestsAreUnderWay'
<1>1. pc[p] = "idle" /\ pc' = [pc EXCEPT ![p] = "entering"] /\ UNCHANGED <<role, behind, breaker>>
  BY DEF Fetch
<1>2. pc \in [Callers -> Stages]
  BY DEF Books, TypeOK
<1>3. \A q \in Callers : UnderWay(q) => UnderWay(q)'
  BY <1>1, <1>2 DEF UnderWay
<1>4. At("behind")' = At("behind")
  BY <1>1, <1>2 DEF At
<1> QED
  BY <1>1, <1>3, <1>4 DEF TestsAreUnderWay

LEMMA EnterKeepsTests ==
    ASSUME Books, TestsAreUnderWay, NEW p \in Callers, Enter(p)
    PROVE  TestsAreUnderWay'
<1>1. /\ pc \in [Callers -> Stages] /\ role \in [Callers -> {"normal", "test"}]
      /\ behind \in [Callers -> Callers \cup {Nobody}]
      /\ breaker \in Breakers
  BY DEF Books, TypeOK
<1>2. pc[p] = "entering" /\ ~UnderWay(p)
  BY DEF Enter, UnderWay
<1>3. CASE breaker.state = "closed"
  <2>1. LetIn(p, "normal") /\ UNCHANGED breaker
    BY <1>3 DEF Enter
  <2>2. \A q \in Callers : UnderWay(q) => UnderWay(q)'
    BY <1>1, <1>2, <2>1 DEF UnderWay, LetIn
  <2>3. At("behind")' = At("behind") /\ UNCHANGED behind
    BY <1>1, <1>2, <2>1 DEF At, LetIn
  <2> QED
    BY <2>1, <2>2, <2>3 DEF TestsAreUnderWay
<1>4. CASE breaker.state = "open" /\ breaker.cooldown = 0
  <2>1. /\ LetIn(p, "test")
        /\ breaker' = [breaker EXCEPT !.state = "half open", !.tester = p]
    BY <1>4, PolicyAssumption DEF Enter
  <2>2. \A q \in Callers : UnderWay(q) => UnderWay(q)'
    BY <1>1, <1>2, <2>1 DEF UnderWay, LetIn
  <2>3. At("behind")' = At("behind") /\ UNCHANGED behind
    BY <1>1, <1>2, <2>1 DEF At, LetIn
  <2>4. UnderWay(p)' /\ breaker'.tester = p
    BY <1>1, <2>1 DEF UnderWay, LetIn, Breakers
  <2> QED
    BY <2>2, <2>3, <2>4 DEF TestsAreUnderWay
<1>5. CASE breaker.state = "open" /\ breaker.cooldown # 0
  <2>1. pc' = [pc EXCEPT ![p] = "idle"] /\ UNCHANGED <<role, behind, breaker>>
    BY <1>5 DEF Enter
  <2>2. \A q \in Callers : UnderWay(q) => UnderWay(q)'
    BY <1>1, <1>2, <2>1 DEF UnderWay
  <2>3. At("behind")' = At("behind")
    BY <1>1, <1>2, <2>1 DEF At
  <2> QED
    BY <2>1, <2>2, <2>3 DEF TestsAreUnderWay
<1>6. CASE breaker.state = "half open"
  <2>1. /\ pc' = [pc EXCEPT ![p] = "behind"]
        /\ behind' = [behind EXCEPT ![p] = breaker.tester]
        /\ UNCHANGED <<role, breaker>>
    BY <1>6 DEF Enter
  <2>2. breaker.tester \in Callers /\ UnderWay(breaker.tester)
    BY <1>6 DEF TestsAreUnderWay
  <2>3. \A q \in Callers : UnderWay(q) => UnderWay(q)'
    BY <1>1, <1>2, <2>1 DEF UnderWay
  <2>4. \A q \in At("behind")' : IF q = p THEN behind'[q] = breaker.tester
                                 ELSE q \in At("behind") /\ behind'[q] = behind[q]
    BY <1>1, <2>1 DEF At
  <2> QED
    BY <2>1, <2>2, <2>3, <2>4 DEF TestsAreUnderWay
<1> QED
  BY <1>1, <1>3, <1>4, <1>5, <1>6 DEF Breakers

\* The test's own end opens or closes the breaker, whoever else did before; and
\* it calls everybody who waits for it.
LEMMA JudgeKeepsTests ==
    ASSUME Books, TestsAreUnderWay, NEW p \in Callers, Judge(p)
    PROVE  TestsAreUnderWay'
<1> DEFINE Goes(q) == role'[q] = "test" /\ pc'[q] \notin {"idle", "entering", "behind"}
<1>1. /\ role \in [Callers -> {"normal", "test"}] /\ breaker \in Breakers
      /\ behind \in [Callers -> Callers \cup {Nobody}]
  BY DEF Books, TypeOK
<1>2. /\ pc[p] = "judged" /\ breaker' = Judged(p)
      /\ pc' = [q \in Callers |-> IF q = p THEN "idle"
                                  ELSE IF q \in CalledByTest(p) THEN "entering" ELSE pc[q]]
      /\ behind' = [q \in Callers |-> IF q \in CalledByTest(p) THEN Nobody ELSE behind[q]]
      /\ role' = [role EXCEPT ![p] = "normal"]
  BY DEF Judge
<1>3. CalledByTest(p) \subseteq At("behind")
  BY DEF Books, HeldUpWait, CalledByTest, At
<1>4. \A q \in Callers : q # p /\ UnderWay(q) => Goes(q)
  BY <1>1, <1>2, <1>3 DEF UnderWay, At
<1>5. ASSUME breaker'.state = "half open"
      PROVE  breaker'.tester \in Callers /\ Goes(breaker'.tester)
  <2>1. breaker.state = "half open" /\ ~Opens(p) /\ ~Closes(p) /\ breaker'.tester = breaker.tester
    BY <1>1, <1>2, <1>5 DEF Judged, Breakers
  <2>2. breaker.tester \in Callers /\ UnderWay(breaker.tester)
    BY <2>1 DEF TestsAreUnderWay
  <2>3. breaker.tester # p
    BY <2>1, <2>2 DEF UnderWay, Opens, Closes
  <2> QED
    BY <1>4, <2>1, <2>2, <2>3
<1>6. ASSUME NEW q \in Callers, pc'[q] = "behind"
      PROVE  behind'[q] \in Callers /\ Goes(behind'[q])
  <2>1. q # p /\ q \notin CalledByTest(p) /\ pc[q] = "behind" /\ behind'[q] = behind[q]
    BY <1>2, <1>6
  <2>2. behind[q] \in Callers /\ UnderWay(behind[q]) /\ behind[q] # p
    BY <2>1 DEF TestsAreUnderWay, CalledByTest, At
  <2> QED
    BY <1>4, <2>1, <2>2
<1> QED
  BY <1>5, <1>6 DEF TestsAreUnderWay, UnderWay, At

----------------------------------------------------------------------------
(***************************************************************************)
(* The invariant: the books, the tests, and that the breaker counts what   *)
(* the history counts.                                                     *)
(***************************************************************************)
CountIsHistory == breaker.count = faults

PortInv == Books /\ TestsAreUnderWay /\ CountIsHistory

LEMMA PortInitEstablishesInv == Init => PortInv
<1> SUFFICES ASSUME Init PROVE PortInv
  OBVIOUS
<1>1. Books
  BY BooksInit
<1>2. TestsAreUnderWay /\ CountIsHistory
  BY DEF Init, TestsAreUnderWay, CountIsHistory, At
<1> QED
  BY <1>1, <1>2 DEF PortInv

LEMMA CountIsKept ==
    ASSUME Books, CountIsHistory, [Next]_vars
    PROVE  CountIsHistory'
<1>1. breaker \in Breakers
  BY DEF Books, TypeOK
<1>2. CASE \E p \in Callers : Judge(p)
  <2>1. PICK p \in Callers : Judge(p)
    BY <1>2
  <2>2. breaker'.count = Counted(p)
    BY <1>1, <2>1 DEF Judge, Judged, Breakers
  <2> QED
    BY <2>1, <2>2 DEF Judge, Counted, CountIsHistory
<1>3. CASE Tick
  BY <1>1, <1>3 DEF Tick, CountIsHistory, Breakers
<1>4. CASE \E p \in Callers : Enter(p)
  BY <1>1, <1>4 DEF Enter, CountIsHistory, Breakers
<1>5. CASE \E p \in Callers : Fetch(p) \/ Attempt(p) \/ SourceAnswers(p) \/ TimesOut(p) \/ Retry(p)
  BY <1>5 DEF Fetch, Attempt, TakeSlot, BudgetSpent, WaitForSlot, SourceAnswers, TimesOut, Retry,
              CountIsHistory
<1>6. CASE UNCHANGED vars
  BY <1>6 DEF vars, CountIsHistory
<1> QED
  BY <1>2, <1>3, <1>4, <1>5, <1>6 DEF Next, Step

LEMMA PortStepKeepsInv == PortInv /\ [Next]_vars => PortInv'
<1> SUFFICES ASSUME PortInv, [Next]_vars PROVE PortInv'
  OBVIOUS
<1>1. Books /\ TestsAreUnderWay /\ CountIsHistory
  BY DEF PortInv
<1>2. CountIsHistory'
  BY <1>1, CountIsKept
<1>3. CASE \E p \in Callers : Fetch(p)
  BY <1>1, <1>2, <1>3, FetchKeepsBooks, FetchKeepsTests DEF PortInv
<1>4. CASE \E p \in Callers : Enter(p)
  BY <1>1, <1>2, <1>4, EnterKeepsBooks, EnterKeepsTests DEF PortInv
<1>5. CASE \E p \in Callers : Attempt(p)
  BY <1>1, <1>2, <1>5, TakeSlotKeepsBooks, BudgetSpentKeepsBooks, WaitForSlotKeepsBooks,
     AttemptsKeepTests DEF PortInv, Attempt
<1>6. CASE \E p \in Callers : SourceAnswers(p)
  <2>1. PICK p \in Callers : SourceAnswers(p)
    BY <1>6
  <2>2. PICK r \in Results, says \in SUBSET StatedDelays :
           pc[p] = "out" /\ AttemptEnds(p, r, attempts[p], says)
    BY <2>1 DEF SourceAnswers, Results
  <2>3. Books'
    BY <1>1, <2>1, <2>2, AttemptEndsKeepsBooks DEF SourceAnswers
  <2> QED
    BY <1>1, <1>2, <2>1, <2>3, AttemptsKeepTests DEF PortInv
<1>7. CASE \E p \in Callers : TimesOut(p)
  <2>1. PICK p \in Callers : TimesOut(p)
    BY <1>7
  <2>2. "timeout" \in Results /\ {} \in SUBSET StatedDelays
    BY DEF Results
  <2>3. Books'
    BY <1>1, <2>1, <2>2, AttemptEndsKeepsBooks DEF TimesOut
  <2> QED
    BY <1>1, <1>2, <2>1, <2>3, AttemptsKeepTests DEF PortInv
<1>8. CASE \E p \in Callers : Retry(p)
  BY <1>1, <1>2, <1>8, RetryKeepsBooks, AttemptsKeepTests DEF PortInv
<1>9. CASE \E p \in Callers : Judge(p)
  BY <1>1, <1>2, <1>9, JudgeKeepsBooks, JudgeKeepsTests DEF PortInv
<1>10. CASE Tick
  <2>1. /\ UNCHANGED <<pc, role, behind>>
        /\ breaker'.state = breaker.state /\ breaker'.tester = breaker.tester
    BY <1>1, <1>10 DEF Tick, Books, TypeOK, Breakers
  <2>2. TestsAreUnderWay'
    BY <1>1, <2>1, TestsGoOn
  <2> QED
    BY <1>1, <1>2, <1>10, <2>2, TickKeepsBooks DEF PortInv
<1>11. CASE UNCHANGED vars
  <2>1. TestsAreUnderWay'
    BY <1>1, <1>11, TestsGoOn DEF vars
  <2> QED
    BY <1>1, <1>2, <1>11, <2>1, StutterKeepsBooks DEF PortInv
<1> QED
  BY <1>3, <1>4, <1>5, <1>6, <1>7, <1>8, <1>9, <1>10, <1>11 DEF Next, Step

LEMMA PortInvHolds == Spec => []PortInv
<1>1. Init => PortInv
  BY PortInitEstablishesInv
<1>2. PortInv /\ [Next]_vars => PortInv'
  BY PortStepKeepsInv
<1> QED
  BY <1>1, <1>2, PTL DEF Spec

\* Every variable of the port keeps its type: in particular no fetch makes more
\* attempts than it may, and no wait is longer than the greatest delay.
THEOREM PortIsTyped == Spec => []TypeOK
<1>1. PortInv => TypeOK
  BY DEF PortInv, Books
<1> QED
  BY <1>1, PortInvHolds, PTL

\* However an attempt ends, by an answer, a timeout, a budget that is spent or a
\* full queue, the slots in use are those of the calls that are out, and no slot
\* is free while a call waits and nobody is on the way to it.
THEOREM BulkheadKeepsItsBooks == Spec => []SlotsFollowTheCalls
<1>1. PortInv => SlotsFollowTheCalls
  BY DEF PortInv, Books
<1> QED
  BY <1>1, PortInvHolds, PTL

\* A half-open breaker has its test under way, and nobody waits for a test that
\* nobody makes.
THEOREM TestsAreMade == Spec => []TestsAreUnderWay
<1>1. PortInv => TestsAreUnderWay
  BY DEF PortInv
<1> QED
  BY <1>1, PortInvHolds, PTL

\* A closed breaker opens only after Threshold fetches in a row ended in a fault
\* of the source, or on the fault of a test that outlived its half-open period.
THEOREM BreakerOpensOnFaults == Spec => OpensAfterThreshold
<1>1. ASSUME PortInv, [Next]_vars, breaker.state = "closed", breaker'.state = "open"
      PROVE  faults' >= Threshold \/ \E p \in Callers : OutlivedTest(p)
  <2>1. breaker \in Breakers /\ breaker.count = faults
    BY <1>1 DEF PortInv, Books, TypeOK, CountIsHistory
  <2>2. PICK p \in Callers : Judge(p)
    BY <1>1, <2>1 DEF Next, Step, Fetch, Enter, Attempt, TakeSlot, BudgetSpent, WaitForSlot,
                      SourceAnswers, TimesOut, Retry, Tick, vars, Breakers
  <2>3. Opens(p)
    BY <1>1, <2>1, <2>2 DEF Judge, Judged, Breakers
  <2>4. CASE role[p] = "test"
    BY <2>2, <2>4 DEF Judge, OutlivedTest
  <2>5. CASE Counted(p) >= Threshold
    BY <2>1, <2>2, <2>3, <2>5 DEF Judge, Counted, Opens
  <2> QED
    BY <2>3, <2>4, <2>5 DEF Opens
<1>2. PortInv /\ [Next]_vars =>
         [breaker.state = "closed" /\ breaker'.state = "open" =>
             faults' >= Threshold \/ \E p \in Callers : OutlivedTest(p)]_vars
  BY <1>1
<1> QED
  BY <1>2, PortInvHolds, PTL DEF Spec, OpensAfterThreshold
=============================================================================
