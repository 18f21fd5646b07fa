------------------------ MODULE AuditBuffer_proofs ------------------------
(***************************************************************************)
(* Proofs about AuditBuffer, for every bound of the buffer and every       *)
(* number of runs.  What makes the invariant inductive is that the buffer  *)
(* is always the interval of the newest runs, and that everything a batch  *)
(* was ever handed is older than that interval.                            *)
(***************************************************************************)
EXTENDS AuditBuffer, TLAPS, FiniteSetTheorems

\* Every run that was taken is in memory, written or lost, and once.
Balance == written + lost + Len(buffer) + Len(flushing) = accepted

\* What was handed to a batch is older than everything that waits.
HandedAreOlder ==
    /\ SetOf(flushing) \subseteq handed
    /\ \A r \in handed : r <= accepted - Len(buffer)

\* The history follows the code's state.
FatesFollow ==
    \A r \in Runs :
        /\ fate[r] = "unseen" <=> r > accepted
        /\ fate[r] = "held" <=> r \in Held

AInv ==
    /\ TypeOK
    /\ Balance
    /\ HeldIsBounded
    /\ NewestAreKept
    /\ HandedAreOlder
    /\ FatesFollow
----------------------------------------------------------------------------
\* A sequence that counts up to n holds the interval that ends there.
LEMMA CountingUp ==
    ASSUME NEW s \in Seq(Int), NEW n \in Int,
           \A i \in 1 .. Len(s) : s[i] = n - Len(s) + i
    PROVE  SetOf(s) = (n - Len(s) + 1) .. n
<1>1. Len(s) \in Nat
  OBVIOUS
<1>2. ASSUME NEW r \in (n - Len(s) + 1) .. n PROVE r \in SetOf(s)
  <2>1. r - n + Len(s) \in 1 .. Len(s)
    BY <1>1
  <2>2. s[r - n + Len(s)] = n - Len(s) + (r - n + Len(s))
    BY <2>1
  <2>3. s[r - n + Len(s)] = r
    BY <1>1, <2>2
  <2> QED
    BY <2>1, <2>3 DEF SetOf
<1>3. ASSUME NEW r \in SetOf(s) PROVE r \in (n - Len(s) + 1) .. n
  <2>1. PICK i \in 1 .. Len(s) : r = s[i]
    BY DEF SetOf
  <2> QED
    BY <1>1, <2>1
<1> QED
  BY <1>2, <1>3

LEMMA RunsAreInts == Runs \subseteq Int /\ Seq(Runs) \subseteq Seq(Int)
BY BufferAssumption DEF Runs

LEMMA SetOfEmpty == SetOf(<< >>) = {}
BY DEF SetOf

LEMMA InitAInv == Init => AInv
<1> SUFFICES ASSUME Init PROVE AInv
  OBVIOUS
<1>1. TypeOK
  <2>1. /\ hasWriter \in BOOLEAN /\ timer \in BOOLEAN
        /\ buffer = << >> /\ flushing = << >>
    BY DEF Init
  <2>2. /\ accepted = 0 /\ written = 0 /\ lost = 0 /\ phase = "up"
        /\ rows = {} /\ handed = {} /\ fate = [r \in Runs |-> "unseen"]
    BY DEF Init
  <2> QED
    BY <2>1, <2>2, BufferAssumption DEF TypeOK
<1>2. Balance /\ HeldIsBounded /\ NewestAreKept
  BY BufferAssumption DEF Init, Balance, HeldIsBounded, NewestAreKept
<1>3. HandedAreOlder /\ FatesFollow
  BY SetOfEmpty DEF Init, HandedAreOlder, FatesFollow, Held, Runs
<1> QED
  BY <1>1, <1>2, <1>3 DEF AInv

\* Taking a run keeps the buffer the newest interval.
LEMMA RecordKeeps == ASSUME AInv, Record PROVE AInv'
<1>0. /\ accepted \in Nat /\ MaxRuns \in Nat /\ MaxRecords \in Nat \ {0}
      /\ Len(buffer) \in Nat /\ Len(flushing) \in Nat
      /\ buffer \in Seq(Runs) /\ flushing \in Seq(Runs)
      /\ lost \in Nat /\ written \in Nat
      /\ accepted < MaxRuns /\ accepted' = accepted + 1
      /\ flushing' = flushing /\ handed' = handed /\ written' = written
  BY BufferAssumption DEF AInv, TypeOK, Record
<1>1. accepted + 1 \in Runs
  BY <1>0 DEF Runs
<1>2. /\ buffer' \in Seq(Runs) /\ Len(buffer') <= MaxRecords
      /\ lost' \in Nat /\ Len(buffer') \in Nat
      /\ lost' + Len(buffer') = lost + Len(buffer) + 1
      /\ accepted' - Len(buffer') >= accepted - Len(buffer)
      /\ \A i \in 1 .. Len(buffer') : buffer'[i] = accepted' - Len(buffer') + i
  <2>1. CASE Full
    <3>1. buffer' = Append(Tail(buffer), accepted + 1) /\ lost' = lost + 1
      BY <2>1 DEF Record, Overflow
    <3>2. buffer # << >> /\ Len(buffer) = MaxRecords
      BY <1>0, <2>1 DEF Full, AInv, HeldIsBounded
    <3>3. Tail(buffer) \in Seq(Runs) /\ Len(Tail(buffer)) = Len(buffer) - 1
      BY <1>0, <3>2
    <3>4. buffer' \in Seq(Runs) /\ Len(buffer') = Len(buffer)
      BY <1>0, <1>1, <3>1, <3>3
    <3>5. \A i \in 1 .. Len(buffer) - 1 : Tail(buffer)[i] = buffer[i + 1]
      BY <1>0, <3>2
    <3>6. ASSUME NEW i \in 1 .. Len(buffer') PROVE buffer'[i] = accepted' - Len(buffer') + i
      <4>1. CASE i = Len(buffer)
        BY <1>0, <3>1, <3>3, <3>4, <4>1
      <4>2. CASE i # Len(buffer)
        <5>1. i \in 1 .. Len(buffer) - 1 /\ i + 1 \in 1 .. Len(buffer)
          BY <1>0, <3>4, <4>2
        <5>2. buffer'[i] = buffer[i + 1]
          BY <1>0, <3>1, <3>3, <3>5, <5>1
        <5>3. buffer[i + 1] = accepted - Len(buffer) + (i + 1)
          BY <5>1 DEF AInv, NewestAreKept
        <5> QED
          BY <1>0, <3>4, <5>2, <5>3
      <4> QED
        BY <4>1, <4>2
    <3>7. lost' + Len(buffer') = lost + Len(buffer) + 1 /\ lost' \in Nat
      BY <1>0, <3>1, <3>4
    <3>8. accepted' - Len(buffer') >= accepted - Len(buffer)
      BY <1>0, <3>4
    <3>9. Len(buffer') \in Nat /\ Len(buffer') <= MaxRecords
      BY <1>0, <3>2, <3>4
    <3> QED
      BY <3>4, <3>6, <3>7, <3>8, <3>9
  <2>2. CASE ~Full
    <3>1. buffer' = Append(buffer, accepted + 1) /\ lost' = lost
      BY <2>2 DEF Record, Push
    <3>2. Len(buffer) < MaxRecords
      BY <1>0, <2>2 DEF Full
    <3>3. buffer' \in Seq(Runs) /\ Len(buffer') = Len(buffer) + 1
      BY <1>0, <1>1, <3>1
    <3>4. ASSUME NEW i \in 1 .. Len(buffer') PROVE buffer'[i] = accepted' - Len(buffer') + i
      <4>1. CASE i = Len(buffer) + 1
        BY <1>0, <3>1, <3>3, <4>1
      <4>2. CASE i # Len(buffer) + 1
        <5>1. i \in 1 .. Len(buffer)
          BY <1>0, <3>3, <4>2
        <5>2. buffer'[i] = buffer[i]
          BY <1>0, <3>1, <5>1
        <5>3. buffer[i] = accepted - Len(buffer) + i
          BY <5>1 DEF AInv, NewestAreKept
        <5> QED
          BY <1>0, <3>3, <5>1, <5>2, <5>3
      <4> QED
        BY <4>1, <4>2
    <3> QED
      BY <1>0, <3>1, <3>2, <3>3, <3>4
  <2> QED
    BY <2>1, <2>2
<1>3. Balance' /\ HeldIsBounded'
  <2>1. written + lost + Len(buffer) + Len(flushing) = accepted
    BY DEF AInv, Balance
  <2>2. lost' + Len(buffer') = lost + Len(buffer) + 1
    BY <1>2
  <2>3. ASSUME lost' \in Nat, lost \in Nat, written \in Nat, accepted \in Nat,
               Len(buffer) \in Nat, Len(buffer') \in Nat, Len(flushing) \in Nat
        PROVE  written + lost' + Len(buffer') + Len(flushing) = accepted + 1
    BY <2>1, <2>2, <2>3
  <2>4. written' + lost' + Len(buffer') + Len(flushing') = accepted'
    BY <1>0, <1>2, <2>3
  <2>5. Len(flushing') <= MaxRecords
    BY <1>0 DEF AInv, HeldIsBounded
  <2> QED
    BY <1>2, <2>4, <2>5 DEF Balance, HeldIsBounded
<1>4. lost' \in 0 .. MaxRuns /\ accepted' \in 0 .. MaxRuns
  BY <1>0, <1>2, <1>3 DEF Balance
<1>5. fate' \in [Runs -> {"unseen", "held", "kept", "lost"}]
  BY <1>1 DEF Record, Overflow, Push, Moved, AInv, TypeOK
<1>6. TypeOK'
  BY <1>0, <1>2, <1>4, <1>5 DEF Record, AInv, TypeOK
<1>7. HandedAreOlder'
  <2>1. \A r \in handed : r \in Int
    BY DEF AInv, TypeOK, Runs
  <2> QED
    BY <1>0, <1>2, <2>1 DEF AInv, HandedAreOlder
<1>8. NewestAreKept'
  <2>1. flushing # << >> => flushing[Len(flushing)] <= accepted - Len(buffer)
                            /\ flushing[Len(flushing)] \in Int
    BY <1>0 DEF AInv, NewestAreKept, Runs
  <2> QED
    BY <1>0, <1>2, <2>1 DEF AInv, NewestAreKept
<1>9. FatesFollow'
  <2>1. SetOf(buffer) = (accepted - Len(buffer) + 1) .. accepted
    BY <1>0, RunsAreInts, CountingUp DEF AInv, NewestAreKept
  <2>2. SetOf(buffer') = (accepted' - Len(buffer') + 1) .. accepted'
    BY <1>0, <1>2, RunsAreInts, CountingUp
  <2>3. SetOf(flushing') = SetOf(flushing)
    BY <1>0
  <2>4. \A r \in SetOf(flushing) : r \in Int /\ r <= accepted - Len(buffer)
    BY RunsAreInts DEF AInv, HandedAreOlder, TypeOK
  <2>5. CASE Full
    <3>1. buffer # << >> /\ Len(buffer) = MaxRecords
      BY <1>0, <2>5 DEF Full, AInv, HeldIsBounded
    <3>2. Head(buffer) = accepted - Len(buffer) + 1
      BY <1>0, <3>1 DEF AInv, NewestAreKept
    <3>3. Len(buffer') = Len(buffer)
      BY <1>0, <2>5, <3>1 DEF Record, Overflow
    <3>4. \A r \in Runs : fate'[r] = IF r = accepted + 1 THEN "held"
                                     ELSE IF r = Head(buffer) THEN "lost" ELSE fate[r]
      BY <1>1, <2>5 DEF Record, Overflow, Moved
    <3>5. ASSUME NEW r \in Runs
          PROVE  /\ fate'[r] = "unseen" <=> r > accepted'
                 /\ fate'[r] = "held" <=> r \in SetOf(buffer') \cup SetOf(flushing')
      <4>1. r \in Int /\ (fate[r] = "unseen" <=> r > accepted)
            /\ (fate[r] = "held" <=> r \in SetOf(buffer) \cup SetOf(flushing))
        BY DEF AInv, FatesFollow, Held, Runs
      <4> QED
        BY <1>0, <2>1, <2>2, <2>3, <2>4, <3>1, <3>2, <3>3, <3>4, <4>1
    <3> QED
      BY <3>5 DEF FatesFollow, Held
  <2>6. CASE ~Full
    <3>1. Len(buffer') = Len(buffer) + 1
      BY <1>0, <1>1, <2>6 DEF Record, Push
    <3>2. \A r \in Runs : fate'[r] = IF r = accepted + 1 THEN "held" ELSE fate[r]
      BY <2>6 DEF Record, Push, Moved
    <3>3. ASSUME NEW r \in Runs
          PROVE  /\ fate'[r] = "unseen" <=> r > accepted'
                 /\ fate'[r] = "held" <=> r \in SetOf(buffer') \cup SetOf(flushing')
      <4>1. r \in Int /\ (fate[r] = "unseen" <=> r > accepted)
            /\ (fate[r] = "held" <=> r \in SetOf(buffer) \cup SetOf(flushing))
        BY DEF AInv, FatesFollow, Held, Runs
      <4> QED
        BY <1>0, <2>1, <2>2, <2>3, <2>4, <3>1, <3>2, <4>1
    <3> QED
      BY <3>3 DEF FatesFollow, Held
  <2> QED
    BY <2>5, <2>6
<1> QED
  BY <1>3, <1>6, <1>7, <1>8, <1>9 DEF AInv

\* What the invariant gives every other step.
LEMMA Facts ==
    ASSUME AInv
    PROVE  /\ MaxRuns \in Nat /\ MaxRecords \in Nat
           /\ accepted \in Nat /\ lost \in Nat /\ written \in Nat
           /\ buffer \in Seq(Int) /\ Len(buffer) \in Nat
           /\ flushing \in Seq(Int) /\ Len(flushing) \in Nat
           /\ SetOf(buffer) = (accepted - Len(buffer) + 1) .. accepted
           /\ \A r \in handed : r \in Int /\ r <= accepted - Len(buffer)
           /\ SetOf(flushing) \subseteq handed
<1>1. /\ MaxRuns \in Nat /\ MaxRecords \in Nat
      /\ accepted \in Nat /\ lost \in Nat /\ written \in Nat
      /\ buffer \in Seq(Int) /\ Len(buffer) \in Nat
      /\ flushing \in Seq(Int) /\ Len(flushing) \in Nat
  BY BufferAssumption, RunsAreInts DEF AInv, TypeOK
<1>2. SetOf(buffer) = (accepted - Len(buffer) + 1) .. accepted
  BY <1>1, CountingUp DEF AInv, NewestAreKept
<1>3. /\ \A r \in handed : r \in Int /\ r <= accepted - Len(buffer)
      /\ SetOf(flushing) \subseteq handed
  BY RunsAreInts DEF AInv, HandedAreOlder, TypeOK
<1> QED
  BY <1>1, <1>2, <1>3

\* A batch is taken whole, out of the newest interval, when none is out.
LEMMA TakeBatchKeeps ==
    ASSUME AInv, CanFlush, TakeBatch,
           hasWriter' \in BOOLEAN, timer' \in BOOLEAN, phase' \in {"up", "stopping", "down"},
           UNCHANGED <<accepted, written, lost, rows, fate>>
    PROVE  AInv'
<1>0. /\ flushing = << >> /\ Len(flushing) = 0
      /\ flushing' = buffer /\ buffer' = << >> /\ Len(buffer') = 0
      /\ handed' = handed \cup SetOf(buffer)
  BY DEF CanFlush, TakeBatch
<1>1. TypeOK'
  <2>1. SetOf(buffer) \subseteq Runs
    BY DEF AInv, TypeOK, SetOf
  <2>2. << >> \in Seq(Runs)
    OBVIOUS
  <2> QED
    BY <1>0, <2>1, <2>2 DEF AInv, TypeOK
<1>2. Balance'
  <2>1. written + lost + Len(buffer) + 0 = accepted
    BY <1>0 DEF AInv, Balance
  <2>2. written + lost + 0 + Len(buffer) = accepted
    BY <2>1, Facts
  <2> QED
    BY <1>0, <2>2 DEF Balance
<1>3. HeldIsBounded'
  BY <1>0, Facts DEF AInv, HeldIsBounded
<1>4. NewestAreKept'
  <2>1. \A i \in 1 .. Len(buffer) : buffer[i] = accepted - Len(buffer) + i
    BY DEF AInv, NewestAreKept
  <2>2. \A i \in 1 .. Len(buffer) - 1 : buffer[i + 1] = buffer[i] + 1
    <3>1. ASSUME NEW i \in 1 .. Len(buffer) - 1, accepted \in Nat, Len(buffer) \in Nat
          PROVE  buffer[i + 1] = buffer[i] + 1
      <4>1. i \in 1 .. Len(buffer) /\ i + 1 \in 1 .. Len(buffer)
        BY <3>1
      <4>2. /\ buffer[i] = accepted - Len(buffer) + i
            /\ buffer[i + 1] = accepted - Len(buffer) + (i + 1)
        BY <2>1, <4>1
      <4> QED
        BY <3>1, <4>2
    <3> QED
      BY <3>1, Facts
  <2>3. buffer # << >> => buffer[Len(buffer)] = accepted
    BY <2>1, Facts
  <2>4. \A i \in 1 .. Len(buffer') : buffer'[i] = accepted' - Len(buffer') + i
    BY <1>0
  <2>5. accepted - 0 = accepted /\ accepted <= accepted
    BY Facts
  <2> QED
    BY <1>0, <2>2, <2>3, <2>4, <2>5 DEF NewestAreKept
<1>5. HandedAreOlder'
  <2>1. ASSUME NEW r \in handed' PROVE r <= accepted - 0
    BY <1>0, <2>1, Facts
  <2> QED
    BY <1>0, <2>1 DEF HandedAreOlder
<1>6. FatesFollow'
  <2>1. Held' = Held
    BY <1>0, SetOfEmpty DEF Held
  <2> QED
    BY <2>1 DEF AInv, FatesFollow
<1> QED
  BY <1>1, <1>2, <1>3, <1>4, <1>5, <1>6 DEF AInv

\* A batch that comes back is gone from memory, whatever became of it, and
\* its runs are in one of the two counters.
LEMMA BatchEndsKeeps ==
    ASSUME AInv, NEW f \in {"kept", "lost"}, flushing' = << >>,
           fate' = Moved(SetOf(flushing), f),
           \/ f = "kept" /\ written' = written + Len(flushing) /\ lost' = lost
           \/ f = "lost" /\ lost' = lost + Len(flushing) /\ written' = written,
           rows' \in {rows, rows \cup SetOf(flushing)},
           UNCHANGED <<hasWriter, timer, buffer, phase, accepted, handed>>
    PROVE  AInv'
<1>0. Len(flushing') = 0
  OBVIOUS
<1>1. written' \in Nat /\ lost' \in Nat /\ written' + lost' + Len(buffer) + 0 = accepted
  <2>1. written + lost + Len(buffer) + Len(flushing) = accepted
    BY DEF AInv, Balance
  <2>2. ASSUME lost \in Nat, written \in Nat, accepted \in Nat,
               Len(buffer) \in Nat, Len(flushing) \in Nat
        PROVE  /\ (written + Len(flushing)) + lost + Len(buffer) + 0 = accepted
               /\ written + (lost + Len(flushing)) + Len(buffer) + 0 = accepted
               /\ written + Len(flushing) \in Nat /\ lost + Len(flushing) \in Nat
    BY <2>1, <2>2
  <2> QED
    BY <2>2, Facts
<1>2. written' \in 0 .. MaxRuns /\ lost' \in 0 .. MaxRuns
  <2>1. accepted <= MaxRuns
    BY DEF AInv, TypeOK
  <2>2. ASSUME lost' \in Nat, written' \in Nat, accepted \in Nat, Len(buffer) \in Nat,
               MaxRuns \in Nat
        PROVE  written' \in 0 .. MaxRuns /\ lost' \in 0 .. MaxRuns
    BY <1>1, <2>1, <2>2
  <2> QED
    BY <1>1, <2>2, Facts
<1>3. TypeOK'
  <2>1. SetOf(flushing) \subseteq Runs /\ << >> \in Seq(Runs)
    BY DEF AInv, TypeOK, SetOf
  <2>2. fate' \in [Runs -> {"unseen", "held", "kept", "lost"}]
    BY DEF AInv, TypeOK, Moved
  <2> QED
    BY <1>2, <2>1, <2>2 DEF AInv, TypeOK
<1>4. Balance'
  BY <1>0, <1>1 DEF Balance
<1>5. HeldIsBounded' /\ NewestAreKept'
  BY <1>0, Facts DEF AInv, HeldIsBounded, NewestAreKept
<1>6. HandedAreOlder'
  BY SetOfEmpty DEF AInv, HandedAreOlder
<1>7. FatesFollow'
  <2>1. SetOf(flushing') = {} /\ SetOf(buffer') = SetOf(buffer)
    BY SetOfEmpty
  <2>2. SetOf(flushing) \cap SetOf(buffer) = {}
    BY Facts
  <2>3. \A r \in SetOf(flushing) : ~(r > accepted)
    BY Facts
  <2>4. \A r \in Runs : fate'[r] = IF r \in SetOf(flushing) THEN f ELSE fate[r]
    BY DEF Moved
  <2> QED
    BY <2>1, <2>2, <2>3, <2>4 DEF AInv, FatesFollow, Held
<1> QED
  BY <1>3, <1>4, <1>5, <1>6, <1>7 DEF AInv

\* What shutdown leaves behind is counted.
LEMMA ShutdownEndsKeeps == ASSUME AInv, ShutdownEnds PROVE AInv'
<1>0. /\ flushing = << >> /\ flushing' = << >> /\ Len(flushing) = 0 /\ Len(flushing') = 0
      /\ buffer' = << >> /\ Len(buffer') = 0
      /\ lost' = lost + Len(buffer) /\ fate' = Moved(SetOf(buffer), "lost")
      /\ phase' = "down"
      /\ UNCHANGED <<hasWriter, timer, accepted, written, rows, handed>>
  BY DEF ShutdownEnds, CountRemainder
<1>1. /\ lost' \in 0 .. MaxRuns
      /\ written + lost' + 0 + 0 = accepted
  <2>1. written + lost + Len(buffer) + 0 = accepted /\ accepted <= MaxRuns
    BY <1>0 DEF AInv, Balance, TypeOK
  <2>2. ASSUME lost \in Nat, written \in Nat, accepted \in Nat, Len(buffer) \in Nat,
               MaxRuns \in Nat
        PROVE  /\ lost + Len(buffer) \in 0 .. MaxRuns
               /\ written + (lost + Len(buffer)) + 0 + 0 = accepted
    BY <2>1, <2>2
  <2> QED
    BY <1>0, <2>2, Facts
<1>2. TypeOK'
  <2>1. fate' \in [Runs -> {"unseen", "held", "kept", "lost"}] /\ << >> \in Seq(Runs)
    BY <1>0 DEF AInv, TypeOK, Moved
  <2> QED
    BY <1>0, <1>1, <2>1 DEF AInv, TypeOK
<1>3. Balance' /\ HeldIsBounded'
  BY <1>0, <1>1, Facts DEF Balance, HeldIsBounded
<1>4. NewestAreKept'
  BY <1>0 DEF NewestAreKept
<1>5. HandedAreOlder'
  <2>1. \A r \in handed : r <= accepted - 0
    BY Facts
  <2> QED
    BY <1>0, <2>1, SetOfEmpty DEF HandedAreOlder
<1>6. FatesFollow'
  <2>1. SetOf(flushing) = {} /\ SetOf(flushing') = {} /\ SetOf(buffer') = {}
    BY <1>0, SetOfEmpty
  <2>2. \A r \in SetOf(buffer) : ~(r > accepted)
    BY Facts
  <2>3. \A r \in Runs : fate'[r] = IF r \in SetOf(buffer) THEN "lost" ELSE fate[r]
    BY <1>0 DEF Moved
  <2> QED
    BY <1>0, <2>1, <2>2, <2>3 DEF AInv, FatesFollow, Held
<1> QED
  BY <1>2, <1>3, <1>4, <1>5, <1>6 DEF AInv

LEMMA StutterKeeps == ASSUME AInv, UNCHANGED vars PROVE AInv'
BY DEF vars, AInv, TypeOK, Balance, HeldIsBounded, NewestAreKept, HandedAreOlder,
   FatesFollow, Held, SetOf

\* A shutdown that finds nothing to take, or a flush under way.
LEMMA ShutdownBeginsKeeps == ASSUME AInv, ShutdownBegins PROVE AInv'
<1>1. CASE CanFlush
  <2>1. TakeBatch /\ UNCHANGED <<accepted, written, lost, rows, fate>>
    BY <1>1 DEF ShutdownBegins
  <2>2. hasWriter' \in BOOLEAN /\ timer' \in BOOLEAN /\ phase' \in {"up", "stopping", "down"}
    BY DEF ShutdownBegins, AInv, TypeOK
  <2> QED
    BY <1>1, <2>1, <2>2, TakeBatchKeeps, Zenon
<1>2. CASE ~CanFlush
  <2>1. UNCHANGED <<hasWriter, buffer, flushing, accepted, written, lost, rows, handed, fate>>
    BY <1>2 DEF ShutdownBegins
  <2>2. timer' \in BOOLEAN /\ phase' \in {"up", "stopping", "down"}
    BY DEF ShutdownBegins
  <2>3. TypeOK'
    BY <2>1, <2>2 DEF AInv, TypeOK
  <2> QED
    BY <2>1, <2>3 DEF AInv, Balance, HeldIsBounded, NewestAreKept, HandedAreOlder,
       FatesFollow, Held
<1> QED
  BY <1>1, <1>2

LEMMA NextKeeps == ASSUME AInv, [Next]_vars PROVE AInv'
<1>1. CASE Record
  BY <1>1, RecordKeeps
<1>2. CASE RecordNowhere \/ UNCHANGED vars
  BY <1>2, StutterKeeps DEF RecordNowhere
<1>3. CASE TimerFlush
  BY <1>3, TakeBatchKeeps DEF TimerFlush, AInv, TypeOK
<1>4. CASE WriteSucceeds
  BY <1>4, BatchEndsKeeps DEF WriteSucceeds
<1>5. CASE WriteFails
  BY <1>5, BatchEndsKeeps DEF WriteFails, FailedBatch
<1>6. CASE ShutdownBegins
  BY <1>6, ShutdownBeginsKeeps
<1>7. CASE ShutdownEnds
  BY <1>7, ShutdownEndsKeeps
<1> QED
  BY <1>1, <1>2, <1>3, <1>4, <1>5, <1>6, <1>7 DEF Next

LEMMA AInvariance == Spec => []AInv
<1>1. AInv /\ [Next]_vars => AInv'
  BY NextKeeps
<1> QED
  BY InitAInv, <1>1, PTL DEF Spec

\* Every variable keeps its type; in particular neither counter passes the
\* number of runs there were.
THEOREM AuditTypeCorrect == Spec => []TypeOK
BY AInvariance, PTL DEF AInv

\* Whatever the writer does, memory holds at most a buffer and a batch, each
\* within maxRecords.
THEOREM AuditIsBounded == Spec => []HeldIsBounded
BY AInvariance, PTL DEF AInv

\* What waits is the newest runs, in order and without a gap.
THEOREM NewestSurvive == Spec => []NewestAreKept
BY AInvariance, PTL DEF AInv

\* No run is in two batches.
THEOREM HandedOnce == Spec => NoRunHandedTwice
<1>1. ASSUME AInv, [Next]_vars, flushing' # flushing, flushing' # << >>
      PROVE  SetOf(flushing') \cap handed = {}
  <2>1. flushing' = buffer
    BY <1>1 DEF Next, Record, RecordNowhere, TimerFlush, WriteSucceeds, WriteFails,
       ShutdownBegins, ShutdownEnds, TakeBatch, vars
  <2> QED
    BY <1>1, <2>1, Facts
<1>2. AInv /\ [Next]_vars => [flushing' # flushing /\ flushing' # << >> =>
                                SetOf(flushing') \cap handed = {}]_vars
  BY <1>1
<1> QED
  BY AInvariance, <1>2, PTL DEF Spec, NoRunHandedTwice

\* The buffer implements the lossy log: a run that was taken ends up kept or
\* lost, and what became of it does not change.
THEOREM AuditImplementsLossyLog == Spec => ImplementsLossyLog
<1>1. Init => Log!Init
  BY DEF Init, Log!Init
<1>2. ASSUME AInv, AInv', [Next]_vars PROVE [Log!Next]_fate
  <2>1. fate' \in [Runs -> Log!Fates]
    BY <1>2 DEF AInv, TypeOK, Log!Fates
  <2>2. ASSUME NEW r \in Runs PROVE fate'[r] \in Log!Onward(fate[r])
    <3>1. fate[r] \in {"unseen", "held", "kept", "lost"}
          /\ (fate[r] = "unseen" <=> r > accepted) /\ (fate[r] = "held" <=> r \in Held)
      BY <1>2 DEF AInv, TypeOK, FatesFollow
    <3>2. CASE fate'[r] = fate[r]
      BY <3>1, <3>2 DEF Log!Onward
    <3>3. CASE fate'[r] # fate[r] /\ Record
      <4>0. accepted + 1 \in Runs
        BY <1>2, <3>3, Facts DEF Record, Runs
      <4>1. r = accepted + 1 \/ (r = Head(buffer) /\ Full)
        <5>1. CASE Full
          BY <3>3, <4>0, <5>1 DEF Record, Overflow, Moved
        <5>2. CASE ~Full
          BY <3>3, <4>0, <5>2 DEF Record, Push, Moved
        <5> QED
          BY <5>1, <5>2
      <4>2. CASE r = accepted + 1
        <5>1. r > accepted /\ fate'[r] = "held"
          BY <1>2, <3>3, <4>0, <4>2, Facts DEF Record, Overflow, Push, Moved
        <5> QED
          BY <3>1, <5>1 DEF Log!Onward
      <4>3. CASE r = Head(buffer) /\ Full /\ r # accepted + 1
        <5>1. Head(buffer) \in SetOf(buffer)
          BY <1>2, <4>3, Facts, BufferAssumption DEF Full, SetOf
        <5>2. fate[r] = "held" /\ fate'[r] = "lost"
          BY <3>1, <3>3, <4>3, <5>1 DEF Record, Overflow, Moved, Held
        <5> QED
          BY <5>2 DEF Log!Onward
      <4> QED
        BY <4>1, <4>2, <4>3
    <3>4. CASE fate'[r] # fate[r] /\ ~Record
      <4>1. fate[r] = "held" /\ fate'[r] \in {"kept", "lost"}
        BY <1>2, <3>1, <3>4 DEF Next, RecordNowhere, TimerFlush, WriteSucceeds, WriteFails,
           FailedBatch, ShutdownBegins, ShutdownEnds, CountRemainder, Moved, Held, vars
      <4> QED
        BY <4>1 DEF Log!Onward
    <3> QED
      BY <3>2, <3>3, <3>4
  <2> QED
    BY <2>1, <2>2 DEF Log!Next
<1> QED
  BY AInvariance, <1>1, <1>2, PTL DEF Spec, ImplementsLossyLog, Log!Spec

----------------------------------------------------------------------------
(***************************************************************************)
(* The counters.  That they count needs one more fact of the history: the  *)
(* batch that is out is an interval, so it has as many runs as places.     *)
(***************************************************************************)
Fated(f) == {r \in Runs : fate[r] = f}

BatchCountsUp == \A i \in 1 .. Len(flushing) : flushing[i] = flushing[1] + (i - 1)

CInv ==
    /\ written = Cardinality(Fated("kept"))
    /\ lost = Cardinality(Fated("lost"))
    /\ BatchCountsUp

\* The rows, between what the buffer was told is kept and what it has let go.
RowsFollow ==
    \A r \in Runs :
        /\ fate[r] = "kept" => r \in rows
        /\ r \in rows => fate[r] \in {"kept", "lost"}

LEMMA FatedIsFinite == \A f : IsFiniteSet(Fated(f)) /\ IsFiniteSet(Fated(f)')
<1>1. IsFiniteSet(Runs)
  BY BufferAssumption, FS_Interval DEF Runs
<1>2. \A f : Fated(f) \subseteq Runs /\ Fated(f)' \subseteq Runs
  BY DEF Fated
<1> QED
  BY <1>1, <1>2, FS_Subset

\* A batch, and the buffer, have as many runs as places.
LEMMA IntervalsCount ==
    ASSUME AInv, BatchCountsUp
    PROVE  /\ IsFiniteSet(SetOf(buffer)) /\ Cardinality(SetOf(buffer)) = Len(buffer)
           /\ IsFiniteSet(SetOf(flushing)) /\ Cardinality(SetOf(flushing)) = Len(flushing)
<1>1. ASSUME NEW n \in Int, NEW len \in Nat
      PROVE  IsFiniteSet((n - len + 1) .. n) /\ Cardinality((n - len + 1) .. n) = len
  <2>1. n - len + 1 \in Int
    OBVIOUS
  <2>2. /\ IsFiniteSet((n - len + 1) .. n)
        /\ Cardinality((n - len + 1) .. n) = IF n - len + 1 > n THEN 0 ELSE n - (n - len + 1) + 1
    BY <2>1, FS_Interval
  <2> QED
    BY <2>2
<1>2. IsFiniteSet(SetOf(buffer)) /\ Cardinality(SetOf(buffer)) = Len(buffer)
  <2>1. SetOf(buffer) = (accepted - Len(buffer) + 1) .. accepted /\ accepted \in Int
        /\ Len(buffer) \in Nat
    BY Facts
  <2> QED
    BY <1>1, <2>1
<1>3. IsFiniteSet(SetOf(flushing)) /\ Cardinality(SetOf(flushing)) = Len(flushing)
  <2>0. flushing \in Seq(Int) /\ Len(flushing) \in Nat
    BY Facts
  <2>1. CASE Len(flushing) = 0
    <3>1. SetOf(flushing) = {}
      BY <2>1 DEF SetOf
    <3> QED
      BY <2>1, <3>1, FS_EmptySet
  <2>2. CASE Len(flushing) # 0
    <3> DEFINE n == flushing[1] + Len(flushing) - 1
    <3>1. flushing[1] \in Int /\ n \in Int
      BY <2>0, <2>2
    <3>2. ASSUME NEW i \in 1 .. Len(flushing) PROVE flushing[i] = n - Len(flushing) + i
      <4>1. flushing[i] = flushing[1] + (i - 1)
        BY DEF BatchCountsUp
      <4> QED
        BY <2>0, <3>1, <4>1
    <3> HIDE DEF n
    <3>3. SetOf(flushing) = (n - Len(flushing) + 1) .. n
      BY <2>0, <3>1, <3>2, CountingUp
    <3> QED
      BY <1>1, <2>0, <3>1, <3>3
  <2> QED
    BY <2>1, <2>2
<1> QED
  BY <1>2, <1>3

\* Runs that are held and come to be f are counted among those that are f.
LEMMA HeldRunsCount ==
    ASSUME AInv, NEW S \in SUBSET Held, IsFiniteSet(S), NEW f \in {"kept", "lost"},
           fate' = Moved(S, f)
    PROVE  /\ Cardinality(Fated(f)') = Cardinality(Fated(f)) + Cardinality(S)
           /\ \A g \in {"kept", "lost"} : g # f => Fated(g)' = Fated(g)
<1>1. S \subseteq Runs /\ \A r \in S : fate[r] = "held"
  BY DEF AInv, TypeOK, FatesFollow, Held, SetOf
<1>2. \A r \in Runs : fate'[r] = IF r \in S THEN f ELSE fate[r]
  BY DEF Moved
<1>3. Fated(f)' = Fated(f) \cup S /\ Fated(f) \cap S = {}
  BY <1>1, <1>2 DEF Fated
<1>4. \A g \in {"kept", "lost"} : g # f => Fated(g)' = Fated(g)
  BY <1>1, <1>2 DEF Fated
<1>5. Cardinality(Fated(f) \cup S) = Cardinality(Fated(f)) + Cardinality(S) - Cardinality({})
  BY <1>3, FatedIsFinite, FS_Union
<1>6. Cardinality(Fated(f)) \in Nat /\ Cardinality(S) \in Nat
  BY FatedIsFinite, FS_CardinalityType
<1> QED
  BY <1>3, <1>4, <1>5, <1>6, FS_EmptySet

LEMMA RecordCounts ==
    ASSUME AInv, CInv, Record
    PROVE  CInv'
<1>0. /\ accepted + 1 \in Runs /\ fate[accepted + 1] = "unseen"
      /\ written' = written /\ flushing' = flushing
  <2>1. accepted + 1 \in Runs /\ accepted + 1 > accepted
    BY Facts DEF Record, Runs
  <2> QED
    BY <2>1 DEF AInv, FatesFollow, Record
<1>1. CASE Full
  <2>1. Head(buffer) \in SetOf(buffer) /\ Head(buffer) \in Runs
    <3>1. Len(buffer) \in Nat \ {0}
      BY <1>1, Facts, BufferAssumption DEF Full
    <3> QED
      BY <3>1 DEF SetOf, AInv, TypeOK
  <2>2. fate[Head(buffer)] = "held"
    BY <2>1 DEF AInv, FatesFollow, Held
  <2>3. /\ lost' = lost + 1
        /\ fate' = [Moved({Head(buffer)}, "lost") EXCEPT ![accepted + 1] = "held"]
    BY <1>1 DEF Record, Overflow
  <2>4. \A r \in Runs : fate'[r] = IF r = accepted + 1 THEN "held"
                                   ELSE IF r = Head(buffer) THEN "lost" ELSE fate[r]
    BY <1>0, <2>3 DEF Moved
  <2>5. /\ Fated("lost")' = Fated("lost") \cup {Head(buffer)} /\ Head(buffer) \notin Fated("lost")
        /\ Fated("kept")' = Fated("kept")
    BY <1>0, <2>1, <2>2, <2>4 DEF Fated
  <2>6. Cardinality(Fated("lost") \cup {Head(buffer)}) = Cardinality(Fated("lost")) + 1
    BY <2>5, FatedIsFinite, FS_AddElement
  <2> QED
    BY <1>0, <2>3, <2>5, <2>6 DEF CInv, BatchCountsUp
<1>2. CASE ~Full
  <2>1. lost' = lost /\ fate' = Moved({accepted + 1}, "held")
    BY <1>2 DEF Record, Push
  <2>2. Fated("lost")' = Fated("lost") /\ Fated("kept")' = Fated("kept")
    BY <1>0, <2>1 DEF Fated, Moved
  <2> QED
    BY <1>0, <2>1, <2>2 DEF CInv, BatchCountsUp
<1> QED
  BY <1>1, <1>2

LEMMA TakeBatchCounts ==
    ASSUME AInv, CInv, TakeBatch, UNCHANGED <<written, lost, fate>>
    PROVE  CInv'
<1>1. flushing' = buffer
  BY DEF TakeBatch
<1>2. ASSUME NEW i \in 1 .. Len(buffer) PROVE buffer[i] = buffer[1] + (i - 1)
  <2>1. Len(buffer) \in Nat /\ accepted \in Nat
    BY Facts
  <2>2. 1 \in 1 .. Len(buffer)
    BY <2>1
  <2>3. buffer[i] = accepted - Len(buffer) + i /\ buffer[1] = accepted - Len(buffer) + 1
    BY <2>2 DEF AInv, NewestAreKept
  <2> QED
    BY <2>1, <2>3
<1> QED
  BY <1>1, <1>2 DEF CInv, BatchCountsUp, Fated

\* A batch, or what shutdown leaves, goes to one of the two counters.
LEMMA EndingCounts ==
    ASSUME AInv, CInv, NEW s \in {buffer, flushing}, flushing' = << >>,
           \/ fate' = Moved(SetOf(s), "kept") /\ written' = written + Len(s) /\ lost' = lost
           \/ fate' = Moved(SetOf(s), "lost") /\ lost' = lost + Len(s) /\ written' = written
    PROVE  CInv'
<1>1. SetOf(s) \in SUBSET Held
  BY DEF Held
<1>2. IsFiniteSet(SetOf(s)) /\ Cardinality(SetOf(s)) = Len(s)
  BY IntervalsCount DEF CInv
<1>3. BatchCountsUp'
  BY DEF BatchCountsUp
<1>4. CASE fate' = Moved(SetOf(s), "kept") /\ written' = written + Len(s) /\ lost' = lost
  BY <1>1, <1>2, <1>3, <1>4, HeldRunsCount DEF CInv
<1>5. CASE fate' = Moved(SetOf(s), "lost") /\ lost' = lost + Len(s) /\ written' = written
  BY <1>1, <1>2, <1>3, <1>5, HeldRunsCount DEF CInv
<1> QED
  BY <1>4, <1>5

LEMMA NextCounts == ASSUME AInv, CInv, [Next]_vars PROVE CInv'
<1>1. CASE Record
  BY <1>1, RecordCounts
<1>2. CASE RecordNowhere \/ UNCHANGED vars
  BY <1>2 DEF RecordNowhere, vars, CInv, BatchCountsUp, Fated
<1>3. CASE TimerFlush
  BY <1>3, TakeBatchCounts DEF TimerFlush
<1>4. CASE WriteSucceeds
  BY <1>4, EndingCounts DEF WriteSucceeds
<1>5. CASE WriteFails
  BY <1>5, EndingCounts DEF WriteFails, FailedBatch
<1>6. CASE ShutdownBegins
  <2>1. CASE TakeBatch
    BY <1>6, <2>1, TakeBatchCounts DEF ShutdownBegins
  <2>2. CASE UNCHANGED <<buffer, flushing, handed>>
    BY <1>6, <2>2 DEF ShutdownBegins, CInv, BatchCountsUp, Fated
  <2> QED
    BY <1>6, <2>1, <2>2 DEF ShutdownBegins
<1>7. CASE ShutdownEnds
  BY <1>7, EndingCounts DEF ShutdownEnds, CountRemainder
<1> QED
  BY <1>1, <1>2, <1>3, <1>4, <1>5, <1>6, <1>7 DEF Next

LEMMA NextFollows == ASSUME AInv, RowsFollow, [Next]_vars PROVE RowsFollow'
<1>0. \A r \in Runs : fate[r] = "held" <=> r \in SetOf(buffer) \cup SetOf(flushing)
  BY DEF AInv, FatesFollow, Held
<1>1. CASE Record
  <2>1. accepted + 1 \in Runs /\ fate[accepted + 1] = "unseen" /\ rows' = rows
    <3>1. accepted + 1 \in Runs /\ accepted + 1 > accepted
      BY <1>1, Facts DEF Record, Runs
    <3> QED
      BY <1>1, <3>1 DEF AInv, FatesFollow, Record
  <2>2. CASE Full
    <3>1. Head(buffer) \in SetOf(buffer) /\ Head(buffer) \in Runs
      <4>1. Len(buffer) \in Nat \ {0}
        BY <2>2, Facts, BufferAssumption DEF Full
      <4> QED
        BY <4>1 DEF SetOf, AInv, TypeOK
    <3>2. fate' = [Moved({Head(buffer)}, "lost") EXCEPT ![accepted + 1] = "held"]
      BY <1>1, <2>2 DEF Record, Overflow
    <3>3. \A r \in Runs : fate'[r] = IF r = accepted + 1 THEN "held"
                                     ELSE IF r = Head(buffer) THEN "lost" ELSE fate[r]
      BY <2>1, <3>2 DEF Moved
    <3> QED
      BY <2>1, <3>1, <3>3, <1>0 DEF RowsFollow
  <2>3. CASE ~Full
    <3>1. fate' = Moved({accepted + 1}, "held")
      BY <1>1, <2>3 DEF Record, Push
    <3> QED
      BY <2>1, <3>1 DEF RowsFollow, Moved
  <2> QED
    BY <2>2, <2>3
<1>2. CASE UNCHANGED <<rows, fate>>
  BY <1>2 DEF RowsFollow
<1>3. CASE WriteSucceeds
  BY <1>0, <1>3 DEF WriteSucceeds, Moved, RowsFollow
<1>4. CASE WriteFails
  BY <1>0, <1>4 DEF WriteFails, FailedBatch, Moved, RowsFollow
<1>5. CASE ShutdownEnds
  BY <1>0, <1>5 DEF ShutdownEnds, CountRemainder, Moved, RowsFollow
<1> QED
  BY <1>1, <1>2, <1>3, <1>4, <1>5
     DEF Next, RecordNowhere, TimerFlush, ShutdownBegins, vars

\* The metrics bound the store (audit-buffer.service.ts, record and flush): the
\* rows are at least what was counted as written, and a run that is neither a
\* row nor in memory was counted as lost.
THEOREM CountersBoundTheStore == Spec => []CountsBoundTheStore
<1>1. Init => CInv /\ RowsFollow
  <2> SUFFICES ASSUME Init PROVE CInv /\ RowsFollow
    OBVIOUS
  <2>1. Fated("kept") = {} /\ Fated("lost") = {}
    BY DEF Init, Fated
  <2> QED
    <3>1. written = 0 /\ lost = 0 /\ flushing = << >> /\ Len(flushing) = 0
      BY DEF Init
    <3>2. BatchCountsUp
      BY <3>1 DEF BatchCountsUp
    <3>3. RowsFollow
      BY DEF Init, RowsFollow
    <3> QED
      BY <2>1, <3>1, <3>2, <3>3, FS_EmptySet DEF CInv
<1>2. AInv /\ CInv /\ RowsFollow /\ [Next]_vars => CInv' /\ RowsFollow'
  BY NextCounts, NextFollows
<1>3. ASSUME AInv, CInv, RowsFollow PROVE CountsBoundTheStore
  <2>1. Held \cap rows = {}
    BY <1>3 DEF AInv, TypeOK, FatesFollow, RowsFollow
  <2>2. SetOf(buffer) \cap SetOf(flushing) = {}
    BY <1>3, Facts
  <2>3. Cardinality(SetOf(buffer) \cup SetOf(flushing)) = Len(buffer) + Len(flushing) - 0
    <3> DEFINE S == SetOf(buffer)
               T == SetOf(flushing)
    <3>1. /\ IsFiniteSet(S) /\ Cardinality(S) = Len(buffer)
          /\ IsFiniteSet(T) /\ Cardinality(T) = Len(flushing)
      BY <1>3, IntervalsCount DEF CInv
    <3>2. S \cap T = {}
      BY <2>2
    <3> HIDE DEF S, T
    <3>3. Cardinality(S \cup T) = Cardinality(S) + Cardinality(T) - Cardinality(S \cap T)
      BY <3>1, FS_Union
    <3>4. Cardinality(S \cup T) = Len(buffer) + Len(flushing) - 0
      BY <3>1, <3>2, <3>3, FS_EmptySet
    <3> QED
      BY <3>4 DEF S, T
  <2>4. Len(buffer) \in Nat /\ Len(flushing) \in Nat
    BY <1>3, Facts
  <2>5. written + lost + Cardinality(Held) = accepted
    BY <1>3, <2>3, <2>4, Facts DEF AInv, Balance, Held
  <2>6. written <= Cardinality(rows)
    <3>1. Fated("kept") \subseteq rows /\ rows \subseteq Runs
      BY <1>3 DEF AInv, TypeOK, RowsFollow, Fated
    <3>2. IsFiniteSet(rows)
      <4>1. IsFiniteSet(Runs)
        BY BufferAssumption, FS_Interval DEF Runs
      <4> QED
        BY <3>1, <4>1, FS_Subset
    <3>3. Cardinality(Fated("kept")) <= Cardinality(rows)
      BY <3>1, <3>2, FS_Subset
    <3> QED
      BY <1>3, <3>3 DEF CInv
  <2>7. Cardinality(Missing) <= lost
    <3>1. ASSUME NEW r \in Missing PROVE r \in Fated("lost")
      <4>1. r \in Runs /\ ~(r > accepted) /\ r \notin rows /\ r \notin Held
        BY <1>3, <3>1, Facts DEF Missing, Runs, AInv, TypeOK
      <4>2. fate[r] \in {"unseen", "held", "kept", "lost"}
        BY <1>3, <4>1 DEF AInv, TypeOK
      <4>3. fate[r] = "lost"
        BY <1>3, <4>1, <4>2 DEF AInv, FatesFollow, RowsFollow
      <4> QED
        BY <4>1, <4>3 DEF Fated
    <3>2. Cardinality(Missing) <= Cardinality(Fated("lost"))
      BY <3>1, FatedIsFinite, FS_Subset
    <3> QED
      BY <1>3, <3>2 DEF CInv
  <2> QED
    BY <2>1, <2>5, <2>6, <2>7 DEF CountsBoundTheStore
<1> QED
  BY AInvariance, <1>1, <1>2, <1>3, PTL DEF Spec
=============================================================================
