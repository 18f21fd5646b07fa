------------------------ MODULE ProfileService_proofs ------------------------
(***************************************************************************)
(* Proofs about ProfileService, for any instances, declared rules and      *)
(* bounds: what an instance says it knows of a place is durably stored,    *)
(* the evidence behind it was heard of the source, coverage that was       *)
(* recorded is never taken back, and nobody probes twice a day without a   *)
(* mishap.  None is inductive as it stands: what an instance holds between *)
(* two awaits (the profile it found, the evidence it gathered) has to be   *)
(* durable and founded as well, and the one probe of a day is either about *)
(* to be saved or among the rows, where every later computation reads it.  *)
(***************************************************************************)
EXTENDS ProfileService, TLAPS, WellFoundedInduction

Waiting == {"finding probes", "reading back", "reading back probes"}

\* What is mirrored, answered or held is of a place the store has a row of; an
\* instance between its two selects has seen that row, or written it.
DurableAt(i) ==
    /\ (\/ mirror[i] # NoProfile
        \/ stored[i] # NoProfile
        \/ answer[i] \in Profiles
        \/ pc[i] \in Waiting) => row # NoRow
    /\ pc[i] \in {"finding probes", "reading back probes"} => read[i] \in Rows

\* Evidence rests on a set of answers: what it says is in one of them.
RestsOn(e, answers) ==
    e.known =>
        /\ \A d \in e.allNull : \E h \in answers : h.for = d /\ h.kind = "all null"
        /\ e.covered => \E h \in answers : h.kind = "values"

\* Every piece of marine evidence of an instance rests on what was heard.
FoundedAt(i) ==
    /\ mirror[i] # NoProfile => RestsOn(mirror[i].marine, heard)
    /\ stored[i] # NoProfile => RestsOn(stored[i].marine, heard)
    /\ answer[i] \in Profiles => RestsOn(answer[i].marine, heard)
    /\ RestsOn(gathered[i].marine, heard)

RecordIsFounded == RestsOn(EvidenceFrom(probes), heard)

Inv ==
    /\ TypeOK
    /\ RecordIsFounded
    /\ \A i \in Instances : DurableAt(i) /\ FoundedAt(i)

----------------------------------------------------------------------------
(***************************************************************************)
(* Evidence and rows.                                                      *)
(***************************************************************************)

\* The days a behaviour has are numbers, and any of them has a last.
LEMMA LastOfDays ==
    ASSUME NEW S \in SUBSET Days, S # {}
    PROVE  Max(S) \in S /\ \A d \in S : Max(S) >= d
<1> DEFINE T == {LastDay - d : d \in S}
<1>1. T \subseteq Nat /\ T # {}
  <2>1. ASSUME NEW d \in S PROVE LastDay - d \in Nat
    BY ProfileAssumption DEF Days
  <2> QED
    BY <2>1
<1>2. PICK x \in T : \A y \in T : ~(<<y, x>> \in OpToRel(<, Nat))
  BY <1>1, NatLessThanWellFounded, WFMin
<1>3. \A y \in T : ~(y < x)
  <2>1. \A y \in T : y < x => <<y, x>> \in OpToRel(<, Nat)
    BY <1>1 DEF OpToRel
  <2> QED
    BY <1>2, <2>1
<1>4. PICK d \in S : x = LastDay - d
  BY <1>2
<1>5. \A e \in S : d >= e
  <2> TAKE e \in S
  <2>1. LastDay - e \in T /\ d \in Nat /\ e \in Nat /\ LastDay \in Nat
    BY ProfileAssumption DEF Days
  <2> QED
    BY <1>3, <1>4, <2>1
<1> QED
  BY <1>4, <1>5 DEF Max

Known == [known : {TRUE}, allNull : SUBSET Days, last : Days, covered : BOOLEAN]

LEMMA EvidenceIsKnownOrNot == MarineEvidence = {Unknown} \cup Known
BY DEF MarineEvidence, Known

\* Evidence that is known, made of its parts and taken apart again.
LEMMA KnownFromParts ==
    ASSUME NEW nulls \in SUBSET Days, NEW latest \in Days, NEW covers \in BOOLEAN, NEW r,
           r = [known |-> TRUE, allNull |-> nulls, last |-> latest, covered |-> covers]
    PROVE  /\ r \in Known /\ r \in MarineEvidence
           /\ r.known /\ r.allNull = nulls /\ r.last = latest /\ r.covered = covers
<1>1. r \in Known
  BY Zenon DEF Known
<1>2. r.known /\ r.allNull = nulls /\ r.last = latest /\ r.covered = covers
  BY Zenon
<1> QED
  BY <1>1, <1>2, EvidenceIsKnownOrNot

LEMMA PartsOfKnown ==
    ASSUME NEW e \in Known
    PROVE  e.known = TRUE /\ e.allNull \in SUBSET Days /\ e.last \in Days /\ e.covered \in BOOLEAN
BY Zenon DEF Known

LEMMA KnownOnAnotherDay ==
    ASSUME NEW e \in Known, NEW d \in Days
    PROVE  /\ [e EXCEPT !.last = d] \in Known
           /\ [e EXCEPT !.last = d].allNull = e.allNull
           /\ [e EXCEPT !.last = d].covered = e.covered
<1>1. [e EXCEPT !.last = d] \in Known
  BY Zenon DEF Known
<1>2. [e EXCEPT !.last = d].allNull = e.allNull
  BY SMT DEF Known
<1>3. [e EXCEPT !.last = d].covered = e.covered
  BY SMT DEF Known
<1> QED
  BY <1>1, <1>2, <1>3

LEMMA EvidenceIsTyped ==
    ASSUME NEW rows \in [Days -> Readings \cup {"none"}]
    PROVE  /\ EvidenceFrom(rows) \in MarineEvidence
           /\ EvidenceFrom(rows).known =>
                 /\ EvidenceFrom(rows).allNull = {d \in Days : rows[d] = "all null"}
                 /\ EvidenceFrom(rows).covered <=> \E d \in Days : rows[d] = "values"
<1>1. CASE \A d \in Days : rows[d] = "none"
  BY <1>1 DEF EvidenceFrom, MarineEvidence, Unknown
<1>2. CASE ~\A d \in Days : rows[d] = "none"
  <2> DEFINE S == {d \in Days : rows[d] # "none"}
  <2>1. Max(S) \in Days
    BY <1>2, LastOfDays
  <2> DEFINE nulls == {d \in Days : rows[d] = "all null"}
             covers == \E d \in Days : rows[d] = "values"
  <2>2. EvidenceFrom(rows) =
           [known |-> TRUE, allNull |-> nulls, last |-> Max(S), covered |-> covers]
    BY <1>2 DEF EvidenceFrom
  <2>3. nulls \in SUBSET Days /\ covers \in BOOLEAN
    OBVIOUS
  <2> HIDE DEF S, nulls, covers
  <2>4. /\ EvidenceFrom(rows) \in MarineEvidence
        /\ EvidenceFrom(rows).allNull = nulls
        /\ EvidenceFrom(rows).covered = covers
    BY <2>1, <2>2, <2>3, KnownFromParts
  <2> QED
    BY <2>4, Zenon DEF nulls, covers
<1> QED
  BY <1>1, <1>2

\* What is inserted for a day that is not recorded was in the evidence.
LEMMA InsertedComesFromEvidence ==
    ASSUME TypeOK, NEW e \in MarineEvidence
    PROVE  /\ Inserted(e) \in [Days -> Readings \cup {"none"}]
           /\ \A d \in Days :
                 /\ probes[d] # "none" => Inserted(e)[d] = probes[d]
                 /\ Inserted(e)[d] = "all null" =>
                       probes[d] = "all null" \/ (e.known /\ d \in e.allNull)
                 /\ Inserted(e)[d] = "values" =>
                       probes[d] = "values" \/ (e.known /\ e.covered)
BY DEF TypeOK, Inserted, Implied, MarineEvidence, Unknown, Readings, Answers

\* So rows that rest on what was heard still do once evidence that does is
\* written over them.
LEMMA InsertedRests ==
    ASSUME TypeOK, NEW e \in MarineEvidence, RestsOn(e, heard), RestsOn(EvidenceFrom(probes), heard)
    PROVE  RestsOn(EvidenceFrom(Inserted(e)), heard)
<1>1. probes \in [Days -> Readings \cup {"none"}]
  BY DEF TypeOK
<1>2. SUFFICES ASSUME EvidenceFrom(Inserted(e)).known
               PROVE  RestsOn(EvidenceFrom(Inserted(e)), heard)
  BY DEF RestsOn
<1>3. ASSUME NEW d \in Days, probes[d] = "all null"
      PROVE  \E h \in heard : h.for = d /\ h.kind = "all null"
  <2>1. EvidenceFrom(probes).known
    BY <1>3 DEF EvidenceFrom
  <2> QED
    BY <1>1, <1>3, <2>1, EvidenceIsTyped DEF RestsOn
<1>4. ASSUME NEW d \in Days, probes[d] = "values"
      PROVE  \E h \in heard : h.kind = "values"
  <2>1. EvidenceFrom(probes).known
    BY <1>4 DEF EvidenceFrom
  <2> QED
    BY <1>1, <1>4, <2>1, EvidenceIsTyped DEF RestsOn
<1>5. /\ EvidenceFrom(Inserted(e)).allNull = {d \in Days : Inserted(e)[d] = "all null"}
      /\ EvidenceFrom(Inserted(e)).covered <=> \E d \in Days : Inserted(e)[d] = "values"
  BY <1>2, InsertedComesFromEvidence, EvidenceIsTyped
<1>6. ASSUME NEW d \in Days, Inserted(e)[d] = "all null"
      PROVE  \E h \in heard : h.for = d /\ h.kind = "all null"
  <2>1. probes[d] = "all null" \/ (e.known /\ d \in e.allNull)
    BY <1>6, InsertedComesFromEvidence
  <2>2. CASE probes[d] = "all null"
    BY <1>3, <2>2
  <2>3. CASE e.known /\ d \in e.allNull
    BY <2>3 DEF RestsOn
  <2> QED
    BY <2>1, <2>2, <2>3
<1>7. ASSUME NEW d \in Days, Inserted(e)[d] = "values"
      PROVE  \E h \in heard : h.kind = "values"
  BY <1>4, <1>7, InsertedComesFromEvidence DEF RestsOn
<1> QED
  BY <1>5, <1>6, <1>7 DEF RestsOn

\* A probe adds to the evidence what it heard, and nothing else.
LEMMA RecordedRests ==
    ASSUME NEW e \in MarineEvidence, NEW kind \in Readings, NEW d \in Days,
           RestsOn(e, heard), heard \subseteq heard',
           kind \in Answers => \E h \in heard' : h.for = d /\ h.kind = kind
    PROVE  /\ RecordProbe(e, kind, d) \in MarineEvidence
           /\ RestsOn(RecordProbe(e, kind, d), heard')
<1> DEFINE r == RecordProbe(e, kind, d)
<1>0. e = Unknown \/ (e \in Known /\ e.known)
  BY EvidenceIsKnownOrNot, PartsOfKnown
<1>1. CASE kind = "failed" /\ e = Unknown
  <2>1. r = [known |-> TRUE, allNull |-> {}, last |-> d, covered |-> FALSE]
    BY <1>1 DEF RecordProbe, Unknown
  <2> HIDE DEF r
  <2>2. r \in Known
    BY <2>1, Zenon DEF Known
  <2>3. r.known /\ r.allNull = {} /\ ~r.covered
    BY <2>1, Zenon
  <2> QED
    BY <2>2, <2>3, EvidenceIsKnownOrNot DEF r, RestsOn
<1>2. CASE kind = "failed" /\ e \in Known /\ e.known
  <2>1. r = [e EXCEPT !.last = d]
    BY <1>2 DEF RecordProbe
  <2> HIDE DEF r
  <2>2. r \in Known /\ r.allNull = e.allNull /\ r.covered = e.covered
    BY <1>2, <2>1, KnownOnAnotherDay, Zenon
  <2>3. r \in MarineEvidence
    BY <2>2, EvidenceIsKnownOrNot
  <2>4. RestsOn(e, heard')
    BY Zenon DEF RestsOn
  <2>5. RestsOn(r, heard')
    <3>0. \A a \in e.allNull : \E h \in heard' : h.for = a /\ h.kind = "all null"
      BY <1>2, <2>4 DEF RestsOn
    <3>1. \A a \in r.allNull : \E h \in heard' : h.for = a /\ h.kind = "all null"
      BY <2>2, <3>0
    <3>2. r.covered => \E h \in heard' : h.kind = "values"
      BY <1>2, <2>2, <2>4 DEF RestsOn
    <3> QED
      BY <3>1, <3>2 DEF RestsOn
  <2> QED
    BY <2>3, <2>5 DEF r
<1>3. CASE kind = "values"
  <2>1. r = [known |-> TRUE, allNull |-> {}, last |-> d, covered |-> TRUE]
    BY <1>3 DEF RecordProbe
  <2>2. r \in MarineEvidence /\ r.known /\ r.allNull = {}
    <3> HIDE DEF r
    <3>1. r \in Known
      BY <2>1, Zenon DEF Known
    <3>2. r.known /\ r.allNull = {}
      BY <2>1, Zenon
    <3> QED
      BY <3>1, <3>2, EvidenceIsKnownOrNot
  <2>3. \E h \in heard' : h.kind = "values"
    BY <1>3 DEF Answers
  <2> HIDE DEF r
  <2> QED
    BY <2>2, <2>3 DEF r, RestsOn
<1>4. CASE kind = "all null"
  <2> DEFINE before == IF e.known THEN e.allNull ELSE {}
             nulls == {d} \cup before
  <2>1. r = [known |-> TRUE, allNull |-> nulls, last |-> d, covered |-> FALSE]
    BY <1>4 DEF RecordProbe
  <2>2. before \in SUBSET Days
    <3>1. CASE e = Unknown
      BY <3>1 DEF Unknown
    <3>2. CASE e \in Known
      <4>1. e.allNull \in SUBSET Days
        BY <3>2, PartsOfKnown
      <4> QED
        BY <4>1
    <3> QED
      BY <1>0, <3>1, <3>2
  <2>3. \A a \in before : \E h \in heard' : h.for = a /\ h.kind = "all null"
    BY DEF RestsOn
  <2>4. \E h \in heard' : h.for = d /\ h.kind = "all null"
    BY <1>4 DEF Answers
  <2>5. nulls \in SUBSET Days
    BY <2>2
  <2>6. \A a \in nulls : \E h \in heard' : h.for = a /\ h.kind = "all null"
    BY <2>3, <2>4
  <2> HIDE DEF before, nulls, r
  <2>7. r \in MarineEvidence /\ r.known /\ r.allNull = nulls /\ ~r.covered
    <3>1. r \in Known
      BY <2>1, <2>5, Zenon DEF Known
    <3>2. r.known /\ r.allNull = nulls /\ ~r.covered
      BY <2>1, Zenon
    <3> QED
      BY <3>1, <3>2, EvidenceIsKnownOrNot
  <2> QED
    BY <2>6, <2>7 DEF r, RestsOn
<1> QED
  BY <1>0, <1>1, <1>2, <1>3, <1>4 DEF Readings, Answers

----------------------------------------------------------------------------
(***************************************************************************)
(* What the parts of a step do.                                            *)
(***************************************************************************)

LEMMA KindsDiffer ==
    /\ NoProfile \notin Profiles /\ Refused \notin Profiles /\ NoRow \notin Rows
    /\ Refused # NoProfile
BY DEF NoProfile, Profiles, Refused, NoRow, Rows

\* More answers support whatever fewer do, and nothing needs no answer.
LEMMA RestsOnMore ==
    ASSUME NEW e, NEW some, NEW more, some \subseteq more, RestsOn(e, some)
    PROVE  RestsOn(e, more)
BY DEF RestsOn

LEMMA UnknownRests == \A answers : RestsOn(Unknown, answers)
BY DEF RestsOn, Unknown

LEMMA PartsOfProfile ==
    ASSUME NEW profile \in Profiles
    PROVE  profile.snow \in SnowEvidence /\ profile.marine \in MarineEvidence
           /\ profile.outdated \in BOOLEAN
BY Zenon DEF Profiles

LEMMA PartsOfRow ==
    ASSUME NEW r \in Rows
    PROVE  r.snow \in SnowEvidence /\ r.outdated \in BOOLEAN
BY Zenon DEF Rows

LEMMA PartsOfGathering ==
    ASSUME NEW g \in Gatherings
    PROVE  g.snow \in SnowEvidence /\ g.marine \in MarineEvidence /\ g.changed \in BOOLEAN
BY Zenon DEF Gatherings

\* An instance that a step does not touch keeps its part of the invariant.
LEMMA OthersKeep ==
    ASSUME Inv, NEW j \in Instances, heard \subseteq heard', row # NoRow => row' # NoRow,
           mirror'[j] = mirror[j], stored'[j] = stored[j], answer'[j] = answer[j],
           gathered'[j] = gathered[j], read'[j] = read[j], pc'[j] = pc[j] \/ pc'[j] \notin Waiting
    PROVE  DurableAt(j)' /\ FoundedAt(j)'
<1>1. DurableAt(j)'
  BY DEF Inv, DurableAt, Waiting
<1>2. FoundedAt(j)'
  BY RestsOnMore DEF Inv, FoundedAt
<1> QED
  BY <1>1, <1>2

\* What is read out of a row and of the probes is a profile, founded on them.
LEMMA ProfileOfRows ==
    ASSUME Inv, NEW r \in Rows
    PROVE  /\ ProfileFrom(r, probes) \in Profiles
           /\ RestsOn(ProfileFrom(r, probes).marine, heard)
<1>1. EvidenceFrom(probes) \in MarineEvidence
  BY EvidenceIsTyped DEF Inv, TypeOK
<1>2. ProfileFrom(r, probes) \in Profiles
  BY <1>1, PartsOfRow, Zenon DEF ProfileFrom, Profiles
<1>3. ProfileFrom(r, probes).marine = EvidenceFrom(probes)
  BY DEF ProfileFrom
<1> QED
  BY <1>2, <1>3 DEF Inv, RecordIsFounded

\* What is offered is a profile, founded on what was gathered.
LEMMA OfferedIsProfile ==
    ASSUME Inv, NEW i \in Instances
    PROVE  /\ Offered(i) \in Profiles
           /\ RestsOn(Offered(i).marine, heard)
<1>1. gathered[i] \in Gatherings
  BY DEF Inv, TypeOK
<1>2. gathered[i].snow \in SnowEvidence /\ gathered[i].marine \in MarineEvidence
  BY <1>1, PartsOfGathering
<1>3. Offered(i) \in Profiles
  BY <1>2, Zenon DEF Offered, Profiles
<1>4. Offered(i).marine = gathered[i].marine
  BY DEF Offered
<1> QED
  BY <1>3, <1>4 DEF Inv, FoundedAt

\* The end of a computation drops what it held, and gives an answer that is
\* founded and of a durable place.
LEMMA ReturnsKeeps ==
    ASSUME Inv, NEW i \in Instances, NEW given, Returns(i, given),
           given \in Profiles \cup {NoProfile, Refused},
           given \in Profiles => row' # NoRow /\ RestsOn(given.marine, heard),
           heard' = heard, row # NoRow => row' # NoRow,
           \A j \in Instances : mirror'[j] = mirror[j] \/
               (mirror'[j] # NoProfile => row' # NoRow /\ RestsOn(mirror'[j].marine, heard))
    PROVE  /\ pc' \in [Instances -> {"idle", "finding", "finding probes", "placing", "snow",
                                     "marine", "saving", "reading back", "reading back probes"}]
           /\ read' \in [Instances -> Rows \cup {NoRow}]
           /\ stored' \in [Instances -> Profiles \cup {NoProfile}]
           /\ gathered' \in [Instances -> Gatherings]
           /\ answer' \in [Instances -> Profiles \cup {NoProfile, Refused}]
           /\ \A j \in Instances : DurableAt(j)' /\ FoundedAt(j)'
<1>0. NothingGathered \in Gatherings /\ NothingGathered.marine = Unknown
  <2>1. Unknown \in SnowEvidence /\ Unknown \in MarineEvidence
    BY DEF SnowEvidence, MarineEvidence
  <2> QED
    BY <2>1, Zenon DEF NothingGathered, Gatherings
<1>1. /\ pc' = [pc EXCEPT ![i] = "idle"] /\ answer' = [answer EXCEPT ![i] = given]
      /\ read' = [read EXCEPT ![i] = NoRow] /\ stored' = [stored EXCEPT ![i] = NoProfile]
      /\ gathered' = [gathered EXCEPT ![i] = NothingGathered]
  BY DEF Returns, Moves
<1>2. /\ pc' \in [Instances -> {"idle", "finding", "finding probes", "placing", "snow",
                               "marine", "saving", "reading back", "reading back probes"}]
      /\ read' \in [Instances -> Rows \cup {NoRow}]
      /\ stored' \in [Instances -> Profiles \cup {NoProfile}]
      /\ gathered' \in [Instances -> Gatherings]
      /\ answer' \in [Instances -> Profiles \cup {NoProfile, Refused}]
  BY <1>0, <1>1 DEF Inv, TypeOK
<1>3. /\ pc'[i] = "idle" /\ answer'[i] = given /\ stored'[i] = NoProfile
      /\ gathered'[i].marine = Unknown
      /\ \A j \in Instances \ {i} :
            /\ pc'[j] = pc[j] /\ answer'[j] = answer[j] /\ stored'[j] = stored[j]
            /\ gathered'[j] = gathered[j] /\ read'[j] = read[j]
  BY <1>0, <1>1 DEF Inv, TypeOK
<1>4. \A j \in Instances : DurableAt(j)'
  BY <1>3, KindsDiffer DEF Inv, DurableAt, Waiting
<1>5. \A j \in Instances : FoundedAt(j)'
  BY <1>3, UnknownRests, KindsDiffer DEF Inv, FoundedAt
<1> QED
  BY <1>2, <1>4, <1>5

\* A step of one instance keeps the invariant if it keeps the part of that
\* instance and of the store.
LEMMA OwnStepKeeps ==
    ASSUME Inv, NEW i \in Instances, TypeOK', RecordIsFounded', DurableAt(i)', FoundedAt(i)',
           heard \subseteq heard', row # NoRow => row' # NoRow,
           \A j \in Instances \ {i} :
               /\ mirror'[j] = mirror[j] /\ stored'[j] = stored[j] /\ answer'[j] = answer[j]
               /\ gathered'[j] = gathered[j] /\ read'[j] = read[j] /\ pc'[j] = pc[j]
    PROVE  Inv'
<1>1. \A j \in Instances \ {i} : DurableAt(j)' /\ FoundedAt(j)'
  BY OthersKeep
<1> QED
  BY <1>1 DEF Inv

\* So does the end of a computation.
LEMMA EndKeeps ==
    ASSUME Inv, NEW i \in Instances, NEW given, Returns(i, given),
           given \in Profiles \cup {NoProfile, Refused},
           given \in Profiles => row' # NoRow /\ RestsOn(given.marine, heard),
           heard' = heard, row # NoRow => row' # NoRow,
           \A j \in Instances : mirror'[j] = mirror[j] \/
               (mirror'[j] # NoProfile => row' # NoRow /\ RestsOn(mirror'[j].marine, heard)),
           row' \in Rows \cup {NoRow}, probes' \in [Days -> Readings \cup {"none"}],
           mirror' \in [Instances -> Profiles \cup {NoProfile}],
           cached' \in [Instances -> [kind : Answers, on : Days] \cup {NotCached}],
           today' = today, day' = day, spent' = spent, requests' = requests,
           mishaps' \in [Instances -> [Mishaps -> Nat]], RecordIsFounded'
    PROVE  Inv'
<1>1. TypeOK'
  BY ReturnsKeeps DEF Inv, TypeOK
<1> QED
  BY <1>1, ReturnsKeeps DEF Inv

LEMMA MishapIsCounted ==
    ASSUME Inv, NEW i \in Instances, NEW kind \in Mishaps, Mishap(i, kind)
    PROVE  mishaps' \in [Instances -> [Mishaps -> Nat]]
<1>1. mishaps' = [mishaps EXCEPT ![i][kind] = @ + 1]
  BY Zenon DEF Mishap
<1>2. mishaps \in [Instances -> [Mishaps -> Nat]]
  BY DEF Inv, TypeOK
<1> QED
  BY <1>1, <1>2

LEMMA RecordStays ==
    ASSUME Inv, probes' = probes, heard \subseteq heard'
    PROVE  RecordIsFounded'
<1>1. RestsOn(EvidenceFrom(probes), heard')
  BY RestsOnMore DEF Inv, RecordIsFounded
<1> QED
  BY <1>1 DEF RecordIsFounded

----------------------------------------------------------------------------
(***************************************************************************)
(* The initial state, and one step per action.                             *)
(***************************************************************************)

LEMMA ProfileForKeepsInv ==
    ASSUME Inv, NEW i \in Instances, ProfileFor(i)
    PROVE  Inv'
<1>1. TypeOK'
  <2>1. requests' \in 0 .. MaxRequests
    <3>1. requests \in 0 .. MaxRequests /\ requests < MaxRequests /\ requests' = requests + 1
      BY DEF Inv, TypeOK, ProfileFor
    <3> QED
      BY <3>1, ProfileAssumption
  <2>2. /\ pc' = [pc EXCEPT ![i] = "finding"]
        /\ answer' = [answer EXCEPT ![i] = NoProfile]
    BY DEF ProfileFor, Moves
  <2> QED
    BY <2>1, <2>2 DEF Inv, TypeOK, ProfileFor
<1>2. RecordIsFounded'
  BY RecordStays DEF ProfileFor
<1>3. DurableAt(i)' /\ FoundedAt(i)'
  BY KindsDiffer DEF Inv, TypeOK, DurableAt, FoundedAt, Waiting, ProfileFor, Moves
<1>4. \A j \in Instances \ {i} :
         /\ mirror'[j] = mirror[j] /\ stored'[j] = stored[j] /\ answer'[j] = answer[j]
         /\ gathered'[j] = gathered[j] /\ read'[j] = read[j] /\ pc'[j] = pc[j]
  BY DEF Inv, TypeOK, ProfileFor, Moves
<1> QED
  BY <1>1, <1>2, <1>3, <1>4, OwnStepKeeps DEF ProfileFor

LEMMA FindRowKeepsInv ==
    ASSUME Inv, NEW i \in Instances, FindRow(i)
    PROVE  Inv'
<1>0. /\ UNCHANGED <<today, row, probes, cached, day, gathered, answer, heard, spent,
                      requests, mishaps>>
      /\ \/ /\ row = NoRow /\ UNCHANGED read
            /\ mirror' = [mirror EXCEPT ![i] = NoProfile]
            /\ stored' = [stored EXCEPT ![i] = NoProfile]
            /\ pc' = [pc EXCEPT ![i] = "placing"]
         \/ /\ row # NoRow /\ UNCHANGED <<mirror, stored>>
            /\ read' = [read EXCEPT ![i] = row]
            /\ pc' = [pc EXCEPT ![i] = "finding probes"]
  BY DEF FindRow, Found, Moves
<1>1. TypeOK'
  <2>1. /\ mirror' \in [Instances -> Profiles \cup {NoProfile}]
        /\ stored' \in [Instances -> Profiles \cup {NoProfile}]
    BY <1>0 DEF Inv, TypeOK
  <2>2. read' \in [Instances -> Rows \cup {NoRow}]
    BY <1>0 DEF Inv, TypeOK
  <2>3. pc' \in [Instances -> {"idle", "finding", "finding probes", "placing", "snow",
                               "marine", "saving", "reading back", "reading back probes"}]
    BY <1>0 DEF Inv, TypeOK
  <2> QED
    BY <1>0, <2>1, <2>2, <2>3 DEF Inv, TypeOK
<1>2. RecordIsFounded'
  BY RecordStays DEF FindRow
<1>3. DurableAt(i)' /\ FoundedAt(i)'
  <2>1. CASE row = NoRow
    <3>1. mirror'[i] = NoProfile /\ stored'[i] = NoProfile /\ pc'[i] = "placing"
      BY <1>0, <2>1 DEF Inv, TypeOK
    <3>2. answer[i] \notin Profiles
      BY <2>1 DEF Inv, DurableAt
    <3>3. RestsOn(gathered[i].marine, heard)
      BY DEF Inv, FoundedAt
    <3>4. DurableAt(i)'
      BY <1>0, <3>1, <3>2 DEF DurableAt, Waiting
    <3>5. FoundedAt(i)'
      BY <1>0, <3>1, <3>2, <3>3 DEF FoundedAt, RestsOn
    <3> QED
      BY <3>4, <3>5
  <2>2. CASE row # NoRow
    <3>1. read'[i] = row /\ row \in Rows
      BY <1>0, <2>2 DEF Inv, TypeOK
    <3>2. DurableAt(i)'
      BY <1>0, <2>2, <3>1 DEF DurableAt
    <3>3. FoundedAt(i)
      BY DEF Inv
    <3>4. FoundedAt(i)'
      BY <1>0, <2>2, <3>3 DEF FoundedAt, RestsOn
    <3> QED
      BY <3>2, <3>4
  <2> QED
    BY <2>1, <2>2
<1>4. \A j \in Instances \ {i} :
         /\ mirror'[j] = mirror[j] /\ stored'[j] = stored[j] /\ answer'[j] = answer[j]
         /\ gathered'[j] = gathered[j] /\ read'[j] = read[j] /\ pc'[j] = pc[j]
  BY DEF Inv, TypeOK, FindRow, Found, Moves
<1> QED
  BY <1>1, <1>2, <1>3, <1>4, OwnStepKeeps DEF FindRow

LEMMA FindProbesKeepsInv ==
    ASSUME Inv, NEW i \in Instances, FindProbes(i)
    PROVE  Inv'
<1> DEFINE found == ProfileFrom(read[i], probes)
<1>0. read[i] \in Rows /\ row # NoRow
  BY DEF Inv, DurableAt, FindProbes, Waiting
<1>1. found \in Profiles /\ RestsOn(found.marine, heard) /\ found # NoProfile
  BY <1>0, ProfileOfRows, KindsDiffer
<1>2. /\ mirror' = [mirror EXCEPT ![i] = found] /\ stored' = [stored EXCEPT ![i] = found]
      /\ pc' = [pc EXCEPT ![i] = "snow"]
  BY <1>1 DEF FindProbes, Found, Moves
<1> HIDE DEF found
<1>3. TypeOK'
  <2>1. UNCHANGED <<today, row, probes, cached, read, day, gathered, answer, heard, spent,
                    requests, mishaps>>
    BY DEF FindProbes
  <2> QED
    BY <1>1, <1>2, <2>1 DEF Inv, TypeOK
<1>4. RecordIsFounded'
  BY RecordStays DEF FindProbes
<1>5. DurableAt(i)' /\ FoundedAt(i)'
  BY <1>0, <1>1, <1>2 DEF Inv, TypeOK, DurableAt, FoundedAt, Waiting, FindProbes
<1>6. \A j \in Instances \ {i} :
         /\ mirror'[j] = mirror[j] /\ stored'[j] = stored[j] /\ answer'[j] = answer[j]
         /\ gathered'[j] = gathered[j] /\ read'[j] = read[j] /\ pc'[j] = pc[j]
  BY <1>2 DEF Inv, TypeOK, FindProbes
<1> QED
  BY <1>3, <1>4, <1>5, <1>6, OwnStepKeeps DEF FindProbes

LEMMA FindDegradedKeepsInv ==
    ASSUME Inv, NEW i \in Instances, FindDegraded(i)
    PROVE  Inv'
<1>1. TypeOK'
  BY MishapIsCounted DEF Inv, TypeOK, FindDegraded, Found, Moves, Mishaps
<1>2. RecordIsFounded'
  BY RecordStays DEF FindDegraded
<1>3. DurableAt(i)' /\ FoundedAt(i)'
  BY DEF Inv, TypeOK, DurableAt, FoundedAt, Waiting, FindDegraded, Found, Moves
<1>4. \A j \in Instances \ {i} :
         /\ mirror'[j] = mirror[j] /\ stored'[j] = stored[j] /\ answer'[j] = answer[j]
         /\ gathered'[j] = gathered[j] /\ read'[j] = read[j] /\ pc'[j] = pc[j]
  BY DEF Inv, TypeOK, FindDegraded, Found, Moves
<1> QED
  BY <1>1, <1>2, <1>3, <1>4, OwnStepKeeps DEF FindDegraded

LEMMA UnprofilableKeepsInv ==
    ASSUME Inv, NEW i \in Instances, Unprofilable(i)
    PROVE  Inv'
<1>1. RecordIsFounded'
  BY RecordStays DEF Unprofilable
<1>2. mishaps' \in [Instances -> [Mishaps -> Nat]]
  BY MishapIsCounted DEF Unprofilable, Mishaps
<1> QED
  BY <1>1, <1>2, EndKeeps, KindsDiffer DEF Unprofilable, Inv, TypeOK

LEMMA SavePlaceKeepsInv ==
    ASSUME Inv, NEW i \in Instances, SavePlace(i)
    PROVE  Inv'
<1>1. TypeOK'
  BY DEF Inv, TypeOK, SavePlace, Moves
<1>2. RecordIsFounded'
  BY RecordStays DEF SavePlace
<1>3. DurableAt(i)' /\ FoundedAt(i)'
  BY DEF Inv, TypeOK, DurableAt, FoundedAt, Waiting, SavePlace, Moves
<1>4. \A j \in Instances \ {i} :
         /\ mirror'[j] = mirror[j] /\ stored'[j] = stored[j] /\ answer'[j] = answer[j]
         /\ gathered'[j] = gathered[j] /\ read'[j] = read[j] /\ pc'[j] = pc[j]
  BY DEF Inv, TypeOK, SavePlace, Moves
<1> QED
  BY <1>1, <1>2, <1>3, <1>4, OwnStepKeeps DEF SavePlace

LEMMA ReadBackRowKeepsInv ==
    ASSUME Inv, NEW i \in Instances, ReadBackRow(i)
    PROVE  Inv'
<1>0. row \in Rows
  BY DEF Inv, TypeOK, DurableAt, ReadBackRow, Waiting
<1>1. TypeOK'
  BY <1>0 DEF Inv, TypeOK, ReadBackRow, Moves
<1>2. RecordIsFounded'
  BY RecordStays DEF ReadBackRow
<1>3. DurableAt(i)' /\ FoundedAt(i)'
  BY <1>0, KindsDiffer DEF Inv, TypeOK, DurableAt, FoundedAt, Waiting, ReadBackRow, Moves
<1>4. \A j \in Instances \ {i} :
         /\ mirror'[j] = mirror[j] /\ stored'[j] = stored[j] /\ answer'[j] = answer[j]
         /\ gathered'[j] = gathered[j] /\ read'[j] = read[j] /\ pc'[j] = pc[j]
  BY DEF Inv, TypeOK, ReadBackRow, Moves
<1> QED
  BY <1>1, <1>2, <1>3, <1>4, OwnStepKeeps DEF ReadBackRow

LEMMA ReadBackProbesKeepsInv ==
    ASSUME Inv, NEW i \in Instances, ReadBackProbes(i)
    PROVE  Inv'
<1> DEFINE recorded == ProfileFrom(read[i], probes)
<1>0. read[i] \in Rows /\ row # NoRow
  BY DEF Inv, DurableAt, ReadBackProbes, Waiting
<1>1. recorded \in Profiles /\ RestsOn(recorded.marine, heard)
  BY <1>0, ProfileOfRows
<1>2. Offered(i) \in Profiles /\ RestsOn(Offered(i).marine, heard)
  BY OfferedIsProfile
<1>3. RecordIsFounded'
  BY RecordStays DEF ReadBackProbes
<1>4. mirror' = [mirror EXCEPT ![i] = recorded]
  BY DEF ReadBackProbes
<1> HIDE DEF recorded
<1>5. /\ mirror' \in [Instances -> Profiles \cup {NoProfile}]
      /\ \A j \in Instances : mirror'[j] = mirror[j] \/
            (mirror'[j] # NoProfile => row # NoRow /\ RestsOn(mirror'[j].marine, heard))
  BY <1>0, <1>1, <1>4 DEF Inv, TypeOK
<1> QED
  BY <1>0, <1>2, <1>3, <1>5, EndKeeps DEF ReadBackProbes, Inv, TypeOK

LEMMA ReadBackFailsKeepsInv ==
    ASSUME Inv, NEW i \in Instances, ReadBackFails(i)
    PROVE  Inv'
<1>0. row # NoRow
  BY DEF Inv, DurableAt, ReadBackFails, Waiting
<1>1. Offered(i) \in Profiles /\ RestsOn(Offered(i).marine, heard)
  BY OfferedIsProfile
<1>2. RecordIsFounded'
  BY RecordStays DEF ReadBackFails
<1>3. mishaps' \in [Instances -> [Mishaps -> Nat]]
  BY MishapIsCounted DEF ReadBackFails, Mishaps
<1>4. /\ mirror' \in [Instances -> Profiles \cup {NoProfile}]
      /\ \A j \in Instances : mirror'[j] = mirror[j] \/
            (mirror'[j] # NoProfile => row # NoRow /\ RestsOn(mirror'[j].marine, heard))
  BY <1>0, <1>1 DEF Inv, TypeOK, ReadBackFails
<1> QED
  BY <1>0, <1>1, <1>2, <1>3, <1>4, EndKeeps DEF ReadBackFails, Inv, TypeOK

LEMMA RestartKeepsInv ==
    ASSUME Inv, NEW i \in Instances, Restart(i)
    PROVE  Inv'
<1>1. RecordIsFounded'
  BY RecordStays DEF Restart
<1>2. mishaps' \in [Instances -> [Mishaps -> Nat]]
  BY MishapIsCounted DEF Restart, Mishaps
<1>3. mirror' \in [Instances -> Profiles \cup {NoProfile}]
  BY DEF Inv, TypeOK, Restart
<1>4. cached' \in [Instances -> [kind : Answers, on : Days] \cup {NotCached}]
  BY DEF Inv, TypeOK, Restart
<1>5. \A j \in Instances : mirror'[j] = mirror[j] \/ mirror'[j] = NoProfile
  BY DEF Inv, TypeOK, Restart
<1> QED
  BY <1>1, <1>2, <1>3, <1>4, <1>5, EndKeeps, KindsDiffer DEF Restart, Inv, TypeOK

LEMMA TickKeepsInv ==
    ASSUME Inv, Tick
    PROVE  Inv'
<1>1. TypeOK'
  <2>1. today' \in Days
    <3>1. today \in Days /\ today < LastDay /\ today' = today + 1
      BY DEF Inv, TypeOK, Tick
    <3> QED
      BY <3>1, ProfileAssumption DEF Days
  <2> QED
    BY <2>1 DEF Inv, TypeOK, Tick
<1>2. RecordIsFounded'
  BY RecordStays DEF Tick
<1>3. \A j \in Instances : DurableAt(j)' /\ FoundedAt(j)'
  BY OthersKeep DEF Tick
<1> QED
  BY <1>1, <1>2, <1>3 DEF Inv

----------------------------------------------------------------------------
(***************************************************************************)
(* Gathering.                                                              *)
(***************************************************************************)

\* What is known of a place before it is gathered for.
LEMMA StoredIsFounded ==
    ASSUME Inv, NEW i \in Instances
    PROVE  /\ StoredSnow(i) \in SnowEvidence /\ StoredMarine(i) \in MarineEvidence
           /\ RestsOn(StoredMarine(i), heard)
<1>0. Unknown \in SnowEvidence /\ Unknown \in MarineEvidence
  BY DEF SnowEvidence, MarineEvidence
<1>1. CASE stored[i] = NoProfile
  BY <1>0, <1>1, UnknownRests DEF StoredSnow, StoredMarine
<1>2. CASE stored[i] # NoProfile
  <2>1. stored[i] \in Profiles
    BY <1>2 DEF Inv, TypeOK
  <2>2. StoredSnow(i) = stored[i].snow /\ StoredMarine(i) = stored[i].marine
    BY <1>2 DEF StoredSnow, StoredMarine
  <2> QED
    BY <1>2, <2>1, <2>2, PartsOfProfile DEF Inv, FoundedAt
<1> QED
  BY <1>1, <1>2

LEMMA SnowIsKnownOrNot ==
    ASSUME NEW e \in SnowEvidence
    PROVE  e.known \in BOOLEAN
<1>1. Unknown.known \in BOOLEAN /\ Archive.known \in BOOLEAN
  BY Zenon DEF Unknown, Archive
<1>2. ASSUME NEW d \in Days, e = Guess(d) PROVE e.known \in BOOLEAN
  BY <1>2 DEF Guess
<1> QED
  BY <1>1, <1>2 DEF SnowEvidence

\* A step that only gathers keeps the invariant if what it gathers is founded.
LEMMA GatheringKeeps ==
    ASSUME Inv, NEW i \in Instances, NEW g \in Gatherings, NEW place \in {"marine", "saving"},
           gathered' = [gathered EXCEPT ![i] = g], Moves(i, place),
           RestsOn(g.marine, heard'), heard \subseteq heard',
           heard' \subseteq [on : Days, for : Days, kind : Answers],
           cached' \in [Instances -> [kind : Answers, on : Days] \cup {NotCached}],
           day' \in [Instances -> Days], spent' \in [Instances -> Nat],
           mishaps' \in [Instances -> [Mishaps -> Nat]],
           UNCHANGED <<today, row, probes, mirror, read, stored, answer, requests>>
    PROVE  Inv'
<1>0. pc' = [pc EXCEPT ![i] = place]
  BY DEF Moves
<1>1. TypeOK'
  BY <1>0 DEF Inv, TypeOK
<1>2. RecordIsFounded'
  BY RecordStays
<1>3. DurableAt(i)'
  BY <1>0 DEF Inv, TypeOK, DurableAt, Waiting
<1>4. FoundedAt(i)'
  <2>1. gathered'[i] = g
    BY DEF Inv, TypeOK
  <2> QED
    BY <2>1, RestsOnMore DEF Inv, FoundedAt
<1>5. \A j \in Instances \ {i} :
         /\ mirror'[j] = mirror[j] /\ stored'[j] = stored[j] /\ answer'[j] = answer[j]
         /\ gathered'[j] = gathered[j] /\ read'[j] = read[j] /\ pc'[j] = pc[j]
  BY <1>0 DEF Inv, TypeOK
<1> QED
  BY <1>1, <1>2, <1>3, <1>4, <1>5, OwnStepKeeps

\* A gathering with some of its fields replaced.
LEMMA WithChanged ==
    ASSUME NEW g \in Gatherings, NEW changed \in BOOLEAN
    PROVE  \E h \in Gatherings : h = [g EXCEPT !.changed = changed] /\ h.marine = g.marine
<1>1. [g EXCEPT !.changed = changed] \in Gatherings
  BY Zenon DEF Gatherings
<1>2. [g EXCEPT !.changed = changed].marine = g.marine
  BY SMT DEF Gatherings
<1> QED
  BY <1>1, <1>2, Zenon

LEMMA WithSnow ==
    ASSUME NEW g \in Gatherings, NEW snow \in SnowEvidence
    PROVE  \E h \in Gatherings : h = [g EXCEPT !.snow = snow] /\ h.marine = g.marine
<1>1. [g EXCEPT !.snow = snow] \in Gatherings
  BY Zenon DEF Gatherings
<1>2. [g EXCEPT !.snow = snow].marine = g.marine
  BY SMT DEF Gatherings
<1> QED
  BY <1>1, <1>2, Zenon

LEMMA WithSnowChanged ==
    ASSUME NEW g \in Gatherings, NEW snow \in SnowEvidence, NEW changed \in BOOLEAN
    PROVE  \E h \in Gatherings : h = [g EXCEPT !.snow = snow, !.changed = changed] /\ h.marine = g.marine
<1>1. [g EXCEPT !.snow = snow, !.changed = changed] \in Gatherings
  BY Zenon DEF Gatherings
<1>2. [g EXCEPT !.snow = snow, !.changed = changed].marine = g.marine
  BY SMT DEF Gatherings
<1> QED
  BY <1>1, <1>2, Zenon

\* Gathering the snow evidence leaves the marine evidence alone.
LEMMA SnowLeavesMarine ==
    ASSUME Inv, NEW i \in Instances, GatherSnow(i)
    PROVE  \E h \in Gatherings :
               gathered' = [gathered EXCEPT ![i] = h] /\ h.marine = gathered[i].marine
<1> DEFINE known == StoredSnow(i)
           g == gathered[i]
<1>0. /\ g \in Gatherings /\ g.marine \in MarineEvidence /\ RestsOn(g.marine, heard)
      /\ known \in SnowEvidence /\ known.known \in BOOLEAN /\ today \in Days
  BY StoredIsFounded, SnowIsKnownOrNot, PartsOfGathering DEF Inv, TypeOK, FoundedAt
<1>1. CASE gathered' = [gathered EXCEPT ![i].changed = known.known]
  <2>1. gathered' = [gathered EXCEPT ![i] = [g EXCEPT !.changed = known.known]]
    BY <1>1
  <2>2. PICK h \in Gatherings : h = [g EXCEPT !.changed = known.known] /\ h.marine = g.marine
    BY <1>0, WithChanged, Zenon
  <2> QED
    BY <2>1, <2>2, Zenon
<1>2. CASE gathered' = [gathered EXCEPT ![i].snow = known]
  <2>1. gathered' = [gathered EXCEPT ![i] = [g EXCEPT !.snow = known]]
    BY <1>2
  <2>2. PICK h \in Gatherings : h = [g EXCEPT !.snow = known] /\ h.marine = g.marine
    BY <1>0, WithSnow, Zenon
  <2> QED
    BY <2>1, <2>2, Zenon
<1>3. ASSUME NEW e \in SnowGathered(today),
             gathered' = [gathered EXCEPT ![i].snow = e,
                                          ![i].changed = e.known \/ known.known]
      PROVE  \E h \in Gatherings : gathered' = [gathered EXCEPT ![i] = h] /\ h.marine = g.marine
  <2> DEFINE changed == e.known \/ known.known
  <2>1. e \in SnowEvidence
    BY <1>0 DEF SnowGathered, SnowEvidence
  <2>2. changed \in BOOLEAN
    OBVIOUS
  <2>3. gathered' = [gathered EXCEPT ![i] = [g EXCEPT !.snow = e, !.changed = changed]]
    BY <1>0, <1>3 DEF Inv, TypeOK
  <2> HIDE DEF changed
  <2>4. PICK h \in Gatherings :
           h = [g EXCEPT !.snow = e, !.changed = changed] /\ h.marine = g.marine
    BY <1>0, <2>1, <2>2, WithSnowChanged, Zenon
  <2> QED
    BY <2>3, <2>4, Zenon
<1> QED
  BY <1>1, <1>2, <1>3 DEF GatherSnow

LEMMA GatherSnowKeepsInv ==
    ASSUME Inv, NEW i \in Instances, GatherSnow(i)
    PROVE  Inv'
<1>0. today \in Days /\ RestsOn(gathered[i].marine, heard)
  BY DEF Inv, TypeOK, FoundedAt
<1>1. PICK h \in Gatherings :
         gathered' = [gathered EXCEPT ![i] = h] /\ h.marine = gathered[i].marine
  BY SnowLeavesMarine
<1>2. /\ day' \in [Instances -> Days] /\ spent' \in [Instances -> Nat]
      /\ mishaps' \in [Instances -> [Mishaps -> Nat]]
  <2>1. day \in [Instances -> Days] /\ spent \in [Instances -> Nat] /\ mishaps \in [Instances -> [Mishaps -> Nat]]
    BY DEF Inv, TypeOK
  <2>2. /\ day' = [day EXCEPT ![i] = today]
        /\ spent' = spent \/ spent' = [spent EXCEPT ![i] = 0]
        /\ mishaps' = mishaps \/ mishaps' = [mishaps EXCEPT ![i] = NoMishaps]
    BY DEF GatherSnow
  <2>3. NoMishaps \in [Mishaps -> Nat]
    BY DEF NoMishaps
  <2> QED
    BY <1>0, <2>1, <2>2, <2>3
<1>3. /\ Moves(i, "marine")
      /\ UNCHANGED <<today, row, probes, mirror, cached, read, stored, answer, heard, requests>>
  BY DEF GatherSnow
<1> QED
  BY <1>0, <1>1, <1>2, <1>3, GatheringKeeps DEF Inv, TypeOK

\* What a computation offers is gathered by it.
LEMMA OffersGathers ==
    ASSUME Inv, NEW i \in Instances, NEW e \in MarineEvidence, NEW changed \in BOOLEAN,
           Offers(i, e, changed)
    PROVE  \E g \in Gatherings : gathered' = [gathered EXCEPT ![i] = g] /\ g.marine = e
<1> DEFINE old == gathered[i]
           now == old.changed \/ changed
<1>1. old \in Gatherings /\ old.snow \in SnowEvidence
  BY PartsOfGathering DEF Inv, TypeOK
<1>2. now \in BOOLEAN
  OBVIOUS
<1>3. gathered' = [gathered EXCEPT ![i] = [old EXCEPT !.marine = e, !.changed = now]]
  BY <1>1 DEF Offers, Inv, TypeOK
<1> HIDE DEF old, now
<1>4. [old EXCEPT !.marine = e, !.changed = now] \in Gatherings
  BY <1>1, <1>2, Zenon DEF Gatherings
<1>5. [old EXCEPT !.marine = e, !.changed = now].marine = e
  BY <1>1, SMT DEF Gatherings
<1> QED
  BY <1>3, <1>4, <1>5, Zenon

\* A probe that has an answer, or a fault, to record.
LEMMA ProbeRecords ==
    ASSUME Inv, NEW i \in Instances, NEW kind \in Readings, heard \subseteq heard',
           Offers(i, RecordProbe(StoredMarine(i), kind, day[i]), TRUE),
           kind \in Answers => \E h \in heard' : h.for = day[i] /\ h.kind = kind
    PROVE  \E g \in Gatherings :
               gathered' = [gathered EXCEPT ![i] = g] /\ RestsOn(g.marine, heard')
<1> DEFINE e == RecordProbe(StoredMarine(i), kind, day[i])
<1>1. day[i] \in Days
  BY DEF Inv, TypeOK
<1>2. e \in MarineEvidence /\ RestsOn(e, heard')
  BY <1>1, StoredIsFounded, RecordedRests
<1>3. Offers(i, e, TRUE)
  OBVIOUS
<1> HIDE DEF e
<1>4. PICK g \in Gatherings : gathered' = [gathered EXCEPT ![i] = g] /\ g.marine = e
  BY <1>2, <1>3, OffersGathers
<1> QED
  BY <1>2, <1>4

\* An answer of the source, or of the cache, is one that was heard.
LEMMA AnswersAreHeard ==
    ASSUME NEW d \in Days, NEW n \in Days, NEW kind \in Answers,
           heard \subseteq [on : Days, for : Days, kind : Answers],
           heard' = heard \cup {[on |-> n, for |-> d, kind |-> kind]}
    PROVE  /\ heard \subseteq heard' /\ heard' \subseteq [on : Days, for : Days, kind : Answers]
           /\ \E h \in heard' : h.for = d /\ h.kind = kind
<1> DEFINE new == [on |-> n, for |-> d, kind |-> kind]
<1>1. new \in [on : Days, for : Days, kind : Answers]
  OBVIOUS
<1>2. new.for = d /\ new.kind = kind
  OBVIOUS
<1> HIDE DEF new
<1> QED
  BY <1>1, <1>2 DEF new

LEMMA FreshAnswerGathers ==
    ASSUME Inv, NEW i \in Instances, FreshAnswer(i)
    PROVE  /\ heard \subseteq heard' /\ heard' \subseteq [on : Days, for : Days, kind : Answers]
           /\ cached' \in [Instances -> [kind : Answers, on : Days] \cup {NotCached}]
           /\ \E g \in Gatherings :
                 gathered' = [gathered EXCEPT ![i] = g] /\ RestsOn(g.marine, heard')
<1>0. /\ today \in Days /\ day[i] \in Days
      /\ heard \subseteq [on : Days, for : Days, kind : Answers]
      /\ cached \in [Instances -> [kind : Answers, on : Days] \cup {NotCached}]
  BY DEF Inv, TypeOK
<1>1. PICK kind \in Readings :
        /\ IF kind = "failed" THEN UNCHANGED <<heard, cached>>
           ELSE /\ heard' = heard \cup {[on |-> today, for |-> day[i], kind |-> kind]}
                /\ cached' = [cached EXCEPT ![i] = [kind |-> kind, on |-> today]]
        /\ Offers(i, RecordProbe(StoredMarine(i), kind, day[i]), TRUE)
  BY Zenon DEF FreshAnswer
<1>2. CASE kind = "failed"
  <2>1. kind \notin Answers
    BY <1>2 DEF Answers
  <2> QED
    BY <1>0, <1>1, <1>2, <2>1, ProbeRecords
<1>3. CASE kind \in Answers
  <2>0. kind # "failed"
    BY <1>3 DEF Answers
  <2>1. /\ heard' = heard \cup {[on |-> today, for |-> day[i], kind |-> kind]}
        /\ cached' = [cached EXCEPT ![i] = [kind |-> kind, on |-> today]]
    BY <1>1, <2>0
  <2>2. [kind |-> kind, on |-> today] \in [kind : Answers, on : Days]
    BY <1>0, <1>3
  <2>3. cached' \in [Instances -> [kind : Answers, on : Days] \cup {NotCached}]
    BY <1>0, <2>1, <2>2
  <2>4. /\ heard \subseteq heard' /\ heard' \subseteq [on : Days, for : Days, kind : Answers]
        /\ \E h \in heard' : h.for = day[i] /\ h.kind = kind
    BY <1>0, <1>3, <2>1, AnswersAreHeard
  <2> QED
    BY <1>1, <2>3, <2>4, ProbeRecords
<1> QED
  BY <1>2, <1>3 DEF Readings

LEMMA CachedAnswerGathers ==
    ASSUME Inv, NEW i \in Instances, CachedAnswer(i)
    PROVE  /\ heard \subseteq heard' /\ heard' \subseteq [on : Days, for : Days, kind : Answers]
           /\ cached' \in [Instances -> [kind : Answers, on : Days] \cup {NotCached}]
           /\ \E g \in Gatherings :
                 gathered' = [gathered EXCEPT ![i] = g] /\ RestsOn(g.marine, heard')
<1>0. /\ today \in Days /\ day[i] \in Days
      /\ heard \subseteq [on : Days, for : Days, kind : Answers]
      /\ cached \in [Instances -> [kind : Answers, on : Days] \cup {NotCached}]
      /\ cached[i] # NotCached
  BY DEF Inv, TypeOK, CachedAnswer
<1>1. cached[i].kind \in Answers /\ cached[i].on \in Days /\ cached[i].kind \in Readings
  <2>1. cached[i] \in [kind : Answers, on : Days]
    BY <1>0
  <2> QED
    BY <2>1 DEF Readings
<1>2. /\ heard \subseteq heard' /\ heard' \subseteq [on : Days, for : Days, kind : Answers]
      /\ \E h \in heard' : h.for = day[i] /\ h.kind = cached[i].kind
  <2>1. heard' = heard \cup {[on |-> cached[i].on, for |-> day[i], kind |-> cached[i].kind]}
    BY DEF CachedAnswer
  <2> QED
    BY <1>0, <1>1, <2>1, AnswersAreHeard
<1>3. cached' \in [Instances -> [kind : Answers, on : Days] \cup {NotCached}]
  <2>1. ASSUME NEW kind \in Answers,
               cached' = [cached EXCEPT ![i] = [kind |-> kind, on |-> today]]
        PROVE  cached' \in [Instances -> [kind : Answers, on : Days] \cup {NotCached}]
    <3>1. [kind |-> kind, on |-> today] \in [kind : Answers, on : Days]
      BY <1>0
    <3> QED
      BY <1>0, <2>1, <3>1
  <2>2. \/ cached' = cached
        \/ \E kind \in Answers : cached' = [cached EXCEPT ![i] = [kind |-> kind, on |-> today]]
    BY DEF CachedAnswer
  <2> QED
    BY <1>0, <2>1, <2>2
<1>4. Offers(i, RecordProbe(StoredMarine(i), cached[i].kind, day[i]), TRUE)
  BY DEF CachedAnswer
<1> QED
  BY <1>1, <1>2, <1>3, <1>4, ProbeRecords

LEMMA ProbeKeepsInv ==
    ASSUME Inv, NEW i \in Instances, Probe(i)
    PROVE  Inv'
<1>1. /\ heard \subseteq heard' /\ heard' \subseteq [on : Days, for : Days, kind : Answers]
      /\ cached' \in [Instances -> [kind : Answers, on : Days] \cup {NotCached}]
      /\ \E g \in Gatherings :
            gathered' = [gathered EXCEPT ![i] = g] /\ RestsOn(g.marine, heard')
  BY FreshAnswerGathers, CachedAnswerGathers DEF Probe
<1>2. spent' \in [Instances -> Nat]
  <2>1. spent \in [Instances -> Nat] /\ spent' = [spent EXCEPT ![i] = @ + 1]
    BY DEF Inv, TypeOK, Probe
  <2> QED
    BY <2>1
<1>3. /\ Moves(i, "saving")
      /\ UNCHANGED <<today, row, probes, mirror, read, stored, day, answer, requests, mishaps>>
  BY DEF Probe
<1>4. day \in [Instances -> Days] /\ mishaps \in [Instances -> [Mishaps -> Nat]]
  BY DEF Inv, TypeOK
<1> QED
  BY <1>1, <1>2, <1>3, <1>4, GatheringKeeps

LEMMA NoProbeKeepsInv ==
    ASSUME Inv, NEW i \in Instances, NoProbe(i)
    PROVE  Inv'
<1> DEFINE known == StoredMarine(i)
           dropped == "marineCoverage" \notin Declared /\ known.known
           kept == IF dropped THEN Unknown ELSE known
<1>0. UNCHANGED <<today, row, probes, mirror, cached, day, heard, spent, requests, mishaps>>
  BY DEF NoProbe
<1>1. CASE stored[i] # NoProfile /\ Returns(i, stored[i])
  <2>1. RecordIsFounded'
    BY <1>0, RecordStays
  <2>2. stored[i] \in Profiles /\ row # NoRow /\ RestsOn(stored[i].marine, heard)
    BY <1>1 DEF Inv, TypeOK, DurableAt, FoundedAt
  <2> QED
    BY <1>0, <1>1, <2>1, <2>2, EndKeeps DEF Inv, TypeOK
<1>2. CASE /\ Offers(i, kept, dropped) /\ Moves(i, "saving")
           /\ UNCHANGED <<read, stored, answer>>
  <2>1. kept \in MarineEvidence /\ RestsOn(kept, heard)
    BY StoredIsFounded, UnknownRests DEF MarineEvidence
  <2>2. dropped \in BOOLEAN
    OBVIOUS
  <2>3. PICK g \in Gatherings : gathered' = [gathered EXCEPT ![i] = g] /\ g.marine = kept
    <3> HIDE DEF kept, dropped
    <3> QED
      BY <1>2, <2>1, <2>2, OffersGathers
  <2> HIDE DEF kept, dropped
  <2> QED
    BY <1>0, <1>2, <2>1, <2>3, GatheringKeeps DEF Inv, TypeOK
<1> QED
  BY <1>1, <1>2 DEF NoProbe

----------------------------------------------------------------------------
(***************************************************************************)
(* Saving, and what the invariant gives.                                   *)
(***************************************************************************)

\* The transaction leaves a row, and probes that rest on what was heard.
LEMMA CommitIsFounded ==
    ASSUME Inv, NEW i \in Instances, Commit(i), heard' = heard
    PROVE  /\ row' \in Rows /\ row' # NoRow
           /\ probes' \in [Days -> Readings \cup {"none"}] /\ RecordIsFounded'
<1>1. /\ gathered[i].snow \in SnowEvidence /\ gathered[i].marine \in MarineEvidence
      /\ RestsOn(gathered[i].marine, heard)
  BY PartsOfGathering DEF Inv, TypeOK, FoundedAt
<1>2. row' \in Rows
  BY <1>1, Zenon DEF Commit, Rows
<1>3. probes' = Inserted(gathered[i].marine)
  BY DEF Commit
<1>4. probes' \in [Days -> Readings \cup {"none"}]
  BY <1>1, <1>3, InsertedComesFromEvidence DEF Inv
<1>5. RestsOn(EvidenceFrom(probes'), heard')
  BY <1>1, <1>3, InsertedRests DEF Inv, RecordIsFounded
<1> QED
  BY <1>2, <1>4, <1>5, KindsDiffer DEF RecordIsFounded

LEMMA SaveKeepsInv ==
    ASSUME Inv, NEW i \in Instances, Save(i)
    PROVE  Inv'
<1>0. UNCHANGED <<today, mirror, cached, read, stored, day, gathered, answer, heard, spent,
                  requests, mishaps>>
  BY DEF Save
<1>1. /\ row' \in Rows /\ row' # NoRow
      /\ probes' \in [Days -> Readings \cup {"none"}] /\ RecordIsFounded'
  BY <1>0, CommitIsFounded DEF Save
<1>2. pc' = [pc EXCEPT ![i] = "reading back"]
  BY DEF Save, Moves
<1>3. TypeOK'
  BY <1>0, <1>1, <1>2 DEF Inv, TypeOK
<1>4. DurableAt(i)' /\ FoundedAt(i)'
  BY <1>0, <1>1, <1>2 DEF Inv, TypeOK, DurableAt, FoundedAt
<1>5. \A j \in Instances \ {i} :
         /\ mirror'[j] = mirror[j] /\ stored'[j] = stored[j] /\ answer'[j] = answer[j]
         /\ gathered'[j] = gathered[j] /\ read'[j] = read[j] /\ pc'[j] = pc[j]
  BY <1>0, <1>2 DEF Inv, TypeOK
<1> QED
  BY <1>0, <1>1, <1>3, <1>4, <1>5, OwnStepKeeps

LEMMA SaveFailsKeepsInv ==
    ASSUME Inv, NEW i \in Instances, SaveFails(i)
    PROVE  Inv'
<1>0. UNCHANGED <<today, mirror, cached, day, heard, spent, requests>>
  BY DEF SaveFails
<1>1. /\ row' \in Rows \cup {NoRow} /\ (row # NoRow => row' # NoRow)
      /\ probes' \in [Days -> Readings \cup {"none"}] /\ RecordIsFounded'
  <2>1. CASE Commit(i)
    BY <1>0, <2>1, CommitIsFounded
  <2>2. CASE UNCHANGED <<row, probes>>
    BY <1>0, <2>2, RecordStays DEF Inv, TypeOK
  <2> QED
    BY <2>1, <2>2 DEF SaveFails
<1>2. AnswerUnsaved(i) = Refused \/
         (AnswerUnsaved(i) = stored[i] /\ stored[i] # NoProfile)
  BY DEF AnswerUnsaved
<1>3. /\ AnswerUnsaved(i) \in Profiles \cup {NoProfile, Refused}
      /\ AnswerUnsaved(i) \in Profiles =>
            row' # NoRow /\ RestsOn(AnswerUnsaved(i).marine, heard)
  BY <1>1, <1>2, KindsDiffer DEF Inv, TypeOK, DurableAt, FoundedAt
<1>4. mishaps' \in [Instances -> [Mishaps -> Nat]]
  BY MishapIsCounted DEF SaveFails, Mishaps
<1>5. Returns(i, AnswerUnsaved(i))
  BY DEF SaveFails
<1> QED
  BY <1>0, <1>1, <1>3, <1>4, <1>5, EndKeeps DEF Inv, TypeOK

\* An earlier release's row and probe are a record like any other.
LEMMA InitEstablishesInv == Init => Inv
<1> SUFFICES ASSUME Init PROVE Inv
  OBVIOUS
<1>1. 0 \in Days /\ today \in Days
  <2>1. today = 0
    BY DEF Init
  <2> QED
    BY <2>1, ProfileAssumption DEF Days
<1>2. Unknown \in SnowEvidence /\ Unknown \in MarineEvidence
  BY DEF SnowEvidence, MarineEvidence
<1>3. NothingGathered \in Gatherings /\ NothingGathered.marine = Unknown
  BY <1>2, Zenon DEF NothingGathered, Gatherings
<1>4. /\ row \in Rows \cup {NoRow} /\ probes \in [Days -> Readings \cup {"none"}]
      /\ heard \subseteq [on : Days, for : Days, kind : Answers] /\ RecordIsFounded
  <2>1. CASE row = NoRow /\ probes = [d \in Days |-> "none"] /\ heard = {}
    <3>1. EvidenceFrom(probes) = Unknown
      BY <2>1 DEF EvidenceFrom
    <3> QED
      BY <2>1, <3>1, UnknownRests DEF RecordIsFounded, Readings
  <2>2. CASE /\ row = [kind |-> "row", snow |-> Guess(0), outdated |-> TRUE]
             /\ probes = [d \in Days |-> IF d = 0 THEN "all null" ELSE "none"]
             /\ heard = {[on |-> 0, for |-> 0, kind |-> "all null"]}
    <3>1. row \in Rows
      <4>1. Guess(0) \in SnowEvidence
        BY <1>1 DEF SnowEvidence
      <4> QED
        BY <2>2, <4>1, Zenon DEF Rows
    <3>2. probes \in [Days -> Readings \cup {"none"}]
      BY <2>2 DEF Readings, Answers
    <3>3. heard \subseteq [on : Days, for : Days, kind : Answers]
      <4>1. [on |-> 0, for |-> 0, kind |-> "all null"] \in [on : Days, for : Days, kind : Answers]
        BY <1>1, Zenon DEF Answers
      <4> QED
        BY <2>2, <4>1
    <3>4. /\ EvidenceFrom(probes).known =>
               /\ EvidenceFrom(probes).allNull = {d \in Days : probes[d] = "all null"}
               /\ EvidenceFrom(probes).covered <=> \E d \in Days : probes[d] = "values"
      BY <3>2, EvidenceIsTyped
    <3>5. \A d \in Days : (probes[d] = "all null" => d = 0) /\ probes[d] # "values"
      BY <2>2
    <3>6. \E h \in heard : h.for = 0 /\ h.kind = "all null"
      BY <2>2
    <3> QED
      BY <3>1, <3>2, <3>3, <3>4, <3>5, <3>6 DEF RecordIsFounded, RestsOn
  <2> QED
    BY <2>1, <2>2 DEF Init
<1>5. /\ pc = [i \in Instances |-> "idle"] /\ mirror = [i \in Instances |-> NoProfile]
      /\ stored = [i \in Instances |-> NoProfile] /\ answer = [i \in Instances |-> NoProfile]
      /\ gathered = [i \in Instances |-> NothingGathered]
  BY DEF Init
<1>6. TypeOK
  <2>1. requests \in 0 .. MaxRequests
    <3>1. requests = 0
      BY DEF Init
    <3> QED
      BY <3>1, ProfileAssumption
  <2>2. /\ cached = [i \in Instances |-> NotCached] /\ read = [i \in Instances |-> NoRow]
        /\ day = [i \in Instances |-> 0] /\ spent = [i \in Instances |-> 0]
        /\ mishaps = [i \in Instances |-> NoMishaps]
    BY DEF Init
  <2>3. NoMishaps \in [Mishaps -> Nat]
    BY DEF NoMishaps
  <2> QED
    BY <1>1, <1>3, <1>4, <1>5, <2>1, <2>2, <2>3 DEF TypeOK
<1>7. \A i \in Instances : DurableAt(i)
  BY <1>5, KindsDiffer DEF DurableAt, Waiting
<1>8. \A i \in Instances : FoundedAt(i)
  BY <1>3, <1>5, KindsDiffer, UnknownRests DEF FoundedAt
<1> QED
  BY <1>4, <1>6, <1>7, <1>8 DEF Inv

LEMMA StepKeepsInv == Inv /\ [Next]_vars => Inv'
<1> SUFFICES ASSUME Inv, [Next]_vars PROVE Inv'
  OBVIOUS
<1>1. ASSUME NEW i \in Instances,
             ProfileFor(i) \/ Finding(i) \/ Gathering(i) \/ Saving(i) \/ Restart(i)
      PROVE  Inv'
  BY <1>1, ProfileForKeepsInv, FindRowKeepsInv, FindProbesKeepsInv, FindDegradedKeepsInv,
     UnprofilableKeepsInv, SavePlaceKeepsInv, GatherSnowKeepsInv, ProbeKeepsInv, NoProbeKeepsInv,
     SaveKeepsInv, SaveFailsKeepsInv, ReadBackRowKeepsInv, ReadBackProbesKeepsInv,
     ReadBackFailsKeepsInv, RestartKeepsInv DEF Finding, Gathering, Saving
<1>2. CASE Tick
  BY <1>2, TickKeepsInv
<1>3. CASE UNCHANGED vars
  <2>1. TypeOK'
    BY <1>3 DEF Inv, TypeOK, vars
  <2>2. RecordIsFounded'
    BY <1>3, RecordStays DEF vars
  <2>3. \A j \in Instances : DurableAt(j)' /\ FoundedAt(j)'
    BY <1>3, OthersKeep DEF vars
  <2> QED
    BY <2>1, <2>2, <2>3 DEF Inv
<1> QED
  BY <1>1, <1>2, <1>3 DEF Next

LEMMA InvIsInvariant == Spec => []Inv
<1> QED
  BY InitEstablishesInv, StepKeepsInv, PTL DEF Spec

\* Every variable of the service keeps its type, whatever fails or restarts.
THEOREM ProfileServiceIsTyped == Spec => []TypeOK
<1>1. Inv => TypeOK
  BY DEF Inv
<1> QED
  BY <1>1, InvIsInvariant, PTL

\* Whatever an instance mirrors or answers a profile for is a place the store
\* durably holds (db-profile.store.ts, save and find).
THEOREM KnowledgeIsDurable == Spec => []KnownIsDurable
<1>1. Inv => KnownIsDurable
  BY DEF Inv, DurableAt, KnownIsDurable
<1> QED
  BY <1>1, InvIsInvariant, PTL

\* No fault, race or restart makes an all-null day or coverage that no probe
\* has read (location-profile.ts, recordProbe; profile-rows.ts).
THEOREM EvidenceIsHeard == Spec => []NothingInvented
<1>1. ASSUME NEW e PROVE Rests(e) <=> RestsOn(e, heard)
  BY DEF Rests, RestsOn
<1>2. Inv => NothingInvented
  BY <1>1 DEF Inv, RecordIsFounded, FoundedAt, NothingInvented
<1> QED
  BY <1>2, InvIsInvariant, PTL

----------------------------------------------------------------------------
(***************************************************************************)
(* Coverage is settled: the days that are recorded are never written over. *)
(***************************************************************************)

\* The verdict on the rows is settled when one of them is a day with values.
LEMMA CoveredRows ==
    ASSUME NEW rows \in [Days -> Readings \cup {"none"}]
    PROVE  Verdict(EvidenceFrom(rows)) = "applicable" <=> \E d \in Days : rows[d] = "values"
<1>1. CASE \A d \in Days : rows[d] = "none"
  BY <1>1 DEF EvidenceFrom, Unknown, Verdict
<1>2. CASE ~\A d \in Days : rows[d] = "none"
  <2>1. EvidenceFrom(rows).known
    BY <1>2 DEF EvidenceFrom
  <2>2. EvidenceFrom(rows).covered <=> \E d \in Days : rows[d] = "values"
    BY <2>1, EvidenceIsTyped
  <2> QED
    BY <2>1, <2>2 DEF Verdict
<1> QED
  BY <1>1, <1>2

\* A save, committed or not, keeps every day that is recorded.
LEMMA RecordedDaysStay ==
    ASSUME Inv, [Next]_vars
    PROVE  \A d \in Days : probes[d] # "none" => probes'[d] = probes[d]
<1>1. ASSUME NEW i \in Instances, Commit(i)
      PROVE  \A d \in Days : probes[d] # "none" => probes'[d] = probes[d]
  BY <1>1 DEF Commit, Inserted
<1>2. probes' = probes \/ \E i \in Instances : Commit(i)
  BY DEF Next, vars, Finding, Gathering, Saving, ProfileFor, FindRow, FindProbes, FindDegraded,
     Unprofilable, SavePlace, GatherSnow, Probe, NoProbe, Save, SaveFails, ReadBackRow,
     ReadBackProbes, ReadBackFails, Restart, Tick
<1> QED
  BY <1>1, <1>2

\* "Coverage observed is coverage settled" (location-profile.ts): no instance,
\* however stale what it found, takes back coverage the store records.
THEOREM CoverageStaysSettled == Spec => CoverageIsSettled
<1>1. ASSUME Inv, Inv', [Next]_vars
      PROVE  [Verdict(EvidenceFrom(probes)) = "applicable"
                 => Verdict(EvidenceFrom(probes')) = "applicable"]_probes
  <2>1. /\ probes \in [Days -> Readings \cup {"none"}]
        /\ probes' \in [Days -> Readings \cup {"none"}]
    BY <1>1 DEF Inv, TypeOK
  <2>2. \A d \in Days : probes[d] # "none" => probes'[d] = probes[d]
    BY <1>1, RecordedDaysStay
  <2> QED
    BY <2>1, <2>2, CoveredRows
<1> QED
  BY <1>1, InvIsInvariant, PTL DEF Spec, CoverageIsSettled

----------------------------------------------------------------------------
(***************************************************************************)
(* Pacing.  Once an instance has probed for a day, and neither lost what   *)
(* it found nor been restarted, that day is recorded and in its mirror, or *)
(* about to be in both; and what it finds of the place from then on, in    *)
(* the store or without it, says so, because no day that is recorded is    *)
(* later than today.                                                       *)
(***************************************************************************)
PastOf(e, n) == e.known => e.last <= n /\ \A d \in e.allNull : d <= n

TimelyAt(i) ==
    /\ day[i] <= today
    /\ mirror[i] # NoProfile => PastOf(mirror[i].marine, today)
    /\ stored[i] # NoProfile => PastOf(stored[i].marine, today)
    /\ PastOf(gathered[i].marine, today)

Timely ==
    /\ \A d \in Days : probes[d] # "none" => d <= today
    /\ row = NoRow => \A d \in Days : probes[d] = "none"
    /\ \A i \in Instances : TimelyAt(i)

\* The probe of i for its day is behind it, and nothing of it was lost.
Saves == {"saving", "reading back", "reading back probes"}

MirrorTells(i) ==
    mirror[i] # NoProfile /\ mirror[i].marine.known /\ mirror[i].marine.last >= day[i]

Done(i) ==
    /\ "marineCoverage" \in Declared
    /\ pc[i] # "placing"
    /\ pc[i] # "saving" => probes[day[i]] # "none"
    /\ pc[i] \in Saves => gathered[i].marine.known /\ gathered[i].marine.last = day[i]
    /\ pc[i] \notin Saves => MirrorTells(i)
    /\ pc[i] \in {"snow", "marine"} =>
          StoredMarine(i).known /\ StoredMarine(i).last >= day[i]
    /\ pc[i] = "marine" => StoredMarine(i).last = day[i]

\* What may have cost an instance the evidence of its day.
Losses(i) == mishaps[i]["profile"] + mishaps[i]["restart"]

PacedAt(i) == spent[i] <= Losses(i) \/ (spent[i] = Losses(i) + 1 /\ Done(i))

\* What is read out of the rows is past, and tells of every day that is there.
LEMMA RowsTell ==
    ASSUME Inv, Timely
    PROVE  /\ PastOf(EvidenceFrom(probes), today)
           /\ \A d \in Days : probes[d] # "none" =>
                 EvidenceFrom(probes).known /\ EvidenceFrom(probes).last >= d
<1>1. CASE \A d \in Days : probes[d] = "none"
  BY <1>1 DEF EvidenceFrom, Unknown, PastOf
<1>2. CASE ~\A d \in Days : probes[d] = "none"
  <2> DEFINE S == {d \in Days : probes[d] # "none"}
             nulls == {d \in Days : probes[d] = "all null"}
             covers == \E d \in Days : probes[d] = "values"
  <2>1. Max(S) \in S /\ \A d \in S : Max(S) >= d
    BY <1>2, LastOfDays
  <2>2. EvidenceFrom(probes) =
           [known |-> TRUE, allNull |-> nulls, last |-> Max(S), covered |-> covers]
    BY <1>2 DEF EvidenceFrom
  <2>3. \A d \in S : d <= today
    BY DEF Timely
  <2>4. nulls \subseteq S /\ nulls \in SUBSET Days /\ covers \in BOOLEAN /\ Max(S) \in Days
    BY <2>1
  <2> HIDE DEF S, nulls, covers
  <2>5. /\ EvidenceFrom(probes).known /\ EvidenceFrom(probes).last = Max(S)
        /\ EvidenceFrom(probes).allNull = nulls
    BY <2>2, <2>4, KnownFromParts
  <2> QED
    BY <2>1, <2>3, <2>4, <2>5 DEF PastOf, S
<1> QED
  BY <1>1, <1>2

\* A probe spends its day, whatever it read.
LEMMA ProbeSpendsItsDay ==
    ASSUME NEW e \in MarineEvidence, NEW kind \in Readings, NEW d \in Days, NEW n \in Days,
           d <= n, PastOf(e, n)
    PROVE  /\ RecordProbe(e, kind, d).known /\ RecordProbe(e, kind, d).last = d
           /\ PastOf(RecordProbe(e, kind, d), n)
<1> DEFINE r == RecordProbe(e, kind, d)
<1>0. e = Unknown \/ (e \in Known /\ e.known)
  BY EvidenceIsKnownOrNot, PartsOfKnown
<1>1. CASE kind = "failed" /\ e \in Known /\ e.known
  <2>1. r = [e EXCEPT !.last = d]
    BY <1>1 DEF RecordProbe
  <2>2. [e EXCEPT !.last = d].last = d
    BY <1>1, SMT DEF Known
  <2> HIDE DEF r
  <2>3. r.last = d /\ r.known /\ r.allNull = e.allNull
    BY <1>1, <2>1, <2>2, KnownOnAnotherDay, PartsOfKnown, Zenon
  <2>4. PastOf(r, n)
    BY <1>1, <2>3 DEF PastOf
  <2> QED
    BY <2>3, <2>4 DEF r
<1>2. CASE kind # "failed" \/ e = Unknown
  <2> DEFINE before == IF e.known THEN e.allNull ELSE {}
  <2>1. PICK nulls \in {{}, {d} \cup before}, covers \in BOOLEAN :
           r = [known |-> TRUE, allNull |-> nulls, last |-> d, covered |-> covers]
    <3>1. CASE kind = "failed"
      <4>1. r = [known |-> TRUE, allNull |-> {}, last |-> d, covered |-> FALSE]
        BY <1>2, <3>1 DEF RecordProbe, Unknown
      <4> QED
        BY <4>1, Zenon
    <3>2. CASE kind = "values"
      <4>1. r = [known |-> TRUE, allNull |-> {}, last |-> d, covered |-> TRUE]
        BY <3>2 DEF RecordProbe
      <4> QED
        BY <4>1, Zenon
    <3>3. CASE kind = "all null"
      <4>1. r = [known |-> TRUE, allNull |-> {d} \cup before, last |-> d, covered |-> FALSE]
        BY <3>3 DEF RecordProbe
      <4> QED
        BY <4>1, Zenon
    <3> QED
      BY <3>1, <3>2, <3>3 DEF Readings, Answers
  <2>2. \A a \in nulls : a <= n
    BY DEF PastOf
  <2> HIDE DEF r
  <2>3. r.known /\ r.allNull = nulls /\ r.last = d
    BY <2>1, Zenon
  <2> QED
    BY <2>2, <2>3 DEF PastOf, r
<1> QED
  BY <1>0, <1>1, <1>2

LEMMA ProbeAnswers ==
    ASSUME Inv, NEW i \in Instances, FreshAnswer(i) \/ CachedAnswer(i)
    PROVE  \E kind \in Readings : Offers(i, RecordProbe(StoredMarine(i), kind, day[i]), TRUE)
<1>1. CASE FreshAnswer(i)
  BY <1>1, Zenon DEF FreshAnswer
<1>2. CASE CachedAnswer(i)
  <2>1. cached[i] \in [kind : Answers, on : Days]
    BY <1>2 DEF Inv, TypeOK, CachedAnswer
  <2>2. cached[i].kind \in Readings
    BY <2>1 DEF Readings
  <2> QED
    BY <1>2, <2>2, Zenon DEF CachedAnswer
<1> QED
  BY <1>1, <1>2

LEMMA ProbeIsTyped ==
    ASSUME NEW e \in MarineEvidence, NEW kind \in Readings, NEW d \in Days
    PROVE  RecordProbe(e, kind, d) \in MarineEvidence
<1>0. e = Unknown \/ (e \in Known /\ e.known)
  BY EvidenceIsKnownOrNot, PartsOfKnown
<1>1. CASE kind = "failed" /\ e \in Known /\ e.known
  BY <1>1, KnownOnAnotherDay, EvidenceIsKnownOrNot DEF RecordProbe
<1>2. ASSUME NEW nulls \in SUBSET Days, NEW covers \in BOOLEAN
      PROVE  [known |-> TRUE, allNull |-> nulls, last |-> d, covered |-> covers] \in MarineEvidence
  BY <1>2, KnownFromParts
<1>3. CASE kind = "failed" /\ e = Unknown
  BY <1>2, <1>3 DEF RecordProbe, Unknown
<1>4. CASE kind = "values"
  BY <1>2, <1>4 DEF RecordProbe
<1>5. CASE kind = "all null"
  <2> DEFINE nulls == {d} \cup (IF e.known THEN e.allNull ELSE {})
  <2>1. nulls \in SUBSET Days
    <3>1. e = Unknown => ~e.known
      BY DEF Unknown
    <3>2. e \in Known => e.allNull \in SUBSET Days
      BY PartsOfKnown
    <3> QED
      BY <1>0, <3>1, <3>2
  <2>2. RecordProbe(e, kind, d) =
           [known |-> TRUE, allNull |-> nulls, last |-> d, covered |-> FALSE]
    BY <1>5 DEF RecordProbe
  <2> HIDE DEF nulls
  <2> QED
    BY <1>2, <2>1, <2>2
<1> QED
  BY <1>0, <1>1, <1>3, <1>4, <1>5 DEF Readings, Answers

\* Where what an instance holds of a place, and its day, come from in a step.
MirrorSource(j) ==
    \/ mirror'[j] \in {mirror[j], NoProfile, Offered(j)}
    \/ mirror'[j].marine = EvidenceFrom(probes)

StoredSource(j) ==
    \/ stored'[j] \in {stored[j], NoProfile, mirror[j]}
    \/ stored'[j].marine = EvidenceFrom(probes)

GatheredSource(j) ==
    \/ gathered'[j].marine \in {gathered[j].marine, Unknown, StoredMarine(j)}
    \/ \E kind \in Readings : gathered'[j].marine = RecordProbe(StoredMarine(j), kind, day[j])

Sources(j) ==
    /\ MirrorSource(j) /\ StoredSource(j) /\ GatheredSource(j)
    /\ day'[j] \in {day[j], today}

LEMMA ReturnSources ==
    ASSUME Inv, NEW i \in Instances, NEW given, Returns(i, given), NEW j \in Instances,
           MirrorSource(j), day' = day
    PROVE  Sources(j)
<1>1. NothingGathered.marine = Unknown
  BY Zenon DEF NothingGathered
<1> QED
  BY <1>1 DEF Inv, TypeOK, Returns, Sources, StoredSource, GatheredSource

LEMMA OfferedMarine ==
    ASSUME Inv, NEW i \in Instances, NEW e \in MarineEvidence, NEW changed \in BOOLEAN,
           Offers(i, e, changed), NEW j \in Instances
    PROVE  gathered'[j].marine = IF i = j THEN e ELSE gathered[j].marine
<1>1. PICK g \in Gatherings : gathered' = [gathered EXCEPT ![i] = g] /\ g.marine = e
  BY OffersGathers
<1>2. gathered'[j] = IF i = j THEN g ELSE gathered[j]
  BY <1>1 DEF Inv, TypeOK
<1> QED
  BY <1>1, <1>2

LEMMA StepSources ==
    ASSUME Inv, NEW i \in Instances, NEW j \in Instances,
           ProfileFor(i) \/ Finding(i) \/ Gathering(i) \/ Saving(i) \/ Restart(i)
    PROVE  Sources(j)
<1>0. \A r : ProfileFrom(r, probes).marine = EvidenceFrom(probes)
  BY DEF ProfileFrom
<1>1. CASE ProfileFor(i) \/ SavePlace(i) \/ Save(i) \/ ReadBackRow(i)
  BY <1>1 DEF ProfileFor, SavePlace, Save, ReadBackRow, Sources, MirrorSource, StoredSource,
     GatheredSource
<1>2. CASE FindRow(i)
  BY <1>2 DEF Inv, TypeOK, FindRow, Found, Sources, MirrorSource, StoredSource, GatheredSource
<1>3. CASE FindProbes(i)
  <2> DEFINE found == ProfileFrom(read[i], probes)
  <2>1. /\ mirror' = [mirror EXCEPT ![i] = found] /\ stored' = [stored EXCEPT ![i] = found]
        /\ UNCHANGED <<day, gathered>>
    BY <1>3 DEF FindProbes, Found
  <2>2. found.marine = EvidenceFrom(probes)
    BY <1>0
  <2> HIDE DEF found
  <2> QED
    BY <2>1, <2>2 DEF Inv, TypeOK, Sources, MirrorSource, StoredSource, GatheredSource
<1>4. CASE FindDegraded(i)
  BY <1>4 DEF Inv, TypeOK, FindDegraded, Found, Sources, MirrorSource, StoredSource, GatheredSource
<1>5. CASE Unprofilable(i)
  BY <1>5, ReturnSources DEF Unprofilable, MirrorSource
<1>6. CASE GatherSnow(i)
  <2>1. gathered'[j].marine = gathered[j].marine
    BY <1>6, SnowLeavesMarine DEF Inv, TypeOK
  <2>2. /\ day' = [day EXCEPT ![i] = today] /\ UNCHANGED <<mirror, stored>>
    BY <1>6 DEF GatherSnow
  <2> QED
    BY <2>1, <2>2 DEF Inv, TypeOK, Sources, MirrorSource, StoredSource, GatheredSource
<1>7. CASE Probe(i)
  <2>1. PICK kind \in Readings : Offers(i, RecordProbe(StoredMarine(i), kind, day[i]), TRUE)
    BY <1>7, ProbeAnswers DEF Probe
  <2> DEFINE e == RecordProbe(StoredMarine(i), kind, day[i])
  <2>2. e \in MarineEvidence /\ Offers(i, e, TRUE)
    BY <2>1, StoredIsFounded, ProbeIsTyped DEF Inv, TypeOK
  <2> HIDE DEF e
  <2>3. gathered'[j].marine = IF i = j THEN e ELSE gathered[j].marine
    BY <2>2, OfferedMarine
  <2>4. UNCHANGED <<mirror, stored, day>>
    BY <1>7 DEF Probe
  <2> QED
    BY <2>3, <2>4 DEF e, Sources, MirrorSource, StoredSource, GatheredSource
<1>8. CASE NoProbe(i)
  <2> DEFINE dropped == "marineCoverage" \notin Declared /\ StoredMarine(i).known
             kept == IF dropped THEN Unknown ELSE StoredMarine(i)
  <2>0. UNCHANGED <<mirror, day>>
    BY <1>8 DEF NoProbe
  <2>1. CASE Returns(i, stored[i])
    BY <2>0, <2>1, ReturnSources DEF MirrorSource
  <2>2. CASE Offers(i, kept, dropped) /\ UNCHANGED stored
    <3>1. kept \in MarineEvidence /\ kept \in {Unknown, StoredMarine(i)}
      BY StoredIsFounded DEF MarineEvidence
    <3>2. dropped \in BOOLEAN
      OBVIOUS
    <3> HIDE DEF kept, dropped
    <3>3. gathered'[j].marine = IF i = j THEN kept ELSE gathered[j].marine
      BY <2>2, <3>1, <3>2, OfferedMarine
    <3> QED
      BY <2>0, <2>2, <3>1, <3>3 DEF Sources, MirrorSource, StoredSource, GatheredSource
  <2> QED
    BY <1>8, <2>1, <2>2 DEF NoProbe
<1>9. CASE SaveFails(i)
  BY <1>9, ReturnSources DEF SaveFails, MirrorSource
<1>10. CASE ReadBackProbes(i)
  <2> DEFINE recorded == ProfileFrom(read[i], probes)
  <2>1. mirror' = [mirror EXCEPT ![i] = recorded] /\ day' = day /\ Returns(i, Offered(i))
    BY <1>10 DEF ReadBackProbes
  <2>2. recorded.marine = EvidenceFrom(probes)
    BY <1>0
  <2> HIDE DEF recorded
  <2>3. MirrorSource(j)
    BY <2>1, <2>2 DEF Inv, TypeOK, MirrorSource
  <2> QED
    BY <2>1, <2>3, ReturnSources
<1>11. CASE ReadBackFails(i)
  <2>1. mirror' = [mirror EXCEPT ![i] = Offered(i)] /\ day' = day /\ Returns(i, Offered(i))
    BY <1>11 DEF ReadBackFails
  <2>2. MirrorSource(j)
    BY <2>1 DEF Inv, TypeOK, MirrorSource
  <2> QED
    BY <2>1, <2>2, ReturnSources
<1>12. CASE Restart(i)
  <2>1. mirror' = [mirror EXCEPT ![i] = NoProfile] /\ day' = day /\ Returns(i, NoProfile)
    BY <1>12 DEF Restart
  <2>2. MirrorSource(j)
    BY <2>1 DEF Inv, TypeOK, MirrorSource
  <2> QED
    BY <2>1, <2>2, ReturnSources
<1> QED
  BY <1>1, <1>2, <1>3, <1>4, <1>5, <1>6, <1>7, <1>8, <1>9, <1>10, <1>11, <1>12
     DEF Finding, Gathering, Saving

LEMMA PastStays ==
    ASSUME NEW e \in MarineEvidence, NEW n \in Days, NEW m \in Days, n <= m, PastOf(e, n)
    PROVE  PastOf(e, m)
<1>1. e = Unknown \/ (e \in Known /\ e.last \in Days /\ e.allNull \in SUBSET Days)
  BY EvidenceIsKnownOrNot, PartsOfKnown
<1>2. \A d \in Days : d <= n => d <= m
  BY DEF Days
<1>3. CASE e = Unknown
  BY <1>3 DEF PastOf, Unknown
<1>4. CASE e \in Known /\ e.last \in Days /\ e.allNull \in SUBSET Days
  <2>1. SUFFICES ASSUME e.known PROVE e.last <= m /\ \A d \in e.allNull : d <= m
    BY DEF PastOf
  <2>2. e.last <= n /\ \A d \in e.allNull : d <= n
    BY <2>1 DEF PastOf
  <2> QED
    BY <1>2, <1>4, <2>2, Zenon
<1> QED
  BY <1>1, <1>3, <1>4

LEMMA RowsChangeByCommit ==
    ASSUME [Next]_vars
    PROVE  UNCHANGED <<row, probes>> \/ \E i \in Instances : Commit(i)
<1>1. ASSUME NEW i \in Instances, ProfileFor(i) \/ Finding(i) \/ Restart(i)
      PROVE  UNCHANGED <<row, probes>>
  BY <1>1 DEF ProfileFor, Finding, FindRow, FindProbes, FindDegraded, Unprofilable, SavePlace,
              Restart
<1>2. ASSUME NEW i \in Instances, Gathering(i) PROVE UNCHANGED <<row, probes>>
  BY <1>2 DEF Gathering, GatherSnow, Probe, NoProbe
<1>3. ASSUME NEW i \in Instances, Saving(i) PROVE UNCHANGED <<row, probes>> \/ Commit(i)
  BY <1>3 DEF Saving, Save, SaveFails, ReadBackRow, ReadBackProbes, ReadBackFails
<1>4. CASE Tick \/ UNCHANGED vars
  BY <1>4 DEF Tick, vars
<1> QED
  BY <1>1, <1>2, <1>3, <1>4 DEF Next

LEMMA DaysGoOn ==
    ASSUME Inv, Inv', [Next]_vars
    PROVE  today \in Days /\ today' \in Days /\ today <= today'
<1>1. today \in Days /\ today' \in Days
  BY DEF Inv, TypeOK
<1>2. today' = today \/ today' = today + 1
  BY DEF Next, vars, Finding, Gathering, Saving, ProfileFor, FindRow, FindProbes, FindDegraded,
     Unprofilable, SavePlace, GatherSnow, Probe, NoProbe, Save, SaveFails, ReadBackRow,
     ReadBackProbes, ReadBackFails, Restart, Tick
<1> QED
  BY <1>1, <1>2 DEF Days

\* Nothing that is known is of a day to come.
LEMMA StepKeepsTimely ==
    ASSUME Inv, Inv', Timely, [Next]_vars
    PROVE  Timely'
<1>1. today \in Days /\ today' \in Days /\ today <= today' /\ Days \subseteq Int
  BY DaysGoOn DEF Days
<1>2. ASSUME NEW d \in Days, probes'[d] # "none" PROVE d <= today
  <2>1. CASE probes' = probes
    BY <1>2, <2>1 DEF Timely
  <2>2. ASSUME NEW i \in Instances, Commit(i) PROVE d <= today
    <3> DEFINE e == gathered[i].marine
    <3>1. probes'[d] = IF probes[d] = "none" THEN Implied(e, d) ELSE probes[d]
      BY <2>2 DEF Commit, Inserted
    <3>2. PastOf(e, today)
      BY DEF Timely, TimelyAt
    <3> HIDE DEF e
    <3>3. Implied(e, d) # "none" => e.known /\ (d \in e.allNull \/ d = e.last)
      BY DEF Implied
    <3> QED
      BY <1>2, <3>1, <3>2, <3>3 DEF Timely, PastOf
  <2> QED
    BY <2>1, <2>2, RowsChangeByCommit
<1>3. row' = NoRow => \A d \in Days : probes'[d] = "none"
  <2>1. ASSUME NEW i \in Instances, Commit(i) PROVE row' # NoRow
    BY <2>1 DEF Commit, NoRow
  <2> QED
    BY <2>1, RowsChangeByCommit DEF Timely
<1>4. ASSUME NEW j \in Instances PROVE TimelyAt(j)'
  <2>1. CASE UNCHANGED <<mirror, stored, day, gathered>>
    <3>1. /\ mirror[j] # NoProfile => mirror[j].marine \in MarineEvidence
          /\ stored[j] # NoProfile => stored[j].marine \in MarineEvidence
          /\ gathered[j].marine \in MarineEvidence
      BY PartsOfProfile, PartsOfGathering DEF Inv, TypeOK
    <3>2. day[j] \in Int
      BY <1>1 DEF Inv, TypeOK
    <3> QED
      BY <1>1, <2>1, <3>1, <3>2, PastStays DEF Timely, TimelyAt
  <2>2. ASSUME NEW i \in Instances,
               ProfileFor(i) \/ Finding(i) \/ Gathering(i) \/ Saving(i) \/ Restart(i)
        PROVE  TimelyAt(j)'
    <3>1. Sources(j)
      BY <2>2, StepSources
    <3>2. today' = today
      BY <2>2 DEF Finding, Gathering, Saving, ProfileFor, FindRow, FindProbes, FindDegraded,
         Unprofilable, SavePlace, GatherSnow, Probe, NoProbe, Save, SaveFails, ReadBackRow,
         ReadBackProbes, ReadBackFails, Restart
    <3>3. PastOf(EvidenceFrom(probes), today) /\ PastOf(Unknown, today)
      BY RowsTell DEF PastOf, Unknown
    <3>4. day'[j] <= today
      BY <1>1, <3>1 DEF Sources, Timely, TimelyAt
    <3>5. Offered(j).marine = gathered[j].marine
      BY DEF Offered
    <3>6. PastOf(StoredMarine(j), today)
      BY <3>3 DEF StoredMarine, Timely, TimelyAt
    <3>7. mirror'[j] # NoProfile => PastOf(mirror'[j].marine, today)
      BY <3>1, <3>3, <3>5 DEF Sources, MirrorSource, Timely, TimelyAt
    <3>8. stored'[j] # NoProfile => PastOf(stored'[j].marine, today)
      BY <3>1, <3>3 DEF Sources, StoredSource, Timely, TimelyAt
    <3>9. PastOf(gathered'[j].marine, today)
      <4>1. ASSUME NEW kind \in Readings
            PROVE  PastOf(RecordProbe(StoredMarine(j), kind, day[j]), today)
        <5>1. StoredMarine(j) \in MarineEvidence /\ day[j] \in Days /\ day[j] <= today
          BY StoredIsFounded DEF Inv, TypeOK, Timely, TimelyAt
        <5> QED
          BY <1>1, <3>6, <5>1, ProbeSpendsItsDay
      <4> QED
        BY <3>1, <3>3, <3>6, <4>1 DEF Sources, GatheredSource, Timely, TimelyAt
    <3> QED
      BY <3>2, <3>4, <3>7, <3>8, <3>9 DEF TimelyAt
  <2> QED
    BY <2>1, <2>2 DEF Next, Tick, vars
<1> QED
  BY <1>1, <1>2, <1>3, <1>4 DEF Timely

\* A step of i leaves what another instance does its pacing with alone.
SameFor(j) ==
    /\ pc'[j] = pc[j] /\ stored'[j] = stored[j] /\ gathered'[j] = gathered[j]
    /\ day'[j] = day[j] /\ spent'[j] = spent[j] /\ mishaps'[j] = mishaps[j]
    /\ mirror'[j] = mirror[j]

\* A failure of a read or of a place counts for nothing.
LEMMA MishapOfOne ==
    ASSUME Inv, NEW i \in Instances, NEW kind \in Mishaps, Mishap(i, kind)
    PROVE  /\ Losses(i) \in Nat
           /\ Losses(i)' = IF kind = "store" THEN Losses(i) ELSE Losses(i) + 1
           /\ \A j \in Instances \ {i} : mishaps'[j] = mishaps[j]
<1>1. mishaps' = [mishaps EXCEPT ![i][kind] = @ + 1]
  BY Zenon DEF Mishap
<1>2. mishaps \in [Instances -> [Mishaps -> Nat]]
  BY DEF Inv, TypeOK
<1>3. \A k \in Mishaps : /\ mishaps[i][k] \in Nat
                         /\ mishaps'[i][k] = IF k = kind THEN mishaps[i][k] + 1 ELSE mishaps[i][k]
  BY <1>1, <1>2
<1>4. \A j \in Instances \ {i} : mishaps'[j] = mishaps[j]
  BY <1>1, <1>2
<1>5. {"profile", "restart"} \subseteq Mishaps /\ kind \in {"store", "profile", "restart"}
  BY DEF Mishaps
<1> QED
  BY <1>3, <1>4, <1>5 DEF Losses

LEMMA OthersAreLeftAlone ==
    ASSUME Inv, NEW i \in Instances, NEW j \in Instances \ {i},
           ProfileFor(i) \/ Finding(i) \/ Gathering(i) \/ Saving(i) \/ Restart(i)
    PROVE  SameFor(j)
<1>1. CASE ProfileFor(i) \/ FindRow(i) \/ FindProbes(i) \/ SavePlace(i)
  BY <1>1 DEF Inv, TypeOK, ProfileFor, FindRow, FindProbes, SavePlace, Found, Moves, SameFor
<1>2. CASE FindDegraded(i)
  <2>1. mishaps'[j] = mishaps[j]
    BY <1>2, MishapOfOne DEF FindDegraded, Mishaps
  <2> QED
    BY <1>2, <2>1 DEF Inv, TypeOK, FindDegraded, Found, Moves, SameFor
<1>3. ASSUME NEW given, Returns(i, given)
      PROVE  pc'[j] = pc[j] /\ stored'[j] = stored[j] /\ gathered'[j] = gathered[j]
  BY <1>3 DEF Inv, TypeOK, Returns, Moves
<1>4. CASE Unprofilable(i) \/ SaveFails(i) \/ ReadBackFails(i) \/ Restart(i)
  <2>1. mishaps'[j] = mishaps[j]
    BY <1>4, MishapOfOne DEF Unprofilable, SaveFails, ReadBackFails, Restart, Mishaps
  <2>2. mirror'[j] = mirror[j]
    BY <1>4 DEF Inv, TypeOK, Unprofilable, SaveFails, ReadBackFails, Restart
  <2> QED
    BY <1>3, <1>4, <2>1, <2>2 DEF Unprofilable, SaveFails, ReadBackFails, Restart, SameFor
<1>5. CASE ReadBackProbes(i)
  BY <1>3, <1>5 DEF Inv, TypeOK, ReadBackProbes, SameFor
<1>6. CASE Save(i) \/ ReadBackRow(i)
  BY <1>6 DEF Inv, TypeOK, Save, ReadBackRow, Moves, SameFor
<1>7. CASE GatherSnow(i)
  BY <1>7, SnowLeavesMarine DEF Inv, TypeOK, GatherSnow, Moves, SameFor
<1>8. CASE Probe(i)
  <2>1. \E g : gathered' = [gathered EXCEPT ![i] = g]
    BY <1>8, FreshAnswerGathers, CachedAnswerGathers DEF Probe
  <2> QED
    BY <1>8, <2>1 DEF Inv, TypeOK, Probe, Moves, SameFor
<1>9. CASE NoProbe(i)
  <2>1. ASSUME NEW e, NEW changed, Offers(i, e, changed)
        PROVE  gathered'[j] = gathered[j]
    BY <2>1 DEF Inv, TypeOK, Offers
  <2> QED
    BY <1>3, <1>9, <2>1 DEF Inv, TypeOK, NoProbe, Moves, SameFor
<1> QED
  BY <1>1, <1>2, <1>4, <1>5, <1>6, <1>7, <1>8, <1>9 DEF Finding, Gathering, Saving

\* A day that is recorded stays recorded, so an instance that is left alone
\* stays paced.
LEMMA OthersStayPaced ==
    ASSUME Inv, [Next]_vars, NEW j \in Instances, SameFor(j), PacedAt(j)
    PROVE  PacedAt(j)'
<1>1. day[j] \in Days
  BY DEF Inv, TypeOK
<1>2. probes[day[j]] # "none" => probes'[day[j]] # "none"
  BY <1>1, RecordedDaysStay
<1> QED
  BY <1>2 DEF PacedAt, Losses, Done, MirrorTells, SameFor, StoredMarine

\* What is lost in a save, or by a restart, allows one more probe.
LEMMA MishapPaces ==
    ASSUME Inv, NEW i \in Instances, NEW kind \in {"profile", "restart"}, Mishap(i, kind),
           spent' = spent, PacedAt(i)
    PROVE  PacedAt(i)'
<1>1. spent[i] \in Nat /\ spent'[i] = spent[i]
  BY DEF Inv, TypeOK
<1>2. Losses(i) \in Nat /\ Losses(i)' = Losses(i) + 1
  BY MishapOfOne DEF Mishaps
<1> QED
  BY <1>1, <1>2 DEF PacedAt

\* Any other step of its own keeps an instance paced that keeps it done.
LEMMA DonePaces ==
    ASSUME NEW i \in Instances, spent'[i] = spent[i], Losses(i)' = Losses(i),
           Done(i) => Done(i)', PacedAt(i)
    PROVE  PacedAt(i)'
BY DEF PacedAt

\* An instance whose day is recorded finds it: it probes for it no more.
LEMMA OwnStepPaces ==
    ASSUME Inv, Inv', Timely, [Next]_vars, NEW i \in Instances, PacedAt(i),
           ProfileFor(i) \/ Finding(i) \/ Gathering(i) \/ Saving(i) \/ Restart(i)
    PROVE  PacedAt(i)'
<1>0. /\ spent[i] \in Nat /\ Losses(i) \in Nat /\ day[i] \in Days
      /\ today \in Days /\ Days \subseteq Int
  <2>1. Days \subseteq Int
    BY DEF Days
  <2>2. spent[i] \in Nat /\ day[i] \in Days /\ today \in Days
    BY DEF Inv, TypeOK
  <2>3. mishaps \in [Instances -> [Mishaps -> Nat]]
    BY DEF Inv, TypeOK
  <2>4. \A kind \in Mishaps : mishaps[i][kind] \in Nat
    BY <2>3
  <2>5. Losses(i) \in Nat
    BY <2>4 DEF Losses, Mishaps
  <2> QED
    BY <2>1, <2>2, <2>5
<1>1. CASE SaveFails(i) \/ Restart(i)
  BY <1>1, MishapPaces DEF SaveFails, Restart
<1>11. CASE FindDegraded(i)
  <2>1. /\ pc[i] \in {"finding", "finding probes"} /\ stored' = [stored EXCEPT ![i] = mirror[i]]
        /\ pc' = [pc EXCEPT ![i] = IF mirror[i] = NoProfile THEN "placing" ELSE "snow"]
        /\ UNCHANGED <<mirror, day, probes, gathered, spent>>
    BY <1>11 DEF FindDegraded, Found, Moves
  <2>2. Losses(i)' = Losses(i)
    BY <1>11, MishapOfOne DEF FindDegraded, Mishaps
  <2>3. mirror[i] # NoProfile => /\ pc'[i] = "snow" /\ stored'[i] = mirror[i]
                                 /\ StoredMarine(i)' = mirror[i].marine
    BY <2>1 DEF Inv, TypeOK, StoredMarine
  <2>4. Done(i) => Done(i)'
    BY <2>1, <2>3 DEF Done, MirrorTells, Saves
  <2> QED
    BY <2>1, <2>2, <2>4, DonePaces
<1>12. CASE Unprofilable(i)
  <2>1. /\ pc[i] \in {"finding", "finding probes", "placing"} /\ pc'[i] = "idle"
        /\ UNCHANGED <<mirror, day, probes, spent>>
    BY <1>12 DEF Inv, TypeOK, Unprofilable, Returns, Moves
  <2>2. Losses(i)' = Losses(i)
    BY <1>12, MishapOfOne DEF Unprofilable, Mishaps
  <2>3. Done(i) => Done(i)'
    <3>1. MirrorTells(i)' <=> MirrorTells(i)
      BY <2>1 DEF MirrorTells
    <3> QED
      BY <2>1, <3>1 DEF Done, Saves
  <2> QED
    BY <2>1, <2>2, <2>3, DonePaces
<1>13. CASE ReadBackFails(i)
  <2>1. /\ pc[i] \in {"reading back", "reading back probes"} /\ pc'[i] = "idle"
        /\ mirror'[i] = Offered(i) /\ UNCHANGED <<day, probes, spent>>
    BY <1>13 DEF Inv, TypeOK, ReadBackFails, Returns, Moves
  <2>2. Losses(i)' = Losses(i)
    BY <1>13, MishapOfOne DEF ReadBackFails, Mishaps
  <2>3. Offered(i) # NoProfile /\ Offered(i).marine = gathered[i].marine
    BY DEF Offered, NoProfile
  <2>4. ASSUME Done(i) PROVE Done(i)'
    <3>1. gathered[i].marine.known /\ gathered[i].marine.last = day[i]
      BY <2>1, <2>4 DEF Done, Saves
    <3>2. MirrorTells(i)'
      <4>1. mirror'[i] = Offered(i) /\ day'[i] = day[i]
        BY <2>1
      <4>2. mirror'[i] # NoProfile /\ mirror'[i].marine = gathered[i].marine
        BY <2>3, <4>1
      <4>3. mirror'[i].marine.known
        BY <3>1, <4>2
      <4>4. mirror'[i].marine.last = day'[i] /\ day'[i] \in Int
        BY <1>0, <3>1, <4>1, <4>2
      <4> QED
        BY <4>2, <4>3, <4>4 DEF MirrorTells
    <3> QED
      BY <2>1, <2>4, <3>2 DEF Done, Saves
  <2> QED
    BY <2>1, <2>2, <2>4, DonePaces
<1>2. CASE ProfileFor(i) \/ ReadBackRow(i)
  BY <1>2 DEF Inv, TypeOK, ProfileFor, ReadBackRow, Moves, PacedAt, Losses, Done, MirrorTells, Saves,
     StoredMarine
<1>3. CASE FindRow(i)
  <2>1. row = NoRow => probes[day[i]] = "none"
    BY <1>0 DEF Timely
  <2> QED
    BY <1>3, <2>1 DEF Inv, TypeOK, FindRow, Found, Moves, PacedAt, Losses, Done, MirrorTells, Saves,
       StoredMarine
<1>4. CASE FindProbes(i)
  <2> DEFINE found == ProfileFrom(read[i], probes)
  <2>1. found \in Profiles /\ found # NoProfile
    BY <1>4, ProfileOfRows, KindsDiffer DEF Inv, DurableAt, FindProbes
  <2>2. found.marine = EvidenceFrom(probes)
    BY DEF ProfileFrom
  <2>3. /\ stored' = [stored EXCEPT ![i] = found] /\ pc' = [pc EXCEPT ![i] = "snow"]
        /\ mirror' = [mirror EXCEPT ![i] = found]
        /\ UNCHANGED <<day, probes, gathered, spent, mishaps>> /\ pc[i] = "finding probes"
    BY <1>4, <2>1 DEF FindProbes, Found, Moves
  <2> HIDE DEF found
  <2>4. StoredMarine(i)' = EvidenceFrom(probes)
    BY <2>1, <2>2, <2>3 DEF Inv, TypeOK, StoredMarine
  <2>5. probes[day[i]] # "none" =>
           EvidenceFrom(probes).known /\ EvidenceFrom(probes).last >= day[i]
    BY <1>0, RowsTell
  <2>6. mirror'[i] = found /\ pc'[i] = "snow"
    BY <2>3 DEF Inv, TypeOK
  <2>7. Done(i) => Done(i)'
    BY <2>1, <2>2, <2>3, <2>4, <2>5, <2>6 DEF Done, MirrorTells, Saves
  <2>8. Losses(i)' = Losses(i)
    BY <2>3 DEF Losses
  <2> QED
    BY <2>3, <2>7, <2>8, DonePaces
<1>5. CASE SavePlace(i)
  BY <1>5 DEF Inv, TypeOK, SavePlace, Moves, PacedAt, Losses, Done
<1>6. CASE GatherSnow(i)
  <2>1. /\ pc[i] = "snow" /\ pc' = [pc EXCEPT ![i] = "marine"]
        /\ day' = [day EXCEPT ![i] = today] /\ UNCHANGED <<stored, probes, mirror>>
    BY <1>6 DEF GatherSnow, Moves
  <2>2. CASE day[i] = today
    <3>1. UNCHANGED <<spent, mishaps>> /\ day'[i] = day[i] /\ pc'[i] = "marine"
      BY <1>6, <2>1, <2>2 DEF GatherSnow, Inv, TypeOK
    <3>2. StoredMarine(i)' = StoredMarine(i)
      BY <2>1 DEF StoredMarine
    <3>3. PastOf(StoredMarine(i), today)
      BY DEF StoredMarine, Timely, TimelyAt, PastOf, Unknown
    <3>4. StoredMarine(i).known /\ StoredMarine(i).last >= day[i] =>
             StoredMarine(i).last = day[i]
      <4> SUFFICES ASSUME StoredMarine(i).known, StoredMarine(i).last >= day[i]
                   PROVE  StoredMarine(i).last = day[i]
        OBVIOUS
      <4>1. StoredMarine(i) = Unknown \/ StoredMarine(i).last \in Days
        BY StoredIsFounded, EvidenceIsKnownOrNot, PartsOfKnown
      <4>2. StoredMarine(i).last \in Days
        BY <4>1 DEF Unknown
      <4>3. StoredMarine(i).last <= today
        BY <3>3 DEF PastOf
      <4>4. StoredMarine(i).last >= today
        BY <2>2
      <4>5. StoredMarine(i).last \in Int /\ today \in Int
        BY <1>0, <4>2
      <4>6. StoredMarine(i).last = today
        <5> DEFINE last == StoredMarine(i).last
        <5>1. last \in Int /\ today \in Int /\ last <= today /\ last >= today
          BY <4>3, <4>4, <4>5
        <5> HIDE DEF last
        <5>2. last = today
          BY <5>1
        <5> QED
          BY <5>2 DEF last
      <4> QED
        BY <2>2, <4>6
    <3> QED
      BY <1>0, <2>1, <3>1, <3>2, <3>4 DEF PacedAt, Losses, Done, MirrorTells, Saves
  <2>3. CASE day[i] # today
    <3>1. spent' = [spent EXCEPT ![i] = 0] /\ mishaps' = [mishaps EXCEPT ![i] = NoMishaps]
      BY <1>6, <2>3 DEF GatherSnow
    <3>2. spent'[i] = 0
      BY <3>1 DEF Inv, TypeOK
    <3>3. mishaps'[i] = NoMishaps
      BY <3>1 DEF Inv, TypeOK
    <3>4. Losses(i)' = 0
      BY <3>3 DEF Losses, NoMishaps, Mishaps
    <3> QED
      BY <3>2, <3>4 DEF PacedAt
  <2> QED
    BY <2>2, <2>3
<1>7. CASE Probe(i)
  <2>1. /\ pc[i] = "marine" /\ NeedsProbe(StoredMarine(i), day[i])
        /\ UNCHANGED <<stored, day, probes, mishaps>>
        /\ spent' = [spent EXCEPT ![i] = @ + 1] /\ pc' = [pc EXCEPT ![i] = "saving"]
        /\ "marineCoverage" \in Declared
    BY <1>7 DEF Probe, Moves
  <2>2. spent[i] <= Losses(i)
    BY <2>1 DEF PacedAt, Done, NeedsProbe
  <2>3. PICK kind \in Readings : Offers(i, RecordProbe(StoredMarine(i), kind, day[i]), TRUE)
    BY <1>7, ProbeAnswers DEF Probe
  <2> DEFINE e == RecordProbe(StoredMarine(i), kind, day[i])
  <2>4. e \in MarineEvidence /\ Offers(i, e, TRUE)
    BY <2>3, StoredIsFounded, ProbeIsTyped DEF Inv, TypeOK
  <2>5. e.known /\ e.last = day[i]
    <3>1. PastOf(StoredMarine(i), today) /\ day[i] <= today
      BY DEF StoredMarine, Timely, TimelyAt, PastOf, Unknown
    <3> QED
      BY <1>0, <3>1, StoredIsFounded, ProbeSpendsItsDay
  <2> HIDE DEF e
  <2>6. gathered'[i].marine = e
    BY <2>4, OfferedMarine
  <2>7. spent'[i] = spent[i] + 1 /\ pc'[i] = "saving"
    <3>1. /\ spent \in [Instances -> Nat] /\ DOMAIN pc = Instances
      BY DEF Inv, TypeOK
    <3> QED
      BY <2>1, <3>1
  <2> QED
    <3>1. Losses(i)' = Losses(i)
      BY <2>1 DEF Losses
    <3>2. Done(i)'
      BY <2>1, <2>5, <2>6, <2>7 DEF Done, Saves
    <3> QED
      BY <1>0, <2>2, <2>7, <3>1, <3>2 DEF PacedAt
<1>8. CASE NoProbe(i)
  <2> DEFINE dropped == "marineCoverage" \notin Declared /\ StoredMarine(i).known
             kept == IF dropped THEN Unknown ELSE StoredMarine(i)
  <2>1. pc[i] = "marine" /\ UNCHANGED <<probes, day, spent, mishaps, mirror>>
    BY <1>8 DEF NoProbe
  <2>2. CASE Returns(i, stored[i])
    <3>1. pc'[i] = "idle"
      BY <2>2 DEF Inv, TypeOK, Returns, Moves
    <3> QED
      BY <2>1, <3>1 DEF PacedAt, Losses, Done, MirrorTells, Saves
  <2>3. CASE Offers(i, kept, dropped) /\ Moves(i, "saving")
    <3>1. kept \in MarineEvidence
      BY StoredIsFounded DEF MarineEvidence
    <3>2. dropped \in BOOLEAN /\ ("marineCoverage" \in Declared => kept = StoredMarine(i))
      OBVIOUS
    <3> HIDE DEF kept, dropped
    <3>3. gathered'[i].marine = kept
      BY <2>3, <3>1, <3>2, OfferedMarine
    <3>4. pc'[i] = "saving"
      BY <2>3 DEF Inv, TypeOK, Moves
    <3> QED
      BY <2>1, <3>2, <3>3, <3>4 DEF PacedAt, Losses, Done, Saves
  <2> QED
    BY <1>8, <2>2, <2>3 DEF NoProbe
<1>9. CASE Save(i)
  <2> DEFINE e == gathered[i].marine
  <2>1. /\ probes' = Inserted(e) /\ UNCHANGED <<day, spent, mishaps, gathered>>
        /\ pc'[i] = "reading back" /\ pc[i] = "saving"
    BY <1>9 DEF Inv, TypeOK, Save, Commit, Moves
  <2>2. probes'[day[i]] = IF probes[day[i]] = "none" THEN Implied(e, day[i]) ELSE probes[day[i]]
    BY <1>0, <2>1 DEF Inserted
  <2>3. e.known /\ e.last = day[i] => Implied(e, day[i]) # "none"
    BY DEF Implied
  <2> QED
    BY <2>1, <2>2, <2>3 DEF PacedAt, Losses, Done, Saves
<1>10. CASE ReadBackProbes(i)
  <2>1. /\ pc[i] = "reading back probes" /\ UNCHANGED <<probes, day, spent, mishaps>>
        /\ pc'[i] = "idle" /\ mirror'[i] = ProfileFrom(read[i], probes)
    BY <1>10 DEF Inv, TypeOK, ReadBackProbes, Returns, Moves
  <2>2. /\ ProfileFrom(read[i], probes) # NoProfile
        /\ ProfileFrom(read[i], probes).marine = EvidenceFrom(probes)
    BY DEF ProfileFrom, NoProfile
  <2>3. probes[day[i]] # "none" =>
           EvidenceFrom(probes).known /\ EvidenceFrom(probes).last >= day[i]
    BY <1>0, RowsTell
  <2> QED
    BY <2>1, <2>2, <2>3 DEF PacedAt, Losses, Done, MirrorTells, Saves
<1> QED
  BY <1>1, <1>2, <1>3, <1>4, <1>5, <1>6, <1>7, <1>8, <1>9, <1>10, <1>11, <1>12, <1>13
     DEF Finding, Gathering, Saving

\* "At most once a day" (location-profile.ts:229-233): each further probe for a day
\* takes a failed transaction with what was found, or a restart, on that day; no
\* other failure of the store costs one, nor does a source that fails.
THEOREM ProbesStayPaced == Spec => []ProbesArePaced
<1> DEFINE Paces == Timely /\ \A i \in Instances : PacedAt(i)
<1>1. Init => Paces
  <2> SUFFICES ASSUME Init PROVE Paces
    OBVIOUS
  <2>1. /\ today = 0 /\ day = [i \in Instances |-> 0] /\ spent = [i \in Instances |-> 0]
        /\ mishaps = [i \in Instances |-> NoMishaps] /\ mirror = [i \in Instances |-> NoProfile]
        /\ stored = [i \in Instances |-> NoProfile]
        /\ gathered = [i \in Instances |-> NothingGathered]
    BY DEF Init
  <2>2. PastOf(NothingGathered.marine, today)
    <3>1. NothingGathered.marine = Unknown
      BY Zenon DEF NothingGathered
    <3> QED
      BY <3>1 DEF PastOf, Unknown
  <2>3. \A i \in Instances : TimelyAt(i) /\ PacedAt(i)
    BY <2>1, <2>2 DEF TimelyAt, PacedAt, Losses, NoMishaps, Mishaps
  <2>4. \A d \in Days : probes[d] # "none" => d = 0 /\ row # NoRow
    <3>1. CASE probes = [d \in Days |-> "none"]
      BY <3>1
    <3>2. CASE /\ row = [kind |-> "row", snow |-> Guess(0), outdated |-> TRUE]
               /\ probes = [d \in Days |-> IF d = 0 THEN "all null" ELSE "none"]
      <4>1. row # NoRow
        BY <3>2 DEF NoRow
      <4> QED
        BY <3>2, <4>1
    <3> QED
      BY <3>1, <3>2 DEF Init
  <2> QED
    BY <2>1, <2>3, <2>4 DEF Timely
<1>2. ASSUME Inv, Inv', Paces, [Next]_vars PROVE Paces'
  <2>1. Timely'
    BY <1>2, StepKeepsTimely
  <2>2. ASSUME NEW j \in Instances PROVE PacedAt(j)'
    <3>1. ASSUME NEW i \in Instances,
                 ProfileFor(i) \/ Finding(i) \/ Gathering(i) \/ Saving(i) \/ Restart(i)
          PROVE  PacedAt(j)'
      <4>1. CASE i = j
        BY <1>2, <3>1, <4>1, OwnStepPaces
      <4>2. CASE i # j
        BY <1>2, <3>1, <4>2, OthersAreLeftAlone, OthersStayPaced
      <4> QED
        BY <4>1, <4>2
    <3>2. CASE UNCHANGED <<pc, stored, gathered, day, spent, mishaps, mirror>>
      BY <1>2, <3>2, OthersStayPaced DEF SameFor
    <3> QED
      BY <1>2, <3>1, <3>2 DEF Next, Tick, vars
  <2> QED
    BY <2>1, <2>2
<1>3. Inv /\ Paces => ProbesArePaced
  <2> SUFFICES ASSUME Inv, Paces, NEW i \in Instances
               PROVE  spent[i] <= 1 + mishaps[i]["profile"] + mishaps[i]["restart"]
    BY DEF ProbesArePaced
  <2>1. /\ spent[i] \in Nat
        /\ mishaps[i]["profile"] \in Nat /\ mishaps[i]["restart"] \in Nat
    BY DEF Inv, TypeOK, Mishaps
  <2> QED
    BY <2>1 DEF PacedAt, Losses
<1> HIDE DEF Paces
<1> QED
  BY InvIsInvariant, <1>1, <1>2, <1>3, PTL DEF Spec
=============================================================================
