---------------------------- MODULE Places_proofs ----------------------------
(***************************************************************************)
(* Proofs about Places, for any callers, names, cells, candidates and      *)
(* lifetimes: the place chosen among those a source offers, what a row     *)
(* keeps when places of its cell are saved over it in any order, and how   *)
(* recent the absence is that a caller is told of.  The last is about an   *)
(* action; it rests on an invariant that ties what is cached about a name  *)
(* nobody knows to the moment the source last knew nothing of it.          *)
(***************************************************************************)
EXTENDS Places, TLAPS, WellFoundedInduction

----------------------------------------------------------------------------
(***************************************************************************)
(* The choice.                                                             *)
(***************************************************************************)

\* i is the place, among the first n of s, that the reduce is left with.
LeadsUpTo(s, n, i) ==
    \A j \in 1 .. n : ~Beats(s[j], s[i]) /\ (j < i => Beats(s[i], s[j]))

\* A population is a number, 0 where the source gives none.
LEMMA PopulationIsNat == \A c \in Candidates : Population(c) \in Nat
BY PlacesAssumption DEF Population

\* A set of numbers that is not empty has a least element.
LEMMA LeastOf ==
    ASSUME NEW T, T \subseteq Nat, T # {}
    PROVE  \E x \in T : \A y \in T : ~(y < x)
<1>1. \E x \in T : \A y \in T : ~(<<y, x>> \in OpToRel(<, Nat))
  BY NatLessThanWellFounded, WFMin
<1>2. \A x, y \in T : y < x => <<y, x>> \in OpToRel(<, Nat)
  BY DEF OpToRel
<1> QED
  BY <1>1, <1>2

\* However many of the candidates are looked at, one of them leads.
LEMMA OneLeads ==
    ASSUME NEW s \in Seq(Candidates)
    PROVE  \A n \in 1 .. Len(s) : \E i \in 1 .. n : LeadsUpTo(s, n, i)
<1> DEFINE Fails == {n \in 1 .. Len(s) : ~\E i \in 1 .. n : LeadsUpTo(s, n, i)}
<1>0. \A n \in 1 .. Len(s) : Population(s[n]) \in Nat
  BY PopulationIsNat
<1>1. SUFFICES ASSUME Fails # {} PROVE FALSE
  OBVIOUS
<1>2. PICK n \in Fails : \A m \in Fails : ~(m < n)
  <2>1. Fails \subseteq Nat
    OBVIOUS
  <2> QED
    BY <1>1, <2>1, LeastOf
<1>3. CASE n = 1
  <2>1. LeadsUpTo(s, 1, 1)
    BY <1>0, <1>3 DEF LeadsUpTo, Beats
  <2> QED
    BY <1>3, <2>1
<1>4. CASE n # 1
  <2>1. n - 1 \in 1 .. Len(s) /\ ~(n - 1 \in Fails)
    BY <1>2, <1>4
  <2>2. PICK i \in 1 .. n - 1 : LeadsUpTo(s, n - 1, i)
    BY <2>1
  <2>3. CASE Beats(s[n], s[i])
    <3>1. LeadsUpTo(s, n, n)
      BY <1>0, <2>2, <2>3 DEF LeadsUpTo, Beats
    <3> QED
      BY <3>1
  <2>4. CASE ~Beats(s[n], s[i])
    <3>1. LeadsUpTo(s, n, i)
      BY <1>0, <2>2, <2>4 DEF LeadsUpTo, Beats
    <3> QED
      BY <3>1
  <2> QED
    BY <2>3, <2>4
<1> QED
  BY <1>3, <1>4

\* The reduce over what the source offers is left with the first of the most
\* populous, one that does not say its population counting as empty
\* (location-resolver.service.ts:30-32).
THEOREM ChosenIsFirstOfTheLargest ==
    ASSUME NEW s \in Seq(Candidates), s # <<>>
    PROVE  \E i \in 1 .. Len(s) :
              /\ MostPopulous(s) = s[i]
              /\ \A j \in 1 .. Len(s) : Population(s[j]) <= Population(s[i])
              /\ \A j \in 1 .. i - 1 : Population(s[j]) < Population(s[i])
<1>0. Len(s) \in 1 .. Len(s) /\ DOMAIN s = 1 .. Len(s)
  OBVIOUS
<1> DEFINE Leads(i) == \A j \in DOMAIN s : /\ ~Beats(s[j], s[i])
                                           /\ j < i => Beats(s[i], s[j])
<1>1. \E i \in DOMAIN s : Leads(i)
  BY <1>0, OneLeads DEF LeadsUpTo
<1>2. PICK i \in DOMAIN s : i = (CHOOSE k \in DOMAIN s : Leads(k)) /\ Leads(i)
  BY <1>1
<1>3. MostPopulous(s) = s[i]
  BY <1>2 DEF MostPopulous
<1>4. \A j \in 1 .. Len(s) : Population(s[j]) \in Nat
  BY PopulationIsNat
<1>5. \A j \in 1 .. Len(s) : Population(s[j]) <= Population(s[i])
  <2>1. \A j \in 1 .. Len(s) : ~(Population(s[j]) > Population(s[i]))
    BY <1>0, <1>2 DEF Beats
  <2>2. i \in 1 .. Len(s)
    BY <1>0
  <2> HIDE DEF Leads
  <2> QED
    BY <1>4, <2>1, <2>2
<1>6. ASSUME NEW j \in 1 .. i - 1
      PROVE  Population(s[j]) < Population(s[i])
  <2>1. j \in DOMAIN s /\ j < i
    BY <1>0
  <2> QED
    BY <1>0, <1>2, <1>4, <2>1 DEF Beats
<1> QED
  BY <1>0, <1>3, <1>5, <1>6
\* So the place chosen is one of those offered.
LEMMA ChosenIsOffered ==
    ASSUME NEW s \in Seq(Candidates), s # <<>>
    PROVE  MostPopulous(s) \in Candidates
BY ChosenIsFirstOfTheLargest

----------------------------------------------------------------------------
(***************************************************************************)
(* What resolving and saving make.                                         *)
(***************************************************************************)

\* A place is called by its identifier, or by its cell when it has none.
Named(place) ==
    place.name = IF place.placeId = None THEN place.cell ELSE place.placeId

Wellnamed(resolution) == resolution.code = "ok" => Named(resolution.place)

LEMMA PlacedIsWellFormed ==
    ASSUME NEW place \in Locations, Named(place)
    PROVE  Placed(place) \in Results /\ Wellnamed(Placed(place))
BY DEF Placed, Results, Wellnamed

LEMMA RefusedIsWellFormed ==
    ASSUME NEW code \in {"PROVIDER_UNAVAILABLE", "LOCATION_NOT_FOUND", "INVALID_COORDINATES"}
    PROVE  Refused(code) \in Results /\ Wellnamed(Refused(code))
BY DEF Refused, Results, Wellnamed

\* A point resolves to the place called by its cell, if it is on Earth.
LEMMA PointResolves ==
    ASSUME NEW cell
    PROVE  FromCoordinates(cell) \in Results /\ Wellnamed(FromCoordinates(cell))
<1>1. CASE cell \notin Cells
  BY <1>1, RefusedIsWellFormed DEF FromCoordinates
<1>2. CASE cell \in Cells
  <2> DEFINE place == [cell |-> cell, name |-> cell, placeId |-> None,
                       country |-> None, timezone |-> "auto"]
  <2>1. place \in Locations /\ Named(place)
    BY <1>2 DEF Locations, Countries, Zones, Named
  <2> QED
    BY <1>2, <2>1, PlacedIsWellFormed DEF FromCoordinates
<1> QED
  BY <1>1, <1>2

\* What a source offers resolves to a place called by its identifier, and to
\* the absence of a place only if the source offers nothing.
LEMMA OfferResolves ==
    ASSUME NEW s \in Replies
    PROVE  /\ Resolved(s) \in Results
           /\ Wellnamed(Resolved(s))
           /\ Resolved(s) = Refused("LOCATION_NOT_FOUND") => s = <<>>
<1>1. CASE s = <<>>
  BY <1>1, RefusedIsWellFormed DEF Resolved
<1>2. CASE s # <<>>
  <2> DEFINE chosen == MostPopulous(s)
             place == [cell |-> chosen.cell, name |-> chosen.id, placeId |-> chosen.id,
                       country |-> chosen.country, timezone |-> chosen.timezone]
  <2>1. chosen \in Candidates
    BY <1>2, ChosenIsOffered, PlacesAssumption
  <2>2. CASE chosen.cell \notin Cells
    <3>1. Resolved(s) = Refused("INVALID_COORDINATES")
      BY <1>2, <2>2 DEF Resolved
    <3> QED
      BY <3>1, RefusedIsWellFormed DEF Refused
  <2>3. CASE chosen.cell \in Cells
    <3>1. place \in Locations /\ Named(place)
      <4>1. chosen.id \in Ids /\ chosen.country \in Countries /\ chosen.timezone \in Zones
        BY <2>1 DEF Ids, Countries, Zones
      <4>2. chosen.id # None
        BY <2>1, PlacesAssumption
      <4> QED
        BY <2>3, <4>1, <4>2 DEF Locations, Named
    <3>2. Resolved(s) = Placed(place)
      BY <1>2, <2>3 DEF Resolved
    <3>3. Placed(place) # Refused("LOCATION_NOT_FOUND")
      BY DEF Placed, Refused
    <3> QED
      BY <3>1, <3>2, <3>3, PlacedIsWellFormed
  <2> QED
    BY <2>2, <2>3
<1> QED
  BY <1>1, <1>2

\* Saving a place over the row of its cell keeps the cell, what the row knew
\* and the agreement of its name with its identifier.
LEMMA MergeKeeps ==
    ASSUME NEW new \in Locations, NEW old \in Locations,
           Named(new), Named(old), new.cell = old.cell
    PROVE  /\ Merged(new, old) \in Locations
           /\ Merged(new, old).cell = old.cell
           /\ Named(Merged(new, old))
           /\ KeepsKnowledge(old, Merged(new, old))
<1> DEFINE m == Merged(new, old)
<1>1. /\ m.cell = old.cell
      /\ m.name = IF new.placeId = None THEN old.name ELSE new.name
      /\ m.placeId = Coalesce(new.placeId, old.placeId)
      /\ m.country = Coalesce(new.country, old.country)
      /\ m.timezone = IF new.timezone = "auto" THEN old.timezone ELSE new.timezone
  BY DEF Merged, Locations
<1>2. m \in Locations
  BY <1>1 DEF Merged, Locations, Coalesce
<1>3. m # None
  BY <1>2, PlaceAssumption
<1> QED
  BY <1>1, <1>2, <1>3 DEF Named, KeepsKnowledge, Coalesce, Locations

----------------------------------------------------------------------------
(***************************************************************************)
(* The invariant.                                                          *)
(***************************************************************************)

\* A record that says nothing has the name r was fetched for is not fresh for
\* longer than the negative lifetime less the time since n was unknown.
Dated(n, r) ==
    (r # None /\ r.payload = <<>>) =>
        unknownFor[n] + r.freshUntil <= now + NegativeTTL

AbsenceIsDated ==
    /\ \A n \in Names : (known[n] = <<>> => unknownFor[n] = 0) /\ Dated(n, entry[n])
    /\ \A p \in Callers : pc[p] # "idle" => asked[p] \in Names /\ Dated(asked[p], found[p])

EverythingIsNamed ==
    /\ \A p \in Callers : result[p] # None => Wellnamed(result[p])
    /\ \A c \in Cells : rows[c] # None => rows[c].cell = c /\ Named(rows[c])

Inv == TypeOK /\ AbsenceIsDated /\ EverythingIsNamed

\* A lifetime's end is at most the lifetime away.
LEMMA FreshnessEnds ==
    ASSUME NEW at \in Nat, NEW ttl \in Nat \ {0}
    PROVE  FreshUntil(at, ttl) \in Nat /\ FreshUntil(at, ttl) <= at + ttl
<1>1. at \div ttl \in Nat /\ (at \div ttl) * ttl <= at
  OBVIOUS
<1> QED
  BY <1>1 DEF FreshUntil, Interval

LEMMA NewEntryIsDated ==
    ASSUME TypeOK, NEW s \in Replies
    PROVE  /\ NewEntry(s) \in Records
           /\ s = <<>> => NewEntry(s).freshUntil <= now + NegativeTTL
<1>1. now \in Nat
  BY PlacesAssumption DEF TypeOK
<1>2. Lifetime(s) \in Nat \ {0} /\ (s = <<>> => Lifetime(s) = NegativeTTL)
  BY PlacesAssumption DEF Lifetime
<1>3. ExpiresAt(now, Lifetime(s)) \in Nat
  BY <1>1, <1>2 DEF ExpiresAt
<1> QED
  BY <1>1, <1>2, <1>3, FreshnessEnds DEF NewEntry, Records

\* What the end of a call leaves alone, and what it gives to those who await
\* it, keeps the invariant but for the record, whatever the resolution.
LEMMA SettleKeeps ==
    ASSUME Inv, NEW n \in Names, NEW resolution \in Results, Wellnamed(resolution),
           Settle(n, resolution), entry' \in [Names -> Records \cup {None}],
           \A m \in Names : Dated(m, entry[m])'
    PROVE  Inv'
<1> USE DEF Inv
<1>1. TypeOK'
  BY DEF Settle, TypeOK
<1>2. AbsenceIsDated'
  BY DEF Settle, TypeOK, AbsenceIsDated, Dated
<1>3. EverythingIsNamed'
  BY DEF Settle, TypeOK, EverythingIsNamed
<1> QED
  BY <1>1, <1>2, <1>3

LEMMA InitEstablishesInv == Init => Inv
<1> SUFFICES ASSUME Init PROVE Inv
  OBVIOUS
<1>1. TypeOK
  BY PlacesAssumption DEF Init, TypeOK
<1>2. AbsenceIsDated
  BY DEF Init, AbsenceIsDated, Dated
<1>3. EverythingIsNamed
  BY DEF Init, EverythingIsNamed
<1> QED
  BY <1>1, <1>2, <1>3 DEF Inv

LEMMA StepKeepsInv == Inv /\ [Next]_vars => Inv'
<1> SUFFICES ASSUME Inv, [Next]_vars PROVE Inv'
  OBVIOUS
<1> USE DEF Inv
<1>1. ASSUME NEW p \in Callers, AskName(p) PROVE Inv'
  <2>1. TypeOK'
    BY <1>1 DEF AskName, TypeOK
  <2>2. AbsenceIsDated'
    BY <1>1 DEF AskName, TypeOK, AbsenceIsDated, Dated
  <2>3. EverythingIsNamed'
    BY <1>1 DEF AskName, TypeOK, EverythingIsNamed
  <2> QED
    BY <2>1, <2>2, <2>3
<1>2. ASSUME NEW p \in Callers, AskPoint(p) PROVE Inv'
  <2>1. TypeOK'
    BY <1>2, PointResolves DEF AskPoint, TypeOK
  <2>2. AbsenceIsDated'
    BY <1>2 DEF AskPoint, AbsenceIsDated, Dated
  <2>3. EverythingIsNamed'
    BY <1>2, PointResolves DEF AskPoint, TypeOK, EverythingIsNamed
  <2> QED
    BY <2>1, <2>2, <2>3
<1>3. ASSUME NEW p \in Callers, Hit(p) PROVE Inv'
  <2>0. found[p].payload \in Replies
    BY <1>3 DEF Hit, Servable, TypeOK, Records
  <2>1. TypeOK'
    BY <1>3, <2>0, OfferResolves DEF Hit, TypeOK
  <2>2. AbsenceIsDated'
    BY <1>3 DEF Hit, TypeOK, AbsenceIsDated, Dated
  <2>3. EverythingIsNamed'
    BY <1>3, <2>0, OfferResolves DEF Hit, TypeOK, EverythingIsNamed
  <2> QED
    BY <2>1, <2>2, <2>3
<1>4. ASSUME NEW p \in Callers, Miss(p) PROVE Inv'
  <2>1. TypeOK'
    BY <1>4 DEF Miss, TypeOK, AbsenceIsDated
  <2>2. AbsenceIsDated'
    BY <1>4 DEF Miss, TypeOK, AbsenceIsDated, Dated
  <2>3. EverythingIsNamed'
    BY <1>4 DEF Miss, EverythingIsNamed
  <2> QED
    BY <2>1, <2>2, <2>3
<1>5. ASSUME NEW p \in Callers, Save(p) PROVE Inv'
  <2> DEFINE new == result[p].place
             old == rows[new.cell]
  <2>1. new \in Locations /\ Named(new)
    BY <1>5 DEF Save, TypeOK, Results, Refused, Placed, EverythingIsNamed, Wellnamed
  <2>2. new.cell \in Cells
    BY <2>1 DEF Locations
  <2>3. old # None => old \in Locations /\ old.cell = new.cell /\ Named(old)
    BY <2>2 DEF TypeOK, EverythingIsNamed
  <2> HIDE DEF new, old
  <2>4. PICK row \in Locations : /\ rows' = [rows EXCEPT ![new.cell] = row]
                                 /\ row.cell = new.cell
                                 /\ Named(row)
    BY <1>5, <2>1, <2>3, MergeKeeps DEF Save, new, old
  <2>5. TypeOK'
    <3>1. rows' \in [Cells -> Locations \cup {None}]
      BY <2>2, <2>4 DEF TypeOK
    <3>2. result' \in [Callers -> Results \cup {None}]
      BY <1>5 DEF Save, TypeOK
    <3> QED
      BY <1>5, <3>1, <3>2 DEF Save, TypeOK
  <2>6. AbsenceIsDated'
    BY <1>5 DEF Save, AbsenceIsDated, Dated
  <2>7. EverythingIsNamed'
    BY <1>5, <2>2, <2>4 DEF Save, TypeOK, EverythingIsNamed
  <2> QED
    BY <2>5, <2>6, <2>7
<1>6. ASSUME NEW n \in Names, SourceAnswers(n) PROVE Inv'
  <2>1. known[n] \in Replies /\ Settle(n, Resolved(known[n]))
    BY <1>6 DEF TypeOK, SourceAnswers
  <2>2. entry' \in [Names -> Records \cup {None}]
    BY <1>6, <2>1, NewEntryIsDated DEF SourceAnswers, TypeOK
  <2>3. ASSUME NEW m \in Names PROVE Dated(m, entry[m])'
    <3>1. CASE entry' = entry
      BY <2>1, <3>1 DEF Settle, AbsenceIsDated, Dated
    <3>2. CASE entry' = [entry EXCEPT ![n] = NewEntry(known[n])]
      <4>1. CASE m # n
        BY <2>1, <3>2, <4>1 DEF Settle, TypeOK, AbsenceIsDated, Dated
      <4>2. CASE m = n
        <5>1. entry'[n] = NewEntry(known[n]) /\ UNCHANGED <<now, unknownFor>>
          BY <2>1, <3>2 DEF Settle, TypeOK
        <5>2. NewEntry(known[n]) \in Records
          BY <2>1, NewEntryIsDated
        <5>3. SUFFICES ASSUME known[n] = <<>>
                       PROVE  unknownFor[n] + NewEntry(known[n]).freshUntil <= now + NegativeTTL
          BY <4>2, <5>1 DEF Dated, NewEntry
        <5>4. unknownFor[n] = 0
          BY <5>3 DEF AbsenceIsDated
        <5> QED
          BY <2>1, <5>2, <5>3, <5>4, NewEntryIsDated DEF Records
      <4> QED
        BY <4>1, <4>2
    <3> QED
      BY <1>6, <3>1, <3>2 DEF SourceAnswers
  <2> QED
    BY <2>1, <2>2, <2>3, OfferResolves, SettleKeeps
<1>7. ASSUME NEW n \in Names, SourceFails(n) PROVE Inv'
  <2>1. Settle(n, Refused("PROVIDER_UNAVAILABLE")) /\ entry' = entry
    BY <1>7 DEF SourceFails
  <2>2. ASSUME NEW m \in Names PROVE Dated(m, entry[m])'
    BY <2>1 DEF Settle, AbsenceIsDated, Dated
  <2>3. entry' \in [Names -> Records \cup {None}]
    BY <2>1 DEF TypeOK
  <2> QED
    BY <2>1, <2>2, <2>3, RefusedIsWellFormed, SettleKeeps
<1>8. ASSUME NEW n \in Names, SourceLearns(n) PROVE Inv'
  <2>1. /\ known' \in [Names -> Replies]
        /\ unknownFor' \in [Names -> 0..NegativeTTL]
        /\ \A m \in Names : unknownFor'[m] <= unknownFor[m]
        /\ \A m \in Names : known'[m] = <<>> => unknownFor'[m] = 0
    BY <1>8, PlacesAssumption DEF SourceLearns, TypeOK, AbsenceIsDated
  <2>2. TypeOK'
    BY <1>8, <2>1 DEF SourceLearns, TypeOK
  <2>3. \A m \in Names, r \in Records \cup {None} : Dated(m, r) => Dated(m, r)'
    BY <1>8, <2>1, PlacesAssumption DEF SourceLearns, TypeOK, Dated, Records
  <2>4. AbsenceIsDated'
    BY <1>8, <2>1, <2>3 DEF SourceLearns, TypeOK, AbsenceIsDated
  <2>5. EverythingIsNamed'
    BY <1>8 DEF SourceLearns, EverythingIsNamed
  <2> QED
    BY <2>2, <2>4, <2>5
<1>9. ASSUME Tick PROVE Inv'
  <2>1. /\ unknownFor' \in [Names -> 0..NegativeTTL]
        /\ \A m \in Names : unknownFor'[m] <= unknownFor[m] + 1
        /\ \A m \in Names : known'[m] = <<>> => unknownFor'[m] = 0
    BY <1>9, PlacesAssumption DEF Tick, TypeOK, Later
  <2>2. TypeOK'
    BY <1>9, <2>1, PlacesAssumption DEF Tick, TypeOK
  <2>3. \A m \in Names, r \in Records \cup {None} : Dated(m, r) => Dated(m, r)'
    BY <1>9, <2>1, PlacesAssumption DEF Tick, TypeOK, Dated, Records
  <2>4. AbsenceIsDated'
    BY <1>9, <2>1, <2>3 DEF Tick, TypeOK, AbsenceIsDated
  <2>5. EverythingIsNamed'
    BY <1>9 DEF Tick, EverythingIsNamed
  <2> QED
    BY <2>2, <2>4, <2>5
<1>10. CASE UNCHANGED vars
  BY <1>10 DEF vars, TypeOK, AbsenceIsDated, Dated, EverythingIsNamed
<1> QED
  BY <1>1, <1>2, <1>3, <1>4, <1>5, <1>6, <1>7, <1>8, <1>9, <1>10 DEF Next

\* The invariant holds of every behaviour of the lookup, its cache and its rows.
LEMMA InvHolds == Spec => []Inv
<1> QED
  BY InitEstablishesInv, StepKeepsInv, PTL DEF Spec

----------------------------------------------------------------------------
(***************************************************************************)
(* What follows from it.                                                   *)
(***************************************************************************)

\* Every variable has its type: what a caller is given is a place on Earth or
\* one of three refusals, and every row is a place (cached-place-lookup.port.ts,
\* location-resolver.service.ts, db-location.store.ts).
THEOREM TypeCorrect == Spec => []TypeOK
<1>1. Inv => TypeOK
  BY DEF Inv
<1> QED
  BY <1>1, InvHolds, PTL

\* A row is called by the place its identifier says, or by its cell, in
\* whatever order the places of the cell are saved (db-location.store.ts:93, 99).
THEOREM NamesAlwaysMatchTheirIds == Spec => []NamesMatchTheirIds
<1>1. Inv => NamesMatchTheirIds
  BY DEF Inv, EverythingIsNamed, Named, NamesMatchTheirIds
<1> QED
  BY <1>1, InvHolds, PTL

\* No step makes an attribute of a row unknown that was known
\* (db-location.store.ts:26-29).
THEOREM KnowledgeIsNeverLost == Spec => StoredPlaceIsKept
<1>1. ASSUME Inv, Next, NEW c \in Cells, rows[c] # None
      PROVE  KeepsKnowledge(rows[c], rows'[c])
  <2>1. ASSUME rows' = rows PROVE KeepsKnowledge(rows[c], rows'[c])
    BY <1>1, <2>1 DEF KeepsKnowledge
  <2>2. ASSUME NEW p \in Callers, Save(p) PROVE KeepsKnowledge(rows[c], rows'[c])
    <3> DEFINE new == result[p].place
               old == rows[new.cell]
    <3>1. new \in Locations /\ Named(new)
      BY <1>1, <2>2 DEF Inv, Save, TypeOK, Results, Refused, Placed, EverythingIsNamed, Wellnamed
    <3>2. new.cell \in Cells
      BY <3>1 DEF Locations
    <3>3. old # None => old \in Locations /\ old.cell = new.cell /\ Named(old)
      BY <1>1, <3>2 DEF Inv, TypeOK, EverythingIsNamed
    <3>4. rows' = [rows EXCEPT ![new.cell] = IF old = None THEN new ELSE Merged(new, old)]
      BY <2>2 DEF Save
    <3> HIDE DEF new
    <3>5. CASE c = new.cell
      <4>1. rows'[c] = Merged(new, old)
        BY <1>1, <3>2, <3>4, <3>5 DEF Inv, TypeOK
      <4> QED
        BY <1>1, <3>1, <3>3, <3>5, <4>1, MergeKeeps
    <3>6. CASE c # new.cell
      BY <1>1, <3>4, <3>6 DEF Inv, TypeOK, KeepsKnowledge
    <3> QED
      BY <3>5, <3>6
  <2> QED
    BY <1>1, <2>1, <2>2 DEF Next, AskName, AskPoint, Hit, Miss, SourceAnswers, SourceFails,
                            SourceLearns, Settle, Tick
<1>2. Inv /\ [Next]_vars =>
          [\A c \in Cells : rows[c] # None => KeepsKnowledge(rows[c], rows'[c])]_vars
  BY <1>1
<1> QED
  BY <1>2, InvHolds, PTL DEF Spec, StoredPlaceIsKept

\* Whoever is told that no place has a name is told so of a name the source
\* knew nothing of less than the negative lifetime ago, however the clock, the
\* source's own data and the calls of others went in between
\* (cached-place-lookup.port.ts:16-20, 36-38).
THEOREM AbsenceIsAlwaysRecent == Spec => AbsenceIsRecent
<1>1. ASSUME Inv, Next, NEW p \in Callers, ToldAbsent(p)
      PROVE  unknownFor[asked[p]] < NegativeTTL
  <2>0. pc[p] # "idle" /\ pc'[p] = "idle" /\ asked[p] \in Names
    BY <1>1 DEF ToldAbsent, Inv, AbsenceIsDated
  <2>1. ASSUME Hit(p) PROVE unknownFor[asked[p]] < NegativeTTL
    <3>1. found[p] \in Records /\ now < found[p].freshUntil
      BY <1>1, <2>1 DEF Hit, Servable, Inv, TypeOK
    <3>2. result'[p] = Resolved(found[p].payload) /\ found[p].payload \in Replies
      BY <1>1, <2>1, <3>1 DEF Hit, Inv, TypeOK, Records
    <3>3. found[p].payload = <<>>
      BY <1>1, <3>2, OfferResolves DEF ToldAbsent
    <3>4. unknownFor[asked[p]] + found[p].freshUntil <= now + NegativeTTL
      BY <1>1, <2>0, <2>1, <3>3 DEF Inv, AbsenceIsDated, Dated, Hit, Servable
    <3>5. unknownFor[asked[p]] \in Nat /\ now \in Nat /\ found[p].freshUntil \in Nat
      BY <1>1, <2>0, <3>1, PlacesAssumption DEF Inv, TypeOK, Records
    <3> QED
      BY <3>1, <3>4, <3>5, PlacesAssumption
  <2>2. ASSUME NEW n \in Names, SourceAnswers(n) PROVE unknownFor[asked[p]] < NegativeTTL
    <3>1. asked[p] = n /\ result'[p] = Resolved(known[n]) /\ known[n] \in Replies
      BY <1>1, <2>0, <2>2 DEF SourceAnswers, Settle, Inv, TypeOK
    <3>2. known[n] = <<>>
      BY <1>1, <3>1, OfferResolves DEF ToldAbsent
    <3> QED
      BY <1>1, <3>1, <3>2, PlacesAssumption DEF Inv, AbsenceIsDated
  <2>3. ASSUME NEW n \in Names, SourceFails(n) PROVE FALSE
    <3>1. result'[p] = Refused("PROVIDER_UNAVAILABLE")
      BY <1>1, <2>0, <2>3 DEF SourceFails, Settle, Inv, TypeOK
    <3> QED
      BY <1>1, <3>1 DEF ToldAbsent, Refused
  <2>4. ASSUME NEW q \in Callers, q # p, Hit(q) PROVE FALSE
    BY <1>1, <2>0, <2>4 DEF Hit, Inv, TypeOK
  <2>5. ASSUME NEW q \in Callers, AskName(q) \/ Miss(q) PROVE FALSE
    BY <1>1, <2>0, <2>5 DEF AskName, Miss, Inv, TypeOK
  <2> QED
    BY <1>1, <2>0, <2>1, <2>2, <2>3, <2>4, <2>5
    DEF Next, AskPoint, Save, SourceLearns, Tick
<1>2. Inv /\ [Next]_vars =>
          [\A p \in Callers : ToldAbsent(p) => unknownFor[asked[p]] < NegativeTTL]_vars
  BY <1>1
<1> QED
  BY <1>2, InvHolds, PTL DEF Spec, AbsenceIsRecent
=============================================================================
