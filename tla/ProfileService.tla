--------------------------- MODULE ProfileService ---------------------------
(***************************************************************************)
(* What is known about a place, and how it comes to be known               *)
(* (modules/geo/location-profile.service.ts), over the store that keeps it *)
(* (adapters/db-profile.store.ts, adapters/profile-rows.ts) and the rules  *)
(* that read it (domain/location/location-profile.ts).                     *)
(*                                                                         *)
(* One place, and the instances of the service that share its rows.  An    *)
(* instance computes one profile of the place at a time (SingleFlight), so *)
(* it is a sequence of steps with an await between any two: the two        *)
(* selects of `find`, the save of the place, the archive, the marine probe,*)
(* the transaction of `save` and the two selects that read it back.        *)
(* Any operation of the store may fail, and an instance may be restarted.  *)
(***************************************************************************)
EXTENDS Integers, FiniteSetsExt

CONSTANTS
    Instances,      \* the processes of the service
    Declared,       \* the applicability rules some activity names
    Confirmations,  \* the strictest confirmation count declared
    CacheDays,      \* midnights an answer of the cached marine port may outlive
    LastDay,        \* bound: the clock stops on this day
    MaxRequests,    \* bound: how many computations are begun
    MaxMishaps      \* bound: mishaps the instances meet between them in a day

ASSUME ProfileAssumption ==
    /\ Declared \subseteq {"snowSeason", "marineCoverage"}
    /\ Confirmations \in Nat \ {0} /\ CacheDays \in Nat
    /\ LastDay \in Nat /\ MaxRequests \in Nat /\ MaxMishaps \in Nat

VARIABLES
    today,      \* the UTC day
    row,        \* the row of location_profiles, or none
    probes,     \* the rows of marine_probes: all_null per local date
    mirror,     \* per instance: what the store has confirmed to it
    cached,     \* per instance: the marine answer its cache holds
    pc,         \* where the computation of each instance is
    read,       \* the row its first select returned
    stored,     \* the profile it found
    day,        \* the day it took for today
    gathered,   \* the evidence it goes on with, and whether that is new
    answer,     \* what its last computation returned
    heard,      \* history: source answers, by day given and day counted for
    spent,      \* history: probes made, per instance, for its latest day
    requests,   \* history: how many computations were begun
    mishaps     \* history: what it met on that day, by kind

vars == <<today, row, probes, mirror, cached, pc, read, stored, day, gathered,
          answer, heard, spent, requests, mishaps>>

Days == 0 .. LastDay

\* Evidence.  An undefined one is known = FALSE.
Unknown == [known |-> FALSE]
Archive == [known |-> TRUE, basis |-> "archive"]
Guess(d) == [known |-> TRUE, basis |-> "elevation", attemptedOn |-> d]
SnowEvidence == {Unknown, Archive} \cup {Guess(d) : d \in Days}

MarineEvidence ==
    {Unknown} \cup [known : {TRUE}, allNull : SUBSET Days, last : Days, covered : BOOLEAN]

NoRow == [kind |-> "no row"]
Rows == [kind : {"row"}, snow : SnowEvidence, outdated : BOOLEAN]

NoProfile == [kind |-> "no profile"]
Profiles == [kind : {"profile"}, snow : SnowEvidence, marine : MarineEvidence,
             outdated : BOOLEAN]

\* PROFILE_UNAVAILABLE.
Refused == [kind |-> "refused"]

Answers == {"values", "all null"}
Readings == Answers \cup {"failed"}
NotCached == [kind |-> "nothing"]
Gatherings == [snow : SnowEvidence, marine : MarineEvidence, changed : BOOLEAN]
NothingGathered == [snow |-> Unknown, marine |-> Unknown, changed |-> FALSE]

\* A read or the save of a place fails, the transaction of a profile does, the
\* process is restarted.
Mishaps == {"store", "profile", "restart"}
NoMishaps == [kind \in Mishaps |-> 0]

TypeOK ==
    /\ today \in Days
    /\ row \in Rows \cup {NoRow}
    /\ probes \in [Days -> Readings \cup {"none"}]
    /\ mirror \in [Instances -> Profiles \cup {NoProfile}]
    /\ cached \in [Instances -> [kind : Answers, on : Days] \cup {NotCached}]
    /\ pc \in [Instances -> {"idle", "finding", "finding probes", "placing", "snow",
                             "marine", "saving", "reading back", "reading back probes"}]
    /\ read \in [Instances -> Rows \cup {NoRow}]
    /\ stored \in [Instances -> Profiles \cup {NoProfile}]
    /\ day \in [Instances -> Days]
    /\ gathered \in [Instances -> Gatherings]
    /\ answer \in [Instances -> Profiles \cup {NoProfile, Refused}]
    /\ heard \subseteq [on : Days, for : Days, kind : Answers]
    /\ spent \in [Instances -> Nat]
    /\ requests \in 0 .. MaxRequests
    /\ mishaps \in [Instances -> [Mishaps -> Nat]]

\* The store is empty, or holds what an earlier release found on the first day.
Init ==
    /\ today = 0
    /\ \/ row = NoRow /\ probes = [d \in Days |-> "none"] /\ heard = {}
       \/ /\ row = [kind |-> "row", snow |-> Guess(0), outdated |-> TRUE]
          /\ probes = [d \in Days |-> IF d = 0 THEN "all null" ELSE "none"]
          /\ heard = {[on |-> 0, for |-> 0, kind |-> "all null"]}
    /\ mirror = [i \in Instances |-> NoProfile]
    /\ cached = [i \in Instances |-> NotCached]
    /\ pc = [i \in Instances |-> "idle"]
    /\ read = [i \in Instances |-> NoRow]
    /\ stored = [i \in Instances |-> NoProfile]
    /\ day = [i \in Instances |-> 0]
    /\ gathered = [i \in Instances |-> NothingGathered]
    /\ answer = [i \in Instances |-> NoProfile]
    /\ spent = [i \in Instances |-> 0]
    /\ requests = 0
    /\ mishaps = [i \in Instances |-> NoMishaps]

----------------------------------------------------------------------------
(***************************************************************************)
(* The evidence, and its rows.                                             *)
(***************************************************************************)

\* marineCoverageVerdict.
Verdict(e) ==
    IF ~e.known THEN "undecided"
    ELSE IF e.covered THEN "applicable"
    ELSE IF Cardinality(e.allNull) >= Confirmations THEN "not applicable"
    ELSE "undecided"

NeedsProbe(e, d) == e.known => Verdict(e) = "undecided" /\ e.last # d

\* An archive is read once; a guess is tried again on another day.
NeedsArchive(e, d) == e.known => e.basis = "elevation" /\ e.attemptedOn # d

\* Mutants: a fault reads as an empty sea; a fault leaves the day unspent.
RecordProbe_FaultIsAllNull(e, kind, d) ==
    [known |-> TRUE, last |-> d, covered |-> kind = "values",
     allNull |-> IF kind = "values" THEN {} ELSE {d} \cup (IF e.known THEN e.allNull ELSE {})]

RecordProbe_FaultSpendsNoDay(e, kind, d) ==
    CASE kind = "failed" -> e
      [] kind = "values" -> [known |-> TRUE, allNull |-> {}, last |-> d, covered |-> TRUE]
      [] kind = "all null" ->
            [known |-> TRUE, allNull |-> {d} \cup (IF e.known THEN e.allNull ELSE {}),
             last |-> d, covered |-> FALSE]

RecordProbe(e, kind, d) ==
    CASE kind = "failed" ->
            IF e.known THEN [e EXCEPT !.last = d]
            ELSE [known |-> TRUE, allNull |-> {}, last |-> d, covered |-> FALSE]
      [] kind = "values" -> [known |-> TRUE, allNull |-> {}, last |-> d, covered |-> TRUE]
      [] kind = "all null" ->
            [known |-> TRUE, allNull |-> {d} \cup (IF e.known THEN e.allNull ELSE {}),
             last |-> d, covered |-> FALSE]

\* marineEvidenceFrom: the rows are the fact, the evidence is read out of them.
EvidenceFrom(rows) ==
    IF \A d \in Days : rows[d] = "none" THEN Unknown
    ELSE [known |-> TRUE, allNull |-> {d \in Days : rows[d] = "all null"},
          last |-> Max({d \in Days : rows[d] # "none"}),
          covered |-> \E d \in Days : rows[d] = "values"]

\* probeRowsFrom: the rows an evidence record implies.
Implied(e, d) ==
    IF ~e.known THEN "none"
    ELSE IF d \in e.allNull THEN "all null"
    ELSE IF d # e.last THEN "none"
    ELSE IF e.covered THEN "values" ELSE "failed"

\* Mutant: the rows that are there are updated.
Inserted_Updates(e) ==
    [d \in Days |-> IF Implied(e, d) = "none" THEN probes[d] ELSE Implied(e, d)]

\* onConflictDoNothing: a day that is recorded stays as it is.
Inserted(e) == [d \in Days |-> IF probes[d] = "none" THEN Implied(e, d) ELSE probes[d]]

ProfileFrom(r, rows) ==
    [kind |-> "profile", snow |-> r.snow, marine |-> EvidenceFrom(rows), outdated |-> r.outdated]

----------------------------------------------------------------------------
Moves(i, place) == pc' = [pc EXCEPT ![i] = place]

\* The store fails an operation of i, or i is restarted.
Mishap(i, kind) ==
    /\ MapThenSumSet(LAMBDA m : mishaps[m[1]][m[2]], Instances \X Mishaps) < MaxMishaps
    /\ mishaps' = [mishaps EXCEPT ![i][kind] = @ + 1]

\* The computation of i is over: what it held is dropped.
Returns(i, given) ==
    /\ Moves(i, "idle")
    /\ answer' = [answer EXCEPT ![i] = given]
    /\ read' = [read EXCEPT ![i] = NoRow]
    /\ stored' = [stored EXCEPT ![i] = NoProfile]
    /\ gathered' = [gathered EXCEPT ![i] = NothingGathered]

\* profileFor: a request that finds a computation under way joins it.
ProfileFor(i) ==
    /\ pc[i] = "idle"
    /\ requests < MaxRequests
    /\ requests' = requests + 1
    /\ Moves(i, "finding")
    /\ answer' = [answer EXCEPT ![i] = NoProfile]
    /\ UNCHANGED <<today, row, probes, mirror, cached, read, stored, day, gathered, heard,
                   spent, mishaps>>

\* With the profile found, or not: the place itself is saved first if it is new.
Found(i, profile) ==
    /\ stored' = [stored EXCEPT ![i] = profile]
    /\ Moves(i, IF profile = NoProfile THEN "placing" ELSE "snow")

\* `find`, the first select.
FindRow(i) ==
    /\ pc[i] = "finding"
    /\ IF row = NoRow
       THEN /\ mirror' = [mirror EXCEPT ![i] = NoProfile]
            /\ Found(i, NoProfile)
            /\ UNCHANGED read
       ELSE /\ read' = [read EXCEPT ![i] = row]
            /\ Moves(i, "finding probes")
            /\ UNCHANGED <<mirror, stored>>
    /\ UNCHANGED <<today, row, probes, cached, day, gathered, answer, heard, spent,
                   requests, mishaps>>

\* `find`, the second select.
FindProbes(i) ==
    /\ pc[i] = "finding probes"
    /\ mirror' = [mirror EXCEPT ![i] = ProfileFrom(read[i], probes)]
    /\ Found(i, ProfileFrom(read[i], probes))
    /\ UNCHANGED <<today, row, probes, cached, read, day, gathered, answer, heard, spent,
                   requests, mishaps>>

\* Either select finds the store unavailable: the mirror answers.
FindDegraded(i) ==
    /\ pc[i] \in {"finding", "finding probes"}
    /\ Mishap(i, "store")
    /\ Found(i, mirror[i])
    /\ UNCHANGED <<today, row, probes, mirror, cached, read, day, gathered, answer, heard,
                   spent, requests>>

\* A select the store refused, or a new place it did not take.
Unprofilable(i) ==
    /\ pc[i] \in {"finding", "finding probes", "placing"}
    /\ Mishap(i, "store")
    /\ Returns(i, Refused)
    /\ UNCHANGED <<today, row, probes, mirror, cached, day, heard, spent, requests>>

SavePlace(i) ==
    /\ pc[i] = "placing"
    /\ Moves(i, "snow")
    /\ UNCHANGED <<today, row, probes, mirror, cached, read, stored, day, gathered, answer,
                   heard, spent, requests, mishaps>>

----------------------------------------------------------------------------
(***************************************************************************)
(* Gathering.                                                              *)
(***************************************************************************)
StoredSnow(i) == IF stored[i] = NoProfile THEN Unknown ELSE stored[i].snow
StoredMarine(i) == IF stored[i] = NoProfile THEN Unknown ELSE stored[i].marine

\* SnowSeasonService.evidence: the archive, a guess, or nothing without an elevation.
SnowGathered(d) == {Archive, Guess(d), Unknown}

\* snowEvidence, and before it the day is read.
GatherSnow(i) ==
    LET known == StoredSnow(i)
    IN  /\ pc[i] = "snow"
        /\ day' = [day EXCEPT ![i] = today]
        /\ \/ /\ "snowSeason" \notin Declared
              /\ gathered' = [gathered EXCEPT ![i].changed = known.known]
           \/ /\ "snowSeason" \in Declared /\ ~NeedsArchive(known, today)
              /\ gathered' = [gathered EXCEPT ![i].snow = known]
           \/ /\ "snowSeason" \in Declared /\ NeedsArchive(known, today)
              /\ \E e \in SnowGathered(today) :
                    gathered' = [gathered EXCEPT ![i].snow = e,
                                                 ![i].changed = e.known \/ known.known]
        /\ IF day[i] = today THEN UNCHANGED <<spent, mishaps>>
           ELSE /\ spent' = [spent EXCEPT ![i] = 0]
                /\ mishaps' = [mishaps EXCEPT ![i] = NoMishaps]
        /\ Moves(i, "marine")
        /\ UNCHANGED <<today, row, probes, mirror, cached, read, stored, answer, heard,
                       requests>>

\* The profile the computation offers, once it has the marine evidence e.
Offers(i, e, changed) ==
    gathered' = [gathered EXCEPT ![i].marine = e, ![i].changed = @ \/ changed]

(***************************************************************************)
(* What the cached marine port gives: an answer of the source, kept unless *)
(* it is a fault; or the answer it keeps, however many midnights ago it    *)
(* was given, which a refresh may replace behind it.                       *)
(***************************************************************************)
FreshAnswer(i) ==
    \E kind \in Readings :
        /\ IF kind = "failed" THEN UNCHANGED <<heard, cached>>
           ELSE /\ heard' = heard \cup {[on |-> today, for |-> day[i], kind |-> kind]}
                /\ cached' = [cached EXCEPT ![i] = [kind |-> kind, on |-> today]]
        /\ Offers(i, RecordProbe(StoredMarine(i), kind, day[i]), TRUE)

CachedAnswer(i) ==
    /\ cached[i] # NotCached
    /\ today - cached[i].on <= CacheDays
    /\ heard' = heard \cup {[on |-> cached[i].on, for |-> day[i], kind |-> cached[i].kind]}
    /\ cached' \in {cached} \cup
          {[cached EXCEPT ![i] = [kind |-> kind, on |-> today]] : kind \in Answers}
    /\ Offers(i, RecordProbe(StoredMarine(i), cached[i].kind, day[i]), TRUE)

Probe(i) ==
    /\ pc[i] = "marine"
    /\ "marineCoverage" \in Declared
    /\ NeedsProbe(StoredMarine(i), day[i])
    /\ FreshAnswer(i) \/ CachedAnswer(i)
    /\ spent' = [spent EXCEPT ![i] = @ + 1]
    /\ Moves(i, "saving")
    /\ UNCHANGED <<today, row, probes, mirror, read, stored, day, answer, requests,
                   mishaps>>

\* The known evidence is enough, or the rule is declared by nobody.
NoProbe(i) ==
    LET known == StoredMarine(i)
        dropped == "marineCoverage" \notin Declared /\ known.known
        idle == /\ stored[i] # NoProfile /\ ~stored[i].outdated
                /\ ~gathered[i].changed /\ ~dropped
    IN  /\ pc[i] = "marine"
        /\ "marineCoverage" \in Declared => ~NeedsProbe(known, day[i])
        /\ IF idle THEN Returns(i, stored[i])
           ELSE /\ Offers(i, IF dropped THEN Unknown ELSE known, dropped)
                /\ Moves(i, "saving")
                /\ UNCHANGED <<read, stored, answer>>
        /\ UNCHANGED <<today, row, probes, mirror, cached, day, heard, spent, requests,
                       mishaps>>

----------------------------------------------------------------------------
(***************************************************************************)
(* Saving.                                                                 *)
(***************************************************************************)
Offered(i) == [kind |-> "profile", snow |-> gathered[i].snow, marine |-> gathered[i].marine,
               outdated |-> FALSE]

\* The transaction: the row is replaced, the probes are inserted.
Commit(i) ==
    /\ row' = [kind |-> "row", snow |-> gathered[i].snow, outdated |-> FALSE]
    /\ probes' = Inserted(gathered[i].marine)

Save(i) ==
    /\ pc[i] = "saving"
    /\ Commit(i)
    /\ Moves(i, "reading back")
    /\ UNCHANGED <<today, mirror, cached, read, stored, day, gathered, answer, heard, spent,
                   requests, mishaps>>

\* Mutant: the profile is answered from memory, whoever knows the place.
AnswerUnsaved_Offered(i) == Offered(i)

\* A known place is answered from what was known; a new one is refused.
AnswerUnsaved(i) == IF stored[i] = NoProfile THEN Refused ELSE stored[i]

\* The transaction failed, or only the answer to its commit was lost.
SaveFails(i) ==
    /\ pc[i] = "saving"
    /\ Mishap(i, "profile")
    /\ Commit(i) \/ UNCHANGED <<row, probes>>
    /\ Returns(i, AnswerUnsaved(i))
    /\ UNCHANGED <<today, mirror, cached, day, heard, spent, requests>>

ReadBackRow(i) ==
    /\ pc[i] = "reading back"
    /\ read' = [read EXCEPT ![i] = row]
    /\ Moves(i, "reading back probes")
    /\ UNCHANGED <<today, row, probes, mirror, cached, stored, day, gathered, answer, heard,
                   spent, requests, mishaps>>

\* The mirror takes what is recorded; the caller is given what was offered.
ReadBackProbes(i) ==
    /\ pc[i] = "reading back probes"
    /\ mirror' = [mirror EXCEPT ![i] = ProfileFrom(read[i], probes)]
    /\ Returns(i, Offered(i))
    /\ UNCHANGED <<today, row, probes, cached, day, heard, spent, requests, mishaps>>

ReadBackFails(i) ==
    /\ pc[i] \in {"reading back", "reading back probes"}
    /\ Mishap(i, "store")
    /\ mirror' = [mirror EXCEPT ![i] = Offered(i)]
    /\ Returns(i, Offered(i))
    /\ UNCHANGED <<today, row, probes, cached, day, heard, spent, requests>>

----------------------------------------------------------------------------
\* The process of i is restarted: its memory is gone.
Restart(i) ==
    /\ Mishap(i, "restart")
    /\ Returns(i, NoProfile)
    /\ mirror' = [mirror EXCEPT ![i] = NoProfile]
    /\ cached' = [cached EXCEPT ![i] = NotCached]
    /\ UNCHANGED <<today, row, probes, day, heard, spent, requests>>

Tick ==
    /\ today < LastDay
    /\ today' = today + 1
    /\ UNCHANGED <<row, probes, mirror, cached, pc, read, stored, day, gathered, answer,
                   heard, spent, requests, mishaps>>

Finding(i) ==
    FindRow(i) \/ FindProbes(i) \/ FindDegraded(i) \/ Unprofilable(i) \/ SavePlace(i)

Gathering(i) == GatherSnow(i) \/ Probe(i) \/ NoProbe(i)

Saving(i) ==
    Save(i) \/ SaveFails(i) \/ ReadBackRow(i) \/ ReadBackProbes(i) \/ ReadBackFails(i)

Next ==
    \/ \E i \in Instances :
          ProfileFor(i) \/ Finding(i) \/ Gathering(i) \/ Saving(i) \/ Restart(i)
    \/ Tick

Spec == Init /\ [][Next]_vars

----------------------------------------------------------------------------
\* "A place it merely computed a profile for and failed to store is not known"
\* (db-profile.store.ts): whatever an instance mirrors or answers a profile
\* for is a place the store durably holds, whichever operation failed.
KnownIsDurable ==
    \A i \in Instances :
        mirror[i] # NoProfile \/ answer[i] \in Profiles => row # NoRow

\* Evidence is never invented: every all-null day, in the store, in a mirror or
\* in an answer, is a day a probe read the sea as empty for, and coverage was
\* seen by a probe; no fault, race or restart makes either.
Rests(e) ==
    e.known =>
        /\ \A d \in e.allNull : \E h \in heard : h.for = d /\ h.kind = "all null"
        /\ e.covered => \E h \in heard : h.kind = "values"

NothingInvented ==
    /\ Rests(EvidenceFrom(probes))
    /\ \A i \in Instances :
          /\ mirror[i] # NoProfile => Rests(mirror[i].marine)
          /\ answer[i] \in Profiles => Rests(answer[i].marine)

\* "At most once a day": whatever else fails, and however the source answers, an
\* instance probes for a day again only after the transaction with what it had found
\* failed, or a restart, on that day; each costs one probe (location-profile.ts:229-233).
ProbesArePaced ==
    \A i \in Instances : spent[i] <= 1 + mishaps[i]["profile"] + mishaps[i]["restart"]

\* "What is lost is the freshly gathered evidence, which costs one more probe
\* tomorrow - not an answer today" (location-profile.service.ts:150-152): once the
\* transaction of a known place failed, the source is not asked again that day.
LostEvidenceWaitsForTomorrow ==
    [][\A i \in Instances :
          spent'[i] > spent[i] /\ stored[i] # NoProfile /\ cached[i] = NotCached
              => mishaps[i]["profile"] = 0]_vars

\* "Coverage observed is coverage settled": once the store records it, no
\* instance, however stale what it found, takes it back.
CoverageIsSettled ==
    [][Verdict(EvidenceFrom(probes)) = "applicable"
          => Verdict(EvidenceFrom(probes')) = "applicable"]_probes

\* "Confirmation SHALL require a second all-null response obtained on a different
\* day" (location-applicability): a place is said to have no coastline only when
\* the source answered so on as many days as are required.
ConfirmedOnDifferentDays ==
    \A i \in Instances :
        answer[i] \in Profiles /\ Verdict(answer[i].marine) = "not applicable" =>
            Cardinality({h.on : h \in {g \in heard : g.kind = "all null"}}) >= Confirmations
=============================================================================
