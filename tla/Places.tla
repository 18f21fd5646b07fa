------------------------------- MODULE Places -------------------------------
(***************************************************************************)
(* From a name or a point to a stored place: the cache in front of the     *)
(* place lookup (cached-place-lookup.port.ts), the choice among what it    *)
(* offers (location-resolver.service.ts) and the rows of the places that   *)
(* were resolved (db-location.store.ts).                                   *)
(*                                                                         *)
(* A name stands for its cache key, that is, for every spelling that folds *)
(* to it; a cell stands for a pair of rounded coordinates, the identity of *)
(* a place.  The attributes a row keeps when the incoming place has none   *)
(* (country, admin1, elevation, population) are one field, country.        *)
(***************************************************************************)
EXTENDS Freshness, Integers, Sequences, FiniteSets

CONSTANTS
    Callers,        \* requests being resolved
    Names,          \* cache keys of place names
    Cells,          \* cells of the grid on Earth
    Candidates,     \* [id, cell, population, country, timezone]
    Replies,        \* what the source may answer with: sequences of candidates
    TTL,            \* placeLifetime, its ttl and maxStale being one value
    NegativeTTL,    \* placeNegativeLifetime
    MaxNow,         \* bound: the last moment of a behaviour
    None            \* an absent value: undefined, NULL or an empty slot

ASSUME PlacesAssumption ==
    /\ {TTL, NegativeTTL} \subseteq Nat \ {0}
    /\ MaxNow \in Nat
    /\ None \notin Nat
    /\ Replies \subseteq Seq(Candidates)
    /\ \A c \in Candidates :
          /\ {"id", "cell", "population", "country", "timezone"} \subseteq DOMAIN c
          /\ c.population \in Nat \cup {None}
          /\ c.id # None
          /\ c.timezone # "auto"

VARIABLES
    now,        \* the clock of the process
    known,      \* known[n]: what the source would answer about n
    unknownFor, \* ghost: how long ago the source last knew nothing of n, up to
                \* NegativeTTL
    entry,      \* entry[n]: the record of the cache
    flight,     \* the names with a call of the single flight under way
    pc,         \* "idle", "deciding", "waiting"
    asked,      \* the name a caller asked for
    found,      \* what the cache had given it
    result,     \* the resolution it was last given
    rows        \* rows[c]: the row of the location store

vars == <<now, known, unknownFor, entry, flight, pc, asked, found, result, rows>>

Records == [payload : Replies, freshUntil : Nat, expiresAt : Nat]

Ids == {c.id : c \in Candidates}
Countries == {c.country : c \in Candidates} \cup {None}
Zones == {c.timezone : c \in Candidates} \cup {"auto"}

\* A place with no candidate behind it is called by its cell.
Locations == [cell : Cells, name : Ids \cup Cells, placeId : Ids \cup {None},
              country : Countries, timezone : Zones]

Refused(code) == [code |-> code, place |-> None]
Placed(place) == [code |-> "ok", place |-> place]
Results ==
    {Placed(l) : l \in Locations}
    \cup {Refused(code) : code \in {"PROVIDER_UNAVAILABLE", "LOCATION_NOT_FOUND",
                                     "INVALID_COORDINATES"}}

ASSUME PlaceAssumption == None \notin Locations

TypeOK ==
    /\ now \in 0..MaxNow
    /\ known \in [Names -> Replies]
    /\ unknownFor \in [Names -> 0..NegativeTTL]
    /\ entry \in [Names -> Records \cup {None}]
    /\ flight \subseteq Names
    /\ pc \in [Callers -> {"idle", "deciding", "waiting"}]
    /\ asked \in [Callers -> Names \cup {None}]
    /\ found \in [Callers -> Records \cup {None}]
    /\ result \in [Callers -> Results \cup {None}]
    /\ rows \in [Cells -> Locations \cup {None}]

\* The source may have known a name for long: nothing is assumed empty at 0.
Init ==
    /\ now = 0
    /\ known \in [Names -> Replies]
    /\ unknownFor = [n \in Names |-> IF known[n] = <<>> THEN 0 ELSE NegativeTTL]
    /\ entry = [n \in Names |-> None]
    /\ flight = {}
    /\ pc = [p \in Callers |-> "idle"]
    /\ asked = [p \in Callers |-> None]
    /\ found = [p \in Callers |-> None]
    /\ result = [p \in Callers |-> None]
    /\ rows = [c \in Cells |-> None]

----------------------------------------------------------------------------
(***************************************************************************)
(* Pure parts.                                                             *)
(***************************************************************************)
Population(c) == IF c.population = None THEN 0 ELSE c.population

Beats(a, b) == Population(a) > Population(b)

\* The reduce over the candidates: the first that none of the others beats.
MostPopulous(candidates) ==
    candidates[CHOOSE i \in DOMAIN candidates :
                  \A j \in DOMAIN candidates :
                      /\ ~Beats(candidates[j], candidates[i])
                      /\ j < i => Beats(candidates[i], candidates[j])]

FromCoordinates(cell) ==
    IF cell \notin Cells THEN Refused("INVALID_COORDINATES")
    ELSE Placed([cell |-> cell, name |-> cell, placeId |-> None,
                 country |-> None, timezone |-> "auto"])

Resolved(candidates) ==
    LET chosen == MostPopulous(candidates)
    IN  IF candidates = <<>> THEN Refused("LOCATION_NOT_FOUND")
        ELSE IF chosen.cell \notin Cells THEN Refused("INVALID_COORDINATES")
        ELSE Placed([cell |-> chosen.cell, name |-> chosen.id, placeId |-> chosen.id,
                     country |-> chosen.country, timezone |-> chosen.timezone])

\* Mutant: a name that resolved to nothing is kept as long as one that did.
Lifetime_OneForAll(candidates) == TTL

Lifetime(candidates) == IF candidates = <<>> THEN NegativeTTL ELSE TTL

NewEntry(candidates) ==
    [payload |-> candidates,
     freshUntil |-> FreshUntil(now, Lifetime(candidates)),
     expiresAt |-> ExpiresAt(now, Lifetime(candidates))]

Servable(record) ==
    /\ record # None
    /\ now < record.freshUntil
    /\ now < record.expiresAt

Coalesce(incoming, stored) == IF incoming = None THEN stored ELSE incoming

\* Mutant: the incoming name is taken as it is.
Merged_Renames(new, old) ==
    [old EXCEPT !.name = new.name,
                !.placeId = Coalesce(new.placeId, @),
                !.country = Coalesce(new.country, @),
                !.timezone = IF new.timezone = "auto" THEN @ ELSE new.timezone]

\* Mutant: an upsert that overwrites every column.
Merged_Overwrites(new, old) == new

\* onConflictDoUpdate: the stored row wins wherever the incoming one knows less.
Merged(new, old) ==
    [old EXCEPT !.name = IF new.placeId = None THEN @ ELSE new.name,
                !.placeId = Coalesce(new.placeId, @),
                !.country = Coalesce(new.country, @),
                !.timezone = IF new.timezone = "auto" THEN @ ELSE new.timezone]

----------------------------------------------------------------------------
(***************************************************************************)
(* A caller.                                                               *)
(***************************************************************************)

\* MemoryCache.get of the key of the name; a read that fails reads as nothing.
AskName(p) ==
    /\ pc[p] = "idle"
    /\ \E n \in Names, lost \in BOOLEAN :
          /\ asked' = [asked EXCEPT ![p] = n]
          /\ found' = [found EXCEPT ![p] = IF lost THEN None ELSE entry[n]]
    /\ pc' = [pc EXCEPT ![p] = "deciding"]
    /\ result' = [result EXCEPT ![p] = None]
    /\ UNCHANGED <<now, known, unknownFor, entry, flight, rows>>

AskPoint(p) ==
    /\ pc[p] = "idle"
    /\ \E cell \in Cells \cup {"nowhere"} :
          result' = [result EXCEPT ![p] = FromCoordinates(cell)]
    /\ UNCHANGED <<now, known, unknownFor, entry, flight, pc, asked, found, rows>>

Hit(p) ==
    /\ pc[p] = "deciding"
    /\ Servable(found[p])
    /\ result' = [result EXCEPT ![p] = Resolved(found[p].payload)]
    /\ pc' = [pc EXCEPT ![p] = "idle"]
    /\ asked' = [asked EXCEPT ![p] = None]
    /\ found' = [found EXCEPT ![p] = None]
    /\ UNCHANGED <<now, known, unknownFor, entry, flight, rows>>

\* flight.run: the caller joins the call for its name, or starts it.
Miss(p) ==
    /\ pc[p] = "deciding"
    /\ ~Servable(found[p])
    /\ flight' = flight \cup {asked[p]}
    /\ pc' = [pc EXCEPT ![p] = "waiting"]
    /\ found' = [found EXCEPT ![p] = None]
    /\ UNCHANGED <<now, known, unknownFor, entry, asked, result, rows>>

----------------------------------------------------------------------------
(***************************************************************************)
(* The call of a name settles: everyone who awaits it is given its result. *)
(***************************************************************************)
Settle(n, resolution) ==
    LET waiting == {p \in Callers : pc[p] = "waiting" /\ asked[p] = n}
    IN  /\ n \in flight
        /\ flight' = flight \ {n}
        /\ result' = [p \in Callers |-> IF p \in waiting THEN resolution ELSE result[p]]
        /\ pc' = [p \in Callers |-> IF p \in waiting THEN "idle" ELSE pc[p]]
        /\ asked' = [p \in Callers |-> IF p \in waiting THEN None ELSE asked[p]]
        /\ UNCHANGED <<now, known, unknownFor, found, rows>>

\* The write may fail, which guardCache swallows: the older record stays.
SourceAnswers(n) ==
    /\ Settle(n, Resolved(known[n]))
    /\ \/ entry' = [entry EXCEPT ![n] = NewEntry(known[n])]
       \/ UNCHANGED entry

\* Mutant: a failed lookup is remembered as a name that matches nothing.
SourceFails_Remembered(n) ==
    /\ Settle(n, Refused("PROVIDER_UNAVAILABLE"))
    /\ entry' = [entry EXCEPT ![n] = NewEntry(<<>>)]

\* A lookup that failed is not cached at all.
SourceFails(n) ==
    /\ Settle(n, Refused("PROVIDER_UNAVAILABLE"))
    /\ UNCHANGED entry

----------------------------------------------------------------------------
(***************************************************************************)
(* The profile computation saves the place a caller resolved, if it finds  *)
(* no profile of it (location-profile.service.ts:103-108).                 *)
(***************************************************************************)
Save(p) ==
    /\ pc[p] = "idle"
    /\ result[p] # None
    /\ result[p].code = "ok"
    /\ LET new == result[p].place
           old == rows[new.cell]
       IN  rows' = [rows EXCEPT ![new.cell] = IF old = None THEN new ELSE Merged(new, old)]
    /\ result' = [result EXCEPT ![p] = None]
    /\ UNCHANGED <<now, known, unknownFor, entry, flight, pc, asked, found>>

----------------------------------------------------------------------------
(***************************************************************************)
(* The clock, and the source's own data.                                   *)
(***************************************************************************)
Later(age) == IF age < NegativeTTL THEN age + 1 ELSE age

Tick ==
    /\ now < MaxNow
    /\ now' = now + 1
    /\ unknownFor' = [n \in Names |-> IF known[n] = <<>> THEN 0 ELSE Later(unknownFor[n])]
    /\ UNCHANGED <<known, entry, flight, pc, asked, found, result, rows>>

SourceLearns(n) ==
    /\ \E r \in Replies :
          /\ known' = [known EXCEPT ![n] = r]
          /\ unknownFor' = [unknownFor EXCEPT ![n] = IF r = <<>> THEN 0 ELSE @]
    /\ UNCHANGED <<now, entry, flight, pc, asked, found, result, rows>>

Next ==
    \/ \E p \in Callers : AskName(p) \/ AskPoint(p) \/ Hit(p) \/ Miss(p) \/ Save(p)
    \/ \E n \in Names : SourceAnswers(n) \/ SourceFails(n) \/ SourceLearns(n)
    \/ Tick

Spec == Init /\ [][Next]_vars

----------------------------------------------------------------------------
(***************************************************************************)
(* Properties.                                                             *)
(***************************************************************************)

\* Who is told that no place has a name is told so of a name the source knew
\* nothing about less than the negative lifetime ago: an outage never becomes
\* a place that does not exist, and a name that has come to exist is not held
\* back (cached-place-lookup.port.ts:16-20, 36-38).
ToldAbsent(p) ==
    pc[p] # "idle" /\ pc'[p] = "idle" /\ result'[p] = Refused("LOCATION_NOT_FOUND")

AbsenceIsRecent ==
    [][\A p \in Callers : ToldAbsent(p) => unknownFor[asked[p]] < NegativeTTL]_vars

\* A row is called by the name of the place whose identifier it carries, or by
\* its cell when it carries none, although the two columns are kept by
\* different rules (db-location.store.ts:93, 99).
NamesMatchTheirIds ==
    \A c \in Cells : rows[c] # None =>
        rows[c].name = IF rows[c].placeId = None THEN c ELSE rows[c].placeId

\* In whatever order places of a cell are resolved and saved, no attribute of
\* a row that was known is ever unknown again (db-location.store.ts:26-29).
KeepsKnowledge(old, new) ==
    /\ new # None
    /\ old.placeId # None => new.placeId # None
    /\ old.country # None => new.country # None
    /\ old.timezone # "auto" => new.timezone # "auto"

StoredPlaceIsKept ==
    [][\A c \in Cells : rows[c] # None => KeepsKnowledge(rows[c], rows'[c])]_vars
=============================================================================
