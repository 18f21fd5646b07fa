----------------------------- MODULE Catalogue -----------------------------
(***************************************************************************)
(* The published versions of the rules (infrastructure/db/seed/publish.ts) *)
(* and the copy an instance answers from                                   *)
(* (modules/activities/adapters/store-catalogue.ts).                       *)
(*                                                                         *)
(* A version is a pair of a code and a number; what it says is one of      *)
(* Contents.  The refresh behind the requests is a call of its own, with   *)
(* the two selects it makes as separate steps, and publishers are deploys  *)
(* that run beside the instance and beside each other.                     *)
(***************************************************************************)
EXTENDS Naturals, Sequences, FiniteSets

CONSTANTS
    Codes,       \* activities
    Numbers,     \* version numbers
    Contents,    \* declarations, shared rules included, up to canonical form
    Readable,    \* those the build of the instance loads without a fault
    Publishers,  \* publication steps of deploys
    Manifest,    \* Manifest[p]: what a deploy publishes, [version, content] in order
    Checks,      \* names for the promises of refresh
    Lifetime,    \* lifetimeMs, in ticks
    Seeded,      \* the tables an instance may find when it starts
    None         \* an absent row

ASSUME CatalogueAssumption ==
    /\ Numbers \subseteq Nat /\ IsFiniteSet(Numbers)
    /\ None \notin Contents
    /\ Readable \subseteq Contents
    /\ Seeded \subseteq [Codes \X Numbers -> Readable \cup {None}]
    /\ Lifetime \in Nat
    /\ Manifest \in [Publishers -> Seq([version : Codes \X Numbers, content : Contents])]

VARIABLES
    table,      \* table[v]: the content of the row of version v
    index,      \* index[v]: the definitions IndexedCatalogue was built from
    age,        \* now() - checkedAt, up to Lifetime
    check,      \* check[c]: a promise of refresh, settled ones being "none"
    publisher   \* publisher[p]: what a publication has left to do

catVars == <<table, index, age, check, publisher>>

Versions == Codes \X Numbers
Rows == [Versions -> Contents \cup {None}]

CheckStates ==
    [phase : {"none", "comparing", "reading"}, rows : {None}]
    \cup [phase : {"resolving"}, rows : Rows]

PublisherStates ==
    [phase : {"idle", "looking", "inserting"},
     todo : Seq([version : Versions, content : Contents]),
     done : SUBSET [version : Versions, content : Contents],
     outcome : {"none", "ok", "conflict", "failed"}]

CatTypeOK ==
    /\ table \in Rows
    /\ index \in Rows
    /\ age \in 0..Lifetime
    /\ check \in [Checks -> CheckStates]
    /\ publisher \in [Publishers -> PublisherStates]

Settled == [phase |-> "none", rows |-> None]
Live(c) == check[c].phase # "none"
Free == CHOOSE c \in Checks : ~Live(c)

\* A catalogue that does not load stops the start, so every row is readable.
\* A publication has not begun, or an earlier one has already ended.
CatInit ==
    /\ table \in Seeded
    /\ index = table
    /\ age = 0
    /\ check = [c \in Checks |-> Settled]
    /\ publisher = [p \in Publishers |->
                      [phase |-> "idle", todo |-> <<>>, done |-> {}, outcome |-> "none"]]

----------------------------------------------------------------------------
(***************************************************************************)
(* IndexedCatalogue.                                                       *)
(***************************************************************************)
NumbersOf(rows, code) == {n \in Numbers : rows[<<code, n>>] # None}

\* The highest version of an activity, which is the one that is ranked; 0 is
\* what versionOf of an absent activity reads as.
ActiveNumber(rows, code) ==
    IF NumbersOf(rows, code) = {} THEN 0
    ELSE CHOOSE n \in NumbersOf(rows, code) : \A m \in NumbersOf(rows, code) : m <= n

ActiveCodes(rows) == {code \in Codes : NumbersOf(rows, code) # {}}

Definition(rows, code) == rows[<<code, ActiveNumber(rows, code)>>]

Invalid(rows) == \E v \in Versions : rows[v] # None /\ rows[v] \notin Readable

----------------------------------------------------------------------------
(***************************************************************************)
(* The refresh.                                                            *)
(***************************************************************************)

\* Mutant: a check is started although one is in flight.
ScheduleCheck_Another ==
    IF age = Lifetime /\ \E c \in Checks : ~Live(c)
    THEN check' = [check EXCEPT ![Free].phase = "comparing"]
    ELSE UNCHANGED check

\* Whoever reads the catalogue starts a check if the copy has aged and none is
\* in flight, and does not wait for it.
ScheduleCheck ==
    IF age = Lifetime /\ \A c \in Checks : ~Live(c)
    THEN check' = [check EXCEPT ![Free].phase = "comparing"]
    ELSE UNCHANGED check

\* A request that consults the catalogue and whose answer does not matter here.
Consult ==
    /\ ScheduleCheck
    /\ UNCHANGED <<table, index, age, publisher>>

\* Mutant: a new activity is noticed, and a new version of one is not.
Changed_NewCodesOnly == ActiveCodes(table) # ActiveCodes(index)

\* max(version) per code, against the versions of the copy.
Changed ==
    \/ ActiveCodes(table) # ActiveCodes(index)
    \/ \E code \in ActiveCodes(table) : ActiveNumber(table, code) # ActiveNumber(index, code)

Compare(c) ==
    /\ check[c].phase = "comparing"
    /\ age' = 0
    /\ check' = [check EXCEPT ![c] = IF Changed THEN [Settled EXCEPT !.phase = "reading"]
                                                ELSE Settled]
    /\ UNCHANGED <<table, index, publisher>>

ReadRows(c) ==
    /\ check[c].phase = "reading"
    /\ check' = [check EXCEPT ![c] = [phase |-> "resolving", rows |-> table]]
    /\ UNCHANGED <<table, index, age, publisher>>

\* Every row is revalidated, and one that does not load costs the whole read.
Reload(c) ==
    /\ check[c].phase = "resolving"
    /\ ~Invalid(check[c].rows)
    /\ index' = check[c].rows
    /\ check' = [check EXCEPT ![c] = Settled]
    /\ UNCHANGED <<table, age, publisher>>

\* The store does not answer one of the selects, or a row does not load: the
\* copy in memory stays, and the next check is a lifetime away.
RefreshFails(c) ==
    /\ \/ check[c].phase \in {"comparing", "reading"}
       \/ check[c].phase = "resolving" /\ Invalid(check[c].rows)
    /\ age' = 0
    /\ check' = [check EXCEPT ![c] = Settled]
    /\ UNCHANGED <<table, index, publisher>>

----------------------------------------------------------------------------
(***************************************************************************)
(* publishVersions, one version after the other and without a transaction. *)
(***************************************************************************)
StartPublishing(p) ==
    /\ publisher[p].phase = "idle"
    /\ publisher' = [publisher EXCEPT ![p] =
          [phase |-> "looking", todo |-> Manifest[p], done |-> {}, outcome |-> "none"]]
    /\ UNCHANGED <<table, index, age, check>>

Next1(p) == Head(publisher[p].todo)

Ends(p, outcome) ==
    publisher' = [publisher EXCEPT ![p] =
        [phase |-> "idle", todo |-> <<>>, outcome |-> outcome,
         done |-> IF outcome = "ok" THEN @.done ELSE {}]]

\* One version is as the deploy wants it: on to the rest.
Advance(p) ==
    publisher' = [publisher EXCEPT ![p].phase = "looking", ![p].todo = Tail(@),
                                   ![p].done = @ \cup {Next1(p)}]

\* The select of the version: absent, identical, or something else.
Look(p) ==
    /\ publisher[p].phase = "looking"
    /\ IF publisher[p].todo = <<>> THEN Ends(p, "ok")
       ELSE LET stored == table[Next1(p).version]
            IN  \/ /\ stored = None
                   /\ publisher' = [publisher EXCEPT ![p].phase = "inserting"]
                \/ /\ stored = Next1(p).content
                   /\ Advance(p)
                \/ /\ stored \notin {None, Next1(p).content}
                   /\ Ends(p, "conflict")
    /\ UNCHANGED <<table, index, age, check>>

\* Mutant: the insert is an upsert.
Insert_Overwrites(p) ==
    /\ publisher[p].phase = "inserting"
    /\ table' = [table EXCEPT ![Next1(p).version] = Next1(p).content]
    /\ Advance(p)
    /\ UNCHANGED <<index, age, check>>

\* Mutant: the insert does nothing on a conflict, and is taken for done.
Insert_IgnoresConflict(p) ==
    /\ publisher[p].phase = "inserting"
    /\ table' = [table EXCEPT ![Next1(p).version] = IF @ = None THEN Next1(p).content ELSE @]
    /\ Advance(p)
    /\ UNCHANGED <<index, age, check>>

\* The identity of the row is computed from the version, so a row another
\* deploy has inserted since violates the primary key, whatever it says.
Insert(p) ==
    /\ publisher[p].phase = "inserting"
    /\ IF table[Next1(p).version] = None
       THEN /\ table' = [table EXCEPT ![Next1(p).version] = Next1(p).content]
            /\ Advance(p)
       ELSE /\ Ends(p, "failed")
            /\ UNCHANGED table
    /\ UNCHANGED <<index, age, check>>

\* The store stops answering: what was published stays.
PublishFails(p) ==
    /\ publisher[p].phase # "idle"
    /\ Ends(p, "failed")
    /\ UNCHANGED <<table, index, age, check>>

Tick ==
    /\ age < Lifetime
    /\ age' = age + 1
    /\ UNCHANGED <<table, index, check, publisher>>

CatNext ==
    \/ Consult \/ Tick
    \/ \E c \in Checks : Compare(c) \/ ReadRows(c) \/ Reload(c) \/ RefreshFails(c)
    \/ \E p \in Publishers : StartPublishing(p) \/ Look(p) \/ Insert(p) \/ PublishFails(p)

\* Requests keep coming, the clock runs, and a store that is asked again and
\* again does not fail every time.
CatFairness ==
    /\ WF_catVars(Consult) /\ WF_catVars(Tick)
    /\ SF_catVars(\E c \in Checks : Compare(c))
    /\ SF_catVars(\E c \in Checks : ReadRows(c))
    /\ WF_catVars(\E c \in Checks : Reload(c))

CatSpec == CatInit /\ [][CatNext]_catVars /\ CatFairness

----------------------------------------------------------------------------
(***************************************************************************)
(* Properties.                                                             *)
(***************************************************************************)

\* What a published version says never changes, however many deploys publish
\* at once (publish.ts:21-28).
PublishedIsImmutable ==
    [][\A v \in Versions : table[v] # None => table'[v] = table[v]]_table

\* A deploy that is told its publication succeeded has every version it named
\* in the store, saying what it said.
PublishedMeansStored ==
    \A p \in Publishers : publisher[p].outcome = "ok" =>
        \A d \in publisher[p].done : table[d.version] = d.content

\* A version an instance can reach stays reachable and says the same, across
\* reloads that overlap with deploys: what a past computation names can be
\* read again, and the version in force never goes back
\* (indexed-catalogue.ts:20-22, store-catalogue.ts:86-93).
ReachableStaysReachable ==
    [][\A v \in Versions : index[v] # None => index'[v] = index[v]]_index

\* While no published row is beyond this build, the newest version of every
\* activity comes into force, although nobody waits for the checks that find it.
NewestComesIntoForce ==
    \A code \in Codes :
        []<>(\/ Invalid(table)
             \/ ActiveNumber(index, code) = ActiveNumber(table, code))
=============================================================================
