--------------------------- MODULE Ranking_proofs ---------------------------
(***************************************************************************)
(* Proofs about the catalogue and the requests that read it, for any       *)
(* activities, rules, profiles, versions, deploys, checks and requests.    *)
(*                                                                         *)
(* Of Catalogue: what is published never changes, and what an instance     *)
(* answers from only grows.  The copy of an instance is compared with the  *)
(* store across two selects and replaced later still, so the second needs  *)
(* an invariant about the rows a check still holds: they lie between the   *)
(* copy and the store, and no other check is there to have moved the copy. *)
(*                                                                         *)
(* Of Ranking: a request is one more reader of the catalogue, so everything*)
(* proved of the catalogue holds of the composition; and the audit record, *)
(* stamped with versions some of which are read long after the plan, names *)
(* versions that are published and never older than the plan's.  And what  *)
(* gather merges is some of the series that came, each of them whole, so   *)
(* that a failure reaches only who needs what failed.                      *)
(***************************************************************************)
EXTENDS Ranking, FiniteSetTheorems, WellFoundedInduction, TLAPS

----------------------------------------------------------------------------
(***************************************************************************)
(* The catalogue.                                                          *)
(***************************************************************************)

\* b has every version a has, and it says the same.
Within(a, b) == \A v \in Versions : a[v] # None => b[v] = a[v]

CopyIsPublished == Within(index, table)

ChecksLieBetween ==
    \A c \in Checks : check[c].phase = "resolving" =>
        Within(index, check[c].rows) /\ Within(check[c].rows, table)

OneCheckAtATime == \A c, d \in Checks : Live(c) /\ Live(d) => c = d

DoneIsStored ==
    \A p \in Publishers : \A d \in publisher[p].done : table[d.version] = d.content

InsertsSomething ==
    \A p \in Publishers : publisher[p].phase = "inserting" => publisher[p].todo # <<>>

CatInv ==
    /\ CatTypeOK
    /\ CopyIsPublished
    /\ ChecksLieBetween
    /\ OneCheckAtATime
    /\ DoneIsStored
    /\ InsertsSomething

----------------------------------------------------------------------------
(***************************************************************************)
(* What the parts of a step do.                                            *)
(***************************************************************************)
Publication == [version : Versions, content : Contents]

\* A check that is started is the only one, and holds no rows yet.
LEMMA ScheduleKeeps ==
    ASSUME CatInv, ScheduleCheck, UNCHANGED <<table, index>>
    PROVE  /\ check' \in [Checks -> CheckStates]
           /\ ChecksLieBetween'
           /\ OneCheckAtATime'
<1> USE DEF CatInv
<1>1. CASE check' = check
  BY <1>1 DEF CatTypeOK, ChecksLieBetween, OneCheckAtATime, Live, Within
<1>2. CASE /\ \A c \in Checks : ~Live(c)
           /\ check' = [check EXCEPT ![Free].phase = "comparing"]
  <2>1. CASE Free \notin Checks
    <3>1. check' = check
      BY <1>2, <2>1 DEF CatTypeOK
    <3> QED
      BY <1>1, <3>1
  <2>2. CASE Free \in Checks
    <3>1. check[Free] = [phase |-> "none", rows |-> None]
      BY <1>2, <2>2 DEF CatTypeOK, CheckStates, Live
    <3>2. check'[Free] = [phase |-> "comparing", rows |-> None]
      BY <1>2, <2>2, <3>1 DEF CatTypeOK
    <3>3. \A c \in Checks : c # Free => check'[c] = check[c]
      BY <1>2 DEF CatTypeOK
    <3>4. check' \in [Checks -> CheckStates]
      <4>1. [phase |-> "comparing", rows |-> None] \in CheckStates
        BY DEF CheckStates
      <4>2. check' = [check EXCEPT ![Free] = [phase |-> "comparing", rows |-> None]]
        BY <1>2, <3>1, <3>2, <3>3 DEF CatTypeOK
      <4> QED
        BY <4>1, <4>2 DEF CatTypeOK
    <3>5. ChecksLieBetween'
      BY <3>2, <3>3 DEF ChecksLieBetween, Within
    <3>6. OneCheckAtATime'
      BY <1>2, <3>2, <3>3 DEF OneCheckAtATime, Live
    <3> QED
      BY <3>4, <3>5, <3>6
  <2> QED
    BY <2>1, <2>2
<1> QED
  BY <1>1, <1>2 DEF ScheduleCheck

\* So what a request does when it consults the catalogue keeps the invariant.
LEMMA ConsultKeeps ==
    ASSUME CatInv, ScheduleCheck, UNCHANGED <<table, index, age, publisher>>
    PROVE  CatInv'
<1>1. CatTypeOK'
  BY ScheduleKeeps DEF CatInv, CatTypeOK, Rows
<1>2. CopyIsPublished' /\ DoneIsStored' /\ InsertsSomething'
  BY DEF CatInv, CopyIsPublished, Within, DoneIsStored, InsertsSomething
<1> QED
  BY <1>1, <1>2, ScheduleKeeps DEF CatInv

\* A check that ends, or has only selected the versions, leaves the others and
\* what they hold as they were.
LEMMA CheckMovesOn ==
    ASSUME CatInv, NEW c \in Checks, Live(c), NEW state \in CheckStates,
           check' = [check EXCEPT ![c] = state], UNCHANGED <<table, publisher>>,
           age' \in 0..Lifetime, index' \in Rows, Within(index', table),
           state.phase = "resolving" =>
               Within(index', state.rows) /\ Within(state.rows, table)
    PROVE  CatInv'
<1> USE DEF CatInv
<1>1. CatTypeOK'
  BY DEF CatTypeOK
<1>2. CopyIsPublished'
  BY DEF CopyIsPublished, Within
<1>3. \A d \in Checks : d # c => check'[d] = check[d] /\ ~Live(d)
  BY DEF OneCheckAtATime, CatTypeOK
<1>4. check'[c] = state
  BY DEF CatTypeOK
<1>5. ChecksLieBetween'
  BY <1>3, <1>4 DEF ChecksLieBetween, Within, Live
<1>6. OneCheckAtATime'
  BY <1>3 DEF OneCheckAtATime, Live
<1>7. DoneIsStored' /\ InsertsSomething'
  BY DEF DoneIsStored, InsertsSomething
<1> QED
  BY <1>1, <1>2, <1>5, <1>6, <1>7

\* A publication that moves on over a table that only grew.
LEMMA PublicationMovesOn ==
    ASSUME CatInv, NEW p \in Publishers, NEW state \in PublisherStates,
           publisher' = [publisher EXCEPT ![p] = state],
           UNCHANGED <<index, age, check>>,
           table' \in Rows, Within(table, table'),
           \A d \in state.done : table'[d.version] = d.content,
           state.phase = "inserting" => state.todo # <<>>
    PROVE  CatInv'
<1> USE DEF CatInv
<1>1. CatTypeOK'
  BY DEF CatTypeOK
<1>2. CopyIsPublished'
  BY DEF CopyIsPublished, Within, CatTypeOK
<1>3. ChecksLieBetween'
  BY DEF ChecksLieBetween, Within, CatTypeOK
<1>4. OneCheckAtATime'
  BY DEF OneCheckAtATime, Live
<1>5. \A q \in Publishers : publisher'[q] = IF q = p THEN state ELSE publisher[q]
  BY DEF CatTypeOK
<1>6. DoneIsStored'
  <2> SUFFICES ASSUME NEW q \in Publishers, NEW d \in publisher'[q].done
               PROVE  table'[d.version] = d.content
    BY DEF DoneIsStored
  <2>1. CASE q = p
    BY <1>5, <2>1
  <2>2. CASE q # p
    <3>1. d \in publisher[q].done
      BY <1>5, <2>2
    <3>2. d.version \in Versions /\ d.content \in Contents
      BY <3>1 DEF CatTypeOK, PublisherStates
    <3>3. table[d.version] = d.content
      BY <3>1 DEF DoneIsStored
    <3> QED
      BY <3>2, <3>3, CatalogueAssumption DEF Within
  <2> QED
    BY <2>1, <2>2
<1>7. InsertsSomething'
  BY <1>5 DEF InsertsSomething
<1> QED
  BY <1>1, <1>2, <1>3, <1>4, <1>6, <1>7

----------------------------------------------------------------------------
(***************************************************************************)
(* The invariant holds.                                                    *)
(***************************************************************************)
LEMMA CatInitEstablishesInv == CatInit => CatInv
<1> SUFFICES ASSUME CatInit PROVE CatInv
  OBVIOUS
<1>1. CatTypeOK
  <2>1. table \in Rows /\ index \in Rows
    BY CatalogueAssumption DEF CatInit, Rows, Versions
  <2>2. [phase |-> "none", rows |-> None] \in CheckStates
    BY DEF CheckStates
  <2>3. [phase |-> "idle", todo |-> <<>>, done |-> {}, outcome |-> "none"] \in PublisherStates
    BY DEF PublisherStates
  <2> QED
    BY <2>1, <2>2, <2>3, CatalogueAssumption DEF CatInit, CatTypeOK, Settled
<1>2. CopyIsPublished /\ ChecksLieBetween /\ OneCheckAtATime
  BY DEF CatInit, CopyIsPublished, Within, ChecksLieBetween, OneCheckAtATime, Live, Settled
<1>3. DoneIsStored /\ InsertsSomething
  BY DEF CatInit, DoneIsStored, InsertsSomething
<1> QED
  BY <1>1, <1>2, <1>3 DEF CatInv

\* What a publication is left with when it ends.
LEMMA EndsIsState ==
    ASSUME CatInv, NEW p \in Publishers, NEW outcome \in {"ok", "conflict", "failed"},
           Ends(p, outcome)
    PROVE  \E state \in PublisherStates :
              /\ publisher' = [publisher EXCEPT ![p] = state]
              /\ \A d \in state.done : table[d.version] = d.content
              /\ state.phase = "idle"
<1> DEFINE state == [phase |-> "idle", todo |-> <<>>, outcome |-> outcome,
                     done |-> IF outcome = "ok" THEN publisher[p].done ELSE {}]
<1>0. publisher[p] \in PublisherStates /\ publisher = [q \in Publishers |-> publisher[q]]
  BY DEF CatInv, CatTypeOK
<1>1. state \in PublisherStates
  BY <1>0 DEF PublisherStates
<1>2. publisher' = [publisher EXCEPT ![p] = state]
  BY <1>0 DEF Ends
<1>3. \A d \in state.done : table[d.version] = d.content
  BY DEF CatInv, DoneIsStored
<1> QED
  BY <1>1, <1>2, <1>3

\* What it is left with when one version is as it should be.
LEMMA AdvanceIsState ==
    ASSUME CatInv, NEW p \in Publishers, publisher[p].todo # <<>>, Advance(p),
           Within(table, table'), table'[Next1(p).version] = Next1(p).content
    PROVE  \E state \in PublisherStates :
              /\ publisher' = [publisher EXCEPT ![p] = state]
              /\ \A d \in state.done : table'[d.version] = d.content
              /\ state.phase = "looking"
<1> DEFINE old == publisher[p]
           state == [old EXCEPT !.phase = "looking", !.todo = Tail(@),
                                !.done = @ \cup {Next1(p)}]
<1>0. old \in PublisherStates /\ publisher = [q \in Publishers |-> publisher[q]]
  BY DEF CatInv, CatTypeOK
<1>1. old.todo \in Seq(Publication) /\ old.done \subseteq Publication
  BY <1>0 DEF PublisherStates, Publication
<1>2. Next1(p) \in Publication /\ Tail(old.todo) \in Seq(Publication)
  BY <1>1 DEF Next1
<1>3. state.phase = "looking" /\ state.done = old.done \cup {Next1(p)}
  BY <1>0 DEF PublisherStates
<1>4. state \in PublisherStates
  BY <1>0, <1>1, <1>2 DEF PublisherStates, Publication
<1>5. publisher' = [publisher EXCEPT ![p] = state]
  BY <1>0, <1>4 DEF Advance, PublisherStates
<1>6. ASSUME NEW d \in old.done PROVE table'[d.version] = d.content
  <2>1. table[d.version] = d.content /\ d.version \in Versions /\ d.content \in Contents
    BY <1>1 DEF CatInv, DoneIsStored, Publication
  <2> QED
    BY <2>1, CatalogueAssumption DEF Within
<1> QED
  BY <1>3, <1>4, <1>5, <1>6

LEMMA CatStepKeepsInv == CatInv /\ [CatNext]_catVars => CatInv'
<1> SUFFICES ASSUME CatInv, [CatNext]_catVars PROVE CatInv'
  OBVIOUS
<1>t. CatTypeOK
  BY DEF CatInv
<1>1. ASSUME Consult PROVE CatInv'
  BY <1>1, ConsultKeeps DEF Consult
<1>2. ASSUME Tick PROVE CatInv'
  <2>1. CatTypeOK'
    BY <1>2, <1>t, CatalogueAssumption DEF Tick, CatTypeOK
  <2> QED
    BY <1>2, <2>1 DEF Tick, CatInv, CopyIsPublished, Within, ChecksLieBetween,
                      OneCheckAtATime, Live, DoneIsStored, InsertsSomething
<1>3. ASSUME NEW c \in Checks, Compare(c) PROVE CatInv'
  <2> DEFINE state == IF Changed THEN [Settled EXCEPT !.phase = "reading"] ELSE Settled
  <2>1. state \in CheckStates /\ state.phase # "resolving"
    BY DEF Settled, CheckStates
  <2>2. /\ Live(c) /\ UNCHANGED <<table, publisher>> /\ age' \in 0..Lifetime
        /\ index' \in Rows /\ Within(index', table)
        /\ check' = [check EXCEPT ![c] = state]
    BY <1>3, <1>t, CatalogueAssumption DEF Compare, Live, CatTypeOK, CatInv, CopyIsPublished, Within
  <2> HIDE DEF state
  <2> QED
    BY <2>1, <2>2, CheckMovesOn
<1>4. ASSUME NEW c \in Checks, ReadRows(c) PROVE CatInv'
  <2> DEFINE state == [phase |-> "resolving", rows |-> table]
  <2>1. state \in CheckStates
    BY <1>t DEF CheckStates, CatTypeOK
  <2>2. /\ Live(c) /\ UNCHANGED <<table, publisher>> /\ age' \in 0..Lifetime
        /\ index' \in Rows /\ Within(index', table)
        /\ check' = [check EXCEPT ![c] = state]
    BY <1>4, <1>t DEF ReadRows, Live, CatTypeOK, CatInv, CopyIsPublished, Within
  <2>3. Within(index', state.rows) /\ Within(state.rows, table)
    BY <2>2 DEF Within
  <2> HIDE DEF state
  <2> QED
    BY <2>1, <2>2, <2>3, CheckMovesOn
<1>5. ASSUME NEW c \in Checks, Reload(c) PROVE CatInv'
  <2>1. check[c].rows \in Rows /\ Within(check[c].rows, table)
    BY <1>5, <1>t DEF Reload, CatTypeOK, CheckStates, CatInv, ChecksLieBetween
  <2>2. Settled \in CheckStates /\ Settled.phase # "resolving"
    BY DEF Settled, CheckStates
  <2>3. /\ Live(c) /\ UNCHANGED <<table, publisher>> /\ age' \in 0..Lifetime
        /\ index' = check[c].rows
        /\ check' = [check EXCEPT ![c] = Settled]
    BY <1>5, <1>t DEF Reload, Live, CatTypeOK
  <2>4. index' \in Rows /\ Within(index', table)
    BY <2>1, <2>3
  <2> QED
    BY <2>2, <2>3, <2>4, CheckMovesOn
<1>6. ASSUME NEW c \in Checks, RefreshFails(c) PROVE CatInv'
  <2>1. Settled \in CheckStates /\ Settled.phase # "resolving"
    BY DEF Settled, CheckStates
  <2>2. /\ Live(c) /\ UNCHANGED <<table, publisher>> /\ age' \in 0..Lifetime
        /\ index' \in Rows /\ Within(index', table)
        /\ check' = [check EXCEPT ![c] = Settled]
    BY <1>6, <1>t, CatalogueAssumption
    DEF RefreshFails, Live, CatTypeOK, CatInv, CopyIsPublished, Within
  <2> QED
    BY <2>1, <2>2, CheckMovesOn
<1>u. Within(table, table)
  BY DEF Within
<1>7. ASSUME NEW p \in Publishers, StartPublishing(p) PROVE CatInv'
  <2> DEFINE state == [phase |-> "looking", todo |-> Manifest[p], done |-> {},
                       outcome |-> "none"]
  <2>1. state \in PublisherStates
    BY CatalogueAssumption DEF PublisherStates, Versions
  <2>2. /\ UNCHANGED <<table, index, age, check>> /\ table' \in Rows
        /\ publisher' = [publisher EXCEPT ![p] = state]
        /\ Within(table, table')
    BY <1>7, <1>t, <1>u DEF StartPublishing, CatTypeOK, Within
  <2>3. /\ \A d \in state.done : table'[d.version] = d.content
        /\ state.phase = "inserting" => state.todo # <<>>
    OBVIOUS
  <2> HIDE DEF state
  <2> QED
    BY <2>1, <2>2, <2>3, PublicationMovesOn
<1>8. ASSUME NEW p \in Publishers, Look(p) PROVE CatInv'
  <2>0. UNCHANGED <<table, index, age, check>> /\ table' \in Rows /\ Within(table, table')
    BY <1>8, <1>t, <1>u DEF Look, CatTypeOK, Within
  <2>1. ASSUME NEW outcome \in {"ok", "conflict", "failed"}, Ends(p, outcome) PROVE CatInv'
    BY <2>0, <2>1, EndsIsState, PublicationMovesOn
  <2>2. ASSUME publisher[p].todo # <<>>, table[Next1(p).version] = Next1(p).content, Advance(p)
        PROVE  CatInv'
    BY <2>0, <2>2, AdvanceIsState, PublicationMovesOn
  <2>3. ASSUME publisher[p].todo # <<>>,
               publisher' = [publisher EXCEPT ![p].phase = "inserting"]
        PROVE  CatInv'
    <3> DEFINE old == publisher[p]
               state == [old EXCEPT !.phase = "inserting"]
    <3>1. old \in PublisherStates
      BY <1>t DEF CatTypeOK
    <3>2. state \in PublisherStates /\ state.todo = old.todo /\ state.done = old.done
      BY <3>1 DEF PublisherStates
    <3>3. publisher' = [publisher EXCEPT ![p] = state]
      BY <2>3
    <3>4. \A d \in state.done : table'[d.version] = d.content
      BY <2>0, <3>2 DEF CatInv, DoneIsStored
    <3>5. state.todo # <<>>
      BY <2>3, <3>2
    <3> HIDE DEF state, old
    <3> QED
      BY <2>0, <3>2, <3>3, <3>4, <3>5, PublicationMovesOn
  <2> QED
    BY <1>8, <2>1, <2>2, <2>3 DEF Look
<1>9. ASSUME NEW p \in Publishers, Insert(p) PROVE CatInv'
  <2>0. publisher[p].todo # <<>> /\ UNCHANGED <<index, age, check>>
    BY <1>9 DEF Insert, CatInv, InsertsSomething
  <2>1. Next1(p).version \in Versions /\ Next1(p).content \in Contents
    <3>1. publisher[p].todo \in Seq(Publication)
      BY <1>t DEF CatTypeOK, PublisherStates, Publication
    <3>2. Head(publisher[p].todo) \in Publication
      BY <2>0, <3>1
    <3> QED
      BY <3>2 DEF Next1, Publication
  <2>2. CASE table[Next1(p).version] = None
    <3>1. /\ table' = [table EXCEPT ![Next1(p).version] = Next1(p).content]
          /\ Advance(p)
      BY <1>9, <2>2 DEF Insert
    <3>2. table' \in Rows /\ table'[Next1(p).version] = Next1(p).content
      BY <1>t, <2>1, <3>1 DEF CatTypeOK, Rows
    <3>3. Within(table, table')
      BY <1>t, <2>1, <2>2, <3>1 DEF CatTypeOK, Rows, Within
    <3> QED
      BY <2>0, <3>1, <3>2, <3>3, AdvanceIsState, PublicationMovesOn
  <2>3. CASE table[Next1(p).version] # None
    <3>1. Ends(p, "failed") /\ UNCHANGED table /\ table' \in Rows
      BY <1>9, <1>t, <2>3 DEF Insert, CatTypeOK
    <3> QED
      BY <1>u, <2>0, <3>1, EndsIsState, PublicationMovesOn
  <2> QED
    BY <2>2, <2>3
<1>10. ASSUME NEW p \in Publishers, PublishFails(p) PROVE CatInv'
  <2>1. Ends(p, "failed") /\ UNCHANGED <<table, index, age, check>> /\ table' \in Rows
    BY <1>10, <1>t DEF PublishFails, CatTypeOK
  <2> QED
    BY <1>u, <2>1, EndsIsState, PublicationMovesOn
<1>11. CASE UNCHANGED catVars
  BY <1>11 DEF catVars, CatInv, CatTypeOK, CopyIsPublished, Within, ChecksLieBetween,
               OneCheckAtATime, Live, DoneIsStored, InsertsSomething
<1> QED
  BY <1>1, <1>2, <1>3, <1>4, <1>5, <1>6, <1>7, <1>8, <1>9, <1>10, <1>11 DEF CatNext
\* The invariant holds of every behaviour of the store, the copy and the deploys.
LEMMA CatInvHolds == CatSpec => []CatInv
BY CatInitEstablishesInv, CatStepKeepsInv, PTL DEF CatSpec

----------------------------------------------------------------------------
(***************************************************************************)
(* What follows from it.                                                   *)
(***************************************************************************)

\* Every variable of the catalogue has its type: a check holds rows exactly
\* while it resolves them, and a publication only what its manifest names
\* (store-catalogue.ts, publish.ts).
THEOREM CatalogueIsTyped == CatSpec => []CatTypeOK
<1>1. CatInv => CatTypeOK
  BY DEF CatInv
<1> QED
  BY <1>1, CatInvHolds, PTL

\* The two facts about a step that these and the readers of the catalogue need.
LEMMA TableOnlyGrows ==
    ASSUME CatInv, [CatNext]_catVars
    PROVE  \A v \in Versions : table[v] # None => table'[v] = table[v]
<1> SUFFICES ASSUME NEW v \in Versions, table[v] # None PROVE table'[v] = table[v]
  OBVIOUS
<1>1. ASSUME NEW p \in Publishers, Insert(p) PROVE table'[v] = table[v]
  BY <1>1 DEF Insert, CatInv, CatTypeOK, Rows
<1> QED
  BY <1>1 DEF CatNext, Consult, Tick, Compare, ReadRows, Reload, RefreshFails,
              StartPublishing, Look, PublishFails, catVars

LEMMA CopyOnlyGrows ==
    ASSUME CatInv, [CatNext]_catVars
    PROVE  \A v \in Versions : index[v] # None => index'[v] = index[v]
<1> SUFFICES ASSUME NEW v \in Versions, index[v] # None PROVE index'[v] = index[v]
  OBVIOUS
<1>1. ASSUME NEW c \in Checks, Reload(c) PROVE index'[v] = index[v]
  BY <1>1 DEF Reload, CatInv, ChecksLieBetween, Within
<1> QED
  BY <1>1 DEF CatNext, Consult, Tick, Compare, ReadRows, RefreshFails,
              StartPublishing, Look, Insert, PublishFails, catVars

\* Whatever deploys publish at once, and wherever one of them stops, a row that
\* is in the store is never another (publish.ts:21-28).
THEOREM PublishedNeverChanges == CatSpec => PublishedIsImmutable
<1>1. CatInv /\ [CatNext]_catVars =>
          [\A v \in Versions : table[v] # None => table'[v] = table[v]]_table
  BY TableOnlyGrows
<1> QED
  BY <1>1, CatInvHolds, PTL DEF CatSpec, PublishedIsImmutable

\* A deploy that is told it succeeded finds every version it named, as it said
\* it, for as long as it remembers it (publish.ts:60-105).
THEOREM SuccessMeansStored == CatSpec => []PublishedMeansStored
<1>1. CatInv => PublishedMeansStored
  BY DEF CatInv, DoneIsStored, PublishedMeansStored
<1> QED
  BY <1>1, CatInvHolds, PTL

\* What an instance can reach it goes on reaching, although a reload replaces
\* its copy by rows that were read before other steps of the same deploys
\* (indexed-catalogue.ts:20-22, store-catalogue.ts:86-93).
THEOREM NothingReachableIsLost == CatSpec => ReachableStaysReachable
<1>1. CatInv /\ [CatNext]_catVars =>
          [\A v \in Versions : index[v] # None => index'[v] = index[v]]_index
  BY CopyOnlyGrows
<1> QED
  BY <1>1, CatInvHolds, PTL DEF CatSpec, ReachableStaysReachable


----------------------------------------------------------------------------
(***************************************************************************)
(* The version in force.                                                   *)
(***************************************************************************)

\* A finite set of numbers that is not empty has a greatest one.
LEMMA GreatestOf ==
    ASSUME NEW S \in SUBSET Nat, IsFiniteSet(S), S # {}
    PROVE  \E n \in S : \A m \in S : m <= n
<1> DEFINE Without == {T \in SUBSET S : T # {} /\ ~\E n \in T : \A m \in T : m <= n}
           Sizes == {Cardinality(T) : T \in Without}
<1>1. SUFFICES ASSUME Sizes # {} PROVE FALSE
  BY DEF Without
<1>2. \A T \in SUBSET S : IsFiniteSet(T) /\ Cardinality(T) \in Nat
  BY FS_Subset, FS_CardinalityType
<1>3. \E x \in Sizes : \A y \in Sizes : ~(<<y, x>> \in OpToRel(<, Nat))
  <2>1. Sizes \subseteq Nat
    BY <1>2
  <2> QED
    BY <1>1, <2>1, NatLessThanWellFounded, WFMin
<1>4. PICK T \in Without : \A U \in Without : ~(Cardinality(U) < Cardinality(T))
  <2>1. \A x, y \in Nat : y < x => <<y, x>> \in OpToRel(<, Nat)
    BY DEF OpToRel
  <2> QED
    BY <1>2, <1>3, <2>1
<1>5. PICK x \in T : TRUE
  OBVIOUS
<1>6. T \ {x} \notin Without
  <2>1. Cardinality(T \ {x}) = Cardinality(T) - 1
    BY <1>2, <1>5, FS_RemoveElement
  <2>2. Cardinality(T \ {x}) < Cardinality(T) /\ T \ {x} \in SUBSET S
    BY <1>2, <2>1
  <2> HIDE DEF Without
  <2> QED
    BY <1>4, <2>2
<1>7. CASE T \ {x} = {}
  BY <1>5, <1>7
<1>8. CASE T \ {x} # {}
  <2>1. PICK n \in T \ {x} : \A m \in T \ {x} : m <= n
    BY <1>6, <1>8
  <2>2. x \in Nat /\ n \in Nat
    BY <1>5, <2>1
  <2>3. CASE x <= n
    BY <2>1, <2>3
  <2>4. CASE n <= x
    BY <1>5, <2>1, <2>2, <2>4
  <2> QED
    BY <2>2, <2>3, <2>4
<1> QED
  BY <1>7, <1>8

\* The version in force of an activity that has one is one of its versions, and
\* none of them is newer.
LEMMA ActiveIsGreatest ==
    ASSUME NEW rows, NEW code, NumbersOf(rows, code) # {}
    PROVE  /\ ActiveNumber(rows, code) \in NumbersOf(rows, code)
           /\ \A m \in NumbersOf(rows, code) : m <= ActiveNumber(rows, code)
<1>1. NumbersOf(rows, code) \in SUBSET Nat /\ IsFiniteSet(NumbersOf(rows, code))
  BY CatalogueAssumption, FS_Subset DEF NumbersOf
<1>2. \E n \in NumbersOf(rows, code) : \A m \in NumbersOf(rows, code) : m <= n
  BY <1>1, GreatestOf
<1> QED
  BY <1>2 DEF ActiveNumber

----------------------------------------------------------------------------
(***************************************************************************)
(* A request is one more reader of the catalogue.                          *)
(***************************************************************************)

LEMMA RequestConsults == [Next]_vars => [CatNext]_catVars
<1> SUFFICES ASSUME [Next]_vars PROVE [CatNext]_catVars
  OBVIOUS
<1>1. ASSUME NEW r \in Requests, Request(r) PROVE [CatNext]_catVars
  <2>1. ASSUME Plan(r) \/ Answer(r) PROVE Consult
    BY <2>1 DEF Plan, Answer, Consult
  <2>2. ASSUME Ask(r) \/ Locate(r) \/ Unprofilable(r) \/
               \E c \in Range(Capabilities) : Settles(r, c)
        PROVE  UNCHANGED catVars
    BY <2>2 DEF Ask, Locate, Unprofilable, Settles
  <2> QED
    BY <1>1, <2>1, <2>2 DEF Request, CatNext
<1>2. CASE UNCHANGED vars
  BY <1>2 DEF vars
<1> QED
  BY <1>1, <1>2 DEF Next

\* What the composition does to the store, the copy and the deploys is what the
\* catalogue alone may do: a request never waits for a check, and starts one
\* only as any reader does (ranking.service.ts:106-115, store-catalogue.ts).
THEOREM RankingIsAReader == Spec => CatSpec
<1>1. Init => CatInit
  BY DEF Init
<1> QED
  BY <1>1, RequestConsults, PTL DEF Spec, CatSpec

\* So rows are immutable whatever requests do beside the deploys
\* (publish.ts:21-28).
THEOREM RankingKeepsPublished == Spec => PublishedIsImmutable
BY RankingIsAReader, PublishedNeverChanges, PTL

\* And a deploy that succeeded has stored what it named (publish.ts:60-105).
THEOREM RankingKeepsSuccess == Spec => []PublishedMeansStored
BY RankingIsAReader, SuccessMeansStored, PTL

\* And what requests can reach stays reachable (store-catalogue.ts:86-93).
THEOREM RankingKeepsReachable == Spec => ReachableStaysReachable
BY RankingIsAReader, NothingReachableIsLost, PTL

----------------------------------------------------------------------------
(***************************************************************************)
(* The audit record.                                                       *)
(***************************************************************************)

\* A request names activities only, and every version it judged is still in the
\* copy it judged from.
PlanIsReachable(r) ==
    phase[r] \in {"gathering", "answered"} =>
        \A code \in DOMAIN plan[r] :
            code \in Codes /\ plan[r][code].number \in NumbersOf(index, code)

StampIsPublished(r) ==
    phase[r] = "answered" =>
        \A code \in DOMAIN plan[r] :
            /\ answer[r].stamped[code] \in Numbers
            /\ answer[r].stamped[code] >= plan[r][code].number
            /\ table[<<code, answer[r].stamped[code]>>] # None

Slots == /\ phase = [r \in Requests |-> phase[r]]
         /\ plan = [r \in Requests |-> plan[r]]
         /\ answer = [r \in Requests |-> answer[r]]

RankingInv ==
    /\ CatInv
    /\ Slots
    /\ \A r \in Requests : PlanIsReachable(r) /\ StampIsPublished(r)

\* The versions of the copy only grow, and stay in the store.
LEMMA ReachableNumbersGrow ==
    ASSUME CatInv, [CatNext]_catVars, NEW code \in Codes
    PROVE  /\ NumbersOf(index, code) \subseteq NumbersOf(index', code)
           /\ \A n \in Numbers : table[<<code, n>>] # None => table'[<<code, n>>] # None
<1>1. \A v \in Versions : index[v] # None => index'[v] = index[v]
  BY CopyOnlyGrows
<1>2. \A v \in Versions : table[v] # None => table'[v] = table[v]
  BY TableOnlyGrows
<1> QED
  BY <1>1, <1>2 DEF NumbersOf, Versions

\* What the catalogue does in the meantime harms no request.
LEMMA OthersAreSafe ==
    ASSUME RankingInv, [CatNext]_catVars, NEW q \in Requests,
           phase'[q] = phase[q], plan'[q] = plan[q], answer'[q] = answer[q]
    PROVE  PlanIsReachable(q)' /\ StampIsPublished(q)'
<1>1. PlanIsReachable(q)'
  BY ReachableNumbersGrow DEF RankingInv, PlanIsReachable
<1>2. ASSUME phase[q] = "answered", NEW code \in DOMAIN plan[q]
      PROVE  table'[<<code, answer[q].stamped[code]>>] # None
  <2>1. code \in Codes /\ answer[q].stamped[code] \in Numbers
        /\ table[<<code, answer[q].stamped[code]>>] # None
    BY <1>2 DEF RankingInv, PlanIsReachable, StampIsPublished
  <2> QED
    BY <2>1, ReachableNumbersGrow DEF RankingInv
<1>3. StampIsPublished(q)'
  BY <1>2 DEF RankingInv, StampIsPublished
<1> QED
  BY <1>1, <1>3

\* What is stamped is in the copy now, and not older than what was judged.
LEMMA StampIsReachable ==
    ASSUME NEW judged, NEW outcome, NEW code, judged.number \in NumbersOf(index, code)
    PROVE  \A n \in Stamps(judged, outcome, code) :
              n \in NumbersOf(index, code) /\ n >= judged.number
<1>1. judged.number \in Nat
  BY CatalogueAssumption DEF NumbersOf
<1>2. /\ ActiveNumber(index, code) \in NumbersOf(index, code)
      /\ judged.number <= ActiveNumber(index, code)
  BY ActiveIsGreatest
<1>3. ActiveNumber(index, code) \in Nat
  BY <1>2, CatalogueAssumption DEF NumbersOf
<1> QED
  BY <1>1, <1>2, <1>3 DEF Stamps

LEMMA RankingInitEstablishesInv == Init => RankingInv
BY CatInitEstablishesInv DEF Init, RankingInv, Slots, PlanIsReachable, StampIsPublished

LEMMA RankingStepKeepsInv == RankingInv /\ [Next]_vars => RankingInv'
<1> SUFFICES ASSUME RankingInv, [Next]_vars PROVE RankingInv'
  OBVIOUS
<1>0. CatInv' /\ [CatNext]_catVars
  BY RequestConsults, CatStepKeepsInv DEF RankingInv
\* A step of a request: the others are as they were.
<1>1. ASSUME NEW r \in Requests, Slots', PlanIsReachable(r)', StampIsPublished(r)',
             \A q \in Requests \ {r} : /\ phase'[q] = phase[q] /\ plan'[q] = plan[q]
                                      /\ answer'[q] = answer[q]
      PROVE  RankingInv'
  BY <1>0, <1>1, OthersAreSafe DEF RankingInv
<1>2. ASSUME NEW r \in Requests, Ask(r) PROVE RankingInv'
  <2>1. Slots' /\ phase'[r] \in {"locating", "refused"}
    BY <1>2 DEF Ask, RankingInv, Slots
  <2>2. \A q \in Requests \ {r} : /\ phase'[q] = phase[q] /\ plan'[q] = plan[q]
                                 /\ answer'[q] = answer[q]
    BY <1>2 DEF Ask, RankingInv, Slots
  <2>3. PlanIsReachable(r)' /\ StampIsPublished(r)'
    BY <2>1 DEF PlanIsReachable, StampIsPublished
  <2> QED
    BY <1>1, <2>1, <2>2, <2>3
<1>3. ASSUME NEW r \in Requests, Locate(r) \/ Unprofilable(r) PROVE RankingInv'
  <2>1. Slots' /\ phase'[r] \in {"profiling", "refused"}
    BY <1>3 DEF Locate, Unprofilable, RankingInv, Slots
  <2>2. \A q \in Requests \ {r} : /\ phase'[q] = phase[q] /\ plan'[q] = plan[q]
                                 /\ answer'[q] = answer[q]
    BY <1>3 DEF Locate, Unprofilable, RankingInv, Slots
  <2>3. PlanIsReachable(r)' /\ StampIsPublished(r)'
    BY <2>1 DEF PlanIsReachable, StampIsPublished
  <2> QED
    BY <1>1, <2>1, <2>2, <2>3
<1>4. ASSUME NEW r \in Requests, Plan(r) PROVE RankingInv'
  <2>1. PICK profile \in Profiles : plan' = [plan EXCEPT ![r] = PlanOf(profile)]
    BY <1>4 DEF Plan
  <2>2. Slots' /\ phase'[r] = "gathering" /\ plan'[r] = PlanOf(profile) /\ index' = index
    BY <1>4, <2>1 DEF Plan, RankingInv, Slots
  <2>3. \A q \in Requests \ {r} : /\ phase'[q] = phase[q] /\ plan'[q] = plan[q]
                                 /\ answer'[q] = answer[q]
    BY <1>4, <2>1 DEF Plan, RankingInv, Slots
  <2>4. \A code \in DOMAIN PlanOf(profile) :
           code \in Codes /\ PlanOf(profile)[code].number \in NumbersOf(index, code)
    BY ActiveIsGreatest DEF PlanOf, ActiveCodes
  <2>5. PlanIsReachable(r)' /\ StampIsPublished(r)'
    BY <2>2, <2>4 DEF PlanIsReachable, StampIsPublished
  <2> QED
    BY <1>1, <2>2, <2>3, <2>5
<1>5. ASSUME NEW r \in Requests, NEW c \in Range(Capabilities), Settles(r, c)
      PROVE  RankingInv'
  <2>1. UNCHANGED <<phase, plan, answer>>
    BY <1>5 DEF Settles
  <2> QED
    BY <1>0, <2>1, OthersAreSafe DEF RankingInv, Slots
<1>6. ASSUME NEW r \in Requests, Answer(r) PROVE RankingInv'
  <2>1. PICK outcome, stamped :
           /\ \A code \in DOMAIN plan[r] :
                 stamped[code] \in Stamps(plan[r][code], outcome[code], code)
           /\ answer' = [answer EXCEPT ![r] =
              [outcome |-> outcome, stamped |-> stamped, dated |-> Dated(Gather(result[r]))]]
    BY <1>6, Zenon DEF Answer
  <2>2. /\ phase[r] = "gathering" /\ phase' = [phase EXCEPT ![r] = "answered"]
        /\ UNCHANGED <<plan, index, table>>
    BY <1>6 DEF Answer
  <2>3. Slots' /\ \A code \in DOMAIN plan[r] :
                    answer'[r].stamped[code] \in Stamps(plan[r][code], outcome[code], code)
    BY <2>1, <2>2 DEF RankingInv, Slots
  <2>4. \A q \in Requests \ {r} : /\ phase'[q] = phase[q] /\ plan'[q] = plan[q]
                                 /\ answer'[q] = answer[q]
    BY <2>1, <2>2 DEF RankingInv, Slots
  <2>5. PlanIsReachable(r)'
    BY <2>2 DEF RankingInv, PlanIsReachable
  <2>6. ASSUME NEW code \in DOMAIN plan[r]
        PROVE  /\ answer'[r].stamped[code] \in Numbers
               /\ answer'[r].stamped[code] >= plan[r][code].number
               /\ table[<<code, answer'[r].stamped[code]>>] # None
    <3>1. code \in Codes /\ plan[r][code].number \in NumbersOf(index, code)
      BY <2>2 DEF RankingInv, PlanIsReachable
    <3>2. /\ answer'[r].stamped[code] \in NumbersOf(index, code)
          /\ answer'[r].stamped[code] >= plan[r][code].number
      BY <2>3, <3>1, StampIsReachable
    <3> QED
      BY <3>1, <3>2 DEF NumbersOf, RankingInv, CatInv, CopyIsPublished, Within, Versions
  <2>7. StampIsPublished(r)'
    BY <2>2, <2>6 DEF StampIsPublished
  <2> QED
    BY <1>1, <2>3, <2>4, <2>5, <2>7
<1>7. CASE UNCHANGED reqVars
  BY <1>0, <1>7, OthersAreSafe DEF RankingInv, Slots, reqVars
<1> QED
  BY <1>2, <1>3, <1>4, <1>5, <1>6, <1>7 DEF Next, Request, vars

\* The record of an answer names, for every activity in it, a version that is in
\* the store and at least the one the request judged, however often the copy
\* was replaced while the request waited (ranking.service.ts:113-115).
THEOREM AuditNamesPublishedVersions == Spec => []AuditNamesThePlanOrLater
<1>1. RankingInv => AuditNamesThePlanOrLater
  BY DEF RankingInv, StampIsPublished, AuditNamesThePlanOrLater, Answered
<1> QED
  BY <1>1, RankingInitEstablishesInv, RankingStepKeepsInv, PTL DEF Spec
----------------------------------------------------------------------------
(***************************************************************************)
(* The types.                                                              *)
(***************************************************************************)

\* A plan says of each activity of the copy which of its definitions was judged.
LEMMA PlanIsTyped ==
    ASSUME CatTypeOK, NEW profile \in Profiles
    PROVE  PlanOf(profile) \in UNION {[S -> Judged] : S \in SUBSET Codes}
<1> DEFINE S == ActiveCodes(index)
<1>1. S \in SUBSET Codes
  BY DEF ActiveCodes
<1>2. ASSUME NEW code \in S
      PROVE  PlanOf(profile)[code] \in Judged
  <2>1. ActiveNumber(index, code) \in NumbersOf(index, code)
    BY ActiveIsGreatest DEF ActiveCodes
  <2>2. ActiveNumber(index, code) \in Numbers /\ Definition(index, code) # None
        /\ <<code, ActiveNumber(index, code)>> \in Versions
    BY <1>1, <2>1 DEF NumbersOf, Definition, Versions
  <2>3. Definition(index, code) \in Contents
    BY <2>2 DEF Definition, CatTypeOK, Rows
  <2>4. Applicability(profile, Definition(index, code)) \in Verdicts
    BY DEF Applicability, Verdicts
  <2>5. PlanOf(profile)[code] =
           [number |-> ActiveNumber(index, code), content |-> Definition(index, code),
            verdict |-> Applicability(profile, Definition(index, code))]
    BY DEF PlanOf
  <2> QED
    BY <2>2, <2>3, <2>4, <2>5 DEF Judged
<1>3. PlanOf(profile) \in [S -> Judged]
  BY <1>2 DEF PlanOf
<1> QED
  BY <1>1, <1>3

\* Every variable has its type: a request judges activities, each by one of its
\* definitions, and every capability has one call (ranking.service.ts).
THEOREM RankingIsTyped == Spec => []TypeOK
<1>1. Init => TypeOK
  <2> SUFFICES ASSUME Init PROVE TypeOK
    OBVIOUS
  <2>1. CatTypeOK
    BY CatInitEstablishesInv DEF Init, CatInv
  <2>2. Unasked \in [Range(Capabilities) -> Calls]
    BY DEF Unasked, Calls
  <2>3. << >> \in [{} -> Judged]
    OBVIOUS
  <2> QED
    BY <2>1, <2>2, <2>3 DEF Init, TypeOK
<1>2. RankingInv /\ RankingInv' /\ TypeOK /\ [Next]_vars => TypeOK'
  <2> SUFFICES ASSUME RankingInv', TypeOK, [Next]_vars PROVE TypeOK'
    OBVIOUS
  <2>0. CatTypeOK'
    BY DEF RankingInv, CatInv
  <2>1. ASSUME NEW r \in Requests, Ask(r) PROVE TypeOK'
    <3>1. Unasked \in [Range(Capabilities) -> Calls]
      BY DEF Unasked, Calls
    <3>2. << >> \in UNION {[S -> Judged] : S \in SUBSET Codes}
      BY << >> \in [{} -> Judged], {} \in SUBSET Codes, Zenon
    <3>3. phase' \in [Requests -> {"idle", "locating", "profiling", "gathering",
                                   "answered", "refused"}]
      BY <2>1 DEF Ask, TypeOK
    <3>4. plan' \in [Requests -> UNION {[S -> Judged] : S \in SUBSET Codes}]
      BY <2>1, <3>2, Zenon DEF Ask, TypeOK
    <3>5. result' \in [Requests -> [Range(Capabilities) -> Calls]]
      BY <2>1, <3>1, Zenon DEF Ask, TypeOK
    <3>6. DOMAIN answer' = Requests
      BY <2>1 DEF Ask, TypeOK
    <3> QED
      BY <2>0, <3>3, <3>4, <3>5, <3>6 DEF TypeOK
  <2>2. ASSUME NEW r \in Requests, Locate(r) \/ Unprofilable(r) PROVE TypeOK'
    BY <2>0, <2>2 DEF Locate, Unprofilable, TypeOK
  <2>3. ASSUME NEW r \in Requests, Plan(r) PROVE TypeOK'
    <3>1. PICK profile \in Profiles :
             /\ plan' = [plan EXCEPT ![r] = PlanOf(profile)]
             /\ result' = [result EXCEPT ![r] =
                   [c \in Range(Capabilities) |->
                       [state |-> IF c \in Asked(PlanOf(profile)) THEN "pending"
                                  ELSE "unasked"]]]
      BY <2>3 DEF Plan
    <3>2. PlanOf(profile) \in UNION {[S -> Judged] : S \in SUBSET Codes}
      BY PlanIsTyped DEF TypeOK
    <3>3. plan' \in [Requests -> UNION {[S -> Judged] : S \in SUBSET Codes}]
      BY <3>1, <3>2 DEF TypeOK
    <3>4. result' \in [Requests -> [Range(Capabilities) -> Calls]]
      BY <3>1 DEF TypeOK, Calls
    <3> QED
      BY <2>0, <2>3, <3>3, <3>4 DEF Plan, TypeOK
  <2>4. ASSUME NEW r \in Requests, NEW c \in Range(Capabilities), Settles(r, c) PROVE TypeOK'
    <3>1. PICK call \in [state : {"ok"}, series : Series] \cup [state : {"failed"}, code : Failures] :
             result' = [result EXCEPT ![r][c] = call]
      BY <2>4 DEF Settles
    <3>2. result' \in [Requests -> [Range(Capabilities) -> Calls]]
      BY <3>1 DEF TypeOK, Calls
    <3> QED
      BY <2>0, <2>4, <3>2 DEF Settles, TypeOK
  <2>5. ASSUME NEW r \in Requests, Answer(r) PROVE TypeOK'
    <3>1. phase' = [phase EXCEPT ![r] = "answered"] /\ UNCHANGED <<plan, result>>
      BY <2>5 DEF Answer
    <3>2. DOMAIN answer' = Requests
      BY <2>5, Zenon DEF Answer, TypeOK
    <3> QED
      BY <2>0, <3>1, <3>2 DEF TypeOK
  <2>6. CASE UNCHANGED reqVars
    BY <2>0, <2>6 DEF reqVars, TypeOK
  <2> QED
    BY <2>1, <2>2, <2>3, <2>4, <2>5, <2>6 DEF Next, Request, vars
<1> QED
  BY <1>1, <1>2, RankingInitEstablishesInv, RankingStepKeepsInv, PTL DEF Spec

----------------------------------------------------------------------------
(***************************************************************************)
(* What a gathering loses.                                                 *)
(***************************************************************************)

\* The first day the series gathered so far has, and what is lost so far.
Lead(g) == IF g.series = None THEN None ELSE g.series.axis
LostCalls(g) == {l[1] : l \in g.lost}

\* A call that does not fit: it failed, or its days are not those that lead.
Unfit(lead, call) ==
    \/ call.state = "failed"
    \/ call.state = "ok" /\ lead # None /\ call.series.axis # None /\ call.series.axis # lead

LeadAfter(lead, call) ==
    IF lead = None /\ call.state = "ok" THEN call.series.axis ELSE lead

LEMMA OneLoss ==
    ASSUME NEW losses, NEW c, NEW code
    PROVE  {l[1] : l \in losses \cup {<<c, code>>}} = {l[1] : l \in losses} \cup {c}
<1>1. <<c, code>>[1] = c
  OBVIOUS
<1> QED
  BY <1>1, Zenon

\* One outcome more: the first days stay, and only what does not fit is lost.
LEMMA OneMore ==
    ASSUME NEW g, g.series \in Series \cup {None}, g = [series |-> g.series, lost |-> g.lost],
           NEW c, NEW call \in Calls
    PROVE  LET h == MergeInto(g, c, call)
           IN  /\ h.series \in Series \cup {None} /\ h = [series |-> h.series, lost |-> h.lost]
               /\ Lead(h) = LeadAfter(Lead(g), call)
               /\ LostCalls(h) = LostCalls(g) \cup (IF Unfit(Lead(g), call) THEN {c} ELSE {})
<1> DEFINE h == MergeInto(g, c, call)
<1>0. None \notin Series
  BY RankingAssumption DEF Series
<1>1. CASE call.state = "failed"
  <2>1. h = [series |-> g.series, lost |-> g.lost \cup {<<c, call.code>>}]
    BY <1>1 DEF MergeInto
  <2>2. LostCalls(h) = LostCalls(g) \cup {c}
    <3>1. h.lost = g.lost \cup {<<c, call.code>>}
      BY <2>1
    <3> HIDE DEF h
    <3>2. LostCalls(h) = {l[1] : l \in g.lost \cup {<<c, call.code>>}}
      BY <3>1 DEF LostCalls
    <3> QED
      BY <3>2, OneLoss DEF LostCalls
  <2> QED
    BY <1>1, <2>1, <2>2 DEF Lead, LeadAfter, Unfit
<1>2. CASE call.state \in {"unasked", "pending"}
  BY <1>2 DEF MergeInto, Lead, LeadAfter, Unfit
<1>3. CASE call.state = "ok"
  <2>1. call.series \in Series
    BY <1>3 DEF Calls
  <2>2. CASE g.series = None
    <3>1. h = [series |-> call.series, lost |-> g.lost]
      BY <1>3, <2>2 DEF MergeInto
    <3> QED
      BY <1>0, <1>3, <2>1, <2>2, <3>1 DEF Lead, LeadAfter, Unfit, LostCalls
  <2>3. CASE g.series # None /\ Aligned(g.series, call.series)
    <3>1. h = [series |-> Union(g.series, call.series), lost |-> g.lost]
      BY <1>3, <2>3 DEF MergeInto
    <3> QED
      BY <1>0, <1>3, <2>1, <2>3, <3>1 DEF Lead, LeadAfter, Unfit, LostCalls, Union, Aligned
  <2>4. CASE g.series # None /\ ~Aligned(g.series, call.series)
    <3>1. h = [series |-> g.series, lost |-> g.lost \cup {<<c, "PROVIDER_UNAVAILABLE">>}]
      BY <1>3, <2>4 DEF MergeInto
    <3>2. LostCalls(h) = LostCalls(g) \cup {c}
      <4>1. h.lost = g.lost \cup {<<c, "PROVIDER_UNAVAILABLE">>}
        BY <3>1
      <4> HIDE DEF h
      <4>2. LostCalls(h) = {l[1] : l \in g.lost \cup {<<c, "PROVIDER_UNAVAILABLE">>}}
        BY <4>1 DEF LostCalls
      <4> QED
        BY <4>2, OneLoss DEF LostCalls
    <3> QED
      BY <1>3, <2>4, <3>1, <3>2 DEF Lead, LeadAfter, Unfit, Aligned
  <2> QED
    BY <2>2, <2>3, <2>4
<1> QED
  BY <1>1, <1>2, <1>3 DEF Calls

\* So what a gathering loses is what does not fit the days that came first.
LEMMA GatherLoses ==
    ASSUME NEW calls \in [Range(Capabilities) -> Calls]
    PROVE  LET call(i) == calls[Capabilities[i]]
               l1 == LeadAfter(None, call(1))
               l2 == LeadAfter(l1, call(2))
           IN  /\ "forecast" \in LostCalls(Gather(calls)) <=> Unfit(None, call(1))
               /\ "marine" \in LostCalls(Gather(calls)) <=> Unfit(l1, call(2))
               /\ "archive" \in LostCalls(Gather(calls)) <=> Unfit(l2, call(3))
<1> DEFINE call(i) == calls[Capabilities[i]]
           g0 == [series |-> None, lost |-> {}]
           g1 == MergeInto(g0, "forecast", call(1))
           g2 == MergeInto(g1, "marine", call(2))
           g3 == MergeInto(g2, "archive", call(3))
<1>1. Gather(calls) = g3
  BY DEF Gather, Capabilities
<1>2. call(1) \in Calls /\ call(2) \in Calls /\ call(3) \in Calls
  BY DEF Range, Capabilities
<1>3. g0.series \in Series \cup {None} /\ Lead(g0) = None /\ LostCalls(g0) = {}
  BY DEF Lead, LostCalls
<1> HIDE DEF call
<1>4. /\ g1.series \in Series \cup {None} /\ g1 = [series |-> g1.series, lost |-> g1.lost]
      /\ Lead(g1) = LeadAfter(None, call(1))
      /\ LostCalls(g1) = IF Unfit(None, call(1)) THEN {"forecast"} ELSE {}
  <2> HIDE DEF g1
  <2>1. /\ g1.series \in Series \cup {None} /\ g1 = [series |-> g1.series, lost |-> g1.lost]
        /\ Lead(g1) = LeadAfter(Lead(g0), call(1))
        /\ LostCalls(g1) = LostCalls(g0) \cup (IF Unfit(Lead(g0), call(1)) THEN {"forecast"} ELSE {})
    BY <1>2, <1>3, OneMore DEF g1
  <2> HIDE DEF g0
  <2> QED
    BY <1>3, <2>1
<1> HIDE DEF g0, g1
<1>5. /\ g2.series \in Series \cup {None} /\ g2 = [series |-> g2.series, lost |-> g2.lost]
      /\ Lead(g2) = LeadAfter(Lead(g1), call(2))
      /\ LostCalls(g2) = LostCalls(g1) \cup (IF Unfit(Lead(g1), call(2)) THEN {"marine"} ELSE {})
  BY <1>2, <1>4, OneMore
<1> HIDE DEF g2
<1>6. LostCalls(g3) = LostCalls(g2) \cup (IF Unfit(Lead(g2), call(3)) THEN {"archive"} ELSE {})
  BY <1>2, <1>5, OneMore
<1> HIDE DEF g3
<1> QED
  BY <1>1, <1>4, <1>5, <1>6 DEF call

\* Of the calls that settled, a gathering loses those that cannot be used.
LEMMA LostIsUnusable ==
    ASSUME NEW r \in Requests, result[r] \in [Range(Capabilities) -> Calls],
           NEW i \in 1..Len(Capabilities),
           result[r][Capabilities[i]].state \in {"ok", "failed"}
    PROVE  Capabilities[i] \in LostCalls(Gather(result[r])) <=> ~Usable(r, i)
<1> DEFINE call(j) == result[r][Capabilities[j]]
           days(j) == call(j).state = "ok" /\ call(j).series.axis # None
           first == {j \in 1..Len(Capabilities) : days(j) /\ \A k \in 1..(j - 1) : ~days(k)}
<1>0. Len(Capabilities) = 3 /\ Capabilities[1] = "forecast" /\ Capabilities[2] = "marine"
      /\ Capabilities[3] = "archive"
  BY DEF Capabilities
<1>1. Usable(r, i) <=> /\ call(i).state = "ok"
                       /\ \A j \in first : days(i) => call(i).series.axis = call(j).series.axis
  BY DEF Usable
<1>2. LET l1 == LeadAfter(None, call(1))
          l2 == LeadAfter(l1, call(2))
      IN  /\ "forecast" \in LostCalls(Gather(result[r])) <=> Unfit(None, call(1))
          /\ "marine" \in LostCalls(Gather(result[r])) <=> Unfit(l1, call(2))
          /\ "archive" \in LostCalls(Gather(result[r])) <=> Unfit(l2, call(3))
  BY GatherLoses
<1>3. \A j \in 1..3 : j \in first <=> days(j) /\ \A k \in 1..(j - 1) : ~days(k)
  BY <1>0
<1>4. first \subseteq 1..3
  BY <1>0
<1> HIDE DEF first
<1>5. CASE i = 1
  BY <1>0, <1>1, <1>2, <1>3, <1>4, <1>5 DEF Unfit
<1>6. CASE i = 2
  BY <1>0, <1>1, <1>2, <1>3, <1>4, <1>6 DEF Unfit, LeadAfter
<1>7. CASE i = 3
  BY <1>0, <1>1, <1>2, <1>3, <1>4, <1>7 DEF Unfit, LeadAfter
<1> QED
  BY <1>0, <1>5, <1>6, <1>7

----------------------------------------------------------------------------
(***************************************************************************)
(* The answer and what it was gathered from.                               *)
(***************************************************************************)

\* What an activity that is possible needs has been asked for.
NeedsAreAsked(r) ==
    phase[r] \in {"gathering", "answered"} =>
        \A code \in DOMAIN plan[r] : plan[r][code].verdict = "applicable" =>
            \A c \in Needs[plan[r][code].content] : result[r][c].state # "unasked"

\* An answer stays the answer to what was gathered and judged.
AnswerIsOfThePlan(r) ==
    phase[r] = "answered" =>
        /\ \A c \in Range(Capabilities) : result[r][c].state # "pending"
        /\ answer[r].dated = Dated(Gather(result[r]))
        /\ \A code \in DOMAIN plan[r] :
              answer[r].outcome[code] \in OutcomesOf(Gather(result[r]), plan[r][code])

GatheringInv == \A r \in Requests : NeedsAreAsked(r) /\ AnswerIsOfThePlan(r)

\* A capability that is needed and lost is a reason, and there is no other.
LEMMA ReasonsAreLosses ==
    ASSUME NEW g, NEW content
    PROVE  Lost(g, content) = {} <=> \A c \in Needs[content] : c \notin LostCalls(g)
<1>1. Lost(g, content) = {} <=> {x \in g.lost : x[1] \in Needs[content]} = {}
  BY DEF Lost
<1>2. {x \in g.lost : x[1] \in Needs[content]} = {}
      <=> \A c \in Needs[content] : c \notin LostCalls(g)
  BY Zenon DEF LostCalls
<1> QED
  BY <1>1, <1>2

\* What is asked for is what some possible activity of the plan needs.
LEMMA PlanAsks ==
    ASSUME NEW judged, NEW code \in DOMAIN judged, judged[code].verdict = "applicable",
           NEW c \in Needs[judged[code].content]
    PROVE  c \in Asked(judged)
BY DEF Asked

\* With the same plan, calls and answer, what was said of them still holds.
LEMMA SameIsSame ==
    ASSUME NEW q \in Requests, NeedsAreAsked(q), AnswerIsOfThePlan(q),
           phase'[q] = phase[q], plan'[q] = plan[q], result'[q] = result[q],
           answer'[q] = answer[q]
    PROVE  NeedsAreAsked(q)' /\ AnswerIsOfThePlan(q)'
BY DEF NeedsAreAsked, AnswerIsOfThePlan

LEMMA GatheringStepKeepsInv ==
    ASSUME TypeOK, Slots, GatheringInv, [Next]_vars
    PROVE  GatheringInv'
<1>t. /\ result = [q \in Requests |-> result[q]] /\ phase = [q \in Requests |-> phase[q]]
      /\ plan = [q \in Requests |-> plan[q]] /\ answer = [q \in Requests |-> answer[q]]
      /\ \A q \in Requests : result[q] \in [Range(Capabilities) -> Calls]
  BY DEF TypeOK, Slots
\* A step of a request: the others are as they were.
<1>1. ASSUME NEW r \in Requests, NeedsAreAsked(r)', AnswerIsOfThePlan(r)',
             \A q \in Requests \ {r} : /\ phase'[q] = phase[q] /\ plan'[q] = plan[q]
                                      /\ result'[q] = result[q] /\ answer'[q] = answer[q]
      PROVE  GatheringInv'
  BY <1>1, SameIsSame DEF GatheringInv
<1>2. ASSUME NEW r \in Requests, Ask(r) \/ Locate(r) \/ Unprofilable(r) PROVE GatheringInv'
  <2>1. phase'[r] \notin {"gathering", "answered"}
    BY <1>2, <1>t DEF Ask, Locate, Unprofilable
  <2>2. \A q \in Requests \ {r} : /\ phase'[q] = phase[q] /\ plan'[q] = plan[q]
                                 /\ result'[q] = result[q] /\ answer'[q] = answer[q]
    BY <1>2, <1>t DEF Ask, Locate, Unprofilable
  <2>3. NeedsAreAsked(r)' /\ AnswerIsOfThePlan(r)'
    BY <2>1 DEF NeedsAreAsked, AnswerIsOfThePlan
  <2> QED
    BY <1>1, <2>2, <2>3
<1>3. ASSUME NEW r \in Requests, Plan(r) PROVE GatheringInv'
  <2>1. PICK profile \in Profiles :
           /\ plan' = [plan EXCEPT ![r] = PlanOf(profile)]
           /\ result' = [result EXCEPT ![r] =
                 [c \in Range(Capabilities) |->
                     [state |-> IF c \in Asked(PlanOf(profile)) THEN "pending"
                                ELSE "unasked"]]]
    BY <1>3 DEF Plan
  <2>2. \A q \in Requests \ {r} : /\ phase'[q] = phase[q] /\ plan'[q] = plan[q]
                                 /\ result'[q] = result[q] /\ answer'[q] = answer[q]
    BY <1>3, <2>1, <1>t DEF Plan
  <2>3. /\ phase'[r] = "gathering" /\ plan'[r] = PlanOf(profile)
        /\ \A c \in Range(Capabilities) :
              result'[r][c].state = IF c \in Asked(PlanOf(profile)) THEN "pending" ELSE "unasked"
    BY <1>3, <2>1, <1>t DEF Plan
  <2>4. ASSUME NEW code \in DOMAIN plan'[r], plan'[r][code].verdict = "applicable",
               NEW c \in Needs[plan'[r][code].content]
        PROVE  result'[r][c].state # "unasked"
    <3>1. c \in Asked(PlanOf(profile))
      BY <2>3, <2>4, PlanAsks
    <3>2. plan'[r][code].content \in Contents
      <4>1. PlanOf(profile) \in UNION {[S -> Judged] : S \in SUBSET Codes}
        BY PlanIsTyped DEF TypeOK
      <4> QED
        BY <2>3, <2>4, <4>1 DEF Judged
    <3>3. c \in Range(Capabilities)
      BY <2>4, <3>2, RankingAssumption
    <3> QED
      BY <2>3, <3>1, <3>3
  <2>5. NeedsAreAsked(r)' /\ AnswerIsOfThePlan(r)'
    BY <2>3, <2>4 DEF NeedsAreAsked, AnswerIsOfThePlan
  <2> QED
    BY <1>1, <2>2, <2>5
<1>4. ASSUME NEW r \in Requests, NEW c \in Range(Capabilities), Settles(r, c)
      PROVE  GatheringInv'
  <2>1. PICK call \in [state : {"ok"}, series : Series] \cup [state : {"failed"}, code : Failures] :
           result' = [result EXCEPT ![r][c] = call]
    BY <1>4 DEF Settles
  <2>2. /\ UNCHANGED <<phase, plan, answer>> /\ phase[r] = "gathering"
        /\ \A q \in Requests \ {r} : result'[q] = result[q]
    BY <1>4, <2>1, <1>t DEF Settles
  <2>3. /\ result'[r][c].state # "unasked"
        /\ \A d \in Range(Capabilities) \ {c} : result'[r][d] = result[r][d]
    <3>1. result'[r] = [result[r] EXCEPT ![c] = call]
      BY <2>1, <1>t
    <3>2. call.state # "unasked"
      OBVIOUS
    <3> QED
      BY <3>1, <3>2, <1>t
  <2>4. NeedsAreAsked(r)
    BY DEF GatheringInv
  <2>5. ASSUME NEW code \in DOMAIN plan[r], plan[r][code].verdict = "applicable",
               NEW d \in Needs[plan[r][code].content]
        PROVE  result'[r][d].state # "unasked"
    <3>1. plan[r][code].content \in Contents
      BY <2>5 DEF TypeOK, Judged
    <3>2. d \in Range(Capabilities)
      BY <2>5, <3>1, RankingAssumption
    <3> QED
      BY <2>2, <2>3, <2>4, <2>5, <3>2 DEF NeedsAreAsked
  <2>6. NeedsAreAsked(r)' /\ AnswerIsOfThePlan(r)'
    BY <2>2, <2>5 DEF NeedsAreAsked, AnswerIsOfThePlan
  <2> QED
    BY <1>1, <2>2, <2>6
<1>5. ASSUME NEW r \in Requests, Answer(r) PROVE GatheringInv'
  <2>1. PICK outcome, stamped :
           /\ \A code \in DOMAIN plan[r] :
                 outcome[code] \in OutcomesOf(Gather(result[r]), plan[r][code])
           /\ answer' = [answer EXCEPT ![r] =
              [outcome |-> outcome, stamped |-> stamped, dated |-> Dated(Gather(result[r]))]]
    BY <1>5, Zenon DEF Answer
  <2>2. /\ phase[r] = "gathering" /\ phase' = [phase EXCEPT ![r] = "answered"]
        /\ UNCHANGED <<plan, result>>
        /\ \A c \in Range(Capabilities) : result[r][c].state # "pending"
    BY <1>5 DEF Answer
  <2>3. /\ answer'[r].outcome = outcome /\ answer'[r].dated = Dated(Gather(result[r]))
        /\ \A q \in Requests \ {r} : answer'[q] = answer[q]
    BY <2>1, <1>t
  <2>4. phase'[r] = "answered" /\ \A q \in Requests \ {r} : phase'[q] = phase[q]
    BY <2>2, <1>t
  <2>5. NeedsAreAsked(r)'
    BY <2>2, <2>4 DEF GatheringInv, NeedsAreAsked
  <2>6. AnswerIsOfThePlan(r)'
    BY <2>1, <2>2, <2>3 DEF AnswerIsOfThePlan
  <2> QED
    BY <1>1, <2>2, <2>3, <2>4, <2>5, <2>6
<1>6. CASE UNCHANGED reqVars
  BY <1>6, SameIsSame DEF reqVars, GatheringInv
<1> QED
  BY <1>2, <1>3, <1>4, <1>5, <1>6 DEF Next, Request, vars

\* An activity that is possible is scored exactly when all it needs can be used.
LEMMA ScoredIsUsable ==
    ASSUME TypeOK, GatheringInv, NEW r \in Requests, Answered(r), answer[r].dated,
           NEW code \in DOMAIN plan[r], plan[r][code].verdict = "applicable"
    PROVE  (answer[r].outcome[code] = Scored)
           <=> \A i \in 1..Len(Capabilities) :
                  Capabilities[i] \in Needs[plan[r][code].content] => Usable(r, i)
<1> DEFINE content == plan[r][code].content
           g == Gather(result[r])
           lost == Lost(g, content)
<1>1. /\ answer[r].outcome[code] \in OutcomesOf(g, plan[r][code]) /\ Dated(g)
      /\ \A c \in Range(Capabilities) : result[r][c].state # "pending"
      /\ \A c \in Needs[content] : result[r][c].state # "unasked"
  BY DEF GatheringInv, AnswerIsOfThePlan, NeedsAreAsked, Answered
<1>2. content \in Contents
  BY DEF TypeOK, Judged
<1>3. Needs[content] \subseteq Range(Capabilities)
  BY <1>2, RankingAssumption
<1>4. \A c \in Needs[content] : result[r][c].state \in {"ok", "failed"}
  BY <1>1, <1>3 DEF TypeOK, Calls
<1>5. answer[r].outcome[code] \in (IF lost = {} THEN {Scored} ELSE {NoData(why) : why \in lost})
  BY <1>1 DEF OutcomesOf, DatedOutcomes
<1>6. \A why : NoData(why) # Scored
  BY DEF NoData, Scored
<1>7. answer[r].outcome[code] = Scored <=> lost = {}
  <2> HIDE DEF lost
  <2> QED
    BY <1>5, <1>6
<1>8. lost = {} <=> \A c \in Needs[content] : c \notin LostCalls(g)
  BY ReasonsAreLosses
<1>9. Range(Capabilities) = {Capabilities[i] : i \in 1..Len(Capabilities)}
  BY DEF Range, Capabilities
<1>10. \A i \in 1..Len(Capabilities) :
          Capabilities[i] \in Needs[content]
          => (Capabilities[i] \in LostCalls(g) <=> ~Usable(r, i))
  BY <1>4, LostIsUnusable DEF TypeOK
<1> HIDE DEF lost, g, content
<1>11. (\A c \in Needs[content] : c \notin LostCalls(g))
       <=> \A i \in 1..Len(Capabilities) : Capabilities[i] \in Needs[content] => Usable(r, i)
  BY <1>3, <1>9, <1>10
<1> QED
  BY <1>7, <1>8, <1>11 DEF content

\* One failed source, late series or misaligned axis costs the activities that
\* need it their answer and no other anything, and nothing is scored without
\* all that it needs, for any catalogue, profile and order in which the calls of
\* any number of requests settle (ranking.service.ts:210-217).
THEOREM OnlyTheAffectedLoseAnything == Spec => []OnlyTheAffectedLose
<1>1. Init => GatheringInv
  BY DEF Init, GatheringInv, NeedsAreAsked, AnswerIsOfThePlan
<1>2. TypeOK /\ RankingInv /\ GatheringInv /\ [Next]_vars => GatheringInv'
  BY GatheringStepKeepsInv DEF RankingInv
<1>3. TypeOK /\ GatheringInv => OnlyTheAffectedLose
  BY ScoredIsUsable DEF OnlyTheAffectedLose
<1>4. Spec => []TypeOK
  BY RankingIsTyped
<1>5. Spec => []RankingInv
  BY RankingInitEstablishesInv, RankingStepKeepsInv, PTL DEF Spec
<1> QED
  BY <1>1, <1>2, <1>3, <1>4, <1>5, PTL DEF Spec
=============================================================================
