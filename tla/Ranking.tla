------------------------------ MODULE Ranking ------------------------------
(***************************************************************************)
(* A ranking request (modules/ranking/ranking.service.ts) over a catalogue *)
(* that is refreshed and published to while the request awaits the place,  *)
(* its profile and the sources.                                            *)
(*                                                                         *)
(* A definition is reduced to the capabilities it needs and the rules that *)
(* say where it is possible, a profile to the verdict of every rule, and a *)
(* series to the first day of its axis.  What the scoring engine makes of  *)
(* a day is one outcome here, "scored"; module Scoring has its inside.     *)
(***************************************************************************)
EXTENDS Catalogue, SequencesExt

CONSTANTS
    Requests,    \* requests under way at once
    Rules,       \* applicability rules
    Needs,       \* Needs[content]: capabilities its metrics come from
    RulesOf,     \* RulesOf[content]: the rules it declares
    MaxDays,     \* limits.maxDays
    DefaultDays, \* limits.defaultDays
    Axes,        \* first days a series may have
    Profiles     \* profiles a place may have: verdicts of the rules

Capabilities == <<"forecast", "marine", "archive">>

ASSUME RankingAssumption ==
    /\ Needs \in [Contents -> SUBSET Range(Capabilities)]
    /\ RulesOf \in [Contents -> SUBSET Rules]
    /\ Profiles \subseteq [Rules -> {"applicable", "not_applicable", "undecided"}]
    /\ None \notin Axes /\ None \notin [axis : Axes \cup {None}]
    /\ {MaxDays, DefaultDays} \subseteq Nat \ {0}

VARIABLES
    phase,    \* "idle", "locating", "profiling", "gathering", "answered", "refused"
    plan,     \* plan[r]: code -> what the request judged and how
    result,   \* result[r]: what each capability's call has brought back
    answer    \* answer[r]: what was answered and audited

reqVars == <<phase, plan, result, answer>>
vars == <<catVars, reqVars>>

Failures == {"PROVIDER_BUSY", "PROVIDER_UNAVAILABLE"}
Verdicts == {"applicable", "not_applicable", "undecided"}

\* The first day of a series; one without slots has none.
Series == [axis : Axes \cup {None}]
Judged == [number : Numbers, content : Contents, verdict : Verdicts]

\* The outcomes of a call: a series, an error the port names, or a rejection;
\* what has not settled is "pending" and what was not asked for "unasked".
Calls == [state : {"unasked", "pending"}] \cup [state : {"ok"}, series : Series]
         \cup [state : {"failed"}, code : Failures]

Outcomes == [kind : {"scored"}, reason : {None}]
            \cup [kind : {"not_applicable", "no_data"}, reason : {"verdict"} \cup Failures
                                                              \cup {"MARINE_UNAVAILABLE"}]
\* An answer is what an answer was computed to be: its outcomes are those of
\* OutcomesOf.
TypeOK ==
    /\ CatTypeOK
    /\ phase \in [Requests -> {"idle", "locating", "profiling", "gathering",
                               "answered", "refused"}]
    /\ plan \in [Requests -> UNION {[S -> Judged] : S \in SUBSET Codes}]
    /\ result \in [Requests -> [Range(Capabilities) -> Calls]]
    /\ DOMAIN answer = Requests

Unasked == [c \in Range(Capabilities) |-> [state |-> "unasked"]]

Init ==
    /\ CatInit
    /\ phase = [r \in Requests |-> "idle"]
    /\ plan = [r \in Requests |-> << >>]
    /\ result = [r \in Requests |-> Unasked]
    /\ answer = [r \in Requests |-> None]

----------------------------------------------------------------------------
(***************************************************************************)
(* Pure parts.                                                             *)
(***************************************************************************)

\* resolveHorizon: a whole number of days, at least one, and not shortened.
Horizon(requested) == IF requested = None THEN DefaultDays ELSE requested
HorizonOk(requested) == Horizon(requested) \in 1..MaxDays

\* A settled impossibility outranks what is undecided, which outranks the rest.
Applicability(profile, content) ==
    LET verdicts == {profile[rule] : rule \in RulesOf[content]}
    IN  IF "not_applicable" \in verdicts THEN "not_applicable"
        ELSE IF "undecided" \in verdicts THEN "undecided" ELSE "applicable"

\* applicabilityPlan over catalogue.activities().
PlanOf(profile) ==
    [code \in ActiveCodes(index) |->
        [number |-> ActiveNumber(index, code), content |-> Definition(index, code),
         verdict |-> Applicability(profile, Definition(index, code))]]

\* Only an applicable activity contributes requirements.
Asked(judged) ==
    UNION {Needs[judged[code].content] :
              code \in {c \in DOMAIN judged : judged[c].verdict = "applicable"}}

\* The merge of two series: one without slots passes the other through, and
\* two whose axes differ do not line up.
Aligned(a, b) == a.axis = None \/ b.axis = None \/ a.axis = b.axis

Union(a, b) == IF a.axis = None THEN b ELSE a

\* What has been merged so far, and the capabilities that are lost with why.
Gathered == [series : Series \cup {None}, lost : SUBSET (Range(Capabilities) \X Failures)]

\* Mutant: a series that does not line up is left out and nothing said of it.
MergeInto_Silent(g, c, call) ==
    IF call.state = "failed" THEN [g EXCEPT !.lost = @ \cup {<<c, call.code>>}]
    ELSE IF call.state # "ok" THEN g
    ELSE IF g.series = None THEN [g EXCEPT !.series = call.series]
    ELSE IF Aligned(g.series, call.series)
         THEN [g EXCEPT !.series = Union(@, call.series)]
    ELSE g

\* The outcomes are taken in the order of the requests; the series that came
\* first in it stays when one does not line up (SCHEMA_MISMATCH).
MergeInto(g, c, call) ==
    IF call.state = "failed" THEN [g EXCEPT !.lost = @ \cup {<<c, call.code>>}]
    ELSE IF call.state # "ok" THEN g
    ELSE IF g.series = None THEN [g EXCEPT !.series = call.series]
    ELSE IF Aligned(g.series, call.series)
         THEN [g EXCEPT !.series = Union(@, call.series)]
    ELSE [g EXCEPT !.lost = @ \cup {<<c, "PROVIDER_UNAVAILABLE">>}]

Gather(calls) ==
    LET merged(g, i) == MergeInto(g, Capabilities[i], calls[Capabilities[i]])
    IN  merged(merged(merged([series |-> None, lost |-> {}], 1), 2), 3)

\* reasonFor: a budget that is spent is its own reason; the marine host has one
\* of its own.
ReasonFor(c, code) ==
    IF code = "PROVIDER_BUSY" THEN code
    ELSE IF c = "marine" THEN "MARINE_UNAVAILABLE" ELSE "PROVIDER_UNAVAILABLE"

\* Why an activity has no data: the reasons of the capabilities it needs and
\* that are lost.  Which of several is told follows the order of its metrics.
Lost(g, content) == {ReasonFor(l[1], l[2]) : l \in {x \in g.lost : x[1] \in Needs[content]}}

NoData(reason) == [kind |-> "no_data", reason |-> reason]
Scored == [kind |-> "scored", reason |-> None]

\* A day of the answer, when the series identify days.
DatedOutcomes(g, judged) ==
    CASE judged.verdict = "not_applicable" ->
            {[kind |-> "not_applicable", reason |-> "verdict"]}
      [] judged.verdict = "undecided" -> {NoData("verdict")}
      [] OTHER -> IF Lost(g, judged.content) = {} THEN {Scored}
                  ELSE {NoData(why) : why \in Lost(g, judged.content)}

\* The answer without a day: a failure goes before an undecided rule.
UndatedOutcomes(g, judged) ==
    CASE judged.verdict = "not_applicable" ->
            {[kind |-> "not_applicable", reason |-> "verdict"]}
      [] Lost(g, judged.content) # {} -> {NoData(why) : why \in Lost(g, judged.content)}
      [] OTHER -> {NoData(IF judged.verdict = "undecided" THEN "verdict"
                          ELSE "PROVIDER_UNAVAILABLE")}

Dated(g) == g.series # None /\ g.series.axis # None

OutcomesOf(g, judged) == IF Dated(g) THEN DatedOutcomes(g, judged) ELSE UndatedOutcomes(g, judged)

----------------------------------------------------------------------------
(***************************************************************************)
(* A request.                                                              *)
(***************************************************************************)
Ask(r) ==
    /\ phase[r] \in {"idle", "answered", "refused"}
    /\ \E requested \in {None, 0, MaxDays, MaxDays + 1} :
          phase' = [phase EXCEPT ![r] = IF HorizonOk(requested) THEN "locating" ELSE "refused"]
    /\ plan' = [plan EXCEPT ![r] = << >>]
    /\ result' = [result EXCEPT ![r] = Unasked]
    /\ answer' = [answer EXCEPT ![r] = None]
    /\ UNCHANGED catVars

\* The resolver answers; module Places has what it answers.
Locate(r) ==
    /\ phase[r] = "locating"
    /\ \E next \in {"profiling", "refused"} : phase' = [phase EXCEPT ![r] = next]
    /\ UNCHANGED <<catVars, plan, result, answer>>

Unprofilable(r) ==
    /\ phase[r] = "profiling"
    /\ phase' = [phase EXCEPT ![r] = "refused"]
    /\ UNCHANGED <<catVars, plan, result, answer>>

\* The profile is there: the catalogue is read, and every planned call is
\* issued.
Plan(r) ==
    /\ phase[r] = "profiling"
    /\ \E profile \in Profiles :
          /\ plan' = [plan EXCEPT ![r] = PlanOf(profile)]
          /\ result' = [result EXCEPT ![r] =
                [c \in Range(Capabilities) |->
                    [state |-> IF c \in Asked(PlanOf(profile)) THEN "pending" ELSE "unasked"]]]
    /\ phase' = [phase EXCEPT ![r] = "gathering"]
    /\ ScheduleCheck
    /\ UNCHANGED <<table, index, age, publisher, answer>>

\* A call settles, with a series or in any of the ways a port or the router
\* fails; a port that throws is a transport failure like any other.
Settles(r, c) ==
    /\ phase[r] = "gathering"
    /\ result[r][c].state = "pending"
    /\ \E call \in [state : {"ok"}, series : Series] \cup [state : {"failed"}, code : Failures] :
          result' = [result EXCEPT ![r][c] = call]
    /\ UNCHANGED <<catVars, phase, plan, answer>>

\* The stamp of the audit record: the version of the plan for what was ranked,
\* and what the catalogue says now for the rest, among it what was scored and
\* came out blocked or without data.
Stamps(judged, outcome, code) ==
    {ActiveNumber(index, code)} \cup (IF outcome = Scored THEN {judged.number} ELSE {})

\* The outcomes of the plan, and their record.
Answer(r) ==
    /\ phase[r] = "gathering"
    /\ \A c \in Range(Capabilities) : result[r][c].state # "pending"
    /\ LET g == Gather(result[r])
           all == UNION {OutcomesOf(g, plan[r][code]) : code \in DOMAIN plan[r]}
       IN  \E outcome \in [DOMAIN plan[r] -> all], stamped \in [DOMAIN plan[r] -> Numbers] :
              /\ \A code \in DOMAIN plan[r] :
                    /\ outcome[code] \in OutcomesOf(g, plan[r][code])
                    /\ stamped[code] \in Stamps(plan[r][code], outcome[code], code)
              /\ answer' = [answer EXCEPT ![r] =
                    [outcome |-> outcome, stamped |-> stamped, dated |-> Dated(g)]]
    /\ phase' = [phase EXCEPT ![r] = "answered"]
    /\ ScheduleCheck
    /\ UNCHANGED <<table, index, age, publisher, plan, result>>

Request(r) ==
    \/ Ask(r) \/ Locate(r) \/ Unprofilable(r) \/ Plan(r) \/ Answer(r)
    \/ \E c \in Range(Capabilities) : Settles(r, c)

Next ==
    \/ \E r \in Requests : Request(r)
    \/ CatNext /\ UNCHANGED reqVars

Spec == Init /\ [][Next]_vars /\ CatFairness

----------------------------------------------------------------------------
(***************************************************************************)
(* Properties.                                                             *)
(***************************************************************************)
Answered(r) == phase[r] = "answered"

\* A capability is there when its call brought a series that lines up with
\* every earlier one that has days.
Usable(r, i) ==
    LET call(j) == result[r][Capabilities[j]]
        days(j) == call(j).state = "ok" /\ call(j).series.axis # None
        first == {j \in 1..Len(Capabilities) : days(j) /\ \A k \in 1..(j - 1) : ~days(k)}
    IN  /\ call(i).state = "ok"
        /\ \A j \in first : days(i) => call(i).series.axis = call(j).series.axis

\* One failed source, late series or misaligned axis costs the activities that
\* need it their answer, and no other activity anything; and nothing is scored
\* without all that it needs (ranking.service.ts:210-217).
OnlyTheAffectedLose ==
    \A r \in Requests : Answered(r) /\ answer[r].dated =>
        \A code \in DOMAIN plan[r] :
            plan[r][code].verdict = "applicable" =>
                ((answer[r].outcome[code] = Scored)
                 <=> \A i \in 1..Len(Capabilities) :
                        Capabilities[i] \in Needs[plan[r][code].content] => Usable(r, i))

\* The audit record names, for every activity of the answer, a version that is
\* published and at least the one the request judged, although the catalogue
\* may have been reloaded since and is read again for what was not ranked.
AuditNamesThePlanOrLater ==
    \A r \in Requests : Answered(r) =>
        \A code \in DOMAIN plan[r] :
            /\ answer[r].stamped[code] >= plan[r][code].number
            /\ table[<<code, answer[r].stamped[code]>>] # None
=============================================================================
