-------------------------- MODULE ReportingPeriods --------------------------
(***************************************************************************)
(* The organisation's year and its terms (reports/periods.py), and the     *)
(* administrators who edit them (routers/settings.py): the calendar with   *)
(* its pattern of terms, and the dates stated for one year.                *)
(*                                                                         *)
(* An edit loads the calendar and the rows it replaces, and commits later. *)
(*                                                                         *)
(* Days are numbered, and a calendar year has DaysInYear of them.  The     *)
(* week, the month and the calendar year are left out, and so are labels.  *)
(***************************************************************************)
EXTENDS Integers, FiniteSetsExt, Functions

CONSTANTS
    DaysInYear,
    StatedYear,    \* years whose terms may be stated, named by where they start
    NumTerms,      \* bound: terms of a year
    Editor,        \* edits in progress at one time
    MaxChanges     \* bound: edits

ASSUME ReportingPeriodsAssumption ==
    /\ {DaysInYear, NumTerms, MaxChanges} \subseteq Nat \ {0}
    /\ StatedYear \in (SUBSET Nat) \ {{}}

VARIABLES
    yearStart,    \* the day of the calendar year on which the year starts
    terms,        \* reporting_terms: the repeating pattern
    instances,    \* reporting_term_instances: the years stated
    editing,      \* what each edit has loaded
    changes

reportingVars == <<yearStart, terms, instances, editing, changes>>

DayOfYear == 0..DaysInYear - 1

Day == 0..DaysInYear * (Max(StatedYear) + 2) - 1

Position == 0..NumTerms - 1

NoPosition == -1

\* by: the edit that wrote the row, which tells rows with the same content apart.
ReportingTerm == [start: DayOfYear, position: Position, by: 1..MaxChanges]

\* end is inclusive.  under: history, the year's start when it was checked.
TermInstance == [year: StatedYear, start: Day, end: Day, position: Position,
                 under: DayOfYear, by: 1..MaxChanges]

Edit == [pc: {"idle", "calendar", "year"}, id: 0..MaxChanges,
         year: StatedYear, under: DayOfYear, terms: SUBSET ReportingTerm, rows: SUBSET TermInstance]

IdleEdit == [pc |-> "idle", id |-> 0, year |-> Min(StatedYear), under |-> 0,
             terms |-> {}, rows |-> {}]

ReportingTypeOK ==
    /\ yearStart \in DayOfYear
    /\ terms \subseteq ReportingTerm
    /\ instances \subseteq TermInstance
    /\ editing \in [Editor -> Edit]
    /\ changes \in 0..MaxChanges

\* The calendar year, and no terms.
ReportingInit ==
    /\ yearStart = 0 /\ terms = {} /\ instances = {}
    /\ editing = [e \in Editor |-> IdleEdit]
    /\ changes = 0

-----------------------------------------------------------------------------
(* Periods: the end of one is exclusive, start <= d < end.                 *)

ReportingYearBounds(year, start) ==
    [start |-> year * DaysInYear + start, end |-> (year + 1) * DaysInYear + start]

ReportingYearOf(day) ==
    LET year == day \div DaysInYear
    IN IF day >= ReportingYearBounds(year, yearStart).start THEN year ELSE year - 1

Term(year, position, start, end) ==
    [year |-> year, position |-> position, start |-> start, end |-> end]

\* Into the calendar year that has it inside the reporting year.
Placed(year, term) ==
    LET candidate == year * DaysInYear + term.start
    IN IF candidate < ReportingYearBounds(year, yearStart).start
       THEN candidate + DaysInYear ELSE candidate

GeneratedTerms(year) ==
    LET after(t) == {Placed(year, u) : u \in {v \in terms : Placed(year, v) > Placed(year, t)}}
    IN {Term(year, t.position, Placed(year, t),
             Min(after(t) \cup {ReportingYearBounds(year, yearStart).end})) : t \in terms}

Stated(year) == {i \in instances : i.year = year}

\* Stated dates replace the pattern of their year altogether.
TermsForYear(year) ==
    IF Stated(year) # {}
    THEN {Term(year, i.position, i.start, i.end + 1) : i \in Stated(year)}
    ELSE GeneratedTerms(year)

Contains(period, day) == period.start <= day /\ day < period.end

CurrentTerm(today) == {t \in TermsForYear(ReportingYearOf(today)) : Contains(t, today)}

\* An explicit key, term:<year>:<position>: the first that has it.
Resolve(year, position) ==
    LET found == {t \in TermsForYear(year) : t.position = position}
    IN {t \in found : \A u \in found : t.start <= u.start}

-----------------------------------------------------------------------------
(* Edits.                                                                  *)

Begins(e, edit) ==
    /\ editing[e].pc = "idle"
    /\ changes < MaxChanges /\ changes' = changes + 1
    /\ editing' = [editing EXCEPT ![e] = [edit EXCEPT !.id = changes']]
    /\ UNCHANGED <<yearStart, terms, instances>>

Ends(e) == editing' = [editing EXCEPT ![e] = IdleEdit] /\ UNCHANGED changes

LoadCalendar(e) == Begins(e, [IdleEdit EXCEPT !.pc = "calendar", !.terms = terms])

\* Positions go by the submitted order, and no two terms start on one day.
Pattern(e, n) ==
    {{[start |-> starts[p], position |-> p, by |-> editing[e].id] : p \in 0..n - 1} :
        starts \in {s \in [0..n - 1 -> DayOfYear] :
                       \A p, q \in 0..n - 1 : s[p] = s[q] => p = q}}

\* The terms are replaced as a whole.
UpdateReportingCalendar(e) ==
    /\ editing[e].pc = "calendar"
    /\ yearStart' \in DayOfYear
    /\ \E n \in 0..NumTerms : \E pattern \in Pattern(e, n) :
           terms' = (terms \ editing[e].terms) \cup pattern
    /\ Ends(e)
    /\ UNCHANGED instances

LoadYear(e) ==
    \E year \in StatedYear :
        Begins(e, [IdleEdit EXCEPT !.pc = "year", !.year = year, !.under = yearStart,
                                   !.rows = Stated(year)])

\* Fault: the last day is compared with the bound as if that were inclusive.
InsideInclusive(e, segment) ==
    LET year == ReportingYearBounds(editing[e].year, editing[e].under)
    IN year.start <= segment.start /\ segment.end <= year.end

Inside(e, segment) ==
    LET year == ReportingYearBounds(editing[e].year, editing[e].under)
    IN year.start <= segment.start /\ segment.end < year.end

Segment == {s \in [start: Day, end: Day, position: Position \cup {NoPosition}] : s.start <= s.end}

\* What the schema lets through: disjoint, and no position given twice.
Disjoint(s, t) == s.end < t.start \/ t.end < s.start

Payloads(e) ==
    {S \in {Range(f) : f \in [1..NumTerms -> {s \in Segment : Inside(e, s)}]} :
        \A s, t \in S : s # t => /\ Disjoint(s, t)
                                 /\ s.position = t.position => s.position = NoPosition}

\* A position that was not given is the place in the order of dates, whether or
\* not another segment was given that one.
Instances(e, S) ==
    {[year |-> editing[e].year, start |-> s.start, end |-> s.end,
      position |-> IF s.position # NoPosition THEN s.position
                   ELSE Cardinality({t \in S : t.start < s.start}),
      under |-> editing[e].under, by |-> editing[e].id] : s \in S}

OverrideReportingYear(e) ==
    /\ editing[e].pc = "year"
    /\ \E S \in Payloads(e) : instances' = (instances \ editing[e].rows) \cup Instances(e, S)
    /\ Ends(e)
    /\ UNCHANGED <<yearStart, terms>>

\* Only if there is something to clear.
ClearReportingYearOverride(e) ==
    /\ editing[e].pc = "year" /\ editing[e].rows # {}
    /\ instances' = instances \ editing[e].rows
    /\ Ends(e)
    /\ UNCHANGED <<yearStart, terms>>

\* 422, or the process dies.
EditFails(e) ==
    /\ editing[e].pc # "idle"
    /\ Ends(e)
    /\ UNCHANGED <<yearStart, terms, instances>>

ReportingNext ==
    \E e \in Editor :
        \/ LoadCalendar(e) \/ UpdateReportingCalendar(e)
        \/ LoadYear(e) \/ OverrideReportingYear(e) \/ ClearReportingYearOverride(e)
        \/ EditFails(e)

ReportingSpec == ReportingInit /\ [][ReportingNext]_reportingVars

-----------------------------------------------------------------------------
(* Properties.                                                             *)

\* What one edit wrote is all there is of a year, and it was checked against the
\* year as it is now.
Undisturbed ==
    /\ \A i, j \in instances : i.under = yearStart /\ (i.year = j.year => i.by = j.by)
    /\ \A t, u \in terms : t.by = u.by

\* "Two adjacent periods cannot both claim the same day": a day that lies in some
\* term, generated or stated, of whichever year, lies in no other, and is
\* resolved to that one.  It takes two edits of the same rows at a time, or a
\* calendar that is moved under years that were stated, to break that
\* (terms_for_year, current_term, override_reporting_year).
OneTermADay ==
    Undisturbed =>
        \A year \in {y - 1 : y \in StatedYear} \cup StatedYear \cup {y + 1 : y \in StatedYear} :
            \A term \in TermsForYear(year) : \A day \in term.start..term.end - 1 :
                CurrentTerm(day) = {term}

\* "Resolution returns the first match and the second segment simply cannot be
\* selected for a report": that is said to be kept out by the check on
\* positions, so the key of each term of a year resolves to that term.
KeysResolveBack ==
    \A year \in StatedYear : \A term \in TermsForYear(year) :
        Undisturbed => Resolve(year, term.position) = {term}
=============================================================================
