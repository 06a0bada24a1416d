------------------------------ MODULE Figures ------------------------------
(***************************************************************************)
(* The quality statistics of a period (hyc_api/reports/statistics.py and       *)
(* routes/statistics.py) while cases are approved and the rows the figures     *)
(* also come from are edited.                                                 *)
(*                                                                         *)
(* A report is one transaction of many statements: the approved cases of the   *)
(* period first, then, case by case, what it looks up for each.  Time is       *)
(* counted in moments; a day in Seoul begins Shift moments before the day in   *)
(* UTC the database stores.  An approval stamps its snapshot when it inserts    *)
(* it and is seen when it commits.                                            *)
(***************************************************************************)
EXTENDS NoValue, Integers, FiniteSets, Functions

CONSTANTS
  Approvals,     \* cases with a decision snapshot
  Firms,         \* suppliers
  FirmNames,
  Verdicts,      \* final decisions
  DayLength, Shift, MonthLength,   \* moments of a day, KST before UTC, days of a month
  Periods,       \* <<first day, last day>> of the reports that are asked for
  LastMoment     \* bound of the model

ASSUME FigureAssumption ==
  /\ DayLength \in Nat \ {0} /\ MonthLength \in Nat \ {0} /\ Shift \in 0 .. DayLength
  /\ LastMoment \in Nat /\ Periods \subseteq Int \X Int /\ None \notin Periods
  /\ IsFiniteSet(Approvals) /\ IsFiniteSet(Verdicts)

VARIABLES
  now,       \* the time
  decided,     \* case -> its snapshot and what is looked up with it, or None
  firmName,    \* supplier -> its name now
  report,      \* the report being made
  published    \* period -> the verdicts the last report of it counted, or None

figureVars == <<now, decided, firmName, report, published>>

FigureMoments == 0 .. LastMoment
KstDay(t) == (t + Shift) \div DayLength
Month(t) == KstDay(t) \div MonthLength
Decided ==
  [verdict : Verdicts, stamp : FigureMoments, committed : BOOLEAN, firm : Firms,
   disposed : BOOLEAN, open : 0 .. 1]
ASSUME DecidedAssumption == None \notin Decided
FigureRow == [verdict : Verdicts, stamp : FigureMoments, name : FirmNames, defect : BOOLEAN,
        open : 0 .. 1]
NoReport == [period |-> None, settled |-> FALSE, left |-> {}, rows |-> <<>>]

FigureTypeOK ==
  /\ now \in FigureMoments
  /\ decided \in [Approvals -> Decided \cup {None}]
  /\ firmName \in [Firms -> FirmNames]
  /\ report.period \in Periods \cup {None} /\ report.left \subseteq Approvals
  /\ \A c \in DOMAIN report.rows : report.rows[c] \in FigureRow

InitFigures ==
  /\ now = 0
  /\ decided = [c \in Approvals |-> None]
  /\ firmName \in [Firms -> FirmNames]
  /\ report = NoReport
  /\ published = [p \in Periods |-> None]

-----------------------------------------------------------------------------
(* period_bounds_utc, and the filter of calculate_quality_statistics_data      *)
(* that compares in Seoul time again.                                         *)
UtcBounds(p) == p[1] * DayLength .. (p[2] + 1) * DayLength - 1           \* mutant
Bounds(p) == p[1] * DayLength - Shift .. (p[2] + 1) * DayLength - 1 - Shift
InPeriod(t, p) == t \in Bounds(p) /\ KstDay(t) \in p[1] .. p[2]

(* query_approved_inspection_cases: what a report of the period counts.        *)
Counted(c) == decided[c] # None /\ decided[c].committed
Population(p) == {c \in Approvals : Counted(c) /\ InPeriod(decided[c].stamp, p)}

(* build_statistics_rows: the case as it was decided, and what is looked up.   *)
LiveVerdict(c) ==                                         \* mutant
  LET d == decided[c] IN
  [verdict |-> IF d.disposed THEN "REJECTED" ELSE d.verdict, stamp |-> d.stamp,
   name |-> firmName[d.firm], defect |-> d.disposed, open |-> d.open]
ClosedOnesTaken(c) ==                                     \* mutant
  LET d == decided[c] IN
  [verdict |-> d.verdict, stamp |-> d.stamp, name |-> firmName[d.firm],
   defect |-> d.disposed, open |-> IF d.disposed THEN d.open - 1 ELSE d.open]
RowOf(c) ==
  LET d == decided[c] IN
  [verdict |-> d.verdict, stamp |-> d.stamp, name |-> firmName[d.firm],
   defect |-> d.verdict \in {"REJECTED", "SPECIAL_ACCEPTED"} \/ d.disposed, open |-> d.open]

(* calculate_quality_statistics_data: each breakdown counts the same rows.     *)
Count(rows, P(_)) == Cardinality({c \in DOMAIN rows : P(rows[c])})
ByVerdict(rows) == [v \in Verdicts |-> Count(rows, LAMBDA r : r.verdict = v)]
CurrentNames(rows) == {firmName[f] : f \in Firms}                        \* mutant
NamesOf(rows) == {rows[c].name : c \in DOMAIN rows}
ByFirm(rows) ==
  [n \in NamesOf(rows) |->
     [inspected |-> Count(rows, LAMBDA r : r.name = n),
      defective |-> Count(rows, LAMBDA r : r.name = n /\ r.defect)]]
FigureSum(f) == FoldFunctionOnSet(LAMBDA x, y : x + y, 0, f, DOMAIN f)
Monthly(rows) ==
  [m \in {Month(rows[c].stamp) : c \in DOMAIN rows} |->
     Count(rows, LAMBDA r : Month(r.stamp) = m)]
Figures(rows) ==
  [population |-> Cardinality(DOMAIN rows), byVerdict |-> ByVerdict(rows),
   byFirm |-> ByFirm(rows), monthly |-> Monthly(rows)]

-----------------------------------------------------------------------------
DecideCase(c, verdict, firm) ==
  /\ decided[c] = None
  /\ decided' = [decided EXCEPT ![c] =
       [verdict |-> verdict, stamp |-> now, committed |-> FALSE, firm |-> firm,
        disposed |-> FALSE, open |-> 0]]
  /\ UNCHANGED <<now, firmName, report, published>>
CommitApproval(c) ==
  /\ decided[c] # None /\ ~decided[c].committed
  /\ decided' = [decided EXCEPT ![c].committed = TRUE]
  /\ UNCHANGED <<now, firmName, report, published>>

(* What changes after a decision: a nonconformance raised, handled, closed,    *)
(* a supplier renamed.                                                        *)
RaiseNonconformance(c) ==
  /\ Counted(c) /\ decided[c].open = 0 /\ ~decided[c].disposed
  /\ decided' = [decided EXCEPT ![c].open = 1]
  /\ UNCHANGED <<now, firmName, report, published>>
Dispose(c) ==
  /\ Counted(c) /\ decided[c].open = 1
  /\ decided' = [decided EXCEPT ![c].open = 0, ![c].disposed = TRUE]
  /\ UNCHANGED <<now, firmName, report, published>>
RenameFirm(f, name) ==
  /\ firmName' = [firmName EXCEPT ![f] = name]
  /\ UNCHANGED <<now, decided, report, published>>

(* The period is over, and what was stamped in it is committed.               *)
PeriodOver(p) ==
  /\ \A t \in Bounds(p) : t < now
  /\ \A c \in Approvals : decided[c] # None /\ InPeriod(decided[c].stamp, p) => Counted(c)
BeginReport(p) ==
  /\ report = NoReport
  /\ report' = [period |-> p, settled |-> PeriodOver(p), left |-> Population(p), rows |-> <<>>]
  /\ UNCHANGED <<now, decided, firmName, published>>
ReadRow(c) ==
  /\ c \in report.left
  /\ report' = [report EXCEPT !.left = @ \ {c},
       !.rows = [d \in DOMAIN @ \cup {c} |-> IF d = c THEN RowOf(c) ELSE @[d]]]
  /\ UNCHANGED <<now, decided, firmName, published>>
PublishReport ==
  /\ report.period # None /\ report.left = {}
  /\ published' = [published EXCEPT ![report.period] =
       [byVerdict |-> Figures(report.rows).byVerdict, settled |-> report.settled]]
  /\ report' = NoReport
  /\ UNCHANGED <<now, decided, firmName>>

TimePasses ==
  /\ now < LastMoment /\ now' = now + 1              \* bound of the model
  /\ UNCHANGED <<decided, firmName, report, published>>

NextFigures ==
  \/ \E c \in Approvals :
       \/ \E verdict \in Verdicts, firm \in Firms : DecideCase(c, verdict, firm)
       \/ CommitApproval(c) \/ RaiseNonconformance(c) \/ Dispose(c) \/ ReadRow(c)
  \/ \E f \in Firms, name \in FirmNames : RenameFirm(f, name)
  \/ \E p \in Periods : BeginReport(p)
  \/ PublishReport \/ TimePasses

FiguresSpec == InitFigures /\ [][NextFigures]_figureVars

-----------------------------------------------------------------------------
(* The breakdowns of one report are of one population: the months, the         *)
(* verdicts and the suppliers add up to it, whatever was renamed while the      *)
(* rows were read one after another.                                          *)
FiguresAddUp ==
  report.period # None /\ report.left = {} =>
    LET f == Figures(report.rows) IN
    /\ FigureSum(f.byVerdict) = f.population /\ FigureSum(f.monthly) = f.population
    /\ FigureSum([n \in DOMAIN f.byFirm |-> f.byFirm[n].inspected]) = f.population
    /\ \A n \in DOMAIN f.byFirm : f.byFirm[n].defective <= f.byFirm[n].inspected

(* What was decided in a period that is over never changes again: however       *)
(* late a report of it is made, and whatever was raised, handled or renamed     *)
(* since, it counts the same verdicts.                                        *)
PastDecisionsStand ==
  [][\A p \in Periods :
       published[p] # None /\ published[p].settled =>
         published'[p].byVerdict = published[p].byVerdict]_figureVars

(* Every decision is in the report of exactly one day, that of the calendar     *)
(* in Seoul: none falls between two days or into both.                        *)
CountedOnOneDay ==
  \A c \in Approvals : Counted(c) =>
    {d \in 0 .. KstDay(LastMoment) : c \in Population(<<d, d>>)} = {KstDay(decided[c].stamp)}

(* Each decision is counted once: in the report of one day, and there once in   *)
(* every breakdown.                                                           *)
DecisionsCountOnce == FiguresAddUp /\ CountedOnOneDay
=============================================================================
