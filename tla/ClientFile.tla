----------------------------- MODULE ClientFile -----------------------------
(***************************************************************************)
(* The report on a client's export of orders: the mapper of its columns    *)
(* (sources/csv_mapper.py), the period that the client asks for, the rows  *)
(* that are stored and the figures (pipelines/runner.py,                   *)
(* storage/duckdb_client.py, transforms/ecommerce_transform.py).  A cell   *)
(* is what parse_number, parse_dates or STATUS_MAP make of it, money is an *)
(* integer, and a day a number.                                            *)
(***************************************************************************)
EXTENDS Integers, FiniteSets

CONSTANTS
    Files,   \* [columns, rows]: the names of the columns, the lines by their number
    Days,    \* of the periods that are asked for
    NoValue  \* of an empty or unreadable cell, and an open end of a period

Money == {"revenue", "cost", "profit"}

ASSUME ClientFileAssumption ==
    /\ Days \subseteq Nat /\ NoValue \notin Int
    /\ \A f \in Files :
         /\ DOMAIN f.rows \subseteq Nat /\ IsFiniteSet(DOMAIN f.rows)
         /\ \A i \in DOMAIN f.rows :
              /\ \A c \in f.columns \cap Money : f.rows[i][c] \in Int \cup {NoValue}
              /\ "date" \in f.columns => f.rows[i]["date"] \in Nat \cup {NoValue}

VARIABLES
    file,
    period,   \* period_from, period_to of the run
    progress, \* where the run stands
    records,  \* src.records
    table,    \* its rows in ecommerce_orders
    figures   \* its metrics

fileVars == <<file, period, progress, records, table, figures>>

Periods == {p \in [first : Days \cup {NoValue}, last : Days \cup {NoValue}] :
              NoValue \in {p.first, p.last} \/ p.first <= p.last}
Required == {"revenue", "date"}
Over == {"idle", "SUCCESS", "PARTIAL", "FAILED"}
NoFigures == [orders |-> 0, sold |-> 0, revenue |-> 0, cost |-> 0, profit |-> 0]

ClientFileTypeOK ==
    /\ file \in Files /\ period \in Periods
    /\ progress \in Over \cup {"reading", "read", "stored", "computed"}
    /\ \A o \in records \cup table :
         /\ o.date \in Nat /\ {o.revenue, o.cost, o.profit} \subseteq Int
         /\ \A x \in records : x.id = o.id => x = o
    /\ DOMAIN figures = DOMAIN NoFigures

\* The file lies in uploads.
ClientFileInit ==
    /\ file \in Files /\ period = [first |-> NoValue, last |-> NoValue]
    /\ progress = "idle" /\ records = {} /\ table = {} /\ figures = NoFigures

-----------------------------------------------------------------------------
(* map_dataframe.                                                          *)

Has(column) == column \in file.columns
Cell(i, column) == IF Has(column) THEN file.rows[i][column] ELSE NoValue
Or(value, default) == IF value = NoValue THEN default ELSE value
Less(x, y) == IF NoValue \in {x, y} THEN NoValue ELSE x - y

\* One line with what is missing filled in.  All lines without an order
\* number have the same one, unless nobody has one.
Filled(i) ==
    LET revenue == Cell(i, "revenue")
        derived == IF Has("cost") THEN NoValue ELSE Less(revenue, Cell(i, "profit"))
        cost == Or(Or(Cell(i, "cost"), derived), 0)
    IN  [id |-> IF Has("order_id") THEN Cell(i, "order_id") ELSE i,
         date |-> Cell(i, "date"),
         revenue |-> revenue,
         cost |-> cost,
         profit |-> Or(Cell(i, "profit"), Less(revenue, cost)),
         status |-> Or(Cell(i, "status"), "completed")]

\* The lines that are left: with a day, with a revenue, and of those with the
\* same number the first.
Readable == {i \in DOMAIN file.rows : NoValue \notin {Filled(i).date, Filled(i).revenue}}
FirstOfEach(lines) == {i \in lines : \A j \in lines : Filled(j).id = Filled(i).id => i <= j}

\* _filter_period: both ends belong to the period.
InPeriod(p, o) ==
    /\ p.first = NoValue \/ o.date >= p.first
    /\ p.last = NoValue \/ o.date <= p.last

\* A slip of Kept: duplicates are looked for among the lines of the period.
KeptInPeriod(p) == {Filled(i) : i \in FirstOfEach({j \in Readable : InPeriod(p, Filled(j))})}

\* What the source hands over for a period.
Kept(p) == {o \in {Filled(i) : i \in FirstOfEach(Readable)} : InPeriod(p, o)}

-----------------------------------------------------------------------------
(* transform_ecommerce.                                                    *)

\* Refunds and cancellations are counted but bring no money.
Sold(os) == {o \in os : o.status \in {"completed", "pending"}}

\* A sum of money: the units that orders bring less those that they take.
Brought(os, column) == UNION {{o} \X (1 .. o[column]) : o \in os}
Taken(os, column) == UNION {{o} \X (1 .. -o[column]) : o \in os}
Total(os, column) == Cardinality(Brought(os, column)) - Cardinality(Taken(os, column))

Figures(os) ==
    [orders |-> Cardinality(os),
     sold |-> Cardinality(Sold(os)),
     revenue |-> Total(Sold(os), "revenue"),
     cost |-> Total(Sold(os), "cost"),
     profit |-> Total(Sold(os), "profit")]

-----------------------------------------------------------------------------
(* PipelineRunner.run.                                                     *)

StartRun(p) ==
    /\ progress \in Over
    /\ period' = p /\ progress' = "reading"
    /\ records' = {} /\ table' = {} /\ figures' = NoFigures
    /\ UNCHANGED file

\* Without a column of days or of revenue the mapper raises.
ReadFile ==
    /\ progress = "reading" /\ Required \subseteq file.columns
    /\ progress' = "read" /\ records' = Kept(period)
    /\ UNCHANGED <<file, period, table, figures>>

\* write_ecommerce_orders: one row for an order number.
WriteRows ==
    /\ progress = "read"
    /\ progress' = "stored" /\ table' = table \cup records
    /\ UNCHANGED <<file, period, records, figures>>

Compute ==
    /\ progress = "stored"
    /\ progress' = "computed" /\ figures' = Figures(records)
    /\ UNCHANGED <<file, period, records, table>>

\* The report is written.
EndRun ==
    /\ progress = "computed"
    /\ progress' = IF records = {} THEN "PARTIAL" ELSE "SUCCESS"
    /\ UNCHANGED <<file, period, records, table, figures>>

\* Any step may raise; the rows that were stored stay.
FailRun ==
    /\ progress \notin Over
    /\ progress' = "FAILED"
    /\ UNCHANGED <<file, period, records, table, figures>>

ClientFileNext ==
    \/ \E p \in Periods : StartRun(p)
    \/ ReadFile \/ WriteRows \/ Compute \/ EndRun \/ FailRun

ClientFileSpec == ClientFileInit /\ [][ClientFileNext]_fileVars

-----------------------------------------------------------------------------
Plus(f, g) == [x \in DOMAIN f |-> f[x] + g[x]]

\* The report and the stored rows describe the same orders, all of the period,
\* and reports on consecutive periods add up to the report on the whole: cut
\* at any day, no order is lost or counted twice, whatever days its
\* duplicates, its corrections and its unreadable lines have.
PeriodsAddUp ==
    progress \in {"SUCCESS", "PARTIAL"} =>
      /\ figures = Figures(table)
      /\ \A o \in table : InPeriod(period, o)
      /\ \A day \in Days :
           LET before == [period EXCEPT !.last = day]
               after == [period EXCEPT !.first = day + 1]
           IN  before \in Periods /\ (period.last = NoValue \/ day < period.last)
               => figures = Plus(Figures(Kept(before)), Figures(Kept(after)))
=============================================================================
