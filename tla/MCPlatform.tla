----------------------------- MODULE MCPlatform -----------------------------
\* A small instance of Platform.
EXTENDS Platform, TLC

\* Requests that run side by side are interchangeable, and so are the runs that
\* are read, for which the same values stand.
MCSymmetry == Permutations(Requests)

Line(id, date, revenue, cost, profit, status) ==
    [order_id |-> id, date |-> date, revenue |-> revenue, cost |-> cost,
     profit |-> profit, status |-> status]

\* Duplicates on several days, a correction, a refund, empty cells.
MCLines ==
    {Line(1, 1, 7, 5, 2, "completed"), Line(1, 2, 3, NoValue, 1, "pending"),
     Line(2, 2, 9, 4, NoValue, "refunded"), Line(NoValue, 1, 4, 9, NoValue, NoValue),
     Line(NoValue, 3, -7, NoValue, NoValue, "completed"),
     Line(2, NoValue, 6, 1, 5, "completed"), Line(1, 3, NoValue, 2, 1, "cancelled")}

MCColumns ==
    {Required \cup {"order_id", "cost", "status"},
     Required \cup {"order_id", "profit", "status"},
     Required \cup {"cost", "profit"}, {"order_id", "revenue"}}

MCFiles == [columns : MCColumns, rows : {<<>>} \cup [1 .. 2 -> MCLines]]

Package(station, checks, hashes, edited, sum) ==
    [station |-> station, checks |-> checks, hashes |-> hashes, edited |-> edited, sum |-> sum]

\* Two stations; packages whole, without hashes, edited, with a wrong sum.
MCPackages ==
    {Package("w1", [a |-> "PASS", b |-> "FAIL"], "all", FALSE, TRUE),
     Package("w1", [a |-> "WARN", c |-> "PASS"], "others lack it", FALSE, FALSE),
     Package("w1", [a |-> "FAIL"], "collector's lack it", FALSE, TRUE),
     Package("w2", [a |-> "PASS", b |-> "PASS"], "all", FALSE, TRUE),
     Package("w2", [a |-> "PASS"], "all", TRUE, TRUE)}

Zone(earlier, later, change) == [before |-> earlier, after |-> later, change |-> change]

\* The clock goes forward, and back, at and beside the start of a week.
MCZones == {Zone(1, 2, 5), Zone(1, 2, 7), Zone(2, 1, 2), Zone(2, 1, 7)}

\* A report is made at the instant that its run ends, or the hour before.
EndsAt(at) == [kind : Kinds, at : {at}, made : {at}] \cup [kind : Good, at : {at}, made : {at - 1}]
MCHappened ==
    {{}} \cup {{e} : e \in UNION {EndsAt(at) : at \in 0 .. 14}}
         \cup LET E == UNION {EndsAt(at) : at \in {10, 13}} IN {{e, f} : e, f \in E}
MCSituations ==
    {[limit |-> 5, used |-> n, reminder |-> n = 4, auto |-> n = 5, ever |-> n = 5] : n \in {4, 5}}
=============================================================================
