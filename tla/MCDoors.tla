------------------------------- MODULE MCDoors -------------------------------
\* A small instance of Doors.
EXTENDS Doors, TLC

CONSTANTS o1, j1, j2, j3, j4

MCOrgs == {o1}
MCJobs == {j1, j2, j3, j4}
MCOrgOf == [j \in MCJobs |-> o1]

\* Uploads, callers, calls and threads are interchangeable; the modules do not
\* meet, so that the same values may stand for one and for the other.
MCSymmetry == Permutations(Posts) \cup Permutations(Lanes)

Text(utf8, cp1250, cut) == [utf8 |-> utf8, cp1250 |-> cp1250, cut |-> cut]
Posted(route, kind, bytes, out, text) ==
    [route |-> route, kind |-> kind, bytes |-> bytes, out |-> out, text |-> text]

\* A CP1250 file, a workbook that doubles, a file of the old route, and a
\* package beyond the limit.
MCPostedFiles ==
    {Posted("v1", "csv", 2, 2, Text(FALSE, TRUE, FALSE)),
     Posted("v1", "xlsx", 1, 2, Text(TRUE, TRUE, TRUE)),
     Posted("legacy", "csv", 1, 1, Text(TRUE, TRUE, FALSE)),
     Posted("v1", "package", 3, 3, Text(TRUE, FALSE, FALSE))}

MCGrantable == {{}, Scopes}

Arg(value, fits) == [value |-> value, fits |-> fits]
MCArguments == {Arg(1, TRUE), Arg(2, TRUE), Arg(1, FALSE)}
=============================================================================
