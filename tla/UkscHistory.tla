---------------------------- MODULE UkscHistory ----------------------------
(***************************************************************************)
(* The runs of uksc_evidence and what each is compared with.  A run stores *)
(* a preliminary row in `runs`, the rows of the collector's package, looks *)
(* up the station's previous run, and overwrites its row at the end; every *)
(* statement commits on its own.  The runs of an organization go one after *)
(* another (the executor's lock); any of them may fail or be cut off.      *)
(***************************************************************************)
EXTENDS Naturals

CONSTANTS
    Collected,  \* packages: [station, checks, hashes, edited, sum]
    MaxEvidence \* bound: runs

\* checks maps the controls to their status; hashes says whose evidence_hash
\* is there ("all", "others lack it", "collector's lack it"), edited whether
\* some evidence differs from its hash, sum whether package_sha256 is right.
ASSUME EvidenceAssumption ==
    /\ MaxEvidence \in Nat /\ Collected # {}
    /\ \A p \in Collected : {p.edited, p.sum} \subseteq BOOLEAN

Evidence == 1 .. MaxEvidence
NoDiff == [none |-> TRUE]

VARIABLES
    clock,
    pack,    \* the package of a run
    point,   \* where a run stands
    began,   \* its `started`
    shown,   \* runs.started_at; 0: no row
    hosts,   \* runs with their row of uksc_hosts
    checked, \* runs with their rows of uksc_checks
    base,    \* previous_uksc_run as the run saw it; 0: none
    diff     \* diff_vs_previous

evidenceVars == <<clock, pack, point, began, shown, hosts, checked, base, diff>>

Ran == {"SUCCESS", "FAILED", "cut"}

EvidenceInit ==
    /\ clock = 1
    /\ pack = [r \in Evidence |-> CHOOSE p \in Collected : TRUE]
    /\ point = [r \in Evidence |-> "none"]
    /\ began = [r \in Evidence |-> 0] /\ shown = began /\ base = began
    /\ hosts = {} /\ checked = {}
    /\ diff = [r \in Evidence |-> NoDiff]

EvidenceTypeOK ==
    /\ pack \in [Evidence -> Collected]
    /\ point \in [Evidence -> Ran \cup {"none", "fetched", "noted", "hosted", "stored",
                                        "compared", "purged"}]
    /\ {began, shown} \subseteq [Evidence -> 0 .. clock]
    /\ checked \subseteq hosts /\ hosts \subseteq Evidence
    /\ base \in [Evidence -> {0} \cup Evidence]

Station(r) == pack[r].station

Go(r, from, to) == point[r] = from /\ point' = [point EXCEPT ![r] = to]

-----------------------------------------------------------------------------
\* UkscSource._load: a collector's check needs its hash, each hash must fit,
\* and where all are there the package's must.
Intact(p) ==
    /\ p.hashes # "collector's lack it"
    /\ ~p.edited
    /\ p.hashes = "all" => p.sum

\* The executor starts the next run; a package that is blocked has no records
\* and ends it as FAILED.
Fetch(r, p) ==
    /\ \A q \in Evidence : q < r => point[q] \in Ran \cup {"purged"}
    /\ Go(r, "none", IF Intact(p) THEN "fetched" ELSE "FAILED")
    /\ clock' = clock + 1
    /\ pack' = [pack EXCEPT ![r] = p]
    /\ began' = [began EXCEPT ![r] = clock]
    /\ shown' = IF Intact(p) THEN shown ELSE [shown EXCEPT ![r] = clock]
    /\ UNCHANGED <<hosts, checked, base, diff>>

\* The preliminary row, with the time of its own.
Note(r) ==
    /\ Go(r, "fetched", "noted")
    /\ clock' = clock + 1
    /\ shown' = [shown EXCEPT ![r] = clock]
    /\ UNCHANGED <<pack, began, hosts, checked, base, diff>>

\* write_uksc_package: the host, then the checks (and the inventory).
StoreHost(r) ==
    /\ Go(r, "noted", "hosted")
    /\ hosts' = hosts \cup {r}
    /\ UNCHANGED <<clock, pack, began, shown, checked, base, diff>>

StoreChecks(r) ==
    /\ Go(r, "hosted", "stored")
    /\ checked' = checked \cup {r}
    /\ UNCHANGED <<clock, pack, began, shown, hosts, base, diff>>

\* A slip of Earlier: of whichever station.
EarlierAnywhere(r) == {q \in hosts \ {r} : 0 < shown[q] /\ shown[q] < shown[r]}

\* Runs with a host row of the station and a row in `runs` that began before.
Earlier(r) ==
    {q \in hosts \ {r} : Station(q) = Station(r) /\ 0 < shown[q] /\ shown[q] < shown[r]}

Poor == {"FAIL", "WARN"}
Both(old, new) == DOMAIN old \cap DOMAIN new
DiffOf(old, new) ==
    [improved |-> {c \in Both(old, new) : old[c] \in Poor /\ new[c] = "PASS"},
     regressed |-> {c \in Both(old, new) : old[c] = "PASS" /\ new[c] \in Poor},
     added |-> DOMAIN new \ DOMAIN old,
     removed |-> DOMAIN old \ DOMAIN new]

\* ORDER BY started_at DESC LIMIT 1
LatestOf(runs) == IF runs = {} THEN {0} ELSE {q \in runs : \A s \in runs : shown[s] <= shown[q]}

\* previous_uksc_run, read_uksc_checks and the comparison of transform_uksc:
\* no difference is given against a run without check rows.
CompareRuns(r) ==
    /\ Go(r, "stored", "compared")
    /\ \E prev \in LatestOf(Earlier(r)) :
         /\ base' = [base EXCEPT ![r] = prev]
         /\ diff' = [diff EXCEPT ![r] =
                       IF prev \in checked THEN DiffOf(pack[prev].checks, pack[r].checks)
                       ELSE NoDiff]
    /\ UNCHANGED <<clock, pack, began, shown, hosts, checked>>

\* The report is written, or something on the way raises; the row is replaced
\* by the final one with the time at which the run began.
EndEvidence(r, status) ==
    /\ point[r] \in {"fetched", "noted", "hosted", "stored", "compared"}
    /\ status = "SUCCESS" => point[r] = "compared"
    /\ point' = [point EXCEPT ![r] = status]
    /\ shown' = [shown EXCEPT ![r] = began[r]]
    /\ UNCHANGED <<clock, pack, began, hosts, checked, base, diff>>

\* The process ends: the rows written so far stay, the first one as PARTIAL.
CutOff(r) ==
    /\ point[r] \in {"fetched", "noted", "hosted", "stored", "compared"}
    /\ point' = [point EXCEPT ![r] = "cut"]
    /\ UNCHANGED <<clock, pack, began, shown, hosts, checked, base, diff>>

\* Retention removes all rows of an old run between two runs.
PurgeEvidence(r) ==
    /\ \A q \in Evidence : point[q] \in Ran \cup {"none", "purged"}
    /\ point[r] \in Ran
    /\ point' = [point EXCEPT ![r] = "purged"]
    /\ shown' = [shown EXCEPT ![r] = 0]
    /\ hosts' = hosts \ {r} /\ checked' = checked \ {r}
    /\ UNCHANGED <<clock, pack, began, base, diff>>

EvidenceNext ==
    \E r \in Evidence :
        \/ \E p \in Collected : Fetch(r, p)
        \/ Note(r) \/ StoreHost(r) \/ StoreChecks(r) \/ CompareRuns(r)
        \/ \E status \in {"SUCCESS", "FAILED"} : EndEvidence(r, status)
        \/ CutOff(r) \/ PurgeEvidence(r)

EvidenceSpec == EvidenceInit /\ [][EvidenceNext]_evidenceVars

-----------------------------------------------------------------------------
\* "It compares against the previous run of the same station"
\* (docs/API.md:275).  A run never skips a successful run of its station;
\* what it finds instead is a later one that failed or was cut off; without a
\* difference there was no such run, or the one it found has no checks.  What
\* one direction calls improved or added the other calls regressed or removed,
\* and only packages that nobody edited are compared.
ComparedWithTheLast ==
    \A r \in Evidence : point[r] = "SUCCESS" =>
        LET b == base[r]
            won == {q \in 1 .. r - 1 : point[q] = "SUCCESS" /\ Station(q) = Station(r)}
        IN  /\ b < r /\ \A q \in won : q <= b
            /\ b # 0 => Station(b) = Station(r)
            /\ b \in won => diff[r] # NoDiff
            /\ diff[r] # NoDiff =>
                 LET back == DiffOf(pack[r].checks, pack[b].checks) IN
                 /\ diff[r] = [improved |-> back.regressed, regressed |-> back.improved,
                               added |-> back.removed, removed |-> back.added]
                 /\ ~pack[b].edited /\ pack[b].hashes # "collector's lack it"
=============================================================================
