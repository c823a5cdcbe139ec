--------------------------- MODULE TenantRegistry ---------------------------
(***************************************************************************)
(* The registry of runners (control/tenancy.py) and everybody who uses it: *)
(* the executor, the purge, reads of the API, and the deletion of an       *)
(* organization (api/v1/orgs.py).  A runner is opened at its first use and *)
(* the least recently used one is closed over the limit, unless it is in   *)
(* use.  A get runs in a thread under the registry's guard: it is one      *)
(* step, but its caller goes on later.                                     *)
(***************************************************************************)
EXTENDS Naturals, FiniteSets

CONSTANTS
    Orgs,
    Doomed,     \* those whose owner deletes them
    MaxActive,  \* DAAS_MAX_ACTIVE_TENANTS
    MaxRuns     \* DAAS_MAX_CONCURRENT_RUNS

ASSUME TenantAssumption ==
    IsFiniteSet(Orgs) /\ Doomed \subseteq Orgs /\ {MaxActive, MaxRuns} \subseteq Nat \ {0}

VARIABLES
    runners,   \* organizations with an open runner
    before,    \* <<x, o>>: x was used before o, the order of the OrderedDict
    narrative, \* the setting llm_narrative that the runner was opened with
    inUse,     \* _in_use
    own,       \* the runner that a marked job holds is the one in the registry
    tree,      \* the organization's directory
    job,       \* where a job of the organization stands
    deleting   \* where its deletion stands

registryVars == <<runners, before, narrative, inUse, own>>
tenantVars == <<registryVars, tree, job, deleting>>

Running == {"ready", "got", "marked", "released"}

\* The row of the organization exists.
Listed(o) == deleting[o] \in {"no", "counted"}

TenantTypeOK ==
    /\ runners \subseteq Orgs /\ before \subseteq runners \X runners
    /\ narrative \in [Orgs -> {"any", "on", "off"}]
    /\ inUse \in [Orgs -> 0 .. 1]
    /\ own \in [Orgs -> BOOLEAN]
    /\ tree \in [Orgs -> {"absent", "empty", "data"}]
    /\ job \in [Orgs -> {"none", "queued"} \cup Running]
    /\ deleting \in [Orgs -> {"no", "counted", "committed", "forgotten", "done"}]

\* After a start: nothing is open, the organizations have data.
TenantInit ==
    /\ runners = {} /\ before = {}
    /\ narrative = [o \in Orgs |-> "any"]
    /\ inUse = [o \in Orgs |-> 0]
    /\ own = [o \in Orgs |-> FALSE]
    /\ tree = [o \in Orgs |-> "data"]
    /\ job = [o \in Orgs |-> "none"]
    /\ deleting = [o \in Orgs |-> "no"]

-----------------------------------------------------------------------------
(* get.                                                                    *)

\* A slip of Evictable: the counter is not looked at.
EvictableAlways(s, keep) == s \ {keep}

\* The runners that may be closed.
Evictable(s, keep) == {x \in s \ {keep} : inUse[x] = 0}

\* _evict_over_limit: as many of them as are over the limit, the least recently
\* used ones.
Evicted(s, keep, gone) ==
    LET free == Evictable(s, keep)
        over == IF Cardinality(s) > MaxActive THEN Cardinality(s) - MaxActive ELSE 0
    IN  /\ gone \subseteq free
        /\ Cardinality(gone) = IF over < Cardinality(free) THEN over ELSE Cardinality(free)
        /\ \A x \in gone, y \in free \ gone : <<x, y>> \in before

\* The order without what leaves it, and with what is used now at its end.
Left(s) == before \cap (s \X s)
UsedLast(s, o) == Left(s \ {o}) \cup (s \ {o}) \X {o}

\* llm = "any" takes the runner as it is; another value opens it again where
\* it differs.  TenantPaths.ensure makes the directory in any case.
Get(o, llm) ==
    /\ tree' = [tree EXCEPT ![o] = IF @ = "absent" THEN "empty" ELSE @]
    /\ \/ /\ o \in runners /\ llm \in {"any", narrative[o]}
          /\ before' = UsedLast(runners, o)
          /\ UNCHANGED <<runners, narrative, own>>
       \/ /\ ~(o \in runners /\ llm \in {"any", narrative[o]})
          /\ \E gone \in SUBSET runners :
               /\ Evicted(runners \cup {o}, o, gone)
               /\ runners' = (runners \cup {o}) \ gone
               /\ before' = UsedLast(runners', o)
               /\ narrative' = [x \in Orgs |-> IF x = o THEN llm
                                               ELSE IF x \in gone THEN "any"
                                               ELSE narrative[x]]
               /\ own' = [x \in Orgs |-> own[x] /\ x \notin gone \cup {o}]

Settings == {"on", "off"}   \* effective_llm; the owner may change it any time

-----------------------------------------------------------------------------
(* The executor: one job of an organization at a time, by its lock.        *)

QueueJob(o) ==
    /\ Listed(o) /\ job[o] = "none"
    /\ job' = [job EXCEPT ![o] = "queued"]
    /\ UNCHANGED <<registryVars, tree, deleting>>

\* The claim, and the rows that are read after it; without them or the source
\* the job ends.
ClaimJob(o) ==
    /\ job[o] = "queued"
    /\ Cardinality({x \in Orgs : job[x] \in Running}) < MaxRuns
    /\ job' = [job EXCEPT ![o] = "ready"] \/ job' = [job EXCEPT ![o] = "none"]
    /\ UNCHANGED <<registryVars, tree, deleting>>

OpenRunner(o, llm) ==
    /\ job[o] = "ready"
    /\ Get(o, llm)
    /\ job' = [job EXCEPT ![o] = "got"]
    /\ UNCHANGED <<inUse, deleting>>

\* Back in the event loop: the runner may have been closed in between.
MarkInUse(o) ==
    /\ job[o] = "got"
    /\ inUse' = [inUse EXCEPT ![o] = @ + 1]
    /\ own' = [own EXCEPT ![o] = o \in runners]
    /\ job' = [job EXCEPT ![o] = "marked"]
    /\ UNCHANGED <<runners, before, narrative, tree, deleting>>

\* Where its directory is gone the run has failed and written nothing.
RunWrites(o) == tree' = [tree EXCEPT ![o] = IF @ = "absent" THEN @ ELSE "data"]

\* The end of the run.
Release(o) ==
    /\ job[o] = "marked"
    /\ RunWrites(o)
    /\ job' = [job EXCEPT ![o] = "released"]
    /\ inUse' = [inUse EXCEPT ![o] = IF @ > 0 THEN @ - 1 ELSE 0]
    /\ own' = [own EXCEPT ![o] = FALSE]
    /\ UNCHANGED <<runners, before, narrative, deleting>>

\* The final transaction, or its failure.
FinishJob(o) ==
    /\ job[o] = "released"
    /\ job' = [job EXCEPT ![o] = "none"]
    /\ UNCHANGED <<registryVars, tree, deleting>>

-----------------------------------------------------------------------------
(* The purge, which holds the organization's lock, and reads of the API.   *)
(* Both may have been admitted before the organization was deleted.        *)

\* forget drops the lock as well: after it the purge has another one.
Purge(o, llm) ==
    /\ job[o] \notin Running \/ deleting[o] \in {"forgotten", "done"}
    /\ Get(o, llm)
    /\ UNCHANGED <<inUse, job, deleting>>

Read(o) ==
    /\ Get(o, "any")
    /\ UNCHANGED <<inUse, job, deleting>>

-----------------------------------------------------------------------------
(* delete_org.                                                             *)

CountJobs(o) ==
    /\ o \in Doomed /\ deleting[o] = "no" /\ job[o] = "none"
    /\ deleting' = [deleting EXCEPT ![o] = "counted"]
    /\ UNCHANGED <<registryVars, tree, job>>

\* The jobs go with the organization: a claim finds no row.
CommitDelete(o) ==
    /\ deleting[o] = "counted"
    /\ deleting' = [deleting EXCEPT ![o] = "committed"]
    /\ job' = [job EXCEPT ![o] = IF @ = "queued" THEN "none" ELSE @]
    /\ UNCHANGED <<registryVars, tree>>

Forget(o) ==
    /\ deleting[o] = "committed"
    /\ deleting' = [deleting EXCEPT ![o] = "forgotten"]
    /\ runners' = runners \ {o} /\ before' = Left(runners')
    /\ narrative' = [narrative EXCEPT ![o] = "any"]
    /\ inUse' = [inUse EXCEPT ![o] = 0]
    /\ own' = [own EXCEPT ![o] = FALSE]
    /\ UNCHANGED <<tree, job>>

RemoveTree(o) ==
    /\ deleting[o] = "forgotten"
    /\ deleting' = [deleting EXCEPT ![o] = "done"]
    /\ tree' = [tree EXCEPT ![o] = "absent"]
    /\ UNCHANGED <<registryVars, job>>

TenantNext ==
    \E o \in Orgs :
      \/ QueueJob(o) \/ ClaimJob(o) \/ MarkInUse(o) \/ Release(o) \/ FinishJob(o)
      \/ Read(o) \/ \E llm \in Settings : OpenRunner(o, llm) \/ Purge(o, llm)
      \/ CountJobs(o) \/ CommitDelete(o) \/ Forget(o) \/ RemoveTree(o)

TenantSpec == TenantInit /\ [][TenantNext]_tenantVars

-----------------------------------------------------------------------------
\* A runner that was open when its job was marked in use stays the open one
\* until the job releases it, whatever others open, unless the organization
\* is deleted.
UsedRunnerStays ==
    [][\A o \in Orgs : /\ job[o] = "marked" /\ job'[o] = "marked"
                       /\ own[o] /\ Listed(o)
                       => own'[o] /\ o \in runners']_tenantVars

\* The limit may be passed, because runners in use are not closed, but never
\* by more than the runs that are allowed at the same time, however long it
\* goes on and whatever is deleted in between.
RegistryBounded ==
    Cardinality(runners) <= IF MaxActive > MaxRuns THEN MaxActive ELSE MaxRuns + 1

\* The registry closes what it may and nothing that is in use.
RunnersKept == []RegistryBounded /\ UsedRunnerStays

\* docs/SECURITY.md: deleting an organization removes its data directory.
DeletedLeavesNothing ==
    \A o \in Orgs : deleting[o] = "done" /\ job[o] = "none" => tree[o] # "data"
=============================================================================
