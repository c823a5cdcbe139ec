----------------------------- MODULE DataHealth -----------------------------
(***************************************************************************)
(* GET /orgs/{id}/data-health (api/v1/data_health.py): uploads, finished   *)
(* jobs and reports by weeks that begin at local midnight, the streak of   *)
(* weeks with a report, and what to fix.  Time is a number of hours; a     *)
(* week has WeekHours of them but for a change of the clock.  Local hour 0 *)
(* begins week 0.  The answer is put together from statements that see     *)
(* what is committed when each of them runs.                               *)
(***************************************************************************)
EXTENDS Integers, Sequences, FiniteSets

CONSTANTS
    TimeZones,  \* [before, after, change]: the offsets until `change` and from it
    Nows,       \* when the dashboard is asked for
    Happened,   \* what may have happened: sets of [kind, at, made]
    Situations, \* [limit, used, reminder, auto, ever]: plan, schedule, past uploads
    WeekHours,  \* in a week
    Lookback,   \* LOOKBACK_WEEKS
    PartialWindow, \* PARTIAL_WINDOW_WEEKS
    StaleAfter, \* STALE_UPLOAD_AFTER
    ShortestRetention  \* the least Org.retention_days

\* An upload; a job that succeeded, with a full or a partial report; a job
\* that failed; the report of a run that was migrated and has no job.  `at` is
\* Upload.created_at and Job.finished_at; `made` is RunRecord.created_at, which
\* the same transaction of the executor takes first (executor.py:261-268).
Kinds == {"upload", "success", "partial", "failed", "migrated"}

\* Since 1970 no zone of the tz database has skipped an hour with a midnight of
\* Monday in its middle; the hour may begin with it.
ASSUME HealthAssumption ==
    /\ {WeekHours, Lookback, StaleAfter, ShortestRetention} \subseteq Nat \ {0}
    /\ PartialWindow \in 1 .. Lookback
    /\ Nows \subseteq Int
    /\ \A z \in TimeZones :
         /\ {z.before, z.after, z.change} \subseteq Int
         /\ \A x \in z.change + z.before + 1 .. z.change + z.after - 1 : x % WeekHours # 0
    /\ {} \in Happened
    /\ \A h \in Happened : IsFiniteSet(h) /\ \A e \in h : e.kind \in Kinds /\ {e.at, e.made} \subseteq Int

VARIABLES
    zone, asked, events, setting,
    place,      \* an event's rows: there when asked, late, fresh or gone
    statement,  \* the next SELECT
    seen,       \* the rows that each SELECT returned
    board       \* the answer

questionVars == <<zone, asked, events, setting>>
healthVars == <<questionVars, place, statement, seen, board>>

NoBoard == [weeks |-> <<>>, streak |-> 0, issues |-> <<>>]

\* The statements that return rows, each with the one that follows it.
Then == [uploads |-> "jobs", jobs |-> "reports", reports |-> "lastUpload",
         lastUpload |-> "lastSuccess", lastSuccess |-> "lastFailure", lastFailure |-> "usage"]

HealthInit ==
    /\ zone \in TimeZones /\ asked \in Nows /\ setting \in Situations
    /\ events \in Happened /\ place \in [events -> {"there", "late"}]
    /\ statement = "uploads" /\ seen = [q \in DOMAIN Then |-> {}]
    /\ board = NoBoard

HealthTypeOK ==
    /\ \A e \in events : e.kind \in Kinds /\ {e.at, e.made} \subseteq Int
    /\ place \in [events -> {"there", "late", "fresh", "gone"}]
    /\ statement \in DOMAIN Then \cup {"usage"} /\ seen \in [DOMAIN Then -> SUBSET events]
    /\ DOMAIN board.weeks \in {{}, 1 .. Lookback} /\ board.streak \in 0 .. Lookback - 1

\* What is committed, what was so from the request on, and what was ever so.
Present == {e \in events : place[e] \in {"there", "fresh"}}
Steady == {e \in events : place[e] = "there"}
EverThere == {e \in events : place[e] # "late"}

-----------------------------------------------------------------------------
Offset(t) == IF t < zone.change THEN zone.before ELSE zone.after

\* week_of
WeekOf(t) == (t + Offset(t)) \div WeekHours

\* week_starts: the weeks from the oldest to the current one.
WeekStarts == [n \in 1 .. Lookback |-> WeekOf(asked) - Lookback + n]

\* A slip of LocalMidnight: with the offset of today.
MidnightOfToday(w) == w * WeekHours - Offset(asked)

\* local_midnight: of a midnight that comes twice the first, of one that is
\* skipped the end of the gap.
LocalMidnight(w) ==
    LET early == w * WeekHours - zone.before
    IN  IF early < zone.change \/ w * WeekHours < zone.change + zone.after THEN early
        ELSE w * WeekHours - zone.after

-----------------------------------------------------------------------------
Good == {"success", "partial"}
Jobs == Good \cup {"failed"}
Reports == Good \cup {"migrated"}

OfKind(rows, kinds) == {e \in rows : e.kind \in kinds}
LastOf(rows) == {e \in rows : \A f \in rows : f.at <= e.at}

\* What a statement selects of the rows: those since the midnight that begins
\* the oldest week, and the last of a kind.
Selects(q, rows) ==
    LET since == LocalMidnight(WeekStarts[1]) IN
    CASE q = "uploads" -> {e \in OfKind(rows, {"upload"}) : e.at >= since}
      [] q = "jobs" -> {e \in OfKind(rows, Jobs) : e.at >= since}
      [] q = "reports" -> {e \in OfKind(rows, Reports) : e.made >= since}
      [] q = "lastUpload" -> LastOf(OfKind(rows, {"upload"}))
      [] q = "lastSuccess" -> LastOf(OfKind(rows, Good))
      [] q = "lastFailure" -> LastOf(OfKind(rows, {"failed"}))

\* bucket_weeks
BucketWeeks ==
    [n \in 1 .. Lookback |->
        LET w == WeekStarts[n]
            Dated(rows) == Cardinality({e \in rows : WeekOf(e.at) = w})
        IN  [uploads |-> Dated(seen.uploads),
             succeeded |-> Dated(OfKind(seen.jobs, Good)),
             failed |-> Dated(OfKind(seen.jobs, {"failed"})),
             reports |-> Cardinality({e \in seen.reports : WeekOf(e.made) = w})]]

\* streak_weeks: back from the last week, the current one apart.
StreakWeeks(weeks) ==
    LET whole == {n \in 0 .. Lookback - 1 :
                    \A k \in Lookback - n .. Lookback - 1 : weeks[k].reports > 0}
    IN  CHOOSE n \in whole : \A m \in whole : m <= n

\* build_issues: its rules.
LastRunFailed == \E f \in seen.lastFailure : \A e \in seen.lastSuccess : f.at > e.at
LimitReached == setting.limit > 0 /\ setting.used >= setting.limit
LimitNear == /\ setting.limit > 0 /\ setting.used < setting.limit
             /\ setting.used * 5 >= setting.limit * 4
\* upload_bytes of a month stays where the row of an upload goes.
Uploaded == seen.lastUpload # {} \/ setting.ever \/ OfKind(EverThere, {"upload"}) # {}
UploadIsStale == Uploaded /\ \A e \in seen.lastUpload : asked - e.at >= StaleAfter
Partials == {e \in seen.reports : /\ e.kind = "partial" /\ WeekOf(e.made) <= WeekOf(asked)
                                  /\ WeekOf(e.made) >= WeekStarts[Lookback - PartialWindow + 1]}
When(condition, code) == IF condition THEN <<code>> ELSE <<>>

\* Sorted by severity: errors, warnings and information, each in the order of
\* the rules.
BuildIssues ==
    LET errors == When(LastRunFailed, "last_run_failed") \o When(LimitReached, "plan_limit_reached")
        warnings == When(LimitNear, "plan_limit_near") \o When(UploadIsStale, "stale_upload")
                    \o When(Partials # {}, "partial_reports")
        infos == When(~Uploaded, "no_uploads_yet") \o When(~setting.reminder, "reminder_off")
                 \o When(~setting.auto, "auto_run_off")
    IN  errors \o warnings \o infos

-----------------------------------------------------------------------------
\* data_health: one statement after the other, each with a snapshot of its own.
Select ==
    /\ statement \in DOMAIN Then
    /\ seen' = [seen EXCEPT ![statement] = Selects(statement, Present)]
    /\ statement' = Then[statement]
    /\ UNCHANGED <<questionVars, place, board>>

\* The last of them, the usage counters, and the answer.
ShowHealth ==
    /\ statement = "usage" /\ board = NoBoard
    /\ board' = [weeks |-> BucketWeeks, streak |-> StreakWeeks(BucketWeeks), issues |-> BuildIssues]
    /\ UNCHANGED <<questionVars, place, statement, seen>>

\* An upload is stored, or a run ends with its job and its report, meanwhile.
Happens(e) ==
    /\ board = NoBoard /\ place[e] = "late"
    /\ place' = [place EXCEPT ![e] = "fresh"]
    /\ UNCHANGED <<questionVars, statement, seen, board>>

\* The retention removes the row of an upload.
Expires(e) ==
    /\ board = NoBoard /\ place[e] = "there"
    /\ e.kind = "upload" /\ asked - e.at >= ShortestRetention
    /\ place' = [place EXCEPT ![e] = "gone"]
    /\ UNCHANGED <<questionVars, statement, seen, board>>

HealthNext == Select \/ ShowHealth \/ \E e \in events : Happens(e) \/ Expires(e)

HealthSpec == HealthInit /\ [][HealthNext]_healthVars

-----------------------------------------------------------------------------
Told(code) == \E i \in DOMAIN board.issues : board.issues[i] = code

\* docs/API.md:459-470.  Over a change of the clock too, the figures of a week
\* count all that was there throughout the request, in exactly the week of its
\* local day, and nothing that was never there: a job where it ended, a report
\* where it was made.  A streak of n weeks is n weeks with a report and no
\* more.  The dashboard says first of all that the last run failed if one that
\* was there did, with no later success at any time of the request, and only
\* if one did with no later success that was there.  An upload that was there
\* throughout is told to be stale only when it is.
WeeksTellTheTruth ==
    board # NoBoard =>
        /\ \A n \in 1 .. Lookback :
             LET w == WeekStarts[n]
                 Here(t) == w * WeekHours <= t + Offset(t) /\ t + Offset(t) < (w + 1) * WeekHours
                 Dated(rows, kinds) == Cardinality({e \in OfKind(rows, kinds) : Here(e.at)})
                 Made(rows) == Cardinality({e \in OfKind(rows, Reports) : Here(e.made)})
                 Tells(figure, kinds) == figure \in Dated(Steady, kinds) .. Dated(EverThere, kinds)
             IN  /\ Tells(board.weeks[n].uploads, {"upload"})
                 /\ Tells(board.weeks[n].succeeded, Good)
                 /\ Tells(board.weeks[n].failed, {"failed"})
                 /\ board.weeks[n].reports \in Made(Steady) .. Made(EverThere)
        /\ \A n \in 1 .. board.streak : board.weeks[Lookback - n].reports > 0
        /\ board.streak < Lookback - 1 => board.weeks[Lookback - board.streak - 1].reports = 0
        /\ LET first == board.issues # <<>> /\ Head(board.issues) = "last_run_failed"
               Failed(rows, others) == \E f \in OfKind(rows, {"failed"}) :
                                          \A e \in OfKind(others, Good) : e.at < f.at
           IN  (Failed(Steady, EverThere) => first) /\ (first => Failed(EverThere, Steady))
        /\ Told("stale_upload") => \A e \in OfKind(Steady, {"upload"}) : asked - e.at >= StaleAfter
=============================================================================
