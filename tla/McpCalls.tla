------------------------------ MODULE McpCalls ------------------------------
(***************************************************************************)
(* Calls of agents through /mcp and of clients through /api/v1, several at *)
(* once, against one organization: the gate that authenticates, the scope  *)
(* of the credential, and the tool or the route.  The jobs are those of    *)
(* one upload, pipeline and period.                                        *)
(***************************************************************************)
EXTENDS Naturals, FiniteSets

CONSTANTS
    Lanes,          \* the calls at once
    QueueLimit,     \* MAX_PENDING_JOBS
    Grantable,      \* the sets of scopes that keys and consents hold
    Withdrawable    \* the credentials that may be withdrawn meanwhile

Scopes == {"runs:write", "reports:read"}
Credentials == {"key", "token", "cookie"}

ASSUME CallsAssumption ==
    /\ QueueLimit \in Nat \ {0} /\ IsFiniteSet(Lanes)
    /\ Grantable \subseteq SUBSET Scopes /\ Withdrawable \subseteq Credentials

VARIABLES
    call,       \* slot -> the call under way, or its answer
    waiting,    \* the queued jobs: by start_run, and by anyone else
    atWork,     \* the running job
    withdrawn   \* credentials that were revoked, expired or lost their member

callVars == <<call, waiting, atWork, withdrawn>>

Faces == {"mcp", "rest"}

\* ToolSpec.scope; a resource and a prompt ask for one like get_report.
NeededBy == [start |-> {"runs:write"}, report |-> {"reports:read"}, whoami |-> {}, unknown |-> {}]

NoCall == [at |-> "idle", face |-> "rest", by |-> "cookie", entitled |-> TRUE, op |-> "whoami",
           scopes |-> {}, answer |-> "none", denied |-> FALSE]

CallsInit ==
    /\ call = [s \in Lanes |-> NoCall]
    /\ waiting = [mcp |-> 0, other |-> 0] /\ atWork = "none"
    /\ withdrawn = {}

Calls == [at : {"idle", "entered", "known", "inside", "plan", "allowed", "submit", "insert",
                "answered"},
          face : Faces, by : Credentials, entitled : BOOLEAN, op : DOMAIN NeededBy,
          scopes : SUBSET Scopes, answer : {"none", "ok", "failed", "refused"}, denied : BOOLEAN]

\* The calls that are counted side by side may pass the limit, all but one.
MostWaiting == QueueLimit + Cardinality(Lanes) - 1

CallsTypeOK ==
    /\ call \in [Lanes -> Calls]
    /\ waiting \in [mcp : 0 .. MostWaiting, other : 0 .. MostWaiting]
    /\ atWork \in {"none", "mcp", "other"} /\ withdrawn \subseteq Credentials

Advance(s, place) == call' = [call EXCEPT ![s].at = place]

Reply(s, words) == call' = [call EXCEPT ![s].at = "answered", ![s].answer = words]

\* The refusal that leaves an auth_denied event of its own; in a tool the event
\* may fail to be written.
DenyCall(s) ==
    \E kept \in (IF call[s].face = "mcp" THEN BOOLEAN ELSE {TRUE}) :
        call' = [call EXCEPT ![s].at = "answered", ![s].answer = "failed", ![s].denied = kept]

-----------------------------------------------------------------------------
\* Which credential a door reads.  The gate of /mcp ignores cookies; the API
\* knows no tokens.
DoorReads == [mcp |-> {"key", "token"}, rest |-> {"key", "cookie"}]

\* A request comes in: limit_ip lets it pass.
Enter(s, face, by) ==
    /\ call[s] = NoCall
    /\ call' = [call EXCEPT ![s] = [NoCall EXCEPT !.at = "entered", !.face = face, !.by = by,
                                                  !.entitled = by \notin withdrawn]]
    /\ UNCHANGED <<waiting, atWork, withdrawn>>

\* Turned away at the door, with or without an auth_denied event.
Refusal(recorded) == [NoCall EXCEPT !.at = "answered", !.answer = "refused", !.denied = recorded]

\* get_principal, McpGateway._authenticate
Authenticate(s, scopes) ==
    /\ call[s].at = "entered"
    /\ call[s].by \in DoorReads[call[s].face] \ withdrawn
    /\ call' = [call EXCEPT ![s].at = "known",
                            ![s].scopes = IF call[s].by = "cookie" THEN {} ELSE scopes]
    /\ UNCHANGED <<waiting, atWork, withdrawn>>

\* 401; of a revoked or expired key with an event.
TurnAway(s) ==
    /\ call[s].at = "entered"
    /\ call[s].by \notin DoorReads[call[s].face] \ withdrawn
    /\ call' = [call EXCEPT ![s] = Refusal(call[s].by = "key")]
    /\ UNCHANGED <<waiting, atWork, withdrawn>>

\* 429 of the limit per key, 405, 413; 403 of a missing CSRF token.
RefuseRequest(s) ==
    /\ call[s].at = "known"
    /\ call' = [call EXCEPT ![s] = Refusal(FALSE)]
    /\ UNCHANGED <<waiting, atWork, withdrawn>>

\* A slip of Lacks: only writing is looked at.
LacksToWrite(held, op) == op = "start" /\ "runs:write" \notin held

\* What is held, against what the tool or the route needs.
Lacks(held, op) == ~ NeededBy[op] \subseteq held

\* make_tool_gate and guarded: an unknown tool, arguments that do not fit, the scope.
Gate(s, op) ==
    /\ call[s].at = "known" /\ call[s].face = "mcp"
    /\ \/ call' = [call EXCEPT ![s].at = "answered", ![s].op = "unknown", ![s].answer = "failed"]
       \/ Lacks(call[s].scopes, op) /\ \E kept \in BOOLEAN :
            call' = [call EXCEPT ![s].at = "answered", ![s].op = op, ![s].answer = "failed",
                                 ![s].denied = kept]
       \/ ~ Lacks(call[s].scopes, op) /\ op # "unknown"
            /\ call' = [call EXCEPT ![s].at = "inside", ![s].op = op]
    /\ UNCHANGED <<waiting, atWork, withdrawn>>

\* The scopes in the organization; each role has both of Scopes, a stranger none.
ScopesHere(s) ==
    IF call[s].by # "cookie" THEN call[s].scopes
    ELSE IF "cookie" \in withdrawn THEN {} ELSE Scopes

\* plan_guard: only a caller who may start is told of the limit.
PlanGuard(s) ==
    /\ call[s].at = "known" /\ call[s].face = "rest"
    /\ \/ call' = [call EXCEPT ![s].at = "allowed", ![s].op = "start"]
       \/ ~ Lacks(ScopesHere(s), "start")
            /\ call' = [call EXCEPT ![s].at = "answered", ![s].op = "start", ![s].answer = "failed",
                                    ![s].denied = TRUE]
    /\ UNCHANGED <<waiting, atWork, withdrawn>>

\* A route without a guard: the report of a run.
Route(s) ==
    /\ call[s].at = "known" /\ call[s].face = "rest"
    /\ call' = [call EXCEPT ![s].at = "allowed", ![s].op = "report"]
    /\ UNCHANGED <<waiting, atWork, withdrawn>>

\* org_access: 404 for a stranger, 403 and an event for a missing scope.
OrgAccess(s) ==
    /\ call[s].at = "allowed"
    /\ IF call[s].by = "cookie" /\ "cookie" \in withdrawn THEN Reply(s, "failed")
       ELSE IF Lacks(ScopesHere(s), call[s].op) THEN DenyCall(s)
       ELSE call' = [call EXCEPT ![s].at = IF call[s].op = "start" THEN "submit" ELSE "inside",
                                 ![s].scopes = ScopesHere(s)]
    /\ UNCHANGED <<waiting, atWork, withdrawn>>

-----------------------------------------------------------------------------
\* A slip of Awaited: a running job is not looked for.
AwaitedQueued == waiting.mcp + waiting.other > 0

\* _pending_job: queued or running.
Awaited == waiting.mcp + waiting.other > 0 \/ atWork # "none"

\* start_run up to the plan: the arguments, and the job that is already there.
LookForPending(s) ==
    /\ call[s].at = "inside" /\ call[s].op = "start"
    /\ \/ Reply(s, "failed")
       \/ IF Awaited THEN Reply(s, "ok") ELSE Advance(s, "plan")
    /\ UNCHANGED <<waiting, atWork, withdrawn>>

\* check_plan_limit of start_run.
MeetPlan(s) ==
    /\ call[s].at = "plan"
    /\ \/ Advance(s, "submit")
       \/ call' = [call EXCEPT ![s].at = "answered", ![s].answer = "failed", ![s].denied = TRUE]
    /\ UNCHANGED <<waiting, atWork, withdrawn>>

\* submit_job and queue_job up to the count of pending jobs: maintenance, the
\* limit per minute, the upload, 409 queue_full.
CountQueue(s) ==
    /\ call[s].at = "submit"
    /\ \/ Reply(s, "failed")
       \/ /\ waiting.mcp + waiting.other + (IF atWork = "none" THEN 0 ELSE 1) < QueueLimit
          /\ Advance(s, "insert")
    /\ UNCHANGED <<waiting, atWork, withdrawn>>

\* queue_job after the count, which is not taken again: the job and its
\* job.created in one commit, which may fail.
SubmitCall(s) ==
    /\ call[s].at = "insert"
    /\ \/ Reply(s, "failed") /\ UNCHANGED waiting
       \/ /\ waiting' = [waiting EXCEPT ![IF call[s].face = "mcp" THEN "mcp" ELSE "other"] = @ + 1]
          /\ Reply(s, "ok")
    /\ UNCHANGED <<atWork, withdrawn>>

\* The tools that read: get_report, whoami and their like.
AnswerRead(s) ==
    /\ call[s].at = "inside" /\ call[s].op # "start"
    /\ \E words \in {"ok", "failed"} : Reply(s, words)
    /\ UNCHANGED <<waiting, atWork, withdrawn>>

\* The tool's event in the finally of the gate, written or lost, which changes
\* nothing else; then the answer is out.
CloseCall(s) ==
    /\ call[s].at = "answered"
    /\ call' = [call EXCEPT ![s] = NoCall]
    /\ UNCHANGED <<waiting, atWork, withdrawn>>

-----------------------------------------------------------------------------
\* The executor takes a job: one at a time for the organization.
Begin(maker) ==
    /\ atWork = "none" /\ waiting[maker] > 0
    /\ atWork' = maker /\ waiting' = [waiting EXCEPT ![maker] = @ - 1]
    /\ UNCHANGED <<call, withdrawn>>

End ==
    /\ atWork # "none" /\ atWork' = "none"
    /\ UNCHANGED <<call, waiting, withdrawn>>

\* A queued job is cancelled.
CancelWaiting(maker) ==
    /\ waiting[maker] > 0 /\ waiting' = [waiting EXCEPT ![maker] = @ - 1]
    /\ UNCHANGED <<call, atWork, withdrawn>>

\* A key or a token is revoked or expires; a session ends or its user leaves.
Withdraw(by) ==
    /\ by \notin withdrawn /\ withdrawn' = withdrawn \cup {by}
    /\ UNCHANGED <<call, waiting, atWork>>

CallsNext ==
    \/ \E s \in Lanes :
        \/ \E face \in Faces, by \in Credentials : Enter(s, face, by)
        \/ \E scopes \in Grantable : Authenticate(s, scopes)
        \/ TurnAway(s) \/ RefuseRequest(s)
        \/ \E op \in DOMAIN NeededBy : Gate(s, op)
        \/ PlanGuard(s) \/ Route(s) \/ OrgAccess(s)
        \/ LookForPending(s) \/ MeetPlan(s) \/ CountQueue(s) \/ SubmitCall(s)
        \/ AnswerRead(s) \/ CloseCall(s)
    \/ \E maker \in DOMAIN waiting : Begin(maker) \/ CancelWaiting(maker)
    \/ \E by \in Withdrawable : Withdraw(by)
    \/ End

CallsSpec == CallsInit /\ [][CallsNext]_callVars

-----------------------------------------------------------------------------
\* start_run looks for a job of the same upload, pipeline and period and makes
\* none while there is one (docs/MCP.md: reused).  It looks and inserts in two
\* statements, so calls side by side may each make one, and never more.
OneJobPerLook ==
    waiting.mcp + (IF atWork = "mcp" THEN 1 ELSE 0) <= Cardinality(Lanes)

\* A call served was made with a credential that the door reads, that was in
\* force when the call came and that holds the scope; it is not recorded as
\* denied.
ServedWithinRights ==
    \A s \in Lanes : LET k == call[s] IN
        k.answer = "ok" =>
            /\ k.entitled /\ k.by \in DoorReads[k.face] /\ ~ k.denied
            /\ NeededBy[k.op] \subseteq k.scopes
=============================================================================
