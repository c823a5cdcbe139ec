----------------------------- MODULE DoorProofs -----------------------------
(***************************************************************************)
(* What comes in side by side: how far the queue limit and the quota of    *)
(* uploads can be passed, for every limit and number of requests; the      *)
(* calls of agents and clients, their rights and the jobs that they make;  *)
(* what pruning lets through the rate limiter; and the gate of the tools.  *)
(***************************************************************************)
EXTENDS Doors, FiniteSetTheorems, TLAPS

USE DEF Status, Terminal, Outcomes, Steps

PendingSet(o) == JobsWith(o, {"queued", "running"})

LEMMA FiniteParts ==
  ASSUME NEW o \in Orgs
  PROVE  /\ IsFiniteSet(InFlight(o)) /\ Cardinality(InFlight(o)) \in Nat
         /\ IsFiniteSet(Counted(o)) /\ Cardinality(Counted(o)) \in Nat
         /\ IsFiniteSet(PendingSet(o)) /\ Pending(o) \in Nat
  <1>1. /\ InFlight(o) \in SUBSET Jobs
        /\ Counted(o) \in SUBSET Jobs
        /\ PendingSet(o) \in SUBSET Jobs
    BY DEF InFlight, Counted, PendingSet, JobsWith
  <1>2. QED
    BY <1>1, JobsFinite, FS_Subset, FS_CardinalityType DEF Pending, PendingSet

\* Where all three sets shrink or stay, the bounds stay.
LEMMA BoundsShrink ==
  ASSUME NEW o \in Orgs, AdmissionInv,
         InFlight(o)' \subseteq InFlight(o),
         Counted(o)' \subseteq Counted(o),
         PendingSet(o)' \subseteq PendingSet(o)
  PROVE  /\ Cardinality(InFlight(o)') <= MaxInFlight
         /\ Pending(o)' + Cardinality(Counted(o)')
              <= MaxPending + MaxInFlight - 1
  <1>1. /\ Cardinality(InFlight(o)') <= Cardinality(InFlight(o))
        /\ Cardinality(InFlight(o)') \in Nat
        /\ Cardinality(Counted(o)') <= Cardinality(Counted(o))
        /\ Cardinality(Counted(o)') \in Nat
        /\ Cardinality(PendingSet(o)') <= Cardinality(PendingSet(o))
        /\ Cardinality(PendingSet(o)') \in Nat
    BY FiniteParts, FS_Subset, FS_CardinalityType
  <1>2. /\ Pending(o) = Cardinality(PendingSet(o))
        /\ Pending(o)' = Cardinality(PendingSet(o)')
    BY DEF Pending, PendingSet
  <1>3. QED
    BY <1>1, <1>2, FiniteParts, AdmissionAssumption DEF AdmissionInv

\* The three sets of another organization do not move.
LEMMA OthersKept ==
  ASSUME NEW j \in Jobs, NEW o \in Orgs, AdmissionInv, o # OrgOf[j],
         \/ ReadUsage(j) \/ CheckPlan(j) \/ CheckQueue(j) \/ InsertJob(j)
         \/ RowStep(j)
  PROVE  /\ InFlight(o)' = InFlight(o)
         /\ Counted(o)' = Counted(o)
         /\ PendingSet(o)' = PendingSet(o)
  <1>1. \A k \in Jobs : OrgOf[k] = o =>
           step'[k] = step[k] /\ status'[k] = status[k]
    BY DEF AdmissionInv, TypeOK, RowsTypeOK, ReadUsage, CheckPlan, CheckQueue,
           InsertJob, RowStep, Goto, rows, SetStatus, InsertRow, CancelRow,
           ClaimRow, FinishRow, CompleteRunning, CompleteRow
  <1>2. QED
    BY <1>1 DEF InFlight, Counted, PendingSet, JobsWith

LEMMA InitAdmissionInv == Init => AdmissionInv
  <1> SUFFICES ASSUME Init PROVE AdmissionInv
    OBVIOUS
  <1>1. TypeOK
    BY DEF Init, RowsInit, TypeOK, RowsTypeOK
  <1>2. ASSUME NEW o \in Orgs
        PROVE  InFlight(o) = {} /\ Counted(o) = {} /\ PendingSet(o) = {}
    BY DEF Init, RowsInit, InFlight, Counted, PendingSet, JobsWith
  <1>3. QED
    BY <1>1, <1>2, FS_EmptySet, AdmissionAssumption
    DEF AdmissionInv, Pending, PendingSet

LEMMA NextTypes == TypeOK /\ [Next]_vars => TypeOK'
  <1> SUFFICES ASSUME TypeOK, [Next]_vars PROVE TypeOK'
    OBVIOUS
  <1> USE DEF TypeOK, RowsTypeOK, vars, rows, Goto, SetStatus
  <1>1. OrgOf \in [Jobs -> Orgs]
    BY OrgOfAssumption
  <1>2. ASSUME NEW j \in Jobs,
               ReadUsage(j) \/ CheckPlan(j) \/ CheckQueue(j) \/ InsertJob(j)
        PROVE  TypeOK'
    BY <1>1, <1>2 DEF ReadUsage, CheckPlan, CheckQueue, InsertJob, InsertRow
  <1>3. ASSUME NEW j \in Jobs, CancelRow(j) \/ ClaimRow(j) \/ FinishRow(j)
        PROVE  RowsTypeOK'
    BY <1>3 DEF CancelRow, ClaimRow, FinishRow
  <1>4. ASSUME NEW j \in Jobs, NEW outcome \in Outcomes,
               CompleteRunning(j, outcome)
        PROVE  RowsTypeOK'
    <2>1. status' \in [Jobs -> Status] /\ recorded' \in SUBSET Jobs
      BY <1>4 DEF CompleteRunning, CompleteRow
    <2>2. usage' \in [Orgs -> Nat]
      BY <1>1, <1>4 DEF CompleteRunning, CompleteRow
    <2>3. QED
      BY <2>1, <2>2
  <1>5. ASSUME NEW j \in Jobs, RowStep(j)
        PROVE  TypeOK'
    BY <1>3, <1>4, <1>5 DEF RowStep
  <1>6. CASE Restart
    BY <1>6 DEF Restart, AbandonRows
  <1>7. CASE UNCHANGED vars
    BY <1>7
  <1>8. QED
    BY <1>2, <1>5, <1>6, <1>7 DEF Next

-----------------------------------------------------------------------------
\* A request is admitted to the checks: one more in flight, below the bound.
LEMMA ReadUsageBounds ==
  ASSUME NEW j \in Jobs, AdmissionInv, ReadUsage(j)
  PROVE  AdmissionInv'
  <1> DEFINE o == OrgOf[j]
  <1>1. o \in Orgs
    BY OrgOfAssumption
  <1>2. /\ InFlight(o)' = InFlight(o) \cup {j} /\ j \notin InFlight(o)
        /\ Counted(o)' = Counted(o)
        /\ PendingSet(o)' = PendingSet(o)
    BY DEF AdmissionInv, TypeOK, ReadUsage, Goto, rows, InFlight, Counted,
           PendingSet, JobsWith
  <1>3. Cardinality(InFlight(o)') <= MaxInFlight
    <2>1. Cardinality(InFlight(o)) < MaxInFlight
      BY DEF ReadUsage
    <2>2. Cardinality(InFlight(o)') = Cardinality(InFlight(o)) + 1
      BY <1>1, <1>2, FiniteParts, FS_AddElement
    <2>3. QED
      BY <1>1, <2>1, <2>2, FiniteParts, AdmissionAssumption
  <1>4. Pending(o)' + Cardinality(Counted(o)') <= MaxPending + MaxInFlight - 1
    BY <1>1, <1>2 DEF AdmissionInv, Pending, PendingSet
  <1>5. TypeOK'
    BY NextTypes DEF AdmissionInv, Next
  <1>6. QED
    BY <1>1, <1>3, <1>4, <1>5, OthersKept DEF AdmissionInv, Pending, PendingSet

\* The queue check passes below MaxPending, so the requests let through at
\* that moment make the excess, and they are all in flight.
LEMMA CheckQueueBounds ==
  ASSUME NEW j \in Jobs, AdmissionInv, CheckQueue(j)
  PROVE  AdmissionInv'
  <1> DEFINE o == OrgOf[j]
  <1>1. o \in Orgs
    BY OrgOfAssumption
  <1>2. /\ InFlight(o)' \subseteq InFlight(o)
        /\ PendingSet(o)' = PendingSet(o)
        /\ Counted(o)' \subseteq InFlight(o)
    BY DEF AdmissionInv, TypeOK, CheckQueue, Goto, rows, InFlight, Counted,
           PendingSet, JobsWith
  <1>3. CASE Pending(o) >= MaxPending
    <2>1. Counted(o)' \subseteq Counted(o)
      BY <1>3 DEF AdmissionInv, TypeOK, CheckQueue, Goto, Counted
    <2>2. QED
      BY <1>1, <1>2, <2>1, BoundsShrink, NextTypes, OthersKept
      DEF AdmissionInv, Next, Pending, PendingSet
  <1>4. CASE ~(Pending(o) >= MaxPending)
    <2>1. /\ Cardinality(InFlight(o)') <= Cardinality(InFlight(o))
          /\ Cardinality(InFlight(o)') \in Nat
          /\ Cardinality(Counted(o)') <= Cardinality(InFlight(o))
          /\ Cardinality(Counted(o)') \in Nat
      BY <1>1, <1>2, FiniteParts, FS_Subset, FS_CardinalityType
    <2>2. Pending(o)' = Pending(o)
      BY <1>2 DEF Pending, PendingSet
    <2>3. Cardinality(InFlight(o)) <= MaxInFlight
      BY <1>1 DEF AdmissionInv
    <2>4. /\ Cardinality(InFlight(o)') <= MaxInFlight
          /\ Pending(o)' + Cardinality(Counted(o)')
               <= MaxPending + MaxInFlight - 1
      BY <1>1, <1>4, <2>1, <2>2, <2>3, FiniteParts, AdmissionAssumption
    <2>5. QED
      BY <1>1, <2>4, NextTypes, OthersKept
      DEF AdmissionInv, Next, Pending, PendingSet
  <1>5. QED
    BY <1>3, <1>4

\* The row takes the place of the request that was counted.
LEMMA InsertBounds ==
  ASSUME NEW j \in Jobs, AdmissionInv, InsertJob(j)
  PROVE  AdmissionInv'
  <1> DEFINE o == OrgOf[j]
  <1>1. o \in Orgs
    BY OrgOfAssumption
  <1>2. /\ InFlight(o)' \subseteq InFlight(o)
        /\ PendingSet(o)' = PendingSet(o) \cup {j} /\ j \notin PendingSet(o)
        /\ Counted(o)' = Counted(o) \ {j} /\ j \in Counted(o)
    BY DEF AdmissionInv, TypeOK, RowsTypeOK, InsertJob, InsertRow, SetStatus,
           Goto, InFlight, Counted, PendingSet, JobsWith
  <1>3. /\ Cardinality(PendingSet(o)') = Cardinality(PendingSet(o)) + 1
        /\ Cardinality(Counted(o)') = Cardinality(Counted(o)) - 1
    BY ZenonT(60), <1>1, <1>2, FiniteParts, FS_AddElement, FS_RemoveElement
  <1>4. /\ Cardinality(InFlight(o)') <= Cardinality(InFlight(o))
        /\ Cardinality(InFlight(o)') \in Nat
    BY <1>1, <1>2, FiniteParts, FS_Subset, FS_CardinalityType
  <1>5. /\ Pending(o) = Cardinality(PendingSet(o))
        /\ Pending(o)' = Cardinality(PendingSet(o)')
    BY DEF Pending, PendingSet
  <1>6. /\ Cardinality(InFlight(o)') <= MaxInFlight
        /\ Pending(o)' + Cardinality(Counted(o)')
             <= MaxPending + MaxInFlight - 1
    BY <1>1, <1>3, <1>4, <1>5, FiniteParts, AdmissionAssumption
    DEF AdmissionInv
  <1>7. QED
    BY <1>1, <1>6, NextTypes, OthersKept
    DEF AdmissionInv, Next, Pending, PendingSet

\* Everything else only makes places.
LEMMA OtherBounds ==
  ASSUME AdmissionInv,
         \/ Restart
         \/ \E j \in Jobs : CheckPlan(j) \/ RowStep(j)
         \/ UNCHANGED vars
  PROVE  AdmissionInv'
  <1>1. ASSUME NEW o \in Orgs
        PROVE  /\ InFlight(o)' \subseteq InFlight(o)
               /\ Counted(o)' \subseteq Counted(o)
               /\ PendingSet(o)' \subseteq PendingSet(o)
    BY DEF AdmissionInv, TypeOK, RowsTypeOK, Restart, AbandonRows, CheckPlan,
           RowStep, Goto, vars, rows, SetStatus, CancelRow, ClaimRow,
           FinishRow, CompleteRunning, CompleteRow, InFlight, Counted,
           PendingSet, JobsWith
  <1>2. TypeOK'
    BY NextTypes DEF AdmissionInv, Next
  <1>3. QED
    BY <1>1, <1>2, BoundsShrink DEF AdmissionInv

\* The bounds hold in every reachable state.
THEOREM AdmissionInvariant == Spec => []AdmissionInv
  <1>1. AdmissionInv /\ [Next]_vars => AdmissionInv'
    BY ReadUsageBounds, CheckQueueBounds, InsertBounds, OtherBounds DEF Next
  <1>2. QED
    BY <1>1, InitAdmissionInv, PTL DEF Spec

\* At most MaxInFlight - 1 jobs beyond MAX_PENDING_JOBS (jobs.py:92-111).
THEOREM QueueExcessBoundedHolds == Spec => []QueueExcessBounded
  <1>1. AdmissionInv => QueueExcessBounded
    BY FiniteParts, AdmissionAssumption DEF AdmissionInv, QueueExcessBounded
  <1>2. QED
    BY <1>1, AdmissionInvariant, PTL

-----------------------------------------------------------------------------
(* Calls of agents and clients.                                            *)

\* What has been established for a call that is past a place, before it is
\* answered and when it is.
WithinRights(k, gone) ==
    /\ k.at # "answered" => k.answer = "none" /\ ~k.denied
    /\ k.at = "entered" /\ k.by \notin gone => k.entitled
    /\ k.at \in {"known", "inside", "plan", "allowed", "submit", "insert"} =>
         k.entitled /\ k.by \in DoorReads[k.face]
    /\ k.at = "allowed" => k.face = "rest"
    /\ k.at \in {"plan", "submit", "insert"} => k.op = "start"
    /\ k.at \in {"inside", "plan", "submit", "insert"} => NeededBy[k.op] \subseteq k.scopes
    /\ k.answer = "ok" => /\ k.entitled /\ k.by \in DoorReads[k.face] /\ ~k.denied
                          /\ NeededBy[k.op] \subseteq k.scopes

CallsInv ==
    /\ call \in [Lanes -> Calls]
    /\ \A s \in Lanes : WithinRights(call[s], withdrawn)

\* The calls of agents that have seen that there is no job.
Looked == {s \in Lanes : call[s].at \in {"plan", "submit", "insert"} /\ call[s].face = "mcp"}

JobsOfAgents == waiting.mcp + (IF atWork = "mcp" THEN 1 ELSE 0)

LookInv ==
    /\ waiting \in [mcp : Nat, other : Nat] /\ atWork \in {"none", "mcp", "other"}
    /\ JobsOfAgents + Cardinality(Looked) <= Cardinality(Lanes)

\* One call moves on, within its rights.
LEMMA OneCall ==
    ASSUME CallsInv, NEW s \in Lanes, NEW k \in Calls, call' = [call EXCEPT ![s] = k],
           withdrawn' = withdrawn, WithinRights(k, withdrawn)
    PROVE  CallsInv'
BY DEF CallsInv

LEMMA CallsStep == CallsInv /\ [CallsNext]_callVars => CallsInv'
<1> SUFFICES ASSUME CallsInv, [CallsNext]_callVars
             PROVE  CallsInv'
  OBVIOUS
<1>1. CASE UNCHANGED <<call, withdrawn>>
  BY <1>1 DEF CallsInv
<1>2. ASSUME NEW by \in Withdrawable, Withdraw(by)
      PROVE  CallsInv'
  BY <1>2 DEF Withdraw, CallsInv, WithinRights
<1>3. ASSUME NEW s \in Lanes, NEW face \in Faces, NEW by \in Credentials, Enter(s, face, by)
      PROVE  CallsInv'
  <2> DEFINE k == [NoCall EXCEPT !.at = "entered", !.face = face, !.by = by,
                                 !.entitled = by \notin withdrawn]
  <2>1. call' = [call EXCEPT ![s] = k] /\ withdrawn' = withdrawn
    BY <1>3 DEF Enter
  <2>2. k \in Calls
    BY DEF NoCall, Calls, NeededBy
  <2>3. k.at = "entered" /\ k.answer = "none" /\ k.denied = FALSE /\ k.by = by
        /\ k.entitled = (by \notin withdrawn)
    BY DEF NoCall
  <2>4. WithinRights(k, withdrawn)
    BY <2>3 DEF WithinRights
  <2> HIDE DEF k
  <2>5. QED
    BY <2>1, <2>2, <2>4, OneCall

\* A call that is not served.
<1>4. ASSUME NEW s \in Lanes, NEW k \in Calls, call' = [call EXCEPT ![s] = k],
             k.at = "answered", k.answer # "ok", withdrawn' = withdrawn
      PROVE  CallsInv'
  <2>1. WithinRights(k, withdrawn)
    BY <1>4 DEF WithinRights
  <2>2. QED
    BY <1>4, <2>1, OneCall
<1>5. ASSUME NEW s \in Lanes, DenyCall(s) \/ Reply(s, "failed"), withdrawn' = withdrawn
      PROVE  CallsInv'
  <2>1. call[s] \in Calls
    BY DEF CallsInv
  <2>2. CASE Reply(s, "failed")
    <3> DEFINE k == [call[s] EXCEPT !.at = "answered", !.answer = "failed"]
    <3>1. call' = [call EXCEPT ![s] = k]
      BY <2>2 DEF Reply, CallsInv
    <3>2. k \in Calls /\ k.at = "answered" /\ k.answer = "failed"
      BY <2>1 DEF Calls
    <3> HIDE DEF k
    <3>3. QED
      BY <1>4, <1>5, <3>1, <3>2
  <2>3. CASE DenyCall(s)
    <3>1. PICK kept \in BOOLEAN :
            call' = [call EXCEPT ![s].at = "answered", ![s].answer = "failed", ![s].denied = kept]
      BY <2>3 DEF DenyCall
    <3> DEFINE k == [call[s] EXCEPT !.at = "answered", !.answer = "failed", !.denied = kept]
    <3>2. call' = [call EXCEPT ![s] = k]
      BY <3>1 DEF CallsInv
    <3>3. k \in Calls /\ k.at = "answered" /\ k.answer = "failed"
      BY <2>1 DEF Calls
    <3> HIDE DEF k
    <3>4. QED
      BY <1>4, <1>5, <3>2, <3>3
  <2>4. QED
    BY <1>5, <2>2, <2>3
<1>6. ASSUME NEW s \in Lanes, TurnAway(s) \/ RefuseRequest(s)
      PROVE  CallsInv'
  <2>1. PICK noted \in BOOLEAN : call' = [call EXCEPT ![s] = Refusal(noted)]
    BY <1>6 DEF TurnAway, RefuseRequest
  <2>2. Refusal(noted) \in Calls /\ Refusal(noted).at = "answered"
        /\ Refusal(noted).answer = "refused"
    BY DEF Refusal, NoCall, Calls, Faces, Credentials, NeededBy
  <2>3. withdrawn' = withdrawn
    BY <1>6 DEF TurnAway, RefuseRequest
  <2>4. QED
    BY <1>4, <2>1, <2>2, <2>3
\* A call that goes on, or is served.
<1>7. ASSUME NEW s \in Lanes, NEW scopes \in Grantable, Authenticate(s, scopes)
      PROVE  CallsInv'
  <2> DEFINE held == IF call[s].by = "cookie" THEN {} ELSE scopes
             k == [call[s] EXCEPT !.at = "known", !.scopes = held]
  <2>1. call[s] \in Calls /\ WithinRights(call[s], withdrawn)
    BY DEF CallsInv
  <2>2. call' = [call EXCEPT ![s] = k] /\ withdrawn' = withdrawn
    BY <1>7 DEF Authenticate, CallsInv
  <2>3. held \in SUBSET Scopes
    BY CallsAssumption
  <2> HIDE DEF held
  <2>4. k \in Calls
    BY <2>1, <2>3 DEF Calls
  <2>5. k.at = "known" /\ k.by = call[s].by /\ k.face = call[s].face /\ k.answer = call[s].answer
        /\ k.denied = call[s].denied /\ k.entitled = call[s].entitled
    BY <2>1 DEF Calls
  <2>6. call[s].at = "entered" /\ call[s].by \in DoorReads[call[s].face] /\ call[s].by \notin withdrawn
    BY <1>7 DEF Authenticate
  <2> HIDE DEF k
  <2>7. WithinRights(k, withdrawn)
    BY <2>1, <2>5, <2>6 DEF WithinRights
  <2>8. QED
    BY <2>2, <2>4, <2>7, OneCall
<1>8. ASSUME NEW s \in Lanes, NEW op \in DOMAIN NeededBy, Gate(s, op)
      PROVE  CallsInv'
  <2>1. call[s] \in Calls /\ WithinRights(call[s], withdrawn) /\ withdrawn' = withdrawn
        /\ call[s].at = "known"
    BY <1>8 DEF CallsInv, Gate
  <2>2. CASE call' = [call EXCEPT ![s].at = "answered", ![s].op = "unknown", ![s].answer = "failed"]
    <3> DEFINE k == [call[s] EXCEPT !.at = "answered", !.op = "unknown", !.answer = "failed"]
    <3>1. call' = [call EXCEPT ![s] = k]
      BY <2>2 DEF CallsInv
    <3>2. k \in Calls /\ k.at = "answered" /\ k.answer = "failed"
      BY <2>1 DEF Calls, NeededBy
    <3> HIDE DEF k
    <3>3. QED
      BY <1>4, <2>1, <3>1, <3>2
  <2>3. ASSUME NEW kept \in BOOLEAN,
               call' = [call EXCEPT ![s].at = "answered", ![s].op = op, ![s].answer = "failed",
                                    ![s].denied = kept]
        PROVE  CallsInv'
    <3> DEFINE k == [call[s] EXCEPT !.at = "answered", !.op = op, !.answer = "failed", !.denied = kept]
    <3>1. call' = [call EXCEPT ![s] = k]
      BY <2>3 DEF CallsInv
    <3>2. k \in Calls /\ k.at = "answered" /\ k.answer = "failed"
      BY <2>1 DEF Calls
    <3> HIDE DEF k
    <3>3. QED
      BY <1>4, <2>1, <3>1, <3>2
  <2>4. CASE ~Lacks(call[s].scopes, op) /\ call' = [call EXCEPT ![s].at = "inside", ![s].op = op]
    <3> DEFINE k == [call[s] EXCEPT !.at = "inside", !.op = op]
    <3>1. call' = [call EXCEPT ![s] = k]
      BY <2>4 DEF CallsInv
    <3>2. k \in Calls
      BY <2>1 DEF Calls
    <3>3. k.at = "inside" /\ k.op = op /\ k.by = call[s].by /\ k.face = call[s].face
          /\ k.answer = call[s].answer /\ k.denied = call[s].denied
          /\ k.entitled = call[s].entitled /\ k.scopes = call[s].scopes
      BY <2>1 DEF Calls
    <3>4. NeededBy[op] \subseteq call[s].scopes
      BY <2>4 DEF Lacks
    <3> HIDE DEF k
    <3>5. WithinRights(k, withdrawn)
      BY <2>1, <3>3, <3>4 DEF WithinRights
    <3>6. QED
      BY <2>1, <3>1, <3>2, <3>5, OneCall
  <2>5. QED
    BY <1>8, <2>2, <2>3, <2>4 DEF Gate
<1>9. ASSUME NEW s \in Lanes, PlanGuard(s) \/ Route(s)
      PROVE  CallsInv'
  <2>1. call[s] \in Calls /\ WithinRights(call[s], withdrawn) /\ withdrawn' = withdrawn
        /\ call[s].at = "known" /\ call[s].face = "rest"
    BY <1>9 DEF CallsInv, PlanGuard, Route
  <2>2. ASSUME NEW op \in {"start", "report"}, call' = [call EXCEPT ![s].at = "allowed", ![s].op = op]
        PROVE  CallsInv'
    <3> DEFINE k == [call[s] EXCEPT !.at = "allowed", !.op = op]
    <3>1. call' = [call EXCEPT ![s] = k]
      BY <2>2 DEF CallsInv
    <3>2. k \in Calls
      BY <2>1 DEF Calls, NeededBy
    <3>3. k.at = "allowed" /\ k.by = call[s].by /\ k.face = call[s].face
          /\ k.answer = call[s].answer /\ k.denied = call[s].denied /\ k.entitled = call[s].entitled
      BY <2>1 DEF Calls
    <3> HIDE DEF k
    <3>4. WithinRights(k, withdrawn)
      BY <2>1, <3>3 DEF WithinRights
    <3>5. QED
      BY <2>1, <3>1, <3>2, <3>4, OneCall
  <2>3. CASE call' = [call EXCEPT ![s].at = "answered", ![s].op = "start", ![s].answer = "failed",
                                  ![s].denied = TRUE]
    <3> DEFINE k == [call[s] EXCEPT !.at = "answered", !.op = "start", !.answer = "failed", !.denied = TRUE]
    <3>1. call' = [call EXCEPT ![s] = k]
      BY <2>3 DEF CallsInv
    <3>2. k \in Calls /\ k.at = "answered" /\ k.answer = "failed"
      BY <2>1 DEF Calls, NeededBy
    <3> HIDE DEF k
    <3>3. QED
      BY <1>4, <2>1, <3>1, <3>2
  <2>4. QED
    BY <1>9, <2>2, <2>3 DEF PlanGuard, Route
<1>10. ASSUME NEW s \in Lanes, OrgAccess(s)
       PROVE  CallsInv'
  <2>1. call[s] \in Calls /\ WithinRights(call[s], withdrawn) /\ withdrawn' = withdrawn
        /\ call[s].at = "allowed"
    BY <1>10 DEF CallsInv, OrgAccess
  <2>2. CASE ~Lacks(ScopesHere(s), call[s].op)
             /\ call' = [call EXCEPT ![s].at = IF call[s].op = "start" THEN "submit" ELSE "inside",
                                     ![s].scopes = ScopesHere(s)]
    <3> DEFINE place == IF call[s].op = "start" THEN "submit" ELSE "inside"
               k == [call[s] EXCEPT !.at = place, !.scopes = ScopesHere(s)]
    <3>1. call' = [call EXCEPT ![s] = k]
      BY <2>2 DEF CallsInv
    <3>2. ScopesHere(s) \in SUBSET Scopes
      BY <2>1 DEF ScopesHere, Calls
    <3>3. k \in Calls
      BY <2>1, <3>2 DEF Calls
    <3>4. k.at = place /\ k.by = call[s].by /\ k.face = call[s].face /\ k.op = call[s].op
          /\ k.answer = call[s].answer /\ k.denied = call[s].denied
          /\ k.entitled = call[s].entitled /\ k.scopes = ScopesHere(s)
      BY <2>1 DEF Calls
    <3>5. NeededBy[call[s].op] \subseteq ScopesHere(s)
      BY <2>2 DEF Lacks
    <3> HIDE DEF k
    <3>6. WithinRights(k, withdrawn)
      BY <2>1, <3>4, <3>5 DEF WithinRights
    <3>7. QED
      BY <2>1, <3>1, <3>3, <3>6, OneCall
  <2>3. QED
    BY <1>5, <1>10, <2>1, <2>2 DEF OrgAccess
<1>11. ASSUME NEW s \in Lanes, Reply(s, "ok"), withdrawn' = withdrawn,
              call[s].at \in {"inside", "plan", "submit", "insert"}
       PROVE  CallsInv'
  <2> DEFINE k == [call[s] EXCEPT !.at = "answered", !.answer = "ok"]
  <2>1. call[s] \in Calls /\ WithinRights(call[s], withdrawn)
    BY DEF CallsInv
  <2>2. call' = [call EXCEPT ![s] = k]
    BY <1>11 DEF Reply, CallsInv
  <2>3. k \in Calls
    BY <2>1 DEF Calls
  <2>4. k.at = "answered" /\ k.answer = "ok" /\ k.by = call[s].by /\ k.face = call[s].face
        /\ k.op = call[s].op /\ k.denied = call[s].denied /\ k.entitled = call[s].entitled
        /\ k.scopes = call[s].scopes
    BY <2>1 DEF Calls
  <2> HIDE DEF k
  <2>5. WithinRights(k, withdrawn)
    BY <1>11, <2>1, <2>4 DEF WithinRights
  <2>6. QED
    BY <1>11, <2>2, <2>3, <2>5, OneCall
<1>12. ASSUME NEW s \in Lanes, NEW place \in {"plan", "submit", "insert"}, Advance(s, place),
              withdrawn' = withdrawn, call[s].at \in {"inside", "plan", "submit"},
              call[s].op = "start"
       PROVE  CallsInv'
  <2> DEFINE k == [call[s] EXCEPT !.at = place]
  <2>1. call[s] \in Calls /\ WithinRights(call[s], withdrawn)
    BY DEF CallsInv
  <2>2. call' = [call EXCEPT ![s] = k]
    BY <1>12 DEF Advance, CallsInv
  <2>3. k \in Calls
    BY <2>1 DEF Calls
  <2>4. k.at = place /\ k.by = call[s].by /\ k.face = call[s].face /\ k.answer = call[s].answer
        /\ k.op = call[s].op /\ k.denied = call[s].denied /\ k.entitled = call[s].entitled
        /\ k.scopes = call[s].scopes
    BY <2>1 DEF Calls
  <2> HIDE DEF k
  <2>5. WithinRights(k, withdrawn)
    BY <1>12, <2>1, <2>4 DEF WithinRights
  <2>6. QED
    BY <1>12, <2>2, <2>3, <2>5, OneCall
<1>13. ASSUME NEW s \in Lanes, LookForPending(s)
       PROVE  CallsInv'
  BY <1>5, <1>11, <1>12, <1>13 DEF LookForPending
<1>14. ASSUME NEW s \in Lanes, MeetPlan(s)
       PROVE  CallsInv'
  <2>1. call[s] \in Calls /\ WithinRights(call[s], withdrawn) /\ withdrawn' = withdrawn
        /\ call[s].at = "plan"
    BY <1>14 DEF CallsInv, MeetPlan
  <2>2. CASE Advance(s, "submit")
    BY <1>12, <2>1, <2>2 DEF WithinRights
  <2>3. CASE call' = [call EXCEPT ![s].at = "answered", ![s].answer = "failed", ![s].denied = TRUE]
    <3> DEFINE k == [call[s] EXCEPT !.at = "answered", !.answer = "failed", !.denied = TRUE]
    <3>1. call' = [call EXCEPT ![s] = k]
      BY <2>3 DEF CallsInv
    <3>2. k \in Calls /\ k.at = "answered" /\ k.answer = "failed"
      BY <2>1 DEF Calls
    <3> HIDE DEF k
    <3>3. QED
      BY <1>4, <2>1, <3>1, <3>2
  <2>4. QED
    BY <1>14, <2>2, <2>3 DEF MeetPlan
<1>15. ASSUME NEW s \in Lanes, CountQueue(s) \/ SubmitCall(s)
       PROVE  CallsInv'
  <2>1. CASE SubmitCall(s)
    BY <1>5, <1>11, <2>1 DEF SubmitCall
  <2>2. CASE CountQueue(s)
    <3>1. call[s].at = "submit" /\ call[s].op = "start" /\ withdrawn' = withdrawn
      BY <2>2 DEF CountQueue, CallsInv, WithinRights
    <3>2. QED
      BY <1>5, <1>12, <2>2, <3>1 DEF CountQueue
  <2>3. QED
    BY <1>15, <2>1, <2>2
<1>16. ASSUME NEW s \in Lanes, AnswerRead(s)
       PROVE  CallsInv'
  BY <1>5, <1>11, <1>16 DEF AnswerRead
<1>17. ASSUME NEW s \in Lanes, CloseCall(s)
       PROVE  CallsInv'
  <2>1. NoCall \in Calls /\ WithinRights(NoCall, withdrawn)
    BY DEF NoCall, Calls, Faces, Credentials, NeededBy, WithinRights
  <2>2. QED
    BY <1>17, <2>1, OneCall DEF CloseCall
<1>18. ASSUME NEW maker \in DOMAIN waiting, Begin(maker) \/ CancelWaiting(maker)
       PROVE  CallsInv'
  BY <1>1, <1>18 DEF Begin, CancelWaiting
<1>19. CASE End
  BY <1>1, <1>19 DEF End
<1>20. QED
  BY <1>1, <1>2, <1>3, <1>6, <1>7, <1>8, <1>9, <1>10, <1>13, <1>14, <1>15, <1>16, <1>17, <1>18, <1>19
     DEF CallsNext, callVars

\* The invariant of the calls.
LEMMA CallsInvariant == CallsSpec => []CallsInv
<1>1. CallsInit => CallsInv
  BY DEF CallsInit, CallsInv, NoCall, Calls, Faces, Credentials, NeededBy, WithinRights
<1>2. QED
  BY <1>1, CallsStep, PTL DEF CallsSpec

\* The steps of a call that lead to no place of a start that is under way.
LEMMA ElsewhereStep ==
    ASSUME CallsInv, NEW s \in Lanes,
           \/ \E face \in Faces, by \in Credentials : Enter(s, face, by)
           \/ \E scopes \in Grantable : Authenticate(s, scopes)
           \/ TurnAway(s) \/ RefuseRequest(s) \/ CloseCall(s)
           \/ \E op \in DOMAIN NeededBy : Gate(s, op)
           \/ PlanGuard(s) \/ Route(s) \/ AnswerRead(s)
    PROVE  /\ \A r \in Lanes \ {s} : call'[r] = call[r]
           /\ call'[s].at \notin {"plan", "submit", "insert"}
<1>1. call \in [Lanes -> Calls]
  BY DEF CallsInv
<1>2. CASE TurnAway(s) \/ RefuseRequest(s) \/ CloseCall(s)
  <2>1. PICK k \in {Refusal(TRUE), Refusal(FALSE), NoCall} : call' = [call EXCEPT ![s] = k]
    BY <1>2 DEF TurnAway, RefuseRequest, CloseCall
  <2>2. NoCall.at = "idle"
    BY DEF NoCall
  <2>3. \A noted \in BOOLEAN : Refusal(noted).at = "answered"
    BY DEF Refusal, NoCall, NeededBy
  <2>4. k.at \in {"answered", "idle"}
    BY <2>1, <2>2, <2>3
  <2>5. QED
    BY <1>1, <2>1, <2>4
<1>3. ASSUME NEW face \in Faces, NEW by \in Credentials, Enter(s, face, by)
      PROVE  (\A r \in Lanes \ {s} : call'[r] = call[r]) /\ call'[s].at = "entered"
  BY <1>1, <1>3 DEF Enter, NoCall
<1>4. ASSUME NEW scopes \in Grantable, Authenticate(s, scopes)
      PROVE  (\A r \in Lanes \ {s} : call'[r] = call[r]) /\ call'[s].at = "known"
  BY <1>1, <1>4 DEF Authenticate, Calls
<1>5. ASSUME NEW op \in DOMAIN NeededBy, Gate(s, op)
      PROVE  (\A r \in Lanes \ {s} : call'[r] = call[r]) /\ call'[s].at \in {"answered", "inside"}
  <2>1. call[s] \in Calls
    BY <1>1
  <2>2. \A r \in Lanes \ {s} : call'[r] = call[r]
    BY <1>1, <1>5 DEF Gate
  <2>3. CASE call' = [call EXCEPT ![s].at = "answered", ![s].op = "unknown", ![s].answer = "failed"]
    BY <1>1, <2>1, <2>3 DEF Calls
  <2>4. ASSUME NEW kept \in BOOLEAN,
               call' = [call EXCEPT ![s].at = "answered", ![s].op = op, ![s].answer = "failed",
                                    ![s].denied = kept]
        PROVE  call'[s].at = "answered"
    BY <1>1, <2>1, <2>4 DEF Calls
  <2>5. CASE call' = [call EXCEPT ![s].at = "inside", ![s].op = op]
    BY <1>1, <2>1, <2>5 DEF Calls
  <2>6. QED
    BY <1>5, <2>2, <2>3, <2>4, <2>5 DEF Gate
<1>6. CASE PlanGuard(s) \/ Route(s) \/ AnswerRead(s)
  BY <1>1, <1>6 DEF PlanGuard, Route, AnswerRead, Reply, Calls
<1>7. QED
  BY <1>2, <1>3, <1>4, <1>5, <1>6

\* The calls that were counted and insert next.
Inserting == {s \in Lanes : call[s].at = "insert"}

JobsHere == waiting.mcp + waiting.other + (IF atWork = "none" THEN 0 ELSE 1)

\* A call that was counted counts as the job it is about to insert.
CountedInv ==
    /\ waiting \in [mcp : Nat, other : Nat] /\ atWork \in {"none", "mcp", "other"}
    /\ withdrawn \subseteq Credentials
    /\ JobsHere + Cardinality(Inserting) <= MostWaiting

LEMMA InsertingFinite ==
    /\ IsFiniteSet(Inserting) /\ Cardinality(Inserting) \in Nat
    /\ Cardinality(Inserting) <= Cardinality(Lanes) /\ Cardinality(Lanes) \in Nat
BY FS_Subset, FS_CardinalityType, CallsAssumption DEF Inserting

LEMMA CountedStep == CallsInv /\ CountedInv /\ [CallsNext]_callVars => CountedInv'
<1> SUFFICES ASSUME CallsInv, CountedInv, [CallsNext]_callVars
             PROVE  CountedInv'
  OBVIOUS
<1> USE DEF CountedInv
<1>0. /\ waiting.mcp \in Nat /\ waiting.other \in Nat /\ DOMAIN waiting = {"mcp", "other"}
      /\ QueueLimit \in Nat \ {0} /\ MostWaiting' = MostWaiting
  BY CallsAssumption DEF MostWaiting
\* Nobody new is counted, and no job is added.
<1>1. ASSUME Inserting' \subseteq Inserting, waiting' \in [mcp : Nat, other : Nat],
             atWork' \in {"none", "mcp", "other"}, withdrawn' \subseteq Credentials,
             JobsHere' <= JobsHere
      PROVE  CountedInv'
  <2>1. Cardinality(Inserting') <= Cardinality(Inserting) /\ Cardinality(Inserting') \in Nat
    BY <1>1, InsertingFinite, FS_Subset, FS_CardinalityType
  <2>2. JobsHere \in Nat /\ JobsHere' \in Nat
    BY <1>0, <1>1 DEF JobsHere
  <2>3. QED
    BY <1>0, <1>1, <2>1, <2>2, InsertingFinite DEF MostWaiting
<1>2. ASSUME Inserting' \subseteq Inserting, UNCHANGED <<waiting, atWork>>,
             withdrawn' \subseteq Credentials
      PROVE  CountedInv'
  <2>1. JobsHere' = JobsHere /\ JobsHere \in Nat
    BY <1>0, <1>2 DEF JobsHere
  <2>2. QED
    BY <1>1, <1>2, <2>1
<1>3. CASE UNCHANGED callVars
  BY <1>2, <1>3 DEF callVars, Inserting
<1>4. ASSUME NEW by \in Withdrawable, Withdraw(by)
      PROVE  CountedInv'
  BY <1>2, <1>4, CallsAssumption DEF Withdraw, Inserting
<1>5. ASSUME NEW maker \in DOMAIN waiting, Begin(maker) \/ CancelWaiting(maker)
      PROVE  CountedInv'
  <2>1. maker \in {"mcp", "other"} /\ Inserting' = Inserting /\ UNCHANGED withdrawn
    BY <1>0, <1>5 DEF Begin, CancelWaiting, Inserting
  <2>2. /\ waiting' \in [mcp : Nat, other : Nat]
        /\ waiting'.mcp + waiting'.other = waiting.mcp + waiting.other - 1
    BY <1>0, <1>5, <2>1 DEF Begin, CancelWaiting
  <2>3. /\ atWork' \in {"none", "mcp", "other"}
        /\ atWork # "none" => atWork' # "none"
        /\ atWork' = atWork \/ (atWork = "none" /\ atWork' # "none")
    BY <1>5, <2>1 DEF Begin, CancelWaiting
  <2>4. JobsHere' <= JobsHere
    BY <1>0, <2>2, <2>3 DEF JobsHere
  <2>5. QED
    BY <1>1, <2>1, <2>2, <2>3, <2>4
<1>6. CASE End
  <2>1. UNCHANGED <<waiting, withdrawn>> /\ atWork' = "none" /\ Inserting' = Inserting
    BY <1>6 DEF End, Inserting
  <2>2. JobsHere' <= JobsHere
    BY <1>0, <2>1 DEF JobsHere
  <2>3. QED
    BY <1>1, <2>1, <2>2
\* The count: it takes one place more, below the limit.
<1>7. ASSUME NEW s \in Lanes, CountQueue(s)
      PROVE  CountedInv'
  <2>1. call[s].at = "submit" /\ UNCHANGED <<waiting, atWork, withdrawn>>
    BY <1>7 DEF CountQueue
  <2>2. CASE Reply(s, "failed")
    <3>1. Inserting' \subseteq Inserting
      BY <2>2 DEF Reply, Inserting, CallsInv
    <3>2. QED
      BY <1>2, <2>1, <3>1
  <2>3. CASE JobsHere < QueueLimit
    <3>1. Inserting' \in SUBSET Lanes
      BY DEF Inserting
    <3>2. Cardinality(Inserting') <= Cardinality(Lanes) /\ Cardinality(Inserting') \in Nat
      BY <3>1, FS_Subset, FS_CardinalityType, CallsAssumption
    <3>3. JobsHere' = JobsHere /\ JobsHere \in Nat
      BY <1>0, <2>1 DEF JobsHere
    <3>4. JobsHere' + Cardinality(Inserting') <= MostWaiting
      BY <1>0, <2>3, <3>2, <3>3, InsertingFinite DEF MostWaiting
    <3>5. QED
      BY <1>0, <2>1, <3>4
  <2>4. QED
    BY <1>7, <2>2, <2>3 DEF CountQueue, JobsHere
\* The job takes the place of the call that was counted.
<1>8. ASSUME NEW s \in Lanes, SubmitCall(s)
      PROVE  CountedInv'
  <2>1. call[s].at = "insert" /\ UNCHANGED <<atWork, withdrawn>>
    BY <1>8 DEF SubmitCall
  <2>2. PICK words \in {"ok", "failed"} : Reply(s, words)
    BY <1>8 DEF SubmitCall
  <2>3. Inserting' = Inserting \ {s}
    BY <2>2 DEF Reply, Inserting, CallsInv
  <2>4. CASE waiting' = waiting
    BY <1>2, <2>1, <2>3, <2>4
  <2>5. ASSUME NEW maker \in {"mcp", "other"}, waiting' = [waiting EXCEPT ![maker] = @ + 1]
        PROVE  CountedInv'
    <3>1. /\ waiting' \in [mcp : Nat, other : Nat]
          /\ waiting'.mcp + waiting'.other = waiting.mcp + waiting.other + 1
      BY <1>0, <2>5
    <3>2. s \in Inserting
      BY <2>1 DEF Inserting
    <3>5. Cardinality(Inserting') = Cardinality(Inserting) - 1
      BY <2>3, <3>2, InsertingFinite, FS_RemoveElement
    <3>3. JobsHere' = JobsHere + 1 /\ JobsHere \in Nat
      BY <1>0, <2>1, <3>1 DEF JobsHere
    <3>4. QED
      BY <1>0, <2>1, <3>1, <3>3, <3>5, InsertingFinite DEF MostWaiting
  <2>6. QED
    BY <1>8, <2>4, <2>5 DEF SubmitCall
\* Every other step of a call leaves the jobs, and counts nobody.
<1>9. ASSUME NEW s \in Lanes,
              \/ \E face \in Faces, by \in Credentials : Enter(s, face, by)
              \/ \E scopes \in Grantable : Authenticate(s, scopes)
              \/ TurnAway(s) \/ RefuseRequest(s) \/ CloseCall(s)
              \/ \E op \in DOMAIN NeededBy : Gate(s, op)
              \/ PlanGuard(s) \/ Route(s) \/ AnswerRead(s)
      PROVE  CountedInv'
  <2>1. UNCHANGED <<waiting, atWork, withdrawn>>
    BY <1>9 DEF Enter, Authenticate, TurnAway, RefuseRequest, CloseCall, Gate, PlanGuard, Route, AnswerRead
  <2>2. /\ \A r \in Lanes \ {s} : call'[r] = call[r]
        /\ call'[s].at \notin {"plan", "submit", "insert"}
    BY <1>9, ElsewhereStep
  <2>3. Inserting' \subseteq Inserting
    BY <2>2 DEF Inserting
  <2>4. QED
    BY <1>2, <2>1, <2>3
<1>10. ASSUME NEW s \in Lanes, OrgAccess(s) \/ LookForPending(s) \/ MeetPlan(s)
       PROVE  CountedInv'
  <2>1. UNCHANGED <<waiting, atWork, withdrawn>> /\ call \in [Lanes -> Calls]
    BY <1>10 DEF OrgAccess, LookForPending, MeetPlan, CallsInv
  <2>2. /\ \A r \in Lanes \ {s} : call'[r] = call[r]
        /\ call'[s].at # "insert"
    <3>1. CASE OrgAccess(s)
      <4>1. CASE DenyCall(s)
        BY <2>1, <4>1 DEF DenyCall, Calls
      <4>2. CASE Reply(s, "failed")
        BY <2>1, <4>2 DEF Reply, Calls
      <4>3. CASE call' = [call EXCEPT ![s].at = IF call[s].op = "start" THEN "submit" ELSE "inside",
                                      ![s].scopes = ScopesHere(s)]
        BY <2>1, <4>3 DEF Calls
      <4>4. QED
        BY <3>1, <4>1, <4>2, <4>3 DEF OrgAccess
    <3>2. CASE LookForPending(s)
      <4>1. CASE Advance(s, "plan")
        BY <2>1, <4>1 DEF Advance, Calls
      <4>2. ASSUME NEW words \in {"ok", "failed"}, Reply(s, words)
            PROVE  (\A r \in Lanes \ {s} : call'[r] = call[r]) /\ call'[s].at = "answered"
        BY <2>1, <4>2 DEF Reply, Calls
      <4>3. QED
        BY <3>2, <4>1, <4>2 DEF LookForPending
    <3>3. CASE MeetPlan(s)
      BY <2>1, <3>3 DEF MeetPlan, Advance, Calls
    <3>4. QED
      BY <1>10, <3>1, <3>2, <3>3
  <2>3. Inserting' \subseteq Inserting
    BY <2>2 DEF Inserting
  <2>4. QED
    BY <1>2, <2>1, <2>3
<1>11. QED
  BY <1>3, <1>4, <1>5, <1>6, <1>7, <1>8, <1>9, <1>10 DEF CallsNext

\* Every variable of the calls keeps its type: as many jobs wait as the limit
\* and the calls counted side by side allow (jobs.py:92-98).
THEOREM CallsTypesHold == CallsSpec => []CallsTypeOK
<1>1. CallsInit => CountedInv
  <2> SUFFICES ASSUME CallsInit
               PROVE  CountedInv
    OBVIOUS
  <2>1. Inserting = {}
    BY DEF CallsInit, Inserting, NoCall
  <2>2. JobsHere = 0
    BY DEF CallsInit, JobsHere
  <2>3. QED
    BY <2>1, <2>2, InsertingFinite, FS_EmptySet, CallsAssumption
       DEF CallsInit, CountedInv, MostWaiting
<1>2. CallsInv /\ CountedInv => CallsTypeOK
  <2> SUFFICES ASSUME CallsInv, CountedInv
               PROVE  CallsTypeOK
    OBVIOUS
  <2>1. waiting.mcp \in Nat /\ waiting.other \in Nat /\ MostWaiting \in Int
        /\ waiting.mcp <= MostWaiting /\ waiting.other <= MostWaiting
    BY InsertingFinite, CallsAssumption DEF CountedInv, JobsHere, MostWaiting
  <2>2. waiting \in [mcp : 0 .. MostWaiting, other : 0 .. MostWaiting]
    BY <2>1 DEF CountedInv
  <2>3. QED
    BY <2>2 DEF CallsInv, CountedInv, CallsTypeOK
<1>3. QED
  BY <1>1, <1>2, CountedStep, CallsInvariant, PTL DEF CallsSpec

\* A call is answered with what was asked only within the rights it came with,
\* whatever is withdrawn meanwhile (gateway.py, deps.py, tools.py).
THEOREM ServedWithinRightsHolds == CallsSpec => []ServedWithinRights
<1>1. CallsInv => ServedWithinRights
  BY DEF CallsInv, WithinRights, ServedWithinRights
<1>2. QED
  BY <1>1, CallsInvariant, PTL

-----------------------------------------------------------------------------
(* How many jobs the agents make.                                          *)

LEMMA LookedFinite ==
    /\ IsFiniteSet(Looked) /\ Cardinality(Looked) \in Nat
    /\ Cardinality(Looked) <= Cardinality(Lanes) /\ Cardinality(Lanes) \in Nat
BY FS_Subset, FS_CardinalityType, CallsAssumption DEF Looked

LEMMA LookStep == CallsInv /\ LookInv /\ [CallsNext]_callVars => LookInv'
<1> SUFFICES ASSUME CallsInv, LookInv, [CallsNext]_callVars
             PROVE  LookInv'
  OBVIOUS
<1> USE DEF LookInv
<1>0. waiting.mcp \in Nat /\ waiting.other \in Nat /\ DOMAIN waiting = {"mcp", "other"}
  OBVIOUS
\* Nobody new has looked, and no job of an agent is added.
<1>1. ASSUME Looked' \subseteq Looked, waiting' \in [mcp : Nat, other : Nat],
             atWork' \in {"none", "mcp", "other"}, JobsOfAgents' <= JobsOfAgents
      PROVE  LookInv'
  <2>1. Cardinality(Looked') <= Cardinality(Looked) /\ Cardinality(Looked') \in Nat
    BY <1>1, LookedFinite, FS_Subset, FS_CardinalityType
  <2>2. JobsOfAgents \in Nat /\ JobsOfAgents' \in Nat
    BY <1>0, <1>1 DEF JobsOfAgents
  <2>3. QED
    BY <1>1, <2>1, <2>2, LookedFinite
<1>2. ASSUME Looked' \subseteq Looked, UNCHANGED <<waiting, atWork>>
      PROVE  LookInv'
  <2>1. JobsOfAgents' = JobsOfAgents /\ JobsOfAgents \in Nat
    BY <1>0, <1>2 DEF JobsOfAgents
  <2>2. QED
    BY <1>1, <1>2, <2>1
<1>3. ASSUME NEW s \in Lanes, NEW k, call' = [call EXCEPT ![s] = k],
             k.at \notin {"plan", "submit", "insert"} \/ k.face = "rest"
      PROVE  Looked' \subseteq Looked
  BY <1>3 DEF Looked, CallsInv
<1>4. CASE UNCHANGED callVars
  BY <1>2, <1>4 DEF callVars, Looked
<1>5. ASSUME NEW by \in Withdrawable, Withdraw(by)
      PROVE  LookInv'
  BY <1>2, <1>5 DEF Withdraw, Looked
<1>6. ASSUME NEW maker \in DOMAIN waiting, Begin(maker)
      PROVE  LookInv'
  <2>1. /\ atWork = "none" /\ atWork' = maker /\ waiting[maker] > 0
        /\ waiting' = [waiting EXCEPT ![maker] = @ - 1] /\ call' = call
    BY <1>6 DEF Begin
  <2>2. Looked' = Looked
    BY <2>1 DEF Looked
  <2>3. waiting' \in [mcp : Nat, other : Nat]
    BY <1>0, <2>1
  <2>4. CASE maker = "mcp"
    BY <1>0, <1>1, <2>1, <2>2, <2>3, <2>4 DEF JobsOfAgents
  <2>5. CASE maker = "other"
    BY <1>0, <1>1, <2>1, <2>2, <2>3, <2>5 DEF JobsOfAgents
  <2>6. QED
    BY <1>0, <2>4, <2>5
<1>7. ASSUME NEW maker \in DOMAIN waiting, CancelWaiting(maker)
      PROVE  LookInv'
  <2>1. /\ waiting[maker] > 0 /\ atWork' = atWork
        /\ waiting' = [waiting EXCEPT ![maker] = @ - 1] /\ call' = call
    BY <1>7 DEF CancelWaiting
  <2>2. Looked' = Looked
    BY <2>1 DEF Looked
  <2>3. waiting' \in [mcp : Nat, other : Nat] /\ waiting'.mcp <= waiting.mcp
    BY <1>0, <2>1
  <2>4. QED
    BY <1>0, <1>1, <2>1, <2>2, <2>3 DEF JobsOfAgents
<1>8. CASE End
  <2>1. Looked' = Looked /\ atWork' = "none" /\ waiting' = waiting
    BY <1>8 DEF End, Looked
  <2>2. QED
    BY <1>0, <1>1, <2>1 DEF JobsOfAgents
\* The look: there is no job, so only those who have looked count.
<1>9. ASSUME NEW s \in Lanes, LookForPending(s)
      PROVE  LookInv'
  <2>1. UNCHANGED <<waiting, atWork>>
    BY <1>9 DEF LookForPending
  <2>2. CASE \E words : Reply(s, words)
    <3>1. Looked' \subseteq Looked
      BY <2>2 DEF Reply, Looked, CallsInv
    <3>2. QED
      BY <1>2, <2>1, <3>1
  <2>3. CASE ~Awaited
    <3>1. JobsOfAgents' = 0
      BY <1>0, <2>1, <2>3 DEF Awaited, JobsOfAgents
    <3>2. Looked' \in SUBSET Lanes
      BY DEF Looked
    <3>3. Cardinality(Looked') <= Cardinality(Lanes) /\ Cardinality(Looked') \in Nat
      BY <3>2, FS_Subset, FS_CardinalityType, CallsAssumption
    <3>4. QED
      BY <2>1, <3>1, <3>3, LookedFinite
  <2>4. QED
    BY <1>9, <2>2, <2>3 DEF LookForPending
\* A job takes the place of the call that makes it.
<1>10. ASSUME NEW s \in Lanes, SubmitCall(s)
       PROVE  LookInv'
  <2>1. call[s].at = "insert" /\ call[s].face \in Faces /\ UNCHANGED <<atWork, withdrawn>>
    BY <1>10 DEF SubmitCall, CallsInv, Calls
  <2>2. PICK words \in {"ok", "failed"} : Reply(s, words)
    BY <1>10 DEF SubmitCall
  <2>3. Looked' = Looked \ {s}
    BY <2>2 DEF Reply, Looked, CallsInv
  <2>4. CASE waiting' = waiting
    BY <1>2, <2>1, <2>3, <2>4
  <2>5. CASE call[s].face = "rest" /\ waiting' = [waiting EXCEPT !["other"] = @ + 1]
    <3>1. waiting' \in [mcp : Nat, other : Nat] /\ waiting'.mcp = waiting.mcp
      BY <1>0, <2>5
    <3>2. QED
      BY <1>0, <1>1, <2>1, <2>3, <3>1 DEF JobsOfAgents
  <2>6. CASE call[s].face = "mcp" /\ waiting' = [waiting EXCEPT !["mcp"] = @ + 1]
    <3>1. waiting' \in [mcp : Nat, other : Nat] /\ waiting'.mcp = waiting.mcp + 1
      BY <1>0, <2>6
    <3>2. s \in Looked
      BY <2>1, <2>6 DEF Looked
    <3>3. Cardinality(Looked') = Cardinality(Looked) - 1
      BY <2>3, <3>2, LookedFinite, FS_RemoveElement
    <3>4. JobsOfAgents' = JobsOfAgents + 1 /\ JobsOfAgents \in Nat
      BY <1>0, <2>1, <3>1 DEF JobsOfAgents
    <3>5. QED
      BY <2>1, <3>1, <3>3, <3>4, LookedFinite
  <2>7. QED
    BY <1>10, <2>1, <2>4, <2>5, <2>6 DEF SubmitCall, Faces
\* Nobody else looks or makes a job of an agent.
<1>11. ASSUME NEW s \in Lanes,
              \/ \E face \in Faces, by \in Credentials : Enter(s, face, by)
              \/ \E scopes \in Grantable : Authenticate(s, scopes)
              \/ TurnAway(s) \/ RefuseRequest(s) \/ CloseCall(s)
              \/ \E op \in DOMAIN NeededBy : Gate(s, op)
              \/ PlanGuard(s) \/ Route(s) \/ AnswerRead(s)
       PROVE  LookInv'
  <2>1. UNCHANGED <<waiting, atWork>>
    BY <1>11 DEF Enter, Authenticate, TurnAway, RefuseRequest, CloseCall, Gate, PlanGuard, Route, AnswerRead
  <2>2. /\ \A r \in Lanes \ {s} : call'[r] = call[r]
        /\ call'[s].at \notin {"plan", "submit", "insert"}
    BY <1>11, ElsewhereStep
  <2>3. Looked' \subseteq Looked
    BY <2>2 DEF Looked
  <2>4. QED
    BY <1>2, <2>1, <2>3
<1>12. ASSUME NEW s \in Lanes, MeetPlan(s)
       PROVE  LookInv'
  <2>1. call[s].at = "plan" /\ UNCHANGED <<waiting, atWork>>
    BY <1>12 DEF MeetPlan
  <2>2. \A r \in Lanes \ {s} : call'[r] = call[r]
    BY <1>12 DEF MeetPlan, Advance, CallsInv
  <2>3. call'[s].face = call[s].face
    BY <1>12 DEF MeetPlan, Advance, CallsInv, Calls
  <2>4. Looked' \subseteq Looked
    BY <2>1, <2>2, <2>3 DEF Looked
  <2>5. QED
    BY <1>2, <2>1, <2>4
<1>13. ASSUME NEW s \in Lanes, OrgAccess(s)
       PROVE  LookInv'
  <2>1. call[s].face = "rest" /\ UNCHANGED <<waiting, atWork>>
    BY <1>13 DEF OrgAccess, CallsInv, WithinRights
  <2>2. \A r \in Lanes \ {s} : call'[r] = call[r]
    BY <1>13 DEF OrgAccess, Reply, DenyCall, CallsInv
  <2>3. call'[s].face = call[s].face
    <3>1. call \in [Lanes -> Calls]
      BY DEF CallsInv
    <3>2. CASE DenyCall(s)
      BY <3>1, <3>2 DEF DenyCall, Calls
    <3>3. CASE Reply(s, "failed")
      BY <3>1, <3>3 DEF Reply, Calls
    <3>4. CASE call' = [call EXCEPT ![s].at = IF call[s].op = "start" THEN "submit" ELSE "inside",
                                    ![s].scopes = ScopesHere(s)]
      BY <3>1, <3>4 DEF Calls
    <3>5. QED
      BY <1>13, <3>2, <3>3, <3>4 DEF OrgAccess
  <2>4. Looked' \subseteq Looked
    BY <2>1, <2>2, <2>3 DEF Looked
  <2>5. QED
    BY <1>2, <2>1, <2>4
\* The count moves a call on, or answers it.
<1>14. ASSUME NEW s \in Lanes, CountQueue(s)
       PROVE  LookInv'
  <2>1. call[s].at = "submit" /\ UNCHANGED <<waiting, atWork>>
    BY <1>14 DEF CountQueue
  <2>2. \A r \in Lanes \ {s} : call'[r] = call[r]
    BY <1>14 DEF CountQueue, Advance, Reply, CallsInv
  <2>3. call'[s].face = call[s].face
    BY <1>14 DEF CountQueue, Advance, Reply, CallsInv, Calls
  <2>4. Looked' \subseteq Looked
    BY <2>1, <2>2, <2>3 DEF Looked
  <2>5. QED
    BY <1>2, <2>1, <2>4
<1>15. QED
  BY <1>4, <1>5, <1>6, <1>7, <1>8, <1>9, <1>10, <1>11, <1>12, <1>13, <1>14 DEF CallsNext

\* The invariant of the jobs that agents make.
LEMMA LookInvariant == CallsSpec => []LookInv
<1>1. CallsInit => LookInv
  <2> SUFFICES ASSUME CallsInit
               PROVE  LookInv
    OBVIOUS
  <2>1. waiting \in [mcp : Nat, other : Nat] /\ atWork = "none" /\ JobsOfAgents = 0
    BY DEF CallsInit, JobsOfAgents
  <2>2. QED
    BY <2>1, LookedFinite DEF LookInv
<1>2. QED
  BY <1>1, CallsInvariant, LookStep, PTL DEF CallsSpec

\* As many agents as call at once, as many jobs for one upload, and not one more
\* (tools.py, start_run and _pending_job).
THEOREM OneJobPerLookHolds == CallsSpec => []OneJobPerLook
<1>1. LookInv => OneJobPerLook
  BY LookedFinite DEF LookInv, OneJobPerLook, JobsOfAgents
<1>2. QED
  BY <1>1, LookInvariant, PTL

HIDE DEF Status, Terminal, Outcomes, Steps

-----------------------------------------------------------------------------
(* Uploads.  Sizes are added by counting their units.                       *)

Sizes == [Posts -> Nat]

LEMMA UnitsAre ==
    ASSUME NEW f \in Sizes, NEW S \in SUBSET Posts
    PROVE  /\ \A x : x \in Units(f, S) <=> \E u \in S : \E n \in 1 .. f[u] : x = <<u, n>>
           /\ \A u \in Posts : \A n : <<u, n>> \in Units(f, S) <=> u \in S /\ n \in 1 .. f[u]
           /\ Units(f, S) \subseteq S \X Nat
BY DEF Units, Sizes

LEMMA UnitsFinite ==
    ASSUME NEW f \in Sizes, NEW S \in SUBSET Posts
    PROVE  IsFiniteSet(Units(f, S)) /\ Total(f, S) \in Nat
<1> DEFINE Of == [u \in S |-> {u} \X (1 .. f[u])]
           Parts == {{u} \X (1 .. f[u]) : u \in S}
<1>1. IsFiniteSet(S)
  BY IntakeAssumption, FS_Subset
<1>2. Of \in Surjection(S, Parts)
  BY DEF Surjection
<1>3. IsFiniteSet(Parts)
  BY <1>1, <1>2, FS_Surjection
<1>4. ASSUME NEW u \in S PROVE IsFiniteSet({u} \X (1 .. f[u]))
  <2>1. IsFiniteSet({u})
    BY FS_Singleton
  <2>2. IsFiniteSet(1 .. f[u])
    BY FS_Interval DEF Sizes
  <2>3. QED
    BY <2>1, <2>2, FS_Product
<1>5. IsFiniteSet(UNION Parts)
  BY <1>3, <1>4, FS_UNION
<1>6. QED
  BY <1>5, FS_CardinalityType DEF Units, Total

LEMMA TotalGrows ==
    ASSUME NEW f \in Sizes, NEW g \in Sizes, NEW S \in SUBSET Posts, NEW T \in SUBSET S,
           \A u \in T : f[u] <= g[u]
    PROVE  Total(f, T) <= Total(g, S)
<1>1. Units(f, T) \subseteq Units(g, S)
  BY DEF Units, Sizes
<1>2. QED
  BY <1>1, UnitsFinite, FS_Subset DEF Total

LEMMA TotalOfOne ==
    ASSUME NEW f \in Sizes, NEW S \in SUBSET Posts, NEW u \in Posts \ S
    PROVE  Total(f, S \cup {u}) = Total(f, S) + f[u]
<1> DEFINE A == Units(f, S)
           B == {u} \X (1 .. f[u])
<1>1. Units(f, S \cup {u}) = A \cup B /\ A \cap B = {}
  BY UnitsAre DEF Units
<1>2. IsFiniteSet(A) /\ Cardinality(A) \in Nat
  BY UnitsFinite, FS_CardinalityType
<1>3. IsFiniteSet(B) /\ Cardinality(B) = f[u]
  <2>1. IsFiniteSet({u}) /\ Cardinality({u}) = 1
    BY FS_Singleton
  <2>2. f[u] \in Nat /\ IsFiniteSet(1 .. f[u]) /\ Cardinality(1 .. f[u]) = f[u]
    BY FS_Interval DEF Sizes
  <2>3. IsFiniteSet(B) /\ Cardinality(B) = Cardinality({u}) * Cardinality(1 .. f[u])
    BY <2>1, <2>2, FS_Product
  <2>4. QED
    BY <2>1, <2>2, <2>3
<1>4. Cardinality(A \cup B) = Cardinality(A) + Cardinality(B)
  <2>1. Cardinality(A \cup B) = Cardinality(A) + Cardinality(B) - Cardinality(A \cap B)
    BY <1>2, <1>3, FS_Union
  <2>2. Cardinality(A \cap B) = 0
    BY <1>1, FS_EmptySet
  <2>3. QED
    BY <1>2, <1>3, <2>1, <2>2 DEF Sizes
<1>5. QED
  BY <1>1, <1>3, <1>4 DEF Total

LEMMA TotalOfSums ==
    ASSUME NEW f \in Sizes, NEW g \in Sizes, NEW h \in Sizes, \A u \in Posts : f[u] <= g[u] + h[u]
    PROVE  Total(f, Posts) <= Total(g, Posts) + Total(h, Posts)
<1> DEFINE G == Units(g, Posts)
           H == Units(h, Posts)
           F == Units(f, Posts)
           Up == [x \in H |-> <<x[1], x[2] + g[x[1]]>>]
           Rest == {Up[x] : x \in H}
<1>1. /\ IsFiniteSet(G) /\ IsFiniteSet(H) /\ IsFiniteSet(F)
      /\ Cardinality(G) \in Nat /\ Cardinality(H) \in Nat /\ Cardinality(F) \in Nat
  BY UnitsFinite, FS_CardinalityType
<1>2. Up \in Surjection(H, Rest)
  BY DEF Surjection
<1>3. IsFiniteSet(Rest) /\ Cardinality(Rest) <= Cardinality(H)
  BY <1>1, <1>2, FS_Surjection
<1>4. F \subseteq G \cup Rest
  <2> SUFFICES ASSUME NEW u \in Posts, NEW n \in 1 .. f[u], <<u, n>> \notin G
               PROVE  <<u, n>> \in Rest
    BY UnitsAre
  <2>1. g[u] \in Nat /\ h[u] \in Nat /\ f[u] \in Nat /\ f[u] <= g[u] + h[u] /\ ~ (n \in 1 .. g[u])
    BY UnitsAre DEF Sizes
  <2>2. n - g[u] \in 1 .. h[u] /\ n - g[u] + g[u] = n
    BY <2>1
  <2>3. <<u, n - g[u]>> \in H
    BY <2>2, UnitsAre
  <2>4. Up[<<u, n - g[u]>>] = <<u, n>>
    BY <2>2, <2>3
  <2>5. QED
    BY <2>3, <2>4
<1>5. /\ IsFiniteSet(G \cup Rest)
      /\ Cardinality(G \cup Rest) = Cardinality(G) + Cardinality(Rest) - Cardinality(G \cap Rest)
  BY <1>1, <1>3, FS_Union
<1>6. Cardinality(G \cap Rest) \in Nat /\ Cardinality(Rest) \in Nat
  BY <1>1, <1>3, FS_Intersection, FS_CardinalityType
<1>7. Cardinality(F) <= Cardinality(G \cup Rest)
  BY <1>4, <1>5, FS_Subset
<1>8. QED
  BY <1>1, <1>3, <1>5, <1>6, <1>7 DEF Total

LEMMA TotalOfEqual ==
    ASSUME NEW R \in SUBSET Posts, NEW k \in Nat
    PROVE  Total([u \in Posts |-> IF u \in R THEN k ELSE 0], Posts) = Cardinality(R) * k
<1> DEFINE f == [u \in Posts |-> IF u \in R THEN k ELSE 0]
<1>1. Units(f, Posts) = R \X (1 .. k)
  <2>1. f \in Sizes
    BY DEF Sizes
  <2>2. \A u \in Posts : 1 .. f[u] = IF u \in R THEN 1 .. k ELSE {}
    OBVIOUS
  <2>3. QED
    BY <2>1, <2>2, UnitsAre
<1>2. IsFiniteSet(R)
  BY IntakeAssumption, FS_Subset
<1>3. IsFiniteSet(1 .. k) /\ Cardinality(1 .. k) = k
  BY FS_Interval
<1>4. QED
  BY <1>1, <1>2, <1>3, FS_Product DEF Total

\* Where a request stands says what it has on the disk.
IntakeTypes ==
    /\ post \in [Posts -> Moving \cup {"new", "answered", "refused", "cut"}]
    /\ body \in [Posts -> PostedFiles]
    /\ room \in Sizes /\ tmp \in Sizes /\ final \in Sizes
    /\ listed \subseteq Posts /\ reader \subseteq Posts /\ aged \subseteq Posts
    /\ charged \in Nat /\ crashes \in Nat

Stored == {"moved", "mapped", "committed"}
Converting == {"received", "converted"}

Limit(u) == IF room[u] < MaxBytes THEN room[u] ELSE MaxBytes

FileSoFar(u) ==
    /\ post[u] = "new" => tmp[u] = 0
    /\ post[u] \in {"new", "receiving", "swept", "refused"} \cup Converting => final[u] = 0
    /\ post[u] \in Stored \cup {"answered"} => final[u] = body[u].out /\ tmp[u] = 0
    /\ post[u] = "receiving" => tmp[u] <= body[u].bytes /\ tmp[u] <= Limit(u)
    /\ post[u] = "swept" => tmp[u] = 0
    /\ post[u] \in Converting => tmp[u] \in {0, body[u].bytes} /\ body[u].bytes <= Limit(u)
    /\ u \in reader => post[u] \notin {"new", "receiving", "swept"}
    /\ u \in listed => post[u] \in {"committed", "answered", "refused", "cut"}
    /\ u \in listed /\ post[u] = "cut" => final[u] = body[u].out

\* What a request that receives may still take counts as taken, and what one
\* writes back whose temporary file was swept.
Taken == [u \in Posts |-> IF post[u] = "receiving" THEN Limit(u)
                          ELSE IF post[u] \in Converting THEN Sent[u] ELSE Held[u]]

IntakeInv ==
    /\ IntakeTypes /\ \A u \in Posts : FileSoFar(u)
    /\ charged = Total(Sent, listed)
    /\ Total(Taken, Posts) <= Quota + (MaxSide - 1) * MaxBytes
    /\ ReadAsChecked

LEMMA IntakeConstants ==
    /\ MaxBytes \in Nat /\ MaxCrashes \in Nat /\ Quota \in Nat \ {0} /\ MaxSide \in Nat \ {0}
    /\ \A f \in PostedFiles : f.bytes \in Nat \ {0} /\ f.out \in Nat \ {0}
    /\ (MaxSide - 1) * MaxBytes \in Nat
<1>1. /\ MaxBytes \in Nat /\ MaxCrashes \in Nat /\ Quota \in Nat \ {0} /\ MaxSide \in Nat \ {0}
      /\ \A f \in PostedFiles : f.bytes \in Nat \ {0} /\ f.out \in Nat \ {0}
  BY IntakeAssumption
<1>2. \A m \in Nat, n \in Nat : m * n \in Nat
  OBVIOUS
<1>3. QED
  BY <1>1, <1>2

LEMMA SizesHere ==
    ASSUME IntakeTypes
    PROVE  Sent \in Sizes /\ Held \in Sizes /\ Taken \in Sizes
BY IntakeConstants DEF IntakeTypes, Sent, Held, Taken, Limit, Sizes

LEMMA IntakeInitInv == IntakeInit => IntakeInv
<1> SUFFICES ASSUME IntakeInit
             PROVE  IntakeInv
  OBVIOUS
<1>1. IntakeTypes
  BY IntakeAssumption DEF IntakeInit, IntakeTypes, Sizes
<1>2. \A u \in Posts : FileSoFar(u)
  BY DEF IntakeInit, FileSoFar, Stored, Converting, Moving
<1>3. Total(Sent, listed) = 0
  BY FS_EmptySet DEF IntakeInit, Total, Units
<1>4. Total(Taken, Posts) = 0
  <2>1. \A u \in Posts : Taken[u] = 0
    BY <1>1, IntakeConstants DEF IntakeInit, IntakeTypes, Taken, Held, Sent, Converting
  <2>2. Units(Taken, Posts) = {}
    BY <2>1 DEF Units
  <2>3. QED
    BY <2>2, FS_EmptySet DEF Total
<1>5. ReadAsChecked
  BY DEF IntakeInit, ReadAsChecked
<1>6. QED
  BY <1>1, <1>2, <1>3, <1>4, <1>5, IntakeConstants DEF IntakeInit, IntakeInv

LEMMA SizesThen ==
    ASSUME IntakeTypes'
    PROVE  Sent' \in Sizes /\ Held' \in Sizes /\ Taken' \in Sizes
BY IntakeConstants DEF IntakeTypes, Sent, Held, Taken, Limit, Sizes

\* Without a cut sample there is one order of encodings.
LEMMA OneEncoding == ReadAsChecked /\ ReadAsChecked'
BY DEF ReadAsChecked, ReadAs, CheckedAs, FirstOf

\* What nobody takes more of stays within the quota.
LEMMA WithinQuota ==
    ASSUME IntakeInv, IntakeTypes', \A u \in Posts : Taken'[u] <= Taken[u]
    PROVE  Total(Taken', Posts) <= Quota + (MaxSide - 1) * MaxBytes
<1>1. Taken \in Sizes /\ Taken' \in Sizes
  BY SizesHere, SizesThen DEF IntakeInv
<1>2. Total(Taken', Posts) <= Total(Taken, Posts)
  BY <1>1, TotalGrows
<1>3. Total(Taken', Posts) \in Nat /\ Total(Taken, Posts) \in Nat
  BY <1>1, UnitsFinite
<1>4. QED
  BY <1>2, <1>3, IntakeConstants DEF IntakeInv

\* A step of one request, once it has arrived.
LEMMA OnePost ==
    ASSUME IntakeInv, NEW u \in Posts, NEW to \in Moving \cup {"answered", "refused", "cut"},
           NEW left \in Nat, NEW kept \in Nat,
           post' = [post EXCEPT ![u] = to], tmp' = [tmp EXCEPT ![u] = left],
           final' = [final EXCEPT ![u] = kept],
           UNCHANGED <<body, room, crashes>>, aged' \subseteq aged,
           reader' \subseteq reader \cup {u}, listed' \subseteq Posts, charged' = Total(Sent, listed'),
           listed' \subseteq listed \cup {u},
           FileSoFar(u)', Taken'[u] <= Taken[u]
    PROVE  IntakeInv'
<1>1. IntakeTypes /\ Sent' = Sent /\ Sent \in Sizes
  BY SizesHere DEF IntakeInv, Sent
<1>2. charged' \in Nat
  BY <1>1, UnitsFinite
<1>3. IntakeTypes'
  BY <1>1, <1>2 DEF IntakeTypes, Sizes
<1>4. \A v \in Posts \ {u} : /\ post'[v] = post[v] /\ tmp'[v] = tmp[v] /\ final'[v] = final[v]
                             /\ v \in reader' => v \in reader
                             /\ v \in listed' => v \in listed
  BY <1>1 DEF IntakeTypes, Sizes
<1>5. \A v \in Posts : FileSoFar(v)'
  <2>1. \A v \in Posts \ {u} : FileSoFar(v)'
    BY <1>4 DEF IntakeInv, FileSoFar, Limit
  <2>2. QED
    BY <2>1
<1>6. \A v \in Posts \ {u} : Taken'[v] = Taken[v]
  BY <1>1, <1>4 DEF Taken, Held, Limit
<1>7. \A v \in Posts : Taken'[v] <= Taken[v]
  <2>1. Taken \in Sizes
    BY <1>1, SizesHere
  <2>2. QED
    BY <1>6, <2>1 DEF Sizes
<1>8. QED
  BY <1>1, <1>3, <1>5, <1>7, WithinQuota, OneEncoding DEF IntakeInv

\* What counts for one request.
LEMMA CountsFor ==
    ASSUME NEW u \in Posts
    PROVE  /\ Taken[u] = IF post[u] = "receiving" THEN Limit(u)
                         ELSE IF post[u] \in Converting THEN body[u].bytes ELSE Held[u]
           /\ Held[u] = IF final[u] + tmp[u] < body[u].bytes THEN final[u] + tmp[u] ELSE body[u].bytes
           /\ Taken'[u] = IF post'[u] = "receiving" THEN Limit(u)'
                          ELSE IF post'[u] \in Converting THEN body'[u].bytes ELSE Held'[u]
           /\ Held'[u] = IF final'[u] + tmp'[u] < body'[u].bytes
                         THEN final'[u] + tmp'[u] ELSE body'[u].bytes
BY DEF Taken, Held, Sent

\* What is known of a request before its step.
LEMMA PostFacts ==
    ASSUME IntakeInv, NEW u \in Posts
    PROVE  /\ IntakeTypes /\ FileSoFar(u) /\ charged = Total(Sent, listed)
           /\ body[u].bytes \in Nat \ {0} /\ body[u].out \in Nat \ {0}
           /\ tmp[u] \in Nat /\ final[u] \in Nat /\ room[u] \in Nat /\ Limit(u) \in Nat
           /\ Limit(u) <= room[u] /\ Limit(u) <= MaxBytes
           /\ post[u] \in Moving \cup {"new", "answered", "refused", "cut"}
BY IntakeConstants DEF IntakeInv, IntakeTypes, Sizes, Limit

LEMMA ReceiveStep == ASSUME IntakeInv, NEW u \in Posts, Receive(u) PROVE IntakeInv'
<1>1. /\ IntakeTypes /\ FileSoFar(u) /\ charged = Total(Sent, listed) /\ tmp[u] \in Nat
      /\ room[u] \in Nat /\ post[u] = "receiving" /\ body[u].bytes \in Nat
      /\ tmp[u] < body[u].bytes /\ tmp[u] + 1 <= room[u] /\ tmp[u] < MaxBytes
  BY PostFacts DEF Receive, Fits
<1>2. /\ post' = [post EXCEPT ![u] = "receiving"] /\ tmp' = [tmp EXCEPT ![u] = tmp[u] + 1]
      /\ final' = [final EXCEPT ![u] = final[u]] /\ final[u] \in Nat
      /\ UNCHANGED <<body, room, crashes, reader, listed, charged>> /\ aged' \subseteq aged
  BY <1>1, PostFacts DEF Receive, IntakeTypes, Sizes
<1>3. FileSoFar(u)'
  BY <1>1, <1>2, IntakeConstants DEF FileSoFar, Limit, IntakeTypes, Sizes, Stored, Converting
<1>4. Taken'[u] <= Taken[u]
  BY <1>1, <1>2, PostFacts, CountsFor DEF Limit, IntakeTypes, Sizes
<1>5. listed' \subseteq Posts /\ charged' = Total(Sent, listed')
  BY <1>1, <1>2 DEF IntakeTypes
<1>6. tmp[u] + 1 \in Nat /\ "receiving" \in Moving
  BY <1>1 DEF Moving
<1>7. QED
  BY <1>2, <1>3, <1>4, <1>5, <1>6, OnePost

\* Every way out with an error.
LEMMA RefuseStep ==
    ASSUME IntakeInv, NEW u \in Posts, post[u] \in Moving, Refuse(u),
           reader' \subseteq reader \cup {u},
           u \in reader' => u \in reader \/ post[u] \in {"received", "converted"}
    PROVE  IntakeInv'
<1>1. /\ IntakeTypes /\ FileSoFar(u) /\ charged = Total(Sent, listed) /\ tmp[u] \in Nat
      /\ body[u].bytes \in Nat \ {0} /\ body[u].out \in Nat \ {0} /\ final[u] \in Nat /\ Limit(u) \in Nat
  BY PostFacts
<1>2. PICK left \in {0} \cup (IF u \in reader' THEN {tmp[u], body[u].out} ELSE {}) :
         tmp' = [tmp EXCEPT ![u] = left] /\ aged' \subseteq aged
  BY DEF Refuse
<1>3. /\ post' = [post EXCEPT ![u] = "refused"] /\ final' = [final EXCEPT ![u] = 0]
      /\ UNCHANGED <<body, room, crashes, listed, charged>>
      /\ left \in Nat
  BY <1>1, <1>2 DEF Refuse, Discard
<1>4. post'[u] = "refused" /\ final'[u] = 0 /\ tmp'[u] = left /\ body' = body
  BY <1>1, <1>2, <1>3 DEF IntakeTypes, Sizes
<1>5. FileSoFar(u)'
  BY <1>1, <1>3, <1>4 DEF FileSoFar, Stored, Converting, Moving, Sizes
<1>6. Taken'[u] <= Taken[u]
  <2>1. Taken'[u] = IF left < body[u].bytes THEN left ELSE body[u].bytes
    BY <1>1, <1>3, <1>4, CountsFor DEF Converting
  <2>2. CASE post[u] \in {"receiving", "swept"}
    <3>1. u \notin reader'
      BY <1>1, <2>2 DEF FileSoFar
    <3>2. left = 0 /\ Taken[u] \in Nat
      BY <1>1, <1>2, <2>2, <3>1, CountsFor
    <3>3. QED
      BY <1>1, <2>1, <3>2
  <2>3. CASE post[u] \in {"received", "converted"}
    <3>1. Taken[u] = body[u].bytes
      BY <1>1, <2>3, CountsFor DEF Converting
    <3>2. QED
      BY <1>1, <1>3, <2>1, <3>1
  <2>4. CASE post[u] \in Stored
    <3>1. left \in {0, body[u].out} /\ final[u] = body[u].out /\ tmp[u] = 0
      BY <1>1, <1>2, <2>4 DEF FileSoFar
    <3>2. Taken[u] = IF body[u].out < body[u].bytes THEN body[u].out ELSE body[u].bytes
      BY <1>1, <2>4, <3>1, CountsFor DEF Stored, Converting
    <3>3. QED
      BY <1>1, <2>1, <3>1, <3>2
  <2>5. QED
    BY <2>2, <2>3, <2>4 DEF Moving, Stored
<1>7. listed' \subseteq Posts /\ charged' = Total(Sent, listed')
  BY <1>1, <1>3 DEF IntakeTypes
<1>8. QED
  BY <1>2, <1>3, <1>5, <1>6, <1>7, OnePost DEF Moving

\* The checks, the rename: the file stands under its final name.
LEMMA MoveFileStep ==
    ASSUME IntakeInv, NEW u \in Posts, CheckAndMove(u),
           \/ post[u] = "receiving" /\ tmp[u] = body[u].bytes /\ UNCHANGED reader
           \/ post[u] = "converted" /\ reader' \in {reader, reader \cup {u}}
    PROVE  IntakeInv'
<1> USE DEF Moving, Stored, Converting
<1>1. CASE Refuse(u)
  <2>1. /\ post[u] \in Moving /\ reader' \subseteq reader \cup {u}
        /\ u \in reader' => u \in reader \/ post[u] \in {"received", "converted"}
    OBVIOUS
  <2>2. QED
    BY <1>1, <2>1, RefuseStep
<1>2. CASE ~ Refuse(u)
  <2>1. /\ IntakeTypes /\ FileSoFar(u) /\ charged = Total(Sent, listed) /\ tmp[u] \in Nat
        /\ body[u].bytes \in Nat \ {0} /\ body[u].out \in Nat \ {0} /\ final[u] \in Nat /\ Limit(u) \in Nat
    BY PostFacts
  <2>2. PICK to \in {"answered", "moved"} : post' = [post EXCEPT ![u] = to]
    BY <1>2 DEF CheckAndMove, AfterMove
  <2>3. /\ tmp' = [tmp EXCEPT ![u] = 0] /\ final' = [final EXCEPT ![u] = body[u].out]
        /\ UNCHANGED <<body, room, listed, charged, crashes>> /\ aged' \subseteq aged
    BY <1>2 DEF CheckAndMove
  <2>4. post'[u] = to /\ final'[u] = body[u].out /\ tmp'[u] = 0 /\ body' = body
    BY <2>1, <2>2, <2>3 DEF IntakeTypes, Sizes
  <2>5. u \notin listed
    BY <2>1 DEF FileSoFar
  <2>6. FileSoFar(u)'
    BY <2>1, <2>2, <2>3, <2>4, <2>5 DEF FileSoFar
  <2>7. Taken'[u] <= Taken[u]
    <3>1. Taken'[u] = IF body[u].out < body[u].bytes THEN body[u].out ELSE body[u].bytes
      BY <2>1, <2>2, <2>4, CountsFor
    <3>2. body[u].bytes <= Taken[u] /\ Taken[u] \in Nat
      BY <2>1, CountsFor DEF FileSoFar
    <3>3. QED
      BY <2>1, <3>1, <3>2
  <2>8. listed' \subseteq Posts /\ charged' = Total(Sent, listed') /\ reader' \subseteq reader \cup {u}
    BY <2>1, <2>3 DEF IntakeTypes
  <2>9. QED
    BY <2>1, <2>2, <2>3, <2>5, <2>6, <2>7, <2>8, OnePost
<1>3. QED
  BY <1>1, <1>2

\* Where only the place of a request changes.
LEMMA PlaceStep ==
    ASSUME IntakeInv, NEW u \in Posts, post[u] \in Moving, NEW to \in Moving \cup {"answered"},
           to # "receiving",
           post' = [post EXCEPT ![u] = to], UNCHANGED <<body, room, crashes, diskVars>>,
           listed' \in {listed, listed \cup {u}}, charged' = Total(Sent, listed'),
           FileSoFar(u)', post[u] = "receiving" => tmp[u] = body[u].bytes,
           to \in Converting => post[u] \in {"receiving"} \cup Converting
    PROVE  IntakeInv'
<1>1. /\ IntakeTypes /\ FileSoFar(u) /\ tmp[u] \in Nat /\ final[u] \in Nat
      /\ body[u].bytes \in Nat \ {0} /\ Limit(u) \in Nat
  BY PostFacts
<1>2. /\ tmp' = [tmp EXCEPT ![u] = tmp[u]] /\ final' = [final EXCEPT ![u] = final[u]]
      /\ UNCHANGED <<tmp, final, reader, aged>> /\ post'[u] = to
  BY <1>1 DEF diskVars, IntakeTypes, Sizes
<1>3. Taken'[u] <= Taken[u]
  BY <1>1, <1>2, CountsFor DEF FileSoFar, Converting
<1>4. listed' \subseteq Posts
  BY <1>1 DEF IntakeTypes
<1>5. QED
  BY <1>1, <1>2, <1>3, <1>4, OnePost

\* The end of the stream, the conversion in a thread, the mapper, the commit
\* and the answer.
LEMMA StoringStep ==
    ASSUME IntakeInv, NEW u \in Posts,
           \/ Received(u) \/ Convert(u) \/ ScanFormulas(u) \/ MapColumns(u) \/ CommitUpload(u)
           \/ StoringFails(u) \/ AnswerPost(u) \/ NameRefused(u) \/ TooMuch(u)
           \/ SweptRefused(u)
    PROVE  IntakeInv'
<1> USE DEF Moving, Stored, Converting
<1>1. /\ IntakeTypes /\ FileSoFar(u) /\ charged = Total(Sent, listed)
      /\ tmp[u] \in Nat /\ body[u].bytes \in Nat \ {0} /\ body[u].out \in Nat \ {0}
  BY PostFacts
<1>2. \A to : post' = [post EXCEPT ![u] = to] => post'[u] = to
  BY <1>1 DEF IntakeTypes
<1>3. CASE NameRefused(u) \/ TooMuch(u) \/ SweptRefused(u) \/ StoringFails(u)
  BY <1>3, RefuseStep DEF NameRefused, TooMuch, SweptRefused, StoringFails
<1>4. CASE Received(u)
  <2>1. CASE body[u].kind # "xlsx"
    BY <1>4, <2>1, MoveFileStep DEF Received
  <2>2. CASE body[u].kind = "xlsx"
    <3>1. /\ post[u] = "receiving" /\ tmp[u] = body[u].bytes /\ post' = [post EXCEPT ![u] = "received"]
          /\ UNCHANGED <<body, room, crashes, diskVars, listed, charged>>
      BY <1>4, <2>2 DEF Received, StepOf, diskVars
    <3>2. FileSoFar(u)'
      BY <1>1, <1>2, <3>1, PostFacts DEF FileSoFar, diskVars, Limit
    <3>3. QED
      BY <1>1, <3>1, <3>2, PlaceStep
  <2>3. QED
    BY <2>1, <2>2
<1>5. CASE Convert(u)
  <2>1. CASE reader' \in {reader, reader \cup {u}} /\ Refuse(u)
    BY <1>5, <2>1, RefuseStep DEF Convert
  <2>2. CASE StepOf(u, "received", "converted") /\ UNCHANGED <<body, room, listed, charged, diskVars, crashes>>
    <3>1. FileSoFar(u)'
      BY <1>1, <1>2, <2>2 DEF FileSoFar, StepOf, diskVars, Limit
    <3>2. QED
      BY <1>1, <2>2, <3>1, PlaceStep DEF StepOf
  <2>3. QED
    BY <1>5, <2>1, <2>2 DEF Convert
<1>6. CASE ScanFormulas(u)
  BY <1>6, MoveFileStep DEF ScanFormulas
<1>7. CASE MapColumns(u) \/ AnswerPost(u)
  <2>1. PICK to \in {"mapped", "answered"} :
          /\ post' = [post EXCEPT ![u] = to]
          /\ to = "mapped" => post[u] = "moved"
          /\ to = "answered" => post[u] = "committed"
    BY <1>7 DEF MapColumns, AnswerPost, StepOf
  <2>2. UNCHANGED <<body, room, listed, charged, diskVars, crashes>>
    BY <1>7 DEF MapColumns, AnswerPost
  <2>3. FileSoFar(u)'
    BY <1>1, <1>2, <2>1, <2>2 DEF FileSoFar, diskVars
  <2>4. QED
    BY <1>1, <2>1, <2>2, <2>3, PlaceStep
<1>8. CASE CommitUpload(u)
  <2>1. /\ post[u] = "mapped" /\ post' = [post EXCEPT ![u] = "committed"]
        /\ listed' = listed \cup {u} /\ charged' = charged + body[u].bytes
        /\ UNCHANGED <<body, room, diskVars, crashes>>
    BY <1>8 DEF CommitUpload, StepOf
  <2>2. u \notin listed /\ Sent[u] = body[u].bytes /\ Sent \in Sizes /\ listed \in SUBSET Posts
    BY <1>1, <2>1, SizesHere DEF FileSoFar, Sent, IntakeTypes
  <2>3. charged' = Total(Sent, listed')
    BY <1>1, <2>1, <2>2, TotalOfOne
  <2>4. FileSoFar(u)'
    BY <1>1, <1>2, <2>1 DEF FileSoFar, diskVars
  <2>5. QED
    BY <2>1, <2>3, <2>4, PlaceStep
<1>9. QED
  BY <1>3, <1>4, <1>5, <1>6, <1>7, <1>8

\* A thread gives up its file; a file grows old.
LEMMA WaitingStep ==
    ASSUME IntakeInv, \/ TmpAges \/ \E u \in Posts : ReaderEnds(u)
    PROVE  IntakeInv'
<1>1. /\ UNCHANGED <<post, body, room, tmp, final, listed, charged, crashes>>
      /\ reader' \subseteq reader /\ aged' \subseteq Posts
  BY DEF TmpAges, ReaderEnds, UnderWay, IntakeInv, IntakeTypes
<1>2. IntakeTypes'
  BY <1>1 DEF IntakeInv, IntakeTypes
<1>3. \A u \in Posts : FileSoFar(u)'
  BY <1>1 DEF IntakeInv, FileSoFar, Limit
<1>4. Taken' = Taken /\ Sent' = Sent
  BY <1>1 DEF Taken, Held, Sent, Limit
<1>5. QED
  BY <1>1, <1>2, <1>3, <1>4, OneEncoding DEF IntakeInv

\* The process stops: what was under way is cut.
LEMMA StopIntakeStep == ASSUME IntakeInv, StopIntake PROVE IntakeInv'
<1>1. /\ UNCHANGED <<body, room, final, listed, charged>> /\ crashes' \in Nat /\ reader' = {}
      /\ tmp' \in Sizes /\ aged' \subseteq aged /\ \A u \in Posts : tmp'[u] \in {0, tmp[u]}
      /\ post' = [u \in Posts |-> IF u \in UnderWay THEN "cut" ELSE post[u]]
  BY DEF StopIntake, IntakeInv, IntakeTypes, Sizes
<1>2. IntakeTypes'
  BY <1>1 DEF IntakeInv, IntakeTypes, UnderWay
<1>3. \A u \in Posts : FileSoFar(u)' /\ Taken'[u] <= Taken[u]
  <2> TAKE u \in Posts
  <2>1. /\ FileSoFar(u) /\ tmp[u] \in Nat /\ final[u] \in Nat /\ Limit(u) \in Nat
        /\ body[u].bytes \in Nat \ {0} /\ tmp'[u] \in {0, tmp[u]}
        /\ post[u] \in Moving \cup {"new", "answered", "refused", "cut"}
    BY <1>1, PostFacts
  <2>2. post'[u] = IF post[u] \in Moving THEN "cut" ELSE post[u]
    BY <1>1 DEF UnderWay
  <2>3. FileSoFar(u)'
    BY <1>1, <2>1, <2>2 DEF FileSoFar, Stored, Converting, Moving
  <2>4. Taken'[u] <= Taken[u]
    <3>1. Taken'[u] = IF final[u] + tmp'[u] < body[u].bytes THEN final[u] + tmp'[u] ELSE body[u].bytes
      BY <1>1, <2>2, CountsFor DEF Moving, Converting
    <3>2. CASE post[u] = "receiving"
      BY SMTT(40), <1>1, <2>1, <3>1, <3>2, CountsFor DEF FileSoFar
    <3>3. CASE post[u] # "receiving"
      BY <1>1, <2>1, <3>1, <3>3, CountsFor
    <3>4. QED
      BY <3>2, <3>3
  <2>5. QED
    BY <2>3, <2>4
<1>4. Sent' = Sent
  BY <1>1 DEF Sent
<1>5. QED
  BY <1>1, <1>2, <1>3, <1>4, WithinQuota, OneEncoding DEF IntakeInv

\* A request reads what is left of the quota: with what the others may still
\* take, it stays below the quota and their files.
LEMMA ArriveStep ==
    ASSUME IntakeInv, NEW u \in Posts, NEW f \in PostedFiles, Arrive(u, f)
    PROVE  IntakeInv'
<1>0. PICK open \in SUBSET (aged \cap (reader \cup UnderWay)) :
         /\ tmp' = [v \in Posts |-> IF v \in aged \ open THEN 0 ELSE tmp[v]] /\ aged' = open
         /\ post' = [v \in Posts |->
                       IF v = u THEN "receiving"
                       ELSE IF v \in aged \ open /\ post[v] = "receiving" THEN "swept"
                       ELSE post[v]]
  BY DEF Arrive, Sweep
<1>1. /\ post[u] = "new" /\ body' = [body EXCEPT ![u] = f]
      /\ UNCHANGED <<final, listed, charged, reader, crashes>>
      /\ Cardinality(UnderWay) < MaxSide
      /\ room' = [room EXCEPT ![u] = IF BytesHeld(tmp') < Quota THEN Quota - BytesHeld(tmp') ELSE 0]
  BY DEF Arrive
<1>2. /\ IntakeTypes /\ FileSoFar(u) /\ tmp[u] = 0 /\ final[u] = 0 /\ u \notin listed /\ u \notin reader
  BY <1>1, PostFacts DEF FileSoFar, Stored
<1>3. tmp' \in Sizes /\ final \in Sizes
  BY <1>0, <1>2 DEF IntakeTypes, Sizes
<1>4. BytesHeld(tmp') \in Nat
  <2>1. Total(tmp', Posts) \in Nat /\ Total(final, Posts) \in Nat
    BY <1>3, UnitsFinite
  <2>2. QED
    BY <2>1 DEF BytesHeld
<1>5. IntakeTypes'
  <2>1. room'[u] \in Nat /\ room' \in Sizes
    BY <1>1, <1>2, <1>4, IntakeConstants DEF IntakeTypes, Sizes
  <2>2. post' \in [Posts -> Moving \cup {"new", "answered", "refused", "cut"}]
    BY <1>0, <1>2 DEF IntakeTypes, Moving
  <2>3. aged' \subseteq Posts
    BY <1>0, <1>2 DEF IntakeTypes
  <2>4. QED
    BY <1>1, <1>2, <1>3, <2>1, <2>2, <2>3 DEF IntakeTypes
<1>6. \A v \in Posts \ {u} :
        /\ body'[v] = body[v] /\ room'[v] = room[v]
        /\ \/ post'[v] = post[v] /\ post[v] = "receiving" /\ tmp'[v] = tmp[v]
           \/ post'[v] = "swept" /\ post[v] = "receiving" /\ tmp'[v] = 0
           \/ post'[v] = post[v] /\ post[v] # "receiving" /\ tmp'[v] \in {0, tmp[v]}
  BY <1>0, <1>1, <1>2 DEF IntakeTypes, Sizes
<1>7. post'[u] = "receiving" /\ tmp'[u] = 0 /\ body'[u] = f /\ final'[u] = 0
  BY <1>0, <1>1, <1>2 DEF IntakeTypes
<1>8. \A v \in Posts : FileSoFar(v)'
  <2>1. FileSoFar(u)'
    BY <1>1, <1>2, <1>5, <1>7, IntakeConstants DEF FileSoFar, Limit, IntakeTypes, Sizes, Stored, Converting
  <2>2. ASSUME NEW v \in Posts \ {u} PROVE FileSoFar(v)'
    <3>1. FileSoFar(v) /\ tmp[v] \in Nat
      BY PostFacts
    <3>2. QED
      BY <1>1, <1>6, <3>1 DEF FileSoFar, Limit, Stored, Converting
  <2>3. QED
    BY <2>1, <2>2
<1>9. charged' = Total(Sent', listed')
  <2>1. \A v \in listed : Sent'[v] = Sent[v]
    BY <1>2, <1>6 DEF IntakeTypes, Sent
  <2>2. Units(Sent', listed') = Units(Sent, listed)
    BY <1>1, <2>1 DEF Units
  <2>3. QED
    BY <1>1, <2>2, PostFacts DEF Total
<1>10. \A v \in Posts \ {u} : Taken'[v] <= Taken[v]
  <2> TAKE v \in Posts \ {u}
  <2>1. /\ tmp[v] \in Nat /\ final[v] \in Nat /\ body[v].bytes \in Nat /\ Limit(v) \in Nat
        /\ Limit(v)' = Limit(v) /\ final' = final
    BY <1>1, <1>6, PostFacts DEF Limit
  <2>2. CASE post'[v] = "swept" /\ post[v] = "receiving" /\ tmp'[v] = 0
    BY <1>6, <2>1, <2>2, CountsFor, PostFacts DEF Converting, FileSoFar
  <2>3. CASE post'[v] = post[v] /\ tmp'[v] \in {0, tmp[v]}
    BY <1>6, <2>1, <2>3, CountsFor
  <2>4. QED
    BY <1>6, <2>2, <2>3
<1>11. Taken'[u] = Limit(u)'
  BY <1>7, CountsFor
<1>12. Total(Taken', Posts) <= Quota + (MaxSide - 1) * MaxBytes
  <2>1. CASE BytesHeld(tmp') >= Quota
    <3>1. Limit(u)' = 0
      BY <1>1, <1>2, <1>4, <2>1, IntakeConstants DEF Limit, IntakeTypes, Sizes
    <3>2. Taken \in Sizes
      BY <1>2, SizesHere
    <3>3. \A v \in Posts : Taken'[v] <= Taken[v]
      BY <1>10, <1>11, <3>1, <3>2 DEF Sizes
    <3>4. QED
      BY <1>5, <3>3, WithinQuota
  <2>2. CASE BytesHeld(tmp') < Quota
    <3> DEFINE R == {v \in Posts \ {u} : post[v] \in {"receiving"} \cup Converting}
               k == Limit(u)'
               others == [v \in Posts |-> IF v \in R THEN MaxBytes ELSE 0]
               own == [v \in Posts |-> IF v \in {u} THEN k ELSE 0]
               more == [v \in Posts |-> others[v] + own[v]]
               held == BytesHeld(tmp')
    <3>1. k \in Nat /\ k <= Quota - held
      BY <1>1, <1>2, <1>4, <2>2, IntakeConstants DEF Limit, IntakeTypes, Sizes
    <3>2. R \subseteq UnderWay /\ UnderWay \in SUBSET Posts /\ R \in SUBSET Posts
      BY DEF UnderWay, Moving, Converting
    <3>3. Cardinality(R) \in Nat /\ Cardinality(R) <= MaxSide - 1
      <4>1. IsFiniteSet(UnderWay)
        BY <3>2, IntakeAssumption, FS_Subset
      <4>2. IsFiniteSet(R) /\ Cardinality(R) <= Cardinality(UnderWay)
        BY <3>2, <4>1, FS_Subset
      <4>3. Cardinality(R) \in Nat /\ Cardinality(UnderWay) \in Nat
        BY <4>1, <4>2, FS_CardinalityType
      <4>4. QED
        BY <1>1, <4>2, <4>3, IntakeConstants
    <3> HIDE DEF k, R
    <3>4. others \in Sizes /\ own \in Sizes /\ more \in Sizes
      BY <3>1, IntakeConstants DEF Sizes
    <3>5. Total(others, Posts) = Cardinality(R) * MaxBytes
      BY <3>2, IntakeConstants, TotalOfEqual
    <3>6. Total(own, Posts) = k
      <4>1. Total(own, Posts) = Cardinality({u}) * k
        BY <3>1, TotalOfEqual
      <4>2. Cardinality({u}) = 1
        BY FS_Singleton
      <4>3. QED
        BY <3>1, <4>1, <4>2
    <3>7. Cardinality(R) * MaxBytes <= (MaxSide - 1) * MaxBytes /\ Cardinality(R) * MaxBytes \in Nat
      <4>1. \A a \in Nat, b \in Nat, c \in Nat : a <= b => a * c <= b * c /\ a * c \in Nat
        OBVIOUS
      <4>2. MaxSide - 1 \in Nat
        BY IntakeConstants
      <4>3. QED
        BY <3>3, <4>1, <4>2, IntakeConstants
    <3>8. Held' \in Sizes /\ Taken' \in Sizes
      BY <1>5, SizesThen
    <3>9. \A v \in Posts : Taken'[v] <= Held'[v] + more[v]
      <4> TAKE v \in Posts
      <4>1. Held'[v] \in Nat /\ Taken'[v] \in Nat
        BY <3>8 DEF Sizes
      <4>2. CASE v = u
        BY <1>11, <3>1, <4>1, <4>2, IntakeConstants DEF R, k
      <4>3. CASE v # u /\ post'[v] = "receiving"
        <5>1. Taken'[v] = Limit(v)' /\ v \in R
          BY <1>6, <4>3, CountsFor DEF R, Converting
        <5>2. Limit(v)' <= MaxBytes
          BY <1>5, IntakeConstants DEF Limit, IntakeTypes, Sizes
        <5>3. QED
          BY <4>1, <4>3, <5>1, <5>2, IntakeConstants
      <4>4. CASE v # u /\ post'[v] \in Converting
        <5>1. Taken'[v] = body'[v].bytes /\ v \in R
          BY <1>6, <4>4, CountsFor DEF R, Converting
        <5>2. body'[v].bytes <= MaxBytes
          <6>1. FileSoFar(v)' /\ body'[v].bytes \in Nat
            BY <1>5, <1>8, IntakeConstants DEF IntakeTypes
          <6>2. body'[v].bytes <= Limit(v)' /\ Limit(v)' <= MaxBytes /\ Limit(v)' \in Nat
            BY <1>5, <4>4, <6>1, IntakeConstants DEF FileSoFar, Limit, IntakeTypes, Sizes
          <6>3. QED
            BY <6>1, <6>2, IntakeConstants
        <5>3. QED
          BY <4>1, <4>4, <5>1, <5>2, IntakeConstants
      <4>5. CASE v # u /\ post'[v] \notin {"receiving"} \cup Converting
        <5>1. Taken'[v] = Held'[v]
          BY <4>5, CountsFor
        <5>2. more[v] \in Nat
          BY <3>4 DEF Sizes
        <5>3. QED
          BY <4>1, <4>5, <5>1, <5>2
      <4>6. QED
        BY <4>2, <4>3, <4>4, <4>5
    <3>10. \A v \in Posts : Held'[v] <= tmp'[v] + final[v]
      <4> TAKE v \in Posts
      <4>1. tmp'[v] \in Nat /\ final[v] \in Nat /\ body'[v].bytes \in Nat /\ final' = final
        BY <1>1, <1>3, <1>5, IntakeConstants DEF IntakeTypes, Sizes
      <4>2. QED
        BY <4>1, CountsFor
    <3>11. Total(Held', Posts) <= held
      BY <1>3, <3>8, <3>10, TotalOfSums DEF BytesHeld
    <3>12. Total(Taken', Posts) <= Total(Held', Posts) + Total(more, Posts)
      BY <3>4, <3>8, <3>9, TotalOfSums
    <3>13. Total(more, Posts) <= Total(others, Posts) + Total(own, Posts)
      <4>1. \A v \in Posts : more[v] <= others[v] + own[v]
        BY <3>4 DEF Sizes
      <4>2. QED
        BY <3>4, <4>1, TotalOfSums
    <3>14. Total(Taken', Posts) \in Nat /\ Total(Held', Posts) \in Nat /\ Total(more, Posts) \in Nat
      BY <3>4, <3>8, UnitsFinite
    <3> HIDE DEF others, own, more, held
    <3>15. held \in Nat /\ Quota \in Nat /\ (MaxSide - 1) * MaxBytes \in Nat
      BY <1>4, IntakeConstants DEF held
    <3>16. QED
      BY <3>1, <3>5, <3>6, <3>7, <3>11, <3>12, <3>13, <3>14, <3>15
  <2>3. QED
    BY <1>4, <2>1, <2>2, IntakeConstants
<1>13. QED
  BY <1>5, <1>8, <1>9, <1>12, OneEncoding DEF IntakeInv

\* The invariant of the uploads.
LEMMA IntakeInvariant == IntakeSpec => []IntakeInv
<1>1. IntakeInv /\ [IntakeNext]_intakeVars => IntakeInv'
  <2> SUFFICES ASSUME IntakeInv, [IntakeNext]_intakeVars
               PROVE  IntakeInv'
    OBVIOUS
  <2>1. CASE UNCHANGED intakeVars
    <3>1. UNCHANGED <<post, body, room, listed, charged, crashes, tmp, final, reader, aged>>
      BY <2>1 DEF intakeVars, diskVars
    <3>2. Taken' = Taken /\ Sent' = Sent
      BY <3>1 DEF Taken, Held, Sent, Limit
    <3>3. IntakeTypes' /\ \A u \in Posts : FileSoFar(u)'
      BY <3>1 DEF IntakeInv, IntakeTypes, FileSoFar, Limit
    <3>4. QED
      BY <3>1, <3>2, <3>3, OneEncoding DEF IntakeInv
  <2>2. CASE TmpAges \/ StopIntake
    BY <2>2, WaitingStep, StopIntakeStep
  <2>3. ASSUME NEW u \in Posts,
               \/ \E f \in PostedFiles : Arrive(u, f)
               \/ NameRefused(u) \/ Receive(u) \/ TooMuch(u) \/ SweptRefused(u)
               \/ Received(u) \/ Convert(u)
               \/ ScanFormulas(u) \/ ReaderEnds(u) \/ MapColumns(u) \/ CommitUpload(u)
               \/ StoringFails(u) \/ AnswerPost(u)
        PROVE  IntakeInv'
    BY <2>3, ArriveStep, ReceiveStep, StoringStep, WaitingStep
  <2>4. QED
    BY <2>1, <2>2, <2>3 DEF IntakeNext
<1>2. QED
  BY <1>1, IntakeInitInv, PTL DEF IntakeSpec

\* Each variable of the uploads keeps its type.
THEOREM IntakeTypesHold == IntakeSpec => []IntakeTypeOK
<1>1. IntakeInv => IntakeTypeOK
  BY DEF IntakeInv, IntakeTypes, IntakeTypeOK, Sizes
<1>2. QED
  BY <1>1, IntakeInvariant, PTL

\* A refused upload leaves no file under its final name, whatever failed on
\* the way, an answered one has its file and no temporary one, and the bytes
\* charged are those of the rows: for any number of requests, files and stops.
THEOREM NothingHalfStoredHolds == IntakeSpec => []NothingHalfStored
<1>1. IntakeInv => NothingHalfStored
  <2> SUFFICES ASSUME IntakeInv
               PROVE  NothingHalfStored
    OBVIOUS
  <2>1. ASSUME NEW u \in Posts
        PROVE  /\ post[u] = "refused" => final[u] = 0
               /\ post[u] = "answered" => final[u] = body[u].out /\ tmp[u] = 0
               /\ u \in listed /\ post[u] # "refused" => final[u] > 0
    <3>1. FileSoFar(u) /\ body[u].out \in Nat \ {0}
      BY PostFacts
    <3>2. QED
      BY <3>1 DEF FileSoFar, Stored
  <2>2. QED
    BY <2>1 DEF IntakeInv, NothingHalfStored
<1>2. QED
  BY <1>1, IntakeInvariant, PTL

\* Requests side by side pass the quota by their own files at most.
THEOREM QuotaExcessBoundedHolds == IntakeSpec => []QuotaExcessBounded
<1>1. IntakeInv => QuotaExcessBounded
  <2> SUFFICES ASSUME IntakeInv
               PROVE  QuotaExcessBounded
    OBVIOUS
  <2>1. Held \in Sizes /\ Taken \in Sizes
    BY SizesHere DEF IntakeInv
  <2>2. \A u \in Posts : Held[u] <= Taken[u]
    <3> TAKE u \in Posts
    <3>1. Held[u] \in Nat /\ FileSoFar(u) /\ tmp[u] \in Nat /\ body[u].bytes \in Nat /\ Limit(u) \in Nat
      BY <2>1, PostFacts DEF Sizes
    <3>2. CASE post[u] = "receiving"
      BY <3>1, <3>2, CountsFor DEF FileSoFar
    <3>3. CASE post[u] # "receiving"
      BY <3>1, <3>3, CountsFor
    <3>4. QED
      BY <3>2, <3>3
  <2>3. Total(Held, Posts) <= Total(Taken, Posts)
    BY <2>1, <2>2, TotalGrows
  <2>4. Total(Held, Posts) \in Nat /\ Total(Taken, Posts) \in Nat
    BY <2>1, UnitsFinite
  <2>5. QED
    BY <2>3, <2>4, IntakeConstants DEF IntakeInv, QuotaExcessBounded
<1>2. QED
  BY <1>1, IntakeInvariant, PTL

-----------------------------------------------------------------------------
(* The limiter.  Two tables are hit alike, one of which drops idle buckets. *)
(* Whatever hit comes next reads a time that is at most MaxLag old: seen    *)
(* from there, a bucket has at most Slack more than the one never dropped,  *)
(* and one that was dropped had all but MaxLag.                             *)

Base(b) == b.tokens - b.stamp
At(b, time) == Smaller(Window, Base(b) + time)

AnyBucket == [tokens : Int, stamp : Nat]

HitsRecent ==
    \A t \in Threads : hit[t] # NoHit =>
        hit[t].of \in Callers /\ hit[t].now \in 0 .. moment /\ moment <= hit[t].now + MaxLag

LimiterTypes ==
    /\ moment \in 0 .. LastMoment
    /\ hit \in [Threads -> {NoHit} \cup [of : Callers, now : 0 .. LastMoment]]
    /\ DOMAIN buckets \subseteq DOMAIN unpruned /\ DOMAIN unpruned \subseteq Callers
    /\ buckets \in [DOMAIN buckets -> AnyBucket]
    /\ unpruned \in [DOMAIN unpruned -> AnyBucket]
    /\ IsFiniteSet(DOMAIN buckets)

\* What every bucket is like.
Sane(b) == b.tokens \in -MaxLag .. Window /\ b.stamp \in 0 .. moment /\ 0 <= Base(b) + moment

NotMuchMore(c) ==
    IF c \in DOMAIN buckets
    THEN /\ buckets[c].stamp = unpruned[c].stamp /\ Sane(buckets[c])
         /\ At(buckets[c], moment - MaxLag) <= At(unpruned[c], moment - MaxLag) + Slack
    ELSE Window - MaxLag <= Base(unpruned[c]) + moment

LimiterInv ==
    /\ LimiterTypes /\ HitsRecent
    /\ Cardinality(DOMAIN buckets) <= MaxBuckets
    /\ \A c \in DOMAIN unpruned : Sane(unpruned[c]) /\ NotMuchMore(c)

LEMMA LimiterConstants ==
    /\ Window \in Nat \ {0} /\ Cost \in Nat \ {0} /\ MaxBuckets \in Nat \ {0} /\ LastMoment \in Nat
    /\ MaxLag \in Nat /\ Cost <= Window
    /\ Slack \in Nat /\ Cost - 1 <= Slack /\ 2 * MaxLag <= Slack
    /\ Tenth \in Nat \ {0}
<1>1. /\ Window \in Nat \ {0} /\ Cost \in Nat \ {0} /\ MaxBuckets \in Nat \ {0} /\ LastMoment \in Nat
      /\ MaxLag \in Nat /\ Cost <= Window
  BY LimiterAssumption
<1>2. Slack \in Nat /\ Cost - 1 <= Slack /\ 2 * MaxLag <= Slack
  BY <1>1 DEF Slack
<1>3. Tenth \in Nat \ {0}
  BY <1>1 DEF Tenth
<1>4. QED
  BY <1>1, <1>2, <1>3

LEMMA LimiterInitInv == LimiterInit => LimiterInv
<1> SUFFICES ASSUME LimiterInit
             PROVE  LimiterInv
  OBVIOUS
<1>1. DOMAIN buckets = {} /\ DOMAIN unpruned = {}
  BY DEF LimiterInit
<1>2. IsFiniteSet({}) /\ Cardinality({}) = 0
  BY FS_EmptySet
<1>3. QED
  BY <1>1, <1>2, LimiterConstants DEF LimiterInit, LimiterInv, LimiterTypes, HitsRecent

\* Later, a difference is as great or less.
LEMMA Closer ==
    ASSUME NEW b \in AnyBucket, NEW u \in AnyBucket, NEW m \in Int, NEW n \in Int, m <= n,
           At(b, m) <= At(u, m) + Slack
    PROVE  At(b, n) <= At(u, n) + Slack
BY LimiterConstants DEF At, Base, AnyBucket, Smaller

LEMMA ClockStep ==
    ASSUME LimiterInv, TimePasses \/ \E t \in Threads, c \in Callers : ReadClock(t, c)
    PROVE  LimiterInv'
<1>1. CASE TimePasses
  <2>1. /\ moment' = moment + 1 /\ UNCHANGED <<buckets, hit, unpruned>> /\ moment \in Nat /\ MaxLag \in Nat
    BY <1>1, LimiterConstants DEF TimePasses, LimiterInv, LimiterTypes
  <2>2. LimiterTypes' /\ HitsRecent'
    BY <1>1, LimiterConstants DEF TimePasses, LimiterInv, LimiterTypes, HitsRecent
  <2>3. ASSUME NEW c \in DOMAIN unpruned
        PROVE  Sane(unpruned[c])' /\ NotMuchMore(c)'
    <3>1. unpruned[c] \in AnyBucket /\ (c \in DOMAIN buckets => buckets[c] \in AnyBucket)
      BY DEF LimiterInv, LimiterTypes
    <3>2. c \in DOMAIN buckets =>
            At(buckets[c], moment' - MaxLag) <= At(unpruned[c], moment' - MaxLag) + Slack
      <4> SUFFICES ASSUME c \in DOMAIN buckets
                   PROVE  At(buckets[c], moment' - MaxLag) <= At(unpruned[c], moment' - MaxLag) + Slack
        OBVIOUS
      <4> DEFINE m == moment - MaxLag
                 n == moment + 1 - MaxLag
      <4>1. m \in Int /\ n \in Int /\ m <= n
        BY <2>1
      <4>2. At(buckets[c], m) <= At(unpruned[c], m) + Slack
        BY DEF LimiterInv, NotMuchMore
      <4>3. At(buckets[c], n) <= At(unpruned[c], n) + Slack
        BY <3>1, <4>1, <4>2, Closer
      <4>4. QED
        BY <2>1, <4>3
    <3>3. QED
      BY <2>1, <2>3, <3>1, <3>2, LimiterConstants DEF LimiterInv, NotMuchMore, Sane, Base, AnyBucket
  <2>4. QED
    BY <2>1, <2>2, <2>3 DEF LimiterInv
<1>2. ASSUME NEW t \in Threads, NEW c \in Callers, ReadClock(t, c)
      PROVE  LimiterInv'
  <2>1. LimiterTypes' /\ HitsRecent'
    BY <1>2, LimiterConstants DEF ReadClock, LimiterInv, LimiterTypes, HitsRecent
  <2>2. QED
    BY <1>2, <2>1 DEF ReadClock, LimiterInv, NotMuchMore, Sane
<1>3. QED
  BY <1>1, <1>2

\* A bucket that is hit at a time at most MaxLag old.
LEMMA HitSane ==
    ASSUME NEW b \in AnyBucket, moment \in Nat, Sane(b),
           NEW now \in 0 .. moment, moment <= now + MaxLag
    PROVE  /\ Charged(Refilled(b, now)) \in AnyBucket /\ Sane(Charged(Refilled(b, now)))
           /\ Charged(Refilled(b, now)).stamp = now
           /\ Charged(NewBucket(now)) \in AnyBucket /\ Sane(Charged(NewBucket(now)))
           /\ Charged(NewBucket(now)).stamp = now
<1> USE LimiterConstants DEF AnyBucket, Sane, Base
<1>1. ASSUME NEW x \in AnyBucket, x.stamp = now, x.tokens \in -MaxLag .. Window, 0 <= x.tokens + MaxLag
      PROVE  /\ Charged(x) \in AnyBucket /\ Charged(x).tokens \in -MaxLag .. Window
             /\ Charged(x).stamp = now
             /\ Charged(x).tokens \in {x.tokens} \cup Nat
  BY <1>1 DEF Charged
<1>2. Refilled(b, now) \in AnyBucket /\ Refilled(b, now).stamp = now
  BY DEF Refilled, Smaller
<1>3. /\ Refilled(b, now).tokens \in -MaxLag .. Window
      /\ 0 <= Refilled(b, now).tokens - now + moment
  BY DEF Refilled, Smaller
<1>4. NewBucket(now) \in AnyBucket /\ NewBucket(now).stamp = now /\ NewBucket(now).tokens = Window
  BY DEF NewBucket
<1>5. QED
  BY <1>1, <1>2, <1>3, <1>4

\* Both tables charge: the difference stays, shrinks, or is less than a request.
LEMMA HitBoth ==
    ASSUME NEW b \in AnyBucket, NEW u \in AnyBucket, moment \in Nat,
           NEW now \in 0 .. moment, moment <= now + MaxLag,
           At(b, moment - MaxLag) <= At(u, moment - MaxLag) + Slack
    PROVE  At(Charged(Refilled(b, now)), moment - MaxLag)
             <= At(Charged(Refilled(u, now)), moment - MaxLag) + Slack
<1> USE LimiterConstants
<1> DEFINE x == At(b, now)
           y == At(u, now)
<1>1. x <= y + Slack
  BY Closer
<1>2. /\ x \in Int /\ y \in Int /\ x <= Window /\ y <= Window
      /\ Refilled(b, now) = [tokens |-> x, stamp |-> now]
      /\ Refilled(u, now) = [tokens |-> y, stamp |-> now]
  BY DEF At, Base, Refilled, Smaller, AnyBucket
<1> HIDE DEF x, y
<1>3. ASSUME NEW z \in Int, z <= Window
      PROVE  At(Charged([tokens |-> z, stamp |-> now]), moment - MaxLag)
               = (IF z >= Cost THEN z - Cost ELSE z) - now + moment - MaxLag
  BY <1>3 DEF At, Base, Charged, Smaller
<1>4. QED
  BY <1>1, <1>2, <1>3

\* A caller whose bucket was dropped gets a new one.
LEMMA HitNew ==
    ASSUME NEW u \in AnyBucket, moment \in Nat, NEW now \in 0 .. moment, moment <= now + MaxLag,
           Window - MaxLag <= Base(u) + moment
    PROVE  At(Charged(NewBucket(now)), moment - MaxLag)
             <= At(Charged(Refilled(u, now)), moment - MaxLag) + Slack
BY LimiterConstants DEF At, Base, Charged, NewBucket, Refilled, Smaller, AnyBucket

\* Making room leaves less than the bound; what goes was idle or is known.
LEMMA RoomIsMade ==
    ASSUME LimiterInv, NEW now \in Nat, NEW p \in Pruned(buckets, now)
    PROVE  /\ DOMAIN p.table \subseteq DOMAIN buckets
           /\ \A c \in DOMAIN p.table : p.table[c] = buckets[c]
           /\ p.lost \subseteq DOMAIN buckets /\ p.lost \cap DOMAIN p.table = {}
           /\ \A c \in (DOMAIN buckets \ DOMAIN p.table) \ p.lost : now - buckets[c].stamp >= Window
           /\ IsFiniteSet(DOMAIN p.table) /\ Cardinality(DOMAIN p.table) < MaxBuckets
<1> DEFINE B == DOMAIN buckets
           busy == Dropped(buckets, Stale(buckets, now))
<1>1. IsFiniteSet(B) /\ Cardinality(B) <= MaxBuckets /\ Cardinality(B) \in Nat
  BY FS_CardinalityType DEF LimiterInv, LimiterTypes
<1>2. /\ DOMAIN busy = B \ Stale(buckets, now)
      /\ \A c \in DOMAIN busy : busy[c] = buckets[c]
  BY DEF Dropped, Restrict
<1>3. IsFiniteSet(DOMAIN busy) /\ Cardinality(DOMAIN busy) <= Cardinality(B) /\ Cardinality(DOMAIN busy) \in Nat
  BY <1>1, <1>2, FS_Subset, FS_CardinalityType
<1>4. CASE Cardinality(B) < MaxBuckets
  BY <1>1, <1>4 DEF Pruned
<1>5. CASE ~ (Cardinality(B) < MaxBuckets) /\ Cardinality(DOMAIN busy) < MaxBuckets
  <2>1. p = [table |-> busy, lost |-> {}]
    BY <1>5 DEF Pruned
  <2>2. QED
    BY <1>2, <1>3, <1>5, <2>1 DEF Stale
<1>6. CASE ~ (Cardinality(B) < MaxBuckets) /\ ~ (Cardinality(DOMAIN busy) < MaxBuckets)
  <2>1. PICK O \in Oldest(busy) : p = [table |-> Dropped(busy, O), lost |-> O]
    BY <1>6 DEF Pruned
  <2>2. O \subseteq DOMAIN busy /\ Cardinality(O) = Tenth
    BY <2>1 DEF Oldest
  <2>3. /\ DOMAIN p.table = DOMAIN busy \ O /\ p.lost = O
        /\ \A c \in DOMAIN p.table : p.table[c] = busy[c]
    BY <2>1, <2>2 DEF Dropped, Restrict
  <2>4. /\ IsFiniteSet(DOMAIN busy \ O)
        /\ Cardinality(DOMAIN busy \ O) = Cardinality(DOMAIN busy) - Cardinality(O)
    <3>1. DOMAIN busy \cap O = O
      BY <2>2
    <3>2. QED
      BY <1>3, <3>1, FS_Difference
  <2>5. Cardinality(DOMAIN p.table) < MaxBuckets
    BY <1>1, <1>3, <2>2, <2>3, <2>4, LimiterConstants
  <2>6. QED
    BY <1>2, <2>2, <2>3, <2>4, <2>5 DEF Stale
<1>7. QED
  BY <1>4, <1>5, <1>6

LEMMA LockStep == ASSUME LimiterInv, NEW t \in Threads, UnderLock(t) PROVE LimiterInv'
<1> DEFINE c == hit[t].of
           now == hit[t].now
           B == DOMAIN buckets
           U == DOMAIN unpruned
<1>1. /\ c \in Callers /\ now \in 0 .. moment /\ moment <= now + MaxLag /\ now \in 0 .. LastMoment
      /\ moment \in Nat /\ moment' = moment /\ hit' = [hit EXCEPT ![t] = NoHit]
      /\ B \subseteq U /\ \A k \in U : unpruned[k] \in AnyBucket /\ Sane(unpruned[k]) /\ NotMuchMore(k)
      /\ \A k \in B : buckets[k] \in AnyBucket /\ Sane(buckets[k])
  BY LimiterConstants DEF UnderLock, LimiterInv, LimiterTypes, HitsRecent, NotMuchMore
<1>2. PICK p \in IF c \in B THEN {[table |-> buckets, lost |-> {}]} ELSE Pruned(buckets, now) :
         /\ buckets' = Hit(p.table, c, now)
         /\ unpruned' = Hit(Dropped(unpruned, p.lost), c, now)
  BY DEF UnderLock
<1>3. /\ DOMAIN p.table \subseteq B /\ \A k \in DOMAIN p.table : p.table[k] = buckets[k]
      /\ p.lost \subseteq B /\ p.lost \cap DOMAIN p.table = {}
      /\ \A k \in (B \ DOMAIN p.table) \ p.lost : now - buckets[k].stamp >= Window
      /\ IsFiniteSet(DOMAIN p.table \cup {c})
      /\ Cardinality(DOMAIN p.table \cup {c}) <= MaxBuckets
      /\ c \in B => c \in DOMAIN p.table
      /\ c \notin p.lost
  <2>1. CASE c \in B
    <3>1. p.table = buckets /\ p.lost = {}
      BY <1>2, <2>1
    <3>2. DOMAIN p.table \cup {c} = B
      BY <2>1, <3>1
    <3>3. QED
      BY <2>1, <3>1, <3>2 DEF LimiterInv, LimiterTypes
  <2>2. CASE c \notin B
    <3>1. p \in Pruned(buckets, now) /\ now \in Nat
      BY <1>1, <1>2, <2>2
    <3>2. /\ DOMAIN p.table \subseteq DOMAIN buckets
          /\ \A k \in DOMAIN p.table : p.table[k] = buckets[k]
          /\ p.lost \subseteq DOMAIN buckets /\ p.lost \cap DOMAIN p.table = {}
          /\ \A k \in (DOMAIN buckets \ DOMAIN p.table) \ p.lost : now - buckets[k].stamp >= Window
          /\ IsFiniteSet(DOMAIN p.table) /\ Cardinality(DOMAIN p.table) < MaxBuckets
      BY <3>1, RoomIsMade
    <3>3. c \notin DOMAIN p.table /\ c \notin p.lost
      BY <2>2, <3>2
    <3>4. /\ IsFiniteSet(DOMAIN p.table \cup {c})
          /\ Cardinality(DOMAIN p.table \cup {c}) = Cardinality(DOMAIN p.table) + 1
      BY <3>2, <3>3, FS_AddElement
    <3>5. QED
      BY <2>2, <3>2, <3>3, <3>4, FS_CardinalityType, LimiterConstants
  <2>3. QED
    BY <2>1, <2>2
<1> DEFINE newB == Charged(IF c \in B THEN Refilled(buckets[c], now) ELSE NewBucket(now))
           newU == Charged(IF c \in U THEN Refilled(unpruned[c], now) ELSE NewBucket(now))
<1>4. /\ DOMAIN buckets' = DOMAIN p.table \cup {c}
      /\ buckets' = [k \in DOMAIN buckets' |-> IF k = c THEN newB ELSE buckets[k]]
  <2>1. c \in DOMAIN p.table <=> c \in B
    BY <1>3
  <2>2. Hit(p.table, c, now) = [k \in DOMAIN p.table \cup {c} |-> IF k = c THEN newB ELSE p.table[k]]
    BY <1>3, <2>1 DEF Hit, With
  <2>3. QED
    BY <1>2, <1>3, <2>2
<1>5. /\ DOMAIN unpruned' = (U \ p.lost) \cup {c}
      /\ unpruned' = [k \in DOMAIN unpruned' |-> IF k = c THEN newU ELSE unpruned[k]]
  <2>1. Dropped(unpruned, p.lost) = [k \in U \ p.lost |-> unpruned[k]]
    BY DEF Dropped, Restrict
  <2>2. c \in U \ p.lost <=> c \in U
    BY <1>3
  <2>3. Hit(Dropped(unpruned, p.lost), c, now)
          = [k \in (U \ p.lost) \cup {c} |-> IF k = c THEN newU ELSE unpruned[k]]
    BY <2>1, <2>2 DEF Hit, With
  <2>4. QED
    BY <1>2, <2>3
<1>6. /\ newB \in AnyBucket /\ Sane(newB) /\ newB.stamp = now
      /\ newU \in AnyBucket /\ Sane(newU) /\ newU.stamp = now
  <2>0. NewBucket(0) \in AnyBucket /\ Sane(NewBucket(0))
    BY <1>1, LimiterConstants DEF NewBucket, AnyBucket, Sane, Base
  <2>1. ASSUME NEW b \in AnyBucket, Sane(b)
        PROVE  /\ Charged(Refilled(b, now)) \in AnyBucket /\ Sane(Charged(Refilled(b, now)))
               /\ Charged(Refilled(b, now)).stamp = now
               /\ Charged(NewBucket(now)) \in AnyBucket /\ Sane(Charged(NewBucket(now)))
               /\ Charged(NewBucket(now)).stamp = now
    BY <1>1, <2>1, HitSane
  <2>2. QED
    BY <1>1, <2>0, <2>1
<1>7. At(newB, moment - MaxLag) <= At(newU, moment - MaxLag) + Slack
  <2>1. CASE c \in B
    BY <1>1, <2>1, HitBoth DEF NotMuchMore
  <2>2. CASE c \in U \ B
    BY <1>1, <2>2, HitNew DEF NotMuchMore
  <2>3. CASE c \notin U
    <3>1. newB = newU
      BY <1>1, <2>3
    <3>2. At(newB, moment - MaxLag) \in Int
      BY <1>1, <1>6, LimiterConstants DEF At, Base, Smaller, AnyBucket
    <3>3. QED
      BY <3>1, <3>2, LimiterConstants
  <2>4. QED
    BY <2>1, <2>2, <2>3
<1> HIDE DEF newB, newU, c, now
<1>8. LimiterTypes'
  <2>1. hit' \in [Threads -> {NoHit} \cup [of : Callers, now : 0 .. LastMoment]]
    BY <1>1 DEF LimiterInv, LimiterTypes
  <2>2. DOMAIN buckets' \subseteq DOMAIN unpruned' /\ DOMAIN unpruned' \subseteq Callers
    BY <1>1, <1>3, <1>4, <1>5 DEF LimiterInv, LimiterTypes
  <2>3. \A k \in DOMAIN buckets' : buckets'[k] \in AnyBucket
    BY <1>1, <1>3, <1>4, <1>6
  <2>4. \A k \in DOMAIN unpruned' : unpruned'[k] \in AnyBucket
    BY <1>1, <1>5, <1>6
  <2>5. buckets' \in [DOMAIN buckets' -> AnyBucket] /\ unpruned' \in [DOMAIN unpruned' -> AnyBucket]
    BY <1>4, <1>5, <2>3, <2>4
  <2>6. QED
    BY <1>1, <1>3, <1>4, <2>1, <2>2, <2>5 DEF LimiterInv, LimiterTypes
<1>9. HitsRecent'
  BY <1>1 DEF LimiterInv, LimiterTypes, HitsRecent
<1>10. ASSUME NEW k \in DOMAIN unpruned'
       PROVE  Sane(unpruned[k])' /\ NotMuchMore(k)'
  <2>1. CASE k = c
    <3>1. unpruned'[k] = newU /\ k \in DOMAIN buckets' /\ buckets'[k] = newB
      BY <1>4, <1>5, <2>1
    <3>2. QED
      BY <1>1, <1>6, <1>7, <3>1 DEF NotMuchMore, Sane
  <2>2. CASE k # c
    <3>1. k \in U \ p.lost /\ unpruned'[k] = unpruned[k] /\ (k \in DOMAIN buckets' <=> k \in DOMAIN p.table)
      BY <1>4, <1>5, <2>2
    <3>2. CASE k \in DOMAIN p.table
      <4>1. k \in B /\ buckets'[k] = buckets[k]
        BY <1>3, <1>4, <2>2, <3>1, <3>2
      <4>2. QED
        BY <1>1, <3>1, <3>2, <4>1 DEF NotMuchMore, Sane
    <3>3. CASE k \in B \ DOMAIN p.table
      <4>1. /\ now - buckets[k].stamp >= Window /\ buckets[k].stamp = unpruned[k].stamp
            /\ buckets[k] \in AnyBucket /\ unpruned[k] \in AnyBucket /\ Sane(unpruned[k])
        BY <1>1, <1>3, <3>1, <3>3 DEF NotMuchMore
      <4>2. Window - MaxLag <= Base(unpruned[k]) + moment
        BY <1>1, <4>1, LimiterConstants DEF Base, Sane, AnyBucket
      <4>3. QED
        BY <1>1, <3>1, <3>3, <4>2 DEF NotMuchMore, Sane
    <3>4. CASE k \notin B
      <4>1. Sane(unpruned[k]) /\ Window - MaxLag <= Base(unpruned[k]) + moment
        BY <1>1, <3>1, <3>4 DEF NotMuchMore
      <4>2. k \notin DOMAIN buckets'
        BY <1>3, <3>1, <3>4
      <4>3. QED
        BY <1>1, <3>1, <4>1, <4>2 DEF NotMuchMore, Sane
    <3>5. QED
      BY <3>2, <3>3, <3>4
  <2>3. QED
    BY <2>1, <2>2
<1>11. QED
  BY <1>3, <1>4, <1>8, <1>9, <1>10 DEF LimiterInv

LEMMA LimiterInvariant == LimiterSpec => []LimiterInv
<1>1. LimiterInv /\ [LimiterNext]_limiterVars => LimiterInv'
  <2>1. LimiterInv /\ UNCHANGED limiterVars => LimiterInv'
    BY DEF limiterVars, LimiterInv, LimiterTypes, HitsRecent, NotMuchMore, Sane
  <2>2. QED
    BY <2>1, ClockStep, LockStep DEF LimiterNext
<1>2. QED
  BY <1>1, LimiterInitInv, PTL DEF LimiterSpec

\* The table stays within its bound, and a caller whose idle bucket was dropped
\* never has a whole request more than one whose bucket was kept, but for what
\* comes back while two requests wait for the lock (RateLimiter.hit, _prune).
THEOREM PruningGivesNothingHolds == LimiterSpec => []PruningGivesNothing
<1>1. LimiterInv => PruningGivesNothing
  <2> SUFFICES ASSUME LimiterInv, NEW c \in DOMAIN buckets
               PROVE  c \in DOMAIN unpruned /\ Left(buckets[c]) <= Left(unpruned[c]) + Slack
    BY DEF LimiterInv, PruningGivesNothing
  <2>1. /\ c \in DOMAIN unpruned /\ buckets[c] \in AnyBucket /\ unpruned[c] \in AnyBucket
        /\ moment \in Nat /\ NotMuchMore(c)
    BY LimiterConstants DEF LimiterInv, LimiterTypes
  <2>2. At(buckets[c], moment) <= At(unpruned[c], moment) + Slack
    BY <2>1, Closer, LimiterConstants DEF NotMuchMore
  <2>3. \A b \in AnyBucket : Left(b) = At(b, moment)
    BY <2>1 DEF Left, Refilled, At, Base, Smaller, AnyBucket
  <2>4. QED
    BY <2>1, <2>2, <2>3
<1>2. QED
  BY <1>1, LimiterInvariant, PTL

\* The clock, the tables and the requests under way keep their types.
THEOREM LimiterTypesHold == LimiterSpec => []LimiterTypeOK
<1>1. LimiterInv => LimiterTypeOK
  BY LimiterConstants DEF LimiterInv, LimiterTypes, LimiterTypeOK, Bucket, Sane, NotMuchMore, AnyBucket
<1>2. QED
  BY <1>1, LimiterInvariant, PTL

-----------------------------------------------------------------------------
(* The gate of the tools.  The last three calls are at hand, so that a call *)
(* for the third time in a row finds the two before it.                     *)

Marks == [print : Tools \X Arguments, ran : BOOLEAN]

NotThriceInARow(s) == Len(s) = 3 => \E n \in 1 .. 3 : ~s[n].ran \/ s[n].print # s[1].print

PolicyInv ==
    /\ PolicyTypeOK /\ prints \in Seq(Marks)
    /\ lines = calls
    /\ line.ran => /\ line.tool \in ALLOW[line.role] /\ line.args.fits
                   /\ line.tool \in DESTRUCTIVE => line.consent
                   /\ line.decision = "allow" /\ steps <= MaxSteps
    /\ NotThriceInARow(prints)

LEMMA UpToThree ==
    ASSUME NEW s \in Seq(Marks), Len(s) <= 3
    PROVE  Len(s) = 0 \/ Len(s) = 1 \/ Len(s) = 2 \/ Len(s) = 3
<1> DEFINE n == Len(s)
<1>1. n \in Nat /\ n <= 3
  OBVIOUS
<1> HIDE DEF n
<1>2. n = 0 \/ n = 1 \/ n = 2 \/ n = 3
  BY <1>1
<1>3. QED
  BY <1>2 DEF n

\* One more mark, of the last three.
LEMMA NextMark ==
    ASSUME NEW s \in Seq(Marks), Len(s) <= 3, NEW m \in Marks
    PROVE  /\ LastThree(Append(s, m)) \in Seq(Marks)
           /\ Len(LastThree(Append(s, m))) = IF Len(s) = 3 THEN 3 ELSE Len(s) + 1
           /\ LastThree(Append(s, m))[Len(LastThree(Append(s, m)))] = m
           /\ Len(s) = 3 => /\ LastThree(Append(s, m))[1] = s[2]
                            /\ LastThree(Append(s, m))[2] = s[3]
           /\ Len(s) = 2 => /\ LastThree(Append(s, m))[1] = s[1]
                            /\ LastThree(Append(s, m))[2] = s[2]
<1> DEFINE a == Append(s, m)
<1>1. /\ a \in Seq(Marks) /\ Len(a) = Len(s) + 1 /\ a[Len(s) + 1] = m
      /\ \A n \in 1 .. Len(s) : a[n] = s[n]
  OBVIOUS
<1>2. Len(s) = 0 \/ Len(s) = 1 \/ Len(s) = 2 \/ Len(s) = 3
  BY UpToThree
<1>3. CASE Len(s) = 3
  <2>1. LastThree(a) = SubSeq(a, 2, 4)
    BY <1>1, <1>3 DEF LastThree
  <2>2. SubSeq(a, 2, 4) \in Seq(Marks) /\ Len(SubSeq(a, 2, 4)) = 3
    BY <1>1, <1>3
  <2>3. \A n \in 1 .. 3 : SubSeq(a, 2, 4)[n] = a[n + 1]
    BY <1>1, <1>3
  <2>4. QED
    BY <1>1, <1>3, <2>1, <2>2, <2>3
<1>4. CASE Len(s) # 3
  <2>1. Len(a) <= 3 /\ Len(s) # 3
    <3> DEFINE n == Len(s)
               k == Len(a)
    <3>1. (n = 0 \/ n = 1 \/ n = 2 \/ n = 3) /\ k = n + 1 /\ n # 3
      BY <1>1, <1>2, <1>4
    <3> HIDE DEF n, k
    <3>2. k <= 3
      BY <3>1
    <3>3. QED
      BY <1>4, <3>2 DEF k
  <2>2. LastThree(a) = a
    BY <2>1 DEF LastThree
  <2>3. QED
    BY <1>1, <1>4, <2>1, <2>2
<1>5. QED
  BY <1>3, <1>4

LEMMA MarkKeepsTurns ==
    ASSUME NEW s \in Seq(Marks), Len(s) <= 3, NEW m \in Marks, m.ran => ~ Looped(s, m.print)
    PROVE  NotThriceInARow(LastThree(Append(s, m)))
<1> DEFINE a == LastThree(Append(s, m))
<1>0. Len(s) = 0 \/ Len(s) = 1 \/ Len(s) = 2 \/ Len(s) = 3
  BY UpToThree
<1> SUFFICES ASSUME Len(a) = 3, \A n \in 1 .. 3 : a[n].ran /\ a[n].print = a[1].print
             PROVE  FALSE
  BY DEF NotThriceInARow
<1>3. /\ Len(a) = IF Len(s) = 3 THEN 3 ELSE Len(s) + 1
      /\ a[Len(a)] = m
      /\ Len(s) = 3 => a[1] = s[2] /\ a[2] = s[3]
      /\ Len(s) = 2 => a[1] = s[1] /\ a[2] = s[2]
  BY NextMark
<1> HIDE DEF a
<1>1. (Len(s) = 2 \/ Len(s) = 3) /\ a[3] = m
  <2> DEFINE n == Len(s)
  <2>1. (n = 0 \/ n = 1 \/ n = 2 \/ n = 3) /\ 3 = IF n = 3 THEN 3 ELSE n + 1
    BY <1>0, <1>3
  <2> HIDE DEF n
  <2>2. n = 2 \/ n = 3
    BY <2>1
  <2>3. QED
    BY <1>3, <2>2 DEF n
<1>2. Looped(s, m.print)
  <2>1. m.print = a[1].print /\ a[2].print = a[1].print
    BY <1>1
  <2>2. CASE Len(s) = 3
    BY <1>3, <2>1, <2>2 DEF Looped
  <2>3. CASE Len(s) = 2
    BY <1>3, <2>1, <2>3 DEF Looped
  <2>4. QED
    BY <1>1, <2>2, <2>3
<1>4. QED
  BY <1>1, <1>2

LEMMA OneMarkMore ==
    ASSUME NEW s \in Seq(Marks), Len(s) <= 3, NEW m \in Marks, m.ran => ~ Looped(s, m.print)
    PROVE  /\ LastThree(Append(s, m)) \in Seq(Marks) /\ Len(LastThree(Append(s, m))) <= 3
           /\ NotThriceInARow(LastThree(Append(s, m)))
<1>1. /\ LastThree(Append(s, m)) \in Seq(Marks)
      /\ Len(LastThree(Append(s, m))) = IF Len(s) = 3 THEN 3 ELSE Len(s) + 1
  BY NextMark
<1>2. Len(LastThree(Append(s, m))) <= 3
  <2> DEFINE n == Len(s)
             k == Len(LastThree(Append(s, m)))
  <2>1. (n = 0 \/ n = 1 \/ n = 2 \/ n = 3) /\ k = IF n = 3 THEN 3 ELSE n + 1
    BY <1>1, UpToThree
  <2> HIDE DEF n, k
  <2>2. k <= 3
    BY <2>1
  <2>3. QED
    BY <2>2 DEF k
<1>3. QED
  BY <1>1, <1>2, MarkKeepsTurns

\* A call that is refused, made, or not consented to.
LEMMA EnforceStep ==
    ASSUME PolicyInv, NEW role \in DOMAIN ALLOW, NEW tool \in Tools, NEW args \in Arguments,
           RefuseEarly(role, tool, args) \/ OverBudget(role, tool, args) \/ CallTool(role, tool, args)
    PROVE  PolicyInv'
<1> DEFINE print == <<tool, args>>
<1>1. /\ PolicyTypeOK /\ prints \in Seq(Marks) /\ NotThriceInARow(prints) /\ lines = calls
      /\ steps \in Nat /\ calls \in Nat /\ steps <= calls
  BY DEF PolicyInv, PolicyTypeOK
<1>2. CASE RefuseEarly(role, tool, args)
  BY <1>1, <1>2 DEF RefuseEarly, Write, PolicyInv, PolicyTypeOK
<1>3. CASE OverBudget(role, tool, args)
  <2> DEFINE m == [print |-> print, ran |-> FALSE]
  <2>1. m \in Marks
    BY DEF Marks
  <2>2. prints' = prints \/ prints' = LastThree(Append(prints, m))
    BY <1>3 DEF OverBudget
  <2>3. prints' \in Seq(Marks) /\ NotThriceInARow(prints') /\ Len(prints') <= 3
    BY <1>1, <2>1, <2>2, OneMarkMore DEF PolicyTypeOK
  <2>4. QED
    BY <1>1, <1>3, <2>3 DEF OverBudget, Write, PolicyInv, PolicyTypeOK
<1>4. CASE CallTool(role, tool, args)
  <2> DEFINE Ends(decision, consent, ran) ==
               /\ Write(role, tool, args, decision, consent, ran)
               /\ prints' = LastThree(Append(prints, [print |-> print, ran |-> ran]))
  <2>1. \/ tool \in DESTRUCTIVE /\ Ends("allow", TRUE, TRUE)
        \/ Ends("deny:no_human_approval", FALSE, FALSE) \/ Ends("allow", FALSE, FALSE)
        \/ tool \notin DESTRUCTIVE /\ Ends("allow", FALSE, TRUE)
    <3>1. PICK word \in (IF tool \in DESTRUCTIVE THEN {"yes", "no", "raises"} ELSE {"not asked"}) :
            Ends(IF word = "no" THEN "deny:no_human_approval" ELSE "allow", word = "yes",
                 word \in {"yes", "not asked"})
      BY <1>4 DEF CallTool
    <3>2. CASE word = "yes"
      <4>1. (word = "yes") = TRUE /\ (word \in {"yes", "not asked"}) = TRUE
        BY <3>2
      <4>2. QED
        BY <3>1, <3>2, <4>1
    <3>3. CASE word = "no"
      <4>1. (word = "yes") = FALSE /\ (word \in {"yes", "not asked"}) = FALSE
        BY <3>3
      <4>2. QED
        BY <3>1, <3>3, <4>1
    <3>6. CASE word = "raises"
      <4>1. (word = "yes") = FALSE /\ (word \in {"yes", "not asked"}) = FALSE
        BY <3>6
      <4>2. QED
        BY <3>1, <3>6, <4>1
    <3>4. CASE word = "not asked"
      <4>1. (word = "yes") = FALSE /\ (word \in {"yes", "not asked"}) = TRUE
        BY <3>4
      <4>2. QED
        BY <3>1, <3>4, <4>1
    <3>5. QED
      BY <3>1, <3>2, <3>3, <3>4, <3>6
  <2>2. /\ ~ Looped(prints, print) /\ steps' = steps + 1 /\ WithinLimits
        /\ tool \in ALLOW[role] /\ args.fits
    BY <1>4 DEF CallTool, Fitting
  <2>3. PICK ran \in BOOLEAN, consent \in BOOLEAN, decision \in {"allow", "deny:no_human_approval"} :
          /\ Ends(decision, consent, ran)
          /\ ran => decision = "allow" /\ (tool \in DESTRUCTIVE => consent)
    BY <2>1
  <2>4. [print |-> print, ran |-> ran] \in Marks
    BY DEF Marks
  <2>5. prints' \in Seq(Marks) /\ NotThriceInARow(prints') /\ Len(prints') <= 3
    BY <1>1, <2>2, <2>3, <2>4, OneMarkMore DEF PolicyTypeOK
  <2>6. QED
    BY <1>1, <2>2, <2>3, <2>5, PolicyAssumption DEF Write, WithinLimits, PolicyInv, PolicyTypeOK
<1>5. QED
  BY <1>2, <1>3, <1>4

\* The invariant of the gate.
LEMMA PolicyInvariant == PolicySpec => []PolicyInv
<1>1. PolicyInit => PolicyInv
  <2> SUFFICES ASSUME PolicyInit
               PROVE  PolicyInv
    OBVIOUS
  <2>1. prints \in Seq(Marks) /\ Len(prints) = 0
    BY DEF PolicyInit
  <2>2. ~ line.ran /\ line.decision = "none" /\ NotThriceInARow(prints)
    BY <2>1 DEF PolicyInit, NoLine, NotThriceInARow
  <2>3. PolicyTypeOK
    <3>1. Len(prints) <= 3
      BY <2>1
    <3>2. steps = 0 /\ calls = 0 /\ lines = 0 /\ overtime \in BOOLEAN
      BY DEF PolicyInit
    <3>3. QED
      BY <2>2, <3>1, <3>2 DEF PolicyTypeOK
  <2>4. QED
    BY <2>1, <2>2, <2>3 DEF PolicyInit, PolicyInv
<1>2. PolicyInv /\ [PolicyNext]_policyVars => PolicyInv'
  <2>1. PolicyInv /\ UNCHANGED policyVars => PolicyInv'
    BY DEF policyVars, PolicyInv, PolicyTypeOK, NotThriceInARow
  <2>2. PolicyInv /\ TimeIsUp => PolicyInv'
    BY DEF TimeIsUp, PolicyInv, PolicyTypeOK, NotThriceInARow
  <2>3. QED
    BY <2>1, <2>2, EnforceStep DEF PolicyNext
<1>3. QED
  BY <1>1, <1>2, PTL DEF PolicySpec

\* What ran was allowed to its role with arguments that fit, within the steps,
\* with consent where it cannot be undone, and not three times in a row; every
\* call has its line (enforce and Budget.charge of core/policy.py).
THEOREM OnlyWhatPolicyAllowsHolds == PolicySpec => []OnlyWhatPolicyAllows
<1>1. PolicyInv => OnlyWhatPolicyAllows
  BY DEF PolicyInv, NotThriceInARow, OnlyWhatPolicyAllows
<1>2. QED
  BY <1>1, PolicyInvariant, PTL

-----------------------------------------------------------------------------
(* The doors together.                                                      *)

\* Each door of the composition takes its own steps only.
LEMMA DoorsApart ==
    DoorSpec => Spec /\ IntakeSpec /\ CallsSpec /\ LimiterSpec /\ PolicySpec
<1>1. DoorInit => Init /\ IntakeInit /\ CallsInit /\ LimiterInit /\ PolicyInit
  BY DEF DoorInit
<1>2. [DoorNext]_doorVars => /\ [Next]_vars /\ [IntakeNext]_intakeVars /\ [CallsNext]_callVars
                            /\ [LimiterNext]_limiterVars /\ [PolicyNext]_policyVars
  BY DEF DoorNext, doorVars
<1>3. QED
  BY <1>1, <1>2, PTL DEF DoorSpec, Spec, IntakeSpec, CallsSpec, LimiterSpec, PolicySpec

\* Every variable of the doors keeps its type.
THEOREM DoorTypesHold == DoorSpec => []DoorTypeOK
<1>1. AdmissionInv /\ IntakeTypeOK /\ CallsTypeOK /\ LimiterTypeOK /\ PolicyInv => DoorTypeOK
  BY DEF AdmissionInv, PolicyInv, DoorTypeOK
<1>2. QED
  BY <1>1, DoorsApart, AdmissionInvariant, IntakeTypesHold, CallsTypesHold, LimiterTypesHold,
     PolicyInvariant, PTL

\* What each door promises holds of the doors together: the states of the run.
THEOREM DoorsKeepPromises ==
    DoorSpec => [](/\ QueueExcessBounded /\ NothingHalfStored /\ QuotaExcessBounded
                   /\ ServedWithinRights /\ PruningGivesNothing /\ OnlyWhatPolicyAllows)
BY DoorsApart, QueueExcessBoundedHolds, NothingHalfStoredHolds, QuotaExcessBoundedHolds,
   ServedWithinRightsHolds, PruningGivesNothingHolds, OnlyWhatPolicyAllowsHolds, PTL
=============================================================================
