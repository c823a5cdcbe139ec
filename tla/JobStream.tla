------------------------------ MODULE JobStream ------------------------------
(***************************************************************************)
(* GET .../jobs/{job_id}/events: the server-sent events of one job, fed by *)
(* JobBus.  Writers commit the job's row first and publish afterwards; a   *)
(* stream clears its event, reads the row, sends what changed and waits.   *)
(* A stream holds a slot of JobBus, given back by the generator's finally  *)
(* block and again by the response's background task, which Starlette runs *)
(* in a worker thread because StreamSlot.release is not a coroutine.       *)
(***************************************************************************)
EXTENDS Naturals, FiniteSets, FiniteSetsExt

CONSTANTS
    Streams,   \* requests for the job's events
    Keys,      \* principals, as principal_key tells them apart
    KeyOf,     \* the principal of a request
    PerKey,    \* daas_sse_max_per_principal
    Total,     \* daas_sse_max_total
    Percents,  \* values of Job.progress, ordered
    NoRow      \* nothing sent yet

ASSUME StreamAssumption ==
    /\ KeyOf \in [Streams -> Keys]
    /\ PerKey \in Nat \ {0}
    /\ Total \in Nat \ {0}
    /\ Percents \subseteq Nat
    /\ IsFiniteSet(Keys)

VARIABLES
    row,          \* the committed job row: status and progress
    unpublished,  \* commits whose bus.publish is still to come
    closing,      \* JobBus.closing
    pc,           \* where the generator of a stream stands
    last,         \* the row it sent last
    event,        \* its asyncio.Event is set
    held,         \* its StreamSlot is not released
    count,        \* JobBus._streams
    bg,           \* the background task: none, due, marked, read or done
    left          \* what the background task read of count

busVars == <<row, unpublished, closing>>
genVars == <<pc, last, event>>
slotVars == <<held, count, bg, left>>
vars == <<busVars, genVars, slotVars>>

Terminal == {"succeeded", "failed", "cancelled"}
Rows == [status : {"queued", "running", "gone"} \cup Terminal,
         progress : Percents]

\* opened: the slot is taken, the generator not begun; started: suspended in
\* the first yield, before the try block; reading, sending, polled, waiting:
\* the awaits of its loop; abandoned: suspended in a yield nobody resumes;
\* leaked: as abandoned, but before the try block; over: finally has run.
Live == {"opened", "started", "reading", "sending", "polled", "waiting"}
PCs == {"none", "abandoned", "leaked", "over"} \cup Live
Subscribed == {s \in Streams : pc[s] \notin {"none", "opened", "over"}}

TypeOK ==
    /\ row \in Rows
    /\ unpublished \in Nat
    /\ closing \in BOOLEAN
    /\ pc \in [Streams -> PCs]
    /\ last \in [Streams -> Rows \cup {NoRow}]
    /\ event \in [Streams -> BOOLEAN]
    /\ held \in [Streams -> BOOLEAN]
    /\ count \in [Keys -> Nat]
    /\ bg \in [Streams -> {"none", "due", "marked", "read", "done"}]
    /\ left \in [Streams -> Nat]

Init ==
    /\ row \in {r \in Rows : r.status = "queued" /\ r.progress = 0}
    /\ unpublished = 0
    /\ closing = FALSE
    /\ pc = [s \in Streams |-> "none"]
    /\ last = [s \in Streams |-> NoRow]
    /\ event = [s \in Streams |-> FALSE]
    /\ held = [s \in Streams |-> FALSE]
    /\ count = [k \in Keys |-> 0]
    /\ bg = [s \in Streams |-> "none"]
    /\ left = [s \in Streams |-> 0]

-----------------------------------------------------------------------------
(* The writers of the row: executor, cancel_job and delete_org.             *)

\* queued -> running -> more progress -> an end; JobExecutor has who does it.
Follows(new) ==
    /\ row.status \in {"queued", "running"}
    /\ \/ new.status \in Terminal
       \/ /\ new.status = "running"
          /\ row.status = "queued" \/ new.progress > row.progress

\* A commit; bus.publish comes after it, when the writer runs again.
Commit(new) ==
    /\ Follows(new)
    /\ row' = new
    /\ unpublished' = unpublished + 1
    /\ UNCHANGED <<closing, genVars, slotVars>>

\* JobBus.publish: every subscriber's event is set.  A writer publishes also
\* when its UPDATE found nothing to change: a late progress, a row that is gone.
Publish ==
    /\ \/ unpublished > 0 /\ unpublished' = unpublished - 1
       \/ UNCHANGED unpublished
    /\ event' = [s \in Streams |-> event[s] \/ s \in Subscribed]
    /\ UNCHANGED <<row, closing, pc, last, slotVars>>

\* delete_org counts the active jobs in one statement and deletes in a later
\* one: the cascade takes whatever rows there are by then, a job queued or
\* claimed meanwhile among them, and nothing is published.
DeleteRow ==
    /\ row.status # "gone"
    /\ row' = [row EXCEPT !.status = "gone"]
    /\ UNCHANGED <<unpublished, closing, genVars, slotVars>>

\* JobBus.shutdown: the flag, and every stream is woken to see it.
Shutdown ==
    /\ ~closing
    /\ closing' = TRUE
    /\ event' = [s \in Streams |-> event[s] \/ s \in Subscribed]
    /\ UNCHANGED <<row, unpublished, pc, last, slotVars>>

-----------------------------------------------------------------------------
(* Slots.                                                                   *)

\* Variant: _release without the floor at zero.
LessOneUnfloored(n) == n - 1

\* _release: one less, and the key goes when nothing is left.
LessOne(n) == IF n > 1 THEN n - 1 ELSE 0

\* Threads that have read the count of a key and are about to write it: their
\* write can fall between the read and the write that the event loop makes,
\* and is then lost.
Racing(k) == {t \in Streams : KeyOf[t] = k /\ bg[t] = "read"}

\* What became of the background tasks when the loop changed count[k]: the
\* writes of `lost` were overwritten, and the task of each stream in `due`
\* may start.
Threads(k, due) ==
    \E lost \in SUBSET Racing(k) :
        bg' = [t \in Streams |-> IF t \in lost THEN "done"
                                 ELSE IF t \in due THEN "due" ELSE bg[t]]

\* job_events: open_stream has room for the principal and in total.
Open(s) ==
    LET k == KeyOf[s] IN
    /\ pc[s] = "none"
    /\ ~closing
    /\ count[k] < PerKey
    /\ MapThenSumSet(LAMBDA key : count[key], Keys) < Total
    /\ pc' = [pc EXCEPT ![s] = "opened"]
    /\ held' = [held EXCEPT ![s] = TRUE]
    /\ count' = [count EXCEPT ![k] = @ + 1]
    /\ Threads(k, {})
    /\ UNCHANGED <<busVars, last, event, left>>

\* finally: unsubscribe and release, which does nothing the second time; the
\* response's background task is due afterwards unless it ran before.
Finally(s) ==
    LET due == IF bg[s] = "none" THEN {s} ELSE {} IN
    /\ pc' = [pc EXCEPT ![s] = "over"]
    /\ event' = [event EXCEPT ![s] = FALSE]
    /\ held' = [held EXCEPT ![s] = FALSE]
    /\ IF held[s]
       THEN /\ count' = [count EXCEPT ![KeyOf[s]] = LessOne(@)]
            /\ Threads(KeyOf[s], due)
       ELSE /\ UNCHANGED count
            /\ bg' = [t \in Streams |-> IF t \in due THEN "due" ELSE bg[t]]
    /\ UNCHANGED <<busVars, last, left>>

\* Variant: nothing releases the slot of a response that never started.
BackgroundNothing(s) ==
    /\ bg[s] = "due"
    /\ bg' = [bg EXCEPT ![s] = "done"]
    /\ UNCHANGED <<busVars, genVars, held, count, left>>

\* StreamSlot.release in the worker thread: the flag is tested and set ...
BackgroundMark(s) ==
    /\ bg[s] = "due"
    /\ bg' = [bg EXCEPT ![s] = IF held[s] THEN "marked" ELSE "done"]
    /\ held' = [held EXCEPT ![s] = FALSE]
    /\ UNCHANGED <<busVars, genVars, count, left>>

\* ... JobBus._release reads the count ...
BackgroundRead(s) ==
    /\ bg[s] = "marked"
    /\ bg' = [bg EXCEPT ![s] = "read"]
    /\ left' = [left EXCEPT ![s] = LessOne(count[KeyOf[s]])]
    /\ UNCHANGED <<busVars, genVars, held, count>>

\* ... and writes it back, whatever the event loop did in between.
BackgroundWrite(s) ==
    /\ bg[s] = "read"
    /\ bg' = [bg EXCEPT ![s] = "done"]
    /\ count' = [count EXCEPT ![KeyOf[s]] = left[s]]
    /\ UNCHANGED <<busVars, genVars, held, left>>

-----------------------------------------------------------------------------
(* The generator _event_stream.                                             *)

Goto(s, from, to) ==
    /\ pc[s] = from
    /\ pc' = [pc EXCEPT ![s] = to]

\* subscribe, then the first chunk ("retry: 3000").
Begin(s) ==
    /\ Goto(s, "opened", "started")
    /\ UNCHANGED <<busVars, last, event, slotVars>>

\* Into the loop: event.clear() before the row is read.
EnterLoop(s) ==
    /\ Goto(s, "started", "reading")
    /\ event' = [event EXCEPT ![s] = FALSE]
    /\ UNCHANGED <<busVars, last, slotVars>>

\* The SELECT; what differs from `last` is sent.
Read(s) ==
    /\ Goto(s, "reading", "sending")
    /\ last' = [last EXCEPT ![s] = row]
    /\ UNCHANGED <<busVars, event, slotVars>>

\* The chunks are sent: a finished or vanished job, a closing server and the
\* maximum lifetime end the stream ...
EndStream(s) ==
    /\ pc[s] = "sending"
    /\ Finally(s)

\* ... which goes on only when the job has not ended and the server is not
\* closing.
StayOpen(s) ==
    /\ Goto(s, "sending", "polled")
    /\ last[s].status \in {"queued", "running"}
    /\ ~closing
    /\ UNCHANGED <<busVars, last, event, slotVars>>

\* request.is_disconnected() answers.
Disconnected(s) ==
    /\ pc[s] = "polled"
    /\ Finally(s)

\* Variant: the event is cleared where the wait begins.
AwaitClearing(s) ==
    /\ Goto(s, "polled", "waiting")
    /\ event' = [event EXCEPT ![s] = FALSE]
    /\ UNCHANGED <<busVars, last, slotVars>>

\* wait_for(event.wait(), timeout) begins.
Await(s) ==
    /\ Goto(s, "polled", "waiting")
    /\ UNCHANGED <<busVars, last, event, slotVars>>

\* Variant: wait() without the fallback timeout.
WakeOnEventOnly(s) ==
    /\ Goto(s, "waiting", "reading")
    /\ event[s]
    /\ event' = [event EXCEPT ![s] = FALSE]
    /\ UNCHANGED <<busVars, last, slotVars>>

\* wait_for returns, by the event or by its timeout, and the loop clears the
\* event again.
Wake(s) ==
    /\ Goto(s, "waiting", "reading")
    /\ event' = [event EXCEPT ![s] = FALSE]
    /\ UNCHANGED <<busVars, last, slotVars>>

\* The client goes away, or a stopping server cancels the request.  Inside an
\* await of the generator finally runs at once; in a yield the generator is
\* only dropped.
CancelRequest(s) ==
    \/ /\ pc[s] \in {"reading", "polled", "waiting"}
       /\ Finally(s)
    \/ /\ pc[s] \in {"opened", "started", "sending"}
       /\ pc' = [pc EXCEPT ![s] = CASE @ = "opened" -> "over"
                                    [] @ = "started" -> "leaked"
                                    [] @ = "sending" -> "abandoned"]
       /\ bg' = [bg EXCEPT ![s] = "due"]
       /\ UNCHANGED <<busVars, last, event, held, count, left>>

\* The dropped generator is collected and closed: its finally runs, late.
Collect(s) ==
    /\ pc[s] = "abandoned"
    /\ Finally(s)

-----------------------------------------------------------------------------
GeneratorStep(s) ==
    \/ Begin(s)
    \/ EnterLoop(s)
    \/ Read(s)
    \/ EndStream(s)
    \/ StayOpen(s)
    \/ Disconnected(s)
    \/ Await(s)
    \/ Wake(s)

BackgroundStep(s) ==
    \/ BackgroundMark(s)
    \/ BackgroundRead(s)
    \/ BackgroundWrite(s)

Next ==
    \/ \E new \in Rows : Commit(new)
    \/ Publish
    \/ DeleteRow
    \/ Shutdown
    \/ \E s \in Streams :
          \/ Open(s)
          \/ GeneratorStep(s)
          \/ CancelRequest(s)
          \/ Collect(s)
          \/ BackgroundStep(s)

Spec == Init /\ [][Next]_vars

\* The loop runs every generator that can go on and the client reads what it
\* is sent; Publish has no fairness, because a handler may fail between its
\* commit and its publish.
FairSpec ==
    /\ Spec
    /\ \A s \in Streams :
          /\ WF_vars(GeneratorStep(s))
          /\ WF_vars(BackgroundStep(s))

-----------------------------------------------------------------------------
\* The stream has sent the row as it is, or as it was when it was deleted.
HasSent(s) == last[s] = row \/ row = [last[s] EXCEPT !.status = "gone"]

\* A stream sleeps without a signal only when it has sent every change of the
\* row, once every commit was published (executor.py:67-71, jobs.py:204-206):
\* an event that is published while the row is being read is not lost.  The
\* one thing that it may sleep over is the deletion of the row, which nobody
\* publishes (orgs.py:98-99); the fallback poll finds it (StreamEnds).
NoLostWakeup ==
    \A s \in Streams :
        pc[s] = "waiting" /\ ~event[s] /\ unpublished = 0 => HasSent(s)

\* "shutdown() wakes all streams, which then end by themselves"
\* (executor.py:70-71): also one that was between its check of `closing` and
\* its wait.
ShutdownWakes ==
    closing => \A s \in Streams : pc[s] = "waiting" => event[s]

\* No wake-up is missed, whether of a change or of the shutdown.
NoMissedWakeup == NoLostWakeup /\ ShutdownWakes

\* However a request ends, its slot is given back: by finally, or by the
\* background task when the generator never ran or was dropped
\* (jobs.py:241-243, 270-273).
SlotGivenBack ==
    \A s \in Streams :
        held[s] => pc[s] \in Live \/ bg[s] = "due"

\* A stream ends once the job has ended or is gone or the server is closing,
\* even when the handler that changed the row failed before it published or,
\* like delete_org, publishes nothing (jobs.py:208-210, 221-226, 236-240).
StreamEnds ==
    \A s \in Streams :
        pc[s] \in Live /\ (row.status \in Terminal \cup {"gone"} \/ closing)
            ~> pc[s] \notin Live

\* "DAAS_SSE_MAX_PER_PRINCIPAL open streams per key or session"
\* (docs/API.md:294).
StreamLimitKept ==
    \A k \in Keys :
        Cardinality({s \in Streams : KeyOf[s] = k /\ pc[s] \in Live}) <= PerKey

-----------------------------------------------------------------------------
\* The inductive parts: what holds from the read of the row to the wait.
ReadIsCurrent ==
    \A s \in Streams :
        /\ pc[s] = "sending" /\ ~event[s] /\ unpublished = 0 =>
              HasSent(s) \/ last[s].status \in Terminal
        /\ pc[s] \in {"polled", "waiting"} =>
              last[s].status \in {"queued", "running"}
        /\ pc[s] \in {"polled", "waiting"} /\ ~event[s] /\ unpublished = 0 => HasSent(s)
        /\ pc[s] \in {"sending", "polled", "waiting"} => last[s] \in Rows

ClosingIsSeen ==
    closing => \A s \in Streams : pc[s] \in {"polled", "waiting"} => event[s]

BackgroundDue ==
    \A s \in Streams :
        /\ bg[s] # "none" => pc[s] \notin Live
        /\ pc[s] \notin Live /\ pc[s] # "none" => bg[s] # "none"
        /\ bg[s] \in {"marked", "read", "done"} => ~held[s]
        /\ pc[s] = "none" => ~held[s] /\ bg[s] = "none"

StreamInv ==
    /\ TypeOK
    /\ ReadIsCurrent
    /\ ClosingIsSeen
    /\ BackgroundDue
=============================================================================
