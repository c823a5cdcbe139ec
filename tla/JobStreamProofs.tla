--------------------------- MODULE JobStreamProofs ---------------------------
(***************************************************************************)
(* Proofs about JobStream for any number of streams, principals and        *)
(* limits: no wake-up is lost, a shutdown wakes every stream, and every    *)
(* slot is given back.                                                     *)
(***************************************************************************)
EXTENDS JobStream, TLAPS

\* Whatever becomes of the background tasks when the loop changes a count,
\* they stay background tasks; only a task in `due` can become due.
LEMMA ThreadsFacts ==
    ASSUME bg \in [Streams -> {"none", "due", "marked", "read", "done"}],
           NEW k \in Keys, NEW due, Threads(k, due)
    PROVE  /\ bg' \in [Streams -> {"none", "due", "marked", "read", "done"}]
           /\ \A t \in Streams :
                 bg'[t] = bg[t] \/ (bg[t] = "read" /\ bg'[t] = "done")
                 \/ (t \in due /\ bg'[t] = "due")
  BY DEF Threads, Racing

\* The floored subtraction of _release is a natural number.
LEMMA LessOneNat ==
    ASSUME NEW n \in Nat
    PROVE  LessOne(n) \in Nat
  BY DEF LessOne

\* The generator's finally block keeps the invariant, whatever ends the
\* stream.
LEMMA FinallyKeeps ==
    ASSUME StreamInv, NEW s \in Streams, pc[s] # "none", pc[s] # "opened",
           pc[s] # "over", pc[s] # "leaked", Finally(s)
    PROVE  StreamInv'
<1> USE StreamAssumption
<1> DEFINE D == IF bg[s] = "none" THEN {s} ELSE {}
<1>0. KeyOf[s] \in Keys
  OBVIOUS
<1>1. /\ bg' \in [Streams -> {"none", "due", "marked", "read", "done"}]
      /\ \A t \in Streams :
            bg'[t] = bg[t] \/ (bg[t] = "read" /\ bg'[t] = "done")
            \/ (t \in D /\ bg'[t] = "due")
  <2>1. CASE held[s]
    BY <1>0, <2>1, ThreadsFacts DEF Finally, StreamInv, TypeOK
  <2>2. CASE ~held[s]
    BY <2>2 DEF Finally, StreamInv, TypeOK
  <2>3. QED
    BY <2>1, <2>2
<1>2. bg[s] = "none" => bg'[s] = "due"
  BY DEF Finally, Threads, Racing, StreamInv, TypeOK
<1>3. count' \in [Keys -> Nat]
  BY <1>0, LessOneNat DEF Finally, StreamInv, TypeOK
<1>4. TypeOK'
  BY <1>1, <1>3 DEF Finally, StreamInv, TypeOK, PCs, busVars
<1>5. ReadIsCurrent' /\ ClosingIsSeen'
  BY DEF Finally, StreamInv, TypeOK, ReadIsCurrent, HasSent, ClosingIsSeen, busVars
<1>6. BackgroundDue'
  BY <1>1, <1>2 DEF Finally, StreamInv, TypeOK, BackgroundDue, Live
<1>7. QED
  BY <1>4, <1>5, <1>6 DEF StreamInv

\* Every step keeps the invariant.
LEMMA StreamStep == StreamInv /\ [Next]_vars => StreamInv'
<1> SUFFICES ASSUME StreamInv, [Next]_vars
             PROVE  StreamInv'
  OBVIOUS
<1> USE StreamAssumption
<1>1. CASE \E new \in Rows : Commit(new)
  BY <1>1 DEF Commit, Follows, StreamInv, TypeOK, ReadIsCurrent, HasSent,
     ClosingIsSeen, BackgroundDue, genVars, slotVars, Rows, Terminal
<1>2. CASE Publish
  <2>1. TypeOK'
    BY <1>2 DEF Publish, StreamInv, TypeOK, slotVars
  <2>2. \A s \in Streams : /\ ~event'[s] => ~event[s] /\ s \notin Subscribed
                           /\ event[s] => event'[s]
    BY <1>2 DEF Publish
  <2>3. \A s \in Streams :
           ~event'[s] => pc[s] \notin {"sending", "polled", "waiting"}
    BY <2>2 DEF Subscribed
  <2>4. ReadIsCurrent'
    BY <1>2, <2>3 DEF Publish, StreamInv, ReadIsCurrent, HasSent
  <2>5. ClosingIsSeen'
    BY <1>2, <2>3 DEF Publish, ClosingIsSeen
  <2>6. BackgroundDue'
    BY <1>2 DEF Publish, StreamInv, BackgroundDue, slotVars
  <2>7. QED
    BY <2>1, <2>4, <2>5, <2>6 DEF StreamInv
<1>3. CASE DeleteRow
  BY <1>3 DEF DeleteRow, StreamInv, TypeOK, ReadIsCurrent, HasSent, ClosingIsSeen,
     BackgroundDue, genVars, slotVars, Rows, Terminal
<1>4. CASE Shutdown
  BY <1>4 DEF Shutdown, StreamInv, TypeOK, ReadIsCurrent, HasSent, ClosingIsSeen,
     BackgroundDue, slotVars, Subscribed
<1>5. CASE \E s \in Streams : Open(s)
  <2> SUFFICES ASSUME NEW s \in Streams, Open(s)
               PROVE  StreamInv'
    BY <1>5
  <2>1. /\ bg' \in [Streams -> {"none", "due", "marked", "read", "done"}]
        /\ \A t \in Streams :
              bg'[t] = bg[t] \/ (bg[t] = "read" /\ bg'[t] = "done")
    BY ThreadsFacts DEF Open, StreamInv, TypeOK
  <2>2. TypeOK'
    <3>1. pc' \in [Streams -> PCs]
      BY DEF Open, StreamInv, TypeOK, PCs, Live
    <3>2. held' \in [Streams -> BOOLEAN]
      BY DEF Open, StreamInv, TypeOK
    <3>3. count' \in [Keys -> Nat]
      BY DEF Open, StreamInv, TypeOK
    <3>4. QED
      BY <2>1, <3>1, <3>2, <3>3 DEF Open, StreamInv, TypeOK, busVars
  <2>3. ReadIsCurrent' /\ ClosingIsSeen'
    BY DEF Open, StreamInv, TypeOK, ReadIsCurrent, HasSent, ClosingIsSeen, busVars
  <2>4. BackgroundDue'
    <3>1. /\ pc[s] = "none"
          /\ pc' = [pc EXCEPT ![s] = "opened"]
          /\ held' = [held EXCEPT ![s] = TRUE]
      BY DEF Open
    <3>2. bg[s] = "none" /\ bg'[s] = "none"
      BY <2>1, <3>1 DEF StreamInv, BackgroundDue, TypeOK, Live
    <3>3. SUFFICES ASSUME NEW t \in Streams
                   PROVE  /\ bg'[t] # "none" => pc'[t] \notin Live
                          /\ pc'[t] \notin Live /\ pc'[t] # "none" => bg'[t] # "none"
                          /\ bg'[t] \in {"marked", "read", "done"} => ~held'[t]
                          /\ pc'[t] = "none" => ~held'[t] /\ bg'[t] = "none"
      BY DEF BackgroundDue
    <3>4. CASE t = s
      BY <3>1, <3>2, <3>4 DEF StreamInv, TypeOK, Live
    <3>5. CASE t # s
      <4>1. pc'[t] = pc[t] /\ held'[t] = held[t]
        BY <3>1, <3>5 DEF StreamInv, TypeOK
      <4>2. QED
        BY <2>1, <4>1 DEF StreamInv, BackgroundDue
    <3>6. QED
      BY <3>4, <3>5
  <2>5. QED
    BY <2>2, <2>3, <2>4 DEF StreamInv
<1>6. CASE \E s \in Streams : GeneratorStep(s)
  <2> SUFFICES ASSUME NEW s \in Streams, GeneratorStep(s)
               PROVE  StreamInv'
    BY <1>6
  <2>1. CASE Begin(s)
    BY <2>1 DEF Begin, Goto, StreamInv, TypeOK, PCs, Live,
       ReadIsCurrent, HasSent, ClosingIsSeen, BackgroundDue, busVars, slotVars
  <2>6. CASE EnterLoop(s) \/ Wake(s)
    <3>1. /\ pc[s] \in {"started", "waiting"}
          /\ pc' = [pc EXCEPT ![s] = "reading"]
          /\ event' = [event EXCEPT ![s] = FALSE]
          /\ UNCHANGED <<busVars, last, slotVars>>
      BY <2>6 DEF EnterLoop, Wake, Goto
    <3>2. TypeOK'
      BY <3>1 DEF StreamInv, TypeOK, PCs, Live, busVars, slotVars
    <3>3. ReadIsCurrent' /\ ClosingIsSeen'
      BY <3>1 DEF StreamInv, TypeOK, ReadIsCurrent, HasSent, ClosingIsSeen, busVars
    <3>4. BackgroundDue'
      BY <3>1 DEF StreamInv, TypeOK, BackgroundDue, Live, slotVars
    <3>5. QED
      BY <3>2, <3>3, <3>4 DEF StreamInv
  <2>2. CASE Read(s)
    BY <2>2 DEF Read, Goto, StreamInv, TypeOK, PCs, Live, ReadIsCurrent, HasSent,
       ClosingIsSeen, BackgroundDue, busVars, slotVars
  <2>3. CASE StayOpen(s) \/ Await(s)
    BY <2>3 DEF StayOpen, Await, Goto, StreamInv, TypeOK, PCs, Live, Terminal,
       ReadIsCurrent, HasSent, ClosingIsSeen, BackgroundDue, busVars, slotVars
  <2>4. CASE EndStream(s) \/ Disconnected(s)
    BY <2>4, FinallyKeeps DEF EndStream, Disconnected
  <2>5. QED
    BY <2>1, <2>2, <2>3, <2>4, <2>6 DEF GeneratorStep
<1>7. CASE \E s \in Streams : CancelRequest(s) \/ Collect(s)
  <2> SUFFICES ASSUME NEW s \in Streams, CancelRequest(s) \/ Collect(s)
               PROVE  StreamInv'
    BY <1>7
  <2>1. CASE pc[s] \in {"reading", "polled", "waiting"} /\ Finally(s)
    BY <2>1, FinallyKeeps
  <2>2. CASE Collect(s)
    BY <2>2, FinallyKeeps DEF Collect
  <2>3. CASE /\ pc[s] \in {"opened", "started", "sending"}
             /\ pc' = [pc EXCEPT ![s] = CASE @ = "opened" -> "over"
                                          [] @ = "started" -> "leaked"
                                          [] @ = "sending" -> "abandoned"]
             /\ bg' = [bg EXCEPT ![s] = "due"]
             /\ UNCHANGED <<busVars, last, event, held, count, left>>
    BY <2>3 DEF StreamInv, TypeOK, PCs, Live, ReadIsCurrent, HasSent, ClosingIsSeen,
       BackgroundDue, busVars
  <2>4. QED
    BY <2>1, <2>2, <2>3 DEF CancelRequest
<1>8. CASE \E s \in Streams : BackgroundStep(s)
  <2> SUFFICES ASSUME NEW s \in Streams, BackgroundStep(s)
               PROVE  StreamInv'
    BY <1>8
  <2>1. CASE BackgroundMark(s)
    BY <2>1 DEF BackgroundMark, StreamInv, TypeOK, ReadIsCurrent, HasSent,
       ClosingIsSeen, BackgroundDue, busVars, genVars, Live
  <2>2. CASE BackgroundRead(s)
    BY <2>2, LessOneNat DEF BackgroundRead, StreamInv, TypeOK, ReadIsCurrent, HasSent,
       ClosingIsSeen, BackgroundDue, busVars, genVars, Live
  <2>3. CASE BackgroundWrite(s)
    BY <2>3 DEF BackgroundWrite, StreamInv, TypeOK, ReadIsCurrent, HasSent,
       ClosingIsSeen, BackgroundDue, busVars, genVars, Live
  <2>4. QED
    BY <2>1, <2>2, <2>3 DEF BackgroundStep
<1>9. CASE UNCHANGED vars
  BY <1>9 DEF vars, busVars, genVars, slotVars, StreamInv, TypeOK,
     ReadIsCurrent, HasSent, ClosingIsSeen, BackgroundDue
<1>10. QED
  BY <1>1, <1>2, <1>3, <1>4, <1>5, <1>6, <1>7, <1>8, <1>9 DEF Next

\* The invariant holds in every reachable state.
THEOREM StreamInvariant == Spec => []StreamInv
<1>1. Init => StreamInv
  <2> SUFFICES ASSUME Init
               PROVE  StreamInv
    OBVIOUS
  <2>1. TypeOK
    BY DEF Init, TypeOK, PCs
  <2>2. ReadIsCurrent /\ ClosingIsSeen
    BY DEF Init, ReadIsCurrent, HasSent, ClosingIsSeen
  <2>3. BackgroundDue
    BY DEF Init, BackgroundDue, Live
  <2>4. QED
    BY <2>1, <2>2, <2>3 DEF StreamInv
<1>2. QED
  BY <1>1, StreamStep, PTL DEF Spec

\* An event published while a stream reads the row is never lost
\* (executor.py:67-71, jobs.py:204-206).
THEOREM NoLostWakeupHolds == Spec => []NoLostWakeup
<1>1. StreamInv => NoLostWakeup
  BY DEF StreamInv, ReadIsCurrent, HasSent, NoLostWakeup
<1>2. QED
  BY <1>1, StreamInvariant, PTL

\* A closing server leaves no stream asleep (executor.py:113-118).
THEOREM ShutdownWakesHolds == Spec => []ShutdownWakes
<1>1. StreamInv => ShutdownWakes
  BY DEF StreamInv, ClosingIsSeen, ShutdownWakes
<1>2. QED
  BY <1>1, StreamInvariant, PTL

\* Neither a change nor the shutdown leaves a stream asleep.
THEOREM NoMissedWakeupHolds == Spec => []NoMissedWakeup
  BY NoLostWakeupHolds, ShutdownWakesHolds, PTL DEF NoMissedWakeup

\* Whatever ends a request, its slot is released (jobs.py:241-243, 270-273).
THEOREM SlotGivenBackHolds == Spec => []SlotGivenBack
<1>1. StreamInv => SlotGivenBack
  BY DEF StreamInv, TypeOK, BackgroundDue, SlotGivenBack, PCs
<1>2. QED
  BY <1>1, StreamInvariant, PTL

\* Every variable keeps its type.
THEOREM StreamTypes == Spec => []TypeOK
<1>1. StreamInv => TypeOK
  BY DEF StreamInv
<1>2. QED
  BY <1>1, StreamInvariant, PTL
=============================================================================
