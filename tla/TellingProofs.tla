---------------------------- MODULE TellingProofs ----------------------------
(***************************************************************************)
(* Services beside the jobs: proofs about the reminder's slots, about the  *)
(* deliveries of a finished run, and about the runners that stay open.     *)
(***************************************************************************)
EXTENDS Reminder, WebhookDelivery, TenantRegistry, FiniteSetTheorems, TLAPS

-----------------------------------------------------------------------------
(* Reminders.                                                              *)

PlanColumns == {"on", "phase", "next"}

RowTypes ==
    /\ armed \in [Slots -> Nat] /\ mailed \in [Slots -> Nat]
    /\ sender = [s \in Senders |-> sender[s]]
    /\ saver = [v \in Savers |-> saver[v]]
    /\ plan = [c \in PlanColumns |-> plan[c]]
    /\ \A v \in Savers : saver[v].at = "put" =>
         saver[v].new = [c \in PlanColumns |-> saver[v].new[c]]

\* Senders that have claimed slot t and not mailed yet.
Holders(t) == {s \in Senders : sender[s].at = "claimed" /\ sender[s].due = t}
Waiting(t) == IF plan.next = t THEN 1 ELSE 0

\* A slot that was written is still in the row, with a sender, or done.
SlotsAddUp == \A t \in Slots : mailed[t] + Cardinality(Holders(t)) + Waiting(t) <= armed[t]

SlotInv == RowTypes /\ SlotsAddUp

LEMMA HoldersFinite ==
    ASSUME NEW t
    PROVE  IsFiniteSet(Holders(t)) /\ Cardinality(Holders(t)) \in Nat
BY ReminderAssumption, FS_Subset, FS_CardinalityType DEF Holders

\* A sender that moves to a place from which it does not mail.
LEMMA FewerHolders ==
    ASSUME NEW s \in Senders, NEW to, RowTypes, to.at # "claimed",
           sender' = [sender EXCEPT ![s] = to], NEW t
    PROVE  /\ Cardinality(Holders(t)') \in Nat
           /\ Cardinality(Holders(t)') <= Cardinality(Holders(t))
<1>1. Holders(t)' \subseteq Holders(t)
  BY DEF Holders, RowTypes
<1>2. QED
  BY <1>1, HoldersFinite, FS_Subset, FS_CardinalityType

LEMMA SlotStep == SlotInv /\ [ReminderNext]_reminderVars => SlotInv'
<1> SUFFICES ASSUME SlotInv, [ReminderNext]_reminderVars
             PROVE  SlotInv'
  OBVIOUS
<1> USE DEF SlotInv
<1>1. CASE HourPasses \/ UNCHANGED reminderVars
  BY <1>1 DEF HourPasses, reminderVars, RowTypes, SlotsAddUp, Holders, Waiting
<1>2. ASSUME NEW s \in Senders, NEW to, to.at # "claimed",
             sender' = [sender EXCEPT ![s] = to], UNCHANGED <<hour, plan, saver, armed, mailed>>
      PROVE  SlotInv'
  <2>1. RowTypes'
    BY <1>2 DEF RowTypes
  <2>2. ASSUME NEW t \in Slots
        PROVE  mailed'[t] + Cardinality(Holders(t)') + Waiting(t)' <= armed'[t]
    <3>1. Waiting(t)' = Waiting(t) /\ Waiting(t) \in Nat
      BY <1>2 DEF Waiting
    <3>2. QED
      BY <1>2, <3>1, FewerHolders, HoldersFinite DEF SlotsAddUp, RowTypes
  <2>3. QED
    BY <2>1, <2>2 DEF SlotsAddUp
<1>3. ASSUME NEW s \in Senders, NEW now \in 0 .. hour, Tick(s, now)
      PROVE  SlotInv'
  BY <1>2, <1>3 DEF Tick
<1>4. ASSUME NEW s \in Senders, BreakOff(s)
      PROVE  SlotInv'
  BY <1>2, <1>4 DEF BreakOff, Asleep
<1>5. ASSUME NEW s \in Senders, Mail(s)
      PROVE  SlotInv'
  <2>1. CASE UNCHANGED mailed
    BY <1>2, <1>5, <2>1 DEF Mail, Asleep
  <2>2. CASE mailed' = [mailed EXCEPT ![sender[s].due] = @ + 1]
    <3> DEFINE due == sender[s].due
    <3>1. RowTypes'
      <4>1. mailed' \in [Slots -> Nat]
        <5>1. mailed' = [t \in Slots |-> IF t = due THEN mailed[t] + 1 ELSE mailed[t]]
          BY <2>2 DEF RowTypes
        <5>2. \A t \in Slots : mailed[t] \in Nat /\ mailed[t] + 1 \in Nat
          BY DEF RowTypes
        <5>3. QED
          BY <5>1, <5>2
      <4>2. sender' = [x \in Senders |-> sender'[x]]
        BY <1>5 DEF Mail, RowTypes
      <4>3. QED
        BY <1>5, <4>1, <4>2 DEF Mail, RowTypes
    <3>2. ASSUME NEW t \in Slots
          PROVE  mailed'[t] + Cardinality(Holders(t)') + Waiting(t)' <= armed'[t]
      <4>1. Waiting(t)' = Waiting(t) /\ Waiting(t) \in Nat
        BY <1>5 DEF Mail, Waiting
      <4>2. CASE t = due
        <5>1. s \in Holders(t) /\ Holders(t)' = Holders(t) \ {s}
          BY <1>5, <4>2 DEF Mail, Holders, Asleep, RowTypes
        <5>2. Cardinality(Holders(t)') = Cardinality(Holders(t)) - 1
          BY <5>1, HoldersFinite, FS_RemoveElement
        <5>3. mailed'[t] = mailed[t] + 1
          BY <2>2, <4>2 DEF RowTypes
        <5>4. QED
          BY <1>5, <4>1, <5>2, <5>3, HoldersFinite DEF Mail, SlotsAddUp, RowTypes
      <4>3. CASE t # due
        <5>1. mailed'[t] = mailed[t]
          BY <2>2, <4>3 DEF RowTypes
        <5>2. Cardinality(Holders(t)') \in Nat /\ Cardinality(Holders(t)') <= Cardinality(Holders(t))
          BY <1>5, FewerHolders DEF Mail, Asleep
        <5>3. QED
          BY <1>5, <4>1, <5>1, <5>2, HoldersFinite DEF Mail, SlotsAddUp, RowTypes
      <4>4. QED
        BY <4>2, <4>3
    <3>3. QED
      BY <3>1, <3>2 DEF SlotsAddUp
  <2>3. QED
    BY <1>5, <2>1, <2>2 DEF Mail
<1>6. ASSUME NEW s \in Senders, Claim(s)
      PROVE  SlotInv'
  <2> DEFINE due == sender[s].due
             next == sender[s].next
  <2>1. CASE ~Claimable(s)
    BY <1>2, <1>6, <2>1 DEF Claim, Asleep
  <2>2. CASE Claimable(s)
    <3>1. /\ plan' = [plan EXCEPT !.next = next, !.on = next # Never]
          /\ armed' = [t \in Slots |-> IF t = next THEN armed[t] + 1 ELSE armed[t]]
          /\ sender' = [sender EXCEPT ![s] = IF next = Never THEN Asleep
                                             ELSE [at |-> "claimed", due |-> due]]
          /\ UNCHANGED <<saver, mailed>>
      BY <1>6, <2>2 DEF Claim, Arm
    <3>2. RowTypes'
      <4>1. armed' \in [Slots -> Nat]
        BY <3>1 DEF RowTypes
      <4>2. sender' = [x \in Senders |-> sender'[x]]
        BY <3>1 DEF RowTypes
      <4>3. plan' = [c \in PlanColumns |-> plan'[c]]
        BY <3>1 DEF RowTypes
      <4>4. saver' = saver /\ mailed' = mailed
        BY <3>1
      <4>5. QED
        BY <4>1, <4>2, <4>3, <4>4 DEF RowTypes
    <3>3. plan'.next = next /\ plan.next = due
      BY <2>2, <3>1 DEF RowTypes, PlanColumns, Claimable
    <3>4. s \notin Holders(due)
      BY <1>6 DEF Claim, Holders
    <3>5. \A t : Holders(t)' \subseteq Holders(t) \cup (IF t = due THEN {s} ELSE {})
      BY <3>1 DEF Holders, RowTypes, Asleep
    <3>6. ASSUME NEW t \in Slots
          PROVE  mailed'[t] + Cardinality(Holders(t)') + Waiting(t)' <= armed'[t]
      <4>1. CASE t = due
        <5>1. /\ Cardinality(Holders(t) \cup {s}) = Cardinality(Holders(t)) + 1
              /\ IsFiniteSet(Holders(t) \cup {s})
          BY <3>4, <4>1, HoldersFinite, FS_AddElement
        <5>2. /\ Cardinality(Holders(t)') \in Nat
              /\ Cardinality(Holders(t)') <= Cardinality(Holders(t)) + 1
          BY <3>5, <4>1, <5>1, FS_Subset, FS_CardinalityType
        <5>3. Waiting(t) = 1
          BY <3>3, <4>1 DEF Waiting
        <5>4. armed'[t] = armed[t] + Waiting(t)'
          BY <3>1, <3>3 DEF Waiting, RowTypes
        <5>5. QED
          BY <3>1, <5>2, <5>3, <5>4, HoldersFinite DEF SlotsAddUp, RowTypes, Waiting
      <4>2. CASE t # due
        <5>1. /\ Cardinality(Holders(t)') \in Nat
              /\ Cardinality(Holders(t)') <= Cardinality(Holders(t))
          BY <3>5, <4>2, HoldersFinite, FS_Subset, FS_CardinalityType
        <5>2. Waiting(t) = 0
          BY <3>3, <4>2 DEF Waiting
        <5>3. armed'[t] = armed[t] + Waiting(t)'
          BY <3>1, <3>3 DEF Waiting, RowTypes
        <5>4. QED
          BY <3>1, <5>1, <5>2, <5>3, HoldersFinite DEF SlotsAddUp, RowTypes, Waiting
      <4>3. QED
        BY <4>1, <4>2
    <3>7. QED
      BY <3>2, <3>6 DEF SlotsAddUp
  <2>3. QED
    BY <2>1, <2>2
<1>7. ASSUME NEW v \in Savers, NEW on \in BOOLEAN, NEW phase \in Phases, Put(v, on, phase)
      PROVE  SlotInv'
  <2>1. RowTypes'
    BY <1>7 DEF Put, RowTypes, PlanColumns
  <2>2. QED
    BY <1>7, <2>1 DEF Put, SlotsAddUp, Holders, Waiting
<1>8. ASSUME NEW v \in Savers, Save(v)
      PROVE  SlotInv'
  <2> DEFINE old == saver[v].old
             new == saver[v].new
             changed == {c \in DOMAIN new : new[c] # old[c]}
             written == IF "next" \in changed THEN new.next ELSE Never
  <2>1. /\ plan' = [c \in PlanColumns |-> IF c \in changed THEN new[c] ELSE plan[c]]
        /\ armed' = [t \in Slots |-> IF t = written THEN armed[t] + 1 ELSE armed[t]]
        /\ saver' = [saver EXCEPT ![v] = NoSave]
        /\ UNCHANGED <<sender, mailed>>
    BY <1>8 DEF Save, Arm, RowTypes
  <2>2. RowTypes'
    BY <2>1 DEF RowTypes, NoSave
  <2>3. plan'.next = IF "next" \in changed THEN new.next ELSE plan.next
    BY <2>1 DEF PlanColumns
  <2>4. ASSUME NEW t \in Slots
        PROVE  mailed'[t] + Cardinality(Holders(t)') + Waiting(t)' <= armed'[t]
    <3>1. Holders(t)' = Holders(t)
      BY <2>1 DEF Holders
    <3>2. armed'[t] = IF t = written THEN armed[t] + 1 ELSE armed[t]
      BY <2>1
    <3>3. CASE "next" \in changed
      <4>1. armed'[t] = armed[t] + Waiting(t)'
        BY <2>3, <3>2, <3>3 DEF Waiting, RowTypes
      <4>2. QED
        BY <2>1, <3>1, <4>1, HoldersFinite DEF SlotsAddUp, RowTypes, Waiting
    <3>4. CASE "next" \notin changed
      <4>1. Waiting(t)' = Waiting(t) /\ Waiting(t) \in Nat
        BY <2>3, <3>4 DEF Waiting
      <4>2. armed'[t] >= armed[t]
        BY <3>2 DEF RowTypes
      <4>3. QED
        BY <2>1, <2>2, <3>1, <4>1, <4>2, HoldersFinite DEF SlotsAddUp, RowTypes
    <3>5. QED
      BY <3>3, <3>4
  <2>5. QED
    BY <2>2, <2>4 DEF SlotsAddUp
<1>9. QED
  BY <1>1, <1>3, <1>4, <1>5, <1>6, <1>7, <1>8 DEF ReminderNext

LEMMA SlotStart == ReminderInit => SlotInv
<1> SUFFICES ASSUME ReminderInit
             PROVE  SlotInv
  OBVIOUS
<1>1. RowTypes
  BY DEF ReminderInit, RowTypes, Plans, PlanColumns, NoSave
<1>2. \A t \in Slots : Holders(t) = {} /\ Waiting(t) = 0
  BY DEF ReminderInit, Holders, Asleep, Waiting, Plans, Never, Slots
<1>3. QED
  BY <1>1, <1>2, FS_EmptySet DEF ReminderInit, SlotInv, SlotsAddUp

\* No slot is sent more often than it was written to the row, for any number of
\* loops, PUTs and weeks (schedule.py:184-193).
THEOREM RemindedOnceHolds == ReminderSpec => []RemindedOnce
<1>1. SlotInv => RemindedOnce
  <2> SUFFICES ASSUME SlotInv, NEW t \in Slots
               PROVE  mailed[t] <= armed[t]
    BY DEF RemindedOnce
  <2>1. mailed[t] + Cardinality(Holders(t)) + Waiting(t) <= armed[t]
    BY DEF SlotInv, SlotsAddUp
  <2>2. Waiting(t) \in Nat
    BY DEF Waiting
  <2>3. mailed[t] \in Nat /\ armed[t] \in Nat
    BY DEF SlotInv, RowTypes
  <2>4. QED
    BY <2>1, <2>2, <2>3, HoldersFinite
<1>2. QED
  BY <1>1, SlotStart, SlotStep, PTL DEF ReminderSpec

-----------------------------------------------------------------------------
(* Deliveries.                                                             *)

Places == Steps \cup {"nowhere", "audited", "broken_off"}

DeliveryTypes ==
    /\ run \in [Runs -> {"going", "finished", "hooks_told", "told"}]
    /\ delivery \in [Deliveries ->
         [at : Places, tries : Nat, accepted : {0, 1}, result : {"none", "delivered", "failed"}]]

Records == [at : Places, tries : Nat, accepted : {0, 1}, result : {"none", "delivered", "failed"}]

\* What the place of a delivery says of what it has done.
Fits(d, x) ==
    /\ x.tries <= Limit(d)
    /\ x.at \in {"nowhere", "queued"} => x.tries = 0
    /\ x.at = "backoff" => x.tries < Limit(d)
    /\ x.at \in {"nowhere", "queued", "posting", "backoff"} => x.accepted = 0
    /\ x.at \in {"ended", "audited"} => (x.result = "delivered" <=> x.accepted = 1)

SoundDelivery(d) == Fits(d, delivery[d])

\* Nobody has been told of a run before its listeners are called.
NotYetTold ==
    \A r \in Runs :
      /\ run[r] \in {"going", "finished"} =>
           \A w \in Hooks : delivery[<<r, w>>].at = "nowhere"
      /\ run[r] \in {"going", "finished", "hooks_told"} =>
           \A n \in Notices : delivery[<<r, n>>].at = "nowhere"

DeliveryInv == DeliveryTypes /\ NotYetTold /\ \A d \in Deliveries : SoundDelivery(d)

LEMMA LimitIsPositive == ASSUME NEW d PROVE Limit(d) \in Nat \ {0}
BY WebhookAssumption DEF Limit

\* A step of one delivery that stays sound and is no longer nowhere.
LEMMA OneDelivery ==
    ASSUME DeliveryInv, NEW d \in Deliveries, delivery[d].at # "nowhere",
           DeliveryTypes', SoundDelivery(d)', run' = run,
           \A e \in Deliveries \ {d} : delivery'[e] = delivery[e]
    PROVE  DeliveryInv'
<1>1. \A e \in Deliveries : SoundDelivery(e)'
  BY DEF DeliveryInv, SoundDelivery, Fits, Limit
<1>2. \A e \in Deliveries : delivery[e].at = "nowhere" => delivery'[e] = delivery[e]
  OBVIOUS
<1>3. NotYetTold'
  BY <1>2 DEF DeliveryInv, NotYetTold, Deliveries
<1>4. QED
  BY <1>1, <1>3 DEF DeliveryInv

\* One delivery becomes a record that fits.
LEMMA Moved ==
    ASSUME DeliveryInv, NEW d \in Deliveries, delivery[d].at # "nowhere", run' = run,
           NEW y \in Records, Fits(d, y), delivery' = [delivery EXCEPT ![d] = y]
    PROVE  DeliveryInv'
<1>1. DeliveryTypes'
  BY DEF DeliveryInv, DeliveryTypes, Records
<1>2. delivery'[d] = y /\ \A e \in Deliveries \ {d} : delivery'[e] = delivery[e]
  BY DEF DeliveryInv, DeliveryTypes
<1>3. SoundDelivery(d)'
  BY <1>2 DEF SoundDelivery, Fits, Limit
<1>4. QED
  BY <1>1, <1>2, <1>3, OneDelivery

\* New deliveries of events that nobody was told of.
LEMMA SpawnSound ==
    ASSUME DeliveryInv, NEW ds, \A d \in ds \cap Deliveries : delivery[d].at = "nowhere", Spawn(ds)
    PROVE  /\ delivery' \in [Deliveries ->
                [at : Places, tries : Nat, accepted : {0, 1}, result : {"none", "delivered", "failed"}]]
           /\ \A d \in Deliveries : SoundDelivery(d)'
           /\ \A d \in Deliveries \ ds : delivery'[d] = delivery[d]
<1>1. ASSUME NEW d \in Deliveries
      PROVE  /\ delivery'[d] \in [at : Places, tries : Nat, accepted : {0, 1},
                                  result : {"none", "delivered", "failed"}]
             /\ SoundDelivery(d)'
             /\ d \notin ds => delivery'[d] = delivery[d]
  <2>1. delivery[d] \in [at : Places, tries : Nat, accepted : {0, 1},
                         result : {"none", "delivered", "failed"}] /\ SoundDelivery(d)
    BY DEF DeliveryInv, DeliveryTypes
  <2>2. CASE d \in ds
    <3>1. delivery'[d] = [delivery[d] EXCEPT !.at = "queued"] /\ delivery[d].at = "nowhere"
      BY <2>2 DEF Spawn
    <3>2. /\ delivery'[d].at = "queued" /\ delivery'[d].tries = delivery[d].tries
          /\ delivery'[d].accepted = delivery[d].accepted
      BY <2>1, <3>1
    <3>3. SoundDelivery(d)'
      BY <2>1, <3>1, <3>2 DEF SoundDelivery, Fits, Limit
    <3>4. QED
      BY <2>1, <2>2, <3>1, <3>3 DEF Places, Steps
  <2>3. CASE d \notin ds
    <3>1. delivery'[d] = delivery[d]
      BY <2>3 DEF Spawn
    <3>2. QED
      BY <2>1, <3>1 DEF SoundDelivery, Fits, Limit
  <2>4. QED
    BY <2>2, <2>3
<1>2. delivery' = [d \in Deliveries |-> delivery'[d]]
  BY DEF Spawn
<1>3. QED
  BY <1>1, <1>2

LEMMA DeliveryStep == DeliveryInv /\ [WebhookNext]_webhookVars => DeliveryInv'
<1> SUFFICES ASSUME DeliveryInv, [WebhookNext]_webhookVars
             PROVE  DeliveryInv'
  OBVIOUS
<1>1. CASE UNCHANGED <<run, delivery>>
  BY <1>1 DEF DeliveryInv, DeliveryTypes, NotYetTold, SoundDelivery, Fits, Limit
<1>2. ASSUME NEW w \in Hooks, CountHooks(w) \/ InsertHook(w) \/ DeleteHook(w)
      PROVE  DeliveryInv'
  BY <1>1, <1>2 DEF CountHooks, InsertHook, DeleteHook
<1>3. ASSUME NEW p \in Pings, NEW w \in Hooks, Ping(p, w)
      PROVE  DeliveryInv'
  <2>1. delivery[<<p, w>>].at = "nowhere" /\ Spawn({<<p, w>>}) /\ run' = run
    BY <1>3 DEF Ping, Unheard
  <2>2. \A r \in Runs : \A x : <<r, x>> \notin {<<p, w>>}
    BY WebhookAssumption
  <2>3. NotYetTold'
    BY <2>1, <2>2, SpawnSound DEF NotYetTold, DeliveryInv, Deliveries
  <2>4. QED
    BY <2>1, <2>3, SpawnSound DEF DeliveryInv, DeliveryTypes
<1>4. ASSUME NEW r \in Runs, FinishRun(r)
      PROVE  DeliveryInv'
  BY <1>4 DEF FinishRun, DeliveryInv, DeliveryTypes, NotYetTold, SoundDelivery, Fits, Limit
<1>5. ASSUME NEW r \in Runs, NEW told, told \subseteq Hooks, run[r] = "finished",
             run' = [run EXCEPT ![r] = "hooks_told"], Spawn({r} \X told)
      PROVE  DeliveryInv'
  <2>1. \A d \in ({r} \X told) \cap Deliveries : delivery[d].at = "nowhere"
    BY <1>5 DEF DeliveryInv, NotYetTold
  <2>2. \A q \in Runs, n \in Notices : <<q, n>> \notin {r} \X told
    BY <1>5, WebhookAssumption
  <2>3. \A q \in Runs \ {r} : \A x : <<q, x>> \notin {r} \X told
    OBVIOUS
  <2>4. run' \in [Runs -> {"going", "finished", "hooks_told", "told"}]
        /\ run'[r] = "hooks_told" /\ \A q \in Runs \ {r} : run'[q] = run[q]
    BY <1>5 DEF DeliveryInv, DeliveryTypes
  <2>5. \A d \in Deliveries \ ({r} \X told) : delivery'[d] = delivery[d]
    BY <1>5, <2>1, SpawnSound
  <2>6. NotYetTold'
    BY <1>5, <2>2, <2>3, <2>4, <2>5 DEF NotYetTold, DeliveryInv, Deliveries
  <2>7. QED
    BY <1>5, <2>1, <2>4, <2>6, SpawnSound DEF DeliveryInv, DeliveryTypes
<1>6. ASSUME NEW r \in Runs, NEW used, used \subseteq Notices, run[r] = "hooks_told",
             run' = [run EXCEPT ![r] = "told"], Spawn({r} \X used)
      PROVE  DeliveryInv'
  <2>1. \A d \in ({r} \X used) \cap Deliveries : delivery[d].at = "nowhere"
    BY <1>6 DEF DeliveryInv, NotYetTold
  <2>2. \A q \in Runs \ {r} : \A x : <<q, x>> \notin {r} \X used
    OBVIOUS
  <2>3. run' \in [Runs -> {"going", "finished", "hooks_told", "told"}]
        /\ run'[r] = "told" /\ \A q \in Runs \ {r} : run'[q] = run[q]
    BY <1>6 DEF DeliveryInv, DeliveryTypes
  <2>4. \A d \in Deliveries \ ({r} \X used) : delivery'[d] = delivery[d]
    BY <1>6, <2>1, SpawnSound
  <2>5. NotYetTold'
    BY <1>6, <2>2, <2>3, <2>4 DEF NotYetTold, DeliveryInv, Deliveries
  <2>6. QED
    BY <1>6, <2>1, <2>3, <2>5, SpawnSound DEF DeliveryInv, DeliveryTypes
<1>7. ASSUME NEW r \in Runs, TellHooks(r)
      PROVE  DeliveryInv'
  <2>1. There \subseteq Hooks
    BY DEF There
  <2>2. \E told : told \subseteq Hooks /\ Spawn({r} \X told)
    <3>1. CASE process.paused
      <4>1. {r} \X {} = {}
        OBVIOUS
      <4>2. Spawn({r} \X {})
        BY <1>7, <3>1, <4>1 DEF TellHooks
      <4>3. QED
        BY <4>2
    <3>2. CASE ~process.paused
      BY <1>7, <2>1, <3>2 DEF TellHooks
    <3>3. QED
      BY <3>1, <3>2
  <2>3. QED
    BY <1>5, <1>7, <2>2 DEF TellHooks
<1>8. ASSUME NEW r \in Runs, TellNotices(r)
      PROVE  DeliveryInv'
  <2>1. PICK used \in SUBSET Notices : Spawn(IF process.paused THEN {} ELSE {r} \X used)
    BY <1>8 DEF TellNotices
  <2>2. \E told : told \subseteq Notices /\ Spawn({r} \X told)
    <3>1. CASE process.paused
      <4>1. {r} \X {} = {}
        OBVIOUS
      <4>2. Spawn({r} \X {})
        BY <2>1, <3>1, <4>1
      <4>3. QED
        BY <4>2
    <3>2. CASE ~process.paused
      BY <2>1, <3>2
    <3>3. QED
      BY <3>1, <3>2
  <2>3. QED
    BY <1>6, <1>8, <2>2 DEF TellNotices
<1>9. ASSUME NEW d \in Deliveries, Unsigned(d) \/ Post(d) \/ Answer(d) \/ Audit(d)
      PROVE  DeliveryInv'
  <2> DEFINE x == delivery[d]
  <2>1. x \in Records /\ Fits(d, x) /\ run' = run
    BY <1>9 DEF DeliveryInv, DeliveryTypes, Records, SoundDelivery, Unsigned, Post, Answer, Audit
  <2>2. Limit(d) \in Nat \ {0}
    BY LimitIsPositive
  <2>3. x.tries \in Nat /\ x.accepted \in {0, 1} /\ x.result \in {"none", "delivered", "failed"}
        /\ x = [at |-> x.at, tries |-> x.tries, accepted |-> x.accepted, result |-> x.result]
    BY <2>1 DEF Records
  <2>4. CASE Unsigned(d)
    <3> DEFINE y == [x EXCEPT !.at = "ended", !.result = "failed"]
    <3>1. x.at = "queued" /\ x.at # "nowhere" /\ x.tries = 0 /\ x.accepted = 0
      BY <2>1, <2>4 DEF Unsigned, Fits
    <3>2. delivery' = [delivery EXCEPT ![d] = y]
      BY <2>4 DEF Unsigned, DeliveryInv, DeliveryTypes
    <3>3. y \in Records
      BY <2>1 DEF Records, Places, Steps
    <3>4. y.at = "ended" /\ y.tries = 0 /\ y.accepted = 0 /\ y.result = "failed"
      BY <2>1, <3>1 DEF Records
    <3>5. Fits(d, y)
      BY <2>2, <3>4 DEF Fits
    <3> HIDE DEF y
    <3>6. QED
      BY <2>1, <3>1, <3>2, <3>3, <3>5, Moved
  <2>5. CASE Post(d)
    <3> DEFINE y == [x EXCEPT !.at = "posting", !.tries = x.tries + 1]
    <3>1. x.at \in {"queued", "backoff"} /\ x.at # "nowhere" /\ x.tries < Limit(d) /\ x.accepted = 0
      BY <2>1, <2>2, <2>3, <2>5 DEF Post, Fits
    <3>2. delivery' = [delivery EXCEPT ![d] = y]
      BY <2>5 DEF Post, DeliveryInv, DeliveryTypes
    <3>3. y \in Records
      <4>1. x.tries + 1 \in Nat /\ "posting" \in Places
        BY <2>3 DEF Places, Steps
      <4>2. QED
        BY <2>1, <4>1 DEF Records
    <3>4. y.at = "posting" /\ y.tries = x.tries + 1 /\ y.accepted = 0
      BY <2>1, <3>1 DEF Records
    <3>5. Fits(d, y)
      BY <2>2, <2>3, <3>1, <3>4 DEF Fits
    <3> HIDE DEF y
    <3>6. QED
      BY <2>1, <3>1, <3>2, <3>3, <3>5, Moved
  <2>6. CASE Answer(d)
    <3>1. PICK answer \in {"ok", "bad", "never"} : delivery' = [delivery EXCEPT ![d] = Answered(d, answer)]
      BY <2>6 DEF Answer
    <3>2. x.at = "posting" /\ x.accepted = 0 /\ x.tries <= Limit(d) /\ x.at # "nowhere"
      BY <2>1, <2>6 DEF Answer, Fits
    <3>3. CASE answer = "ok"
      <4> DEFINE y == [x EXCEPT !.at = "ended", !.accepted = 1, !.result = "delivered"]
      <4>1. Answered(d, answer) = [x EXCEPT !.at = "ended", !.accepted = @ + 1, !.result = "delivered"]
        BY <3>3 DEF Answered
      <4>2. x.accepted + 1 = 1
        BY <3>2
      <4>3. Answered(d, answer) = y
        BY <4>1, <4>2
      <4>4. y \in Records
        BY <2>1 DEF Records, Places, Steps
      <4>5. y.at = "ended" /\ y.tries = x.tries /\ y.accepted = 1 /\ y.result = "delivered"
        BY <2>1 DEF Records
      <4>6. Fits(d, y)
        BY <3>2, <4>5 DEF Fits
      <4> HIDE DEF y
      <4>7. QED
        BY <2>1, <3>1, <3>2, <4>3, <4>4, <4>6, Moved
    <3>4. CASE answer = "bad" /\ x.tries < Limit(d)
      <4> DEFINE y == [at |-> "backoff", tries |-> x.tries, accepted |-> 0, result |-> x.result]
      <4>1. Answered(d, answer) = [x EXCEPT !.at = "backoff"]
        BY <3>4 DEF Answered
      <4>2. Answered(d, answer) = y
        BY <2>3, <3>2, <4>1
      <4>3. y \in Records /\ Fits(d, y)
        BY <2>3, <3>2, <3>4 DEF Records, Places, Steps, Fits
      <4> HIDE DEF y
      <4>4. QED
        BY <2>1, <3>1, <3>2, <4>2, <4>3, Moved
    <3>5. CASE answer = "never" \/ (answer = "bad" /\ ~(x.tries < Limit(d)))
      <4> DEFINE y == [at |-> "ended", tries |-> x.tries, accepted |-> 0, result |-> "failed"]
      <4>1. Answered(d, answer) = [x EXCEPT !.at = "ended", !.result = "failed"]
        BY <3>5 DEF Answered
      <4>2. Answered(d, answer) = y
        BY <2>3, <3>2, <4>1
      <4>3. y \in Records /\ Fits(d, y)
        BY <2>3, <3>2 DEF Records, Places, Steps, Fits
      <4> HIDE DEF y
      <4>4. QED
        BY <2>1, <3>1, <3>2, <4>2, <4>3, Moved
    <3>6. QED
      BY <3>3, <3>4, <3>5
  <2>7. CASE Audit(d)
    <3>1. PICK end \in {"audited", "broken_off"} : delivery' = [delivery EXCEPT ![d].at = end]
      BY <2>7 DEF Audit
    <3> DEFINE y == [x EXCEPT !.at = end]
    <3>2. x.at = "ended"
      BY <2>7 DEF Audit
    <3>3. delivery' = [delivery EXCEPT ![d] = y]
      BY <3>1 DEF DeliveryInv, DeliveryTypes
    <3>4. y \in Records
      BY <2>1 DEF Records, Places, Steps
    <3>5. y.at = end /\ y.tries = x.tries /\ y.accepted = x.accepted /\ y.result = x.result
      BY <2>1 DEF Records
    <3>6. Fits(d, y)
      BY <2>1, <3>2, <3>5 DEF Fits
    <3>7. x.at # "nowhere"
      BY <3>2
    <3> HIDE DEF y
    <3>8. QED
      BY <2>1, <3>3, <3>4, <3>6, <3>7, Moved
  <2>8. QED
    BY <1>9, <2>4, <2>5, <2>6, <2>7
<1>10. CASE Restart
  <2>1. \A d \in Deliveries :
          /\ delivery'[d] = IF delivery[d].at \in Steps
                            THEN [delivery[d] EXCEPT !.at = "broken_off"] ELSE delivery[d]
          /\ delivery[d] \in [at : Places, tries : Nat, accepted : {0, 1},
                              result : {"none", "delivered", "failed"}]
          /\ SoundDelivery(d)
    BY <1>10 DEF Restart, DeliveryInv, DeliveryTypes
  <2>2. \A d \in Deliveries : delivery'[d] \in [at : Places, tries : Nat, accepted : {0, 1},
                                                result : {"none", "delivered", "failed"}]
    BY <2>1 DEF Places
  <2>3. \A d \in Deliveries : SoundDelivery(d)'
    BY ZenonT(60), <2>1 DEF SoundDelivery, Fits, Limit, Steps
  <2>4. \A d \in Deliveries : delivery[d].at = "nowhere" => delivery'[d] = delivery[d]
    BY <2>1 DEF Steps
  <2>5. \A r \in Runs : run'[r] \in {"going", "told"} /\ (run'[r] = "going" => run[r] = "going")
    BY <1>10 DEF Restart
  <2>6. DeliveryTypes'
    BY <1>10, <2>2, <2>5 DEF Restart, DeliveryTypes
  <2>7. NotYetTold'
    BY <2>4, <2>5 DEF DeliveryInv, NotYetTold, Deliveries
  <2>8. QED
    BY <2>3, <2>6, <2>7 DEF DeliveryInv
<1>11. QED
  BY <1>1, <1>2, <1>3, <1>4, <1>7, <1>8, <1>9, <1>10 DEF WebhookNext, webhookVars

LEMMA DeliveryStart == WebhookInit => DeliveryInv
<1> SUFFICES ASSUME WebhookInit
             PROVE  DeliveryInv
  OBVIOUS
<1>1. DeliveryTypes
  BY DEF WebhookInit, DeliveryTypes, Unheard, Places
<1>2. \A d \in Deliveries : delivery[d] = Unheard
  BY DEF WebhookInit
<1>3. ASSUME NEW d \in Deliveries
      PROVE  SoundDelivery(d)
  BY <1>2, LimitIsPositive DEF SoundDelivery, Fits, Unheard
<1>4. NotYetTold
  BY <1>2 DEF NotYetTold, Deliveries, Unheard
<1>5. QED
  BY <1>1, <1>3, <1>4 DEF DeliveryInv

\* However often deliveries fail, are retried and restarted, for any number of
\* hooks, runs and attempts (webhooks.py:280-330).
THEOREM AcceptedOnceHolds == WebhookSpec => []AcceptedOnce
<1>1. DeliveryInv => AcceptedOnce
  BY DEF DeliveryInv, DeliveryTypes, SoundDelivery, Fits, AcceptedOnce
<1>2. QED
  BY <1>1, DeliveryStart, DeliveryStep, PTL DEF WebhookSpec

\* The settings of the process, and the rows of the hooks.
HookTypes ==
    /\ process \in Processes
    /\ hook \in [Hooks -> [row : {"none", "counted", "there", "deleted"},
                           key : Keys \cup {NoKey}]]

LEMMA HookStep == HookTypes /\ [WebhookNext]_webhookVars => HookTypes'
<1> SUFFICES ASSUME HookTypes, [WebhookNext]_webhookVars
             PROVE  HookTypes'
  OBVIOUS
<1> USE DEF HookTypes
<1>1. ASSUME NEW w \in Hooks, CountHooks(w)
      PROVE  HookTypes'
  BY <1>1 DEF CountHooks, Processes
<1>2. ASSUME NEW w \in Hooks, InsertHook(w) \/ DeleteHook(w)
      PROVE  HookTypes'
  BY <1>2 DEF InsertHook, DeleteHook
<1>3. ASSUME NEW w \in Hooks, NEW p \in Pings, Ping(p, w)
      PROVE  HookTypes'
  BY <1>3 DEF Ping
<1>4. ASSUME NEW r \in Runs, FinishRun(r) \/ TellHooks(r) \/ TellNotices(r)
      PROVE  HookTypes'
  BY <1>4 DEF FinishRun, TellHooks, TellNotices
<1>5. ASSUME NEW d \in Deliveries, Unsigned(d) \/ Post(d) \/ Answer(d) \/ Audit(d)
      PROVE  HookTypes'
  BY <1>5 DEF Unsigned, Post, Answer, Audit
<1>6. CASE Restart
  BY <1>6 DEF Restart
<1>7. CASE UNCHANGED webhookVars
  BY <1>7 DEF webhookVars
<1>8. QED
  BY <1>1, <1>2, <1>3, <1>4, <1>5, <1>6, <1>7 DEF WebhookNext

\* Hooks and deliveries are typed, and no delivery is tried more often than
\* MAX_ATTEMPTS (webhooks.py, _attempts).
THEOREM WebhookTypesHold == WebhookSpec => []WebhookTypeOK
<1>1. WebhookInit => HookTypes
  BY DEF WebhookInit, HookTypes
<1>2. HookTypes /\ DeliveryInv => WebhookTypeOK
  <2> SUFFICES ASSUME HookTypes, DeliveryInv
               PROVE  WebhookTypeOK
    OBVIOUS
  <2>1. \A d \in Deliveries : delivery[d].tries \in 0 .. MaxAttempts
    <3>1. \A d \in Deliveries : Limit(d) \in Nat /\ Limit(d) <= MaxAttempts
      BY WebhookAssumption DEF Limit
    <3>2. \A d \in Deliveries : delivery[d].tries \in Nat /\ delivery[d].tries <= Limit(d)
      BY DEF DeliveryInv, DeliveryTypes, SoundDelivery, Fits
    <3>3. QED
      BY <3>1, <3>2, WebhookAssumption
  <2>2. delivery \in [Deliveries ->
         [at : Steps \cup {"nowhere", "audited", "broken_off"},
          tries : 0 .. MaxAttempts, accepted : Nat,
          result : {"none", "delivered", "failed"}]]
    BY <2>1 DEF DeliveryInv, DeliveryTypes, Places
  <2>3. QED
    BY <2>2 DEF HookTypes, DeliveryInv, DeliveryTypes, WebhookTypeOK
<1>3. QED
  BY <1>1, <1>2, HookStep, DeliveryStart, DeliveryStep, PTL DEF WebhookSpec

-----------------------------------------------------------------------------
(* Runners.                                                                *)

AtWork == {o \in Orgs : job[o] \in Running}
InUse == {o \in Orgs : inUse[o] # 0}
Most == IF MaxActive > MaxRuns THEN MaxActive ELSE MaxRuns + 1

\* A counter is up only while a job is marked; a marked job's runner is the open
\* one, where `own` says so.
RunnerInv ==
    /\ TenantTypeOK
    /\ Cardinality(AtWork) <= MaxRuns
    /\ \A o \in Orgs : /\ inUse[o] # 0 => job[o] = "marked"
                       /\ job[o] = "marked" /\ Listed(o) => inUse[o] = 1
                       /\ own[o] => o \in runners
    /\ RegistryBounded

LEMMA RunnersFinite ==
    /\ \A S \in SUBSET Orgs : IsFiniteSet(S) /\ Cardinality(S) \in Nat
    /\ MaxActive \in Nat \ {0} /\ MaxRuns \in Nat \ {0} /\ Most \in Nat
BY TenantAssumption, FS_Subset, FS_CardinalityType DEF Most

\* What is closed leaves room, or nothing but what is in use and the new one.
LEMMA EvictedLeaves ==
    ASSUME RunnerInv, NEW o \in Orgs, NEW gone \in SUBSET runners,
           Evicted(runners \cup {o}, o, gone)
    PROVE  /\ Cardinality((runners \cup {o}) \ gone) <= Most
           /\ \A x \in gone : inUse[x] = 0 /\ x # o
<1> DEFINE s == runners \cup {o}
           free == Evictable(s, o)
           over == IF Cardinality(s) > MaxActive THEN Cardinality(s) - MaxActive ELSE 0
<1>1. /\ gone \subseteq free
      /\ Cardinality(gone) = IF over < Cardinality(free) THEN over ELSE Cardinality(free)
  BY DEF Evicted
<1>2. s \in SUBSET Orgs /\ free \subseteq s /\ gone \subseteq s
  BY <1>1 DEF RunnerInv, TenantTypeOK, Evictable
<1>3. \A x \in gone : inUse[x] = 0 /\ x # o
  BY <1>1 DEF Evictable
<1>4. /\ IsFiniteSet(s) /\ Cardinality(s) \in Nat /\ Cardinality(free) \in Nat /\ Cardinality(gone) \in Nat
      /\ IsFiniteSet(free)
  BY <1>2, RunnersFinite
<1>5. Cardinality(s \ gone) = Cardinality(s) - Cardinality(gone)
  <2>1. s \cap gone = gone
    BY <1>2
  <2>2. QED
    BY ZenonT(60), <1>4, <2>1, FS_Difference
<1>6. CASE over < Cardinality(free)
  <2>1. Cardinality(gone) = over
    BY <1>1, <1>6
  <2>2. over = IF Cardinality(s) > MaxActive THEN Cardinality(s) - MaxActive ELSE 0
    OBVIOUS
  <2> HIDE DEF s, free, over
  <2>3. Cardinality(s \ gone) <= MaxActive
    BY <1>4, <1>5, <2>1, <2>2, RunnersFinite
  <2>4. Cardinality(s \ gone) \in Nat /\ MaxActive <= Most
    BY <1>2, RunnersFinite DEF Most
  <2>5. Cardinality(s \ gone) <= Most
    BY <2>3, <2>4, RunnersFinite
  <2>6. QED
    BY <1>3, <2>5 DEF s
<1>7. CASE ~(over < Cardinality(free))
  <2>1. gone = free
    BY <1>1, <1>4, <1>7, FS_Subset
  <2>2. s \ gone \subseteq AtWork \cup {o}
    BY <1>2, <2>1 DEF Evictable, RunnerInv, AtWork, Running
  <2>3. /\ AtWork \in SUBSET Orgs /\ AtWork \cup {o} \in SUBSET Orgs
        /\ IsFiniteSet(AtWork) /\ IsFiniteSet(AtWork \cup {o})
        /\ Cardinality(AtWork) \in Nat /\ Cardinality(AtWork \cup {o}) \in Nat
    BY RunnersFinite DEF AtWork
  <2>4. Cardinality(AtWork \cup {o}) <= Cardinality(AtWork) + 1
    BY <2>3, FS_AddElement
  <2>5. Cardinality(s \ gone) <= Cardinality(AtWork \cup {o})
    BY <2>2, <2>3, FS_Subset
  <2>6. s \ gone \in SUBSET Orgs /\ Cardinality(AtWork) <= MaxRuns /\ MaxRuns + 1 <= Most
    BY <1>2, RunnersFinite DEF Most, RunnerInv
  <2>7. Cardinality(s \ gone) \in Nat
    BY <2>6, RunnersFinite
  <2> HIDE DEF free, over, s
  <2>8. Cardinality(s \ gone) <= Most
    BY <2>3, <2>4, <2>5, <2>6, <2>7, RunnersFinite
  <2>9. QED
    BY <1>3, <2>8 DEF s
<1>8. QED
  BY <1>3, <1>6, <1>7

\* A get keeps what is marked, its runner and the bound.
LEMMA GetKeeps ==
    ASSUME RunnerInv, NEW o \in Orgs, NEW llm \in {"any", "on", "off"}, Get(o, llm)
    PROVE  /\ runners' \subseteq Orgs /\ before' \subseteq runners' \X runners'
           /\ narrative' \in [Orgs -> {"any", "on", "off"}]
           /\ tree' \in [Orgs -> {"absent", "empty", "data"}] /\ own' \in [Orgs -> BOOLEAN]
           /\ \A x \in Orgs : own'[x] => own[x] /\ x \in runners'
           /\ \A x \in Orgs : own[x] /\ inUse[x] # 0 /\ (x # o \/ llm = "any") => own'[x]
           /\ RegistryBounded'
<1> USE DEF RunnerInv, TenantTypeOK
<1>1. tree' \in [Orgs -> {"absent", "empty", "data"}]
  BY DEF Get
<1>2. CASE o \in runners /\ llm \in {"any", narrative[o]}
  <2>1. before' = UsedLast(runners, o) /\ UNCHANGED <<runners, narrative, own>>
    BY <1>2 DEF Get
  <2>2. before' \subseteq runners' \X runners'
    BY <1>2, <2>1 DEF UsedLast, Left
  <2>3. QED
    BY <1>1, <2>1, <2>2 DEF RegistryBounded
<1>3. CASE ~(o \in runners /\ llm \in {"any", narrative[o]})
  <2>1. PICK gone \in SUBSET runners :
          /\ Evicted(runners \cup {o}, o, gone)
          /\ runners' = (runners \cup {o}) \ gone
          /\ before' = UsedLast(runners', o)
          /\ narrative' = [x \in Orgs |-> IF x = o THEN llm ELSE IF x \in gone THEN "any" ELSE narrative[x]]
          /\ own' = [x \in Orgs |-> own[x] /\ x \notin gone \cup {o}]
    BY <1>3 DEF Get
  <2>2. Cardinality(runners') <= Most /\ \A x \in gone : inUse[x] = 0 /\ x # o
    BY <2>1, EvictedLeaves
  <2>3. o \in runners' /\ runners' \subseteq Orgs /\ before' \subseteq runners' \X runners'
    BY <2>1, <2>2 DEF UsedLast, Left
  <2>4. \A x \in Orgs : own'[x] = (own[x] /\ x \notin gone /\ x # o)
    BY <2>1
  <2>5. narrative' \in [Orgs -> {"any", "on", "off"}] /\ own' \in [Orgs -> BOOLEAN]
    BY <2>1
  <2>6. own[o] => llm # "any"
    BY <1>3
  <2>7. RegistryBounded'
    BY <2>2 DEF RegistryBounded, Most
  <2>8. QED
    BY ZenonT(60), <1>1, <2>1, <2>2, <2>3, <2>4, <2>5, <2>6, <2>7
<1>4. QED
  BY <1>2, <1>3

\* Nothing of the registry and no marked job moves.
LEMMA RegistryRests ==
    ASSUME RunnerInv, TenantTypeOK', UNCHANGED registryVars, Cardinality(AtWork') <= MaxRuns,
           \A o \in Orgs : /\ job'[o] = "marked" <=> job[o] = "marked"
                           /\ Listed(o)' => Listed(o)
    PROVE  RunnerInv'
BY DEF RunnerInv, registryVars, RegistryBounded

\* As many jobs at work as before, or less.
LEMMA NoMoreAtWork ==
    ASSUME RunnerInv, \A o \in Orgs : job'[o] \in Running => job[o] \in Running
    PROVE  Cardinality(AtWork') <= MaxRuns
<1>1. AtWork' \subseteq AtWork /\ AtWork \in SUBSET Orgs /\ AtWork' \in SUBSET Orgs
  BY DEF AtWork
<1>2. Cardinality(AtWork') <= Cardinality(AtWork)
  BY <1>1, RunnersFinite, FS_Subset
<1>3. QED
  BY <1>1, <1>2, RunnersFinite DEF RunnerInv

LEMMA RunnerStep == RunnerInv /\ [TenantNext]_tenantVars => RunnerInv'
<1> SUFFICES ASSUME RunnerInv, [TenantNext]_tenantVars
             PROVE  RunnerInv'
  OBVIOUS
<1> USE DEF Running
<1>0. TenantTypeOK
  BY DEF RunnerInv
<1>1. CASE UNCHANGED tenantVars
  <2>1. UNCHANGED <<runners, before, narrative, inUse, own, tree, job, deleting>>
    BY <1>1 DEF tenantVars, registryVars
  <2>2. QED
    BY <2>1 DEF RunnerInv, TenantTypeOK, AtWork, Listed, RegistryBounded
<1>2. ASSUME NEW o \in Orgs, ClaimJob(o)
      PROVE  RunnerInv'
  <2>1. TenantTypeOK'
    BY <1>0, <1>2 DEF ClaimJob, registryVars, TenantTypeOK
  <2>2. /\ AtWork' \subseteq AtWork \cup {o} /\ AtWork \in SUBSET Orgs /\ AtWork' \in SUBSET Orgs
        /\ AtWork \cup {o} \in SUBSET Orgs /\ Cardinality(AtWork) < MaxRuns
    BY <1>0, <1>2 DEF ClaimJob, AtWork, TenantTypeOK
  <2>3. Cardinality(AtWork') <= Cardinality(AtWork \cup {o})
    BY <2>2, RunnersFinite, FS_Subset
  <2>4. Cardinality(AtWork \cup {o}) <= Cardinality(AtWork) + 1
    BY <2>2, RunnersFinite, FS_AddElement
  <2>5. Cardinality(AtWork') <= MaxRuns
    BY <2>2, <2>3, <2>4, RunnersFinite
  <2>6. \A x \in Orgs : (job'[x] = "marked" <=> job[x] = "marked") /\ (Listed(x)' => Listed(x))
    BY <1>0, <1>2 DEF ClaimJob, TenantTypeOK, Listed
  <2>7. UNCHANGED registryVars
    BY <1>2 DEF ClaimJob
  <2>8. QED
    BY <2>1, <2>5, <2>6, <2>7, RegistryRests
<1>3. ASSUME NEW o \in Orgs,
             QueueJob(o) \/ FinishJob(o) \/ CountJobs(o) \/ CommitDelete(o) \/ RemoveTree(o)
      PROVE  RunnerInv'
  <2>1. TenantTypeOK' /\ UNCHANGED registryVars
    BY <1>0, <1>3 DEF QueueJob, FinishJob, CountJobs, CommitDelete, RemoveTree, registryVars, TenantTypeOK
  <2>2. \A x \in Orgs : /\ job'[x] = "marked" <=> job[x] = "marked"
                        /\ job'[x] \in Running => job[x] \in Running
                        /\ Listed(x)' => Listed(x)
    BY <1>0, <1>3 DEF QueueJob, FinishJob, CountJobs, CommitDelete, RemoveTree, TenantTypeOK, Listed
  <2>3. QED
    BY <2>1, <2>2, NoMoreAtWork, RegistryRests
<1>4. ASSUME NEW o \in Orgs, NEW llm \in {"any", "on", "off"}, Get(o, llm), UNCHANGED <<inUse, deleting>>,
             job' = job \/ (job[o] = "ready" /\ job' = [job EXCEPT ![o] = "got"])
      PROVE  RunnerInv'
  <2>1. \A x \in Orgs : /\ job'[x] = "marked" <=> job[x] = "marked"
                        /\ job'[x] \in Running <=> job[x] \in Running
    BY <1>0, <1>4 DEF TenantTypeOK
  <2>2. Cardinality(AtWork') <= MaxRuns
    BY <2>1, NoMoreAtWork
  <2>3. TenantTypeOK'
    BY <1>0, <1>4, GetKeeps DEF TenantTypeOK
  <2>4. QED
    BY <1>4, <2>1, <2>2, <2>3, GetKeeps DEF RunnerInv, Listed
<1>5. ASSUME NEW o \in Orgs, OpenRunner(o, "on") \/ OpenRunner(o, "off") \/ Read(o) \/ Purge(o, "on") \/ Purge(o, "off")
      PROVE  RunnerInv'
  BY <1>4, <1>5 DEF OpenRunner, Read, Purge
<1>6. ASSUME NEW o \in Orgs, MarkInUse(o)
      PROVE  RunnerInv'
  <2>1. inUse[o] = 0
    BY <1>0, <1>6 DEF MarkInUse, RunnerInv, TenantTypeOK
  <2>2. TenantTypeOK'
    BY <1>0, <1>6, <2>1 DEF MarkInUse, TenantTypeOK
  <2>3. Cardinality(AtWork') <= MaxRuns
    BY <1>0, <1>6, NoMoreAtWork DEF MarkInUse, TenantTypeOK
  <2>4. \A x \in Orgs : /\ inUse'[x] # 0 => job'[x] = "marked"
                        /\ job'[x] = "marked" /\ Listed(x)' => inUse'[x] = 1
                        /\ own'[x] => x \in runners'
    BY <1>0, <1>6, <2>1 DEF MarkInUse, TenantTypeOK, RunnerInv, Listed
  <2>5. QED
    BY <1>6, <2>2, <2>3, <2>4 DEF MarkInUse, RunnerInv, RegistryBounded
<1>7. ASSUME NEW o \in Orgs, Release(o)
      PROVE  RunnerInv'
  <2>0. inUse[o] \in {0, 1} /\ inUse' = [inUse EXCEPT ![o] = IF inUse[o] > 0 THEN inUse[o] - 1 ELSE 0]
    BY <1>0, <1>7 DEF Release, TenantTypeOK
  <2>1. inUse' = [inUse EXCEPT ![o] = 0]
    <3>1. (IF inUse[o] > 0 THEN inUse[o] - 1 ELSE 0) = 0
      BY <2>0
    <3>2. QED
      BY <2>0, <3>1
  <2>2. TenantTypeOK'
    BY <1>0, <1>7, <2>1 DEF Release, RunWrites, TenantTypeOK
  <2>3. Cardinality(AtWork') <= MaxRuns
    BY <1>0, <1>7, NoMoreAtWork DEF Release, TenantTypeOK
  <2>4. \A x \in Orgs : /\ inUse'[x] # 0 => job'[x] = "marked"
                        /\ job'[x] = "marked" /\ Listed(x)' => inUse'[x] = 1
                        /\ own'[x] => x \in runners'
    BY <1>0, <1>7, <2>1 DEF Release, TenantTypeOK, RunnerInv, Listed
  <2>5. QED
    BY <1>7, <2>2, <2>3, <2>4 DEF Release, RunnerInv, RegistryBounded
<1>8. ASSUME NEW o \in Orgs, Forget(o)
      PROVE  RunnerInv'
  <2>1. TenantTypeOK'
    BY <1>0, <1>8 DEF Forget, Left, TenantTypeOK
  <2>2. Cardinality(AtWork') <= MaxRuns
    BY <1>8, NoMoreAtWork DEF Forget
  <2>3. \A x \in Orgs : /\ inUse'[x] # 0 => job'[x] = "marked"
                        /\ job'[x] = "marked" /\ Listed(x)' => inUse'[x] = 1
                        /\ own'[x] => x \in runners'
    BY <1>0, <1>8 DEF Forget, TenantTypeOK, RunnerInv, Listed
  <2>4. RegistryBounded'
    <3>1. runners' \subseteq runners /\ runners \in SUBSET Orgs /\ runners' \in SUBSET Orgs
      BY <1>0, <1>8 DEF Forget, TenantTypeOK
    <3>2. Cardinality(runners') <= Cardinality(runners)
      BY <3>1, RunnersFinite, FS_Subset
    <3>3. QED
      BY <3>1, <3>2, RunnersFinite DEF RunnerInv, RegistryBounded, Most
  <2>5. QED
    BY <2>1, <2>2, <2>3, <2>4 DEF RunnerInv
<1>9. QED
  BY <1>1, <1>2, <1>3, <1>5, <1>6, <1>7, <1>8 DEF TenantNext, Settings

\* A step that neither ends a marked job nor deletes its organization leaves it
\* its runner.
LEMMA RunnerStays ==
    ASSUME RunnerInv, RunnerInv', TenantNext, NEW o \in Orgs,
           job[o] = "marked", job'[o] = "marked", own[o], Listed(o)
    PROVE  own'[o] /\ o \in runners'
<1> USE DEF Running
<1>1. inUse[o] = 1 /\ TenantTypeOK /\ \A x \in Orgs : own'[x] => x \in runners'
  BY DEF RunnerInv
<1>2. SUFFICES own'[o]
  BY <1>1
<1>3. PICK x \in Orgs :
        \/ QueueJob(x) \/ ClaimJob(x) \/ MarkInUse(x) \/ Release(x) \/ FinishJob(x)
        \/ Read(x) \/ \E llm \in Settings : OpenRunner(x, llm) \/ Purge(x, llm)
        \/ CountJobs(x) \/ CommitDelete(x) \/ Forget(x) \/ RemoveTree(x)
  BY DEF TenantNext
<1>4. ASSUME NEW llm \in {"any", "on", "off"}, Get(x, llm), x # o \/ llm = "any"
      PROVE  own'[o]
  BY <1>1, <1>4, GetKeeps
<1>5. CASE Read(x)
  BY <1>4, <1>5 DEF Read
<1>6. ASSUME NEW llm \in Settings, OpenRunner(x, llm) \/ Purge(x, llm)
      PROVE  own'[o]
  <2>1. x # o
    BY <1>6 DEF OpenRunner, Purge, Listed
  <2>2. QED
    BY <1>4, <1>6, <2>1 DEF OpenRunner, Purge, Settings
<1>7. CASE MarkInUse(x) \/ Release(x) \/ Forget(x)
  <2>1. x # o
    BY <1>1, <1>7 DEF MarkInUse, Release, Forget, Listed, TenantTypeOK
  <2>2. QED
    BY <1>1, <1>7, <2>1 DEF MarkInUse, Release, Forget, TenantTypeOK
<1>8. CASE QueueJob(x) \/ ClaimJob(x) \/ FinishJob(x) \/ CountJobs(x) \/ CommitDelete(x) \/ RemoveTree(x)
  BY <1>8 DEF QueueJob, ClaimJob, FinishJob, CountJobs, CommitDelete, RemoveTree, registryVars
<1>9. QED
  BY <1>3, <1>5, <1>6, <1>7, <1>8

\* The invariant of the registry.
LEMMA RunnerInvariant == TenantSpec => []RunnerInv
<1>1. TenantInit => RunnerInv
  <2> SUFFICES ASSUME TenantInit
               PROVE  RunnerInv
    OBVIOUS
  <2>1. AtWork = {}
    BY DEF TenantInit, AtWork, Running
  <2>2. TenantTypeOK
    BY DEF TenantInit, TenantTypeOK
  <2>3. Cardinality(runners) = 0 /\ Cardinality(AtWork) = 0
    BY <2>1, FS_EmptySet DEF TenantInit
  <2>4. QED
    BY <2>2, <2>3, RunnersFinite DEF TenantInit, RunnerInv, RegistryBounded, Most
<1>2. QED
  BY <1>1, RunnerStep, PTL DEF TenantSpec

\* The registry closes what it may and nothing that is in use: it passes its
\* limit by the runs that are allowed at most, and a marked job keeps its runner
\* (_evict_over_limit and get of control/tenancy.py).
THEOREM RunnersKeptHolds == TenantSpec => RunnersKept
<1>1. RunnerInv => RegistryBounded
  BY DEF RunnerInv
<1>2. RunnerInv /\ RunnerInv' /\ [TenantNext]_tenantVars =>
        [\A o \in Orgs : /\ job[o] = "marked" /\ job'[o] = "marked"
                         /\ own[o] /\ Listed(o)
                         => own'[o] /\ o \in runners']_tenantVars
  BY RunnerStays
<1>3. QED
  BY <1>1, <1>2, RunnerInvariant, PTL DEF TenantSpec, RunnersKept, UsedRunnerStays

\* The registry is typed (control/tenancy.py, TenantRegistry).
THEOREM TenantTypesHold == TenantSpec => []TenantTypeOK
<1>1. RunnerInv => TenantTypeOK
  BY DEF RunnerInv
<1>2. QED
  BY <1>1, RunnerInvariant, PTL
=============================================================================
