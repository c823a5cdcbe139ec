--------------------------- MODULE PlatformProofs ---------------------------
(***************************************************************************)
(* What stands beside the jobs, together: proofs that its parts stay       *)
(* within their types and keep their promises where they run beside each   *)
(* other, from the theorems on each of them.                               *)
(***************************************************************************)
EXTENDS Platform, AccessProofs, TellingProofs, RecordProofs

-----------------------------------------------------------------------------
(* The next slot of a reminder.                                            *)

LEMMA ReminderNumbers == Week \in Nat \ {0} /\ LastHour \in Nat /\ MaxArmed \in Nat
BY ReminderAssumption

\* A number k * Week + phase has the phase as its remainder.
LEMMA PhaseOf ==
    ASSUME NEW phase \in Phases, NEW k \in Nat
    PROVE  k * Week + phase \in Nat /\ (k * Week + phase) % Week = phase
<1> DEFINE t == k * Week + phase
<1>1. Week \in Nat \ {0} /\ phase \in 0 .. Week - 1 /\ k * Week \in Nat /\ (k + 1) * Week = k * Week + Week
  BY ReminderAssumption, ReminderNumbers
<1>2. t \in Nat /\ k * Week <= t /\ t < (k + 1) * Week
  BY <1>1
<1>3. t = k * Week + phase
  OBVIOUS
<1> HIDE DEF t
<1>4. t \div Week = k
  BY <1>1, <1>2, WeekBounds
<1>5. t = (t \div Week) * Week + (t % Week) /\ t % Week \in 0 .. Week - 1
  BY <1>1, <1>2
<1>6. t % Week = phase
  BY <1>1, <1>3, <1>4, <1>5
<1>7. QED
  BY <1>2, <1>6 DEF t

\* compute_next_reminder finds the first slot of the setting that is strictly
\* later than `after`, and it is not more than a week away (schedule.py,
\* next_for and compute_next_reminder).
THEOREM NextSlotIsFirst ==
    ASSUME NEW phase \in Phases, NEW after \in 0 .. LastHour
    PROVE  LET next == ComputeNext(phase, after) IN
           /\ next \in Slots /\ next % Week = phase
           /\ after < next /\ next <= after + Week
           /\ \A u \in Slots : u % Week = phase /\ u > after => next <= u
<1> DEFINE Later == {t \in Slots : t % Week = phase /\ t > after}
           w == after \div Week
           r == after % Week
           k == IF phase > r THEN w ELSE w + 1
           t == k * Week + phase
<1>1. Week \in Nat \ {0} /\ phase \in 0 .. Week - 1 /\ LastHour \in Nat
  BY ReminderAssumption, ReminderNumbers
<1>2. w \in Nat /\ r \in 0 .. Week - 1 /\ after = w * Week + r
  BY <1>1
<1> HIDE DEF w, r
<1>3. (w + 1) * Week = w * Week + Week /\ w * Week \in Nat
  BY <1>1, <1>2
<1>4. k \in Nat /\ t > after /\ t <= after + Week
  <2>1. CASE phase > r
    BY <1>1, <1>2, <1>3, <2>1
  <2>2. CASE ~(phase > r)
    BY <1>1, <1>2, <1>3, <2>2
  <2>3. QED
    BY <2>1, <2>2
<1> HIDE DEF k
<1>5. t \in Nat /\ t % Week = phase
  BY <1>4, PhaseOf
<1> HIDE DEF t
<1>6. t \in Later
  BY <1>1, <1>4, <1>5 DEF Slots
<1>7. Later \subseteq Nat
  BY <1>1 DEF Slots
<1>8. PICK x \in Later : \A y \in Later : x <= y
  BY <1>6, <1>7, LeastNumber
<1> DEFINE First(y) == /\ y \in Slots /\ y % Week = phase /\ y > after
                       /\ \A u \in Slots : u % Week = phase /\ u > after => y <= u
<1>9. First(x)
  BY <1>8
<1>10. First(ComputeNext(phase, after))
  BY <1>9 DEF ComputeNext
<1>11. ComputeNext(phase, after) <= t
  BY <1>6, <1>10
<1>12. ComputeNext(phase, after) \in Nat
  BY <1>1, <1>10 DEF Slots
<1> DEFINE next == ComputeNext(phase, after)
<1>13. next <= after + Week
  <2>1. next \in Nat /\ next <= t
    BY <1>11, <1>12
  <2> HIDE DEF next
  <2>2. QED
    BY <1>1, <1>4, <1>5, <2>1
<1>14. QED
  BY <1>10, <1>13

-----------------------------------------------------------------------------
(* The types of a reminder.                                                *)

SenderTypes ==
    \A s \in Senders :
      \/ sender[s] = Asleep
      \/ sender[s] \in [at : {"read"}, due : Slots, next : Slots \cup {Never}]
      \/ sender[s] \in [at : {"claimed"}, due : Slots]

SaverTypes ==
    \A v \in Savers :
      \/ saver[v] = NoSave
      \/ saver[v] \in [at : {"put"}, old : Plans, new : Plans]

PlanTypes == hour \in 0 .. LastHour /\ plan \in Plans /\ SenderTypes /\ SaverTypes

\* A row of which some columns are written.
LEMMA WrittenColumns ==
    ASSUME NEW old \in Plans, NEW new \in Plans, NEW S
    PROVE  [c \in DOMAIN old |-> IF c \in S THEN new[c] ELSE old[c]] \in Plans
<1> DEFINE p == [c \in DOMAIN old |-> IF c \in S THEN new[c] ELSE old[c]]
<1>1. DOMAIN old = {"on", "phase", "next"}
  BY DEF Plans
<1>2. p = [on |-> p.on, phase |-> p.phase, next |-> p.next]
  BY <1>1
<1>3. p.on \in {old.on, new.on} /\ p.phase \in {old.phase, new.phase} /\ p.next \in {old.next, new.next}
  BY <1>1
<1> HIDE DEF p
<1>4. p.on \in BOOLEAN /\ p.phase \in Phases /\ p.next \in Slots \cup {Never}
  BY <1>3 DEF Plans
<1>5. p \in Plans
  BY <1>2, <1>4 DEF Plans
<1>6. QED
  BY <1>5 DEF p

LEMMA PlanStep == SlotInv /\ PlanTypes /\ [ReminderNext]_reminderVars => PlanTypes'
<1> SUFFICES ASSUME SlotInv, PlanTypes, [ReminderNext]_reminderVars
             PROVE  PlanTypes'
  OBVIOUS
<1> USE DEF PlanTypes
<1>0. /\ \A to : \A s \in Senders, u \in Senders :
           [sender EXCEPT ![s] = to][u] = IF u = s THEN to ELSE sender[u]
      /\ \A to : \A v \in Savers, u \in Savers :
           [saver EXCEPT ![v] = to][u] = IF u = v THEN to ELSE saver[u]
  BY DEF SlotInv, RowTypes
<1>1. CASE HourPasses
  BY <1>1, ReminderNumbers DEF HourPasses, SenderTypes, SaverTypes
<1>2. ASSUME NEW s \in Senders, NEW now \in 0 .. hour, Tick(s, now)
      PROVE  PlanTypes'
  <2>1. now \in 0 .. LastHour /\ plan.phase \in Phases /\ plan.next \in Slots
    BY <1>2, ReminderNumbers DEF Tick, Due, Plans
  <2>2. ComputeNext(plan.phase, now) \in Slots
    BY <2>1, NextSlotIsFirst
  <2>3. QED
    BY <1>0, <1>2, <2>1, <2>2 DEF Tick, SenderTypes, SaverTypes
<1>3. ASSUME NEW s \in Senders, Claim(s)
      PROVE  PlanTypes'
  <2>1. sender[s].due \in Slots /\ sender[s].next \in Slots \cup {Never}
    BY <1>3 DEF Claim, SenderTypes, Asleep
  <2>2. plan' \in Plans
    BY <1>3, <2>1 DEF Claim, Plans
  <2>3. SenderTypes'
    <3>1. \E to \in {Asleep, [at |-> "claimed", due |-> sender[s].due]} :
            sender' = [sender EXCEPT ![s] = to]
      BY <1>3 DEF Claim
    <3>2. PICK to \in {Asleep, [at |-> "claimed", due |-> sender[s].due]} :
            sender' = [sender EXCEPT ![s] = to]
      BY <3>1
    <3>3. to = Asleep \/ to \in [at : {"claimed"}, due : Slots]
      BY <2>1, <3>2
    <3>4. \A u \in Senders : sender'[u] = IF u = s THEN to ELSE sender[u]
      BY <3>2 DEF SlotInv, RowTypes
    <3>5. QED
      BY <3>3, <3>4 DEF SenderTypes
  <2>4. QED
    BY <1>3, <2>2, <2>3 DEF Claim, SaverTypes
<1>4. ASSUME NEW s \in Senders, Mail(s) \/ BreakOff(s)
      PROVE  PlanTypes'
  <2>1. sender' = [sender EXCEPT ![s] = Asleep] /\ UNCHANGED <<hour, plan, saver>>
    BY <1>4 DEF Mail, BreakOff
  <2>2. \A u \in Senders : sender'[u] = IF u = s THEN Asleep ELSE sender[u]
    BY <1>0, <2>1
  <2>3. SenderTypes'
    BY <2>2 DEF SenderTypes
  <2>4. QED
    BY <2>1, <2>3 DEF SaverTypes
<1>5. ASSUME NEW v \in Savers, NEW on \in BOOLEAN, NEW phase \in Phases, Put(v, on, phase)
      PROVE  PlanTypes'
  <2>1. ComputeNext(phase, hour) \in Slots
    BY NextSlotIsFirst
  <2>2. [on |-> on, phase |-> phase,
         next |-> IF on THEN ComputeNext(phase, hour) ELSE Never] \in Plans
    BY <2>1 DEF Plans
  <2>3. QED
    BY <1>0, <1>5, <2>2 DEF Put, SenderTypes, SaverTypes
<1>6. ASSUME NEW v \in Savers, Save(v)
      PROVE  PlanTypes'
  <2>1. saver[v].new \in Plans
    BY <1>6 DEF Save, SaverTypes, NoSave
  <2>2. plan' \in Plans
    BY <1>6, <2>1, WrittenColumns DEF Save
  <2>3. QED
    BY <1>0, <1>6, <2>2 DEF Save, SenderTypes, SaverTypes
<1>7. CASE UNCHANGED reminderVars
  BY <1>7 DEF reminderVars, SenderTypes, SaverTypes
<1>8. QED
  BY <1>1, <1>2, <1>3, <1>4, <1>5, <1>6, <1>7 DEF ReminderNext

\* The hour, the row of the schedule, and what senders and PUTs have read of it
\* are typed (schedule.py).
THEOREM ReminderTypesHold == ReminderSpec => []ReminderTypeOK
<1>1. ReminderInit => PlanTypes
  BY ReminderNumbers DEF ReminderInit, PlanTypes, SenderTypes, SaverTypes
<1>2. PlanTypes /\ SlotInv => ReminderTypeOK
  BY DEF PlanTypes, SenderTypes, SaverTypes, SlotInv, RowTypes, ReminderTypeOK
<1>3. QED
  BY <1>1, <1>2, SlotStart, SlotStep, PlanStep, PTL DEF ReminderSpec

-----------------------------------------------------------------------------
(* The parts together.                                                      *)

\* Each part of the composition takes its own steps only.
LEMMA AccessApart == PlatformSpec => OAuthSpec /\ MembersSpec /\ SignInSpec /\ RestoreSpec
<1>1. PlatformInit => OAuthInit /\ MembersInit /\ SignInInit /\ RestoreInit
  BY DEF PlatformInit
<1>2. [PlatformNext]_platformVars =>
        /\ [OAuthNext]_oauthVars /\ [MembersNext]_memberVars
        /\ [SignInNext]_signInVars /\ [RestoreNext]_restoreVars
  BY DEF PlatformNext, AccessNext, platformVars, accessVars
<1>3. QED
  BY <1>1, <1>2, PTL DEF PlatformSpec, OAuthSpec, MembersSpec, SignInSpec, RestoreSpec

LEMMA ServicesApart == PlatformSpec => TenantSpec /\ ReminderSpec /\ WebhookSpec /\ ClientFileSpec
<1>1. PlatformInit => TenantInit /\ ReminderInit /\ WebhookInit /\ ClientFileInit
  BY DEF PlatformInit
<1>2. [PlatformNext]_platformVars =>
        /\ [TenantNext]_tenantVars /\ [ReminderNext]_reminderVars
        /\ [WebhookNext]_webhookVars /\ [ClientFileNext]_fileVars
  BY DEF PlatformNext, ServiceNext, platformVars, serviceVars
<1>3. QED
  BY <1>1, <1>2, PTL DEF PlatformSpec, TenantSpec, ReminderSpec, WebhookSpec, ClientFileSpec

LEMMA RecordsApart == PlatformSpec => EvidenceSpec /\ ReportSpec /\ HealthSpec /\ MigrationSpec
<1>1. PlatformInit => EvidenceInit /\ ReportInit /\ HealthInit /\ MigrationInit
  BY DEF PlatformInit
<1>2. [PlatformNext]_platformVars =>
        /\ [EvidenceNext]_evidenceVars /\ [ReportNext]_reportVars
        /\ [HealthNext]_healthVars /\ [MigrationNext]_migrationVars
  BY DEF PlatformNext, RecordNext, platformVars, recordVars
<1>3. QED
  BY <1>1, <1>2, PTL DEF PlatformSpec, EvidenceSpec, ReportSpec, HealthSpec, MigrationSpec

\* Every variable of the platform keeps its type.
THEOREM PlatformTypesHold == PlatformSpec => []PlatformTypeOK
<1>1. PlatformSpec => []OAuthTypeOK /\ []MembersTypeOK /\ []SignInTypeOK /\ []RestoreTypeOK
  BY AccessApart, OAuthTypes, MembersTypesHold, SignInTypesHold, RestoreTypesHold, PTL
<1>2. PlatformSpec => []TenantTypeOK /\ []ReminderTypeOK /\ []WebhookTypeOK /\ []ClientFileTypeOK
  BY ServicesApart, TenantTypesHold, ReminderTypesHold, WebhookTypesHold, FileTypesHold, PTL
<1>3. PlatformSpec => []EvidenceTypeOK /\ []ReportTypeOK /\ []HealthTypeOK /\ []MigrationTypeOK
  BY RecordsApart, EvidenceTypesHold, ReportTypesHold, HealthTypesHold, MigrationTypesHold, PTL
<1>4. QED
  BY <1>1, <1>2, <1>3, PTL DEF PlatformTypeOK

\* What each part promises holds of the parts together, the abstract
\* specification of a grant included.
THEOREM PlatformKeepsPromises ==
    PlatformSpec =>
      /\ [](/\ OneLivePair /\ CondemnedForGood /\ OwnerRemains /\ KeyExcessBounded
            /\ LinkOpensOneSession /\ NothingComesBack /\ RemindedOnce /\ AcceptedOnce
            /\ PeriodsAddUp /\ ComparedWithTheLast /\ ReadsTellTheTruth
            /\ WeeksTellTheTruth /\ NothingLostInMigration)
      /\ GrantPromiseKept /\ RunnersKept
<1>1. PlatformSpec => [](/\ OneLivePair /\ CondemnedForGood /\ OwnerRemains /\ KeyExcessBounded
                         /\ LinkOpensOneSession /\ NothingComesBack)
  BY AccessApart, OneLivePairHolds, CondemnedForGoodHolds, OwnerRemainsHolds,
     KeyExcessBoundedHolds, LinkOpensOneSessionHolds, NothingComesBackHolds, PTL
<1>2. PlatformSpec => [](RemindedOnce /\ AcceptedOnce /\ PeriodsAddUp)
  BY ServicesApart, RemindedOnceHolds, AcceptedOnceHolds, PeriodsAddUpHolds, PTL
<1>3. PlatformSpec => [](/\ ComparedWithTheLast /\ ReadsTellTheTruth
                         /\ WeeksTellTheTruth /\ NothingLostInMigration)
  BY RecordsApart, ComparedWithTheLastHolds, ReadsTellTheTruthHolds, WeeksTellTheTruthHolds,
     NothingLostInMigrationHolds, PTL
<1>4. PlatformSpec => GrantPromiseKept /\ RunnersKept
  BY AccessApart, ServicesApart, GrantPromiseHolds, RunnersKeptHolds, PTL
<1>5. QED
  BY <1>1, <1>2, <1>3, <1>4, PTL
=============================================================================
