------------------------------ MODULE Reminder ------------------------------
(***************************************************************************)
(* The weekly reminder of one organization (control/schedule.py) and the   *)
(* PUT that changes it (api/v1/schedule.py).  Hours are numbered; a week   *)
(* has Week of them, and a setting of day, hour and time zone is the       *)
(* phase of its slots.  A sender is the loop of a process, or what a stop  *)
(* leaves of it; the PUT writes only the columns that it has changed, and  *)
(* both keep the `now` they began with.                                    *)
(***************************************************************************)
EXTENDS Naturals, FiniteSets

CONSTANTS
    Senders,
    Savers,   \* PUTs at the same time
    Week,     \* hours of a week
    Phases,   \* settings of day, hour and time zone
    LastHour, \* bound
    MaxArmed  \* bound: how often PUTs write one slot

ASSUME ReminderAssumption ==
    /\ Week \in Nat \ {0} /\ {LastHour, MaxArmed} \subseteq Nat
    /\ Phases \subseteq 0 .. Week - 1
    /\ IsFiniteSet(Senders)

VARIABLES
    hour,
    plan,    \* the row: reminder_enabled, setting, next_reminder_at
    sender,
    saver,
    armed,   \* how often a slot was written to next_reminder_at
    mailed   \* how often the reminder of a slot was sent

reminderVars == <<hour, plan, sender, saver, armed, mailed>>

Never == 0
Slots == 1 .. LastHour + 2 * Week
Plans == [on : BOOLEAN, phase : Phases, next : Slots \cup {Never}]
Asleep == [at |-> "asleep"]
NoSave == [at |-> "nowhere"]

ReminderTypeOK ==
    /\ hour \in 0 .. LastHour
    /\ plan \in Plans
    /\ \A s \in Senders :
         \/ sender[s] = Asleep
         \/ sender[s] \in [at : {"read"}, due : Slots, next : Slots \cup {Never}]
         \/ sender[s] \in [at : {"claimed"}, due : Slots]
    /\ \A v \in Savers :
         \/ saver[v] = NoSave
         \/ saver[v] \in [at : {"put"}, old : Plans, new : Plans]
    /\ {armed, mailed} \subseteq [Slots -> Nat]

ReminderInit ==
    /\ hour = 0
    /\ plan \in {p \in Plans : p.on = FALSE /\ p.next = Never}
    /\ sender = [s \in Senders |-> Asleep]
    /\ saver = [v \in Savers |-> NoSave]
    /\ armed = [t \in Slots |-> 0]
    /\ mailed = [t \in Slots |-> 0]

\* compute_next_reminder: the first slot after `after`, strictly.
ComputeNext(phase, after) ==
    CHOOSE t \in Slots : /\ t % Week = phase /\ t > after
                         /\ \A u \in Slots : u % Week = phase /\ u > after => t <= u

Arm(next) == armed' = [t \in Slots |-> IF t = next THEN armed[t] + 1 ELSE armed[t]]

HourPasses ==
    /\ hour < LastHour
    /\ hour' = hour + 1
    /\ UNCHANGED <<plan, sender, saver, armed, mailed>>

-----------------------------------------------------------------------------
(* SchedulerLoop.tick and send_reminder.                                   *)

Due(p, now) == p.on /\ p.next # Never /\ p.next <= now

\* The row and the following slot, none when it cannot be computed.  `now` is
\* that of due_schedules: other organizations may have been served since.
Tick(s, now) ==
    /\ sender[s] = Asleep /\ now <= hour /\ Due(plan, now)
    /\ \E next \in {ComputeNext(plan.phase, now), Never} :
         sender' = [sender EXCEPT ![s] = [at |-> "read", due |-> plan.next, next |-> next]]
    /\ UNCHANGED <<hour, plan, saver, armed, mailed>>

\* A slip of Claimable: a claim without a condition.
ClaimableAlways(s) == sender[s].at = "read"

\* The condition of the UPDATE.
Claimable(s) == plan.on /\ plan.next = sender[s].due

\* The claim and its commit.
Claim(s) ==
    LET next == sender[s].next IN
    /\ sender[s].at = "read"
    /\ \/ /\ Claimable(s)
          /\ plan' = [plan EXCEPT !.next = next, !.on = next # Never]
          /\ Arm(next)
          /\ sender' = [sender EXCEPT ![s] =
                          IF next = Never THEN Asleep
                          ELSE [at |-> "claimed", due |-> sender[s].due]]
       \/ /\ ~Claimable(s)
          /\ sender' = [sender EXCEPT ![s] = Asleep]
          /\ UNCHANGED <<plan, armed>>
    /\ UNCHANGED <<hour, saver, mailed>>

\* The mails, unless there is a recent upload or nobody to write to.
Mail(s) ==
    /\ sender[s].at = "claimed"
    /\ \/ mailed' = [mailed EXCEPT ![sender[s].due] = @ + 1]
       \/ UNCHANGED mailed
    /\ sender' = [sender EXCEPT ![s] = Asleep]
    /\ UNCHANGED <<hour, plan, saver, armed>>

\* The process stops, or an error ends this organization's turn.
BreakOff(s) ==
    /\ sender[s] # Asleep
    /\ sender' = [sender EXCEPT ![s] = Asleep]
    /\ UNCHANGED <<hour, plan, saver, armed, mailed>>

-----------------------------------------------------------------------------
(* put_schedule.                                                           *)

\* The row is read after `now`; next_for is computed for what it will be.
Put(v, on, phase) ==
    /\ saver[v] = NoSave
    /\ on => armed[ComputeNext(phase, hour)] < MaxArmed
    /\ saver' = [saver EXCEPT ![v] =
         [at |-> "put", old |-> plan,
          new |-> [on |-> on, phase |-> phase,
                   next |-> IF on THEN ComputeNext(phase, hour) ELSE Never]]]
    /\ UNCHANGED <<hour, plan, sender, armed, mailed>>

\* The flush: columns whose value is the one that was read are not written.
Save(v) ==
    LET old == saver[v].old
        new == saver[v].new
        changed == {c \in DOMAIN new : new[c] # old[c]}
    IN  /\ saver[v].at = "put"
        /\ plan' = [c \in DOMAIN plan |-> IF c \in changed THEN new[c] ELSE plan[c]]
        /\ Arm(IF "next" \in changed THEN new.next ELSE Never)
        /\ saver' = [saver EXCEPT ![v] = NoSave]
        /\ UNCHANGED <<hour, sender, mailed>>

ReminderNext ==
    \/ HourPasses
    \/ \E s \in Senders : 
         Claim(s) \/ Mail(s) \/ BreakOff(s) \/ \E now \in 0 .. hour : Tick(s, now)
    \/ \E v \in Savers :
         Save(v) \/ \E on \in BOOLEAN, phase \in Phases : Put(v, on, phase)

ReminderSpec == ReminderInit /\ [][ReminderNext]_reminderVars

-----------------------------------------------------------------------------
\* The reminder of a slot is sent at most as often as the slot was written to
\* the row: two loops, a restart in the middle and a PUT that overtakes the
\* claim never send one twice.
RemindedOnce ==
    \A t \in Slots : mailed[t] <= armed[t]
=============================================================================
