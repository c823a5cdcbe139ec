--------------------------- MODULE WebhookDelivery ---------------------------
(***************************************************************************)
(* What is told when a run has finished: the webhooks of one organization  *)
(* (control/webhooks.py, api/v1/webhooks.py) and its notices, the chat     *)
(* message and the e-mail (control/notifications.py).  Deliveries are      *)
(* tasks in memory: a stop ends them.  A hook that is deleted is still     *)
(* told what was announced before.                                         *)
(***************************************************************************)
EXTENDS Naturals, FiniteSets

CONSTANTS
    Hooks,
    Notices,     \* channels of the schedule that are told once
    Runs,
    Pings,       \* test events
    Keys, NoKey, \* values of DAAS_SECRET_KEY
    MaxHooks,    \* MAX_WEBHOOKS
    MaxAttempts  \* MAX_ATTEMPTS

ASSUME WebhookAssumption ==
    /\ {MaxHooks, MaxAttempts} \subseteq Nat \ {0}
    /\ NoKey \notin Keys
    /\ Hooks \cap Notices = {} /\ Runs \cap Pings = {}

VARIABLES
    process,  \* the settings of the process: maintenance mode, key
    hook,     \* the row of a hook
    run,      \* how far a run's end has been told
    delivery

webhookVars == <<process, hook, run, delivery>>

Processes == [paused : BOOLEAN, key : Keys \cup {NoKey}]
Deliveries == (Runs \X (Hooks \cup Notices)) \cup (Pings \X Hooks)
Unheard == [at |-> "nowhere", tries |-> 0, accepted |-> 0, result |-> "none"]
Steps == {"queued", "posting", "backoff", "ended"}

WebhookTypeOK ==
    /\ process \in Processes
    /\ hook \in [Hooks -> [row : {"none", "counted", "there", "deleted"},
                           key : Keys \cup {NoKey}]]
    /\ run \in [Runs -> {"going", "finished", "hooks_told", "told"}]
    /\ delivery \in [Deliveries ->
         [at : Steps \cup {"nowhere", "audited", "broken_off"},
          tries : 0 .. MaxAttempts, accepted : Nat,
          result : {"none", "delivered", "failed"}]]

WebhookInit ==
    /\ process \in Processes
    /\ hook = [w \in Hooks |-> [row |-> "none", key |-> NoKey]]
    /\ run = [r \in Runs |-> "going"]
    /\ delivery = [d \in Deliveries |-> Unheard]

-----------------------------------------------------------------------------
(* create_webhook and delete_webhook.                                      *)

There == {w \in Hooks : hook[w].row = "there"}

CountHooks(w) ==
    /\ hook[w].row = "none" /\ process.key # NoKey
    /\ Cardinality(There) < MaxHooks
    /\ hook' = [hook EXCEPT ![w] = [row |-> "counted", key |-> process.key]]
    /\ UNCHANGED <<process, run, delivery>>

InsertHook(w) ==
    /\ hook[w].row = "counted"
    /\ hook' = [hook EXCEPT ![w].row = "there"]
    /\ UNCHANGED <<process, run, delivery>>

DeleteHook(w) ==
    /\ w \in There
    /\ hook' = [hook EXCEPT ![w].row = "deleted"]
    /\ UNCHANGED <<process, run, delivery>>

-----------------------------------------------------------------------------
(* The listeners of the executor, one after the other.                     *)

\* External: the executor announces the end of a run once.
FinishRun(r) ==
    /\ run[r] = "going"
    /\ run' = [run EXCEPT ![r] = "finished"]
    /\ UNCHANGED <<process, hook, delivery>>

Spawn(ds) ==
    delivery' = [d \in Deliveries |->
                   IF d \in ds THEN [delivery[d] EXCEPT !.at = "queued"] ELSE delivery[d]]

TellHooks(r) ==
    /\ run[r] = "finished"
    /\ run' = [run EXCEPT ![r] = "hooks_told"]
    /\ Spawn(IF process.paused THEN {} ELSE {r} \X There)
    /\ UNCHANGED <<process, hook>>

\* The schedule says which channels are used; it is changed at any time.
TellNotices(r) ==
    /\ run[r] = "hooks_told"
    /\ run' = [run EXCEPT ![r] = "told"]
    /\ \E used \in SUBSET Notices : Spawn(IF process.paused THEN {} ELSE {r} \X used)
    /\ UNCHANGED <<process, hook>>

Ping(p, w) ==
    /\ ~process.paused /\ w \in There
    /\ delivery[<<p, w>>] = Unheard
    /\ Spawn({<<p, w>>})
    /\ UNCHANGED <<process, hook, run>>

-----------------------------------------------------------------------------
(* One delivery.                                                           *)

Limit(d) == IF d[1] \in Runs /\ d[2] \in Hooks THEN MaxAttempts ELSE 1

\* signing_secret: the key is the one that the hook was made with.
Signable(d) == d[2] \in Hooks => hook[d[2]].key = process.key

Unsigned(d) ==
    /\ delivery[d].at = "queued" /\ ~Signable(d)
    /\ delivery' = [delivery EXCEPT ![d].at = "ended", ![d].result = "failed"]
    /\ UNCHANGED <<process, hook, run>>

Post(d) ==
    /\ \/ delivery[d].at = "queued" /\ Signable(d)
       \/ delivery[d].at = "backoff"
    /\ delivery' = [delivery EXCEPT ![d].at = "posting", ![d].tries = @ + 1]
    /\ UNCHANGED <<process, hook, run>>

\* A slip of Answered: the loop goes on after a success.
AnsweredAndOn(d, answer) ==
    LET x == delivery[d] IN
    [x EXCEPT !.at = IF answer # "never" /\ x.tries < Limit(d) THEN "backoff" ELSE "ended",
              !.accepted = IF answer = "ok" THEN @ + 1 ELSE @,
              !.result = IF answer = "ok" THEN "delivered" ELSE "failed"]

\* "ok" is a 2xx, "never" an address that no retry can mend, "bad" the rest,
\* a lost answer included.
Answered(d, answer) ==
    LET x == delivery[d] IN
    CASE answer = "ok" -> [x EXCEPT !.at = "ended", !.accepted = @ + 1, !.result = "delivered"]
      [] answer = "bad" /\ x.tries < Limit(d) -> [x EXCEPT !.at = "backoff"]
      [] OTHER -> [x EXCEPT !.at = "ended", !.result = "failed"]

Answer(d) ==
    /\ delivery[d].at = "posting"
    /\ \E answer \in {"ok", "bad", "never"} :
         delivery' = [delivery EXCEPT ![d] = Answered(d, answer)]
    /\ UNCHANGED <<process, hook, run>>

\* webhook.delivered, webhook.failed or the like; without it when that fails.
Audit(d) ==
    /\ delivery[d].at = "ended"
    /\ \E end \in {"audited", "broken_off"} : delivery' = [delivery EXCEPT ![d].at = end]
    /\ UNCHANGED <<process, hook, run>>

\* close, or a crash, and the next start with its settings.
Restart ==
    /\ process' \in Processes
    /\ hook' = [w \in Hooks |-> IF hook[w].row = "counted" THEN [hook[w] EXCEPT !.row = "none"]
                                ELSE hook[w]]
    /\ run' = [r \in Runs |-> IF run[r] = "going" THEN "going" ELSE "told"]
    /\ delivery' = [d \in Deliveries |->
                      IF delivery[d].at \in Steps
                      THEN [delivery[d] EXCEPT !.at = "broken_off"] ELSE delivery[d]]

WebhookNext ==
    \/ \E w \in Hooks :
         CountHooks(w) \/ InsertHook(w) \/ DeleteHook(w) \/ \E p \in Pings : Ping(p, w)
    \/ \E r \in Runs : FinishRun(r) \/ TellHooks(r) \/ TellNotices(r)
    \/ \E d \in Deliveries : Unsigned(d) \/ Post(d) \/ Answer(d) \/ Audit(d)
    \/ Restart

WebhookSpec == WebhookInit /\ [][WebhookNext]_webhookVars

-----------------------------------------------------------------------------
\* Whatever fails, is retried, is deleted or restarts, a receiver whose
\* 2xx to an event has arrived is not sent it again, nobody is tried more often than
\* promised, and the audit log says "delivered" of exactly what was accepted.
AcceptedOnce ==
    \A d \in Deliveries :
      /\ delivery[d].tries <= Limit(d)
      /\ delivery[d].accepted <= 1
      /\ delivery[d].at = "audited"
           => (delivery[d].result = "delivered") = (delivery[d].accepted = 1)
=============================================================================
