----------------------------- MODULE PolicyGate -----------------------------
(***************************************************************************)
(* enforce() of core/policy.py, through which a tool call of an agent      *)
(* passes: allowlist, arguments, budget, a human's consent, the call, and  *)
(* an audit line whatever happened.  One agent's calls share a Budget.     *)
(* enforce charges no money, so the limit of the cost is left out.  The    *)
(* program's own two callers (an upload, a run) make one call of           *)
(* `read_file` each, on a new Budget.                                      *)
(***************************************************************************)
EXTENDS Sequences, Integers

CONSTANTS
    Tools,       \* the tools that are called
    Arguments,   \* what a call may be given: [value, fits]
    MaxSteps     \* Budget.max_steps

ASSUME PolicyAssumption == MaxSteps \in Nat

VARIABLES
    steps,   \* Budget.steps
    overtime,    \* more than max_wall_s have passed
    prints,  \* the last of Budget._fingerprints, with what became of the call
    line,    \* the last line of the audit log
    lines,   \* how many
    calls    \* how many calls were made

policyVars == <<steps, overtime, prints, line, lines, calls>>

DESTRUCTIVE == {"send_email", "publish", "delete_file", "git_push", "charge"}
ALLOW == [researcher |-> {"web_search", "fetch_url", "read_file"},
          analyst |-> {"read_file", "run_sql"},
          executor |-> {"write_file", "send_email", "publish", "git_push"}]

NoLine == [decision |-> "none", role |-> "analyst", tool |-> "read_file",
           args |-> CHOOSE a \in Arguments : TRUE, consent |-> FALSE, ran |-> FALSE]

PolicyInit ==
    /\ steps = 0 /\ overtime = FALSE /\ prints = <<>>
    /\ line = NoLine /\ lines = 0 /\ calls = 0

PolicyTypeOK ==
    /\ steps \in 0 .. calls /\ calls \in Nat /\ overtime \in BOOLEAN
    /\ Len(prints) <= 3 /\ lines \in 0 .. calls
    /\ line.decision \in {"none", "allow", "deny:not_allowlisted", "deny:invalid_args",
                          "deny:budget", "deny:no_human_approval"}

-----------------------------------------------------------------------------
\* inside_workspace, read_only, or a schema that does not fit.
Fitting(args) == args.fits

\* The budget's time runs out.
TimeIsUp == /\ ~overtime /\ overtime' = TRUE /\ UNCHANGED <<steps, prints, line, lines, calls>>

LastThree(s) == IF Len(s) <= 3 THEN s ELSE SubSeq(s, Len(s) - 2, Len(s))

\* A slip of Looped: the third one passes.
LoopedLater(s, print) == Len(s) = 3 /\ \A n \in 1 .. 3 : s[n].print = print

\* The print that comes now is the third of its kind in a row.
Looped(s, print) == Len(s) >= 2 /\ \A n \in Len(s) - 1 .. Len(s) : s[n].print = print

\* charge: a step is counted whatever follows, a print only within the limits.
WithinLimits == steps + 1 <= MaxSteps /\ ~overtime

Write(role, tool, args, decision, consent, ran) ==
    /\ line' = [decision |-> decision, role |-> role, tool |-> tool, args |-> args,
                consent |-> consent, ran |-> ran]
    /\ lines' = lines + 1 /\ calls' = calls + 1
    /\ UNCHANGED overtime

\* Refused before the budget is asked.
RefuseEarly(role, tool, args) ==
    /\ \/ tool \notin ALLOW[role] /\ Write(role, tool, args, "deny:not_allowlisted", FALSE, FALSE)
       \/ /\ tool \in ALLOW[role] /\ ~Fitting(args)
          /\ Write(role, tool, args, "deny:invalid_args", FALSE, FALSE)
    /\ UNCHANGED <<steps, prints>>

OverBudget(role, tool, args) ==
    LET print == <<tool, args>> IN
    /\ tool \in ALLOW[role] /\ Fitting(args)
    /\ steps' = steps + 1
    /\ \/ ~WithinLimits /\ UNCHANGED prints
       \/ /\ WithinLimits /\ Looped(prints, print)
          /\ prints' = LastThree(Append(prints, [print |-> print, ran |-> FALSE]))
    /\ Write(role, tool, args, "deny:budget", FALSE, FALSE)

\* The call, or the refusal of a human.  An exception of `approve` or of the
\* tool leaves the decision as it was, "allow".
CallTool(role, tool, args) ==
    LET print == <<tool, args>>
        ask == tool \in DESTRUCTIVE
    IN  /\ tool \in ALLOW[role] /\ Fitting(args)
        /\ WithinLimits /\ ~Looped(prints, print)
        /\ steps' = steps + 1
        /\ \E word \in (IF ask THEN {"yes", "no", "raises"} ELSE {"not asked"}) :
             LET ran == word \in {"yes", "not asked"}
             IN  /\ Write(role, tool, args, IF word = "no" THEN "deny:no_human_approval" ELSE "allow",
                          word = "yes", ran)
                 /\ prints' = LastThree(Append(prints, [print |-> print, ran |-> ran]))

PolicyNext ==
    \/ TimeIsUp
    \/ \E role \in DOMAIN ALLOW, tool \in Tools, args \in Arguments :
         /\ calls <= MaxSteps + 1
         /\ RefuseEarly(role, tool, args) \/ OverBudget(role, tool, args) \/ CallTool(role, tool, args)

PolicySpec == PolicyInit /\ [][PolicyNext]_policyVars

-----------------------------------------------------------------------------
\* "The model is a planner, never an authority": what ran was allowed to its
\* role, had arguments that fit, and a human's consent where it cannot be
\* undone, and no session runs more than its steps or one thing three times in
\* a row; each call has its line, and one that was denied did not run.
OnlyWhatPolicyAllows ==
    /\ lines = calls
    /\ line.ran =>
         /\ line.tool \in ALLOW[line.role] /\ line.args.fits
         /\ line.tool \in DESTRUCTIVE => line.consent
         /\ line.decision = "allow" /\ steps <= MaxSteps
    /\ Len(prints) = 3 => \E n \in 1 .. 3 : ~prints[n].ran \/ prints[n].print # prints[1].print
=============================================================================
