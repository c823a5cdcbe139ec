---------------------------- MODULE GrantPromise ----------------------------
(***************************************************************************)
(* What the authorization server promises about a grant, without codes,    *)
(* rotation, locks or rows: its refresh tokens form one chain.  At most    *)
(* one of them can be exchanged at any time, each only once, and a grant   *)
(* that has none left never gets one again.                                *)
(***************************************************************************)
EXTENDS Naturals

CONSTANTS Grants, Tokens

VARIABLES
    usable,  \* the refresh tokens of a grant that can be exchanged
    spent    \* those that were usable once

promiseVars == <<usable, spent>>

PromiseInit ==
    /\ usable = [g \in Grants |-> {}]
    /\ spent = [g \in Grants |-> {}]

Fresh(t) == \A g \in Grants : t \notin usable[g] \cup spent[g]

\* The first pair, for an authorization code.
Issue(g, t) ==
    /\ usable[g] = {} /\ spent[g] = {} /\ Fresh(t)
    /\ usable' = [usable EXCEPT ![g] = {t}]
    /\ UNCHANGED spent

\* Nothing is exchanged for something, or the grant ends.
Spend(g, new) ==
    /\ usable[g] # {}
    /\ \A t \in new : Fresh(t)
    /\ usable' = [usable EXCEPT ![g] = new]
    /\ spent' = [spent EXCEPT ![g] = @ \cup usable[g]]

Rotate(g, t) == Spend(g, {t})
Close(g) == Spend(g, {})

PromiseNext ==
    /\ usable' # usable
    /\ \E g \in Grants : Close(g) \/ \E t \in Tokens : Issue(g, t) \/ Rotate(g, t)

PromiseSpec == PromiseInit /\ [][PromiseNext]_promiseVars
=============================================================================
