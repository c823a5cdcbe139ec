-------------------------- MODULE RestoreReconcile --------------------------
(***************************************************************************)
(* After a restore the API stays stopped while the operator restricts the  *)
(* restored control database: restore_quarantine (control/restore.py) ends *)
(* what it contains, restore_reconcile (control/restore_reconcile.py)      *)
(* compares it with the copy made just before the restore and takes back   *)
(* what had been taken back by then.  Each is one transaction.             *)
(* One organization is followed; another one is in both databases.  A row  *)
(* with a switch is "on" (a live credential, a pending invitation, an      *)
(* active webhook or setting, a queued job, a report), "off" or "absent".  *)
(***************************************************************************)
EXTENDS Naturals

CONSTANTS People

\* Rows of an OAuth connection, and one of any other kind.
Rows == {"client", "grant", "token", "other"}

\* The rows that a row depends on.
Behind(r) == CASE r = "token" -> {"client", "grant"}
               [] r = "grant" -> {"client"}
               [] OTHER -> {}

VARIABLES
    cur,    \* the restored database
    pre,    \* the one that it replaced
    stage   \* restored, quarantined, then reconciled

restoreVars == <<cur, pre, stage>>

RoleRank == [none |-> 0, member |-> 1, admin |-> 2, owner |-> 3]
RoleNames == DOMAIN RoleRank
OwnersIn(db) == {p \in People : db.role[p] = "owner"}

\* What the foreign keys, the guarded statements and revocation leave in a
\* database.
Sound(db) ==
    /\ db.org <=> OwnersIn(db) # {}
    /\ \A p \in People : db.role[p] # "none" => db.org /\ p \in db.user
    /\ \A r \in Rows : \A b \in Behind(r) :
         /\ db.row[r] # "absent" => db.row[b] # "absent"
         /\ db.row[r] = "on" => db.row[b] = "on"
    /\ ~db.org => \A r \in Rows \ {"client"} : db.row[r] = "absent"

Databases == {db \in [org : BOOLEAN, user : SUBSET People,
                      role : [People -> RoleNames],
                      row : [Rows -> {"on", "off", "absent"}]] : Sound(db)}

\* The people of a database are compared in some cases, its rows in others.
Plain(db) == db.org /\ \A p \in People : db.role[p] = "owner"
SameRows(d1, d2) == \A r \in Rows : d1.row[r] = "absent" /\ d2.row[r] = "absent"

RestoreInit ==
    /\ cur \in {db \in Databases : db.org}
    /\ pre \in Databases
    /\ SameRows(cur, pre) \/ (Plain(cur) /\ (Plain(pre) \/ ~pre.org))
    /\ stage = "restored"

RestoreTypeOK ==
    /\ {cur.org, pre.org} \subseteq BOOLEAN
    /\ {cur.role, pre.role} \subseteq [People -> RoleNames]
    /\ {cur.row, pre.row} \subseteq [Rows -> {"on", "off", "absent"}]
    /\ stage \in {"restored", "quarantined", "reconciled"}

-----------------------------------------------------------------------------
\* restore_quarantine with revoke_all; without it only sessions, links and
\* codes go, which the comparison does not see.
Quarantine(revokeAll) ==
    /\ stage = "restored"
    /\ cur' = [cur EXCEPT !.row = [r \in Rows |->
                 IF revokeAll /\ @[r] = "on" THEN "off" ELSE @[r]]]
    /\ stage' = "quarantined"
    /\ UNCHANGED pre

-----------------------------------------------------------------------------
(* _plan, and the statements that carry it out.                            *)

Blocked == pre.org /\ OwnersIn(cur) \cap OwnersIn(pre) = {}

\* Those who may be made owner of a blocked organization.
Candidates == {p \in OwnersIn(pre) : cur.role[p] # "none"}

\* The choices that are not refused: none, or a candidate where it is needed.
Resolutions == {res \in SUBSET Candidates :
                  IF Blocked THEN \E p \in People : res = {p} ELSE res = {}}

Lower(r, s) == IF RoleRank[r] < RoleRank[s] THEN r ELSE s

\* A slip of Ended: a row that is there counts as live.
EndedIfGone(r) == pre.row[r] = "absent"

\* What had ended by the time of the copy, itself or what it depends on.
Ended(r) == pre.row[r] # "on" \/ \E b \in Behind(r) : pre.row[b] # "on"

RowAfter(r) ==
    IF ~pre.org /\ r # "client" THEN "absent"
    ELSE IF cur.row[r] = "on" /\ Ended(r) THEN "off" ELSE cur.row[r]

RoleAfter(p, res) == IF p \in res THEN "owner" ELSE Lower(cur.role[p], pre.role[p])

Planned(res) ==
    [org |-> cur.org /\ pre.org,
     user |-> cur.user \cap pre.user,
     role |-> [p \in People |-> RoleAfter(p, res)],
     row |-> [r \in Rows |-> RowAfter(r)]]

\* With --apply; a dry run, a blocked organization, a refused choice or an
\* archive that fails its checks changes nothing.
Reconcile(res) ==
    /\ stage # "reconciled"
    /\ res \in Resolutions
    /\ cur' = Planned(res)
    /\ stage' = "reconciled"
    /\ UNCHANGED pre

RestoreNext ==
    \/ \E all \in BOOLEAN : Quarantine(all)
    \/ \E res \in SUBSET People : Reconcile(res)

RestoreSpec == RestoreInit /\ [][RestoreNext]_restoreVars

-----------------------------------------------------------------------------
\* After --apply nothing is back that was gone: no organization, account,
\* role above the one held, nor credential whose connection had ended at any
\* level.  A retained organization has an owner, and a second run finds
\* nothing left to do.
NothingComesBack ==
    stage = "reconciled" =>
      /\ cur.org => pre.org /\ OwnersIn(cur) # {}
      /\ cur.user \subseteq pre.user
      /\ \A p \in People : RoleRank[cur.role[p]] <= RoleRank[pre.role[p]]
      /\ \A r \in Rows : cur.row[r] = "on" =>
           \A b \in Behind(r) \cup {r} : cur.row[b] = "on" /\ pre.row[b] = "on"
      /\ ~Blocked /\ cur = Planned({})
=============================================================================
