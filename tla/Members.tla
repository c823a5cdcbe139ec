------------------------------- MODULE Members -------------------------------
(***************************************************************************)
(* One organization: its members and their roles, invitations, API keys,   *)
(* and its deletion (api/v1/members.py, orgs.py, api_keys.py and           *)
(* control/service.py).  A request reads the caller's role and the rows it *)
(* is about, and writes later; two of them may be under way at once.  A    *)
(* caller is a member with a session, one of the organization's API keys,  *)
(* or, in the default organization of a selfhost installation, which has   *)
(* no members at first, the key of the deployment.  Of the role that an    *)
(* invitation carries only ownership is kept; the rest, and the day it     *)
(* expires, are chosen when it is accepted.                                *)
(***************************************************************************)
EXTENDS Naturals, FiniteSets

CONSTANTS
    Users,
    Founder,         \* the user who created an organization that is founded
    Requests,        \* requests that are served at the same time
    MaxInvitations,  \* bound: pending invitations of an address
    MaxActiveKeys    \* MAX_ACTIVE_KEYS

ASSUME MembersAssumption ==
    /\ Founder \in Users /\ "key" \notin Users /\ Requests # {} /\ IsFiniteSet(Requests)
    /\ MaxInvitations \in Nat
    /\ MaxActiveKeys \in Nat \ {0}

Roles == {"member", "admin", "owner"}

\* ApiKey.created_by: a user, or "key" for all that a key has made, whose id is
\* no user's.
Makers == Users \cup {"key"}

VARIABLES
    org,      \* founded, the default one, or deleted
    role,     \* Membership.role; none: no row
    pending,  \* invitations of an address with accepted_at NULL
    offered,  \* addresses of which one of them may carry ownership
    keys,     \* API keys with revoked_at NULL, by created_by
    request   \* what a request has read, and what it is about to write

orgRows == <<org, role, pending, offered, keys>>
memberVars == <<orgRows, request>>

NoRequest == [does |-> "nothing"]

MembersTypeOK ==
    /\ org \in {"founded", "default", "deleted"}
    /\ role \in [Users -> Roles \cup {"none"}]
    /\ pending \in [Users -> 0 .. MaxInvitations] /\ offered \subseteq Users
    /\ keys \in [Makers -> 0 .. MaxActiveKeys + Cardinality(Requests)]
    /\ \A r \in Requests :
         \/ request[r] = NoRequest
         \/ request[r] \in [does : {"remove"}, user : Users]
         \/ request[r] \in [does : {"key"}, user : Makers]
         \/ request[r] \in [does : {"change"}, user : Users, to : Roles]
         \/ request[r] \in [does : {"insert", "refresh"}, user : Users, owner : BOOLEAN]
         \/ request[r] \in [does : {"accept"}, user : Users,
                            seen : 0 .. MaxInvitations, to : Roles \cup {"none"}]

\* create_org, by its founder or for him by the command line, which makes a
\* first key; or by ensure_default_org, without an owner.
MembersInit ==
    /\ org \in {"founded", "default"}
    /\ role = [u \in Users |-> IF org = "founded" /\ u = Founder THEN "owner" ELSE "none"]
    /\ pending = [u \in Users |-> 0] /\ offered = {}
    /\ \E first \in 0 .. 1 :
         keys = [m \in Makers |-> IF org = "founded" /\ m = Founder THEN first ELSE 0]
    /\ request = [r \in Requests |-> NoRequest]

\* The rows of the active keys, told apart by their maker and a number.
KeyRows == UNION {{m} \X (1 .. keys[m]) : m \in Makers}
ActiveKeys == Cardinality(KeyRows)

\* org_access: a session of a member with one of these roles, or, where the
\* scope can be given to a key, an API key, or the key of the deployment.
Exists == org # "deleted"
Caller(roles) == Exists /\ \E u \in Users : role[u] \in roles
CallerKey == Exists /\ (ActiveKeys > 0 \/ org = "default")
Manager == Caller({"admin", "owner"}) \/ CallerKey

\* Ownership is no longer offered where no invitation is left.
Offers(addresses) == offered' = {u \in addresses : pending'[u] > 0}

Reads(r, what) ==
    /\ request[r] = NoRequest
    /\ request' = [request EXCEPT ![r] = what]
    /\ UNCHANGED orgRows

Answers(r) == request' = [request EXCEPT ![r] = NoRequest]

-----------------------------------------------------------------------------
(* Members: remove_member, change_role, restore_members.                   *)

Owners == {u \in Users : role[u] = "owner"}

\* A slip of Guarded: one owner is enough.
GuardedByOne(u) ==
    role[u] # "none" /\ (role[u] = "owner" => Cardinality(Owners) > 0)

\* The condition of the guarded DELETE and UPDATE, evaluated by the statement
\* itself, with the rows of the owners locked.
Guarded(u) == role[u] # "none" /\ (role[u] = "owner" => Cardinality(Owners) > 1)

ReadRemove(r, u) ==
    /\ IF role[u] = "owner" THEN Caller({"owner"}) ELSE Manager
    /\ role[u] # "none"
    /\ Reads(r, [does |-> "remove", user |-> u])

\* The keys that the member created are revoked in the same transaction.
Remove(r) ==
    LET u == request[r].user IN
    /\ request[r].does = "remove"
    /\ \/ /\ Guarded(u)
          /\ role' = [role EXCEPT ![u] = "none"]
          /\ keys' = [keys EXCEPT ![u] = 0]
       \/ ~Guarded(u) /\ UNCHANGED <<role, keys>>   \* 404, or 409 last_owner
    /\ Answers(r)
    /\ UNCHANGED <<org, pending, offered>>

ReadChange(r, u, to) ==
    /\ Caller({"owner"})
    /\ role[u] \notin {"none", to}
    /\ Reads(r, [does |-> "change", user |-> u, to |-> to])

Change(r) ==
    LET u == request[r].user IN
    /\ request[r].does = "change"
    /\ \/ /\ Guarded(u)
          /\ role' = [role EXCEPT ![u] = request[r].to]
       \/ ~Guarded(u) /\ UNCHANGED role
    /\ Answers(r)
    /\ UNCHANGED <<org, pending, offered, keys>>

Rank == [none |-> 0, member |-> 1, admin |-> 2, owner |-> 3]

\* The operator's correction after a restore, with the API stopped.
Correct(u, to) ==
    /\ \A r \in Requests : request[r] = NoRequest
    /\ Guarded(u) /\ Rank[to] < Rank[role[u]]
    /\ role' = [role EXCEPT ![u] = to]
    /\ UNCHANGED <<org, pending, offered, keys, request>>

-----------------------------------------------------------------------------
(* Invitations.                                                            *)

\* invite: only an owner's session offers ownership; nothing for a member; a
\* pending invitation is refreshed; with two of them scalar_one_or_none raises.
ReadInvite(r, u, owner) ==
    /\ IF owner THEN Caller({"owner"}) ELSE Manager
    /\ role[u] = "none"
    /\ \/ pending[u] = 0 /\ Reads(r, [does |-> "insert", user |-> u, owner |-> owner])
       \/ pending[u] = 1 /\ Reads(r, [does |-> "refresh", user |-> u, owner |-> owner])

Invite(r) ==
    LET u == request[r].user IN
    /\ \/ /\ request[r].does = "insert" /\ Exists /\ pending[u] < MaxInvitations
          /\ pending' = [pending EXCEPT ![u] = @ + 1]
       \/ /\ request[r].does = "refresh" \/ (request[r].does = "insert" /\ ~Exists)
          /\ UNCHANGED pending
    /\ Offers(IF request[r].owner THEN offered \cup {u} ELSE offered)
    /\ Answers(r)
    /\ UNCHANGED <<org, role, keys>>

RevokeInvitation(u) ==
    /\ Manager
    /\ pending[u] > 0
    /\ pending' = [pending EXCEPT ![u] = @ - 1]
    /\ Offers(offered)
    /\ UNCHANGED <<org, role, keys, request>>

\* accept_pending_invitations, at sign-in and at GET /me: the first of the
\* n invitations that have not expired gives its role to one who is no member.
ReadAccept(r, u, n, to) ==
    /\ n <= pending[u]
    /\ to = "none" <=> role[u] # "none"
    /\ to = "owner" => u \in offered
    /\ Reads(r, [does |-> "accept", user |-> u, seen |-> n, to |-> to])

\* Rolled back when the membership exists by now, or when a row is gone.
Accept(r) ==
    LET q == request[r] IN
    /\ q.does = "accept"
    /\ \/ /\ q.seen <= pending[q.user] /\ (q.to = "none" \/ role[q.user] = "none")
          /\ role' = [role EXCEPT ![q.user] = IF q.to = "none" THEN @ ELSE q.to]
          /\ pending' = [pending EXCEPT ![q.user] = @ - q.seen]
       \/ /\ q.seen > pending[q.user] \/ (q.to # "none" /\ role[q.user] # "none")
          /\ UNCHANGED <<role, pending>>
    /\ Offers(offered)
    /\ Answers(r)
    /\ UNCHANGED <<org, keys>>

-----------------------------------------------------------------------------
(* API keys, and the end of the organization.                              *)

\* An admin or an owner makes a key, or a key does that may manage keys.
MakesKeys(m) == IF m = "key" THEN CallerKey ELSE Exists /\ role[m] \in {"admin", "owner"}

\* A slip of ReadKeys: off by one.
ReadKeysInclusive(r, m) ==
    /\ MakesKeys(m)
    /\ ActiveKeys <= MaxActiveKeys
    /\ Reads(r, [does |-> "key", user |-> m])

ReadKeys(r, m) ==
    /\ MakesKeys(m)
    /\ ActiveKeys < MaxActiveKeys
    /\ Reads(r, [does |-> "key", user |-> m])

CreateKey(r) ==
    LET m == request[r].user IN
    /\ request[r].does = "key"
    /\ keys' = [keys EXCEPT ![m] = IF Exists THEN @ + 1 ELSE @]
    /\ Answers(r)
    /\ UNCHANGED <<org, role, pending, offered>>

RevokeKey(m) ==
    /\ Manager
    /\ keys[m] > 0
    /\ keys' = [keys EXCEPT ![m] = @ - 1]
    /\ UNCHANGED <<org, role, pending, offered, request>>

\* delete_org, once no job is active; the rows go with the organization.  That
\* of a selfhost installation cannot be deleted.
DeleteOrg ==
    /\ org = "founded" /\ Caller({"owner"})
    /\ org' = "deleted"
    /\ role' = [u \in Users |-> "none"]
    /\ pending' = [u \in Users |-> 0] /\ offered' = {}
    /\ keys' = [m \in Makers |-> 0]
    /\ UNCHANGED request

MembersNext ==
    \/ DeleteOrg
    \/ \E m \in Makers : RevokeKey(m) \/ \E r \in Requests : ReadKeys(r, m)
    \/ \E u \in Users :
         \/ RevokeInvitation(u)
         \/ \E to \in {"none", "member", "admin"} : Correct(u, to)
         \/ \E r \in Requests :
              \/ ReadRemove(r, u)
              \/ \E owner \in BOOLEAN : ReadInvite(r, u, owner)
              \/ \E to \in Roles : ReadChange(r, u, to)
              \/ \E n \in 1 .. MaxInvitations, to \in Roles \cup {"none"} :
                   ReadAccept(r, u, n, to)
    \/ \E r \in Requests :
         Remove(r) \/ Change(r) \/ Invite(r) \/ Accept(r) \/ CreateKey(r)

MembersSpec == MembersInit /\ [][MembersNext]_memberVars

-----------------------------------------------------------------------------
\* An organization that was founded always has an owner, whatever owners do to
\* each other at the same time and in whatever order the operator corrects; and
\* nobody becomes an owner of the default one, whose first members the key of
\* the deployment invites.
OwnerRemains ==
    /\ org = "founded" => Owners # {}
    /\ org = "default" => Owners = {}

\* The requests that have counted the keys and not inserted theirs yet.
Counting == {r \in Requests : request[r].does = "key"}

\* The count of active keys is read before the key is inserted: each request
\* that has counted may add one, and no more, of members and of keys.
KeyExcessBounded ==
    ActiveKeys + Cardinality(Counting) <= MaxActiveKeys + Cardinality(Requests) - 1
=============================================================================
