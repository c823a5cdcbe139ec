------------------------------- MODULE SignIn -------------------------------
(***************************************************************************)
(* Sign-in by e-mail for one address (api/v1/auth.py): a link is sent,     *)
(* opened by whoever holds it, consumed by a conditional UPDATE and turned *)
(* into a session in the same transaction, which creates the user at the   *)
(* first sign-in.  Two verifications may overlap, of one link or of two.   *)
(***************************************************************************)
EXTENDS Naturals, FiniteSets

CONSTANTS
    Links,    \* sign-in links sent to the address
    Visits    \* requests that verify a link at the same time

VARIABLES
    link,     \* the row of magic_links: sent has used_at NULL
    stale,    \* its expires_at is past
    account,  \* the row of users exists
    opened,   \* sessions that were opened with a link
    session,  \* the last of them
    visit     \* what a verification has read or written

signInVars == <<link, stale, account, opened, session, visit>>

NoVisit == [at |-> "nowhere"]

SignInTypeOK ==
    /\ link \in [Links -> {"none", "sent", "used", "gone"}]
    /\ stale \in [Links -> BOOLEAN]
    /\ account \in BOOLEAN
    /\ opened \in [Links -> Nat]
    /\ session \in [Links -> {"none", "open", "over"}]
    /\ \A v \in Visits :
         \/ visit[v] = NoVisit
         \/ visit[v] \in [at : {"read"}, link : Links]
         \/ visit[v] \in [at : {"consumed"}, link : Links, known : BOOLEAN]

SignInInit ==
    /\ link = [l \in Links |-> "none"]
    /\ stale = [l \in Links |-> FALSE]
    /\ account = FALSE
    /\ opened = [l \in Links |-> 0]
    /\ session = [l \in Links |-> "none"]
    /\ visit = [v \in Visits |-> NoVisit]

\* request_magic_link: links that expired a day ago are deleted as well.
RequestLink(l) ==
    /\ link[l] = "none"
    /\ \E old \in SUBSET {k \in Links : link[k] # "none" /\ stale[k]} :
         link' = [k \in Links |-> IF k = l THEN "sent"
                                  ELSE IF k \in old THEN "gone" ELSE link[k]]
    /\ UNCHANGED <<stale, account, opened, session, visit>>

LinkExpires(l) ==
    /\ link[l] = "sent" /\ ~stale[l]
    /\ stale' = [stale EXCEPT ![l] = TRUE]
    /\ UNCHANGED <<link, account, opened, session, visit>>

Pending(l) == link[l] = "sent" /\ ~stale[l]

\* verify_magic_link up to the check of the browser: a link that another
\* browser asked for stays as it is until the user confirms.
ReadLink(v, l, sameBrowser, confirm) ==
    /\ visit[v] = NoVisit /\ Pending(l)
    /\ sameBrowser \/ confirm
    /\ visit' = [visit EXCEPT ![v] = [at |-> "read", link |-> l]]
    /\ UNCHANGED <<link, stale, account, opened, session>>

\* The row of a link belongs to the transaction that has updated it.
Free(l) == \A v \in Visits : visit[v].at = "consumed" => visit[v].link # l

\* A slip of Unused: used_at is not looked at.
UnusedOrUsed(l) == link[l] # "gone"

\* The condition of the UPDATE; `now` is that of the read.
Unused(l) == link[l] = "sent"

\* The UPDATE, and get_or_create_user's SELECT.
Consume(v) ==
    LET l == visit[v].link IN
    /\ visit[v].at = "read" /\ Free(l)
    /\ visit' = [visit EXCEPT ![v] =
                   IF Unused(l) THEN [at |-> "consumed", link |-> l, known |-> account]
                   ELSE NoVisit]
    /\ UNCHANGED <<link, stale, account, opened, session>>

\* User, invitations, session and commit.
OpenSession(v) ==
    LET l == visit[v].link IN
    /\ visit[v].at = "consumed"
    /\ visit[v].known \/ ~account
    /\ link' = [link EXCEPT ![l] = "used"]
    /\ account' = TRUE
    /\ opened' = [opened EXCEPT ![l] = @ + 1]
    /\ session' = [session EXCEPT ![l] = "open"]
    /\ visit' = [visit EXCEPT ![v] = NoVisit]
    /\ UNCHANGED stale

\* Another request inserted the user or the membership first, or the process
\* died: the transaction is rolled back, and the link with it.
RollBack(v) ==
    /\ visit[v] # NoVisit
    /\ visit' = [visit EXCEPT ![v] = NoVisit]
    /\ UNCHANGED <<link, stale, account, opened, session>>

\* logout, remove_member, or the end of its time.
EndSession(l) ==
    /\ session[l] = "open"
    /\ session' = [session EXCEPT ![l] = "over"]
    /\ UNCHANGED <<link, stale, account, opened, visit>>

SignInNext ==
    \/ \E l \in Links : RequestLink(l) \/ LinkExpires(l) \/ EndSession(l)
    \/ \E v \in Visits :
         \/ Consume(v) \/ OpenSession(v) \/ RollBack(v)
         \/ \E l \in Links, same, confirm \in BOOLEAN : ReadLink(v, l, same, confirm)

SignInSpec == SignInInit /\ [][SignInNext]_signInVars

-----------------------------------------------------------------------------
\* A link signs in at most once, although two requests may verify it at the
\* same time and a verification that fails gives the link back.
LinkOpensOneSession ==
    \A l \in Links : /\ opened[l] <= 1
                     /\ opened[l] = 1 => link[l] \in {"used", "gone"}
=============================================================================
