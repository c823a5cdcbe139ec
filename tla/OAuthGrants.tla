----------------------------- MODULE OAuthGrants -----------------------------
(***************************************************************************)
(* The OAuth authorization server of control/oauth.py and the consent of   *)
(* api/v1/oauth.py, for one client and one user: a request is approved in  *)
(* the cockpit, its code is exchanged for a grant with a first pair of     *)
(* tokens, a refresh token is rotated into the next pair, and the whole    *)
(* grant is revoked on reuse, on request, or when the user has left.       *)
(* The SDK calls load_... and exchange_... one after the other, so that a  *)
(* handler holds what it loaded across other transactions.  A transaction  *)
(* that starts with _guard_grant holds the grant's row until it commits.   *)
(* Scopes are left out: they never decide whether a token is usable.       *)
(***************************************************************************)
EXTENDS Naturals, FiniteSets

CONSTANTS
    Codes,      \* authorization requests, each with its code
    Grants,     \* ids of rows of oauth_grants
    MaxPairs,   \* bound: pairs of a refresh and an access token
    Handlers,   \* requests that are served at the same time
    NoCode

Pairs == 1 .. MaxPairs
NoPair == 0

ASSUME OAuthAssumption ==
    /\ NoCode \notin Codes /\ NoPair \notin Grants
    /\ MaxPairs \in Nat

VARIABLES
    client,   \* the row of oauth_clients exists
    code,     \* OAuthCode.status
    late,     \* its expires_at is past
    grant,    \* the row of oauth_grants: live or with revoked_at
    bought,   \* the code that a grant was issued for
    refresh,  \* the refresh token of a pair: rotated_at, revoked_at
    access,   \* its access token
    age,      \* 0: both are valid, 1: the access token, 2: both have expired
    of,       \* OAuthToken.grant_id
    member,   \* the user's Membership row exists
    handler   \* what a handler has loaded, and where it stands

tokenVars == <<refresh, access, age, of>>
oauthVars == <<client, code, late, grant, bought, tokenVars, member, handler>>

Idle == [at |-> "idle", code |-> NoCode, pair |-> NoPair]
HoldsCode(c) == [at |-> "code", code |-> c, pair |-> NoPair]
HoldsReplay(c) == [at |-> "replay", code |-> c, pair |-> NoPair]
HoldsRefresh(p) == [at |-> "refresh", code |-> NoCode, pair |-> p]
Rotating(p) == [at |-> "rotating", code |-> NoCode, pair |-> p]

OAuthTypeOK ==
    /\ client \in BOOLEAN
    /\ code \in [Codes -> {"none", "pending", "denied", "approved",
                           "exchanged", "gone"}]
    /\ late \in [Codes -> BOOLEAN]
    /\ grant \in [Grants -> {"none", "live", "revoked", "gone"}]
    /\ bought \in [Grants -> Codes \cup {NoCode}]
    /\ refresh \in [Pairs -> {"none", "live", "rotated", "revoked", "gone"}]
    /\ access \in [Pairs -> {"none", "live", "revoked", "gone"}]
    /\ age \in [Pairs -> 0 .. 2]
    /\ of \in [Pairs -> Grants \cup {NoPair}]
    /\ member \in BOOLEAN
    /\ handler \in [Handlers ->
         [at : {"idle", "deciding", "code", "replay", "refresh", "rotating"},
          code : Codes \cup {NoCode}, pair : Pairs \cup {NoPair}]]

OAuthInit ==
    /\ client = FALSE
    /\ code = [c \in Codes |-> "none"]
    /\ late = [c \in Codes |-> FALSE]
    /\ grant = [g \in Grants |-> "none"]
    /\ bought = [g \in Grants |-> NoCode]
    /\ refresh = [p \in Pairs |-> "none"]
    /\ access = [p \in Pairs |-> "none"]
    /\ age = [p \in Pairs |-> 0]
    /\ of = [p \in Pairs |-> NoPair]
    /\ member = TRUE
    /\ handler = [h \in Handlers |-> Idle]

Moves(h, to) == handler' = [handler EXCEPT ![h] = to]
PairsOf(g) == {p \in Pairs : of[p] = g}
Stored(p) == refresh[p] \notin {"none", "gone"}

-----------------------------------------------------------------------------
(* Registration, the request and the user's decision.                      *)

Register ==
    /\ ~client
    /\ client' = TRUE
    /\ UNCHANGED <<code, late, grant, bought, tokenVars, member, handler>>

Authorize(c) ==
    /\ client /\ code[c] = "none"
    /\ code' = [code EXCEPT ![c] = "pending"]
    /\ UNCHANGED <<client, late, grant, bought, tokenVars, member, handler>>

Open(c) == code[c] = "pending" /\ ~late[c]

Deny(c) ==
    /\ Open(c)
    /\ code' = [code EXCEPT ![c] = "denied"]
    /\ UNCHANGED <<client, late, grant, bought, tokenVars, member, handler>>

\* decide: the row and the membership are read ...
Consent(h, c) ==
    /\ handler[h] = Idle /\ Open(c) /\ member
    /\ Moves(h, [at |-> "deciding", code |-> c, pair |-> NoPair])
    /\ UNCHANGED <<client, code, late, grant, bought, tokenVars, member>>

\* ... and the UPDATE repeats the condition, with the time of the read.
Approve(h) ==
    LET c == handler[h].code IN
    /\ handler[h].at = "deciding"
    /\ \/ /\ code[c] = "pending"
          /\ code' = [code EXCEPT ![c] = "approved"]
          /\ late' = [late EXCEPT ![c] = FALSE]
       \/ /\ code[c] # "pending"
          /\ UNCHANGED <<code, late>>
    /\ Moves(h, Idle)
    /\ UNCHANGED <<client, grant, bought, tokenVars, member>>

-----------------------------------------------------------------------------
(* Revocation.                                                             *)

\* A slip of GuardFree: without _guard_grant.
GuardFreeUnlocked(g) == g \in Grants

\* No other transaction holds the row of grant g.
GuardFree(g) ==
    \A h \in Handlers : handler[h].at = "rotating" => of[handler[h].pair] # g

\* The grant and every token of it, in one transaction.
RevokeGrants(gs) ==
    /\ grant' = [g \in Grants |-> IF g \in gs /\ grant[g] = "live"
                                  THEN "revoked" ELSE grant[g]]
    /\ refresh' = [p \in Pairs |-> IF of[p] \in gs /\ refresh[p] = "live"
                                   THEN "revoked" ELSE refresh[p]]
    /\ access' = [p \in Pairs |-> IF of[p] \in gs /\ access[p] = "live"
                                  THEN "revoked" ELSE access[p]]
    /\ UNCHANGED <<age, of>>

\* revoke_token with a refresh token, revoke_grant of the cockpit.
EndGrant(p) ==
    /\ Stored(p) /\ GuardFree(of[p]) /\ grant[of[p]] = "live"
    /\ RevokeGrants({of[p]})
    /\ UNCHANGED <<client, code, late, bought, member, handler>>

ClientRevokes(p) == EndGrant(p)
Disconnect(p) == EndGrant(p)

\* principal_for: the token is good for a call to /mcp.
Serves(p) ==
    /\ access[p] = "live" /\ age[p] = 0
    /\ grant[of[p]] = "live" /\ member /\ client

RevokeAccess(p) ==
    /\ access[p] = "live" /\ age[p] = 0
    /\ grant[of[p]] = "live" /\ GuardFree(of[p])
    /\ access' = [access EXCEPT ![p] = "revoked"]
    /\ UNCHANGED <<client, code, late, grant, bought, refresh, age, of, member,
                   handler>>

-----------------------------------------------------------------------------
(* /token with a code.                                                     *)

\* _issue_pair: the next pair, of grant g.
NextPair == CHOOSE p \in Pairs : refresh[p] = "none"
                                 /\ \A q \in Pairs : q < p => refresh[q] # "none"
MorePairs == \E p \in Pairs : refresh[p] = "none"

LoadCode(h, c) ==
    /\ handler[h] = Idle
    /\ \/ code[c] = "approved" /\ ~late[c] /\ Moves(h, HoldsCode(c))
       \/ code[c] = "exchanged" /\ Moves(h, HoldsReplay(c))
    /\ UNCHANGED <<client, code, late, grant, bought, tokenVars, member>>

\* The condition of the UPDATE that consumes the code.
Consumable(c) == code[c] = "approved" /\ ~late[c]

ExchangeCode(h) ==
    LET c == handler[h].code
        p == NextPair
    IN  /\ handler[h].at = "code" /\ Consumable(c) /\ MorePairs
        /\ \E g \in Grants :
             /\ grant[g] = "none"
             /\ grant' = [grant EXCEPT ![g] = "live"]
             /\ bought' = [bought EXCEPT ![g] = c]
             /\ of' = [of EXCEPT ![p] = g]
        /\ code' = [code EXCEPT ![c] = "exchanged"]
        /\ refresh' = [refresh EXCEPT ![p] = "live"]
        /\ access' = [access EXCEPT ![p] = "live"]
        /\ Moves(h, Idle)
        /\ UNCHANGED <<client, late, age, member>>

\* rowcount is 0: another exchange was first, or the 60 seconds are over.
ExchangeCodeLost(h) ==
    LET c == handler[h].code IN
    /\ handler[h].at = "code" /\ ~Consumable(c)
    /\ Moves(h, IF code[c] = "exchanged" THEN HoldsReplay(c) ELSE Idle)
    /\ UNCHANGED <<client, code, late, grant, bought, tokenVars, member>>

\* _revoke_code_family: the grants whose first refresh token names the code.
Family(c) == {g \in Grants : bought[g] = c /\ \E p \in PairsOf(g) : Stored(p)}

RevokeFamily(h) ==
    LET gs == Family(handler[h].code) IN
    /\ handler[h].at = "replay"
    /\ \A g \in gs : GuardFree(g)
    /\ RevokeGrants(gs)
    /\ Moves(h, Idle)
    /\ UNCHANGED <<client, code, late, bought, member>>

-----------------------------------------------------------------------------
(* /token with a refresh token.                                            *)

\* A slip of UsableRefresh: rotated_at is not looked at.
UsableRefreshAgain(p) ==
    /\ grant[of[p]] = "live" /\ refresh[p] \in {"live", "rotated"}
    /\ age[p] < 2 /\ member

\* _usable_refresh, under the guard: usable, a reason to revoke, or neither.
UsableRefresh(p) ==
    /\ grant[of[p]] = "live" /\ refresh[p] = "live" /\ age[p] < 2 /\ member

Condemned(p) ==
    /\ grant[of[p]] = "live"
    /\ refresh[p] \in {"rotated", "revoked"} \/ (age[p] < 2 /\ ~member)

\* What load_refresh_token and the start of exchange_refresh_token share: the
\* token is looked up, then judged afresh under the guard.
Judge(h, p, next) ==
    /\ Stored(p) => GuardFree(of[p])
    /\ \/ Stored(p) /\ UsableRefresh(p) /\ Moves(h, next)
          /\ UNCHANGED <<grant, tokenVars>>
       \/ Stored(p) /\ Condemned(p) /\ RevokeGrants({of[p]}) /\ Moves(h, Idle)
       \/ ~(Stored(p) /\ (UsableRefresh(p) \/ Condemned(p))) /\ Moves(h, Idle)
          /\ UNCHANGED <<grant, tokenVars>>
    /\ UNCHANGED <<client, code, late, bought, member>>

LoadRefresh(h, p) ==
    /\ handler[h] = Idle /\ refresh[p] # "none"
    /\ Judge(h, p, HoldsRefresh(p))

BeginRefresh(h) ==
    /\ handler[h].at = "refresh"
    /\ Judge(h, handler[h].pair, Rotating(handler[h].pair))

\* A slip of Rotate: the children of the old token stay.
RotateKeepingAccess(h) ==
    LET p == handler[h].pair
        q == NextPair
    IN  /\ handler[h].at = "rotating" /\ MorePairs
        /\ refresh' = [refresh EXCEPT ![p] = "rotated", ![q] = "live"]
        /\ access' = [access EXCEPT ![q] = "live"]
        /\ of' = [of EXCEPT ![q] = of[p]]
        /\ Moves(h, Idle)
        /\ UNCHANGED <<client, code, late, grant, bought, age, member>>

\* Rotation, children, new pair and commit.  Under the guard the conditional
\* UPDATE of the old token always finds it.
Rotate(h) ==
    LET p == handler[h].pair
        q == NextPair
    IN  /\ handler[h].at = "rotating" /\ MorePairs
        /\ refresh' = [refresh EXCEPT ![p] = "rotated", ![q] = "live"]
        /\ access' = [access EXCEPT ![p] = IF @ = "live" THEN "revoked" ELSE @,
                                    ![q] = "live"]
        /\ of' = [of EXCEPT ![q] = of[p]]
        /\ Moves(h, Idle)
        /\ UNCHANGED <<client, code, late, grant, bought, age, member>>

\* The client is gone, the scopes exceed the grant, or the process dies: what
\* is not committed is rolled back.
Drop(h) ==
    /\ handler[h] # Idle
    /\ Moves(h, Idle)
    /\ UNCHANGED <<client, code, late, grant, bought, tokenVars, member>>

-----------------------------------------------------------------------------
(* Time, members.py, and purge_expired.                                    *)

CodeExpires(c) ==
    /\ code[c] \notin {"none", "gone"} /\ ~late[c]
    /\ late' = [late EXCEPT ![c] = TRUE]
    /\ UNCHANGED <<client, code, grant, bought, tokenVars, member, handler>>

\* A slip of PairExpires: what has expired can expire again.
PairExpiresAgain(p) ==
    /\ Stored(p)
    /\ \A q \in PairsOf(of[p]) : q < p => age[q] > age[p]
    /\ age' = [age EXCEPT ![p] = @ + 1]
    /\ UNCHANGED <<client, code, late, grant, bought, refresh, access, of,
                   member, handler>>

\* An earlier pair of a grant expires before a later one.
PairExpires(p) ==
    /\ Stored(p) /\ age[p] < 2
    /\ \A q \in PairsOf(of[p]) : q < p => age[q] > age[p]
    /\ age' = [age EXCEPT ![p] = @ + 1]
    /\ UNCHANGED <<client, code, late, grant, bought, refresh, access, of,
                   member, handler>>

MembershipChanges ==
    /\ member' = ~member
    /\ UNCHANGED <<client, code, late, grant, bought, tokenVars, handler>>

PurgeCode(c) ==
    /\ code[c] \notin {"none", "gone"} /\ late[c]
    /\ code' = [code EXCEPT ![c] = "gone"]
    /\ UNCHANGED <<client, late, grant, bought, tokenVars, member, handler>>

\* old_grants: revoked, or without a refresh token that has not expired; the
\* 30 days are over, so that no handler still holds the guard.
Old(g) == grant[g] = "revoked" \/ \A p \in PairsOf(g) : age[p] = 2

\* The refresh tokens that the DELETE takes with grant g.
Purged(g, p) == of[p] = g /\ Old(g)

PurgeTokens(g) ==
    LET doomed == {p \in Pairs : Purged(g, p)} IN
    /\ grant[g] \in {"live", "revoked"} /\ GuardFree(g) /\ doomed # {}
    /\ refresh' = [p \in Pairs |-> IF p \in doomed THEN "gone" ELSE refresh[p]]
    /\ access' = [p \in Pairs |-> IF p \in doomed THEN "gone" ELSE access[p]]
    /\ grant' = [grant EXCEPT ![g] = IF PairsOf(g) \subseteq doomed
                                     THEN "gone" ELSE @]
    /\ UNCHANGED <<client, code, late, bought, age, of, member, handler>>

PurgeClient ==
    /\ client
    /\ \A c \in Codes : code[c] \in {"none", "gone"}
    /\ \A g \in Grants : grant[g] \in {"none", "gone"}
    /\ client' = FALSE
    /\ UNCHANGED <<code, late, grant, bought, tokenVars, member, handler>>

-----------------------------------------------------------------------------
OAuthNext ==
    \/ Register \/ MembershipChanges \/ PurgeClient
    \/ \E c \in Codes :
         \/ Authorize(c) \/ Deny(c) \/ CodeExpires(c) \/ PurgeCode(c)
         \/ \E h \in Handlers : Consent(h, c) \/ LoadCode(h, c)
    \/ \E p \in Pairs :
         \/ ClientRevokes(p) \/ Disconnect(p) \/ RevokeAccess(p)
         \/ PairExpires(p)
         \/ \E h \in Handlers : LoadRefresh(h, p)
    \/ \E h \in Handlers :
         \/ Approve(h) \/ ExchangeCode(h) \/ ExchangeCodeLost(h)
         \/ RevokeFamily(h) \/ BeginRefresh(h) \/ Rotate(h) \/ Drop(h)
    \/ \E g \in Grants : PurgeTokens(g)

OAuthSpec == OAuthInit /\ [][OAuthNext]_oauthVars

-----------------------------------------------------------------------------
\* list_grants: shown to the organization as a connected application.
Connected(p) == refresh[p] = "live" /\ age[p] < 2 /\ grant[of[p]] = "live"

\* At most one pair that was bought with a code can still be used: refreshed,
\* listed, or served by /mcp.  Two exchanges of the code, two refreshes at
\* once, a retry and a rotation in flight never leave two holders of the same
\* consent.
OneLivePair ==
    \A p, q \in Pairs :
      /\ Connected(p) \/ Serves(p)
      /\ Connected(q) \/ Serves(q)
      /\ bought[of[p]] = bought[of[q]]
      => p = q

\* A grant that was disconnected, revoked by its client or condemned for reuse
\* has no token that is not revoked: an exchange that was under way then has
\* not issued another pair.
RevokedForGood ==
    \A p \in Pairs : of[p] # NoPair /\ grant[of[p]] = "revoked"
                     => "live" \notin {refresh[p], access[p]}

\* As long as a refresh token of a grant can be exchanged, every token it was
\* rotated from is still stored, so that reuse of any of them is noticed.
ReuseIsRemembered ==
    \A p, q \in Pairs : of[p] = of[q] /\ Connected(q) => Stored(p)

\* Reuse is noticed as long as it can do harm, and what it condemns is dead.
CondemnedForGood == RevokedForGood /\ ReuseIsRemembered

\* The grants implement their abstract specification: a chain of refresh
\* tokens, each exchanged at most once, that never starts again.  A token that
\* expires while it is judged may still be rotated, so expiry does not spend it.
UsableTokens == [g \in Grants |-> {p \in PairsOf(g) : refresh[p] = "live"}]
SpentTokens == [g \in Grants |-> PairsOf(g) \ UsableTokens[g]]
Promise == INSTANCE GrantPromise WITH
             Tokens <- Pairs, usable <- UsableTokens, spent <- SpentTokens
GrantPromiseKept == Promise!PromiseSpec
=============================================================================
