---------------------------- MODULE AccessProofs ----------------------------
(***************************************************************************)
(* Who is let in, and who stays in charge: proofs about sign-in links,     *)
(* about the owners of an organization, about what a restore may give      *)
(* back, and about the grants of connected applications.                   *)
(***************************************************************************)
EXTENDS SignIn, Members, RestoreReconcile, OAuthGrants, FiniteSetTheorems, TLAPS

-----------------------------------------------------------------------------
(* Sign-in.                                                                *)

VisitStates == {NoVisit} \cup [at : {"read"}, link : Links]
                         \cup [at : {"consumed"}, link : Links, known : BOOLEAN]

LinkTypes ==
    /\ link \in [Links -> {"none", "sent", "used", "gone"}]
    /\ opened \in [Links -> {0, 1}]
    /\ account \in BOOLEAN
    /\ visit \in [Visits -> VisitStates]

Consumers(l) == {v \in Visits : visit[v].at = "consumed" /\ visit[v].link = l}

\* A verification that has consumed a link is alone with it, and nobody has
\* signed in with it before.
ConsumedAlone ==
    \A v \in Visits : visit[v].at = "consumed" =>
        /\ opened[visit[v].link] = 0
        /\ link[visit[v].link] \in {"sent", "gone"}
        /\ \A w \in Consumers(visit[v].link) : w = v

LinkInv == LinkTypes /\ ConsumedAlone /\ LinkOpensOneSession

\* What a verification knows of its link.
LEMMA VisitOf ==
    ASSUME LinkTypes, NEW v \in Visits, visit[v].at \in {"read", "consumed"}
    PROVE  visit[v].link \in Links
BY DEF LinkTypes, VisitStates, NoVisit

LEMMA LinkStep == LinkInv /\ [SignInNext]_signInVars => LinkInv'
<1> SUFFICES ASSUME LinkInv, [SignInNext]_signInVars
             PROVE  LinkInv'
  OBVIOUS
<1> USE DEF LinkInv
<1>1. ASSUME NEW l \in Links, RequestLink(l)
      PROVE  LinkInv'
  BY <1>1 DEF RequestLink, LinkTypes, ConsumedAlone, Consumers, LinkOpensOneSession, VisitStates, NoVisit
<1>2. ASSUME NEW l \in Links, LinkExpires(l) \/ EndSession(l)
      PROVE  LinkInv'
  BY <1>2 DEF LinkExpires, EndSession, LinkTypes, ConsumedAlone, Consumers, LinkOpensOneSession
<1>3. ASSUME NEW v \in Visits, NEW l \in Links, NEW same \in BOOLEAN, NEW confirm \in BOOLEAN,
             ReadLink(v, l, same, confirm)
      PROVE  LinkInv'
  <2>1. LinkTypes'
    BY <1>3 DEF ReadLink, LinkTypes, VisitStates
  <2>2. \A w \in Visits : visit'[w].at = "consumed" => visit'[w] = visit[w]
    BY <1>3 DEF ReadLink, LinkTypes
  <2>3. ConsumedAlone' /\ LinkOpensOneSession'
    BY <1>3, <2>2 DEF ReadLink, ConsumedAlone, Consumers, LinkOpensOneSession
  <2>4. QED
    BY <2>1, <2>3
<1>4. ASSUME NEW v \in Visits, Consume(v)
      PROVE  LinkInv'
  <2> DEFINE l == visit[v].link
  <2>0. l \in Links
    BY <1>4, VisitOf DEF Consume
  <2>1. LinkTypes'
    BY <1>4, <2>0 DEF Consume, LinkTypes, VisitStates
  <2>2. \A w \in Visits \ {v} : visit'[w] = visit[w]
    BY <1>4 DEF Consume, LinkTypes
  <2>3. CASE Unused(l)
    <3>1. visit'[v].at = "consumed" /\ visit'[v].link = l
      BY <1>4, <2>3 DEF Consume, LinkTypes
    <3>2. link[l] = "sent" /\ opened[l] = 0
      BY <2>0, <2>3 DEF Unused, LinkTypes, LinkOpensOneSession
    <3>3. \A w \in Visits : visit[w].at = "consumed" => visit[w].link # l
      BY <1>4 DEF Consume, Free
    <3>4. ConsumedAlone'
      BY <1>4, <2>2, <3>1, <3>2, <3>3 DEF Consume, ConsumedAlone, Consumers
    <3>5. QED
      BY <1>4, <2>1, <3>4 DEF Consume, LinkOpensOneSession
  <2>4. CASE ~Unused(l)
    <3>1. visit'[v].at # "consumed"
      BY <1>4, <2>4 DEF Consume, LinkTypes, NoVisit
    <3>2. QED
      BY <1>4, <2>1, <2>2, <3>1 DEF Consume, ConsumedAlone, Consumers, LinkOpensOneSession
  <2>5. QED
    BY <2>3, <2>4
<1>5. ASSUME NEW v \in Visits, OpenSession(v)
      PROVE  LinkInv'
  <2> DEFINE l == visit[v].link
  <2>0. l \in Links
    BY <1>5, VisitOf DEF OpenSession
  <2>1. opened[l] = 0 /\ \A w \in Visits \ {v} : visit[w].at = "consumed" => visit[w].link # l
    BY <1>5 DEF OpenSession, ConsumedAlone, Consumers
  <2>2. LinkTypes'
    BY <1>5, <2>0, <2>1 DEF OpenSession, LinkTypes, VisitStates
  <2>3. /\ \A w \in Visits \ {v} : visit'[w] = visit[w]
        /\ visit'[v].at # "consumed"
    BY <1>5 DEF OpenSession, LinkTypes, NoVisit
  <2>4. \A k \in Links \ {l} : link'[k] = link[k] /\ opened'[k] = opened[k]
    BY <1>5 DEF OpenSession, LinkTypes
  <2>5. link'[l] = "used" /\ opened'[l] = 1
    BY <1>5, <2>0, <2>1 DEF OpenSession, LinkTypes
  <2>6. LinkOpensOneSession'
    BY <2>0, <2>4, <2>5 DEF LinkOpensOneSession
  <2>7. \A w \in Visits : visit'[w].at = "consumed" => visit[w].link \in Links \ {l} /\ w # v
    BY <2>1, <2>3, VisitOf
  <2>8. ConsumedAlone'
    BY <2>3, <2>4, <2>7 DEF ConsumedAlone, Consumers
  <2>9. QED
    BY <2>2, <2>6, <2>8
<1>6. ASSUME NEW v \in Visits, RollBack(v)
      PROVE  LinkInv'
  <2>1. LinkTypes'
    BY <1>6 DEF RollBack, LinkTypes, VisitStates
  <2>2. \A w \in Visits : visit'[w].at = "consumed" => visit'[w] = visit[w]
    BY <1>6 DEF RollBack, LinkTypes, NoVisit
  <2>3. QED
    BY <1>6, <2>1, <2>2 DEF RollBack, ConsumedAlone, Consumers, LinkOpensOneSession
<1>7. CASE UNCHANGED signInVars
  BY <1>7 DEF signInVars, LinkTypes, ConsumedAlone, Consumers, LinkOpensOneSession
<1>8. QED
  BY <1>1, <1>2, <1>3, <1>4, <1>5, <1>6, <1>7 DEF SignInNext

LEMMA LinkStart == SignInInit => LinkInv
<1> SUFFICES ASSUME SignInInit
             PROVE  LinkInv
  OBVIOUS
<1>1. LinkTypes
  BY DEF SignInInit, LinkTypes, VisitStates
<1>2. \A v \in Visits : visit[v].at = "nowhere"
  BY DEF SignInInit, NoVisit
<1>3. ConsumedAlone /\ LinkOpensOneSession
  BY <1>2 DEF SignInInit, ConsumedAlone, LinkOpensOneSession
<1>4. QED
  BY <1>1, <1>3 DEF LinkInv

\* A link opens at most one session, for any number of links, of requests that
\* verify them at the same time, and of failures (auth.py:165-172).
THEOREM LinkOpensOneSessionHolds == SignInSpec => []LinkOpensOneSession
<1>1. LinkInv => LinkOpensOneSession
  BY DEF LinkInv
<1>2. QED
  BY <1>1, LinkStart, LinkStep, PTL DEF SignInSpec

\* The columns that the argument above does not look at.
LinkColumns ==
    /\ stale \in [Links -> BOOLEAN]
    /\ session \in [Links -> {"none", "open", "over"}]

\* Sign-in is typed (models.py: magic_links, sessions).
THEOREM SignInTypesHold == SignInSpec => []SignInTypeOK
<1>1. SignInInit => LinkColumns
  BY DEF SignInInit, LinkColumns
<1>2. LinkColumns /\ [SignInNext]_signInVars => LinkColumns'
  <2> SUFFICES ASSUME LinkColumns, [SignInNext]_signInVars
               PROVE  LinkColumns'
    OBVIOUS
  <2>1. ASSUME NEW l \in Links, RequestLink(l) \/ LinkExpires(l) \/ EndSession(l)
        PROVE  LinkColumns'
    BY <2>1 DEF RequestLink, LinkExpires, EndSession, LinkColumns
  <2>2. ASSUME NEW v \in Visits, Consume(v) \/ OpenSession(v) \/ RollBack(v)
        PROVE  LinkColumns'
    BY <2>2 DEF Consume, OpenSession, RollBack, LinkColumns
  <2>3. ASSUME NEW v \in Visits, NEW l \in Links, NEW same \in BOOLEAN, NEW confirm \in BOOLEAN,
               ReadLink(v, l, same, confirm)
        PROVE  LinkColumns'
    BY <2>3 DEF ReadLink, LinkColumns
  <2>4. CASE UNCHANGED signInVars
    BY <2>4 DEF signInVars, LinkColumns
  <2>5. QED
    BY <2>1, <2>2, <2>3, <2>4 DEF SignInNext
<1>3. LinkInv /\ LinkColumns => SignInTypeOK
  BY DEF LinkInv, LinkTypes, LinkColumns, SignInTypeOK, VisitStates
<1>4. QED
  BY <1>1, <1>2, <1>3, LinkStart, LinkStep, PTL DEF SignInSpec

-----------------------------------------------------------------------------
(* Owners.                                                                 *)

RequestStates ==
    {NoRequest}
    \cup [does : {"remove"}, user : Users]
    \cup [does : {"key"}, user : Makers]
    \cup [does : {"insert", "refresh"}, user : Users, owner : BOOLEAN]
    \cup [does : {"change"}, user : Users, to : Roles]
    \cup [does : {"accept"}, user : Users, seen : Nat, to : Roles \cup {"none"}]

MemberTypes ==
    /\ org \in {"founded", "default", "deleted"}
    /\ role \in [Users -> Roles \cup {"none"}]
    /\ request \in [Requests -> RequestStates]

\* Nobody is offered ownership of the default organization, nor about to be.
OwnerlessAskNobody ==
    org = "default" =>
        /\ offered = {}
        /\ \A r \in Requests : /\ request[r].does # "change"
                               /\ request[r].does \in {"insert", "refresh"} => ~request[r].owner
                               /\ request[r].does = "accept" => request[r].to # "owner"

OwnerInv == MemberTypes /\ OwnerRemains /\ OwnerlessAskNobody

\* The guard of the statements leaves somebody else in charge.
LEMMA GuardLeavesAnOwner ==
    ASSUME OwnerInv, org = "founded", NEW u \in Users, Guarded(u)
    PROVE  \E w \in Owners : w # u
<1>1. CASE role[u] = "owner"
  <2> SUFFICES ASSUME Owners \subseteq {u}
               PROVE  FALSE
    OBVIOUS
  <2>1. IsFiniteSet({u}) /\ Cardinality({u}) = 1
    BY FS_Singleton
  <2>2. Cardinality(Owners) <= 1 /\ IsFiniteSet(Owners)
    BY <2>1, FS_Subset
  <2>3. Cardinality(Owners) \in Nat
    BY <2>2, FS_CardinalityType
  <2>4. QED
    BY <1>1, <2>2, <2>3 DEF Guarded
<1>2. CASE role[u] # "owner"
  BY <1>2 DEF OwnerInv, OwnerRemains, Owners
<1>3. QED
  BY <1>1, <1>2

\* A step that leaves the roles of all but one, guarded and not made an owner.
LEMMA GuardedStep ==
    ASSUME OwnerInv, NEW u \in Users, Guarded(u), NEW to \in Roles \cup {"none"},
           role' = [role EXCEPT ![u] = to], org' = org, org = "default" => to # "owner"
    PROVE  OwnerRemains'
<1>1. role \in [Users -> Roles \cup {"none"}]
  BY DEF OwnerInv, MemberTypes
<1>2. \A w \in Users : role'[w] = IF w = u THEN to ELSE role[w]
  BY <1>1
<1>3. CASE org = "founded"
  <2>1. PICK w \in Owners : w # u
    BY <1>3, GuardLeavesAnOwner
  <2>2. w \in Owners'
    BY <1>2, <2>1 DEF Owners
  <2>3. QED
    BY <1>3, <2>2 DEF OwnerRemains
<1>4. CASE org = "default"
  <2>1. Owners' = {}
    BY <1>2, <1>4 DEF OwnerInv, OwnerRemains, Owners
  <2>2. QED
    BY <1>4, <2>1 DEF OwnerRemains
<1>5. CASE org \notin {"founded", "default"}
  BY <1>5 DEF OwnerRemains
<1>6. QED
  BY <1>3, <1>4, <1>5

\* What a request reads: nobody asks for the ownership of the default one.
LEMMA ReadStep ==
    ASSUME OwnerInv, NEW r \in Requests, NEW what \in RequestStates, Reads(r, what),
           org = "default" => /\ what.does # "change"
                              /\ what.does \in {"insert", "refresh"} => ~what.owner
                              /\ what.does = "accept" => what.to # "owner"
    PROVE  OwnerInv'
<1>1. /\ request' = [request EXCEPT ![r] = what]
      /\ org' = org /\ role' = role /\ offered' = offered
  BY DEF Reads, orgRows
<1>2. MemberTypes'
  BY <1>1 DEF OwnerInv, MemberTypes
<1>3. OwnerRemains'
  BY <1>1 DEF OwnerInv, OwnerRemains, Owners
<1>4. OwnerlessAskNobody'
  BY <1>1 DEF OwnerInv, OwnerlessAskNobody, MemberTypes
<1>5. QED
  BY <1>2, <1>3, <1>4 DEF OwnerInv

\* An answered request asks for nothing.
LEMMA AnswerStep ==
    ASSUME OwnerInv, NEW r \in Requests, Answers(r), org' = org,
           org = "default" => offered' \subseteq offered
    PROVE  request' \in [Requests -> RequestStates] /\ OwnerlessAskNobody'
<1>1. request' = [request EXCEPT ![r] = NoRequest] /\ request \in [Requests -> RequestStates]
  BY DEF Answers, OwnerInv, MemberTypes
<1>2. request' \in [Requests -> RequestStates]
  BY <1>1 DEF RequestStates
<1>3. \A s \in Requests : request'[s] = IF s = r THEN NoRequest ELSE request[s]
  BY <1>1
<1>4. NoRequest.does = "nothing"
  BY DEF NoRequest
<1>5. QED
  BY <1>2, <1>3, <1>4 DEF OwnerInv, OwnerlessAskNobody

LEMMA OwnerStep == OwnerInv /\ [MembersNext]_memberVars => OwnerInv'
<1> SUFFICES ASSUME OwnerInv, [MembersNext]_memberVars
             PROVE  OwnerInv'
  OBVIOUS
<1>0. MemberTypes /\ OwnerRemains /\ OwnerlessAskNobody
  BY DEF OwnerInv
<1>1. CASE DeleteOrg
  BY <1>0, <1>1 DEF DeleteOrg, MemberTypes, OwnerRemains, OwnerlessAskNobody, OwnerInv
<1>2. ASSUME NEW u, RevokeInvitation(u) \/ RevokeKey(u)
      PROVE  OwnerInv'
  <2>1. org' = org /\ role' = role /\ request' = request /\ offered' \subseteq offered
    BY <1>2 DEF RevokeInvitation, RevokeKey, Offers
  <2>2. QED
    BY <1>0, <2>1 DEF MemberTypes, OwnerRemains, Owners, OwnerlessAskNobody, OwnerInv
<1>3. ASSUME NEW u \in Users, NEW to \in {"none", "member", "admin"}, Correct(u, to)
      PROVE  OwnerInv'
  <2>1. /\ Guarded(u) /\ role' = [role EXCEPT ![u] = to] /\ to \in Roles \cup {"none"} /\ to # "owner"
        /\ org' = org /\ offered' = offered /\ request' = request
    BY <1>3 DEF Correct, Roles
  <2>2. OwnerRemains'
    BY <2>1, GuardedStep
  <2>3. QED
    BY <1>0, <2>1, <2>2 DEF MemberTypes, OwnerlessAskNobody, OwnerInv
<1>4. ASSUME NEW u \in Users, NEW r \in Requests, ReadRemove(r, u)
      PROVE  OwnerInv'
  <2> DEFINE what == [does |-> "remove", user |-> u]
  <2>1. what \in RequestStates /\ what.does = "remove" /\ Reads(r, what)
    BY <1>4 DEF ReadRemove, RequestStates
  <2> HIDE DEF what
  <2>2. QED
    BY <2>1, ReadStep
<1>5. ASSUME NEW m \in Makers, NEW r \in Requests, ReadKeys(r, m)
      PROVE  OwnerInv'
  <2> DEFINE what == [does |-> "key", user |-> m]
  <2>1. what \in RequestStates /\ what.does = "key" /\ Reads(r, what)
    BY <1>5 DEF ReadKeys, RequestStates
  <2> HIDE DEF what
  <2>2. QED
    BY <2>1, ReadStep
<1>6. ASSUME NEW u \in Users, NEW r \in Requests, NEW owner \in BOOLEAN, ReadInvite(r, u, owner)
      PROVE  OwnerInv'
  <2>1. org = "default" => ~owner
    BY <1>0, <1>6 DEF ReadInvite, Caller, Owners, OwnerRemains
  <2>2. PICK does \in {"insert", "refresh"} : Reads(r, [does |-> does, user |-> u, owner |-> owner])
    BY <1>6 DEF ReadInvite
  <2> DEFINE what == [does |-> does, user |-> u, owner |-> owner]
  <2>3. what \in RequestStates /\ what.does \in {"insert", "refresh"} /\ what.owner = owner /\ Reads(r, what)
    BY <2>2 DEF RequestStates
  <2> HIDE DEF what
  <2>4. QED
    BY <2>1, <2>3, ReadStep
<1>7. ASSUME NEW u \in Users, NEW r \in Requests, NEW to \in Roles, ReadChange(r, u, to)
      PROVE  OwnerInv'
  <2> DEFINE what == [does |-> "change", user |-> u, to |-> to]
  <2>1. what \in RequestStates /\ Reads(r, what)
    BY <1>7 DEF ReadChange, RequestStates
  <2>2. org # "default"
    BY <1>0, <1>7 DEF ReadChange, Caller, Owners, OwnerRemains
  <2> HIDE DEF what
  <2>3. QED
    BY <2>1, <2>2, ReadStep
<1>8. ASSUME NEW u \in Users, NEW r \in Requests, NEW n \in 1 .. MaxInvitations,
             NEW to \in Roles \cup {"none"}, ReadAccept(r, u, n, to)
      PROVE  OwnerInv'
  <2> DEFINE what == [does |-> "accept", user |-> u, seen |-> n, to |-> to]
  <2>1. n \in Nat
    BY MembersAssumption
  <2>2. what \in RequestStates /\ what.does = "accept" /\ what.to = to /\ Reads(r, what)
    BY <1>8, <2>1 DEF ReadAccept, RequestStates
  <2>3. org = "default" => to # "owner"
    BY <1>0, <1>8 DEF ReadAccept, OwnerlessAskNobody
  <2> HIDE DEF what
  <2>4. QED
    BY <2>2, <2>3, ReadStep
<1>9. ASSUME NEW r \in Requests, Remove(r)
      PROVE  OwnerInv'
  <2> DEFINE u == request[r].user
  <2>1. u \in Users
    BY <1>0, <1>9 DEF Remove, MemberTypes, RequestStates, NoRequest
  <2>2. Answers(r) /\ org' = org /\ offered' = offered
    BY <1>9 DEF Remove
  <2>3. request' \in [Requests -> RequestStates] /\ OwnerlessAskNobody'
    BY <2>2, AnswerStep
  <2>4. CASE Guarded(u) /\ role' = [role EXCEPT ![u] = "none"]
    <3>1. OwnerRemains'
      BY <2>1, <2>2, <2>4, GuardedStep
    <3>2. MemberTypes'
      BY <1>0, <2>1, <2>2, <2>3, <2>4 DEF MemberTypes
    <3>3. QED
      BY <2>3, <3>1, <3>2 DEF OwnerInv
  <2>5. CASE UNCHANGED role
    BY <1>0, <2>2, <2>3, <2>5 DEF OwnerInv, MemberTypes, OwnerRemains, Owners
  <2>6. QED
    BY <1>9, <2>4, <2>5 DEF Remove
<1>10. ASSUME NEW r \in Requests, Change(r)
      PROVE  OwnerInv'
  <2> DEFINE u == request[r].user
             to == request[r].to
  <2>1. u \in Users /\ to \in Roles
    BY <1>0, <1>10 DEF Change, MemberTypes, RequestStates, NoRequest
  <2>2. Answers(r) /\ org' = org /\ offered' = offered /\ org # "default"
    BY <1>0, <1>10 DEF Change, OwnerlessAskNobody
  <2>3. request' \in [Requests -> RequestStates] /\ OwnerlessAskNobody'
    BY <2>2, AnswerStep
  <2>4. CASE Guarded(u) /\ role' = [role EXCEPT ![u] = to]
    <3>1. OwnerRemains'
      BY <2>1, <2>2, <2>4, GuardedStep
    <3>2. MemberTypes'
      BY <1>0, <2>1, <2>2, <2>3, <2>4 DEF MemberTypes
    <3>3. QED
      BY <2>3, <3>1, <3>2 DEF OwnerInv
  <2>5. CASE UNCHANGED role
    BY <1>0, <2>2, <2>3, <2>5 DEF OwnerInv, MemberTypes, OwnerRemains, Owners
  <2>6. QED
    BY <1>10, <2>4, <2>5 DEF Change
<1>11. ASSUME NEW r \in Requests, Invite(r) \/ CreateKey(r)
      PROVE  OwnerInv'
  <2>1. Answers(r) /\ org' = org /\ role' = role
    BY <1>11 DEF Invite, CreateKey
  <2>2. org = "default" => offered' \subseteq offered
    <3>1. CASE Invite(r)
      BY <1>0, <3>1 DEF Invite, Offers, OwnerlessAskNobody
    <3>2. CASE CreateKey(r)
      BY <3>2 DEF CreateKey
    <3>3. QED
      BY <1>11, <3>1, <3>2
  <2>3. request' \in [Requests -> RequestStates] /\ OwnerlessAskNobody'
    BY <2>1, <2>2, AnswerStep
  <2>4. QED
    BY <1>0, <2>1, <2>3 DEF OwnerInv, MemberTypes, OwnerRemains, Owners
<1>12. ASSUME NEW r \in Requests, Accept(r)
      PROVE  OwnerInv'
  <2> DEFINE u == request[r].user
             to == request[r].to
  <2>1. u \in Users /\ to \in Roles \cup {"none"}
    BY <1>0, <1>12 DEF Accept, MemberTypes, RequestStates, NoRequest
  <2>2. Answers(r) /\ org' = org /\ offered' \subseteq offered
    BY <1>12 DEF Accept, Offers
  <2>3. request' \in [Requests -> RequestStates] /\ OwnerlessAskNobody'
    BY <2>2, AnswerStep
  <2>4. CASE /\ to = "none" \/ role[u] = "none"
             /\ role' = [role EXCEPT ![u] = IF to = "none" THEN role[u] ELSE to]
    <3>1. MemberTypes'
      BY <1>0, <2>1, <2>2, <2>3, <2>4 DEF MemberTypes
    <3>2. org = "default" => to # "owner"
      BY <1>0, <1>12 DEF Accept, OwnerlessAskNobody
    <3>3. \A w \in Users : role'[w] = IF w = u /\ to # "none" THEN to ELSE role[w]
      BY <1>0, <2>1, <2>4 DEF MemberTypes
    <3>4. Owners \subseteq Owners'
      BY <2>1, <2>4, <3>3 DEF Owners
    <3>5. org = "default" => Owners' = {}
      BY <1>0, <3>2, <3>3 DEF Owners, OwnerRemains
    <3>6. QED
      BY <1>0, <2>2, <2>3, <3>1, <3>4, <3>5 DEF OwnerInv, OwnerRemains
  <2>5. CASE UNCHANGED role
    BY <1>0, <2>2, <2>3, <2>5 DEF OwnerInv, MemberTypes, OwnerRemains, Owners
  <2>6. QED
    BY <1>12, <2>4, <2>5 DEF Accept
<1>13. CASE UNCHANGED memberVars
  BY <1>0, <1>13 DEF memberVars, orgRows, MemberTypes, OwnerRemains, Owners, OwnerlessAskNobody, OwnerInv
<1>14. QED
  BY <1>1, <1>2, <1>3, <1>4, <1>5, <1>6, <1>7, <1>8, <1>9, <1>10, <1>11, <1>12, <1>13 DEF MembersNext

LEMMA OwnerStart == MembersInit => OwnerInv
<1> SUFFICES ASSUME MembersInit
             PROVE  OwnerInv
  OBVIOUS
<1>1. /\ role = [u \in Users |-> IF org = "founded" /\ u = Founder THEN "owner" ELSE "none"]
      /\ org \in {"founded", "default"} /\ offered = {} /\ Founder \in Users
      /\ request = [r \in Requests |-> NoRequest] /\ NoRequest.does = "nothing"
  BY MembersAssumption DEF MembersInit, NoRequest
<1>2. MemberTypes
  BY <1>1 DEF MemberTypes, RequestStates, Roles
<1>3. OwnerRemains
  BY <1>1 DEF OwnerRemains, Owners
<1>4. OwnerlessAskNobody
  BY <1>1 DEF OwnerlessAskNobody
<1>5. QED
  BY <1>2, <1>3, <1>4 DEF OwnerInv

\* An organization that was founded keeps an owner and nobody comes to own the
\* default one, for any number of users and of requests that are served at the
\* same time (service.py:199-236, members.py:45-50).
THEOREM OwnerRemainsHolds == MembersSpec => []OwnerRemains
<1>1. OwnerInv => OwnerRemains
  BY DEF OwnerInv
<1>2. QED
  BY <1>1, OwnerStart, OwnerStep, PTL DEF MembersSpec

-----------------------------------------------------------------------------
(* API keys.  The rows of the active keys are counted, with the requests    *)
(* that have counted them.                                                  *)

KeyInv ==
    /\ MemberTypes /\ keys \in [Makers -> Nat] /\ IsFiniteSet(KeyRows)
    /\ KeyExcessBounded

LEMMA CountingFinite ==
    /\ IsFiniteSet(Counting) /\ Cardinality(Counting) \in Nat
    /\ Cardinality(Requests) \in Nat /\ MaxActiveKeys \in Nat \ {0}
BY MembersAssumption, FS_Subset, FS_CardinalityType DEF Counting

\* Where nobody counts anew and no row is added, the bound stays.
LEMMA FewerKeys ==
    ASSUME KeyInv, MemberTypes', keys' \in [Makers -> Nat],
           \A m \in Makers : keys'[m] <= keys[m], Counting' \subseteq Counting
    PROVE  KeyInv'
<1>1. KeyRows' \subseteq KeyRows
  BY DEF KeyInv, KeyRows
<1>2. /\ IsFiniteSet(KeyRows') /\ ActiveKeys' <= ActiveKeys
      /\ ActiveKeys \in Nat /\ ActiveKeys' \in Nat
  BY <1>1, FS_Subset, FS_CardinalityType DEF KeyInv, ActiveKeys
<1>3. Cardinality(Counting') <= Cardinality(Counting) /\ Cardinality(Counting') \in Nat
  BY CountingFinite, FS_Subset, FS_CardinalityType
<1>4. QED
  BY <1>2, <1>3, CountingFinite DEF KeyInv, KeyExcessBounded

\* A request that has seen fewer keys than the limit.
LEMMA CountKeys ==
    ASSUME KeyInv, MemberTypes', NEW r \in Requests, NEW m \in Makers, ReadKeys(r, m)
    PROVE  KeyInv'
<1>1. UNCHANGED orgRows /\ ActiveKeys < MaxActiveKeys
  BY DEF ReadKeys, Reads
<1>2. KeyRows' = KeyRows /\ keys' = keys
  BY <1>1 DEF orgRows, KeyRows
<1>3. Counting' \subseteq Requests /\ ActiveKeys \in Nat
  BY FS_CardinalityType DEF Counting, ActiveKeys, KeyInv
<1>4. Cardinality(Counting') <= Cardinality(Requests) /\ Cardinality(Counting') \in Nat
  BY <1>3, MembersAssumption, FS_Subset, FS_CardinalityType
<1>5. QED
  BY <1>1, <1>2, <1>3, <1>4, CountingFinite DEF KeyInv, KeyExcessBounded, ActiveKeys

\* The key is inserted: one row more, and one request less that has counted.
LEMMA InsertKey ==
    ASSUME KeyInv, MemberTypes', NEW r \in Requests, CreateKey(r)
    PROVE  KeyInv'
<1> DEFINE u == request[r].user
           row == <<u, keys[u] + 1>>
<1>1. request[r].does = "key" /\ request' = [request EXCEPT ![r] = NoRequest] /\ u \in Makers
  BY DEF CreateKey, Answers, KeyInv, MemberTypes, RequestStates, NoRequest
<1>2. Counting' = Counting \ {r} /\ r \in Counting
  BY <1>1 DEF Counting, KeyInv, MemberTypes, NoRequest
<1>3. CASE ~Exists
  <2>1. keys' = keys
    BY <1>1, <1>3 DEF CreateKey, KeyInv
  <2>2. QED
    BY <1>2, <2>1, FewerKeys DEF KeyInv
<1>4. CASE Exists
  <2>1. keys' = [keys EXCEPT ![u] = keys[u] + 1]
    BY <1>4 DEF CreateKey, KeyInv
  <2>2. KeyRows' = KeyRows \cup {row} /\ row \notin KeyRows
    <3>1. \A v \in Makers : keys'[v] \in Nat /\ keys'[v] = IF v = u THEN keys[v] + 1 ELSE keys[v]
      BY <1>1, <2>1 DEF KeyInv
    <3>2. keys[u] \in Nat /\ 1 .. (keys[u] + 1) = (1 .. keys[u]) \cup {keys[u] + 1}
      BY <1>1 DEF KeyInv
    <3>3. \A v \in Makers \ {u} : {v} \X (1 .. keys'[v]) = {v} \X (1 .. keys[v])
      BY <3>1
    <3>4. {u} \X (1 .. keys'[u]) = ({u} \X (1 .. keys[u])) \cup {row}
      BY <1>1, <3>1, <3>2
    <3>5. row \notin KeyRows
      BY <3>2 DEF KeyRows
    <3> HIDE DEF u, row
    <3>6. QED
      BY <1>1, <3>3, <3>4, <3>5 DEF KeyRows
  <2>3. IsFiniteSet(KeyRows') /\ ActiveKeys' = ActiveKeys + 1 /\ ActiveKeys \in Nat
    BY <2>2, FS_AddElement, FS_CardinalityType DEF KeyInv, ActiveKeys
  <2>4. Cardinality(Counting') = Cardinality(Counting) - 1 /\ Cardinality(Counting') \in Nat
    BY <1>2, CountingFinite, FS_RemoveElement, FS_CardinalityType
  <2>5. keys' \in [Makers -> Nat]
    BY <1>1, <2>1 DEF KeyInv
  <2>6. QED
    BY <2>3, <2>4, <2>5, CountingFinite DEF KeyInv, KeyExcessBounded
<1>5. QED
  BY <1>3, <1>4

LEMMA KeyStep == OwnerInv /\ KeyInv /\ [MembersNext]_memberVars => KeyInv'
<1> SUFFICES ASSUME OwnerInv, KeyInv, [MembersNext]_memberVars
             PROVE  KeyInv'
  OBVIOUS
<1>1. MemberTypes'
  BY OwnerStep DEF OwnerInv
<1>2. keys \in [Makers -> Nat] /\ request \in [Requests -> RequestStates]
  BY DEF KeyInv, MemberTypes
<1>3. CASE UNCHANGED memberVars
  BY <1>1, <1>2, <1>3, FewerKeys DEF memberVars, orgRows, Counting
<1>4. CASE DeleteOrg
  <2>1. keys' = [m \in Makers |-> 0] /\ request' = request
    BY <1>4 DEF DeleteOrg
  <2>2. QED
    BY <1>1, <1>2, <2>1, FewerKeys DEF Counting
<1>5. ASSUME NEW u \in Makers,
             \/ RevokeInvitation(u) \/ RevokeKey(u)
             \/ \E to \in {"none", "member", "admin"} : Correct(u, to)
      PROVE  KeyInv'
  <2>1. request' = request /\ (keys' = keys \/ (keys[u] > 0 /\ keys' = [keys EXCEPT ![u] = keys[u] - 1]))
    BY <1>2, <1>5 DEF RevokeInvitation, RevokeKey, Correct
  <2>2. keys' \in [Makers -> Nat] /\ \A v \in Makers : keys'[v] <= keys[v]
    BY <1>2, <2>1
  <2>3. QED
    BY <1>1, <2>1, <2>2, FewerKeys DEF Counting
<1>6. ASSUME NEW u \in Users, NEW r \in Requests,
             \/ ReadRemove(r, u)
             \/ \E owner \in BOOLEAN : ReadInvite(r, u, owner)
             \/ \E to \in Roles : ReadChange(r, u, to)
             \/ \E n \in 1 .. MaxInvitations, to \in Roles \cup {"none"} : ReadAccept(r, u, n, to)
      PROVE  KeyInv'
  <2>1. PICK what : Reads(r, what) /\ what.does # "key"
    <3>1. CASE ReadRemove(r, u)
      BY <3>1 DEF ReadRemove
    <3>2. ASSUME NEW owner \in BOOLEAN, ReadInvite(r, u, owner)
          PROVE  \E what : Reads(r, what) /\ what.does # "key"
      BY <3>2 DEF ReadInvite
    <3>3. ASSUME NEW to \in Roles, ReadChange(r, u, to)
          PROVE  \E what : Reads(r, what) /\ what.does # "key"
      BY <3>3 DEF ReadChange
    <3>4. ASSUME NEW n \in 1 .. MaxInvitations, NEW to \in Roles \cup {"none"}, ReadAccept(r, u, n, to)
          PROVE  \E what : Reads(r, what) /\ what.does # "key"
      BY <3>4 DEF ReadAccept
    <3>5. QED
      BY <1>6, <3>1, <3>2, <3>3, <3>4
  <2>2. keys' = keys /\ Counting' \subseteq Counting
    BY <1>2, <2>1 DEF Reads, orgRows, Counting
  <2>3. QED
    BY <1>1, <1>2, <2>2, FewerKeys
<1>7. ASSUME NEW r \in Requests, Remove(r) \/ Change(r) \/ Invite(r) \/ Accept(r)
      PROVE  KeyInv'
  <2>1. request' = [request EXCEPT ![r] = NoRequest]
    BY <1>7 DEF Remove, Change, Invite, Accept, Answers
  <2>2. Counting' \subseteq Counting
    BY <1>2, <2>1 DEF Counting, NoRequest
  <2>3. keys' = keys \/ \E m \in Makers : keys' = [keys EXCEPT ![m] = 0]
    BY <1>2, <1>7 DEF Remove, Change, Invite, Accept, RequestStates, NoRequest, Makers
  <2>4. keys' \in [Makers -> Nat] /\ \A v \in Makers : keys'[v] <= keys[v]
    BY <1>2, <2>3
  <2>5. QED
    BY <1>1, <2>2, <2>4, FewerKeys
<1>8. QED
  <2>1. Users \subseteq Makers
    BY DEF Makers
  <2>2. CASE \E m \in Makers : RevokeKey(m) \/ \E r \in Requests : ReadKeys(r, m)
    BY <1>1, <1>5, <2>2, CountKeys
  <2>3. ASSUME NEW u \in Users,
               \/ RevokeInvitation(u)
               \/ \E to \in {"none", "member", "admin"} : Correct(u, to)
        PROVE  KeyInv'
    BY <1>5, <2>1, <2>3
  <2>4. CASE \E r \in Requests : Remove(r) \/ Change(r) \/ Invite(r) \/ Accept(r) \/ CreateKey(r)
    BY <1>1, <1>7, <2>4, InsertKey
  <2>5. QED
    BY <1>3, <1>4, <1>6, <2>2, <2>3, <2>4 DEF MembersNext

LEMMA KeyStart == MembersInit => KeyInv
<1> SUFFICES ASSUME MembersInit
             PROVE  KeyInv
  OBVIOUS
<1>1. PICK first \in 0 .. 1 :
        keys = [m \in Makers |-> IF org = "founded" /\ m = Founder THEN first ELSE 0]
  BY DEF MembersInit
<1>2. MemberTypes /\ keys \in [Makers -> Nat]
  BY <1>1, OwnerStart DEF OwnerInv
<1>3. KeyRows \subseteq {<<Founder, 1>>}
  BY <1>1 DEF KeyRows
<1>4. IsFiniteSet(KeyRows) /\ ActiveKeys \in Nat /\ ActiveKeys <= 1
  <2>1. IsFiniteSet({<<Founder, 1>>}) /\ Cardinality({<<Founder, 1>>}) = 1
    BY FS_Singleton
  <2>2. QED
    BY <1>3, <2>1, FS_Subset, FS_CardinalityType DEF ActiveKeys
<1>5. Counting = {} /\ Cardinality({}) = 0
  BY FS_EmptySet DEF MembersInit, Counting, NoRequest
<1>6. Cardinality(Requests) \in Nat /\ Cardinality(Requests) # 0
  BY MembersAssumption, FS_EmptySet, FS_CardinalityType
<1>7. QED
  BY <1>2, <1>4, <1>5, <1>6, CountingFinite DEF KeyInv, KeyExcessBounded

\* The active keys pass their limit by the requests that counted side by side,
\* and by no more, of members and of keys that make keys, whatever is revoked
\* and whoever leaves (api_keys.py).
THEOREM KeyExcessBoundedHolds == MembersSpec => []KeyExcessBounded
<1>1. KeyInv => KeyExcessBounded
  BY DEF KeyInv
<1>2. QED
  BY <1>1, OwnerStart, OwnerStep, KeyStart, KeyStep, PTL DEF MembersSpec

\* Invitations: no more of them, and none counted, than the bound.
InvitationTypes ==
    /\ pending \in [Users -> 0 .. MaxInvitations] /\ offered \subseteq Users
    /\ \A r \in Requests : request[r].does = "accept" => request[r].seen \in 0 .. MaxInvitations

LEMMA InvitationStep == OwnerInv /\ InvitationTypes /\ [MembersNext]_memberVars => InvitationTypes'
<1> SUFFICES ASSUME OwnerInv, InvitationTypes, [MembersNext]_memberVars
             PROVE  InvitationTypes'
  OBVIOUS
<1> USE MembersAssumption DEF OwnerInv, InvitationTypes, MemberTypes
<1>1. CASE DeleteOrg
  BY <1>1 DEF DeleteOrg
<1>2. ASSUME NEW u \in Users, RevokeInvitation(u)
      PROVE  InvitationTypes'
  BY <1>2 DEF RevokeInvitation, Offers
<1>3. ASSUME NEW u, NEW to, RevokeKey(u) \/ Correct(u, to)
      PROVE  InvitationTypes'
  BY <1>3 DEF RevokeKey, Correct
<1>4. ASSUME NEW m, NEW r \in Requests, NEW owner, NEW to,
             ReadRemove(r, m) \/ ReadInvite(r, m, owner) \/ ReadKeys(r, m) \/ ReadChange(r, m, to)
      PROVE  InvitationTypes'
  <2>1. PICK what : Reads(r, what) /\ what.does # "accept"
    BY <1>4 DEF ReadRemove, ReadInvite, ReadKeys, ReadChange
  <2>2. QED
    BY <2>1 DEF Reads, orgRows
<1>5. ASSUME NEW u \in Users, NEW r \in Requests, NEW n \in 1 .. MaxInvitations,
             NEW to \in Roles \cup {"none"}, ReadAccept(r, u, n, to)
      PROVE  InvitationTypes'
  BY <1>5 DEF ReadAccept, Reads, orgRows
<1>6. ASSUME NEW r \in Requests, Remove(r) \/ Change(r) \/ CreateKey(r)
      PROVE  InvitationTypes'
  BY <1>6 DEF Remove, Change, CreateKey, Answers, NoRequest
<1>7. ASSUME NEW r \in Requests, Invite(r)
      PROVE  InvitationTypes'
  <2>1. request[r].user \in Users
    BY <1>7 DEF Invite, RequestStates, NoRequest
  <2>2. pending' \in [Users -> 0 .. MaxInvitations]
    BY <1>7, <2>1 DEF Invite
  <2>3. offered' \subseteq Users
    BY <1>7, <2>1 DEF Invite, Offers
  <2>4. QED
    BY <1>7, <2>2, <2>3 DEF Invite, Answers, NoRequest
<1>8. ASSUME NEW r \in Requests, Accept(r)
      PROVE  InvitationTypes'
  <2>1. offered' \subseteq Users
    BY <1>8 DEF Accept, Offers
  <2>2. pending' \in [Users -> 0 .. MaxInvitations]
    BY <1>8 DEF Accept, RequestStates, NoRequest
  <2>3. QED
    BY <1>8, <2>1, <2>2 DEF Accept, Answers, NoRequest
<1>9. CASE UNCHANGED memberVars
  BY <1>9 DEF memberVars, orgRows
<1>10. QED
  <2>1. CASE \E m \in Makers : RevokeKey(m) \/ \E r \in Requests : ReadKeys(r, m)
    BY <1>3, <1>4, <2>1
  <2>2. ASSUME NEW u \in Users,
               \/ RevokeInvitation(u)
               \/ \E to \in {"none", "member", "admin"} : Correct(u, to)
        PROVE  InvitationTypes'
    BY <1>2, <1>3, <2>2
  <2>3. ASSUME NEW u \in Users, NEW r \in Requests,
               \/ ReadRemove(r, u)
               \/ \E owner \in BOOLEAN : ReadInvite(r, u, owner)
               \/ \E to \in Roles : ReadChange(r, u, to)
               \/ \E n \in 1 .. MaxInvitations, to \in Roles \cup {"none"} : ReadAccept(r, u, n, to)
        PROVE  InvitationTypes'
    BY <1>4, <1>5, <2>3
  <2> HIDE DEF OwnerInv, InvitationTypes, MemberTypes
  <2>4. QED
    BY <1>1, <1>6, <1>7, <1>8, <1>9, <2>1, <2>2, <2>3 DEF MembersNext

\* The keys of one maker are among the active ones.
LEMMA KeysOfOne ==
    ASSUME KeyInv, NEW u \in Makers
    PROVE  keys[u] \in 0 .. MaxActiveKeys + Cardinality(Requests)
<1>1. keys[u] \in Nat /\ ({u} \X (1 .. keys[u])) \subseteq KeyRows
  BY DEF KeyInv, KeyRows
<1>2. IsFiniteSet(1 .. keys[u]) /\ Cardinality(1 .. keys[u]) = keys[u]
  <2>1. ASSUME NEW n \in Nat
        PROVE  IsFiniteSet(1 .. n) /\ Cardinality(1 .. n) = n
    BY FS_Interval
  <2>2. QED
    BY <1>1, <2>1
<1>3. IsFiniteSet({u}) /\ Cardinality({u}) = 1
  BY FS_Singleton
<1>4. Cardinality({u} \X (1 .. keys[u])) = 1 * keys[u]
  BY <1>2, <1>3, FS_Product
<1>5. Cardinality({u} \X (1 .. keys[u])) <= ActiveKeys /\ ActiveKeys \in Nat
  BY <1>1, FS_Subset, FS_CardinalityType DEF KeyInv, ActiveKeys
<1>6. QED
  BY <1>1, <1>4, <1>5, CountingFinite DEF KeyInv, KeyExcessBounded

\* Members, invitations and keys are typed, the keys of a member within their
\* limit and one for each request that runs (members.py, api_keys.py).
THEOREM MembersTypesHold == MembersSpec => []MembersTypeOK
<1>1. MembersInit => InvitationTypes
  BY MembersAssumption DEF MembersInit, InvitationTypes, NoRequest
<1>2. OwnerInv /\ KeyInv /\ InvitationTypes => MembersTypeOK
  <2> SUFFICES ASSUME OwnerInv, KeyInv, InvitationTypes
               PROVE  MembersTypeOK
    OBVIOUS
  <2>1. keys \in [Makers -> 0 .. MaxActiveKeys + Cardinality(Requests)]
    BY KeysOfOne DEF KeyInv
  <2>2. ASSUME NEW r \in Requests
        PROVE  \/ request[r] = NoRequest
               \/ request[r] \in [does : {"remove"}, user : Users]
               \/ request[r] \in [does : {"key"}, user : Makers]
               \/ request[r] \in [does : {"change"}, user : Users, to : Roles]
               \/ request[r] \in [does : {"insert", "refresh"}, user : Users, owner : BOOLEAN]
               \/ request[r] \in [does : {"accept"}, user : Users,
                                  seen : 0 .. MaxInvitations, to : Roles \cup {"none"}]
    BY DEF OwnerInv, MemberTypes, RequestStates, InvitationTypes
  <2>3. QED
    BY <2>1, <2>2 DEF OwnerInv, MemberTypes, InvitationTypes, MembersTypeOK
<1>3. QED
  BY <1>1, <1>2, OwnerStart, OwnerStep, KeyStart, KeyStep, InvitationStep, PTL DEF MembersSpec

-----------------------------------------------------------------------------
(* What a restore brings back.                                             *)

RowStates == {"on", "off", "absent"}

Shape == [org : BOOLEAN, user : SUBSET People, role : [People -> RoleNames], row : [Rows -> RowStates]]

\* Before the comparison both databases are as the server had left them.
RestoreInv ==
    /\ cur \in Shape /\ pre \in Shape /\ Sound(pre)
    /\ stage # "reconciled" => cur.org /\ Sound(cur)
    /\ NothingComesBack

\* Roles are ordered by their rank.
LEMMA Ranks ==
    /\ RoleNames = {"none", "member", "admin", "owner"}
    /\ RoleRank["none"] = 0 /\ RoleRank["member"] = 1 /\ RoleRank["admin"] = 2 /\ RoleRank["owner"] = 3
    /\ \A r \in RoleNames : RoleRank[r] \in Nat
    /\ \A r, s \in RoleNames : RoleRank[r] = RoleRank[s] => r = s
BY DEF RoleNames, RoleRank

LEMMA LowerOfTwo ==
    ASSUME NEW r \in RoleNames, NEW s \in RoleNames
    PROVE  /\ Lower(r, s) \in {r, s}
           /\ RoleRank[Lower(r, s)] <= RoleRank[s]
           /\ RoleRank[r] <= RoleRank[s] => Lower(r, s) = r
BY Ranks DEF Lower

LEMMA BehindOf ==
    /\ Behind("client") = {} /\ Behind("other") = {}
    /\ Behind("grant") = {"client"} /\ Behind("token") = {"client", "grant"}
BY DEF Behind

LEMMA QuarantineStep ==
    ASSUME RestoreInv, NEW revokeAll \in BOOLEAN, Quarantine(revokeAll)
    PROVE  RestoreInv'
<1> DEFINE rows == [r \in Rows |-> IF revokeAll /\ cur.row[r] = "on" THEN "off" ELSE cur.row[r]]
<1>1. cur' = [cur EXCEPT !.row = rows] /\ stage = "restored" /\ stage' = "quarantined" /\ pre' = pre
  BY DEF Quarantine
<1>2. rows \in [Rows -> RowStates]
  BY DEF RestoreInv, Shape, RowStates
<1>3. cur' \in Shape /\ cur'.org = cur.org /\ cur'.user = cur.user /\ cur'.role = cur.role
      /\ cur'.row = rows
  BY <1>1, <1>2 DEF RestoreInv, Shape
<1>4. \A r \in Rows : /\ cur'.row[r] = "absent" <=> cur.row[r] = "absent"
                      /\ cur'.row[r] = "on" <=> cur.row[r] = "on" /\ ~revokeAll
  BY <1>3
<1> HIDE DEF rows
<1>5. \A r \in Rows : \A b \in Behind(r) : b \in Rows
  BY BehindOf DEF Rows
<1>6. Sound(cur)' /\ Sound(pre)'
  BY <1>1, <1>3, <1>4, <1>5 DEF RestoreInv, Sound, OwnersIn
<1>7. QED
  BY <1>1, <1>3, <1>6 DEF RestoreInv, NothingComesBack

LEMMA ReconcileStep ==
    ASSUME RestoreInv, NEW res \in SUBSET People, Reconcile(res)
    PROVE  RestoreInv'
<1>1. stage # "reconciled" /\ stage' = "reconciled" /\ pre' = pre /\ res \in Resolutions
      /\ cur' = Planned(res)
  BY DEF Reconcile
<1>2. /\ cur \in Shape /\ pre \in Shape /\ Sound(cur) /\ Sound(pre) /\ cur.org
  BY <1>1 DEF RestoreInv
<1>3. /\ cur'.org = (cur.org /\ pre.org) /\ cur'.user = cur.user \cap pre.user
      /\ cur'.role = [p \in People |-> RoleAfter(p, res)]
      /\ cur'.row = [r \in Rows |-> RowAfter(r)]
  BY <1>1 DEF Planned
<1>4. \A p \in res : pre.role[p] = "owner" /\ p \in People
  BY <1>1 DEF Resolutions, Candidates, OwnersIn
<1>5. \A p \in People : /\ cur'.role[p] \in RoleNames
                        /\ RoleRank[cur'.role[p]] <= RoleRank[pre.role[p]]
  BY <1>2, <1>3, <1>4, Ranks, LowerOfTwo DEF RoleAfter, Shape
<1>6. \A r \in Rows : cur'.row[r] \in RowStates
  BY <1>2, <1>3 DEF RowAfter, Shape, RowStates
<1>7. cur' \in Shape
  <2>1. cur'.role \in [People -> RoleNames] /\ cur'.row \in [Rows -> RowStates]
    BY <1>3, <1>5, <1>6
  <2>2. cur' = [org |-> cur'.org, user |-> cur'.user, role |-> cur'.role, row |-> cur'.row]
    BY <1>1 DEF Planned
  <2>3. cur'.org \in BOOLEAN /\ cur'.user \in SUBSET People
    BY <1>2, <1>3 DEF Shape
  <2>4. QED
    BY <2>1, <2>2, <2>3 DEF Shape
\* A retained organization has an owner that was one in both.
<1>8. ASSUME pre.org
      PROVE  OwnersIn(cur') \cap OwnersIn(pre) # {}
  <2>1. CASE Blocked
    <3>1. PICK p \in People : res = {p}
      BY <1>1, <2>1 DEF Resolutions
    <3>2. cur'.role[p] = "owner" /\ pre.role[p] = "owner"
      BY <1>3, <1>4, <3>1 DEF RoleAfter
    <3>3. QED
      BY <3>2 DEF OwnersIn
  <2>2. CASE ~Blocked
    <3>1. res = {}
      BY <1>1, <2>2 DEF Resolutions
    <3>2. PICK p \in People : cur.role[p] = "owner" /\ pre.role[p] = "owner"
      BY <1>8, <2>2 DEF Blocked, OwnersIn
    <3>3. cur'.role[p] = "owner"
      BY <1>3, <3>1, <3>2 DEF RoleAfter, Lower
    <3>4. QED
      BY <3>2, <3>3 DEF OwnersIn
  <2>3. QED
    BY <2>1, <2>2
\* A row that is on was on in both, with all it depends on.
<1>9. ASSUME NEW r \in Rows, cur'.row[r] = "on"
      PROVE  /\ ~Ended(r) /\ cur.row[r] = "on" /\ (pre.org \/ r = "client")
             /\ \A b \in Behind(r) \cup {r} : cur'.row[b] = "on" /\ pre.row[b] = "on"
  <2>1. RowAfter(r) = "on"
    BY <1>3, <1>9
  <2>2. ~Ended(r) /\ cur.row[r] = "on" /\ (pre.org \/ r = "client")
    BY <2>1 DEF RowAfter
  <2>3. pre.row[r] = "on" /\ \A b \in Behind(r) : pre.row[b] = "on" /\ cur.row[b] = "on"
    BY <1>2, <2>2 DEF Ended, Sound
  <2>4. ASSUME NEW b \in Behind(r)
        PROVE  cur'.row[b] = "on"
    <3>1. b \in Rows /\ pre.org
      BY <2>2, <2>4, BehindOf DEF Rows
    <3>2. ~Ended(b)
      BY <1>2, <2>3, <3>1 DEF Ended, Sound
    <3>3. QED
      BY <1>3, <2>3, <3>1, <3>2 DEF RowAfter
  <2>5. QED
    BY <1>9, <2>2, <2>3, <2>4
\* A second run finds nothing.
<1>10. cur' = Planned({})'
  <2>1. \A p \in People : cur'.role[p] = RoleAfter(p, {})'
    BY <1>1, <1>2, <1>5, LowerOfTwo DEF RoleAfter, Shape
  <2>2. ASSUME NEW r \in Rows
        PROVE  cur'.row[r] = RowAfter(r)'
    <3>1. CASE ~pre.org /\ r # "client"
      <4>1. RowAfter(r) = "absent" /\ pre' = pre
        BY <1>1, <3>1 DEF RowAfter
      <4>2. RowAfter(r)' = "absent"
        BY <3>1, <4>1 DEF RowAfter
      <4>3. QED
        BY <1>3, <4>1, <4>2
    <3>2. CASE ~(~pre.org /\ r # "client")
      <4>1. cur'.row[r] = "on" => ~Ended(r)'
        BY <1>1, <1>9 DEF Ended
      <4>2. QED
        BY <1>1, <3>2, <4>1 DEF RowAfter
    <3>3. QED
      BY <3>1, <3>2
  <2>3. cur'.org = (cur'.org /\ pre'.org) /\ cur'.user = cur'.user \cap pre'.user
    BY <1>1, <1>3, <1>2 DEF Shape
  <2>4. cur'.role = [p \in People |-> RoleAfter(p, {})'] /\ cur'.row = [r \in Rows |-> RowAfter(r)']
    BY <1>7, <2>1, <2>2 DEF Shape
  <2>5. cur' = [org |-> cur'.org, user |-> cur'.user, role |-> cur'.role, row |-> cur'.row]
    BY <1>1 DEF Planned
  <2>6. QED
    BY <2>3, <2>4, <2>5 DEF Planned
<1>11. NothingComesBack'
  <2>1. cur'.org => pre'.org /\ OwnersIn(cur') # {}
    BY <1>1, <1>3, <1>8
  <2>2. ~Blocked'
    BY <1>1, <1>8 DEF Blocked, OwnersIn
  <2>3. cur'.user \subseteq pre'.user
    BY <1>1, <1>3
  <2>4. QED
    BY <1>1, <1>5, <1>9, <1>10, <2>1, <2>2, <2>3 DEF NothingComesBack, OwnersIn
<1>12. QED
  BY <1>1, <1>2, <1>7, <1>11 DEF RestoreInv, Sound, OwnersIn

LEMMA RestoreInvariant == RestoreSpec => []RestoreInv
<1>1. RestoreInit => RestoreInv
  BY DEF RestoreInit, Databases, RestoreInv, Shape, RowStates, NothingComesBack
<1>2. RestoreInv /\ [RestoreNext]_restoreVars => RestoreInv'
  <2> SUFFICES ASSUME RestoreInv, [RestoreNext]_restoreVars
               PROVE  RestoreInv'
    OBVIOUS
  <2>1. CASE UNCHANGED restoreVars
    BY <2>1 DEF restoreVars, RestoreInv, NothingComesBack, Blocked, OwnersIn, Planned, RoleAfter, RowAfter,
                Ended, Sound
  <2>2. QED
    BY <2>1, QuarantineStep, ReconcileStep DEF RestoreNext
<1>3. QED
  BY <1>1, <1>2, PTL DEF RestoreSpec

\* After a reconciliation nothing is back that had ended, whatever the two
\* databases hold and whoever the people are (restore_reconcile.py, _plan).
THEOREM NothingComesBackHolds == RestoreSpec => []NothingComesBack
<1>1. RestoreInv => NothingComesBack
  BY DEF RestoreInv
<1>2. QED
  BY <1>1, RestoreInvariant, PTL

\* Both databases and the stage are typed (restore.py, restore_reconcile.py).
THEOREM RestoreTypesHold == RestoreSpec => []RestoreTypeOK
<1> DEFINE Staged == stage \in {"restored", "quarantined", "reconciled"}
<1>1. RestoreInit => Staged
  BY DEF RestoreInit
<1>2. Staged /\ [RestoreNext]_restoreVars => Staged'
  BY DEF RestoreNext, Quarantine, Reconcile, restoreVars
<1>3. RestoreInv /\ Staged => RestoreTypeOK
  BY DEF RestoreInv, Shape, RowStates, RestoreTypeOK
<1>4. QED
  BY <1>1, <1>2, <1>3, RestoreInvariant, PTL DEF RestoreSpec

-----------------------------------------------------------------------------
(* One chain of tokens per consent: proofs about OAuthGrants.  The guard   *)
(* on the grant's row is what the argument rests on: at most one handler   *)
(* is between its judgement and its commit, and the token it holds is the  *)
(* only one of the grant that is not revoked.                              *)

HandlerStates == [at : {"idle", "deciding", "code", "replay", "refresh", "rotating"},
                  code : Codes \cup {NoCode}, pair : Pairs \cup {NoPair}]

\* Pairs are issued in the order of their numbers.
IssuedInOrder == \E n \in 0 .. MaxPairs : \A p \in Pairs : refresh[p] = "none" <=> n < p

\* What the two tokens of a pair and its grant say of each other.
PairAgrees(p) ==
    /\ refresh[p] = "none" <=> of[p] = NoPair
    /\ refresh[p] = "none" => access[p] = "none"
    /\ access[p] = "live" => refresh[p] = "live"
    /\ refresh[p] = "live" => grant[of[p]] = "live"
    /\ refresh[p] = "gone" => grant[of[p]] = "gone"
    /\ refresh[p] # "none" => grant[of[p]] # "none"

OneLive ==
    \A p, q \in Pairs :
      refresh[p] = "live" /\ refresh[q] = "live" /\ of[p] = of[q] => p = q

\* A code buys one grant.
SoldOnce ==
    /\ \A g \in Grants : grant[g] # "none" => bought[g] \in Codes
    /\ \A g \in Grants : bought[g] # NoCode => code[bought[g]] \in {"exchanged", "gone"}
    /\ \A g, k \in Grants : bought[g] = bought[k] /\ bought[g] # NoCode => g = k

\* Who is rotating holds the live token of a grant, alone.
OneRotation ==
    /\ \A h \in Handlers : handler[h].at = "rotating"
         => handler[h].pair \in Pairs /\ refresh[handler[h].pair] = "live"
    /\ \A h, k \in Handlers :
         /\ handler[h].at = "rotating" /\ handler[k].at = "rotating"
         /\ of[handler[h].pair] = of[handler[k].pair]
         => h = k
    /\ \A h \in Handlers :
         /\ handler[h].at = "refresh" => handler[h].pair \in Pairs
         /\ handler[h].at = "code" => handler[h].code \in Codes

TokenInv == IssuedInOrder /\ OneLive /\ \A p \in Pairs : PairAgrees(p)

GrantInv == OAuthTypeOK /\ TokenInv /\ SoldOnce /\ OneRotation

-----------------------------------------------------------------------------
(* What the invariant says of a pair.                                      *)

LEMMA GrantOf ==
    ASSUME OAuthTypeOK, TokenInv, NEW p \in Pairs, refresh[p] # "none"
    PROVE  of[p] \in Grants
BY DEF OAuthTypeOK, TokenInv, PairAgrees

\* The next pair is one that was never issued.
LEMMA NextIsFresh ==
    ASSUME TokenInv, MorePairs
    PROVE  /\ NextPair \in Pairs /\ refresh[NextPair] = "none"
           /\ \A q \in Pairs : refresh[q] = "none" <=> NextPair <= q
<1>1. PICK n \in 0 .. MaxPairs : \A p \in Pairs : refresh[p] = "none" <=> n < p
  BY DEF TokenInv, IssuedInOrder
<1>2. n + 1 \in Pairs /\ refresh[n + 1] = "none" /\ \A q \in Pairs : q < n + 1 => refresh[q] # "none"
  BY <1>1, OAuthAssumption DEF MorePairs, Pairs
<1>3. NextPair \in Pairs /\ refresh[NextPair] = "none"
      /\ \A q \in Pairs : q < NextPair => refresh[q] # "none"
  BY <1>2 DEF NextPair
<1>4. \A q \in Pairs : refresh[q] = "none" <=> NextPair <= q
  BY <1>1, <1>3, OAuthAssumption DEF Pairs
<1>5. QED
  BY <1>3, <1>4

-----------------------------------------------------------------------------
(* Steps that leave the tokens alone.                                      *)

LEMMA Quiet ==
    ASSUME GrantInv, UNCHANGED <<grant, bought, refresh, access, of>>, OAuthTypeOK',
           \A c \in Codes : code[c] \in {"exchanged", "gone"} => code'[c] \in {"exchanged", "gone"},
           OneRotation'
    PROVE  GrantInv'
<1>1. TokenInv'
  BY DEF GrantInv, TokenInv, IssuedInOrder, OneLive, PairAgrees
<1>2. SoldOnce'
  BY DEF GrantInv, SoldOnce, OAuthTypeOK
<1>3. QED
  BY <1>1, <1>2 DEF GrantInv

\* A handler that does not come to rotate.
LEMMA HandlerMoves ==
    ASSUME GrantInv, UNCHANGED <<refresh, of>>, NEW h \in Handlers, NEW to \in HandlerStates,
           Moves(h, to), to.at # "rotating",
           to.at = "refresh" => to.pair \in Pairs, to.at = "code" => to.code \in Codes
    PROVE  OneRotation' /\ handler' \in [Handlers -> HandlerStates]
BY DEF GrantInv, OAuthTypeOK, OneRotation, Moves, HandlerStates

-----------------------------------------------------------------------------
(* Revocation: every grant of gs and all its tokens.                       *)

LEMMA Revocation ==
    ASSUME GrantInv, NEW gs \in SUBSET Grants, RevokeGrants(gs), \A g \in gs : GuardFree(g),
           UNCHANGED <<bought, code, late, client, member>>,
           handler' \in [Handlers -> HandlerStates],
           \A h \in Handlers : handler'[h] = handler[h] \/ handler'[h] = Idle
    PROVE  GrantInv'
<1> USE DEF GrantInv
<1>1. /\ \A g \in Grants : grant'[g] = IF g \in gs /\ grant[g] = "live" THEN "revoked" ELSE grant[g]
      /\ \A p \in Pairs : refresh'[p] = IF of[p] \in gs /\ refresh[p] = "live"
                                        THEN "revoked" ELSE refresh[p]
      /\ \A p \in Pairs : access'[p] = IF of[p] \in gs /\ access[p] = "live"
                                       THEN "revoked" ELSE access[p]
      /\ of' = of /\ age' = age
  BY DEF RevokeGrants
<1>2. OAuthTypeOK'
  <2>1. grant' \in [Grants -> {"none", "live", "revoked", "gone"}]
    BY <1>1 DEF RevokeGrants, OAuthTypeOK
  <2>2. refresh' \in [Pairs -> {"none", "live", "rotated", "revoked", "gone"}]
    BY <1>1 DEF RevokeGrants, OAuthTypeOK
  <2>3. access' \in [Pairs -> {"none", "live", "revoked", "gone"}]
    BY <1>1 DEF RevokeGrants, OAuthTypeOK
  <2>4. QED
    BY <1>1, <2>1, <2>2, <2>3 DEF OAuthTypeOK, HandlerStates
<1>3. IssuedInOrder' /\ OneLive'
  BY <1>1 DEF TokenInv, IssuedInOrder, OneLive
<1>4. ASSUME NEW p \in Pairs
      PROVE  PairAgrees(p)'
  <2>1. CASE refresh[p] = "none"
    BY <1>1, <2>1 DEF TokenInv, PairAgrees
  <2>2. CASE refresh[p] # "none"
    <3>1. of[p] \in Grants
      BY <2>2, GrantOf
    <3>2. QED
      BY <1>1, <2>2, <3>1 DEF TokenInv, PairAgrees
  <2>3. QED
    BY <2>1, <2>2
<1>5. SoldOnce'
  BY <1>1 DEF SoldOnce
<1>6. OneRotation'
  <2>1. ASSUME NEW h \in Handlers, handler'[h].at \in {"rotating", "refresh", "code"}
        PROVE  handler'[h] = handler[h]
    BY <2>1 DEF Idle
  <2>2. ASSUME NEW h \in Handlers, handler[h].at = "rotating"
        PROVE  of[handler[h].pair] \notin gs
    BY <2>2 DEF GuardFree
  <2>3. QED
    BY <1>1, <2>1, <2>2 DEF OneRotation
<1>7. QED
  BY <1>2, <1>3, <1>4, <1>5, <1>6 DEF TokenInv

-----------------------------------------------------------------------------
(* The steps.                                                              *)

\* A handler judges a refresh token under the guard.
LEMMA JudgeStep ==
    ASSUME GrantInv, NEW h \in Handlers, NEW p \in Pairs, NEW next \in HandlerStates,
           Judge(h, p, next), next = HoldsRefresh(p) \/ next = Rotating(p)
    PROVE  GrantInv'
<1> USE DEF GrantInv
<1>0. Idle \in HandlerStates /\ Idle.at = "idle"
  BY DEF Idle, HandlerStates
<1>1. CASE Stored(p) /\ UsableRefresh(p) /\ Moves(h, next) /\ UNCHANGED <<grant, tokenVars>>
  <2>1. handler' \in [Handlers -> HandlerStates]
    BY <1>1 DEF Moves, OAuthTypeOK, HandlerStates
  <2>2. OAuthTypeOK'
    BY <1>1, <2>1 DEF Judge, tokenVars, OAuthTypeOK, HandlerStates
  <2>3. OneRotation'
    <3>1. handler'[h] = next /\ \A k \in Handlers \ {h} : handler'[k] = handler[k]
      BY <1>1 DEF Moves, OAuthTypeOK
    <3>2. refresh' = refresh /\ of' = of
      BY <1>1 DEF tokenVars
    <3>3. refresh[p] = "live" /\ GuardFree(of[p])
      BY <1>1 DEF Judge, UsableRefresh
    <3>4. next.pair = p /\ next.at \in {"refresh", "rotating"}
      BY DEF HoldsRefresh, Rotating
    <3>5. \A k \in Handlers \ {h} : handler[k].at = "rotating" => of[handler[k].pair] # of[p]
      BY <3>3 DEF GuardFree
    <3>6. QED
      BY <3>1, <3>2, <3>3, <3>4, <3>5 DEF OneRotation
  <2>4. QED
    BY <1>1, <2>2, <2>3, Quiet DEF Judge, tokenVars
<1>2. CASE Stored(p) /\ Condemned(p) /\ RevokeGrants({of[p]}) /\ Moves(h, Idle)
  <2>1. of[p] \in Grants
    BY <1>2, GrantOf DEF Stored
  <2>2. handler' \in [Handlers -> HandlerStates]
        /\ \A k \in Handlers : handler'[k] = handler[k] \/ handler'[k] = Idle
    BY <1>0, <1>2 DEF Moves, OAuthTypeOK, HandlerStates
  <2>3. \A g \in {of[p]} : GuardFree(g)
    BY <1>2 DEF Judge
  <2>4. QED
    BY <1>2, <2>1, <2>2, <2>3, Revocation DEF Judge
<1>3. CASE Moves(h, Idle) /\ UNCHANGED <<grant, tokenVars>>
  <2>1. OneRotation' /\ handler' \in [Handlers -> HandlerStates]
    BY <1>0, <1>3, HandlerMoves DEF tokenVars
  <2>2. OAuthTypeOK'
    BY <1>3, <2>1 DEF Judge, tokenVars, OAuthTypeOK, HandlerStates
  <2>3. QED
    BY <1>3, <2>1, <2>2, Quiet DEF Judge, tokenVars
<1>4. QED
  BY <1>1, <1>2, <1>3 DEF Judge

\* The first pair of a grant.
LEMMA ExchangeStep ==
    ASSUME GrantInv, NEW h \in Handlers, ExchangeCode(h)
    PROVE  GrantInv'
<1> USE DEF GrantInv
<1> DEFINE c == handler[h].code
           q == NextPair
<1>1. /\ q \in Pairs /\ refresh[q] = "none"
      /\ \A p \in Pairs : refresh[p] = "none" <=> q <= p
  BY NextIsFresh DEF ExchangeCode
<1>2. PICK g \in Grants : /\ grant[g] = "none"
                          /\ grant' = [grant EXCEPT ![g] = "live"]
                          /\ bought' = [bought EXCEPT ![g] = c]
                          /\ of' = [of EXCEPT ![q] = g]
  BY DEF ExchangeCode
<1>3. /\ code' = [code EXCEPT ![c] = "exchanged"]
      /\ refresh' = [refresh EXCEPT ![q] = "live"]
      /\ access' = [access EXCEPT ![q] = "live"]
      /\ Moves(h, Idle) /\ code[c] = "approved" /\ UNCHANGED <<client, late, age, member>>
  BY DEF ExchangeCode, Consumable
<1> HIDE DEF q
<1>4. c \in Codes
  <2>1. handler[h].at = "code"
    BY DEF ExchangeCode
  <2>2. QED
    BY <2>1 DEF OneRotation
<1>5. handler' \in [Handlers -> HandlerStates]
      /\ \A k \in Handlers : handler'[k] = handler[k] \/ handler'[k] = Idle
  BY <1>3 DEF Moves, Idle, OAuthTypeOK, HandlerStates
<1>6. of[q] = NoPair /\ \A p \in Pairs : of[p] # g
  BY <1>1, <1>2, OAuthAssumption DEF TokenInv, PairAgrees, OAuthTypeOK
<1>7. \A p \in Pairs \ {q} : refresh'[p] = refresh[p] /\ access'[p] = access[p] /\ of'[p] = of[p]
  BY <1>2, <1>3 DEF OAuthTypeOK
<1>8. refresh'[q] = "live" /\ access'[q] = "live" /\ of'[q] = g /\ grant'[g] = "live"
      /\ \A k \in Grants \ {g} : grant'[k] = grant[k] /\ bought'[k] = bought[k]
  BY <1>1, <1>2, <1>3 DEF OAuthTypeOK
<1>9. OAuthTypeOK'
  BY <1>1, <1>2, <1>3, <1>4, <1>5 DEF OAuthTypeOK, HandlerStates
<1>10. IssuedInOrder'
  <2>1. q \in 0 .. MaxPairs /\ \A p \in Pairs : refresh'[p] = "none" <=> q < p
    BY <1>1, <1>7, <1>8, OAuthAssumption DEF Pairs
  <2>2. QED
    BY <2>1 DEF IssuedInOrder
<1>11. OneLive'
  BY <1>6, <1>7, <1>8 DEF TokenInv, OneLive
<1>12. ASSUME NEW p \in Pairs
       PROVE  PairAgrees(p)'
  <2>1. CASE p = q
    BY <1>8, <2>1, OAuthAssumption DEF PairAgrees
  <2>2. CASE p # q /\ refresh[p] = "none"
    BY <1>7, <2>2 DEF TokenInv, PairAgrees
  <2>3. CASE p # q /\ refresh[p] # "none"
    <3>1. of[p] \in Grants \ {g}
      BY <1>6, <2>3, GrantOf
    <3>2. QED
      BY <1>7, <1>8, <2>3, <3>1 DEF TokenInv, PairAgrees
  <2>4. QED
    BY <2>1, <2>2, <2>3
<1>13. SoldOnce'
  <2>1. \A k \in Grants : bought[k] # c \/ bought[k] = NoCode
    BY <1>3 DEF SoldOnce
  <2>2. c \in Codes /\ code'[c] = "exchanged" /\ bought'[g] = c
    BY <1>2, <1>3, <1>4 DEF OAuthTypeOK
  <2>3. \A d \in Codes : code'[d] = code[d] \/ d = c
    BY <1>3 DEF OAuthTypeOK
  <2>4. \A k \in Grants : bought[k] # NoCode => code'[bought[k]] \in {"exchanged", "gone"}
    BY <2>3, <2>1 DEF SoldOnce, OAuthTypeOK
  <2>5. QED
    BY <1>2, <1>8, <2>1, <2>2, <2>4, OAuthAssumption DEF SoldOnce, OAuthTypeOK
<1>14. OneRotation'
  <2>1. ASSUME NEW k \in Handlers, handler'[k].at \in {"rotating", "refresh", "code"}
        PROVE  handler'[k] = handler[k]
    BY <1>5, <2>1 DEF Idle
  <2>2. ASSUME NEW k \in Handlers, handler[k].at = "rotating"
        PROVE  handler[k].pair # q
    BY <1>1, <2>2 DEF OneRotation
  <2>3. QED
    BY <1>7, <2>1, <2>2 DEF OneRotation
<1>15. QED
  BY <1>9, <1>10, <1>11, <1>12, <1>13, <1>14 DEF TokenInv

\* The next pair of a grant, by the handler that holds its guard.
LEMMA RotateStep ==
    ASSUME GrantInv, NEW h \in Handlers, Rotate(h)
    PROVE  GrantInv'
<1> USE DEF GrantInv
<1> DEFINE p == handler[h].pair
           q == NextPair
<1>1. /\ q \in Pairs /\ refresh[q] = "none"
      /\ \A r \in Pairs : refresh[r] = "none" <=> q <= r
  BY NextIsFresh DEF Rotate
<1>2. p \in Pairs /\ refresh[p] = "live" /\ p # q
  BY <1>1 DEF Rotate, OneRotation
<1>3. of[p] \in Grants /\ grant[of[p]] = "live"
  BY <1>2, GrantOf DEF TokenInv, PairAgrees
<1>4. /\ refresh' = [refresh EXCEPT ![p] = "rotated", ![q] = "live"]
      /\ access' = [access EXCEPT ![p] = IF @ = "live" THEN "revoked" ELSE @, ![q] = "live"]
      /\ of' = [of EXCEPT ![q] = of[p]]
      /\ Moves(h, Idle) /\ UNCHANGED <<client, code, late, grant, bought, age, member>>
  BY DEF Rotate
<1> HIDE DEF q
<1>5. handler' \in [Handlers -> HandlerStates] /\ handler'[h] = Idle
      /\ \A k \in Handlers \ {h} : handler'[k] = handler[k]
  BY <1>4 DEF Moves, Idle, OAuthTypeOK, HandlerStates
<1>6. /\ refresh'[p] = "rotated" /\ access'[p] # "live" /\ of'[p] = of[p]
      /\ refresh'[q] = "live" /\ access'[q] = "live" /\ of'[q] = of[p]
      /\ \A r \in Pairs \ {p, q} :
           refresh'[r] = refresh[r] /\ access'[r] = access[r] /\ of'[r] = of[r]
  BY <1>1, <1>2, <1>4 DEF OAuthTypeOK
<1>7. OAuthTypeOK'
  <2>1. refresh' \in [Pairs -> {"none", "live", "rotated", "revoked", "gone"}]
    BY <1>4 DEF OAuthTypeOK
  <2>2. access' \in [Pairs -> {"none", "live", "revoked", "gone"}]
    BY <1>4 DEF OAuthTypeOK
  <2>3. of' \in [Pairs -> Grants \cup {NoPair}]
    BY <1>3, <1>4 DEF OAuthTypeOK
  <2>4. QED
    BY <1>4, <1>5, <2>1, <2>2, <2>3 DEF OAuthTypeOK, HandlerStates
<1>8. IssuedInOrder'
  <2>1. q \in 0 .. MaxPairs /\ \A r \in Pairs : refresh'[r] = "none" <=> q < r
    BY <1>1, <1>2, <1>6, OAuthAssumption DEF Pairs
  <2>2. QED
    BY <2>1 DEF IssuedInOrder
<1>9. OneLive'
  BY <1>2, <1>6 DEF TokenInv, OneLive
<1>10. ASSUME NEW r \in Pairs
       PROVE  PairAgrees(r)'
  <2>1. grant' = grant
    BY <1>4
  <2>2. CASE r \in {p, q}
    <3>1. of'[r] = of[p] /\ refresh'[r] \in {"rotated", "live"}
          /\ (access'[r] = "live" => refresh'[r] = "live")
      BY <1>6, <2>2
    <3>2. of[p] # NoPair
      BY <1>3, OAuthAssumption
    <3>3. QED
      BY <1>3, <2>1, <3>1, <3>2 DEF PairAgrees
  <2>3. CASE r \notin {p, q}
    <3>1. refresh'[r] = refresh[r] /\ access'[r] = access[r] /\ of'[r] = of[r]
      BY <1>6, <2>3
    <3>2. PairAgrees(r)
      BY DEF TokenInv
    <3>3. QED
      BY <2>1, <3>1, <3>2 DEF PairAgrees
  <2>4. QED
    BY <2>2, <2>3
<1>11. SoldOnce'
  BY <1>4 DEF SoldOnce
<1>12. OneRotation'
  <2>1. ASSUME NEW k \in Handlers, handler'[k].at \in {"rotating", "refresh", "code"}
        PROVE  k # h /\ handler'[k] = handler[k]
    BY <1>5, <2>1 DEF Idle
  <2>2. ASSUME NEW k \in Handlers \ {h}, handler[k].at = "rotating"
        PROVE  handler[k].pair \in Pairs \ {p, q} /\ refresh[handler[k].pair] = "live"
    <3>1. handler[k].pair \in Pairs /\ refresh[handler[k].pair] = "live"
      BY <2>2 DEF OneRotation
    <3>2. of[handler[k].pair] # of[p]
      BY <2>2 DEF OneRotation, Rotate
    <3>3. QED
      BY <1>1, <3>1, <3>2
  <2>3. QED
    BY <1>6, <2>1, <2>2 DEF OneRotation
<1>13. QED
  BY <1>7, <1>8, <1>9, <1>10, <1>11, <1>12 DEF TokenInv

\* Deletion of a grant that is of no use, with all of its pairs.
LEMMA PurgeStep ==
    ASSUME GrantInv, NEW g \in Grants, PurgeTokens(g)
    PROVE  GrantInv'
<1> USE DEF GrantInv
<1>1. /\ refresh' = [p \in Pairs |-> IF of[p] = g THEN "gone" ELSE refresh[p]]
      /\ access' = [p \in Pairs |-> IF of[p] = g THEN "gone" ELSE access[p]]
      /\ grant' = [grant EXCEPT ![g] = "gone"]
      /\ GuardFree(g) /\ grant[g] \in {"live", "revoked"}
      /\ UNCHANGED <<client, code, late, bought, age, of, member, handler>>
  BY DEF PurgeTokens, Purged, PairsOf
<1>2. OAuthTypeOK'
  BY <1>1 DEF OAuthTypeOK
<1>3. \A p \in Pairs : refresh[p] = "none" <=> refresh'[p] = "none"
  BY <1>1, OAuthAssumption DEF TokenInv, PairAgrees
<1>4. IssuedInOrder' /\ OneLive'
  BY <1>1, <1>3 DEF TokenInv, IssuedInOrder, OneLive
<1>5. ASSUME NEW p \in Pairs
      PROVE  PairAgrees(p)'
  <2>1. CASE of[p] = g
    BY <1>1, <2>1, OAuthAssumption DEF PairAgrees, OAuthTypeOK
  <2>2. CASE of[p] # g
    BY <1>1, <2>2 DEF TokenInv, PairAgrees, OAuthTypeOK
  <2>3. QED
    BY <2>1, <2>2
<1>6. SoldOnce'
  BY <1>1 DEF SoldOnce, OAuthTypeOK
<1>7. OneRotation'
  BY <1>1 DEF OneRotation, GuardFree
<1>8. QED
  BY <1>2, <1>4, <1>5, <1>6, <1>7 DEF TokenInv

LEMMA GrantStep == GrantInv /\ [OAuthNext]_oauthVars => GrantInv'
<1> SUFFICES ASSUME GrantInv, [OAuthNext]_oauthVars
             PROVE  GrantInv'
  OBVIOUS
<1>0. Idle \in HandlerStates /\ Idle.at = "idle"
  BY DEF Idle, HandlerStates
<1>1. CASE UNCHANGED oauthVars
  BY <1>1 DEF oauthVars, tokenVars, GrantInv, OAuthTypeOK, TokenInv, IssuedInOrder, OneLive,
              PairAgrees, SoldOnce, OneRotation
\* What moves no handler and leaves grants, refresh tokens and pairs alone.
<1>2. ASSUME UNCHANGED <<grant, bought, refresh, access, of, handler>>, OAuthTypeOK',
             \A c \in Codes : code[c] \in {"exchanged", "gone"} => code'[c] \in {"exchanged", "gone"}
      PROVE  GrantInv'
  <2>1. OneRotation'
    BY <1>2 DEF GrantInv, OneRotation
  <2>2. QED
    BY <1>2, <2>1, Quiet
\* What moves one handler and leaves all tokens alone.
<1>3. ASSUME NEW h \in Handlers, NEW to \in HandlerStates, Moves(h, to), to.at # "rotating",
             to.at = "refresh" => to.pair \in Pairs, to.at = "code" => to.code \in Codes,
             UNCHANGED <<client, grant, bought, tokenVars, member>>,
             code' \in [Codes -> {"none", "pending", "denied", "approved", "exchanged", "gone"}],
             late' \in [Codes -> BOOLEAN],
             \A c \in Codes : code[c] \in {"exchanged", "gone"} => code'[c] \in {"exchanged", "gone"}
      PROVE  GrantInv'
  <2>1. OneRotation' /\ handler' \in [Handlers -> HandlerStates]
    BY <1>3, HandlerMoves DEF tokenVars
  <2>2. OAuthTypeOK'
    BY <1>3, <2>1 DEF GrantInv, OAuthTypeOK, tokenVars, HandlerStates
  <2>3. QED
    BY <1>3, <2>1, <2>2, Quiet DEF tokenVars
<1>4. CASE Register \/ MembershipChanges \/ PurgeClient
  <2>1. OAuthTypeOK'
    BY <1>4 DEF Register, MembershipChanges, PurgeClient, tokenVars, GrantInv, OAuthTypeOK
  <2>2. QED
    BY <1>2, <1>4, <2>1 DEF Register, MembershipChanges, PurgeClient, tokenVars
<1>5. ASSUME NEW c \in Codes, Authorize(c) \/ Deny(c) \/ CodeExpires(c) \/ PurgeCode(c)
      PROVE  GrantInv'
  <2>1. OAuthTypeOK'
    BY <1>5 DEF Authorize, Deny, CodeExpires, PurgeCode, tokenVars, GrantInv, OAuthTypeOK
  <2>2. \A d \in Codes : code[d] \in {"exchanged", "gone"} => code'[d] \in {"exchanged", "gone"}
    BY <1>5 DEF Authorize, Deny, Open, CodeExpires, PurgeCode, GrantInv, OAuthTypeOK
  <2>3. QED
    BY <1>2, <1>5, <2>1, <2>2 DEF Authorize, Deny, CodeExpires, PurgeCode, tokenVars
<1>6. ASSUME NEW c \in Codes, NEW h \in Handlers, Consent(h, c) \/ LoadCode(h, c)
      PROVE  GrantInv'
  <2>1. PICK to \in {[at |-> "deciding", code |-> c, pair |-> NoPair], HoldsCode(c), HoldsReplay(c)} :
          Moves(h, to)
    BY <1>6 DEF Consent, LoadCode
  <2>2. to \in HandlerStates /\ to.at \notin {"rotating", "refresh"} /\ to.code \in Codes
    BY <2>1 DEF HoldsCode, HoldsReplay, HandlerStates
  <2>3. UNCHANGED <<client, code, late, grant, bought, tokenVars, member>>
    BY <1>6 DEF Consent, LoadCode
  <2>4. QED
    BY <1>3, <2>1, <2>2, <2>3 DEF GrantInv, OAuthTypeOK
<1>7. ASSUME NEW p \in Pairs, ClientRevokes(p) \/ Disconnect(p)
      PROVE  GrantInv'
  <2>1. /\ Stored(p) /\ GuardFree(of[p]) /\ RevokeGrants({of[p]})
        /\ UNCHANGED <<client, code, late, bought, member, handler>>
    BY <1>7 DEF ClientRevokes, Disconnect, EndGrant
  <2>2. of[p] \in Grants
    BY <2>1, GrantOf DEF Stored, GrantInv
  <2>3. handler \in [Handlers -> HandlerStates]
    BY DEF GrantInv, OAuthTypeOK, HandlerStates
  <2>4. QED
    BY <2>1, <2>2, <2>3, Revocation
<1>8. ASSUME NEW p \in Pairs, RevokeAccess(p)
      PROVE  GrantInv'
  <2>1. access' = [access EXCEPT ![p] = "revoked"] /\ access[p] = "live"
        /\ UNCHANGED <<client, code, late, grant, bought, refresh, age, of, member, handler>>
    BY <1>8 DEF RevokeAccess
  <2>2. OAuthTypeOK' /\ SoldOnce' /\ OneRotation'
    BY <2>1 DEF GrantInv, OAuthTypeOK, SoldOnce, OneRotation
  <2>3. TokenInv'
    BY <2>1 DEF GrantInv, OAuthTypeOK, TokenInv, IssuedInOrder, OneLive, PairAgrees
  <2>4. QED
    BY <2>2, <2>3 DEF GrantInv
<1>9. ASSUME NEW p \in Pairs, PairExpires(p)
      PROVE  GrantInv'
  <2>1. age' \in [Pairs -> 0 .. 2]
    BY <1>9 DEF PairExpires, GrantInv, OAuthTypeOK
  <2>2. OAuthTypeOK'
    BY <1>9, <2>1 DEF PairExpires, GrantInv, OAuthTypeOK
  <2>3. QED
    BY <1>2, <1>9, <2>2 DEF PairExpires
<1>10. ASSUME NEW p \in Pairs, NEW h \in Handlers, LoadRefresh(h, p)
       PROVE  GrantInv'
  <2>1. HoldsRefresh(p) \in HandlerStates
    BY DEF HoldsRefresh, HandlerStates
  <2>2. QED
    BY <1>10, <2>1, JudgeStep DEF LoadRefresh
<1>11. ASSUME NEW h \in Handlers, BeginRefresh(h)
       PROVE  GrantInv'
  <2>1. handler[h].pair \in Pairs
    BY <1>11 DEF BeginRefresh, GrantInv, OneRotation
  <2>2. Rotating(handler[h].pair) \in HandlerStates
    BY <2>1 DEF Rotating, HandlerStates
  <2>3. QED
    BY <1>11, <2>1, <2>2, JudgeStep DEF BeginRefresh
<1>12. ASSUME NEW h \in Handlers, Approve(h)
       PROVE  GrantInv'
  <2>1. code' \in [Codes -> {"none", "pending", "denied", "approved", "exchanged", "gone"}]
        /\ late' \in [Codes -> BOOLEAN]
    BY <1>12 DEF Approve, GrantInv, OAuthTypeOK
  <2>2. \A c \in Codes : code[c] \in {"exchanged", "gone"} => code'[c] \in {"exchanged", "gone"}
    BY <1>12 DEF Approve, GrantInv, OAuthTypeOK
  <2>3. QED
    BY <1>0, <1>3, <1>12, <2>1, <2>2 DEF Approve
<1>13. ASSUME NEW h \in Handlers, ExchangeCodeLost(h)
       PROVE  GrantInv'
  <2>1. handler[h].code \in Codes
    BY <1>13 DEF ExchangeCodeLost, GrantInv, OneRotation
  <2>2. PICK to \in {HoldsReplay(handler[h].code), Idle} : Moves(h, to)
    BY <1>13 DEF ExchangeCodeLost
  <2>3. to \in HandlerStates /\ to.at \in {"replay", "idle"}
    BY <1>0, <2>1, <2>2 DEF HoldsReplay, HandlerStates
  <2>4. QED
    BY <1>3, <1>13, <2>2, <2>3 DEF ExchangeCodeLost, GrantInv, OAuthTypeOK
<1>14. ASSUME NEW h \in Handlers, Drop(h)
       PROVE  GrantInv'
  BY <1>0, <1>3, <1>14 DEF Drop, GrantInv, OAuthTypeOK
<1>15. ASSUME NEW h \in Handlers, RevokeFamily(h)
       PROVE  GrantInv'
  <2>1. Family(handler[h].code) \in SUBSET Grants
    BY DEF Family
  <2>2. handler' \in [Handlers -> HandlerStates]
        /\ \A k \in Handlers : handler'[k] = handler[k] \/ handler'[k] = Idle
    BY <1>0, <1>15 DEF RevokeFamily, Moves, GrantInv, OAuthTypeOK, HandlerStates
  <2>3. QED
    BY <1>15, <2>1, <2>2, Revocation DEF RevokeFamily
<1>16. QED
  BY <1>1, <1>4, <1>5, <1>6, <1>7, <1>8, <1>9, <1>10, <1>11, <1>12, <1>13, <1>14, <1>15,
     ExchangeStep, RotateStep, PurgeStep DEF OAuthNext

LEMMA GrantStart == OAuthInit => GrantInv
<1> SUFFICES ASSUME OAuthInit
             PROVE  GrantInv
  OBVIOUS
<1> USE DEF OAuthInit
<1>1. OAuthTypeOK
  <2>1. Idle \in HandlerStates
    BY DEF Idle, HandlerStates
  <2>2. handler \in [Handlers -> HandlerStates]
    BY <2>1
  <2>3. age \in [Pairs -> 0 .. 2]
    OBVIOUS
  <2>4. QED
    BY <2>2, <2>3 DEF OAuthTypeOK, HandlerStates
<1>2. IssuedInOrder
  <2>1. 0 \in 0 .. MaxPairs /\ \A p \in Pairs : refresh[p] = "none" <=> 0 < p
    BY OAuthAssumption DEF Pairs
  <2>2. QED
    BY <2>1 DEF IssuedInOrder
<1>3. OneLive /\ \A p \in Pairs : PairAgrees(p)
  BY DEF OneLive, PairAgrees
<1>4. SoldOnce /\ OneRotation
  BY DEF SoldOnce, OneRotation, Idle
<1>5. QED
  BY <1>1, <1>2, <1>3, <1>4 DEF GrantInv, TokenInv

LEMMA GrantInvariant == OAuthSpec => []GrantInv
BY GrantStart, GrantStep, PTL DEF OAuthSpec

-----------------------------------------------------------------------------
(* What follows.                                                           *)

\* The type invariant of the grants (models.py, oauth.py).
THEOREM OAuthTypes == OAuthSpec => []OAuthTypeOK
<1>1. GrantInv => OAuthTypeOK
  BY DEF GrantInv
<1>2. QED
  BY <1>1, GrantInvariant, PTL

\* However many requests use one consent at once, at most one of the pairs that
\* were bought with its code can be used (oauth.py, exchange_authorization_code
\* and exchange_refresh_token).
THEOREM OneLivePairHolds == OAuthSpec => []OneLivePair
<1>1. GrantInv => OneLivePair
  <2> SUFFICES ASSUME GrantInv, NEW p \in Pairs, NEW q \in Pairs,
                      Connected(p) \/ Serves(p), Connected(q) \/ Serves(q),
                      bought[of[p]] = bought[of[q]]
               PROVE  p = q
    BY DEF OneLivePair
  <2>1. refresh[p] = "live" /\ refresh[q] = "live"
    BY DEF GrantInv, TokenInv, PairAgrees, Connected, Serves
  <2>2. of[p] \in Grants /\ of[q] \in Grants
    BY <2>1, GrantOf DEF GrantInv
  <2>3. bought[of[p]] # NoCode
    BY <2>1, <2>2, OAuthAssumption DEF GrantInv, SoldOnce, TokenInv, PairAgrees
  <2>4. of[p] = of[q]
    BY <2>2, <2>3 DEF GrantInv, SoldOnce
  <2>5. QED
    BY <2>1, <2>4 DEF GrantInv, TokenInv, OneLive
<1>2. QED
  BY <1>1, GrantInvariant, PTL

\* A revoked grant has no live token, and the tokens that reuse is noticed by
\* stay stored as long as the grant can be refreshed (oauth.py, _revoke_grant
\* and purge_expired).
THEOREM CondemnedForGoodHolds == OAuthSpec => []CondemnedForGood
<1>1. GrantInv => CondemnedForGood
  <2> SUFFICES ASSUME GrantInv
               PROVE  RevokedForGood /\ ReuseIsRemembered
    BY DEF CondemnedForGood
  <2>1. RevokedForGood
    BY DEF GrantInv, TokenInv, PairAgrees, RevokedForGood
  <2>2. ReuseIsRemembered
    BY DEF GrantInv, TokenInv, PairAgrees, ReuseIsRemembered, Connected, Stored
  <2>3. QED
    BY <2>1, <2>2
<1>2. QED
  BY <1>1, GrantInvariant, PTL

-----------------------------------------------------------------------------
(* The grants implement GrantPromise.                                      *)

\* What the mapping makes of a grant.
LEMMA Mapped ==
    ASSUME NEW g \in Grants
    PROVE  /\ UsableTokens[g] = {p \in PairsOf(g) : refresh[p] = "live"}
           /\ SpentTokens[g] = {p \in PairsOf(g) : refresh[p] # "live"}
           /\ UsableTokens'[g] = {p \in PairsOf(g)' : refresh'[p] = "live"}
           /\ SpentTokens'[g] = {p \in PairsOf(g)' : refresh'[p] # "live"}
BY DEF UsableTokens, SpentTokens

\* A grant whose pairs and their usability stay is mapped to the same.
LEMMA MappedToTheSame ==
    ASSUME NEW g \in Grants,
           \A p \in Pairs : of'[p] = g <=> of[p] = g,
           \A p \in Pairs : of[p] = g => (refresh'[p] = "live" <=> refresh[p] = "live")
    PROVE  UsableTokens'[g] = UsableTokens[g] /\ SpentTokens'[g] = SpentTokens[g]
<1>1. PairsOf(g)' = PairsOf(g)
  BY DEF PairsOf
<1>2. \A p \in PairsOf(g) : refresh'[p] = "live" <=> refresh[p] = "live"
  BY DEF PairsOf
<1>3. {p \in PairsOf(g)' : refresh'[p] = "live"} = {p \in PairsOf(g) : refresh[p] = "live"}
  BY <1>1, <1>2
<1>4. {p \in PairsOf(g)' : refresh'[p] # "live"} = {p \in PairsOf(g) : refresh[p] # "live"}
  BY <1>1, <1>2
<1>5. QED
  BY ZenonT(60), <1>3, <1>4, Mapped

\* A step that changes nothing that the promise sees.
LEMMA Stutters ==
    ASSUME of' = of, \A p \in Pairs : refresh'[p] = "live" <=> refresh[p] = "live"
    PROVE  UNCHANGED Promise!promiseVars
<1>1. UsableTokens' = UsableTokens
  BY DEF UsableTokens, PairsOf
<1>2. SpentTokens' = SpentTokens
  BY <1>1 DEF SpentTokens, PairsOf
<1>3. QED
  BY <1>1, <1>2 DEF Promise!promiseVars

\* A grant that loses what it could be refreshed with is closed.
LEMMA Closes ==
    ASSUME NEW g \in Grants, of' = of,
           \A p \in Pairs : of[p] = g => refresh'[p] # "live",
           \A p \in Pairs : of[p] # g => (refresh'[p] = "live" <=> refresh[p] = "live")
    PROVE  [Promise!PromiseNext]_(Promise!promiseVars)
<1>1. CASE UsableTokens[g] = {}
  <2>1. \A p \in Pairs : refresh'[p] = "live" <=> refresh[p] = "live"
    BY <1>1, Mapped DEF PairsOf
  <2>2. QED
    BY <2>1, Stutters
<1>2. CASE UsableTokens[g] # {}
  <2>1. UsableTokens'[g] = {}
    BY Mapped DEF PairsOf
  <2>2. \A k \in Grants \ {g} : UsableTokens'[k] = UsableTokens[k] /\ SpentTokens'[k] = SpentTokens[k]
    BY MappedToTheSame
  <2>3. UsableTokens' = [UsableTokens EXCEPT ![g] = {}]
    BY <2>1, <2>2 DEF UsableTokens
  <2>4. SpentTokens'[g] = SpentTokens[g] \cup UsableTokens[g]
    BY Mapped DEF PairsOf
  <2>5. SpentTokens' = [SpentTokens EXCEPT ![g] = @ \cup UsableTokens[g]]
    BY <2>2, <2>4 DEF SpentTokens
  <2>6. UsableTokens' # UsableTokens
    BY <1>2, <2>1
  <2>7. Promise!Close(g)
    BY <1>2, <2>3, <2>5 DEF Promise!Close, Promise!Spend
  <2>8. QED
    BY <2>6, <2>7 DEF Promise!PromiseNext
<1>3. QED
  BY <1>1, <1>2

LEMMA RevocationCloses ==
    ASSUME NEW g \in Grants, RevokeGrants({g}), refresh \in [Pairs -> {"none", "live", "rotated", "revoked", "gone"}]
    PROVE  [Promise!PromiseNext]_(Promise!promiseVars)
BY Closes DEF RevokeGrants

\* A first pair is issued for a grant that has none.
LEMMA Issues ==
    ASSUME NEW g \in Grants, NEW q \in Pairs, of \in [Pairs -> Grants \cup {NoPair}],
           of[q] = NoPair, \A p \in Pairs : of[p] # g,
           of'[q] = g, refresh'[q] = "live",
           \A p \in Pairs \ {q} : of'[p] = of[p] /\ refresh'[p] = refresh[p]
    PROVE  Promise!PromiseNext
<1>1. UsableTokens[g] = {} /\ SpentTokens[g] = {}
  BY Mapped DEF PairsOf
<1>2. Promise!Fresh(q)
  BY Mapped, OAuthAssumption DEF Promise!Fresh, PairsOf
<1>3. UsableTokens'[g] = {q} /\ SpentTokens'[g] = {}
  BY Mapped DEF PairsOf
<1>4. ASSUME NEW k \in Grants \ {g}
      PROVE  UsableTokens'[k] = UsableTokens[k] /\ SpentTokens'[k] = SpentTokens[k]
  BY MappedToTheSame, OAuthAssumption
<1>5. UsableTokens' = [UsableTokens EXCEPT ![g] = {q}]
  BY <1>3, <1>4 DEF UsableTokens
<1>6. SpentTokens' = SpentTokens
  BY <1>1, <1>3, <1>4 DEF SpentTokens
<1>7. Promise!Issue(g, q)
  BY <1>1, <1>2, <1>5, <1>6 DEF Promise!Issue
<1>8. UsableTokens' # UsableTokens
  BY <1>1, <1>3
<1>9. QED
  BY <1>7, <1>8 DEF Promise!PromiseNext

\* The one usable token of a grant is exchanged for the next.
LEMMA Rotates ==
    ASSUME NEW g \in Grants, NEW p \in Pairs, NEW q \in Pairs, p # q,
           of \in [Pairs -> Grants \cup {NoPair}], of[q] = NoPair, of[p] = g,
           \A r \in Pairs : of[r] = g /\ refresh[r] = "live" <=> r = p,
           of'[q] = g, refresh'[q] = "live", of'[p] = g, refresh'[p] = "rotated",
           \A r \in Pairs \ {p, q} : of'[r] = of[r] /\ refresh'[r] = refresh[r]
    PROVE  Promise!PromiseNext
<1>1. UsableTokens[g] = {p} /\ UsableTokens'[g] = {q}
  BY Mapped DEF PairsOf
<1>2. Promise!Fresh(q)
  BY Mapped, OAuthAssumption DEF Promise!Fresh, PairsOf
<1>3. SpentTokens'[g] = SpentTokens[g] \cup UsableTokens[g]
  BY Mapped, OAuthAssumption DEF PairsOf
<1>4. ASSUME NEW k \in Grants \ {g}
      PROVE  UsableTokens'[k] = UsableTokens[k] /\ SpentTokens'[k] = SpentTokens[k]
  BY MappedToTheSame, OAuthAssumption
<1>5. UsableTokens' = [UsableTokens EXCEPT ![g] = {q}]
  BY <1>1, <1>4 DEF UsableTokens
<1>6. SpentTokens' = [SpentTokens EXCEPT ![g] = @ \cup UsableTokens[g]]
  BY <1>3, <1>4 DEF SpentTokens
<1>7. Promise!Rotate(g, q)
  BY <1>1, <1>2, <1>5, <1>6 DEF Promise!Rotate, Promise!Spend
<1>8. UsableTokens' # UsableTokens
  BY <1>1
<1>9. QED
  BY <1>7, <1>8 DEF Promise!PromiseNext

LEMMA JudgeImplements ==
    ASSUME GrantInv, NEW h, NEW p \in Pairs, NEW next, Judge(h, p, next)
    PROVE  [Promise!PromiseNext]_(Promise!promiseVars)
<1>1. CASE Stored(p) /\ RevokeGrants({of[p]})
  <2>1. of[p] \in Grants
    BY <1>1, GrantOf DEF Stored, GrantInv
  <2>2. QED
    BY <1>1, <2>1, RevocationCloses DEF GrantInv, OAuthTypeOK
<1>2. CASE UNCHANGED tokenVars
  BY <1>2, Stutters DEF tokenVars
<1>3. QED
  BY <1>1, <1>2 DEF Judge

LEMMA GrantsImplement ==
    GrantInv /\ [OAuthNext]_oauthVars => [Promise!PromiseNext]_(Promise!promiseVars)
<1> SUFFICES ASSUME GrantInv, [OAuthNext]_oauthVars
             PROVE  [Promise!PromiseNext]_(Promise!promiseVars)
  OBVIOUS
<1>1. CASE UNCHANGED <<refresh, of>>
  BY <1>1, Stutters
<1>2. ASSUME NEW p \in Pairs, ClientRevokes(p) \/ Disconnect(p)
      PROVE  [Promise!PromiseNext]_(Promise!promiseVars)
  <2>1. Stored(p) /\ RevokeGrants({of[p]})
    BY <1>2 DEF ClientRevokes, Disconnect, EndGrant
  <2>2. of[p] \in Grants
    BY <2>1, GrantOf DEF Stored, GrantInv
  <2>3. QED
    BY <2>1, <2>2, RevocationCloses DEF GrantInv, OAuthTypeOK
<1>3. ASSUME NEW p \in Pairs, NEW h \in Handlers, LoadRefresh(h, p)
      PROVE  [Promise!PromiseNext]_(Promise!promiseVars)
  BY <1>3, JudgeImplements DEF LoadRefresh
<1>4. ASSUME NEW h \in Handlers, BeginRefresh(h)
      PROVE  [Promise!PromiseNext]_(Promise!promiseVars)
  <2>1. handler[h].pair \in Pairs
    BY <1>4 DEF BeginRefresh, GrantInv, OneRotation
  <2>2. QED
    BY <1>4, <2>1, JudgeImplements DEF BeginRefresh
<1>5. ASSUME NEW h \in Handlers, ExchangeCode(h)
      PROVE  [Promise!PromiseNext]_(Promise!promiseVars)
  <2> DEFINE q == NextPair
  <2>1. q \in Pairs /\ refresh[q] = "none" /\ of[q] = NoPair
    BY <1>5, NextIsFresh DEF ExchangeCode, GrantInv, TokenInv, PairAgrees
  <2>2. PICK g \in Grants : grant[g] = "none" /\ of' = [of EXCEPT ![q] = g]
    BY <1>5 DEF ExchangeCode
  <2>3. refresh' = [refresh EXCEPT ![q] = "live"]
    BY <1>5 DEF ExchangeCode
  <2> HIDE DEF q
  <2>4. \A p \in Pairs : of[p] # g
    BY <2>2, OAuthAssumption DEF GrantInv, TokenInv, PairAgrees
  <2>5. QED
    BY <2>1, <2>2, <2>3, <2>4, Issues DEF GrantInv, OAuthTypeOK
<1>6. ASSUME NEW h \in Handlers, RevokeFamily(h)
      PROVE  [Promise!PromiseNext]_(Promise!promiseVars)
  <2> DEFINE gs == Family(handler[h].code)
  <2>1. RevokeGrants(gs) /\ gs \subseteq Grants
    BY <1>6 DEF RevokeFamily, Family
  <2>2. handler[h].at = "replay" /\ \A g \in gs : bought[g] = handler[h].code
    BY <1>6 DEF RevokeFamily, Family
  <2>3. \A g \in gs : bought[g] # NoCode
    BY <2>2, <2>1, OAuthAssumption, GrantOf DEF Family, PairsOf, Stored, GrantInv, TokenInv, PairAgrees, SoldOnce
  <2>4. \A g, k \in gs : g = k
    BY <2>1, <2>2, <2>3 DEF GrantInv, SoldOnce
  <2> HIDE DEF gs
  <2>5. CASE gs = {}
    <3>1. of' = of /\ \A p \in Pairs : refresh'[p] = refresh[p]
      BY <2>1, <2>5 DEF RevokeGrants
    <3>2. QED
      BY <3>1, Stutters
  <2>6. CASE gs # {}
    <3>1. PICK g \in Grants : gs = {g}
      BY <2>1, <2>4, <2>6
    <3>2. QED
      BY <2>1, <3>1, RevocationCloses DEF GrantInv, OAuthTypeOK
  <2>7. QED
    BY <2>5, <2>6
<1>7. ASSUME NEW h \in Handlers, Rotate(h)
      PROVE  [Promise!PromiseNext]_(Promise!promiseVars)
  <2> DEFINE p == handler[h].pair
             q == NextPair
  <2>1. q \in Pairs /\ refresh[q] = "none" /\ of[q] = NoPair
    BY <1>7, NextIsFresh DEF Rotate, GrantInv, TokenInv, PairAgrees
  <2>2. p \in Pairs /\ refresh[p] = "live"
    BY <1>7 DEF Rotate, GrantInv, OneRotation
  <2>3. of[p] \in Grants
    BY <2>2, GrantOf DEF GrantInv
  <2>4. \A r \in Pairs : of[r] = of[p] /\ refresh[r] = "live" <=> r = p
    BY <2>2 DEF GrantInv, TokenInv, OneLive
  <2>5. refresh' = [refresh EXCEPT ![p] = "rotated", ![q] = "live"] /\ of' = [of EXCEPT ![q] = of[p]]
    BY <1>7 DEF Rotate
  <2> HIDE DEF q
  <2>6. p # q
    BY <2>1, <2>2
  <2>7. /\ of'[q] = of[p] /\ refresh'[q] = "live" /\ of'[p] = of[p] /\ refresh'[p] = "rotated"
        /\ \A r \in Pairs \ {p, q} : of'[r] = of[r] /\ refresh'[r] = refresh[r]
    BY <2>1, <2>2, <2>5, <2>6 DEF GrantInv, OAuthTypeOK
  <2> HIDE DEF p
  <2>8. QED
    BY <2>1, <2>2, <2>3, <2>4, <2>6, <2>7, Rotates DEF GrantInv, OAuthTypeOK
<1>8. ASSUME NEW g \in Grants, PurgeTokens(g)
      PROVE  [Promise!PromiseNext]_(Promise!promiseVars)
  <2>1. of' = of /\ \A p \in Pairs : refresh'[p] = IF of[p] = g THEN "gone" ELSE refresh[p]
    BY <1>8 DEF PurgeTokens, Purged
  <2>2. QED
    BY <2>1, Closes
<1>9. QED
  BY <1>1, <1>2, <1>3, <1>4, <1>5, <1>6, <1>7, <1>8
     DEF OAuthNext, oauthVars, tokenVars, Register, MembershipChanges, PurgeClient, Authorize, Deny,
         CodeExpires, PurgeCode, Consent, LoadCode, RevokeAccess, PairExpires, Approve,
         ExchangeCodeLost, Drop

\* The refresh tokens of a grant form one chain that never starts again: what
\* oauth.py keeps with its guard, its rotations and its purge is what
\* GrantPromise says, for any number of codes, grants, pairs and handlers.
THEOREM GrantPromiseHolds == OAuthSpec => GrantPromiseKept
<1>1. OAuthInit => Promise!PromiseInit
  <2> SUFFICES ASSUME OAuthInit
               PROVE  Promise!PromiseInit
    OBVIOUS
  <2>1. \A g \in Grants : PairsOf(g) = {}
    BY OAuthAssumption DEF OAuthInit, PairsOf
  <2>2. UsableTokens = [g \in Grants |-> {}]
    BY <2>1 DEF UsableTokens
  <2>3. SpentTokens = [g \in Grants |-> {}]
    BY <2>1 DEF SpentTokens
  <2>4. QED
    BY <2>2, <2>3 DEF Promise!PromiseInit
<1>2. QED
  BY <1>1, GrantsImplement, GrantInvariant, PTL DEF OAuthSpec, GrantPromiseKept, Promise!PromiseSpec
=============================================================================
