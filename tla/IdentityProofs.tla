----------------------------- MODULE IdentityProofs -----------------------------
(***************************************************************************)
(* Both halves of the identity service, for every number of users, groups,   *)
(* tokens and overlapping requests.                                          *)
(*   Groups: only the creator owns a group and only the creator makes        *)
(* admins, a group that is gone has no members and stays gone, and all that  *)
(* the rest of the system sees of the group operations is Memberships.       *)
(*   Sessions: a token and the one it was exchanged for are never both       *)
(* usable, and no request begins with a token that is revoked or expired.    *)
(***************************************************************************)
EXTENDS MCIdentity, TLAPS

------------------------------------------------------------------------------
(* Groups and roles.                                                         *)

\* A request under way passed the checks of its operation; the owner it was
\* seen to come from is the creator, for creators never change.
RequestsWereChecked ==
    \A h \in Handlers :
        request[h] # Idle =>
            /\ Allowed(request[h])
            /\ request[h].seen = "owner" =>
                 request[h].actor = created_by[request[h].group]

Inv == TypeOK /\ OnlyCreatorOwns /\ NoMembersWithoutGroup /\ RequestsWereChecked

\* A request under way is of a real group, and never asks for ownership.
LEMMA RequestIsTyped ==
    ASSUME TypeOK, NEW h \in Handlers, request[h] # Idle
    PROVE  /\ request[h] \in Request
           /\ request[h].actor \in Users
           /\ request[h].group \in Groups /\ request[h].target \in Users
           /\ request[h].grant \in {"admin", "member"}
  BY DEF TypeOK, Request, Grantable, Roles

\* What the three statements do to the rows: they delete a group that is there
\* or none, or set one role in a group that is there, or nothing.
LEMMA StatementsAreAbstract ==
    ASSUME Inv, NEW h \in Handlers,
           DeleteGroup(h) \/ AddMember(h) \/ UpdateMemberRole(h)
    PROVE  /\ created_by' = created_by
           /\ request' = [request EXCEPT ![h] = Idle]
           /\ request[h] # Idle
           /\ \/ UNCHANGED <<live, role>>
              \/ \E g \in live : Abstract!Delete(g)
              \/ /\ \/ request[h].op = "add" \/ request[h].op = "update"
                 /\ request[h].group \in live
                 /\ Abstract!Grant(request[h].target, request[h].group, request[h].grant)
  <1> DEFINE r == request[h]
             g == r.group
  <1>1. r # Idle
    BY DEF DeleteGroup, AddMember, UpdateMemberRole, Idle
  <1>2. g \in Groups /\ r.target \in Users
    BY <1>1, RequestIsTyped DEF Inv
  <1>3. CASE DeleteGroup(h)
    <2>1. CASE g \in live
      <3>1. Abstract!Delete(g)
        BY <1>3 DEF DeleteGroup, Abstract!Delete, None, Abstract!None
      <3> QED
        BY <3>1, <2>1, <1>1, <1>3 DEF DeleteGroup, Answer
    <2>2. CASE g \notin live
      <3>1. live' = live
        BY <2>2, <1>3 DEF DeleteGroup
      <3>2. role[g] = [u \in Users |-> None]
        BY <2>2, <1>2 DEF Inv, TypeOK, NoMembersWithoutGroup
      <3>3. role' = role
        BY <3>2, <1>2, <1>3 DEF DeleteGroup, Inv, TypeOK
      <3> QED
        BY <3>1, <3>3, <1>1, <1>3 DEF DeleteGroup, Answer
    <2> QED
      BY <2>1, <2>2
  <1>4. CASE AddMember(h)
    BY <1>1, <1>4 DEF AddMember, Answer, Abstract!Grant
  <1>5. CASE UpdateMemberRole(h)
    <2>1. role[g][r.target] # None => g \in live
      BY <1>2 DEF Inv, NoMembersWithoutGroup
    <2> QED
      BY <2>1, <1>1, <1>5 DEF UpdateMemberRole, Answer, Abstract!Grant
  <1> QED
    BY <1>3, <1>4, <1>5

\* Every step of a handler or a client is one of Memberships, or does not show.
LEMMA StepIsAbstract ==
    ASSUME Inv, [Next]_vars
    PROVE  Abstract!Next \/ UNCHANGED Abstract!vars
  <1>1. ASSUME NEW u \in Users, NEW g \in Groups, CreateGroup(u, g)
        PROVE  Abstract!Next
    BY <1>1 DEF CreateGroup, Abstract!Next, Abstract!Create
  <1>2. ASSUME NEW h \in Handlers, NEW r \in Request, Check(h, r)
        PROVE  UNCHANGED Abstract!vars
    BY <1>2 DEF Check, Abstract!vars
  <1>3. ASSUME NEW h \in Handlers,
               DeleteGroup(h) \/ AddMember(h) \/ UpdateMemberRole(h)
        PROVE  Abstract!Next \/ UNCHANGED Abstract!vars
    <2>1. /\ request[h].group \in Groups /\ request[h].target \in Users
          /\ request[h].grant \in {"admin", "member"}
      BY <1>3, StatementsAreAbstract, RequestIsTyped DEF Inv
    <2> QED
      BY <1>3, <2>1, StatementsAreAbstract DEF Abstract!Next, Abstract!vars
  <1>4. ASSUME NEW h \in Handlers, StatementFails(h)
        PROVE  UNCHANGED Abstract!vars
    BY <1>4 DEF StatementFails, Abstract!vars
  <1>5. CASE UNCHANGED vars
    BY <1>5 DEF vars, Abstract!vars
  <1> QED
    BY <1>1, <1>2, <1>3, <1>4, <1>5 DEF Next

\* At most one row's role changes at a time, and only as the abstract step says;
\* so the rows keep their types, their owners and their groups.
LEMMA RowsStayRight ==
    ASSUME Inv, [Next]_vars
    PROVE  /\ created_by' \in [Groups -> Users \cup {NoUser}]
           /\ live' \in SUBSET Groups
           /\ role' \in [Groups -> [Users -> Roles \cup {None}]]
           /\ OnlyCreatorOwns' /\ NoMembersWithoutGroup'
           /\ \A g \in Groups : created_by[g] # NoUser => created_by'[g] = created_by[g]
  <1> USE NoUserAssumption DEF Inv, TypeOK, OnlyCreatorOwns, NoMembersWithoutGroup,
          Roles, None
  <1>1. ASSUME NEW u \in Users, NEW g \in Groups, Abstract!Create(u, g)
        PROVE  /\ created_by' \in [Groups -> Users \cup {NoUser}]
               /\ live' \in SUBSET Groups
               /\ role' \in [Groups -> [Users -> Roles \cup {None}]]
               /\ OnlyCreatorOwns' /\ NoMembersWithoutGroup'
               /\ \A k \in Groups : created_by[k] # NoUser => created_by'[k] = created_by[k]
    BY <1>1 DEF Abstract!Create
  <1>2. ASSUME NEW u \in Users, NEW g \in Groups, NEW rl \in {"admin", "member"},
               Abstract!Grant(u, g, rl)
        PROVE  /\ created_by' \in [Groups -> Users \cup {NoUser}]
               /\ live' \in SUBSET Groups
               /\ role' \in [Groups -> [Users -> Roles \cup {None}]]
               /\ OnlyCreatorOwns' /\ NoMembersWithoutGroup'
               /\ \A k \in Groups : created_by[k] # NoUser => created_by'[k] = created_by[k]
    BY <1>2 DEF Abstract!Grant
  <1>3. ASSUME NEW g \in live, Abstract!Delete(g)
        PROVE  /\ created_by' \in [Groups -> Users \cup {NoUser}]
               /\ live' \in SUBSET Groups
               /\ role' \in [Groups -> [Users -> Roles \cup {None}]]
               /\ OnlyCreatorOwns' /\ NoMembersWithoutGroup'
               /\ \A k \in Groups : created_by[k] # NoUser => created_by'[k] = created_by[k]
    BY <1>3 DEF Abstract!Delete, Abstract!None
  <1>4. CASE UNCHANGED Abstract!vars
    BY <1>4 DEF Abstract!vars
  <1> QED
    BY <1>1, <1>2, <1>3, <1>4, StepIsAbstract DEF Abstract!Next

\* A request enters the table with its checks passed, and leaves it whole.
LEMMA RequestsStayRight ==
    ASSUME Inv, [Next]_vars
    PROVE  /\ request' \in [Handlers -> {Idle} \cup Request]
           /\ RequestsWereChecked'
  <1>1. ASSUME NEW h \in Handlers, NEW r \in Request, Check(h, r)
        PROVE  /\ request' \in [Handlers -> {Idle} \cup Request]
               /\ RequestsWereChecked'
    <2>1. request' \in [Handlers -> {Idle} \cup Request]
      BY <1>1 DEF Check, Inv, TypeOK
    <2>2. r.group \in Groups /\ r.actor \in Users
      BY DEF Request
    <2>3. r.seen = "owner" => r.actor = created_by[r.group]
      BY <1>1, <2>2 DEF Check, Inv, OnlyCreatorOwns
    <2> QED
      BY <1>1, <2>1, <2>3 DEF Check, Inv, TypeOK, RequestsWereChecked, Allowed
  <1>2. ASSUME NEW h \in Handlers, request' = [request EXCEPT ![h] = Idle],
               UNCHANGED created_by
        PROVE  /\ request' \in [Handlers -> {Idle} \cup Request]
               /\ RequestsWereChecked'
    BY <1>2 DEF Inv, TypeOK, RequestsWereChecked, Allowed
  <1>3. ASSUME NEW u \in Users, NEW g \in Groups, CreateGroup(u, g)
        PROVE  /\ request' \in [Handlers -> {Idle} \cup Request]
               /\ RequestsWereChecked'
    <2>1. request' = request
      BY <1>3 DEF CreateGroup
    <2>2. ASSUME NEW h \in Handlers, request[h] # Idle, request[h].seen = "owner"
          PROVE  request[h].actor = created_by'[request[h].group]
      <3>1. request[h].actor \in Users /\ request[h].group \in Groups
        BY <2>2, RequestIsTyped DEF Inv
      <3>2. request[h].actor = created_by[request[h].group]
        BY <2>2 DEF Inv, RequestsWereChecked
      <3> QED
        BY <1>3, <3>1, <3>2, NoUserAssumption DEF CreateGroup, Inv, TypeOK
    <2> QED
      BY <2>1, <2>2 DEF Inv, TypeOK, RequestsWereChecked, Allowed
  <1>4. CASE UNCHANGED vars
    BY <1>4 DEF vars, Inv, TypeOK, RequestsWereChecked, Allowed
  <1>5. ASSUME NEW h \in Handlers, StatementFails(h)
        PROVE  request' = [request EXCEPT ![h] = Idle] /\ UNCHANGED created_by
    BY <1>5 DEF StatementFails, Answer
  <1> QED
    BY <1>1, <1>2, <1>3, <1>4, <1>5, StatementsAreAbstract DEF Next

LEMMA InitInv == Init => Inv
  BY NoUserAssumption DEF Init, Inv, TypeOK, OnlyCreatorOwns, NoMembersWithoutGroup,
     RequestsWereChecked, Idle, Roles, None

LEMMA NextInv == Inv /\ [Next]_vars => Inv'
  <1> SUFFICES ASSUME Inv, [Next]_vars PROVE Inv'
    OBVIOUS
  <1> QED
    BY RowsStayRight, RequestsStayRight DEF Inv, TypeOK

LEMMA Invariance == Spec => []Inv
  BY InitInv, NextInv, PTL DEF Spec

\* The tables and the requests under way keep their types.
THEOREM TypeCorrect == Spec => []TypeOK
  BY Invariance, PTL DEF Inv

\* Overlapping requests, however many, never hand ownership on.
THEOREM Ownership == Spec => []OnlyCreatorOwns
  BY Invariance, PTL DEF Inv

\* A late add or role change leaves nobody in a group that was deleted.
THEOREM NoOrphans == Spec => []NoMembersWithoutGroup
  BY Invariance, PTL DEF Inv

\* Seen from outside, the three statements of overlapping requests are the
\* atomic operations of Memberships.
THEOREM Refinement == Spec => ImplementsMemberships
  <1>1. Init => Abstract!Init
    BY DEF Init, Abstract!Init, None, Abstract!None
  <1>2. Inv /\ [Next]_vars => [Abstract!Next]_Abstract!vars
    BY StepIsAbstract
  <1> QED
    BY <1>1, <1>2, Invariance, PTL DEF Spec, ImplementsMemberships, Abstract!Spec

\* Only a request whose actor is the group's creator makes an admin.
THEOREM PromotionByCreator == Spec => AdminsComeFromCreator
  <1> DEFINE Step ==
        \A g \in Groups, u \in Users :
          (role[g][u] # "admin" /\ role'[g][u] = "admin") =>
            \E h \in Handlers :
                /\ request[h] # Idle /\ request'[h] = Idle
                /\ request[h].group = g /\ request[h].actor = created_by[g]
  <1>1. Inv /\ [Next]_vars => [Step]_vars
    <2> SUFFICES ASSUME Inv, Next, NEW g \in Groups, NEW u \in Users,
                        role[g][u] # "admin", role'[g][u] = "admin"
                 PROVE  \E h \in Handlers :
                          /\ request[h] # Idle /\ request'[h] = Idle
                          /\ request[h].group = g /\ request[h].actor = created_by[g]
      OBVIOUS
    <2>1. ASSUME NEW v \in Users, NEW k \in Groups, CreateGroup(v, k)
          PROVE  FALSE
      BY <2>1 DEF CreateGroup, Inv, TypeOK
    <2>2. ASSUME NEW h \in Handlers,
                 \/ \E r \in Request : Check(h, r)
                 \/ StatementFails(h)
          PROVE  FALSE
      BY <2>2 DEF Check, StatementFails
    <2>3. ASSUME NEW h \in Handlers,
                 DeleteGroup(h) \/ AddMember(h) \/ UpdateMemberRole(h)
          PROVE  /\ request[h] # Idle /\ request'[h] = Idle
                 /\ request[h].group = g /\ request[h].actor = created_by[g]
      <3>1. request[h] # Idle /\ request' = [request EXCEPT ![h] = Idle]
        BY <2>3, StatementsAreAbstract
      <3>2. ~ \E k \in live : Abstract!Delete(k)
        BY DEF Abstract!Delete, Abstract!None, Inv, TypeOK
      <3>3. /\ request[h].op = "add" \/ request[h].op = "update"
            /\ Abstract!Grant(request[h].target, request[h].group, request[h].grant)
        BY <2>3, <3>2, StatementsAreAbstract
      <3>4. request[h].group = g /\ request[h].grant = "admin"
        BY <3>1, <3>3, RequestIsTyped DEF Abstract!Grant, Inv, TypeOK
      <3>5. request[h].seen = "owner"
        BY <3>1, <3>3, <3>4 DEF Inv, RequestsWereChecked, Allowed, canManageRoles
      <3> QED
        BY <3>1, <3>4, <3>5 DEF Inv, TypeOK, RequestsWereChecked
    <2> QED
      BY <2>1, <2>2, <2>3 DEF Next
  <1> QED
    BY <1>1, Invariance, PTL DEF Spec, AdminsComeFromCreator

\* No late request revives a deleted group or any of its members.
THEOREM NoRevival == Spec => GoneStaysGone
  <1> DEFINE Step ==
        \A g \in Groups :
          (created_by[g] # NoUser /\ g \notin live) =>
            g \notin live' /\ role'[g] = role[g]
  <1>1. Inv /\ [Next]_vars => [Step]_vars
    <2> SUFFICES ASSUME Inv, [Next]_vars, NEW g \in Groups,
                        created_by[g] # NoUser, g \notin live
                 PROVE  g \notin live' /\ role'[g] = role[g]
      OBVIOUS
    <2>1. ASSUME NEW u \in Users, NEW k \in Groups, Abstract!Create(u, k)
          PROVE  g \notin live' /\ role'[g] = role[g]
      BY <2>1 DEF Abstract!Create, Inv, TypeOK
    <2>2. ASSUME NEW u \in Users, NEW k \in Groups, NEW rl \in {"admin", "member"},
                 Abstract!Grant(u, k, rl)
          PROVE  g \notin live' /\ role'[g] = role[g]
      BY <2>2 DEF Abstract!Grant, Inv, TypeOK
    <2>3. ASSUME NEW k \in live, Abstract!Delete(k)
          PROVE  g \notin live' /\ role'[g] = role[g]
      BY <2>3 DEF Abstract!Delete, Inv, TypeOK
    <2>4. CASE UNCHANGED Abstract!vars
      BY <2>4 DEF Abstract!vars
    <2> QED
      BY <2>1, <2>2, <2>3, <2>4, StepIsAbstract DEF Abstract!Next
  <1> QED
    BY <1>1, Invariance, PTL DEF Spec, GoneStaysGone

------------------------------------------------------------------------------
(* Accounts and refresh tokens.                                              *)

\* A request goes on with a stored token; one that is about to be answered with
\* a new token has revoked the old one.
CallOK(h) ==
    /\ call[h].pc = "revoke" => S!Stored(call[h].token)
    /\ call[h].pc = "issue" /\ call[h].token # NoToken =>
         /\ tok[call[h].token].revoked = TRUE
         /\ tok[call[h].token].user = call[h].user

\* Clients have tokens that are stored.
CallsOK ==
    /\ \A t \in handed : S!Stored(t)
    /\ \A h \in Handlers : CallOK(h)

SInv == S!TypeOK /\ CallsOK /\ S!PredecessorIsRevoked

\* Rows are only marked.
RowsOnlyAge ==
    /\ tok' \in [Tokens -> S!Token]
    /\ \A t \in Tokens :
         /\ tok'[t].user = tok[t].user /\ tok'[t].from = tok[t].from
         /\ tok[t].revoked = TRUE => tok'[t].revoked = TRUE

LEMMA SessionsInit == ASSUME S!NoneAssumption, S!Init PROVE SInv
  BY DEF S!NoneAssumption, S!Init, SInv, S!TypeOK, CallsOK, CallOK,
     S!PredecessorIsRevoked, S!Stored,
       S!NotStored, S!Token, S!Idle

-----------------------------------------------------------------------------
\* The kinds of a request under way.
LEMMA CallTyped ==
    ASSUME S!TypeOK, NEW h \in Handlers
    PROVE  /\ call[h] = S!Idle \/ call[h] \in S!Call
           /\ call[h].pc = "revoke" =>
                call[h].token \in Tokens /\ call[h].op \in {"refresh", "logout"}
           /\ call[h].pc = "issue" =>
                call[h].token \in Tokens \cup {NoToken} /\ call[h].user \in Users
           /\ call[h] # S!Idle <=> call[h].pc \in {"revoke", "issue"}
  BY DEF S!TypeOK, S!Call, S!Idle

LEMMA MarkingAges ==
    ASSUME S!TypeOK, NEW t \in Tokens,
           \/ tok' = [tok EXCEPT ![t].revoked = TRUE]
           \/ tok' = [tok EXCEPT ![t].expired = TRUE]
    PROVE  RowsOnlyAge
  <1>1. tok[t] \in S!Token
    BY DEF S!TypeOK
  <1>2. CASE tok' = [tok EXCEPT ![t].revoked = TRUE]
    BY <1>1, <1>2 DEF S!TypeOK, S!Token, RowsOnlyAge
  <1>3. CASE tok' = [tok EXCEPT ![t].expired = TRUE]
    <2> DEFINE row == [tok[t] EXCEPT !.expired = TRUE]
    <2>1. row \in S!Token /\ row.user = tok[t].user /\ row.from = tok[t].from
          /\ row.revoked = tok[t].revoked
      BY <1>1 DEF S!Token
    <2>2. tok' = [tok EXCEPT ![t] = row]
      BY <1>3 DEF S!TypeOK
    <2> HIDE DEF row
    <2> QED BY <2>1, <2>2 DEF S!TypeOK, RowsOnlyAge
  <1> QED BY <1>2, <1>3

\* While rows only age, whatever a request relied on stays.
LEMMA AgingKeeps ==
    ASSUME SInv, RowsOnlyAge
    PROVE  /\ \A s \in handed : S!Stored(s)'
           /\ \A k \in Handlers : call'[k] = call[k] => CallOK(k)'
           /\ S!PredecessorIsRevoked'
  <1>1. \A s \in Tokens : S!Stored(s)' <=> S!Stored(s)
    BY DEF RowsOnlyAge, S!Stored
  <1>2. \A s \in handed : S!Stored(s)'
    BY <1>1 DEF SInv, S!TypeOK, CallsOK
  <1>3. ASSUME NEW k \in Handlers, call'[k] = call[k] PROVE CallOK(k)'
    <2>1. CallOK(k)
      BY DEF SInv, CallsOK
    <2>2. CASE call[k].pc = "revoke"
      BY <1>1, <1>3, <2>1, <2>2, CallTyped DEF SInv, CallOK
    <2>3. CASE call[k].pc = "issue"
      BY <1>3, <2>1, <2>3, CallTyped DEF SInv, CallOK, RowsOnlyAge
    <2>4. CASE call[k].pc \notin {"revoke", "issue"}
      BY <1>3, <2>4 DEF CallOK
    <2> QED BY <2>2, <2>3, <2>4
  <1>4. S!PredecessorIsRevoked'
    BY <1>1 DEF SInv, S!TypeOK, S!Token, S!PredecessorIsRevoked, RowsOnlyAge
  <1> QED BY <1>2, <1>3, <1>4

LEMMA RegisterInv ==
    ASSUME S!NoneAssumption, SInv, NEW h \in Handlers, NEW u \in Users,
           S!Register(h, u) \/ S!Login(h, u)
    PROVE  SInv'
  <1>1. S!TypeOK'
    BY DEF SInv, S!TypeOK, S!Call, S!Register, S!Login, S!Goto
  <1>2. CallsOK'
    BY DEF SInv, S!TypeOK, CallsOK, CallOK, S!Stored, S!Register, S!Login, S!Goto
  <1>3. S!PredecessorIsRevoked'
    BY DEF SInv, S!PredecessorIsRevoked, S!Stored, S!Register, S!Login
  <1> QED BY <1>1, <1>2, <1>3 DEF SInv

LEMMA FindTokenInv ==
    ASSUME SInv, NEW h \in Handlers, NEW t \in Tokens,
           NEW op \in {"refresh", "logout"}, S!FindToken(h, op, t)
    PROVE  SInv'
  <1>1. S!TypeOK'
    BY DEF SInv, S!TypeOK, S!Call, S!FindToken, S!Goto
  <1>2. CallsOK'
    BY DEF SInv, S!TypeOK, CallsOK, CallOK, S!Stored, S!Usable, S!FindToken, S!Goto
  <1>3. S!PredecessorIsRevoked'
    BY DEF SInv, S!PredecessorIsRevoked, S!Stored, S!FindToken
  <1> QED BY <1>1, <1>2, <1>3 DEF SInv

LEMMA RevokeTokenInv ==
    ASSUME SInv, NEW h \in Handlers, S!RevokeToken(h)
    PROVE  SInv'
  <1> DEFINE t == call[h].token
  <1>1. t \in Tokens /\ S!Stored(t) /\ tok[t] \in S!Token
    BY CallTyped DEF SInv, S!TypeOK, CallsOK, CallOK, S!RevokeToken
  <1>2. tok[t].user \in Users
    BY <1>1 DEF S!Token, S!Stored
  <1>3. tok' = [tok EXCEPT ![t].revoked = TRUE]
    BY DEF S!RevokeToken
  <1>4. RowsOnlyAge
    BY <1>1, <1>3, MarkingAges DEF SInv
  <1>5. S!TypeOK'
    BY <1>1, <1>2, <1>4 DEF SInv, S!TypeOK, S!Call, RowsOnlyAge, S!RevokeToken, S!Goto
  <1>6. CallsOK'
    <2>1. /\ call'[h].pc # "revoke"
          /\ call'[h].pc = "issue" => call'[h].token = t /\ call'[h].user = tok[t].user
      BY DEF SInv, S!TypeOK, S!RevokeToken, S!Goto, S!Idle
    <2>2. tok'[t].revoked = TRUE /\ tok'[t].user = tok[t].user
      BY <1>1, <1>3, <1>4 DEF SInv, S!TypeOK, S!Token, RowsOnlyAge
    <2>3. CallOK(h)'
      BY <2>1, <2>2 DEF CallOK
    <2>4. \A k \in Handlers : k # h => call'[k] = call[k]
      BY DEF SInv, S!TypeOK, S!RevokeToken, S!Goto
    <2> QED BY <1>4, <2>3, <2>4, AgingKeeps DEF CallsOK, S!RevokeToken
  <1> QED BY <1>4, <1>5, <1>6, AgingKeeps DEF SInv

\* The new row says where it comes from; that one was revoked before.
LEMMA IssueSessionInv ==
    ASSUME S!NoneAssumption, SInv, NEW h \in Handlers, NEW t \in Tokens,
           NEW answered \in BOOLEAN, S!IssueSession(h, t, answered)
    PROVE  SInv'
  <1> DEFINE f == call[h].token
             row == [user |-> call[h].user, revoked |-> FALSE, expired |-> FALSE, from |-> f]
  <1>1. call[h].user \in Users /\ f \in Tokens \cup {NoToken}
    BY CallTyped DEF SInv, S!IssueSession
  <1>2. tok' = [tok EXCEPT ![t] = row] /\ row \in S!Token
    BY <1>1 DEF S!IssueSession, S!Token
  <1>3. f # NoToken => /\ f # t /\ tok[f].revoked /\ tok[f].user = call[h].user
    BY <1>1 DEF S!NoneAssumption, SInv, CallsOK, CallOK, S!Stored, S!IssueSession
  <1>4. S!TypeOK'
    BY <1>2 DEF SInv, S!TypeOK, S!IssueSession, S!Goto
  <1>5. CallsOK'
    <2>1. \A s \in Tokens : S!Stored(s) => s # t /\ tok'[s] = tok[s]
      BY <1>2 DEF SInv, S!TypeOK, S!IssueSession
    <2>2. S!Stored(t)'
      BY <1>1, <1>2 DEF S!NoneAssumption, SInv, S!TypeOK, S!Stored
    <2>3. \A s \in handed' : S!Stored(s)'
      BY <2>1, <2>2 DEF SInv, S!TypeOK, CallsOK, S!Stored, S!IssueSession
    <2>4. ASSUME NEW k \in Handlers PROVE CallOK(k)'
      <3>1. CASE k = h
        BY <3>1 DEF SInv, S!TypeOK, S!IssueSession, S!Goto, S!Idle, CallOK
      <3>2. CASE k # h
        <4>1. call'[k] = call[k]
          BY <3>2 DEF SInv, S!TypeOK, S!IssueSession, S!Goto
        <4>2. CallOK(k)
          BY DEF SInv, CallsOK
        <4>3. CASE call[k].pc = "revoke"
          <5>1. call[k].token \in Tokens /\ S!Stored(call[k].token)
            BY <4>2, <4>3, CallTyped DEF SInv, CallOK
          <5> QED BY <2>1, <4>1, <4>3, <5>1 DEF CallOK, S!Stored
        <4>4. CASE call[k].pc = "issue" /\ call[k].token # NoToken
          <5>1. call[k].token \in Tokens /\ call[k].user \in Users
            BY <4>4, CallTyped DEF SInv
          <5>2. S!Stored(call[k].token)
            BY <4>2, <4>4, <5>1 DEF S!NoneAssumption, CallOK, S!Stored
          <5> QED BY <2>1, <4>1, <4>2, <4>4, <5>1, <5>2 DEF CallOK
        <4>5. CASE /\ call[k].pc # "revoke"
                   /\ ~ (call[k].pc = "issue" /\ call[k].token # NoToken)
          BY <4>1, <4>5 DEF CallOK
        <4> QED BY <4>3, <4>4, <4>5
      <3> QED BY <3>1, <3>2
    <2> QED BY <2>3, <2>4 DEF CallsOK
  <1>6. S!PredecessorIsRevoked'
    <2> SUFFICES ASSUME NEW s \in Tokens, S!Stored(s)', tok'[s].from # NoToken
                 PROVE  /\ tok'[tok'[s].from].revoked
                        /\ tok'[tok'[s].from].user = tok'[s].user
      BY DEF S!PredecessorIsRevoked
    <2>1. CASE s = t
      BY <1>1, <1>2, <1>3, <2>1 DEF SInv, S!TypeOK
    <2>2. CASE s # t
      <3>1. tok'[s] = tok[s] /\ tok[s] \in S!Token
        BY <1>2, <2>2 DEF SInv, S!TypeOK
      <3>2. /\ tok[s].from \in Tokens
            /\ tok[tok[s].from].revoked
            /\ tok[tok[s].from].user = tok[s].user
            /\ tok[s].user # NoUser
        BY <3>1 DEF SInv, S!PredecessorIsRevoked, S!Stored, S!Token
      <3>3. tok[s].from # t
        BY <3>2 DEF S!IssueSession, S!Stored
      <3> QED BY <1>2, <3>1, <3>2, <3>3 DEF SInv, S!TypeOK
    <2> QED BY <2>1, <2>2
  <1> QED BY <1>4, <1>5, <1>6 DEF SInv

\* A failure, or the time, marks one stored row at most.
LEMMA FailureInv ==
    ASSUME SInv,
           \/ \E h \in Handlers, tookEffect \in BOOLEAN : S!CallFails(h, tookEffect)
           \/ \E t \in Tokens : S!Expire(t)
    PROVE  SInv'
  <1>1. RowsOnlyAge
    <2>1. CASE tok' = tok
      BY <2>1 DEF SInv, S!TypeOK, RowsOnlyAge
    <2>2. ASSUME NEW h \in Handlers, call[h].pc = "revoke",
                 tok' = [tok EXCEPT ![call[h].token].revoked = TRUE]
          PROVE  RowsOnlyAge
      BY <2>2, MarkingAges, CallTyped DEF SInv
    <2>3. ASSUME NEW t \in Tokens, S!Expire(t) PROVE RowsOnlyAge
      BY <2>3, MarkingAges DEF SInv, S!Expire
    <2> QED BY <2>1, <2>2, <2>3 DEF S!CallFails
  <1>2. /\ users' = users /\ handed' = handed
        /\ call' \in [Handlers -> {S!Idle} \cup S!Call]
        /\ \A k \in Handlers : call'[k] = call[k] \/ call'[k] = S!Idle
    BY DEF SInv, S!TypeOK, S!CallFails, S!Expire, S!Goto
  <1>3. S!TypeOK'
    BY <1>1, <1>2 DEF SInv, S!TypeOK, RowsOnlyAge
  <1>4. \A k \in Handlers : call'[k] = S!Idle => CallOK(k)'
    BY DEF CallOK, S!Idle
  <1>5. CallsOK'
    BY <1>1, <1>2, <1>4, AgingKeeps DEF CallsOK
  <1> QED BY <1>1, <1>3, <1>5, AgingKeeps DEF SInv

LEMMA SessionsStep == ASSUME S!NoneAssumption, SInv, [S!Next]_S!vars PROVE SInv'
  <1>1. CASE UNCHANGED S!vars
    BY <1>1 DEF SInv, S!TypeOK, CallsOK, CallOK, S!PredecessorIsRevoked, S!Stored, S!vars
  <1> QED BY <1>1, RegisterInv, FindTokenInv, RevokeTokenInv, IssueSessionInv, FailureInv
        DEF S!Next

LEMMA SessionsInvariance == S!Spec => []SInv
  <1>1. S!Init => SInv BY SessionsAssumption, SessionsInit
  <1>2. SInv /\ [S!Next]_S!vars => SInv' BY SessionsAssumption, SessionsStep
  <1> QED BY <1>1, <1>2, PTL DEF S!Spec

-----------------------------------------------------------------------------
\* Rows of users and tokens, and requests under way, keep their types.
THEOREM SessionTypesCorrect == S!Spec => []S!TypeOK
  <1>1. SInv => S!TypeOK BY DEF SInv
  <1> QED BY SessionsInvariance, <1>1, PTL

\* However refreshes, logouts and failures overlap, a session never has a
\* token and its predecessor both usable.
THEOREM ExchangedIsRevoked ==
    S!Spec => []PredecessorIsRevoked
  <1>1. SInv => PredecessorIsRevoked BY DEF SInv, PredecessorIsRevoked
  <1> QED BY SessionsInvariance, <1>1, PTL

------------------------------------------------------------------------------
(* The two halves together.                                                  *)

\* While one half of the identity service moves, the other stands still: what
\* is proved of each holds of the specification that TLC runs.
LEMMA HalvesOfIdentity == MCSpec => Spec /\ S!Spec
<1>1. MCInit => Init /\ S!Init
  BY DEF MCInit
<1>2. [MCNext]_<<part, vars, sessionVars>> => [Next]_vars
  BY DEF MCNext
<1>3. [MCNext]_<<part, vars, sessionVars>> => [S!Next]_(S!vars)
  BY DEF MCNext, sessionVars, S!vars
<1> QED  BY <1>1, <1>2, <1>3, PTL DEF MCSpec, Spec, S!Spec
==============================================================================
