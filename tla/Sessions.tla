------------------------------- MODULE Sessions -------------------------------
(***************************************************************************)
(* Accounts and refresh tokens: Register, Login, Refresh and Logout of       *)
(* identity.Service over the tables users and refresh_tokens.  Refresh and   *)
(* Logout find the token in one statement and revoke it in another, and      *)
(* Refresh stores its successor in a third; nothing ties them together.      *)
(* A token is stored as a hash of a value only its client knows, so a client *)
(* presents only tokens that were handed out in an answer.                   *)
(***************************************************************************)
EXTENDS Naturals

CONSTANTS Users, Tokens, Handlers, NoUser, NoToken

NoneAssumption == NoUser \notin Users /\ NoToken \notin Tokens

VARIABLES
    users,     \* rows of table users
    tok,       \* rows of table refresh_tokens, with the token each came from
    handed,    \* tokens a client has received
    call       \* what each handler is doing

vars == <<users, tok, handed, call>>

Token == [user : Users \cup {NoUser}, revoked : BOOLEAN, expired : BOOLEAN,
          from : Tokens \cup {NoToken}]

NotStored == [user |-> NoUser, revoked |-> FALSE, expired |-> FALSE, from |-> NoToken]

Idle == [pc |-> "idle"]

\* pc "revoke": the token was found; "issue": the answer needs a new token.
Call == [pc : {"revoke"}, op : {"refresh", "logout"}, token : Tokens]
    \cup [pc : {"issue"}, user : Users, token : Tokens \cup {NoToken}]

TypeOK ==
    /\ users \in SUBSET Users
    /\ tok \in [Tokens -> Token]
    /\ handed \in SUBSET Tokens
    /\ call \in [Handlers -> {Idle} \cup Call]

Init ==
    /\ users = {}
    /\ tok = [t \in Tokens |-> NotStored]
    /\ handed = {}
    /\ call = [h \in Handlers |-> Idle]

Stored(t) == tok[t].user # NoUser

\* The row FindRefreshTokenByHash returns.
Usable(t) == Stored(t) /\ ~ tok[t].revoked /\ ~ tok[t].expired

Goto(h, c) == call' = [call EXCEPT ![h] = c]

\* CreateUser; the username is unique.
Register(h, u) ==
    /\ call[h] = Idle
    /\ u \notin users
    /\ users' = users \cup {u}
    /\ Goto(h, [pc |-> "issue", user |-> u, token |-> NoToken])
    /\ UNCHANGED <<tok, handed>>

\* The user is found and the password matches.
Login(h, u) ==
    /\ call[h] = Idle
    /\ u \in users
    /\ Goto(h, [pc |-> "issue", user |-> u, token |-> NoToken])
    /\ UNCHANGED <<users, tok, handed>>

\* Refresh and Logout find the token (otherwise 401, or 204 for a logout).
FindToken(h, op, t) ==
    /\ call[h] = Idle
    /\ t \in handed
    /\ Usable(t)
    /\ Goto(h, [pc |-> "revoke", op |-> op, token |-> t])
    /\ UNCHANGED <<users, tok, handed>>

\* Mutant: only a logout revokes.
AfterRevoke(h) ==
    Goto(h, IF call[h].op = "logout" THEN Idle
            ELSE [pc |-> "issue", user |-> tok[call[h].token].user,
                  token |-> call[h].token])
RevokeToken_logoutOnly(h) ==
    /\ call[h].pc = "revoke"
    /\ tok' = [tok EXCEPT ![call[h].token].revoked = @ \/ call[h].op = "logout"]
    /\ AfterRevoke(h)
    /\ UNCHANGED <<users, handed>>

\* RevokeRefreshToken, whatever happened to the token since it was found.  A
\* refresh goes on to FindUserByID, which always finds: no user is removed.
RevokeToken(h) ==
    /\ call[h].pc = "revoke"
    /\ tok' = [tok EXCEPT ![call[h].token].revoked = TRUE]
    /\ Goto(h, IF call[h].op = "logout" THEN Idle
               ELSE [pc |-> "issue", user |-> tok[call[h].token].user,
                     token |-> call[h].token])
    /\ UNCHANGED <<users, handed>>

\* issueSession stores a new token; the answer may not reach the client.
IssueSession(h, t, answered) ==
    /\ call[h].pc = "issue"
    /\ ~ Stored(t)
    /\ tok' = [tok EXCEPT ![t] = [user |-> call[h].user, revoked |-> FALSE,
                                  expired |-> FALSE, from |-> call[h].token]]
    /\ handed' = IF answered THEN handed \cup {t} ELSE handed
    /\ Goto(h, Idle)
    /\ UNCHANGED users

\* A statement fails, or reports failure after it took effect.
CallFails(h, tookEffect) ==
    /\ call[h] # Idle
    /\ IF tookEffect /\ call[h].pc = "revoke"
       THEN tok' = [tok EXCEPT ![call[h].token].revoked = TRUE]
       ELSE UNCHANGED tok
    /\ Goto(h, Idle)
    /\ UNCHANGED <<users, handed>>

\* expires_at passes.
Expire(t) ==
    /\ Stored(t)
    /\ ~ tok[t].expired
    /\ tok' = [tok EXCEPT ![t].expired = TRUE]
    /\ UNCHANGED <<users, handed, call>>

Next ==
    \/ \E h \in Handlers :
         \/ \E u \in Users : Register(h, u) \/ Login(h, u)
         \/ \E t \in Tokens, op \in {"refresh", "logout"} : FindToken(h, op, t)
         \/ RevokeToken(h)
         \/ \E t \in Tokens, answered \in BOOLEAN : IssueSession(h, t, answered)
         \/ \E tookEffect \in BOOLEAN : CallFails(h, tookEffect)
    \/ \E t \in Tokens : Expire(t)

Spec == Init /\ [][Next]_vars

------------------------------------------------------------------------------
\* A token that came from another belongs to the same user, and the other is
\* revoked: however two refreshes, a logout and failures interleave, a session
\* never has a token and its predecessor both usable.
PredecessorIsRevoked ==
    \A t \in Tokens :
        (Stored(t) /\ tok[t].from # NoToken) =>
            /\ tok[tok[t].from].revoked
            /\ tok[tok[t].from].user = tok[t].user

===============================================================================
