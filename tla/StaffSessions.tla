---------------------------- MODULE StaffSessions ---------------------------
(***************************************************************************)
(* Sessions of staff and the tokens that refer to them: login, refresh and *)
(* logout (auth.controller.ts, session.service.ts, auth.service.ts) and    *)
(* the two guards in front of every staff endpoint (jwt-auth.guard.ts,     *)
(* permissions.guard.ts).                                                  *)
(*                                                                         *)
(* A token is not kept anywhere: it is a session and an expiry, and opens  *)
(* what its session allows when it is shown.  Each handler awaits its      *)
(* queries, so others come in between.  Passwords and signatures always    *)
(* match here; how often a login may be tried is RateLimit.                *)
(***************************************************************************)
EXTENDS Integers, FiniteSets

CONSTANTS
    User,
    Session,        \* rows of user_sessions that may come to be
    Call,           \* requests in progress
    NoSession,      \* of a candidate's token, which has no session
    AccessTicks,    \* ACCESS_TOKEN_TTL_SECONDS
    SessionTicks    \* REFRESH_TOKEN_TTL_DAYS

VARIABLES
    active,         \* isActive of the users and of their organization
    staff,          \* users whose roles grant the permission in question
    session,        \* user_sessions: owner, ticks left and whether revoked
    tokens,         \* access tokens that were issued and have not expired
    handling        \* what each request has read and does next

sessionVars == <<active, staff, session, tokens, handling>>

ASSUME SessionsAssumption ==
    NoSession \notin Session /\ AccessTicks \in Nat /\ SessionTicks \in Nat

-----------------------------------------------------------------------------
Waiting == [pc |-> "idle"]
Unused == [state |-> "unused"]

SessionsInit ==
    /\ active \in SUBSET User
    /\ staff \in SUBSET User
    /\ session = [s \in Session |-> Unused]
    /\ tokens = {}
    /\ handling = [c \in Call |-> Waiting]

\* revokedAt null and expiresAt in the future, and an active owner.
Live(s) ==
    /\ s \in Session
    /\ session[s].state = "open"
    /\ session[s].left > 0
    /\ session[s].user \in active

Issue(u, s) == tokens' = tokens \cup {[user |-> u, session |-> s, left |-> AccessTicks]}

Goes(c, step) == handling' = [handling EXCEPT ![c] = step]
Ends(c) == Goes(c, Waiting)

-----------------------------------------------------------------------------
\* login: the user with his permissions is read first; the session, which
\* refers to him, is created and the token issued from what was read.
Login(c, u) ==
    /\ handling[c] = Waiting
    /\ u \in active \cap staff
    /\ Goes(c, [pc |-> "login", user |-> u])
    /\ UNCHANGED <<active, staff, session, tokens>>

CreateSession(c, s) ==
    /\ handling[c].pc = "login"
    /\ session[s] = Unused
    /\ session' = [session EXCEPT ![s] = [state |-> "open", user |-> handling[c].user, left |-> SessionTicks]]
    /\ Issue(handling[c].user, s)
    /\ Ends(c)
    /\ UNCHANGED <<active, staff>>

\* refreshSession: the session is read, its lastUsedAt updated, and a token
\* issued; the refresh token stays the same.
Refresh(c, s) ==
    /\ handling[c] = Waiting
    /\ Live(s)
    /\ Goes(c, [pc |-> "refresh", session |-> s])
    /\ UNCHANGED <<active, staff, session, tokens>>

\* Mutant: the use of a session opens it again.
ReissueOpen(c) ==
    /\ handling[c].pc = "refresh"
    /\ LET s == handling[c].session
       IN  /\ session' = [session EXCEPT ![s].state = "open"]
           /\ Issue(session[s].user, s)
    /\ Ends(c)
    /\ UNCHANGED <<active, staff>>

Reissue(c) ==
    /\ handling[c].pc = "refresh"
    /\ Issue(session[handling[c].session].user, handling[c].session)
    /\ Ends(c)
    /\ UNCHANGED <<active, staff, session>>

\* A candidate's token comes with the claim of his invitation.
Claim(u) ==
    /\ u \in active \ staff
    /\ Issue(u, NoSession)
    /\ UNCHANGED <<active, staff, session, handling>>

-----------------------------------------------------------------------------
\* A request with a token.  after: whether its session had ended before.
Ended(s) == s \in Session /\ (session[s].state = "revoked" \/ session[s].left = 0)

Show(c, t, route) ==
    /\ handling[c] = Waiting
    /\ Goes(c, [pc |-> "token", token |-> t, route |-> route, after |-> Ended(t.session)])
    /\ UNCHANGED <<active, staff, session, tokens>>

\* verifyJwt, whose signature always matches here.
Verified(t) == t \in tokens

\* assertActiveSession; a token without a session passes for candidates
\* only, by the user's state.
ActiveSession(t) == IF t.session = NoSession THEN t.user \in active ELSE Live(t.session)

\* JwtAuthGuard.
Authenticate(c) ==
    /\ handling[c].pc = "token"
    /\ LET t == handling[c].token
       IN  IF Verified(t) /\ ActiveSession(t)
             THEN Goes(c, [handling[c] EXCEPT !.pc = handling[c].route])
             ELSE Ends(c)
    /\ UNCHANGED <<active, staff, session, tokens>>

\* PermissionsGuard reads the user again; the handler runs when he holds the
\* permission.
Authorize(c) ==
    /\ handling[c].pc = "work"
    /\ IF handling[c].token.user \in active \cap staff
         THEN Goes(c, [handling[c] EXCEPT !.pc = "handler"])
         ELSE Ends(c)
    /\ UNCHANGED <<active, staff, session, tokens>>

Handle(c) ==
    /\ handling[c].pc = "handler"
    /\ Ends(c)
    /\ UNCHANGED <<active, staff, session, tokens>>

\* logout: revokedAt of the session, if it is not revoked yet and belongs to
\* the user of the token; 401 for a token without a session.
Logout(c) ==
    /\ handling[c].pc = "logout"
    /\ LET t == handling[c].token
       IN  session' = IF t.session \in Session /\ session[t.session].user = t.user
                        THEN [session EXCEPT ![t.session].state = "revoked"]
                        ELSE session
    /\ Ends(c)
    /\ UNCHANGED <<active, staff, tokens>>

-----------------------------------------------------------------------------
\* The seeds and the operators of the database change users and roles.
Administer ==
    /\ \/ active' \in {active \cup {u} : u \in User} \cup {active \ {u} : u \in User} /\ UNCHANGED staff
       \/ staff' \in {staff \cup {u} : u \in User} \cup {staff \ {u} : u \in User} /\ UNCHANGED active
    /\ UNCHANGED <<session, tokens, handling>>

TimePasses ==
    /\ session' = [s \in Session |-> IF session[s] = Unused \/ session[s].left = 0 THEN session[s]
                                     ELSE [session[s] EXCEPT !.left = @ - 1]]
    /\ tokens' = {[t EXCEPT !.left = @ - 1] : t \in {u \in tokens : u.left > 1}}
    /\ handling' = [c \in Call |->
         IF handling[c].pc = "token" THEN [handling[c] EXCEPT !.token.left = IF @ > 0 THEN @ - 1 ELSE @]
                        ELSE handling[c]]
    /\ UNCHANGED <<active, staff>>

SessionsNext ==
    \/ \E c \in Call :
        \/ \E u \in User : Login(c, u)
        \/ \E s \in Session : CreateSession(c, s) \/ Refresh(c, s)
        \/ Reissue(c) \/ Authenticate(c) \/ Authorize(c) \/ Handle(c) \/ Logout(c)
        \/ \E t \in tokens, route \in {"work", "logout"} : Show(c, t, route)
    \/ \E u \in User : Claim(u)
    \/ Administer
    \/ TimePasses

SessionsSpec == SessionsInit /\ [][SessionsNext]_sessionVars

-----------------------------------------------------------------------------
(***************************************************************************)
(* A request that comes after its session has been revoked or has expired  *)
(* never reaches a handler, not even with a token that a refresh issued    *)
(* while the session was being closed.                                     *)
(***************************************************************************)
EndedSessionsStayOut ==
    \A c \in Call : handling[c].pc \in {"work", "logout", "handler"} => ~handling[c].after
=============================================================================
