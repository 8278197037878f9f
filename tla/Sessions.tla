------------------------------ MODULE Sessions ------------------------------
(***************************************************************************)
(* Accounts and bearer tokens: modules/iam/service.go and its stores, the  *)
(* middleware of platform/mid/auth.go, the seed command and the purge of   *)
(* platform/janitor.  None of them runs in a transaction: every statement  *)
(* commits by itself, and others may come between any two.                 *)
(*                                                                         *)
(* Emails are compared in lower case and unique among the accounts that    *)
(* are not deleted; what happens to one email says nothing of another, so  *)
(* all calls are about the same one.  A token has a random jti, so it is   *)
(* named by the call that got it, and so is its row in sessions.           *)
(*                                                                         *)
(* The clock counts fractions of a second; the exp claim of a token counts *)
(* seconds.  There is one clock, as on SQLite, where every statement is    *)
(* handed the time of the process.  On PostgreSQL the session lookup and   *)
(* the purge compare expires_at, which is Go's, with the database's now(): *)
(* skew between the two moves the last moment of a session by as much.     *)
(***************************************************************************)
EXTENDS Integers, Sequences

CONSTANTS
    Call,        \* requests for the one email or for tokens of its accounts
    NoCall,      \* no token is presented
    Password,
    NoPassword,  \* the request carries none
    NoSession,   \* the token has no row in sessions
    TTL,         \* how long a token lives
    Second,      \* ticks of the clock in a second
    MaxClock,    \* bound: how long the clock runs
    MaxFaults,   \* bound: statements that fail
    MaxEdits     \* bound: runs of seed and changes by an administrator

Session == [expires: Nat, revoked: BOOLEAN]

ASSUME NoCallAssumption == NoCall \notin Call
ASSUME NoPasswordAssumption == NoPassword \notin Password
ASSUME NoSessionAssumption == NoSession \notin Session
ASSUME TimeAssumption == TTL \in Nat /\ Second \in Nat \ {0}

VARIABLES
    users,     \* the rows of users, in the order of id
    sessions,  \* sessions[c]: the row of the token c got, or NoSession
    clock,
    pc,        \* pc[c]: the statement c executes next
    op,        \* op[c]: what c asks for
    password,  \* password[c]: the one a registration or login carries
    bearer,    \* bearer[c]: the call that got the token c presents
    user,      \* user[c]: id of the account c registered or logged into, or 0
    expires,   \* expires[c]: when the token c got ends
    answer,    \* answer[c]: how c was answered, or ""
    barred,    \* history: the token was known to be dead when c came
    seeded,    \* history: passwords set by seed
    faults,
    edits

rows   == <<users, sessions>>
inputs == <<op, password>>
mine   == <<bearer, user, expires>>
limits == <<seeded, faults, edits>>
vars   == <<users, sessions, clock, pc, op, password, bearer, user, expires,
            answer, barred, seeded, faults, edits>>

Op == {"register", "login", "me", "logout"}

Stage == {"idle", "create", "sign", "insert", "lookup", "me", "revoke", "done"}

\* The middleware answers 401 both when it finds no live session and when the
\* store fails; "unauthorized" is the first, "unavailable" the second.
Answer == {"", "taken", "denied", "token", "in", "missing", "out", "failed",
           "unauthorized", "unavailable"}

Account == [password: Password, active: BOOLEAN, deleted: BOOLEAN]

\* Registrations and logins carry a password, and only registrations insert.
Asked ==
    \A c \in Call :
        /\ op[c] \in {"register", "login"} => password[c] \in Password
        /\ pc[c] = "create" => op[c] = "register"

TypeOK ==
    /\ users \in Seq(Account)
    /\ sessions \in [Call -> Session \cup {NoSession}]
    /\ clock \in Nat
    /\ pc \in [Call -> Stage]
    /\ op \in [Call -> Op]
    /\ password \in [Call -> Password \cup {NoPassword}]
    /\ bearer \in [Call -> Call \cup {NoCall}]
    /\ user \in [Call -> 0..Len(users)]
    /\ expires \in [Call -> Nat]
    /\ answer \in [Call -> Answer]
    /\ barred \in [Call -> BOOLEAN]
    /\ seeded \subseteq Password
    /\ faults \in Nat
    /\ edits \in Nat
    /\ Asked

Init ==
    /\ users = <<>>
    /\ sessions = [c \in Call |-> NoSession]
    /\ clock = 0
    /\ pc = [c \in Call |-> "idle"]
    /\ op \in [Call -> Op]
    /\ password \in [Call -> Password \cup {NoPassword}]
    /\ \A c \in Call : password[c] = NoPassword <=> op[c] \in {"me", "logout"}
    /\ bearer = [c \in Call |-> NoCall]
    /\ user = [c \in Call |-> 0]
    /\ expires = [c \in Call |-> 0]
    /\ answer = [c \in Call |-> ""]
    /\ barred = [c \in Call |-> FALSE]
    /\ seeded = {}
    /\ faults = 0
    /\ edits = 0

Goto(c, stage) == pc' = [pc EXCEPT ![c] = stage] /\ UNCHANGED answer

Reply(c, how) ==
    /\ answer' = [answer EXCEPT ![c] = how]
    /\ pc' = [pc EXCEPT ![c] = "done"]

\* What WHERE lower(email) = lower(?) AND deleted_at IS NULL selects.
Live == {i \in DOMAIN users : ~users[i].deleted}

Fresh(p) == [password |-> p, active |-> TRUE, deleted |-> FALSE]

-----------------------------------------------------------------------------
(* Registration and login.                                                  *)

\* Register looks whether the email is taken; hashing comes between this and
\* the insert.
Register(c) ==
    /\ pc[c] = "idle" /\ op[c] = "register"
    /\ IF Live = {} THEN Goto(c, "create") ELSE Reply(c, "taken")
    /\ UNCHANGED <<rows, clock, inputs, mine, barred, limits>>

\* The insert itself.
Inserted(c) ==
    /\ users' = Append(users, Fresh(password[c]))
    /\ user' = [user EXCEPT ![c] = Len(users) + 1]

CreateOrTake(c) ==           \* mutant: CreateUser is done as an upsert
    /\ pc[c] = "create"
    /\ IF Live = {}
         THEN Inserted(c)
         ELSE \E i \in Live :
                /\ users' = [users EXCEPT ![i].password = password[c]]
                /\ user' = [user EXCEPT ![c] = i]
    /\ Goto(c, "sign")
    /\ UNCHANGED <<sessions, clock, inputs, bearer, expires, barred, limits>>

\* The unique index refuses a second account; the violation is an internal
\* error, not "taken".
CreateUser(c) ==
    /\ pc[c] = "create"
    /\ IF Live = {}
         THEN Inserted(c) /\ Goto(c, "sign")
         ELSE Reply(c, "failed") /\ UNCHANGED <<users, user>>
    /\ UNCHANGED <<sessions, clock, inputs, bearer, expires, barred, limits>>

\* One row is read; the checks are made on it.
Login(c) ==
    /\ pc[c] = "idle" /\ op[c] = "login"
    /\ \/ \E i \in Live :
            /\ users[i].active /\ users[i].password = password[c]
            /\ user' = [user EXCEPT ![c] = i]
            /\ Goto(c, "sign")
       \/ /\ \A i \in Live : ~users[i].active \/ users[i].password # password[c]
          /\ Reply(c, "denied")
          /\ UNCHANGED user
    /\ UNCHANGED <<rows, clock, inputs, bearer, expires, barred, limits>>

GenerateToken(c) ==
    /\ pc[c] = "sign"
    /\ expires' = [expires EXCEPT ![c] = clock + TTL]
    /\ Goto(c, "insert")
    /\ UNCHANGED <<rows, clock, inputs, bearer, user, barred, limits>>

Opened(c) ==
    sessions' = [sessions EXCEPT
                    ![c] = [expires |-> expires[c], revoked |-> FALSE]]

CreateSession(c) ==
    /\ pc[c] = "insert"
    /\ Opened(c)
    /\ Reply(c, "token")
    /\ UNCHANGED <<users, clock, inputs, mine, barred, limits>>

-----------------------------------------------------------------------------
(* Requests that carry a token.                                             *)

\* What everybody knows of token b: it was logged out, or its time is over.
Dead(b) ==
    \/ \E d \in Call : bearer[d] = b /\ answer[d] = "out"
    \/ clock >= expires[b]

OverEarly(b) ==              \* mutant: the token ends when its last second begins
    clock \div Second >= expires[b] \div Second

\* VerifyAccessToken compares whole seconds.
Over(b) == clock \div Second > expires[b] \div Second

\* The middleware gets the token some call was answered with and verifies it.
Present(c) ==
    /\ pc[c] = "idle" /\ op[c] \in {"me", "logout"}
    /\ \E b \in Call :
          /\ answer[b] = "token"
          /\ bearer' = [bearer EXCEPT ![c] = b]
          /\ barred' = [barred EXCEPT ![c] = Dead(b)]
          /\ IF Over(b) THEN Reply(c, "unauthorized") ELSE Goto(c, "lookup")
    /\ UNCHANGED <<rows, clock, inputs, user, expires, limits>>

ValidUnrevokedOrNot(b) ==    \* mutant: revoked_at IS NULL is not asked for
    /\ sessions[b] # NoSession
    /\ sessions[b].expires > clock

\* GetSessionByTokenHash.
Valid(b) ==
    /\ sessions[b] # NoSession
    /\ ~sessions[b].revoked
    /\ sessions[b].expires > clock

LookUp(c) ==
    /\ pc[c] = "lookup"
    /\ IF Valid(bearer[c])
         THEN Goto(c, IF op[c] = "me" THEN "me" ELSE "revoke")
         ELSE Reply(c, "unauthorized")
    /\ UNCHANGED <<rows, clock, inputs, mine, barred, limits>>

\* The handler of /auth/me, for every handler behind the middleware.
Me(c) ==
    /\ pc[c] = "me"
    /\ Reply(c, IF user[bearer[c]] \in Live THEN "in" ELSE "missing")
    /\ UNCHANGED <<rows, clock, inputs, mine, barred, limits>>

Revoked(b) ==
    IF sessions[b] = NoSession
      THEN UNCHANGED sessions
      ELSE sessions' = [sessions EXCEPT ![b].revoked = TRUE]

\* The handler of /auth/logout: a row that is gone or revoked will do.
Logout(c) ==
    /\ pc[c] = "revoke"
    /\ Revoked(bearer[c])
    /\ Reply(c, "out")
    /\ UNCHANGED <<users, clock, inputs, mine, barred, limits>>

-----------------------------------------------------------------------------
(* Failures, the commands, time.                                            *)

Fault == faults < MaxFaults /\ faults' = faults + 1

\* A statement fails, or the request is cut off before it.
StoreError(c) ==
    /\ Fault
    /\ \/ pc[c] \in {"create", "insert", "lookup", "me", "revoke"}
       \/ pc[c] = "idle" /\ op[c] \in {"register", "login"}
    /\ Reply(c, IF pc[c] = "lookup" THEN "unavailable" ELSE "failed")
    /\ UNCHANGED <<rows, clock, inputs, mine, barred, seeded, edits>>

\* A statement is executed and its result lost.
ResultLost(c) ==
    /\ Fault
    /\ \/ pc[c] = "create" /\ Live = {} /\ Inserted(c) /\ UNCHANGED sessions
       \/ pc[c] = "insert" /\ Opened(c) /\ UNCHANGED <<users, user>>
       \/ pc[c] = "revoke" /\ Revoked(bearer[c]) /\ UNCHANGED <<users, user>>
    /\ Reply(c, "failed")
    /\ UNCHANGED <<clock, inputs, bearer, expires, barred, seeded, edits>>

\* How long a session has been revoked is left open.
Purgeable(b) ==
    sessions[b] # NoSession /\ (sessions[b].expires < clock \/ sessions[b].revoked)

PurgeExpiredSessions ==
    /\ \E gone \in SUBSET {b \in Call : Purgeable(b)} :
          /\ gone # {}
          /\ \A b \in Call : sessions[b] # NoSession /\ sessions[b].expires < clock
                             => b \in gone
          /\ sessions' = [b \in Call |-> IF b \in gone THEN NoSession ELSE sessions[b]]
    /\ UNCHANGED <<users, clock, pc, inputs, mine, answer, barred, limits>>

Edit == edits < MaxEdits /\ edits' = edits + 1

Upserted(p) ==
    \/ Live = {} /\ users' = Append(users, Fresh(p))
    \/ \E i \in Live : users' = [users EXCEPT ![i].password = p]

\* The seed command sets the password of the account, or creates it.
Seed(p) ==
    /\ Edit
    /\ Upserted(p)
    /\ seeded' = seeded \cup {p}
    /\ UNCHANGED <<sessions, clock, pc, inputs, mine, answer, barred, faults>>

\* An administrator deactivates the account or marks it deleted: the columns are
\* read by the code and written by none of it.
Administer ==
    /\ Edit
    /\ \E i \in Live : \/ users' = [users EXCEPT ![i].active = FALSE]
                       \/ users' = [users EXCEPT ![i].deleted = TRUE]
    /\ UNCHANGED <<sessions, clock, pc, inputs, mine, answer, barred, seeded, faults>>

Tick ==
    /\ clock < MaxClock
    /\ clock' = clock + 1
    /\ UNCHANGED <<rows, pc, inputs, mine, answer, barred, limits>>

\* Every call that has come is answered and the clock has run out.
Terminated ==
    /\ clock = MaxClock
    /\ \A c \in Call : pc[c] \in {"idle", "done"}
    /\ UNCHANGED vars

Step(c) ==
    \/ Register(c)
    \/ CreateUser(c)
    \/ Login(c)
    \/ GenerateToken(c)
    \/ CreateSession(c)
    \/ Present(c)
    \/ LookUp(c)
    \/ Me(c)
    \/ Logout(c)
    \/ StoreError(c)
    \/ ResultLost(c)

Next ==
    \/ \E c \in Call : Step(c)
    \/ PurgeExpiredSessions
    \/ \E p \in Password : Seed(p)
    \/ Administer
    \/ Tick
    \/ Terminated

Spec == Init /\ [][Next]_vars

-----------------------------------------------------------------------------
(* Properties.                                                              *)

Registered(c) == op[c] = "register" /\ user[c] # 0

\* The passwords account i has had: its registration's and seeded ones.
Had(i) == seeded \cup {password[d] : d \in {e \in Call : Registered(e) /\ user[e] = i}}

\* Registrations that race for the email never share an account, at most one
\* account holds the email, and a login gets into an account only with a
\* password the account has had: the look at service.go:35 decides nothing, the
\* unique index and a plain INSERT do.
OneOwner ==
    /\ \A c, d \in Call :
          Registered(c) /\ Registered(d) /\ user[c] = user[d] => c = d
    /\ \A i, j \in Live : i = j
    /\ \A c \in Call :
          op[c] = "login" /\ user[c] # 0 => password[c] \in Had(user[c])

\* A request that comes after its token was logged out or has ended gets past the
\* middleware at no later time, whatever the purge, failures and other requests
\* do: sessions are revoked for good and a missing row means no.  (By the clock
\* of the lookup.)
BarredStaysOut ==
    \A c \in Call :
        barred[c] => /\ pc[c] \notin {"me", "revoke"}
                     /\ answer[c] \notin {"in", "missing", "out"}

\* A logout with token b got as far as the revocation.
LoggedOut(b) ==
    \E d \in Call : /\ op[d] = "logout" /\ bearer[d] = b
                    /\ answer[d] \in {"out", "failed"}

\* A token is refused for lack of a session only when it has ended or a logout
\* with this very token got as far as the revocation: neither the whole seconds
\* of the claim, nor the purge, nor other logouts cut it short.  (A database whose
\* clock is ahead of Go's would.)
LiveIsAccepted ==
    \A c \in Call :
        answer[c] = "unauthorized" =>
            clock >= expires[bearer[c]] \/ LoggedOut(bearer[c])

\* No session of token b is left.
Gone(b) == sessions[b] = NoSession \/ sessions[b].revoked

\* A call has no account before it made or found one; an account's password is
\* one it had.
Accounts ==
    /\ \A c \in Call : pc[c] \in {"idle", "create"} => user[c] = 0
    /\ \A i \in DOMAIN users : users[i].password \in Had(i)

\* A token is presented only after it was answered, and not issued again.
Presented ==
    /\ \A c \in Call : pc[c] = "done" <=> answer[c] # ""
    /\ \A c \in Call :
          \/ pc[c] \in {"lookup", "me", "revoke"}
          \/ answer[c] \in {"in", "missing", "out", "unauthorized"}
          => bearer[c] # NoCall
    /\ \A c \in Call : bearer[c] # NoCall => pc[c] # "idle" /\ answer[bearer[c]] = "token"
    /\ \A c \in Call : pc[c] = "lookup" => op[c] \in {"me", "logout"}
    /\ \A c \in Call : pc[c] = "revoke" => op[c] = "logout"

\* The row of an issued token keeps its expiry, and is revoked or gone only once
\* the token was logged out or has ended.
Kept ==
    \A b \in Call :
        /\ sessions[b] # NoSession => /\ pc[b] = "done"
                                      /\ sessions[b].expires = expires[b]
        /\ answer[b] = "token" /\ Gone(b) => clock >= expires[b] \/ LoggedOut(b)

\* What was dead when a request came stays gone or over.
StaysDead ==
    /\ \A c \in Call : answer[c] = "out" => Gone(bearer[c])
    /\ \A c \in Call : barred[c] =>
          /\ bearer[c] # NoCall
          /\ Gone(bearer[c]) \/ clock >= expires[bearer[c]]

\* Why the three hold.
IInv ==
    /\ Accounts
    /\ Presented
    /\ Kept
    /\ StaysDead
    /\ OneOwner
    /\ BarredStaysOut
    /\ LiveIsAccepted
=============================================================================
