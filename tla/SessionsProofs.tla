--------------------------- MODULE SessionsProofs ---------------------------
(***************************************************************************)
(* Proofs about Sessions, for any number of requests and passwords, any    *)
(* lifetime of tokens and any resolution of the clock.                     *)
(***************************************************************************)
EXTENDS Sessions, SequenceTheorems, TLAPS

-----------------------------------------------------------------------------
(* The rows of users.                                                       *)

\* The domain of the rows, and what is selected from them.
LEMMA Rows ==
    ASSUME TypeOK
    PROVE  /\ Len(users) \in Nat
           /\ DOMAIN users = 1..Len(users)
           /\ Live \subseteq 1..Len(users)
           /\ \A i \in 1..Len(users) : users[i] \in Account
BY DEF TypeOK, Live

\* An insert adds an active account at the end.
LEMMA InsertedRows ==
    ASSUME TypeOK, NEW p \in Password, users' = Append(users, Fresh(p))
    PROVE  /\ users' \in Seq(Account)
           /\ Len(users') = Len(users) + 1
           /\ DOMAIN users' = 1..Len(users) + 1
           /\ \A i \in 1..Len(users) : users'[i] = users[i]
           /\ users'[Len(users) + 1] = Fresh(p)
<1>1. users \in Seq(Account) /\ Fresh(p) \in Account
  BY DEF TypeOK, Account, Fresh
<1>2. QED
  BY <1>1

\* An update changes one account and leaves the others alone.
LEMMA UpdatedRows ==
    ASSUME TypeOK, NEW i \in Live, NEW a \in Account,
           users' = [users EXCEPT ![i] = a]
    PROVE  /\ users' \in Seq(Account)
           /\ Len(users') = Len(users)
           /\ DOMAIN users' = 1..Len(users)
           /\ users'[i] = a
           /\ \A j \in 1..Len(users) : j # i => users'[j] = users[j]
<1>1. users \in Seq(Account) /\ i \in 1..Len(users)
  BY Rows DEF TypeOK
<1>2. /\ users' \in Seq(Account)
      /\ Len(users') = Len(users)
      /\ \A j \in 1..Len(users) : users'[j] = IF j = i THEN a ELSE users[j]
  BY <1>1, ExceptSeq
<1>3. DOMAIN users' = 1..Len(users)
  BY <1>2, LenProperties
<1>4. QED
  BY <1>1, <1>2, <1>3

\* A seeded password is set on an account, or an account is made with it.
LEMMA SeededRows ==
    ASSUME TypeOK, NEW p \in Password, Seed(p)
    PROVE  \/ /\ Live = {}
              /\ users' = Append(users, Fresh(p))
           \/ \E i \in Live :
                 /\ [users[i] EXCEPT !.password = p] \in Account
                 /\ users' = [users EXCEPT ![i] = [users[i] EXCEPT !.password = p]]
<1>1. CASE Live = {} /\ users' = Append(users, Fresh(p))
  BY <1>1
<1>2. ASSUME NEW i \in Live, users' = [users EXCEPT ![i].password = p]
      PROVE  /\ [users[i] EXCEPT !.password = p] \in Account
             /\ users' = [users EXCEPT ![i] = [users[i] EXCEPT !.password = p]]
  <2>1. users[i] \in Account
    BY Rows
  <2>2. [users[i] EXCEPT !.password = p] \in Account
    BY <2>1 DEF Account
  <2>3. QED
    BY <1>2, <2>2
<1>3. QED
  BY <1>1, <1>2 DEF Seed, Upserted

\* An administrator's change keeps the password and deletes at most.
LEMMA AdministeredRows ==
    ASSUME TypeOK, Administer
    PROVE  \E i \in Live : \E a \in Account :
              /\ a.password = users[i].password
              /\ users' = [users EXCEPT ![i] = a]
<1>1. PICK i \in Live : \/ users' = [users EXCEPT ![i].active = FALSE]
                        \/ users' = [users EXCEPT ![i].deleted = TRUE]
  BY DEF Administer
<1>2. users[i] \in Account
  BY Rows
<1>3. CASE users' = [users EXCEPT ![i].active = FALSE]
  <2>1. [users[i] EXCEPT !.active = FALSE] \in Account
    BY <1>2 DEF Account
  <2>2. [users[i] EXCEPT !.active = FALSE].password = users[i].password
    BY <1>2 DEF Account
  <2>3. users' = [users EXCEPT ![i] = [users[i] EXCEPT !.active = FALSE]]
    BY <1>3
  <2>4. QED
    BY <2>1, <2>2, <2>3
<1>4. CASE users' = [users EXCEPT ![i].deleted = TRUE]
  <2>1. [users[i] EXCEPT !.deleted = TRUE] \in Account
    BY <1>2 DEF Account
  <2>2. [users[i] EXCEPT !.deleted = TRUE].password = users[i].password
    BY <1>2 DEF Account
  <2>3. users' = [users EXCEPT ![i] = [users[i] EXCEPT !.deleted = TRUE]]
    BY <1>4
  <2>4. QED
    BY <2>1, <2>2, <2>3
<1>5. QED
  BY <1>1, <1>3, <1>4

-----------------------------------------------------------------------------
(* Type correctness.                                                        *)

\* Only registrations come to the insert, with the password they brought.
LEMMA AskedStep == TypeOK /\ [Next]_vars => Asked'
<1> SUFFICES ASSUME TypeOK, [Next]_vars PROVE Asked'
  OBVIOUS
<1> USE DEF Goto, Reply, rows, inputs, mine, limits
<1>1. op' = op /\ password' = password
  BY DEF Next, Step, Register, CreateUser, Login, GenerateToken, CreateSession,
         Present, LookUp, Me, Logout, StoreError, ResultLost,
         PurgeExpiredSessions, Seed, Administer, Tick, Terminated, vars
<1>2. ASSUME NEW d \in Call, pc'[d] = "create" PROVE op[d] = "register"
  <2>1. ASSUME NEW c \in Call, Step(c), c # d PROVE pc'[d] = pc[d]
    BY <2>1 DEF TypeOK, Step, Register, CreateUser, Login, GenerateToken,
           CreateSession, Present, LookUp, Me, Logout, StoreError, ResultLost
  <2>2. ASSUME Step(d) PROVE op[d] = "register"
    BY <1>2, <2>2 DEF TypeOK, Step, Register, CreateUser, Login, GenerateToken,
           CreateSession, Present, LookUp, Me, Logout, StoreError, ResultLost
  <2>3. CASE UNCHANGED pc
    BY <1>2, <2>3 DEF TypeOK, Asked
  <2>4. QED
    BY <1>2, <2>1, <2>2, <2>3 DEF Next, PurgeExpiredSessions, Seed, Administer,
                                  Tick, Terminated, vars, TypeOK, Asked
<1>3. QED
  BY <1>1, <1>2 DEF TypeOK, Asked

\* Every action keeps the types.
LEMMA TypeStep == TypeOK /\ [Next]_vars => TypeOK'
<1> SUFFICES ASSUME TypeOK, [Next]_vars PROVE TypeOK'
  OBVIOUS
<1> USE DEF Goto, Reply, Stage, Answer, rows, inputs, mine, limits
<1>0. /\ Asked'
      /\ Len(users) \in Nat
      /\ user \in [Call -> 0..Len(users)]
      /\ clock \in Nat /\ faults \in Nat /\ edits \in Nat
  BY AskedStep, Rows DEF TypeOK
<1>1. ASSUME NEW c \in Call, Register(c) PROVE TypeOK'
  BY <1>0, <1>1 DEF Register, TypeOK
<1>2. ASSUME NEW c \in Call, pc[c] = "create", Inserted(c)
      PROVE  /\ users' \in Seq(Account)
             /\ user' \in [Call -> 0..Len(users')]
  <2>1. password[c] \in Password
    BY <1>2 DEF TypeOK, Asked
  <2>2. users' \in Seq(Account) /\ Len(users') = Len(users) + 1
    BY <1>2, <2>1, InsertedRows DEF Inserted
  <2>3. user' = [user EXCEPT ![c] = Len(users')]
    BY <1>2, <2>2 DEF Inserted
  <2>4. QED
    BY <1>0, <2>2, <2>3
<1>3. ASSUME NEW c \in Call, CreateUser(c) PROVE TypeOK'
  <2>1. users' \in Seq(Account) /\ user' \in [Call -> 0..Len(users')]
    BY <1>2, <1>3, <1>0 DEF CreateUser, TypeOK
  <2>2. QED
    BY <1>0, <1>3, <2>1 DEF CreateUser, TypeOK
<1>4. ASSUME NEW c \in Call, Login(c) PROVE TypeOK'
  <2>1. ASSUME NEW i \in Live, user' = [user EXCEPT ![c] = i]
        PROVE  user' \in [Call -> 0..Len(users)]
    <3>1. i \in 0..Len(users)
      BY <1>0, Rows
    <3>2. QED
      BY <1>0, <2>1, <3>1
  <2>2. user' \in [Call -> 0..Len(users)]
    BY <1>0, <1>4, <2>1 DEF Login
  <2>3. QED
    BY <1>0, <1>4, <2>2 DEF Login, TypeOK
<1>5. ASSUME NEW c \in Call, GenerateToken(c) PROVE TypeOK'
  <2>1. clock + TTL \in Nat
    BY <1>0, TimeAssumption
  <2>2. QED
    BY <1>0, <1>5, <2>1 DEF GenerateToken, TypeOK
<1>6. ASSUME NEW c \in Call, Opened(c)
      PROVE  sessions' \in [Call -> Session \cup {NoSession}]
  <2>1. expires[c] \in Nat
    BY DEF TypeOK
  <2>2. [expires |-> expires[c], revoked |-> FALSE] \in Session
    BY <2>1 DEF Session
  <2>3. QED
    BY <1>6, <2>2 DEF Opened, TypeOK
<1>7. ASSUME NEW c \in Call, CreateSession(c) PROVE TypeOK'
  BY <1>0, <1>6, <1>7 DEF CreateSession, TypeOK
<1>8. ASSUME NEW c \in Call, Present(c) PROVE TypeOK'
  <2>1. PICK b \in Call :
           /\ bearer' = [bearer EXCEPT ![c] = b]
           /\ barred' = [barred EXCEPT ![c] = Dead(b)]
           /\ IF Over(b) THEN Reply(c, "unauthorized") ELSE Goto(c, "lookup")
    BY <1>8 DEF Present
  <2>2. Dead(b) \in BOOLEAN
    BY DEF Dead
  <2>3. barred' \in [Call -> BOOLEAN]
    BY <2>1, <2>2, ZenonT(20) DEF TypeOK
  <2>4. /\ bearer' \in [Call -> Call \cup {NoCall}]
        /\ pc' \in [Call -> Stage]
        /\ answer' \in [Call -> Answer]
    BY <2>1 DEF TypeOK
  <2>5. QED
    BY <1>0, <1>8, <2>3, <2>4 DEF Present, TypeOK
<1>9. ASSUME NEW c \in Call, LookUp(c) PROVE TypeOK'
  BY <1>0, <1>9 DEF LookUp, TypeOK
<1>10. ASSUME NEW c \in Call, Me(c) PROVE TypeOK'
  BY <1>0, <1>10 DEF Me, TypeOK
<1>11. ASSUME NEW b \in Call, Revoked(b)
       PROVE  sessions' \in [Call -> Session \cup {NoSession}]
  <2>1. CASE sessions[b] = NoSession
    BY <1>11, <2>1 DEF Revoked, TypeOK
  <2>2. CASE sessions[b] # NoSession
    <3>1. sessions[b] \in Session
      BY <2>2 DEF TypeOK
    <3>2. [sessions[b] EXCEPT !.revoked = TRUE] \in Session
      BY <3>1 DEF Session
    <3>3. sessions' = [sessions EXCEPT
                         ![b] = [sessions[b] EXCEPT !.revoked = TRUE]]
      BY <1>11, <2>2 DEF Revoked
    <3>4. QED
      BY <3>2, <3>3 DEF TypeOK
  <2>3. QED
    BY <2>1, <2>2
<1>12. ASSUME NEW c \in Call, pc[c] = "revoke", Revoked(bearer[c])
       PROVE  sessions' \in [Call -> Session \cup {NoSession}]
  <2>1. CASE bearer[c] \in Call
    BY <1>11, <1>12, <2>1
  <2>2. CASE bearer[c] \notin Call
    BY <1>12, <2>2 DEF Revoked, TypeOK
  <2>3. QED
    BY <2>1, <2>2
<1>13. ASSUME NEW c \in Call, Logout(c) PROVE TypeOK'
  BY <1>0, <1>12, <1>13 DEF Logout, TypeOK
<1>14. ASSUME NEW c \in Call, StoreError(c) PROVE TypeOK'
  <2>1. faults' \in Nat
    BY <1>0, <1>14 DEF StoreError, Fault
  <2>2. QED
    BY <1>0, <1>14, <2>1 DEF StoreError, TypeOK
<1>15. ASSUME NEW c \in Call, ResultLost(c) PROVE TypeOK'
  <2>1. /\ users' \in Seq(Account)
        /\ user' \in [Call -> 0..Len(users')]
        /\ sessions' \in [Call -> Session \cup {NoSession}]
    BY <1>0, <1>2, <1>6, <1>12, <1>15 DEF ResultLost, TypeOK
  <2>2. faults' \in Nat
    BY <1>0, <1>15 DEF ResultLost, Fault
  <2>3. QED
    BY <1>0, <1>15, <2>1, <2>2 DEF ResultLost, TypeOK
<1>16. ASSUME PurgeExpiredSessions PROVE TypeOK'
  <2>1. sessions' \in [Call -> Session \cup {NoSession}]
    BY <1>16 DEF PurgeExpiredSessions, TypeOK
  <2>2. QED
    BY <1>0, <1>16, <2>1 DEF PurgeExpiredSessions, TypeOK
<1>17. ASSUME NEW p \in Password, Seed(p) PROVE TypeOK'
  <2>1. /\ users' \in Seq(Account)
        /\ Len(users') \in {Len(users), Len(users) + 1}
    <3>1. CASE Live = {} /\ users' = Append(users, Fresh(p))
      BY <3>1, InsertedRows
    <3>2. ASSUME NEW i \in Live, NEW a \in Account,
                 users' = [users EXCEPT ![i] = a]
          PROVE  users' \in Seq(Account) /\ Len(users') = Len(users)
      BY <3>2, UpdatedRows
    <3>3. QED
      BY <1>17, <3>1, <3>2, SeededRows
  <2>2. user' = user
    BY <1>17 DEF Seed
  <2>3. user' \in [Call -> 0..Len(users')]
    BY <1>0, <2>1, <2>2
  <2>4. edits' \in Nat
    BY <1>0, <1>17 DEF Seed, Edit
  <2>5. QED
    BY <1>0, <1>17, <2>1, <2>3, <2>4 DEF Seed, TypeOK
<1>18. ASSUME Administer PROVE TypeOK'
  <2>1. users' \in Seq(Account) /\ Len(users') = Len(users)
    BY <1>18, AdministeredRows, UpdatedRows
  <2>2. edits' \in Nat
    BY <1>0, <1>18 DEF Administer, Edit
  <2>3. QED
    BY <1>0, <1>18, <2>1, <2>2 DEF Administer, TypeOK
<1>19. CASE Tick
  <2>1. clock' \in Nat
    BY <1>0, <1>19 DEF Tick
  <2>2. QED
    BY <1>0, <1>19, <2>1 DEF Tick, TypeOK
<1>20. CASE UNCHANGED vars
  BY <1>0, <1>20 DEF vars, TypeOK
<1>21. QED
  BY <1>1, <1>3, <1>4, <1>5, <1>7, <1>8, <1>9, <1>10, <1>13, <1>14, <1>15,
     <1>16, <1>17, <1>18, <1>19, <1>20
  DEF Next, Step, Terminated

\* Types at the start.
LEMMA TypeInit == Init => TypeOK
<1> SUFFICES ASSUME Init PROVE TypeOK
  OBVIOUS
<1>1. users \in Seq(Account) /\ 0 \in 0..Len(users)
  <2>1. <<>> \in Seq(Account) /\ Len(<<>>) = 0
    OBVIOUS
  <2>2. users = <<>>
    BY DEF Init
  <2>3. QED
    BY <2>1, <2>2
<1>2. user \in [Call -> 0..Len(users)]
  BY <1>1 DEF Init
<1>3. Asked
  BY DEF Init, Asked, Op
<1>4. /\ pc \in [Call -> Stage]
      /\ answer \in [Call -> Answer]
      /\ sessions \in [Call -> Session \cup {NoSession}]
      /\ bearer \in [Call -> Call \cup {NoCall}]
  BY DEF Init, Stage, Answer
<1>5. /\ clock \in Nat /\ faults \in Nat /\ edits \in Nat
      /\ expires \in [Call -> Nat]
      /\ barred \in [Call -> BOOLEAN]
      /\ seeded \subseteq Password
  BY DEF Init
<1>6. QED
  BY <1>1, <1>2, <1>3, <1>4, <1>5 DEF Init, TypeOK

\* Every variable always has its type; every id held by a call has a row.
THEOREM TypeCorrect == Spec => []TypeOK
BY TypeInit, TypeStep, PTL DEF Spec

-----------------------------------------------------------------------------
(* Accounts.                                                                *)

Owners == Accounts /\ OneOwner

\* What a step may do to accounts and to the calls that hold them: nothing, or a
\* registration inserts, a login finds one with its password, or one is edited.
LEMMA AccountSteps ==
    ASSUME TypeOK, Owners, [Next]_vars
    PROVE  \/ UNCHANGED <<users, user>>
           \/ \E c \in Call : /\ op[c] = "register" /\ pc[c] = "create"
                              /\ Live = {} /\ Inserted(c)
           \/ \E c \in Call : \E i \in Live :
                 /\ op[c] = "login" /\ users[i].password = password[c]
                 /\ users' = users /\ user' = [user EXCEPT ![c] = i]
           \/ user' = user /\ \E p \in Password : Seed(p)
           \/ user' = user /\ Administer
<1> USE DEF rows, mine
<1>1. ASSUME NEW c \in Call, CreateUser(c)
      PROVE  \/ UNCHANGED <<users, user>>
             \/ op[c] = "register" /\ pc[c] = "create" /\ Live = {} /\ Inserted(c)
  BY <1>1 DEF CreateUser, TypeOK, Asked
<1>2. ASSUME NEW c \in Call, ResultLost(c)
      PROVE  \/ UNCHANGED <<users, user>>
             \/ op[c] = "register" /\ pc[c] = "create" /\ Live = {} /\ Inserted(c)
  BY <1>2 DEF ResultLost, TypeOK, Asked
<1>3. ASSUME NEW c \in Call, Login(c)
      PROVE  \/ UNCHANGED <<users, user>>
             \/ \E i \in Live :
                  /\ op[c] = "login" /\ users[i].password = password[c]
                  /\ users' = users /\ user' = [user EXCEPT ![c] = i]
  BY <1>3 DEF Login
<1>4. ASSUME NEW c \in Call,
             \/ Register(c) \/ GenerateToken(c) \/ CreateSession(c) \/ Present(c)
             \/ LookUp(c) \/ Me(c) \/ Logout(c) \/ StoreError(c)
      PROVE  UNCHANGED <<users, user>>
  BY <1>4 DEF Register, GenerateToken, CreateSession, Present, LookUp, Me,
              Logout, StoreError
<1>5. CASE PurgeExpiredSessions \/ Tick \/ UNCHANGED vars
  BY <1>5 DEF PurgeExpiredSessions, Tick, Terminated, vars
<1>6. ASSUME NEW p \in Password, Seed(p) PROVE user' = user
  BY <1>6 DEF Seed
<1>7. CASE Administer
  BY <1>7 DEF Administer
<1>8. QED
  BY <1>1, <1>2, <1>3, <1>4, <1>5, <1>6, <1>7 DEF Next, Step, Terminated

\* A call leaves the stages before its account for good.
LEMMA EarlySteps ==
    ASSUME TypeOK, [Next]_vars, NEW d \in Call, pc'[d] \in {"idle", "create"}
    PROVE  pc[d] \in {"idle", "create"} /\ user'[d] = user[d]
<1> USE DEF Goto, Reply, rows, inputs, mine, limits
<1>1. ASSUME NEW c \in Call, Step(c), c # d
      PROVE  pc'[d] = pc[d] /\ user'[d] = user[d]
  BY <1>1 DEF TypeOK, Step, Register, CreateUser, Inserted, Login, GenerateToken,
         CreateSession, Present, LookUp, Me, Logout, StoreError, ResultLost
<1>2. ASSUME Step(d) PROVE pc[d] = "idle" /\ user' = user
  BY <1>2 DEF TypeOK, Step, Register, CreateUser, Inserted, Login, GenerateToken,
         CreateSession, Present, LookUp, Me, Logout, StoreError, ResultLost
<1>3. CASE UNCHANGED <<pc, user>>
  BY <1>3
<1>4. QED
  BY <1>1, <1>2, <1>3
  DEF Next, PurgeExpiredSessions, Seed, Administer, Tick, Terminated, vars

\* What never changes of a call, and that seeded passwords accumulate.
LEMMA Inputs ==
    ASSUME [Next]_vars
    PROVE  op' = op /\ password' = password /\ seeded \subseteq seeded'
BY DEF Next, Step, Register, CreateUser, Login, GenerateToken, CreateSession,
       Present, LookUp, Me, Logout, StoreError, ResultLost, PurgeExpiredSessions,
       Seed, Administer, Tick, Terminated, vars, rows, inputs, mine, limits

\* The accounts that are not deleted after an edit were not before.
LEMMA EditedLive ==
    ASSUME TypeOK, Owners, NEW i \in Live, NEW a \in Account,
           users' = [users EXCEPT ![i] = a]
    PROVE  \A j, k \in Live' : j = k
<1>1. \A j \in Live : j = i
  BY DEF Owners, OneOwner
<1>2. ASSUME NEW j \in Live' PROVE j = i
  <2>1. j \in 1..Len(users)
    BY UpdatedRows DEF Live
  <2>2. CASE j # i
    <3>1. users'[j] = users[j]
      BY <2>1, <2>2, UpdatedRows
    <3>2. j \in Live
      BY <2>1, <3>1, Rows DEF Live
    <3>3. QED
      BY <1>1, <3>2
  <2>3. QED
    BY <2>2
<1>3. QED
  BY <1>2

\* The accounts keep their owners.
LEMMA OwnersStep ==
    ASSUME TypeOK, Owners, [Next]_vars
    PROVE  Owners'
<1>1. op' = op /\ password' = password /\ seeded \subseteq seeded'
  BY Inputs
<1>2. \A d \in Call : pc'[d] \in {"idle", "create"} => user'[d] = 0
  BY EarlySteps DEF Owners, Accounts
<1>3. /\ Len(users) \in Nat
      /\ DOMAIN users = 1..Len(users)
      /\ \A d \in Call : user[d] \in 0..Len(users)
  BY Rows DEF TypeOK
<1>4. ASSUME user' = user
      PROVE  \A i : Had(i) \subseteq Had(i)'
  BY <1>1, <1>4 DEF Had, Registered
<1>5. CASE UNCHANGED <<users, user>>
  <2>1. \A i : Had(i) \subseteq Had(i)'
    BY <1>4, <1>5
  <2>2. Accounts'
    BY <1>2, <1>5, <2>1 DEF Owners, Accounts
  <2>3. OneOwner'
    BY <1>1, <1>5, <2>1 DEF Owners, OneOwner, Live, Registered
  <2>4. QED
    BY <2>2, <2>3 DEF Owners
<1>6. ASSUME NEW c \in Call, op[c] = "register", pc[c] = "create", Live = {},
             Inserted(c)
      PROVE  Owners'
  <2> PICK n \in Nat : n = Len(users) + 1
    BY <1>3
  <2>1. password[c] \in Password
    BY <1>6 DEF TypeOK, Asked
  <2>2. /\ DOMAIN users' = 1..n
        /\ \A i \in 1..Len(users) : users'[i] = users[i]
        /\ users'[n] = Fresh(password[c])
    BY <1>6, <2>1, InsertedRows DEF Inserted
  <2>3. /\ user'[c] = n
        /\ \A d \in Call : d # c => user'[d] = user[d]
    BY <1>6 DEF Inserted, TypeOK
  <2>4. user[c] = 0
    BY <1>6 DEF Owners, Accounts
  <2>5. \A i \in 1..Len(users) : Had(i) \subseteq Had(i)'
    BY <1>1, <2>3, <2>4 DEF Had, Registered
  <2>6. password[c] \in Had(n)'
    BY <1>1, <1>3, <1>6, <2>3 DEF Had, Registered
  <2>7. Accounts'
    <3>1. ASSUME NEW i \in 1..n PROVE users'[i].password \in Had(i)'
      <4>1. CASE i \in 1..Len(users)
        BY <1>3, <2>2, <2>5, <4>1 DEF Owners, Accounts
      <4>2. CASE i = n
        BY <2>2, <2>6, <4>2 DEF Fresh
      <4>3. QED
        BY <1>3, <4>1, <4>2
    <3>2. QED
      BY <1>2, <2>2, <3>1 DEF Accounts
  <2>8. \A d, e \in Call :
           Registered(d)' /\ Registered(e)' /\ user'[d] = user'[e] => d = e
    BY <1>1, <1>3, <2>3 DEF Owners, OneOwner, Registered
  <2>9. ASSUME NEW i \in Live' PROVE i = n
    <3>1. CASE i \in 1..Len(users)
      BY <1>3, <1>6, <2>2, <3>1 DEF Live
    <3>2. QED
      BY <1>3, <2>2, <3>1 DEF Live
  <2>10. ASSUME NEW d \in Call, op[d] = "login",
                NEW i, i = user'[d], i # 0
         PROVE  password[d] \in Had(i)'
    <3>1. i = user[d] /\ i \in 1..Len(users)
      BY <1>3, <1>6, <2>3, <2>10
    <3>2. password[d] \in Had(i)
      BY <2>10, <3>1 DEF Owners, OneOwner
    <3>3. QED
      BY <2>5, <3>1, <3>2
  <2>11. OneOwner'
    BY <1>1, <2>8, <2>9, <2>10 DEF OneOwner
  <2>12. QED
    BY <2>7, <2>11 DEF Owners
<1>7. ASSUME NEW c \in Call, NEW i \in Live, op[c] = "login",
             users[i].password = password[c],
             users' = users, user' = [user EXCEPT ![c] = i]
      PROVE  Owners'
  <2>1. /\ user'[c] = i
        /\ \A d \in Call : d # c => user'[d] = user[d]
    BY <1>7 DEF TypeOK
  <2>2. \A d \in Call : Registered(d)' <=> Registered(d)
    BY <1>1, <1>7, <2>1 DEF Registered
  <2>3. \A d \in Call : Registered(d) => user'[d] = user[d]
    BY <1>7, <2>1 DEF Registered
  <2>4. \A j : Had(j) \subseteq Had(j)'
    BY <1>1, <2>2, <2>3 DEF Had
  <2>5. password[c] \in Had(i)
    BY <1>7, Rows DEF Owners, Accounts
  <2>6. Accounts'
    BY <1>2, <1>7, <2>4 DEF Owners, Accounts
  <2>7. ASSUME NEW d \in Call, op[d] = "login",
               NEW j, j = user'[d], j # 0
        PROVE  password[d] \in Had(j)'
    <3>1. CASE d = c
      BY <2>1, <2>4, <2>5, <2>7, <3>1
    <3>2. CASE d # c
      BY <2>1, <2>4, <2>7, <3>2 DEF Owners, OneOwner
    <3>3. QED
      BY <3>1, <3>2
  <2>8. \A d, e \in Call :
           Registered(d)' /\ Registered(e)' /\ user'[d] = user'[e] => d = e
    BY <2>2, <2>3 DEF Owners, OneOwner
  <2>9. \A j, k \in Live' : j = k
    BY <1>7 DEF Owners, OneOwner, Live
  <2>10. OneOwner'
    BY <1>1, <2>7, <2>8, <2>9 DEF OneOwner
  <2>11. QED
    BY <2>6, <2>10 DEF Owners
<1>8. ASSUME user' = user,
             DOMAIN users' = DOMAIN users,
             \A i \in DOMAIN users : users'[i].password \in Had(i)',
             \A j, k \in Live' : j = k
      PROVE  Owners'
  <2>1. Accounts'
    BY <1>2, <1>8 DEF Accounts
  <2>2. OneOwner'
    BY <1>1, <1>4, <1>8 DEF Owners, OneOwner, Registered
  <2>3. QED
    BY <2>1, <2>2 DEF Owners
<1>9. ASSUME NEW p \in Password, Seed(p), user' = user PROVE Owners'
  <2>1. p \in seeded'
    BY <1>9 DEF Seed
  <2>2. \A i : p \in Had(i)'
    BY <2>1 DEF Had
  <2>3. CASE Live = {} /\ users' = Append(users, Fresh(p))
    <3> DEFINE n == Len(users) + 1
    <3>1. /\ DOMAIN users' = 1..n
          /\ \A i \in 1..Len(users) : users'[i] = users[i]
          /\ users'[n] = Fresh(p)
      BY <2>3, InsertedRows
    <3>2. ASSUME NEW i \in 1..n PROVE users'[i].password \in Had(i)'
      <4>1. CASE i \in 1..Len(users)
        BY <1>3, <1>4, <1>9, <3>1, <4>1 DEF Owners, Accounts
      <4>2. CASE i = n
        BY <2>2, <3>1, <4>2 DEF Fresh
      <4>3. QED
        BY <1>3, <4>1, <4>2
    <3>3. ASSUME NEW i \in Live' PROVE i = n
      <4>1. CASE i \in 1..Len(users)
        BY <1>3, <2>3, <3>1, <4>1 DEF Live
      <4>2. QED
        BY <1>3, <3>1, <4>1 DEF Live
    <3>4. Accounts'
      BY <1>2, <3>1, <3>2 DEF Accounts
    <3>5. OneOwner'
      BY <1>1, <1>4, <1>9, <3>3 DEF Owners, OneOwner, Registered
    <3>6. QED
      BY <3>4, <3>5 DEF Owners
  <2>4. ASSUME NEW i \in Live, [users[i] EXCEPT !.password = p] \in Account,
               users' = [users EXCEPT ![i] = [users[i] EXCEPT !.password = p]]
        PROVE  Owners'
    <3> DEFINE a == [users[i] EXCEPT !.password = p]
    <3>1. a.password = p
      BY Rows DEF Account
    <3> HIDE DEF a
    <3>2. a \in Account /\ users' = [users EXCEPT ![i] = a]
      BY <2>4 DEF a
    <3>3. /\ DOMAIN users' = DOMAIN users
          /\ users'[i] = a
          /\ \A j \in DOMAIN users : j # i => users'[j] = users[j]
      BY <1>3, <3>2, UpdatedRows
    <3>4. \A j \in DOMAIN users : users'[j].password \in Had(j)'
      BY <1>4, <1>9, <2>2, <3>1, <3>3 DEF Owners, Accounts
    <3>5. \A j, k \in Live' : j = k
      BY <3>2, EditedLive
    <3>6. QED
      BY <1>8, <1>9, <3>3, <3>4, <3>5
  <2>5. QED
    BY <1>9, <2>3, <2>4, SeededRows
<1>10. ASSUME Administer, user' = user PROVE Owners'
  <2>1. PICK i \in Live : \E a \in Account :
           a.password = users[i].password /\ users' = [users EXCEPT ![i] = a]
    BY <1>10, AdministeredRows
  <2>2. PICK a \in Account :
           a.password = users[i].password /\ users' = [users EXCEPT ![i] = a]
    BY <2>1
  <2>3. /\ DOMAIN users' = DOMAIN users
        /\ users'[i] = a
        /\ \A j \in DOMAIN users : j # i => users'[j] = users[j]
    BY <1>3, <2>2, UpdatedRows
  <2>4. \A j \in DOMAIN users : users'[j].password \in Had(j)'
    BY <1>4, <1>10, <2>2, <2>3 DEF Owners, Accounts
  <2>5. \A j, k \in Live' : j = k
    BY <2>2, EditedLive
  <2>6. QED
    BY <1>8, <1>10, <2>3, <2>4, <2>5
<1>11. QED
  BY <1>5, <1>6, <1>7, <1>9, <1>10, AccountSteps

-----------------------------------------------------------------------------
(* Tokens.                                                                  *)

Tokens ==
    /\ Presented
    /\ Kept
    /\ StaysDead
    /\ BarredStaysOut
    /\ LiveIsAccepted

\* Whole seconds exceed whole seconds only of something later.
LEMMA WholeSeconds ==
    ASSUME NEW a \in Nat, NEW b \in Nat, a \div Second > b \div Second
    PROVE  a >= b
<1> DEFINE qa == a \div Second
           qb == b \div Second
           ra == a % Second
           rb == b % Second
<1>1. Second \in Nat \ {0}
  BY TimeAssumption
<1>2. /\ a = Second * qa + ra /\ b = Second * qb + rb
      /\ ra \in 0..Second - 1 /\ rb \in 0..Second - 1
      /\ qa \in Nat /\ qb \in Nat
  BY <1>1
<1>3. qa >= qb + 1
  BY <1>2
<1> HIDE DEF qa, qb, ra, rb
<1>4. Second * qa >= Second * (qb + 1)
  BY <1>1, <1>2, <1>3
<1>5. Second * (qb + 1) = Second * qb + Second
  BY <1>1, <1>2
<1>6. QED
  BY <1>1, <1>2, <1>4, <1>5

\* A call that was answered keeps its answer and everything that belongs to it.
LEMMA AnsweredKept ==
    ASSUME TypeOK, Presented, [Next]_vars, NEW d \in Call, answer[d] # ""
    PROVE  /\ answer'[d] = answer[d] /\ pc'[d] = pc[d]
           /\ bearer'[d] = bearer[d] /\ expires'[d] = expires[d]
           /\ barred'[d] = barred[d]
<1> USE DEF Goto, Reply, rows, inputs, mine, limits
<1>1. pc[d] = "done"
  BY DEF Presented
<1>2. ASSUME NEW c \in Call, Present(c)
      PROVE  /\ answer'[d] = answer[d] /\ pc'[d] = pc[d]
             /\ bearer'[d] = bearer[d] /\ expires'[d] = expires[d]
             /\ barred'[d] = barred[d]
  <2>1. c # d
    BY <1>1, <1>2 DEF Present
  <2>2. PICK b \in Call :
           /\ bearer' = [bearer EXCEPT ![c] = b]
           /\ barred' = [barred EXCEPT ![c] = Dead(b)]
           /\ IF Over(b) THEN Reply(c, "unauthorized") ELSE Goto(c, "lookup")
    BY <1>2 DEF Present
  <2>3. expires' = expires
    BY <1>2 DEF Present
  <2>4. bearer'[d] = bearer[d] /\ pc'[d] = pc[d] /\ answer'[d] = answer[d]
    BY <2>1, <2>2 DEF TypeOK
  <2>5. barred'[d] = barred[d]
    BY <2>1, <2>2, Zenon DEF TypeOK
  <2>6. QED
    BY <2>3, <2>4, <2>5
<1>3. ASSUME NEW c \in Call,
             \/ Register(c) \/ CreateUser(c) \/ Login(c) \/ GenerateToken(c)
             \/ CreateSession(c) \/ LookUp(c) \/ Me(c) \/ Logout(c)
             \/ StoreError(c) \/ ResultLost(c)
      PROVE  /\ answer'[d] = answer[d] /\ pc'[d] = pc[d]
             /\ bearer'[d] = bearer[d] /\ expires'[d] = expires[d]
             /\ barred'[d] = barred[d]
  BY <1>1, <1>3 DEF TypeOK, Register, CreateUser, Login, GenerateToken,
                    CreateSession, LookUp, Me, Logout, StoreError, ResultLost
<1>4. CASE UNCHANGED <<pc, mine, answer, barred>>
  BY <1>4
<1>5. QED
  BY <1>2, <1>3, <1>4 DEF Next, Step, PurgeExpiredSessions, Seed, Administer,
                          Tick, Terminated, vars

\* A session that is gone stays gone, once its token has been answered.
LEMMA GoneKept ==
    ASSUME TypeOK, Presented, [Next]_vars,
           NEW b \in Call, answer[b] # "", Gone(b)
    PROVE  Gone(b)'
<1> USE DEF Goto, Reply, rows, inputs, mine, limits
<1>1. pc[b] = "done"
  BY DEF Presented
<1>2. ASSUME NEW e, Revoked(e) PROVE Gone(b)'
  <2>1. CASE sessions[e] = NoSession
    BY <1>2, <2>1 DEF Revoked, Gone
  <2>2. CASE sessions[e] # NoSession
    <3>1. sessions' = [sessions EXCEPT ![e].revoked = TRUE]
      BY <1>2, <2>2 DEF Revoked
    <3>2. CASE b # e
      BY <3>1, <3>2 DEF Gone, TypeOK
    <3>3. CASE b = e
      <4>1. sessions[e] \in Session
        BY <2>2, <3>3 DEF TypeOK
      <4>2. sessions'[e].revoked
        BY <3>1, <3>3, <4>1 DEF TypeOK, Session
      <4>3. QED
        BY <3>3, <4>2 DEF Gone
    <3>4. QED
      BY <3>2, <3>3
  <2>3. QED
    BY <2>1, <2>2
<1>3. ASSUME NEW c \in Call, Opened(c), pc[c] = "insert" PROVE Gone(b)'
  BY <1>1, <1>3 DEF Opened, Gone, TypeOK
<1>4. CASE UNCHANGED sessions
  BY <1>4 DEF Gone
<1>5. CASE PurgeExpiredSessions
  BY <1>5 DEF PurgeExpiredSessions, Gone
<1>6. ASSUME NEW c \in Call, CreateSession(c) PROVE Gone(b)'
  BY <1>3, <1>6 DEF CreateSession
<1>7. ASSUME NEW c \in Call, Logout(c) PROVE Gone(b)'
  BY <1>2, <1>7 DEF Logout
<1>8. ASSUME NEW c \in Call, ResultLost(c) PROVE Gone(b)'
  BY <1>2, <1>3, <1>4, <1>8 DEF ResultLost
<1>9. ASSUME NEW c \in Call,
             \/ Register(c) \/ CreateUser(c) \/ Login(c) \/ GenerateToken(c)
             \/ Present(c) \/ LookUp(c) \/ Me(c) \/ StoreError(c)
      PROVE  UNCHANGED sessions
  BY <1>9 DEF Register, CreateUser, Login, GenerateToken, Present, LookUp, Me,
              StoreError
<1>10. CASE Administer \/ Tick \/ UNCHANGED vars \/ \E p \in Password : Seed(p)
  BY <1>10 DEF Administer, Seed, Tick, Terminated, vars, Gone
<1>11. QED
  BY <1>4, <1>5, <1>6, <1>7, <1>8, <1>9, <1>10 DEF Next, Step, Terminated

\* The clock does not go back, so what is over stays over.
LEMMA ClockForward ==
    ASSUME TypeOK, [Next]_vars
    PROVE  clock \in Nat /\ clock' \in Nat /\ clock' >= clock
<1>1. clock \in Nat
  BY DEF TypeOK
<1>2. clock' = clock \/ clock' = clock + 1
  BY DEF Next, Step, Register, CreateUser, Login, GenerateToken, CreateSession,
         Present, LookUp, Me, Logout, StoreError, ResultLost,
         PurgeExpiredSessions, Seed, Administer, Tick, Terminated, vars, rows
<1>3. QED
  BY <1>1, <1>2

\* What concerns one call changes only in its own steps.
LEMMA OthersKept ==
    ASSUME TypeOK, NEW c \in Call, Step(c), NEW d \in Call, d # c
    PROVE  /\ answer'[d] = answer[d] /\ pc'[d] = pc[d]
           /\ bearer'[d] = bearer[d] /\ expires'[d] = expires[d]
           /\ barred'[d] = barred[d]
<1> USE DEF Goto, Reply, rows, inputs, mine, limits
<1>1. CASE Present(c)
  <2>1. PICK b \in Call :
           /\ bearer' = [bearer EXCEPT ![c] = b]
           /\ barred' = [barred EXCEPT ![c] = Dead(b)]
           /\ IF Over(b) THEN Reply(c, "unauthorized") ELSE Goto(c, "lookup")
    BY <1>1 DEF Present
  <2>2. expires' = expires
    BY <1>1 DEF Present
  <2>3. bearer'[d] = bearer[d] /\ pc'[d] = pc[d] /\ answer'[d] = answer[d]
    BY <2>1 DEF TypeOK
  <2>4. barred'[d] = barred[d]
    BY <2>1, Zenon DEF TypeOK
  <2>5. QED
    BY <2>2, <2>3, <2>4
<1>2. CASE \/ Register(c) \/ CreateUser(c) \/ Login(c) \/ GenerateToken(c)
           \/ CreateSession(c) \/ LookUp(c) \/ Me(c) \/ Logout(c)
           \/ StoreError(c) \/ ResultLost(c)
  BY <1>2 DEF TypeOK, Register, CreateUser, Login, GenerateToken, CreateSession,
              LookUp, Me, Logout, StoreError, ResultLost
<1>3. QED
  BY <1>1, <1>2 DEF Step

\* The steps that are nobody's leave every call alone.
LEMMA NobodysSteps ==
    ASSUME [Next]_vars, \A c \in Call : ~Step(c)
    PROVE  UNCHANGED <<answer, pc, bearer, expires, barred>>
BY DEF Next, PurgeExpiredSessions, Seed, Administer, Tick, Terminated, vars, mine

\* The steps of a call by what they do to it.
LEMMA OwnSteps ==
    ASSUME TypeOK, NEW c \in Call, Step(c)
    PROVE  \/ /\ pc[c] \in {"idle", "create", "sign"}
              /\ pc'[c] \in {"create", "sign", "insert"}
              /\ answer'[c] = answer[c]
              /\ bearer'[c] = bearer[c] /\ barred'[c] = barred[c]
              /\ UNCHANGED sessions
           \/ /\ pc[c] # "done" /\ pc'[c] = "done"
              /\ answer'[c] \in {"taken", "denied", "failed", "unavailable"}
              /\ bearer'[c] = bearer[c] /\ barred'[c] = barred[c]
              /\ expires'[c] = expires[c]
              /\ \/ UNCHANGED sessions
                 \/ pc[c] = "insert" /\ Opened(c)
                 \/ pc[c] = "revoke" /\ answer'[c] = "failed" /\ Revoked(bearer[c])
           \/ CreateSession(c)
           \/ Present(c)
           \/ LookUp(c)
           \/ Me(c)
           \/ Logout(c)
BY DEF TypeOK, Step, Register, CreateUser, Login, GenerateToken, StoreError,
       ResultLost, Goto, Reply, rows, inputs, mine, limits

\* The actions that concern a token, seen from the call that takes them.
LEMMA PresentStep ==
    ASSUME TypeOK, NEW c \in Call, Present(c)
    PROVE  /\ pc[c] = "idle" /\ op[c] \in {"me", "logout"}
           /\ UNCHANGED <<sessions, clock, expires>>
           /\ \E b \in Call :
                 /\ answer[b] = "token"
                 /\ bearer'[c] = b
                 /\ barred'[c] <=> Dead(b)
                 /\ \/ Over(b) /\ pc'[c] = "done" /\ answer'[c] = "unauthorized"
                    \/ pc'[c] = "lookup" /\ answer'[c] = answer[c]
<1> USE DEF Goto, Reply, rows, mine
<1>1. PICK b \in Call :
         /\ answer[b] = "token"
         /\ bearer' = [bearer EXCEPT ![c] = b]
         /\ barred' = [barred EXCEPT ![c] = Dead(b)]
         /\ IF Over(b) THEN Reply(c, "unauthorized") ELSE Goto(c, "lookup")
  BY DEF Present
<1>2. /\ bearer'[c] = b
      /\ \/ Over(b) /\ pc'[c] = "done" /\ answer'[c] = "unauthorized"
         \/ pc'[c] = "lookup" /\ answer'[c] = answer[c]
  BY <1>1 DEF TypeOK
<1>3. barred'[c] <=> Dead(b)
  BY <1>1, Zenon DEF TypeOK
<1>4. QED
  BY <1>1, <1>2, <1>3 DEF Present

LEMMA OtherTokenSteps ==
    ASSUME TypeOK, NEW c \in Call
    PROVE  /\ CreateSession(c) =>
                 /\ pc[c] = "insert" /\ Opened(c)
                 /\ pc'[c] = "done" /\ answer'[c] = "token"
                 /\ UNCHANGED <<bearer, expires, barred, clock>>
           /\ LookUp(c) =>
                 /\ pc[c] = "lookup"
                 /\ UNCHANGED <<sessions, bearer, expires, barred, clock>>
                 /\ \/ /\ Valid(bearer[c]) /\ answer'[c] = answer[c]
                       /\ \/ pc'[c] = "me"
                          \/ pc'[c] = "revoke" /\ op[c] # "me"
                    \/ /\ ~Valid(bearer[c]) /\ answer'[c] = "unauthorized"
                       /\ pc'[c] = "done"
           /\ Me(c) =>
                 /\ pc[c] = "me" /\ pc'[c] = "done"
                 /\ answer'[c] \in {"in", "missing"}
                 /\ UNCHANGED <<sessions, bearer, expires, barred, clock>>
           /\ Logout(c) =>
                 /\ pc[c] = "revoke" /\ Revoked(bearer[c])
                 /\ pc'[c] = "done" /\ answer'[c] = "out"
                 /\ UNCHANGED <<bearer, expires, barred, clock>>
BY DEF TypeOK, CreateSession, LookUp, Me, Logout, Goto, Reply, rows, mine

\* Who presents what, step by step.
LEMMA PresentedStep ==
    ASSUME TypeOK, Presented, [Next]_vars
    PROVE  Presented'
<1>1. op' = op
  BY Inputs
<1>2. ASSUME NEW d \in Call, NEW b, b = bearer[d], b # NoCall
      PROVE  answer'[b] = "token"
  <2>1. b \in Call /\ answer[b] = "token"
    BY <1>2 DEF TypeOK, Presented
  <2>2. QED
    BY <2>1, AnsweredKept
<1>3. ASSUME NEW d \in Call, Present(d)
      PROVE  /\ pc'[d] \in {"lookup", "done"} /\ op[d] \in {"me", "logout"}
             /\ pc'[d] = "done" <=> answer'[d] # ""
             /\ bearer'[d] # NoCall
             /\ \A b : b = bearer'[d] => answer'[b] = "token"
  <2>1. PICK b \in Call :
           /\ answer[b] = "token" /\ bearer'[d] = b
           /\ \/ pc'[d] = "done" /\ answer'[d] = "unauthorized"
              \/ pc'[d] = "lookup" /\ answer'[d] = answer[d]
    BY <1>3, PresentStep
  <2>2. pc[d] = "idle" /\ op[d] \in {"me", "logout"}
    BY <1>3, PresentStep
  <2>3. answer[d] = ""
    BY <2>2 DEF Presented
  <2>4. answer'[b] = "token" /\ b # NoCall
    BY <2>1, AnsweredKept, NoCallAssumption
  <2>5. QED
    BY <2>1, <2>2, <2>3, <2>4
<1>4. ASSUME NEW d \in Call, ~Present(d)
      PROVE  bearer'[d] = bearer[d]
  BY <1>4, OwnSteps, OtherTokenSteps, OthersKept, NobodysSteps
<1>5. ASSUME NEW d \in Call
      PROVE  pc'[d] = "done" <=> answer'[d] # ""
  <2>1. pc[d] = "done" <=> answer[d] # ""
    BY DEF Presented
  <2>2. CASE Present(d)
    BY <1>3, <2>2
  <2>3. CASE Step(d) /\ ~Present(d)
    BY <2>1, <2>3, OwnSteps, OtherTokenSteps
  <2>4. CASE ~Step(d)
    BY <2>1, <2>4, OthersKept, NobodysSteps
  <2>5. QED
    BY <2>2, <2>3, <2>4
<1>6. ASSUME NEW d \in Call,
             \/ pc'[d] \in {"lookup", "me", "revoke"}
             \/ answer'[d] \in {"in", "missing", "out", "unauthorized"}
      PROVE  bearer'[d] # NoCall
  <2>1. CASE Present(d)
    BY <1>3, <2>1
  <2>2. CASE ~Present(d)
    <3>1. \/ pc[d] \in {"lookup", "me", "revoke"}
          \/ answer[d] \in {"in", "missing", "out", "unauthorized"}
      BY <1>6, <2>2, OwnSteps, OtherTokenSteps, OthersKept, NobodysSteps
    <3>2. QED
      BY <1>4, <2>2, <3>1 DEF Presented
  <2>3. QED
    BY <2>1, <2>2
<1>7. ASSUME NEW d \in Call, bearer'[d] # NoCall
      PROVE  pc'[d] # "idle" /\ \A b : b = bearer'[d] => answer'[b] = "token"
  <2>1. CASE Present(d)
    BY <1>3, <2>1
  <2>2. CASE ~Present(d)
    <3>1. bearer'[d] = bearer[d]
      BY <1>4, <2>2
    <3>2. pc[d] # "idle"
      BY <1>7, <3>1 DEF Presented
    <3>3. pc'[d] # "idle"
      BY <2>2, <3>2, OwnSteps, OtherTokenSteps, OthersKept, NobodysSteps
    <3>4. QED
      BY <1>2, <1>7, <3>1, <3>3
  <2>3. QED
    BY <2>1, <2>2
<1>8. ASSUME NEW d \in Call
      PROVE  /\ pc'[d] = "lookup" => op[d] \in {"me", "logout"}
             /\ pc'[d] = "revoke" => op[d] = "logout"
  <2>1. /\ pc[d] = "lookup" => op[d] \in {"me", "logout"}
        /\ pc[d] = "revoke" => op[d] = "logout"
    BY DEF Presented
  <2>2. CASE Present(d)
    BY <1>3, <2>2
  <2>3. CASE Step(d) /\ ~Present(d)
    BY <2>1, <2>3, OwnSteps, OtherTokenSteps
  <2>4. CASE ~Step(d)
    BY <2>1, <2>4, OthersKept, NobodysSteps
  <2>5. QED
    BY <2>2, <2>3, <2>4
<1>9. QED
  BY <1>1, <1>5, <1>6, <1>7, <1>8 DEF Presented

\* What a call presents, it presents to the end, and so was it barred or not.
LEMMA BearerKept ==
    ASSUME TypeOK, Presented, [Next]_vars, NEW d \in Call, bearer[d] # NoCall
    PROVE  bearer'[d] = bearer[d] /\ barred'[d] = barred[d]
<1>1. pc[d] # "idle"
  BY DEF Presented
<1>2. CASE Step(d)
  <2>1. ~Present(d)
    BY <1>1, PresentStep
  <2>2. QED
    BY <1>2, <2>1, OwnSteps, OtherTokenSteps
<1>3. CASE ~Step(d)
  BY <1>3, OthersKept, NobodysSteps
<1>4. QED
  BY <1>2, <1>3

\* A token that was logged out remains so.
LEMMA LoggedOutKept ==
    ASSUME TypeOK, Presented, [Next]_vars, NEW b \in Call, LoggedOut(b)
    PROVE  LoggedOut(b)'
<1>1. PICK d \in Call : /\ op[d] = "logout" /\ bearer[d] = b
                        /\ answer[d] \in {"out", "failed"}
  BY DEF LoggedOut
<1>2. answer'[d] = answer[d] /\ bearer'[d] = bearer[d]
  BY <1>1, AnsweredKept
<1>3. QED
  BY <1>1, <1>2, Inputs DEF LoggedOut

\* An issued token loses its session when it has ended, or to a logout with it.
LEMMA GoneWhy ==
    ASSUME TypeOK, Presented, Kept, [Next]_vars,
           NEW b \in Call, answer[b] = "token", ~Gone(b), Gone(b)'
    PROVE  clock >= expires[b] \/ LoggedOut(b)'
<1>1. op' = op /\ pc[b] = "done"
  BY Inputs DEF Presented
<1>2. ASSUME NEW c \in Call, pc[c] = "revoke", Revoked(bearer[c]),
             answer'[c] \in {"out", "failed"}, bearer'[c] = bearer[c]
      PROVE  LoggedOut(b)'
  <2>1. bearer[c] = b
    BY <1>2 DEF Revoked, Gone, TypeOK
  <2>2. op[c] = "logout"
    BY <1>2 DEF Presented
  <2>3. QED
    BY <1>1, <1>2, <2>1, <2>2 DEF LoggedOut
<1>3. ASSUME NEW c \in Call, Step(c) PROVE clock >= expires[b] \/ LoggedOut(b)'
  <2>1. CASE UNCHANGED sessions
    BY <2>1 DEF Gone
  <2>2. CASE pc[c] = "insert" /\ Opened(c)
    BY <1>1, <2>2 DEF Opened, Gone, TypeOK
  <2>3. QED
    BY <1>2, <1>3, <2>1, <2>2, OwnSteps, OtherTokenSteps, PresentStep
<1>4. CASE PurgeExpiredSessions
  <2>1. Purgeable(b)
    BY <1>4 DEF PurgeExpiredSessions, Gone
  <2>2. sessions[b] \in Session /\ sessions[b].expires < clock
    BY <2>1 DEF Purgeable, Gone, TypeOK
  <2>3. expires[b] < clock
    BY <2>2 DEF Kept, Gone
  <2>4. expires[b] \in Nat /\ clock \in Nat
    BY DEF TypeOK
  <2>5. QED
    BY <2>3, <2>4
<1>5. CASE UNCHANGED sessions
  BY <1>5 DEF Gone
<1>6. QED
  BY <1>3, <1>4, <1>5 DEF Next, Seed, Administer, Tick, Terminated, vars, rows

\* The row of an issued token.
LEMMA KeptStep ==
    ASSUME TypeOK, Presented, Kept, [Next]_vars
    PROVE  Kept'
<1>1. ASSUME NEW b \in Call, sessions'[b] # NoSession
      PROVE  pc'[b] = "done" /\ sessions'[b].expires = expires'[b]
  <2>1. ASSUME sessions[b] # NoSession,
               sessions'[b].expires = sessions[b].expires
        PROVE  pc'[b] = "done" /\ sessions'[b].expires = expires'[b]
    <3>1. pc[b] = "done" /\ answer[b] # "" /\ sessions[b].expires = expires[b]
      BY <2>1 DEF Kept, Presented
    <3>2. QED
      BY <2>1, <3>1, AnsweredKept
  <2>2. CASE UNCHANGED sessions
    BY <1>1, <2>1, <2>2
  <2>3. ASSUME NEW e, Revoked(e)
        PROVE  /\ sessions[b] # NoSession
               /\ sessions'[b].expires = sessions[b].expires
    <3>1. CASE UNCHANGED sessions
      BY <1>1, <3>1
    <3>2. CASE /\ sessions[e] # NoSession
               /\ sessions' = [sessions EXCEPT ![e].revoked = TRUE]
      <4>1. CASE b # e
        BY <1>1, <3>2, <4>1 DEF TypeOK
      <4>2. CASE b = e
        <5>1. sessions[b] \in Session
          BY <3>2, <4>2 DEF TypeOK
        <5>2. sessions'[b] = [sessions[b] EXCEPT !.revoked = TRUE]
          BY <3>2, <4>2 DEF TypeOK
        <5>3. QED
          BY <3>2, <4>2, <5>1, <5>2 DEF Session
      <4>3. QED
        BY <4>1, <4>2
    <3>3. QED
      BY <2>3, <3>1, <3>2 DEF Revoked
  <2>4. ASSUME NEW c \in Call, Opened(c), pc'[c] = "done", expires'[c] = expires[c]
        PROVE  pc'[b] = "done" /\ sessions'[b].expires = expires'[b]
    <3>1. CASE b = c
      BY <2>4, <3>1 DEF Opened, TypeOK
    <3>2. CASE b # c
      <4>1. sessions'[b] = sessions[b]
        BY <2>4, <3>2 DEF Opened, TypeOK
      <4>2. QED
        BY <1>1, <2>1, <4>1
    <3>3. QED
      BY <3>1, <3>2
  <2>5. CASE PurgeExpiredSessions
    <3>1. sessions'[b] = sessions[b]
      BY <1>1, <2>5 DEF PurgeExpiredSessions
    <3>2. QED
      BY <1>1, <2>1, <3>1
  <2>6. ASSUME NEW c \in Call, Step(c)
        PROVE  pc'[b] = "done" /\ sessions'[b].expires = expires'[b]
    BY <2>1, <2>2, <2>3, <2>4, <2>6, OwnSteps, OtherTokenSteps, PresentStep
  <2>7. QED
    BY <2>2, <2>5, <2>6 DEF Next, Seed, Administer, Tick, Terminated, vars, rows
<1>2. ASSUME NEW b \in Call, answer'[b] = "token", Gone(b)'
      PROVE  clock' >= expires'[b] \/ LoggedOut(b)'
  <2>1. CASE answer[b] = "token"
    <3>1. clock >= expires[b] \/ LoggedOut(b) \/ LoggedOut(b)'
      BY <1>2, <2>1, GoneWhy DEF Kept
    <3>2. LoggedOut(b) => LoggedOut(b)'
      BY LoggedOutKept
    <3>3. expires'[b] = expires[b] /\ expires[b] \in Nat
      BY <2>1, AnsweredKept DEF TypeOK
    <3>4. clock \in Nat /\ clock' \in Nat /\ clock' >= clock
      BY ClockForward
    <3>5. QED
      BY <3>1, <3>2, <3>3, <3>4
  <2>2. CASE answer[b] # "token"
    <3>1. CreateSession(b)
      BY <1>2, <2>2, OwnSteps, OtherTokenSteps, PresentStep, OthersKept,
         NobodysSteps
    <3>2. Opened(b)
      BY <3>1, OtherTokenSteps
    <3>3. sessions'[b] = [expires |-> expires[b], revoked |-> FALSE]
      BY <3>2 DEF Opened, TypeOK
    <3>4. sessions'[b] \in Session /\ ~sessions'[b].revoked
      BY <3>3 DEF TypeOK, Session
    <3>5. QED
      BY <1>2, <3>4, NoSessionAssumption DEF Gone
  <2>3. QED
    BY <2>1, <2>2
<1>3. QED
  BY <1>1, <1>2 DEF Kept

\* What was dead stays dead.
LEMMA StaysDeadStep ==
    ASSUME TypeOK, Presented, StaysDead, [Next]_vars
    PROVE  StaysDead'
<1>1. ASSUME NEW d \in Call, NEW b, b = bearer[d], b # NoCall
      PROVE  /\ b \in Call /\ answer[b] = "token"
             /\ bearer'[d] = b /\ barred'[d] = barred[d]
             /\ Gone(b) => Gone(b)'
             /\ clock >= expires[b] => clock' >= expires'[b]
  <2>1. b \in Call /\ answer[b] = "token"
    BY <1>1 DEF TypeOK, Presented
  <2>2. bearer'[d] = b /\ barred'[d] = barred[d]
    BY <1>1, BearerKept
  <2>3. Gone(b) => Gone(b)'
    BY <2>1, GoneKept
  <2>4. expires'[b] = expires[b] /\ expires[b] \in Nat
    BY <2>1, AnsweredKept DEF TypeOK
  <2>5. QED
    BY <2>1, <2>2, <2>3, <2>4, ClockForward
<1>2. ASSUME NEW d \in Call, answer'[d] = "out", NEW b, b = bearer'[d]
      PROVE  Gone(b)'
  <2>1. CASE answer[d] = "out"
    <3>1. bearer[d] # NoCall /\ Gone(bearer[d])
      BY <2>1 DEF Presented, StaysDead
    <3>2. QED
      BY <1>1, <1>2, <3>1
  <2>2. CASE answer[d] # "out"
    <3>1. Logout(d)
      BY <1>2, <2>2, OwnSteps, OtherTokenSteps, PresentStep, OthersKept,
         NobodysSteps
    <3>2. pc[d] = "revoke" /\ Revoked(bearer[d]) /\ bearer' = bearer
      BY <3>1, OtherTokenSteps
    <3>3. b = bearer[d] /\ b # NoCall
      BY <1>2, <3>2 DEF Presented
    <3>4. b \in Call
      BY <3>3 DEF TypeOK
    <3>5. QED
      BY <3>2, <3>3, <3>4 DEF Revoked, Gone, TypeOK, Session
  <2>3. QED
    BY <2>1, <2>2
<1>3. ASSUME NEW d \in Call, barred'[d], NEW b, b = bearer'[d]
      PROVE  b # NoCall /\ (Gone(b)' \/ clock' >= expires'[b])
  <2>1. CASE barred[d]
    <3>1. /\ bearer[d] # NoCall
          /\ Gone(bearer[d]) \/ clock >= expires[bearer[d]]
      BY <2>1 DEF StaysDead
    <3>2. QED
      BY <1>1, <1>3, <3>1
  <2>2. CASE ~barred[d]
    <3>1. Present(d)
      BY <1>3, <2>2, OwnSteps, OtherTokenSteps, OthersKept, NobodysSteps
    <3>2. /\ b \in Call /\ Dead(b)
          /\ UNCHANGED <<sessions, clock, expires>>
      BY <1>3, <3>1, PresentStep
    <3>3. Gone(b) \/ clock >= expires[b]
      BY <3>2 DEF Dead, StaysDead
    <3>4. QED
      BY <3>2, <3>3, NoCallAssumption DEF Gone
  <2>3. QED
    BY <2>1, <2>2
<1>4. QED
  BY <1>2, <1>3 DEF StaysDead

\* A barred request does not get past the middleware.
LEMMA BarredStep ==
    ASSUME TypeOK, Presented, Kept, StaysDead, BarredStaysOut, [Next]_vars
    PROVE  BarredStaysOut'
<1> SUFFICES ASSUME NEW d \in Call, barred'[d]
             PROVE  /\ pc'[d] \notin {"me", "revoke"}
                    /\ answer'[d] \notin {"in", "missing", "out"}
  BY DEF BarredStaysOut
<1>1. CASE barred[d]
  <2>1. /\ pc[d] \notin {"me", "revoke"}
        /\ answer[d] \notin {"in", "missing", "out"}
    BY <1>1 DEF BarredStaysOut
  <2>2. ~Valid(bearer[d])
    <3>1. bearer[d] \in Call /\ answer[bearer[d]] = "token"
      BY <1>1 DEF StaysDead, Presented, TypeOK
    <3>2. CASE Gone(bearer[d])
      BY <3>2 DEF Gone, Valid
    <3>3. CASE ~Gone(bearer[d])
      <4>1. clock >= expires[bearer[d]]
        BY <1>1, <3>3 DEF StaysDead
      <4>2. sessions[bearer[d]].expires = expires[bearer[d]]
        BY <3>1, <3>3 DEF Kept, Gone
      <4>3. clock \in Nat /\ expires[bearer[d]] \in Nat
        BY <3>1 DEF TypeOK
      <4>4. ~(sessions[bearer[d]].expires > clock)
        BY <4>1, <4>2, <4>3
      <4>5. QED
        BY <4>4 DEF Valid
    <3>4. QED
      BY <3>2, <3>3
  <2>3. ~Present(d)
    BY <1>1, PresentStep DEF StaysDead, Presented
  <2>4. CASE Step(d)
    BY <2>1, <2>2, <2>3, <2>4, OwnSteps, OtherTokenSteps
  <2>5. CASE ~Step(d)
    BY <2>1, <2>5, OthersKept, NobodysSteps
  <2>6. QED
    BY <2>4, <2>5
<1>2. CASE ~barred[d]
  <2>1. Present(d)
    BY <1>2, OwnSteps, OtherTokenSteps, OthersKept, NobodysSteps
  <2>2. answer[d] = ""
    BY <2>1, PresentStep DEF Presented
  <2>3. QED
    BY <2>1, <2>2, PresentStep
<1>3. QED
  BY <1>1, <1>2

\* A token that is presented was issued.
LEMMA Borne ==
    ASSUME TypeOK, Presented, NEW d \in Call, bearer[d] # NoCall
    PROVE  bearer[d] \in Call /\ answer[bearer[d]] = "token"
<1>1. bearer[d] \in Call
  BY DEF TypeOK
<1>2. QED
  BY <1>1 DEF Presented

\* A token is refused only when it has ended or was logged out.
LEMMA LiveStep ==
    ASSUME TypeOK, Presented, Kept, LiveIsAccepted, [Next]_vars
    PROVE  LiveIsAccepted'
<1> SUFFICES ASSUME NEW d \in Call, answer'[d] = "unauthorized",
                    NEW b, b = bearer'[d]
             PROVE  clock' >= expires'[b] \/ LoggedOut(b)'
  BY DEF LiveIsAccepted
<1>1. ASSUME b \in Call, answer[b] = "token",
             clock >= expires[b] \/ LoggedOut(b)
      PROVE  clock' >= expires'[b] \/ LoggedOut(b)'
  <2>1. expires'[b] = expires[b] /\ expires[b] \in Nat
    BY <1>1, AnsweredKept DEF TypeOK
  <2>2. CASE clock >= expires[b]
    BY <2>1, <2>2, ClockForward
  <2>3. CASE LoggedOut(b)
    BY <1>1, <2>3, LoggedOutKept
  <2>4. QED
    BY <1>1, <2>2, <2>3
<1>2. CASE answer[d] = "unauthorized"
  <2>1. bearer[d] # NoCall
    BY <1>2 DEF Presented
  <2>2. bearer'[d] = bearer[d]
    BY <2>1, BearerKept
  <2>3. b \in Call /\ answer[b] = "token"
    BY <2>1, <2>2, Borne
  <2>4. clock >= expires[b] \/ LoggedOut(b)
    BY <1>2, <2>2 DEF LiveIsAccepted
  <2>5. QED
    BY <1>1, <2>3, <2>4
<1>3. CASE answer[d] # "unauthorized"
  <2>1. Present(d) \/ LookUp(d)
    BY <1>3, OwnSteps, OtherTokenSteps, OthersKept, NobodysSteps
  <2>2. CASE Present(d)
    <3>1. answer[d] = ""
      BY <2>2, PresentStep DEF Presented
    <3>2. b \in Call /\ answer[b] = "token" /\ Over(b)
      BY <2>2, <3>1, PresentStep
    <3>3. clock \in Nat /\ expires[b] \in Nat
      BY <3>2 DEF TypeOK
    <3>4. clock >= expires[b]
      BY <3>2, <3>3, WholeSeconds DEF Over
    <3>5. QED
      BY <1>1, <3>2, <3>4
  <2>3. CASE LookUp(d)
    <3>1. pc[d] = "lookup" /\ bearer' = bearer
      BY <2>3, OtherTokenSteps
    <3>2. b \in Call /\ answer[b] = "token"
      BY <3>1, Borne DEF Presented
    <3>3. ~Valid(b)
      BY <1>3, <2>3, <3>1, OtherTokenSteps
    <3>4. CASE Gone(b)
      BY <1>1, <3>2, <3>4 DEF Kept
    <3>5. CASE ~Gone(b)
      <4>1. ~(expires[b] > clock)
        BY <3>2, <3>3, <3>5 DEF Valid, Gone, Kept
      <4>2. clock \in Nat /\ expires[b] \in Nat
        BY <3>2 DEF TypeOK
      <4>3. clock >= expires[b]
        BY <4>1, <4>2
      <4>4. QED
        BY <1>1, <3>2, <4>3
    <3>6. QED
      BY <3>4, <3>5
  <2>4. QED
    BY <2>1, <2>2, <2>3
<1>4. QED
  BY <1>2, <1>3

-----------------------------------------------------------------------------
(* The invariant and what follows from it.                                  *)

LEMMA IInvInit == Init => IInv
<1> SUFFICES ASSUME Init PROVE IInv
  OBVIOUS
<1>1. DOMAIN users = {}
  <2>1. users = <<>>
    BY DEF Init
  <2>2. DOMAIN <<>> = {}
    OBVIOUS
  <2>3. QED
    BY <2>1, <2>2
<1>2. Accounts /\ OneOwner
  BY <1>1 DEF Init, Accounts, OneOwner, Registered, Live
<1>3. Presented /\ Kept /\ StaysDead
  BY DEF Init, Presented, Kept, StaysDead
<1>4. BarredStaysOut /\ LiveIsAccepted
  BY DEF Init, BarredStaysOut, LiveIsAccepted
<1>5. QED
  BY <1>2, <1>3, <1>4 DEF IInv

LEMMA IInvStep == TypeOK /\ IInv /\ [Next]_vars => IInv'
<1> SUFFICES ASSUME TypeOK, IInv, [Next]_vars PROVE IInv'
  OBVIOUS
<1>1. Accounts' /\ OneOwner'
  BY OwnersStep DEF IInv, Owners
<1>2. Presented' /\ Kept' /\ StaysDead'
  BY PresentedStep, KeptStep, StaysDeadStep DEF IInv
<1>3. BarredStaysOut' /\ LiveIsAccepted'
  BY BarredStep, LiveStep DEF IInv
<1>4. QED
  BY <1>1, <1>2, <1>3 DEF IInv

\* The strengthening of the three properties below.
THEOREM IInvCorrect == Spec => []IInv
BY TypeCorrect, IInvInit, IInvStep, PTL DEF Spec

\* Racing registrations never share an account, one account holds the email, and
\* a login needs a password the account has had.
THEOREM OneOwnerCorrect == Spec => []OneOwner
<1>1. IInv => OneOwner
  BY DEF IInv
<1>2. QED
  BY <1>1, IInvCorrect, PTL

\* What comes with a dead token never gets past the middleware.
THEOREM BarredStaysOutCorrect == Spec => []BarredStaysOut
<1>1. IInv => BarredStaysOut
  BY DEF IInv
<1>2. QED
  BY <1>1, IInvCorrect, PTL

\* A token is refused only when it has ended or a logout with it got through,
\* whatever the ratio of its lifetime to the seconds of its claim.
THEOREM LiveIsAcceptedCorrect == Spec => []LiveIsAccepted
<1>1. IInv => LiveIsAccepted
  BY DEF IInv
<1>2. QED
  BY <1>1, IInvCorrect, PTL
=============================================================================
