--------------------------- MODULE AccountsProofs ---------------------------
(* Theorems about Accounts, for any accounts, sessions and requests. *)
EXTENDS Accounts, TLAPS

USE AccountAssumption

Living == {"admin", "member"}

\* What the fields of a request hold, by its kind.
LEMMA OpFields ==
  ASSUME NEW o \in Ops
  PROVE  /\ o.kind = "create" => o.role \in Living /\ o.new \in Passwords
         /\ o.kind = "update" => /\ o.target \in Users /\ o.role \in Living
                                 /\ o.new \in Passwords \cup {Keep}
         /\ o.kind = "setPublic" => o.target \in Users \cup {None}
         /\ o.kind = "password" => o.new \in Passwords
         /\ o.kind = "login" => o.old \in Passwords
BY DEF Ops, NoOp, AdminOps, OwnOps, LoginOps, Asks, Living

\* The account and the kind of a request in the stages that use them.
Stages ==
  \A r \in Reqs :
    /\ pc[r] # "idle" => user[r] \in Users
    /\ pc[r] = "opening" => op[r].kind = "login"
    /\ pc[r] = "verified" => op[r].kind = "password"
    /\ pc[r] \in {"choose", "chosen"} => op[r].kind = "setPublic"

Typed == TypeOK /\ Stages

\* A request that is done leaves well-typed traces.
LEMMA ForgetTyped ==
  ASSUME Typed, NEW r \in Reqs, Forget(r),
         \/ pc[r] # "verified" /\ mutationMu \in {None, mutationMu'} /\ mutationMu' = mutationMu
         \/ pc[r] # "verified" /\ mutationMu = None /\ mutationMu' = None
         \/ pc[r] = "verified" /\ mutationMu' = None,
         late' \subseteq Tokens
  PROVE  ProcessTypes' /\ MutexTypes' /\ Stages'
<1>1. ProcessTypes' BY DEF Typed, TypeOK, ProcessTypes, Forget, Ops
<1>2. MutexTypes'
  BY DEF Typed, TypeOK, ProcessTypes, MutexTypes, Forget
<1>3. Stages' BY DEF Typed, TypeOK, ProcessTypes, Stages, Forget
<1> QED BY <1>1, <1>2, <1>3

\* Ending sessions keeps their types.
LEMMA EndTypes ==
  ASSUME StoredTypes, late \subseteq Tokens, NEW ts, End(ts)
  PROVE  /\ holder' \in [Tokens -> Users \cup {None}]
         /\ proof' \in [Tokens -> Passwords]
         /\ late' \subseteq Tokens
BY DEF StoredTypes, End

\* The arrival of a request.
LEMMA ArriveTyped ==
  ASSUME Typed, NEW r \in Reqs, NEW u \in Users, NEW o \in Ops,
         NEW stage \in {"wait", "visit", "opening", "choose"},
         Arrive(r, u, stage, o),
         stage = "opening" => o.kind = "login",
         stage = "choose" => o.kind = "setPublic"
  PROVE  Typed'
<1>1. StoredTypes' BY DEF Typed, TypeOK, StoredTypes, Arrive, accounts, sessions
<1>2. ProcessTypes' BY DEF Typed, TypeOK, ProcessTypes, Arrive, sessions
<1>3. MutexTypes' BY DEF Typed, TypeOK, ProcessTypes, MutexTypes, Arrive
<1>4. Stages' BY DEF Typed, TypeOK, ProcessTypes, Stages, Arrive
<1> QED BY <1>1, <1>2, <1>3, <1>4 DEF Typed, TypeOK

\* Every way for a request to arrive keeps the types.
LEMMA ArrivalsTyped ==
  ASSUME Typed, NEW r \in Reqs, Arrivals(r)
  PROVE  Typed'
<1>1. CASE \E t \in Tokens, o \in AdminOps \cup OwnOps : Begin(r, t, o)
  <2> PICK t \in Tokens, o \in AdminOps \cup OwnOps : Begin(r, t, o)
    BY <1>1
  <2> DEFINE stage == IF o.kind = "setPublic" THEN "choose" ELSE "wait"
  <2>1. holder[t] \in Users BY DEF Begin, Accepted, Active, Exists
  <2>2. o \in Ops BY DEF Ops
  <2>3. Arrive(r, holder[t], stage, o) BY DEF Begin
  <2>4. stage \in {"wait", "visit", "opening", "choose"} /\ stage # "opening"
        /\ (stage = "choose" => o.kind = "setPublic")
    OBVIOUS
  <2> HIDE DEF stage
  <2> QED BY <2>1, <2>2, <2>3, <2>4, ArriveTyped
<1>2. CASE \E u \in Users, o \in LoginOps : Login(r, u, o)
  <2> PICK u \in Users, o \in LoginOps : Login(r, u, o)
    BY <1>2
  <2>1. o \in Ops /\ o.kind = "login" BY DEF Ops, LoginOps, Asks
  <2>2. Arrive(r, u, "opening", o) BY DEF Login
  <2> QED BY <2>1, <2>2, ArriveTyped
<1>3. CASE Visit(r)
  <2>1. public \in Users BY <1>3 DEF Visit, Active, Exists
  <2>2. NoOp \in Ops BY DEF Ops
  <2>3. Arrive(r, public, "visit", NoOp) BY <1>3 DEF Visit
  <2> QED BY <2>1, <2>2, <2>3, ArriveTyped
<1> QED BY <1>1, <1>2, <1>3 DEF Arrivals

\* Every step of a request in the server keeps the types.
LEMMA StepTyped ==
  ASSUME Typed, NEW r \in Reqs, Step(r)
  PROVE  Typed'
<1> USE DEF Typed, TypeOK
<1>0. op[r] \in Ops BY DEF ProcessTypes
<1>1. CASE Visited(r) \/ Fail(r)
  <2>1. StoredTypes' BY <1>1 DEF Visited, Fail, StoredTypes, accounts, sessions
  <2>2. ProcessTypes' /\ MutexTypes' /\ Stages'
    BY <1>1, ForgetTyped DEF Visited, Fail, sessions, ProcessTypes, MutexTypes
  <2> QED BY <2>1, <2>2
<1>2. CASE OpenSession(r)
  <2> PICK t \in Tokens :
        /\ holder' = [holder EXCEPT ![t] = user[r]]
        /\ proof' = [proof EXCEPT ![t] = op[r].old]
        /\ late' = IF op[r].old = password[user[r]] THEN late ELSE late \cup {t}
    BY <1>2 DEF OpenSession
  <2>1. user[r] \in Users /\ op[r].old \in Passwords
    BY <1>2, <1>0, OpFields DEF OpenSession, Stages
  <2>2. StoredTypes' BY <1>2, <2>1 DEF OpenSession, StoredTypes, accounts
  <2>3. ProcessTypes' /\ MutexTypes' /\ Stages'
    BY <1>2, ForgetTyped DEF OpenSession, ProcessTypes
  <2> QED BY <2>2, <2>3
<1>3. CASE Create(r)
  <2>1. op[r].role \in Living /\ op[r].new \in Passwords
    BY <1>3, <1>0, OpFields DEF Create, Turn
  <2>2. StoredTypes' BY <1>3, <2>1 DEF Create, StoredTypes, sessions, Living
  <2>3. ProcessTypes' /\ MutexTypes' /\ Stages'
    BY <1>3, ForgetTyped DEF Create, Turn, Return, sessions, ProcessTypes
  <2> QED BY <2>2, <2>3
<1>4. CASE Deletes(r)
  <2>1. StoredTypes' BY <1>4 DEF Deletes, StoredTypes, sessions
  <2>2. ProcessTypes' /\ MutexTypes' /\ Stages'
    BY <1>4, ForgetTyped DEF Deletes, Turn, Return, sessions, ProcessTypes
  <2> QED BY <2>1, <2>2
<1>5. CASE Update(r)
  <2>1. op[r].role \in Living /\ op[r].new \in Passwords \cup {Keep}
    BY <1>5, <1>0, OpFields DEF Update, Turn
  <2>2. late' \subseteq Tokens /\ holder' \in [Tokens -> Users \cup {None}]
        /\ proof' \in [Tokens -> Passwords]
    <3>1. CASE op[r].new # Keep
      BY <1>5, <3>1, EndTypes DEF Update, Revoke, ProcessTypes
    <3>2. CASE op[r].new = Keep
      BY <1>5, <3>2 DEF Update, StoredTypes, ProcessTypes, sessions
    <3> QED BY <3>1, <3>2
  <2>3. role' \in [Users -> {"none", "admin", "member", "gone"}]
    BY <1>5, <2>1 DEF Update, StoredTypes, Living
  <2>4. password' \in [Users -> Passwords]
    BY <1>5, <2>1 DEF Update, StoredTypes
  <2>5. StoredTypes' BY <1>5, <2>2, <2>3, <2>4 DEF Update, StoredTypes
  <2>6. ProcessTypes' /\ MutexTypes' /\ Stages'
    BY <1>5, <2>2, ForgetTyped DEF Update, Turn, Return
  <2> QED BY <2>5, <2>6
<1>6. CASE Verify(r)
  <2>1. StoredTypes' BY <1>6 DEF Verify, StoredTypes, accounts, sessions
  <2>2. ProcessTypes' BY <1>6 DEF Verify, Turn, ProcessTypes, sessions
  <2>3. MutexTypes' BY <1>6 DEF Verify, Turn, ProcessTypes, MutexTypes
  <2>4. Stages' BY <1>6 DEF Verify, Turn, Stages, ProcessTypes
  <2> QED BY <2>1, <2>2, <2>3, <2>4
<1>7. CASE UpdatePassword(r)
  <2>1. user[r] \in Users /\ op[r].new \in Passwords
    BY <1>7, <1>0, OpFields DEF UpdatePassword, Stages
  <2>2. late' \subseteq Tokens /\ holder' \in [Tokens -> Users \cup {None}]
        /\ proof' \in [Tokens -> Passwords]
    BY <1>7, EndTypes DEF UpdatePassword, Revoke, ProcessTypes
  <2>3. StoredTypes' BY <1>7, <2>1, <2>2 DEF UpdatePassword, StoredTypes
  <2>4. ProcessTypes' /\ MutexTypes' /\ Stages'
    BY <1>7, <2>2, ForgetTyped DEF UpdatePassword, Return
  <2> QED BY <2>3, <2>4
<1>8. CASE Choose(r)
  <2>1. StoredTypes' BY <1>8 DEF Choose, StoredTypes, accounts, sessions
  <2>2. ProcessTypes' BY <1>8 DEF Choose, ProcessTypes, sessions
  <2>3. MutexTypes' BY <1>8 DEF Choose, ProcessTypes, MutexTypes
  <2>4. Stages' BY <1>8 DEF Choose, Stages, ProcessTypes
  <2> QED BY <2>1, <2>2, <2>3, <2>4
<1>9. CASE SetPublicVisitUser(r)
  <2>1. op[r].target \in Users \cup {None}
    BY <1>9, <1>0, OpFields DEF SetPublicVisitUser, Stages
  <2>2. StoredTypes' BY <1>9, <2>1 DEF SetPublicVisitUser, StoredTypes, accounts, sessions
  <2>3. ProcessTypes' /\ MutexTypes' /\ Stages'
    BY <1>9, ForgetTyped DEF SetPublicVisitUser, sessions, ProcessTypes
  <2> QED BY <2>2, <2>3
<1> QED
  BY <1>1, <1>2, <1>3, <1>4, <1>5, <1>6, <1>7, <1>8, <1>9 DEF Step

\* So do the ends of sessions and the command line.
LEMMA OtherTyped ==
  ASSUME Typed, CommandLine \/ \E t \in Tokens : Logout(t) \/ Expire(t)
  PROVE  Typed'
<1> USE DEF Typed, TypeOK
<1>1. CASE \E t \in Tokens : Logout(t) \/ Expire(t)
  <2> PICK t \in Tokens : End({t}) /\ UNCHANGED <<accounts, public, requests, reset>>
    BY <1>1 DEF Logout, Expire
  <2>1. late \subseteq Tokens /\ StoredTypes BY DEF ProcessTypes
  <2>2. StoredTypes' BY <2>1, EndTypes DEF StoredTypes, accounts
  <2>3. ProcessTypes' BY <2>1, EndTypes DEF ProcessTypes, requests
  <2>4. MutexTypes' /\ Stages' BY DEF MutexTypes, Stages, requests
  <2> QED BY <2>2, <2>3, <2>4
<1>2. CASE \E u \in Users : ResetPassword(u)
  <2>1. StoredTypes' BY <1>2 DEF ResetPassword, StoredTypes, sessions
  <2>2. ProcessTypes' /\ MutexTypes' /\ Stages'
    BY <1>2 DEF ResetPassword, ProcessTypes, MutexTypes, Stages, sessions, requests
  <2> QED BY <2>1, <2>2
<1>3. CASE RevokeAfterReset
  <2>1. late \subseteq Tokens /\ StoredTypes BY DEF ProcessTypes
  <2>2. StoredTypes'
    BY <1>3, <2>1, EndTypes DEF RevokeAfterReset, Revoke, StoredTypes, accounts
  <2>3. ProcessTypes'
    BY <1>3, <2>1, EndTypes DEF RevokeAfterReset, Revoke, ProcessTypes, requests
  <2>4. MutexTypes' /\ Stages' BY <1>3 DEF RevokeAfterReset, MutexTypes, Stages, requests
  <2> QED BY <2>2, <2>3, <2>4
<1>4. CASE RevokeFails
  BY <1>4 DEF RevokeFails, StoredTypes, ProcessTypes, MutexTypes, Stages, accounts, requests
<1> QED BY <1>1, <1>2, <1>3, <1>4 DEF CommandLine

\* The types and the stages of requests are an inductive invariant.
THEOREM TypedInvariant == Spec => []Typed
<1>1. Init => Typed
  BY DEF Init, Typed, TypeOK, StoredTypes, ProcessTypes, MutexTypes, Stages, Ops
<1>2. Typed /\ [Next]_vars => Typed'
  <2> SUFFICES ASSUME Typed, [Next]_vars
               PROVE  Typed'
    OBVIOUS
  <2>1. CASE \E r \in Reqs : Arrivals(r) \/ Step(r)
    BY <2>1, ArrivalsTyped, StepTyped
  <2>2. CASE CommandLine \/ \E t \in Tokens : Logout(t) \/ Expire(t)
    BY <2>2, OtherTyped
  <2>3. CASE UNCHANGED vars
    BY <2>3 DEF vars, accounts, sessions, requests, Typed, TypeOK, StoredTypes, ProcessTypes,
                MutexTypes, Stages
  <2> QED BY <2>1, <2>2, <2>3 DEF Next
<1> QED BY <1>1, <1>2, PTL DEF Spec

\* Every variable keeps its type, and the mutex is held exactly while a change of
\* password is between its verification and its write.
THEOREM TypeCorrect == Spec => []TypeOK
<1>1. Typed => TypeOK BY DEF Typed
<1> QED BY <1>1, TypedInvariant, PTL

-----------------------------------------------------------------------------
(***************************************************************************)
(* Administrators.  Only three steps write a role: Create never touches an *)
(* account that exists, Deletes and Update count again after they wrote.   *)
(***************************************************************************)

\* With any number of requests under way, and whatever the status of the other
\* accounts is, an administrator with status 1 remains.
THEOREM AnAdminRemains == Spec => []KeepsAnAdmin
<1>1. Init => KeepsAnAdmin
  BY DEF Init, KeepsAnAdmin
<1>2. Typed /\ KeepsAnAdmin /\ [Next]_vars => KeepsAnAdmin'
  <2> SUFFICES ASSUME Typed, KeepsAnAdmin, [Next]_vars
               PROVE  KeepsAnAdmin'
    OBVIOUS
  <2>1. ASSUME NEW r \in Reqs, Create(r)
        PROVE  KeepsAnAdmin'
    <3> PICK u \in Users : role[u] = "none" /\ role' = [role EXCEPT ![u] = op[r].role]
      BY <2>1 DEF Create
    <3> PICK a \in Users \ Disabled : role[a] = "admin"
      BY DEF KeepsAnAdmin, KeepsOne
    <3>1. role'[a] = "admin" BY DEF Typed, TypeOK, StoredTypes
    <3> QED BY <3>1 DEF KeepsAnAdmin, KeepsOne
  <2>2. ASSUME NEW r \in Reqs, Deletes(r) \/ Update(r)
        PROVE  KeepsAnAdmin'
    BY <2>2 DEF Deletes, Update, KeepsAnAdmin, KeepsOne
  <2>3. CASE UNCHANGED role
    BY <2>3 DEF KeepsAnAdmin, KeepsOne
  <2>4. ASSUME NEW r \in Reqs, Arrivals(r)
        PROVE  UNCHANGED role
    BY <2>4 DEF Arrivals, Begin, Login, Visit, Arrive, accounts
  <2>5. ASSUME NEW r \in Reqs, Step(r), ~Create(r), ~Deletes(r), ~Update(r)
        PROVE  UNCHANGED role
    BY <2>5 DEF Step, Visited, Fail, OpenSession, Verify, UpdatePassword, Choose,
                SetPublicVisitUser, accounts
  <2>6. CASE CommandLine \/ \E t \in Tokens : Logout(t) \/ Expire(t)
    BY <2>3, <2>6 DEF CommandLine, ResetPassword, RevokeAfterReset, RevokeFails, Logout,
                      Expire, accounts
  <2>7. CASE UNCHANGED vars
    BY <2>3, <2>7 DEF vars, accounts
  <2> QED BY <2>1, <2>2, <2>3, <2>4, <2>5, <2>6, <2>7 DEF Next
<1> QED BY <1>1, <1>2, TypedInvariant, PTL DEF Spec

-----------------------------------------------------------------------------
(***************************************************************************)
(* Sessions and passwords.                                                 *)
(***************************************************************************)

\* An id with a session, a request or a reset has a row, so no row that is
\* created later gets its password under an older session.
Born ==
  /\ \A t \in Tokens : holder[t] # None => role[holder[t]] # "none"
  /\ \A r \in Reqs : pc[r] = "opening" => role[user[r]] # "none"

Sound == Typed /\ Born /\ SessionsKnowThePassword

\* A row is born once and never unborn.
LEMMA BornStays ==
  ASSUME Typed, [Next]_vars, NEW u \in Users, role[u] # "none"
  PROVE  role'[u] # "none"
<1> USE DEF Typed, TypeOK, StoredTypes
<1>1. ASSUME NEW r \in Reqs, Create(r) \/ Update(r)
      PROVE  role'[u] # "none"
  <2>1. op[r] \in Ops BY DEF ProcessTypes
  <2>2. op[r].role \in Living BY <1>1, <2>1, OpFields DEF Create, Update, Turn
  <2> QED BY <1>1, <2>2 DEF Create, Update, Living
<1>2. ASSUME NEW r \in Reqs, Deletes(r)
      PROVE  role'[u] # "none"
  BY <1>2 DEF Deletes
<1>3. ASSUME NEW r \in Reqs, Arrivals(r)
      PROVE  UNCHANGED role
  BY <1>3 DEF Arrivals, Begin, Login, Visit, Arrive, accounts
<1>4. ASSUME NEW r \in Reqs, Step(r), ~Create(r), ~Deletes(r), ~Update(r)
      PROVE  UNCHANGED role
  BY <1>4 DEF Step, Visited, Fail, OpenSession, Verify, UpdatePassword, Choose,
              SetPublicVisitUser, accounts
<1>5. CASE CommandLine \/ \E t \in Tokens : Logout(t) \/ Expire(t)
  BY <1>5 DEF CommandLine, ResetPassword, RevokeAfterReset, RevokeFails, Logout,
              Expire, accounts
<1>6. CASE UNCHANGED vars
  BY <1>6 DEF vars, accounts
<1> QED BY <1>1, <1>2, <1>3, <1>4, <1>5, <1>6 DEF Next

\* A step that only ends sessions, and changes the password of at most one account
\* whose sessions it ends.
LEMMA RevokingStep ==
  ASSUME Sound, [Next]_vars, NEW u \in Users, Revoke(u), reset' = reset,
         \A v \in Users \ {u} : password'[v] = password[v],
         \A r \in Reqs : pc'[r] = "opening" => pc[r] = "opening" /\ user'[r] = user[r]
  PROVE  Born' /\ SessionsKnowThePassword'
<1> USE DEF Sound, Typed, TypeOK, StoredTypes, ProcessTypes
<1>1. \A t \in Tokens : holder'[t] # None => /\ holder'[t] = holder[t]
                                             /\ holder[t] \in Users \ {u}
                                             /\ proof'[t] = proof[t]
                                             /\ t \in late' <=> t \in late
  BY DEF Revoke, End
<1>2. Born' BY <1>1, BornStays DEF Born, Stages
<1>3. SessionsKnowThePassword' BY <1>1 DEF SessionsKnowThePassword
<1> QED BY <1>2, <1>3

\* A step that leaves accounts, sessions and the command line alone.
LEMMA IdleStep ==
  ASSUME Sound, UNCHANGED <<accounts, sessions, reset>>,
         \A r \in Reqs : pc'[r] = "opening" /\ pc[r] # "opening" => Exists(user'[r]),
         \A r \in Reqs : pc'[r] = "opening" /\ pc[r] = "opening" => user'[r] = user[r]
  PROVE  Born' /\ SessionsKnowThePassword'
BY DEF Sound, Born, SessionsKnowThePassword, Exists, accounts, sessions

\* Sessions end, nothing else happens to them.
LEMMA EndingStep ==
  ASSUME Sound, UNCHANGED <<accounts, reset, pc, user>>, NEW ts, End(ts)
  PROVE  Born' /\ SessionsKnowThePassword'
<1>1. \A t \in Tokens : holder'[t] # None => /\ holder'[t] = holder[t]
                                             /\ proof'[t] = proof[t]
                                             /\ t \in late' <=> t \in late
  BY DEF End, Sound, Typed, TypeOK, StoredTypes
<1> QED BY <1>1 DEF Sound, Born, SessionsKnowThePassword, accounts

\* No step of a request leaves a session under an older password.
LEMMA StepSound ==
  ASSUME Sound, [Next]_vars, NEW r \in Reqs, Step(r)
  PROVE  Born' /\ SessionsKnowThePassword'
<1> USE DEF Sound, Typed, TypeOK, StoredTypes, ProcessTypes
<1>1. CASE Visited(r) \/ Fail(r) \/ Verify(r) \/ Choose(r) \/ SetPublicVisitUser(r)
  BY <1>1, IdleStep DEF Visited, Fail, Verify, Choose, SetPublicVisitUser, Forget
<1>2. CASE OpenSession(r)
  <2> PICK t \in Tokens :
        /\ holder' = [holder EXCEPT ![t] = user[r]]
        /\ proof' = [proof EXCEPT ![t] = op[r].old]
        /\ late' = IF op[r].old = password[user[r]] THEN late ELSE late \cup {t}
    BY <1>2 DEF OpenSession
  <2>1. UNCHANGED <<accounts, reset>> /\ Forget(r) /\ pc[r] = "opening"
    BY <1>2 DEF OpenSession, Forget
  <2>2. user[r] \in Users /\ role[user[r]] # "none"
    BY <2>1 DEF Stages, Born
  <2>3. Born' BY <2>1, <2>2 DEF Born, Forget, accounts
  <2>4. SessionsKnowThePassword'
    BY <2>1, <2>2 DEF SessionsKnowThePassword, accounts
  <2> QED BY <2>3, <2>4
<1>3. CASE Create(r)
  <2> PICK u \in Users : /\ role[u] = "none"
                         /\ password' = [password EXCEPT ![u] = op[r].new]
    BY <1>3 DEF Create
  <2>1. UNCHANGED <<sessions, reset>> /\ Forget(r)
    BY <1>3 DEF Create, Return, Forget
  <2>2. \A t \in Tokens : holder[t] # None => holder[t] \in Users \ {u}
    BY DEF Born
  <2>3. Born' BY <2>1, BornStays DEF Born, Forget, Stages, sessions
  <2>4. SessionsKnowThePassword'
    BY <2>1, <2>2 DEF SessionsKnowThePassword, sessions
  <2> QED BY <2>3, <2>4
<1>4. CASE Deletes(r)
  <2>1. UNCHANGED <<sessions, reset, password>> /\ Forget(r)
    BY <1>4 DEF Deletes, Return, Forget
  <2>2. Born' BY <2>1, BornStays DEF Born, Forget, Stages, sessions
  <2>3. SessionsKnowThePassword' BY <2>1 DEF SessionsKnowThePassword, sessions
  <2> QED BY <2>2, <2>3
<1>5. CASE Update(r)
  <2>1. Forget(r) /\ reset' = reset BY <1>5 DEF Update, Return, Forget
  <2>2. op[r].target \in Users
    BY <1>5, OpFields DEF Update, Turn
  <2>3. \A v \in Users \ {op[r].target} : password'[v] = password[v]
    BY <1>5 DEF Update
  <2>4. \A q \in Reqs : pc'[q] = "opening" => pc[q] = "opening" /\ user'[q] = user[q]
    BY <2>1 DEF Forget
  <2>5. CASE op[r].new # Keep
    BY <1>5, <2>1, <2>2, <2>3, <2>4, <2>5, RevokingStep DEF Update
  <2>6. CASE op[r].new = Keep
    <3>1. UNCHANGED <<sessions, reset, password>>
      BY <1>5, <2>1, <2>6 DEF Update
    <3>2. Born' BY <2>4, <3>1, BornStays DEF Born, Stages, sessions
    <3>3. SessionsKnowThePassword' BY <3>1 DEF SessionsKnowThePassword, sessions
    <3> QED BY <3>2, <3>3
  <2> QED BY <2>5, <2>6
<1>6. CASE UpdatePassword(r)
  <2>1. Forget(r) /\ reset' = reset /\ Revoke(user[r])
    BY <1>6 DEF UpdatePassword, Return, Forget
  <2>2. user[r] \in Users BY <1>6 DEF UpdatePassword, Stages
  <2>3. \A v \in Users \ {user[r]} : password'[v] = password[v]
    BY <1>6 DEF UpdatePassword
  <2>4. \A q \in Reqs : pc'[q] = "opening" => pc[q] = "opening" /\ user'[q] = user[q]
    BY <2>1 DEF Forget
  <2> QED BY <2>1, <2>2, <2>3, <2>4, RevokingStep
<1> QED BY <1>1, <1>2, <1>3, <1>4, <1>5, <1>6 DEF Step

\* Nor does the command line, but where it is known to.
LEMMA CommandLineSound ==
  ASSUME Sound, [Next]_vars, CommandLine
  PROVE  Born' /\ SessionsKnowThePassword'
<1> USE DEF Sound, Typed, TypeOK, StoredTypes, ProcessTypes
<1>1. CASE \E u \in Users : ResetPassword(u)
  <2> PICK u \in Users : ResetPassword(u)
    BY <1>1
  <2>1. Born' BY DEF ResetPassword, Born, sessions, requests
  <2>2. SessionsKnowThePassword'
    BY DEF ResetPassword, SessionsKnowThePassword, sessions
  <2> QED BY <2>1, <2>2
<1>2. CASE RevokeAfterReset
  <2>1. \A t \in Tokens : holder'[t] # None => /\ holder'[t] = holder[t]
                                               /\ holder[t] # reset
                                               /\ proof'[t] = proof[t]
                                               /\ t \in late' <=> t \in late
    BY <1>2 DEF RevokeAfterReset, Revoke, End
  <2> QED BY <1>2, <2>1 DEF RevokeAfterReset, Born, SessionsKnowThePassword, accounts, requests
<1>3. CASE RevokeFails
  <2>1. Born' BY <1>3 DEF RevokeFails, Born, accounts, requests
  <2>2. SessionsKnowThePassword'
    BY <1>3 DEF RevokeFails, SessionsKnowThePassword, accounts
  <2> QED BY <2>1, <2>2
<1> QED BY <1>1, <1>2, <1>3 DEF CommandLine

\* The inductive invariant behind PasswordsHold.
THEOREM SoundInvariant == Spec => []Sound
<1>1. Init => Born /\ SessionsKnowThePassword
  BY DEF Init, Born, SessionsKnowThePassword
<1>2. Sound /\ [Next]_vars => Born' /\ SessionsKnowThePassword'
  <2> SUFFICES ASSUME Sound, [Next]_vars
               PROVE  Born' /\ SessionsKnowThePassword'
    OBVIOUS
  <2>1. ASSUME NEW r \in Reqs, Arrivals(r)
        PROVE  Born' /\ SessionsKnowThePassword'
    <3>1. UNCHANGED <<accounts, sessions, reset>>
      BY <2>1 DEF Arrivals, Begin, Login, Visit, Arrive
    <3>2. \A q \in Reqs \ {r} : pc'[q] = pc[q] /\ user'[q] = user[q]
      BY <2>1 DEF Arrivals, Begin, Login, Visit, Arrive, Sound, Typed, TypeOK, ProcessTypes
    <3>3. pc[r] = "idle" /\ (pc'[r] = "opening" => Exists(user'[r]))
      BY <2>1 DEF Arrivals, Begin, Login, Visit, Arrive, Active, Sound, Typed, TypeOK,
                  ProcessTypes
    <3> QED BY <3>1, <3>2, <3>3, IdleStep
  <2>2. ASSUME NEW r \in Reqs, Step(r)
        PROVE  Born' /\ SessionsKnowThePassword'
    BY <2>2, StepSound
  <2>3. CASE CommandLine
    BY <2>3, CommandLineSound
  <2>4. CASE \E t \in Tokens : Logout(t) \/ Expire(t)
    BY <2>4, EndingStep DEF Logout, Expire, requests
  <2>5. CASE UNCHANGED vars
    BY <2>5 DEF vars, accounts, sessions, requests, Sound, Born, SessionsKnowThePassword
  <2> QED BY <2>1, <2>2, <2>3, <2>4, <2>5 DEF Next
<1>3. Typed /\ Born /\ SessionsKnowThePassword => Sound
  BY DEF Sound
<1> QED BY <1>1, <1>2, <1>3, TypedInvariant, PTL DEF Spec

\* A session is live only under the password it was opened with, apart from those
\* a login or a failed reset left behind, for any number of accounts and sessions.
THEOREM PasswordsHold == Spec => []SessionsKnowThePassword
<1>1. Sound => SessionsKnowThePassword BY DEF Sound
<1> QED BY <1>1, SoundInvariant, PTL

-----------------------------------------------------------------------------
(***************************************************************************)
(* Changes of the password.                                                *)
(***************************************************************************)

\* What a request verified stays true until it writes, but for the command line.
StillKnown ==
  \A r \in Reqs : pc[r] = "verified" => password[user[r]] \in {op[r].old, Default}

\* Without a request's own write, a verified request waits where it is.
LEMMA VerifiedWaits ==
  ASSUME Typed, NEW r \in Reqs, Arrivals(r) \/ Step(r), NEW q \in Reqs \ {r}
  PROVE  pc'[q] = pc[q] /\ user'[q] = user[q] /\ op'[q] = op[q]
<1> USE DEF Typed, TypeOK, ProcessTypes
<1>1. CASE Arrivals(r)
  BY <1>1 DEF Arrivals, Begin, Login, Visit, Arrive
<1>2. CASE Visited(r) \/ Fail(r) \/ OpenSession(r) \/ SetPublicVisitUser(r)
  BY <1>2 DEF Visited, Fail, OpenSession, SetPublicVisitUser, Forget
<1>3. CASE Create(r) \/ Deletes(r) \/ Update(r) \/ UpdatePassword(r)
  BY <1>3 DEF Create, Deletes, Update, UpdatePassword, Return, Forget
<1>4. CASE Verify(r) \/ Choose(r)
  BY <1>4 DEF Verify, Choose
<1> QED BY <1>1, <1>2, <1>3, <1>4 DEF Step

\* The holder of the mutex is the only one whose step can set a password.
LEMMA OnlyHolderWrites ==
  ASSUME Typed, NEW r \in Reqs, Arrivals(r) \/ Step(r), password' # password,
         NEW q \in Reqs, pc[q] = "verified"
  PROVE  q = r
<1> USE DEF Typed, TypeOK, MutexTypes, accounts
<1>1. mutationMu = q /\ mutationMu # None
  BY DEF AccountAssumption
<1>2. ~Arrivals(r)
  BY DEF Arrivals, Begin, Login, Visit, Arrive
<1>3. Create(r) \/ Update(r) \/ UpdatePassword(r)
  BY <1>2 DEF Step, Visited, Fail, OpenSession, Deletes, Verify, Choose, SetPublicVisitUser
<1>4. ~Create(r) /\ ~Update(r)
  BY <1>1 DEF Create, Update, Turn
<1> QED BY <1>1, <1>3, <1>4 DEF UpdatePassword

\* No step makes a request forget what it verified, short of the command line.
LEMMA StillKnownStep ==
  ASSUME Typed, StillKnown, [Next]_vars
  PROVE  StillKnown'
<1> USE DEF Typed, TypeOK, StoredTypes, ProcessTypes
<1>1. ASSUME NEW r \in Reqs, Arrivals(r) \/ Step(r)
      PROVE  StillKnown'
  <2> SUFFICES ASSUME NEW q \in Reqs, pc'[q] = "verified"
               PROVE  password'[user'[q]] \in {op'[q].old, Default}
    BY DEF StillKnown
  <2>1. CASE q # r
    BY <1>1, <2>1, VerifiedWaits, OnlyHolderWrites DEF StillKnown
  <2>2. CASE q = r
    <3>1. ~Arrivals(r)
      BY <2>2 DEF Arrivals, Begin, Login, Visit, Arrive
    <3>2. ~(Visited(r) \/ Fail(r) \/ OpenSession(r) \/ SetPublicVisitUser(r) \/ Create(r)
            \/ Deletes(r) \/ Update(r) \/ UpdatePassword(r))
      BY <2>2 DEF Visited, Fail, OpenSession, SetPublicVisitUser, Create, Deletes, Update,
                  UpdatePassword, Return, Forget
    <3>3. CASE Verify(r)
      BY <2>2, <3>3 DEF Verify, accounts
    <3>4. ~Choose(r)
      BY <2>2 DEF Choose
    <3> QED BY <1>1, <3>1, <3>2, <3>3, <3>4 DEF Step
  <2> QED BY <2>1, <2>2
<1>2. CASE CommandLine
  <2>1. UNCHANGED <<pc, user, op>> /\ \A u \in Users : password'[u] \in {password[u], Default}
    BY <1>2 DEF CommandLine, ResetPassword, RevokeAfterReset, RevokeFails, accounts, requests
  <2>2. \A r \in Reqs : pc[r] = "verified" => user[r] \in Users
    BY DEF Stages
  <2> QED BY <2>1, <2>2 DEF StillKnown
<1>3. CASE \E t \in Tokens : Logout(t) \/ Expire(t)
  BY <1>3 DEF Logout, Expire, accounts, requests, StillKnown
<1>4. CASE UNCHANGED vars
  BY <1>4 DEF vars, accounts, requests, StillKnown
<1> QED BY <1>1, <1>2, <1>3, <1>4 DEF Next

\* Of two changes that verified the same password only one is made: the mutex is
\* held from the verification to the write.
THEOREM ChangesKnowThePassword == Spec => ChangedKnowing
<1> DEFINE Knowing == \A r \in Reqs :
       pc[r] = "verified" /\ pc'[r] = "idle" /\ password'[user[r]] # password[user[r]]
         => password[user[r]] \in {op[r].old, Default}
<1>1. Init => StillKnown
  BY DEF Init, StillKnown
<1>2. StillKnown => [Knowing]_vars
  BY DEF StillKnown
<1> QED
  BY <1>1, <1>2, StillKnownStep, TypedInvariant, PTL DEF Spec, ChangedKnowing
=============================================================================
