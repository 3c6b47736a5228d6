------------------------------ MODULE Accounts ------------------------------
(***************************************************************************)
(* Accounts, their passwords and sessions, the account that anonymous      *)
(* visitors see, and the command line that resets a password.              *)
(*                                                                         *)
(* Whom a request acts for is read when it arrives; what it writes is      *)
(* written when mutationMu is free, in one transaction.  A login, the      *)
(* choice of the public account and the command line take no mutex.  Names *)
(* and profiles are left out: they only add refusals.                      *)
(***************************************************************************)
EXTENDS FiniteSets

CONSTANTS
  Users,      \* ids of account rows, never used twice
  Disabled,   \* accounts that an older database left with another status than 1
  Passwords,
  Default,    \* the password of the first account and of the command line
  Tokens,     \* sessions that can be live at once
  Reqs,       \* requests in flight at once
  Faults,     \* {"db"}: the revocation after a reset may fail
  None, Keep

ASSUME AccountAssumption ==
  /\ Disabled \subseteq Users
  /\ None \notin Users \cup Reqs \cup Passwords
  /\ Default \in Passwords /\ Keep \notin Passwords
  /\ Faults \subseteq {"db"}

VARIABLES
  role,        \* role[u]: "none" before the row exists, "gone" when it is soft-deleted
  password,    \* password[u]
  holder,      \* holder[t]: user_id of a session, None when it is revoked or
               \* expired: nothing ever finds its row again
  public,      \* PANEL_PUBLIC_USER_ID
  mutationMu,  \* the request that holds the mutex
  pc, user, op, \* where a request is, the account it acts for, what it asks for
  reset,       \* the account whose sessions the command line revokes next
  proof,       \* history: proof[t], the password session t was opened with
  late         \* history: sessions that a change of the password left alone

accounts == <<role, password>>
sessions == <<holder, proof, late>>
requests == <<mutationMu, pc, user, op>>
vars == <<accounts, sessions, public, requests, reset>>

\* A request names the account it is about, or those to delete, the role and the
\* password to set (or Keep), and the password it knows.
Asks(kinds, target, targets, roles, new, old) ==
  [kind : kinds, target : target, targets : targets, role : roles, new : new, old : old]

NoOp == [kind |-> "visit", target |-> None, targets |-> {}, role |-> "none",
         new |-> Keep, old |-> Keep]

AdminOps ==
  LET no == {None}
      roles == {"admin", "member"}
      some == SUBSET Users \ {{}} IN
  Asks({"create"}, no, {{}}, roles, {Default}, {Keep})
  \cup Asks({"delete"}, no, some, {"none"}, {Keep}, {Keep})
  \cup Asks({"update"}, Users, {{}}, roles, Passwords \cup {Keep}, {Keep})
  \cup Asks({"setPublic"}, Users \cup no, {{}}, {"none"}, {Keep}, {Keep})

OwnOps == Asks({"password"}, {None}, {{}}, {"none"}, Passwords, Passwords)

LoginOps == Asks({"login"}, {None}, {{}}, {"none"}, {Keep}, Passwords)

Ops == {NoOp} \cup AdminOps \cup OwnOps \cup LoginOps

Exists(u) == u \in Users /\ role[u] \in {"admin", "member"}
Active(u) == Exists(u) /\ u \notin Disabled

\* An administrator whose status is 1 remains.
KeepsOne(roles) == \E u \in Users \ Disabled : roles[u] = "admin"

\* NotFoundAndCreateUser on an empty database, or what an older version left.
Init ==
  /\ role \in [Users -> {"none", "admin", "member"}]
  /\ KeepsOne(role)
  /\ \A u \in Disabled : role[u] # "none"
  /\ password = [u \in Users |-> Default]
  /\ holder = [t \in Tokens |-> None]
  /\ proof = [t \in Tokens |-> Default]
  /\ public = None
  /\ mutationMu = None
  /\ pc = [r \in Reqs |-> "idle"]
  /\ user = [r \in Reqs |-> None]
  /\ op = [r \in Reqs |-> NoOp]
  /\ reset = None
  /\ late = {}

(***************************************************************************)
(* Requests.                                                               *)
(***************************************************************************)
Arrive(r, u, stage, o) ==
  /\ pc[r] = "idle"
  /\ pc' = [pc EXCEPT ![r] = stage]
  /\ user' = [user EXCEPT ![r] = u]
  /\ op' = [op EXCEPT ![r] = o]
  /\ UNCHANGED <<accounts, sessions, public, mutationMu, reset>>

Forget(r) ==
  /\ pc' = [pc EXCEPT ![r] = "idle"]
  /\ user' = [user EXCEPT ![r] = None]
  /\ op' = [op EXCEPT ![r] = NoOp]
  /\ UNCHANGED reset

Return(r) == Forget(r) /\ mutationMu' = None

\* GetActiveSessionByToken with its account: revoked and expired sessions and
\* those of deleted accounts are not found, disabled accounts are turned away.
Accepted(t) == Active(holder[t])

Begin(r, t, o) ==
  /\ Accepted(t)
  /\ \/ o \in AdminOps /\ role[holder[t]] = "admin"
     \/ o \in OwnOps
  /\ Arrive(r, holder[t], IF o.kind = "setPublic" THEN "choose" ELSE "wait", o)

\* Without a session the request acts for the public account.
Visit(r) ==
  /\ Active(public)
  /\ Arrive(r, public, "visit", NoOp)

Visited(r) ==
  /\ pc[r] = "visit"
  /\ Forget(r)
  /\ UNCHANGED <<accounts, sessions, public, mutationMu>>

\* A validation, a query or a transaction refuses the request: a taken name, a
\* wrong password, no administrator left.
Fail(r) ==
  /\ \/ pc[r] \in {"opening", "choose", "chosen"} /\ UNCHANGED mutationMu
     \/ pc[r] = "wait" /\ mutationMu = None /\ UNCHANGED mutationMu
     \/ pc[r] = "verified" /\ mutationMu' = None
  /\ Forget(r)
  /\ UNCHANGED <<accounts, sessions, public>>

(***************************************************************************)
(* Sessions.                                                               *)
(***************************************************************************)
End(ts) ==
  /\ holder' = [t \in Tokens |-> IF t \in ts THEN None ELSE holder[t]]
  /\ proof' = [t \in Tokens |-> IF t \in ts THEN Default ELSE proof[t]]
  /\ late' = late \ ts

RevokeNothing(u) == UNCHANGED sessions   \* mutant

Revoke(u) == End({t \in Tokens : holder[t] = u})

\* The account is read and its password and status are checked ...
Login(r, u, o) ==
  /\ Active(u)
  /\ o \in LoginOps /\ o.old = password[u]
  /\ Arrive(r, u, "opening", o)

\* ... and then the session is created.
OpenSession(r) ==
  /\ pc[r] = "opening"
  /\ \E t \in Tokens :
       /\ holder[t] = None
       /\ holder' = [holder EXCEPT ![t] = user[r]]
       /\ proof' = [proof EXCEPT ![t] = op[r].old]
       /\ late' = IF op[r].old = password[user[r]] THEN late ELSE late \cup {t}
  /\ Forget(r)
  /\ UNCHANGED <<accounts, public, mutationMu>>

Logout(t) ==
  /\ Accepted(t)
  /\ End({t})
  /\ UNCHANGED <<accounts, public, requests, reset>>

Expire(t) ==
  /\ holder[t] # None
  /\ End({t})
  /\ UNCHANGED <<accounts, public, requests, reset>>

(***************************************************************************)
(* The administration of accounts, each one transaction under the mutex.   *)
(***************************************************************************)
\* The mutex is free for a request that needs it for one transaction only.
Turn(r, kind) == pc[r] = "wait" /\ mutationMu = None /\ op[r].kind = kind

Create(r) ==
  /\ Turn(r, "create")
  /\ \E u \in Users :
       /\ role[u] = "none"
       /\ role' = [role EXCEPT ![u] = op[r].role]
       /\ password' = [password EXCEPT ![u] = op[r].new]
  /\ Return(r)
  /\ UNCHANGED <<sessions, public>>

DeletesCountedFirst(r) ==   \* mutant: the administrators are counted before the write
  /\ Turn(r, "delete")
  /\ KeepsOne(role)
  /\ role' = [u \in Users |-> IF u \in op[r].targets /\ Exists(u) THEN "gone" ELSE role[u]]
  /\ Return(r)
  /\ UNCHANGED <<password, sessions, public>>

Deletes(r) ==
  /\ Turn(r, "delete")
  /\ role' = [u \in Users |-> IF u \in op[r].targets /\ Exists(u) THEN "gone" ELSE role[u]]
  /\ KeepsOne(role')
  /\ Return(r)
  /\ UNCHANGED <<password, sessions, public>>

\* The rows of a deleted account do not match, its sessions do.
Update(r) ==
  /\ Turn(r, "update")
  /\ LET u == op[r].target
         new == op[r].new IN
     /\ role' = [role EXCEPT ![u] = IF Exists(u) THEN op[r].role ELSE @]
     /\ password' = [password EXCEPT ![u] = IF Exists(u) /\ new # Keep THEN new ELSE @]
     /\ KeepsOne(role')
     /\ IF new # Keep THEN Revoke(u) ELSE UNCHANGED sessions
  /\ Return(r)
  /\ UNCHANGED public

(***************************************************************************)
(* UpdatePasssword: the old password is verified under the mutex, before   *)
(* the transaction.                                                        *)
(***************************************************************************)
VerifyBeforeWaiting(r) ==   \* mutant: the mutex is taken after the verification
  /\ pc[r] = "wait" /\ op[r].kind = "password"
  /\ Exists(user[r])
  /\ op[r].old = password[user[r]]
  /\ pc' = [pc EXCEPT ![r] = "verified"]
  /\ UNCHANGED <<accounts, sessions, public, mutationMu, user, op, reset>>

Verify(r) ==
  /\ Turn(r, "password")
  /\ Exists(user[r])
  /\ op[r].old = password[user[r]]
  /\ mutationMu' = r
  /\ pc' = [pc EXCEPT ![r] = "verified"]
  /\ UNCHANGED <<accounts, sessions, public, user, op, reset>>

UpdateStillLocked(r) ==   \* mutant: no unlock
  /\ pc[r] = "verified"
  /\ password' = [password EXCEPT ![user[r]] = op[r].new]
  /\ Revoke(user[r])
  /\ Forget(r)
  /\ UNCHANGED <<role, public, mutationMu>>

UpdatePassword(r) ==
  /\ pc[r] = "verified"
  /\ password' = [password EXCEPT ![user[r]] = op[r].new]
  /\ Revoke(user[r])
  /\ Return(r)
  /\ UNCHANGED <<role, public>>

(***************************************************************************)
(* SetPublicVisitUser, without the mutex: look the account up, store it.   *)
(***************************************************************************)
Choose(r) ==
  /\ pc[r] = "choose"
  /\ op[r].target = None \/ Exists(op[r].target)
  /\ pc' = [pc EXCEPT ![r] = "chosen"]
  /\ UNCHANGED <<accounts, sessions, public, mutationMu, user, op, reset>>

SetPublicVisitUser(r) ==
  /\ pc[r] = "chosen"
  /\ public' = op[r].target
  /\ Forget(r)
  /\ UNCHANGED <<accounts, sessions, mutationMu>>

(***************************************************************************)
(* zpanel -password-reset, a process of its own: two statements, of which  *)
(* the second may fail unnoticed.  Ids have no order here, so the first    *)
(* administrator is any of them.                                           *)
(***************************************************************************)
ResetPassword(u) ==
  /\ reset = None
  /\ Exists(u) /\ role[u] = "admin"
  /\ password' = [password EXCEPT ![u] = Default]
  /\ reset' = u
  /\ UNCHANGED <<role, sessions, public, requests>>

RevokeAfterReset ==
  /\ reset # None
  /\ Revoke(reset)
  /\ reset' = None
  /\ UNCHANGED <<accounts, public, requests>>

RevokeFails ==
  /\ reset # None /\ "db" \in Faults
  /\ late' = late \cup {t \in Tokens : holder[t] = reset /\ proof[t] # password[reset]}
  /\ reset' = None
  /\ UNCHANGED <<accounts, holder, proof, public, requests>>

-----------------------------------------------------------------------------
Arrivals(r) ==
  \/ \E t \in Tokens, o \in AdminOps \cup OwnOps : Begin(r, t, o)
  \/ \E u \in Users, o \in LoginOps : Login(r, u, o)
  \/ Visit(r)

Step(r) ==
  \/ Visited(r) \/ Fail(r) \/ OpenSession(r)
  \/ Create(r) \/ Deletes(r) \/ Update(r)
  \/ Verify(r) \/ UpdatePassword(r)
  \/ Choose(r) \/ SetPublicVisitUser(r)

CommandLine == (\E u \in Users : ResetPassword(u)) \/ RevokeAfterReset \/ RevokeFails

Next ==
  \/ \E r \in Reqs : Arrivals(r) \/ Step(r)
  \/ \E t \in Tokens : Logout(t) \/ Expire(t)
  \/ CommandLine

Spec == Init /\ [][Next]_vars

-----------------------------------------------------------------------------
StoredTypes ==
  /\ role \in [Users -> {"none", "admin", "member", "gone"}]
  /\ password \in [Users -> Passwords]
  /\ holder \in [Tokens -> Users \cup {None}]
  /\ proof \in [Tokens -> Passwords]
  /\ public \in Users \cup {None}

ProcessTypes ==
  /\ pc \in [Reqs -> {"idle", "wait", "visit", "opening", "verified", "choose", "chosen"}]
  /\ user \in [Reqs -> Users \cup {None}]
  /\ op \in [Reqs -> Ops]
  /\ reset \in Users \cup {None}
  /\ late \subseteq Tokens

MutexTypes ==
  /\ mutationMu \in Reqs \cup {None}
  /\ \A r \in Reqs : pc[r] = "verified" <=> mutationMu = r

\* Every variable keeps its type, and the mutex is held exactly while a change of
\* password is between its verification and its write.
TypeOK == StoredTypes /\ ProcessTypes /\ MutexTypes

\* Someone can always administer the panel: whatever administrators do to each
\* other and to themselves at the same time, one with status 1 remains (Deletes,
\* Update).
KeepsAnAdmin == KeepsOne(role)

\* A change of the password ends the sessions that were opened with the old one,
\* whoever makes it and whatever is under way.  Two kinds of session outlive it
\* (late): one opened by a login that read the account before the change, and
\* those that a reset from the command line failed to revoke.
SessionsKnowThePassword ==
  \A t \in Tokens \ late : holder[t] # None =>
    proof[t] = password[holder[t]] \/ holder[t] = reset

\* Of two changes that started from the same password only one is made: who
\* changes a password knew the one that is replaced, unless that is the one that
\* the command line has set meanwhile.
ChangedKnowing ==
  [][\A r \in Reqs :
       pc[r] = "verified" /\ pc'[r] = "idle" /\ password'[user[r]] # password[user[r]]
         => password[user[r]] \in {op[r].old, Default}]_vars

\* The command line, too, changes a password only together with the end of the
\* account's sessions.
ResetEndsSessions ==
  [][reset # None /\ reset' = None => \A t \in Tokens : holder'[t] # reset]_vars
=============================================================================
