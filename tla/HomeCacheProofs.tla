--------------------------- MODULE HomeCacheProofs ---------------------------
(* Theorems about HomeCache, for any accounts, sessions and kinds of home data. *)
EXTENDS HomeCache, TLAPS

USE CacheAssumption, BindingAssumption

Askers == Tokens \cup {"guest", None}
Snapshots == [user : Users, role : Roles, ours : BOOLEAN, old : BOOLEAN,
              queries : [Names -> HomeData \cup {None}]]
Replies == [code : {"ok", "expired", "refused"}, info : AuthAnswers \cup {None}]
Queries == [data : HomeData \cup {None}, inval : BOOLEAN, err : {"none", "failed", "refused"},
            read : [of : Askers, answer : Users \cup {"expired", "refused", None}]]
Auths == [data : AuthAnswers \cup {None}, err : {"none", "failed", "refused"},
          read : [of : Askers, answer : Replies \cup {None}]]

StoreTypes ==
  /\ token \in Tokens \cup {None} /\ client \in Tokens \cup {None}
  /\ accounts \subseteq Tokens
  /\ token # None => token \in accounts
  /\ route \in {"home", "settings", "login"} /\ loaded \in {"none", "home", "settings"}
  /\ coming \in BOOLEAN

ServerTypes ==
  /\ holder \in [Tokens -> Users \cup {None}] /\ live \in SUBSET Tokens
  /\ \A t \in live : holder[t] # None
  /\ role \in [Users -> Roles] /\ barred \in SUBSET Users /\ public \in Users \cup {None}

AuthTypes ==
  /\ auth \in Auths
  /\ auth.read.answer # None /\ auth.read.answer.code = "ok" => auth.read.answer.info \in AuthAnswers

CacheTypes ==
  /\ query \in [Names -> Queries]
  /\ bound \in Bindings \cup {None}
  /\ storage \in Snapshots \cup {None}

Typed == StoreTypes /\ ServerTypes /\ AuthTypes /\ CacheTypes

\* The fields for display of home data.
LEMMA DisplayTypes ==
  ASSUME NEW d \in HomeData
  PROVE  DisplayData(d) \in HomeData /\ ~DisplayData(d).whole /\ DisplayData(d).of = d.of
BY DEF HomeData, DisplayData

\* Queries at rest.
LEMMA IdleTypes ==
  /\ Idle \in [of : Askers, answer : Replies \cup {None}]
  /\ Nothing \in Queries
  /\ NoAuth \in Auths
BY DEF Idle, Nothing, NoAuth, Askers, Replies, Queries, Auths

\* What the server does keeps its types.
LEMMA EnvironmentTypes ==
  ASSUME Typed, Environment
  PROVE  Typed'
<1> USE DEF Typed, Turn, store, cache
<1>1. CASE \E u \in Users : Bar(u) \/ Publish(u) \/ \E r \in Roles : ChangeRole(u, r)
  BY <1>1 DEF Bar, Publish, ChangeRole, StoreTypes, ServerTypes, AuthTypes, CacheTypes
<1>2. CASE \E t \in Tokens : Revoke(t)
  BY <1>2 DEF Revoke, StoreTypes, ServerTypes, AuthTypes, CacheTypes
<1>3. CASE OtherTab
  <2>1. storage' \in Snapshots \cup {None}
    <3>1. ASSUME NEW u \in Users, NEW has \in SUBSET Names
          PROVE  [user |-> u, role |-> role[u], ours |-> FALSE, old |-> FALSE,
                  queries |-> [n \in Names |-> IF n \in has THEN DisplayData(Fetched(u)) ELSE None]]
                 \in Snapshots
      <4>1. DisplayData(Fetched(u)) \in HomeData
        BY DisplayTypes DEF Fetched, HomeData
      <4> QED BY <4>1 DEF Snapshots, ServerTypes
    <3> QED BY <1>3, <3>1 DEF OtherTab
  <2> QED BY <1>3, <2>1 DEF OtherTab, StoreTypes, ServerTypes, AuthTypes, CacheTypes
<1> QED BY <1>1, <1>2, <1>3 DEF Environment

\* What signing in and out does.
LEMMA StoreStepTypes ==
  ASSUME Typed,
         \/ \E t \in Tokens : SelectAccount(t) \/ ForgetOther(t)
         \/ \E t \in Tokens, page \in {"home", "settings"} : SignIn(t, page)
         \/ Logout \/ UpdatePassword \/ ForgetPublic
  PROVE  Typed'
<1> USE DEF Typed, store, cache, server
<1>1. CASE \E t \in Tokens : SelectAccount(t) \/ ForgetOther(t)
  BY <1>1 DEF SelectAccount, ForgetOther, StoreTypes, ServerTypes, AuthTypes, CacheTypes
<1>2. CASE \E t \in Tokens, page \in {"home", "settings"} : SignIn(t, page)
  BY <1>2 DEF SignIn, StoreTypes, ServerTypes, AuthTypes, CacheTypes
<1>3. CASE Logout \/ UpdatePassword \/ ForgetPublic
  BY <1>3 DEF Logout, UpdatePassword, ForgetPublic, SignOut, ForgetCurrent, StoreTypes,
              ServerTypes, AuthTypes, CacheTypes
<1> QED BY <1>1, <1>2, <1>3

\* Removing queries keeps the types.
LEMMA RemovedTypes ==
  ASSUME query \in [Names -> Queries], NEW names \in SUBSET Names
  PROVE  Removed(query, names) \in [Names -> Queries]
BY IdleTypes DEF Removed

\* What a new query client and a change of page do.
LEMMA PageStepTypes ==
  ASSUME Typed,
         \/ SessionQueries \/ Reload \/ Loaded
         \/ \E page \in {"home", "settings", "login"} : Navigate(page)
  PROVE  Typed'
<1> USE DEF Typed, store, cache, server
<1>1. CASE SessionQueries \/ Reload
  <2>1. /\ client' = token /\ loaded' = "none" /\ auth' = NoAuth
        /\ query' = [n \in Names |-> Nothing] /\ bound' = None
        /\ UNCHANGED <<store, route, storage, server>>
    BY <1>1 DEF SessionQueries, Reload
  <2>2. coming' \in BOOLEAN
    <3>1. coming' = Private
      BY <1>1 DEF SessionQueries, Reload
    <3>2. Private \in BOOLEAN
      BY DEF Private
    <3> QED BY <3>1, <3>2
  <2> QED BY <2>1, <2>2, IdleTypes DEF StoreTypes, ServerTypes, AuthTypes, CacheTypes, NoAuth, Idle
<1>2. CASE Loaded
  <2>1. UNCHANGED <<query, bound>> \/ ClearUnverifiedHomeData
    BY <1>2 DEF Loaded
  <2>2. query' \in [Names -> Queries] /\ bound' \in Bindings \cup {None}
    BY <2>1, RemovedTypes DEF ClearUnverifiedHomeData, CacheTypes, Bindings
  <2> QED BY <1>2, <2>2 DEF Loaded, Private, StoreTypes, ServerTypes, AuthTypes, CacheTypes
<1>3. CASE \E page \in {"home", "settings", "login"} : Navigate(page)
  <2>1. Cancelled \in [Names -> Queries]
    BY DEF Cancelled, Queries, Idle, Askers, CacheTypes
  <2>2. auth' = auth \/ auth' = [auth EXCEPT !.read = Idle]
    BY <1>3 DEF Navigate
  <2>3. AuthTypes'
    BY <2>2, IdleTypes DEF AuthTypes, Auths, Idle
  <2> QED BY <1>3, <2>1, <2>3 DEF Navigate, StoreTypes, ServerTypes, CacheTypes
<1> QED BY <1>1, <1>2, <1>3

\* What sending, handling and losing a read does.
LEMMA AskTypes ==
  ASSUME Typed,
         \/ ReadAuth \/ HandleAuth \/ AuthLost
         \/ \E n \in Names : Read(n) \/ Handle(n) \/ Lost(n)
  PROVE  Typed'
<1> USE DEF Typed, store, cache, server
<1>v. \A t \in Askers : /\ Verdict(t) \in {"ok", "expired", "refused"}
                        /\ Verdict(t) = "ok" => Visitor(t) \in Users
  BY DEF Verdict, Visitor, ServerTypes
<1>1. CASE ReadAuth
  <2>1. AuthTypes'
    BY <1>1 DEF ReadAuth, AuthTypes, Auths, Askers, Idle, StoreTypes
  <2> QED BY <1>1, <2>1 DEF ReadAuth, StoreTypes, ServerTypes, CacheTypes
<1>2. CASE HandleAuth
  <2> DEFINE info == LET u == Visitor(auth.read.of)
                     IN [user |-> u, role |-> role[u], public |-> auth.read.of \notin live]
             answer == IF Verdict(auth.read.of) = "ok"
                       THEN [code |-> "ok", info |-> info]
                       ELSE [code |-> Verdict(auth.read.of), info |-> None]
  <2>1. auth.read.of \in Askers
    BY DEF AuthTypes, Auths
  <2>2. answer \in Replies /\ (answer.code = "ok" => answer.info \in AuthAnswers)
    <3>1. CASE Verdict(auth.read.of) = "ok"
      <4>1. info \in AuthAnswers
        BY <1>v, <2>1, <3>1 DEF AuthAnswers, ServerTypes
      <4> QED BY <3>1, <4>1 DEF Replies
    <3>2. CASE Verdict(auth.read.of) # "ok"
      BY <1>v, <2>1, <3>2 DEF Replies
    <3> QED BY <3>1, <3>2
  <2>3. auth' = [auth EXCEPT !.read.answer = answer]
    BY <1>2 DEF HandleAuth
  <2>4. auth' \in Auths
    BY <2>2, <2>3 DEF AuthTypes, Auths
  <2>5. auth'.read.answer = answer
    BY <2>3 DEF AuthTypes, Auths
  <2> QED BY <1>2, <2>2, <2>4, <2>5 DEF HandleAuth, StoreTypes, ServerTypes, CacheTypes, AuthTypes
<1>3. CASE AuthLost
  <2>1. AuthTypes'
    BY <1>3, IdleTypes DEF AuthLost, AuthFailed, AuthTypes, Auths, Idle
  <2> QED BY <1>3, <2>1 DEF AuthLost, StoreTypes, ServerTypes, CacheTypes
<1>4. CASE \E n \in Names : Read(n) \/ Handle(n) \/ Lost(n)
  <2>1. query' \in [Names -> Queries]
    <3> PICK n \in Names : Read(n) \/ Handle(n) \/ Lost(n)
      BY <1>4
    <3>1. CASE Read(n)
      BY <3>1 DEF Read, CacheTypes, Queries, Askers, StoreTypes
    <3>2. CASE Handle(n)
      <4> DEFINE answer == IF Verdict(query[n].read.of) = "ok" THEN Visitor(query[n].read.of)
                           ELSE Verdict(query[n].read.of)
      <4>1. query[n].read.of \in Askers
        BY DEF CacheTypes, Queries
      <4>2. answer \in Users \cup {"expired", "refused", None}
        BY <4>1, <1>v
      <4>3. query' = [query EXCEPT ![n].read.answer = answer]
        BY <3>2 DEF Handle
      <4> HIDE DEF answer
      <4> QED BY <4>2, <4>3 DEF CacheTypes, Queries
    <3>3. CASE Lost(n)
      BY <3>3 DEF Lost, Failed, CacheTypes, Queries, Askers, Idle
    <3> QED BY <3>1, <3>2, <3>3
  <2> QED BY <1>4, <2>1 DEF Read, Handle, Lost, StoreTypes, ServerTypes, AuthTypes, CacheTypes
<1> QED BY <1>1, <1>2, <1>3, <1>4

Copies == [Names -> HomeData \cup {None}]

\* What is read of the snapshot.
LEMMA SnapshotTypes ==
  ASSUME Typed, NEW u, NEW r, NEW saved \in ReadSnapshot(u, r)
  PROVE  saved \in Copies
BY DEF ReadSnapshot, Empty, Copies, Typed, CacheTypes, Snapshots

\* What is written to it.
LEMMA WrittenTypes ==
  ASSUME NEW b \in Bindings, NEW kept \in Snapshots \cup {None}
  PROVE  Written(b, kept) \subseteq Snapshots \cup {None}
<1>1. [user |-> b.user, role |-> b.role, queries |-> b.memo, ours |-> TRUE, old |-> FALSE] \in Snapshots
  BY DEF Bindings, Snapshots
<1>2. kept # None => [kept EXCEPT !.old = TRUE] \in Snapshots
  BY DEF Snapshots
<1> QED BY <1>1, <1>2 DEF Written

\* What the binding keeps.
LEMMA MemoTypes ==
  ASSUME NEW saved \in Copies, NEW q \in [Names -> Queries], NEW good
  PROVE  Memo(saved, q, good) \in Copies
<1>1. ASSUME NEW n \in Names, q[n].data # None
      PROVE  DisplayData(q[n].data) \in HomeData
  BY <1>1, DisplayTypes DEF Queries
<1> QED BY <1>1 DEF Memo, Copies

\* A new binding.
LEMMA BindTypes ==
  ASSUME Typed, NEW a \in AuthAnswers, NEW restore \in BOOLEAN, Bind(a, restore)
  PROVE  CacheTypes'
<1> USE DEF Typed, CacheTypes
<1> DEFINE before == IF bound = None THEN query ELSE Removed(query, Names)
           copies == IF bound = None THEN ReadSnapshot(a.user, a.role) ELSE {Empty}
           left == IF bound = None THEN storage ELSE None
<1>1. before \in [Names -> Queries]
  BY RemovedTypes
<1>2. copies \subseteq Copies
  BY SnapshotTypes DEF Empty, Copies
<1> PICK saved \in copies, good \in ValidData :
       LET unver == Restored(saved, before, restore)
           memo == Memo(saved, before, good)
       IN /\ bound' = [user |-> a.user, role |-> a.role, memo |-> memo, unver |-> unver]
          /\ query' = [n \in Names |->
                         IF n \in unver
                         THEN [before[n] EXCEPT !.data = saved[n], !.inval = TRUE, !.err = "none"]
                         ELSE before[n]]
          /\ IF \E n \in Names : before[n].err = "refused" \/ before[n].data # None
             THEN storage' \in Written(bound', left)
             ELSE storage' = left
  BY DEF Bind
<1> HIDE DEF before, copies
<1>3. saved \in Copies
  BY <1>2
<1>4. bound' \in Bindings
  <2>1. Memo(saved, before, good) \in Copies
    BY <1>1, <1>3, MemoTypes
  <2>2. Restored(saved, before, restore) \in SUBSET Names
    BY DEF Restored
  <2>3. a.user \in Users /\ a.role \in Roles
    BY DEF AuthAnswers
  <2> QED BY <2>1, <2>2, <2>3 DEF Bindings, Copies
<1>5. query' \in [Names -> Queries]
  <2>1. ASSUME NEW n \in Names
        PROVE  /\ before[n] \in Queries
               /\ [before[n] EXCEPT !.data = saved[n], !.inval = TRUE, !.err = "none"] \in Queries
    <3>1. before[n] \in Queries /\ saved[n] \in HomeData \cup {None}
      BY <1>1, <1>3 DEF Copies
    <3> QED BY <3>1 DEF Queries
  <2> QED BY <2>1
<1>6. storage' \in Snapshots \cup {None}
  <2>1. left \in Snapshots \cup {None}
    OBVIOUS
  <2> QED BY <1>4, <2>1, WrittenTypes
<1> QED BY <1>4, <1>5, <1>6

\* BindHomeCache binds, discards or leaves everything as it is.
LEMMA BindHomeCacheTypes ==
  ASSUME Typed, NEW a \in AuthAnswers, NEW restore \in BOOLEAN, BindHomeCache(a, restore)
  PROVE  CacheTypes'
<1>1. Bind(a, restore) \/ DiscardHomeCache \/ UNCHANGED <<bound, query, storage>>
  BY DEF BindHomeCache
<1>2. CASE DiscardHomeCache
  BY <1>2, RemovedTypes DEF DiscardHomeCache, Typed, CacheTypes
<1>3. CASE UNCHANGED <<bound, query, storage>>
  BY <1>3 DEF Typed, CacheTypes
<1> QED BY <1>1, <1>2, <1>3, BindTypes

\* What the binding records of a read or a save.
LEMMA RecordedTypes ==
  ASSUME Typed, NEW n \in Names,
         \/ \E d \in HomeData, read \in BOOLEAN : RecordedData(n, d, read)
         \/ RecordedRefusal(n)
  PROVE  bound' \in Bindings \cup {None} /\ storage' \in Snapshots \cup {None}
<1> USE DEF Typed, CacheTypes
<1>1. CASE UNCHANGED <<bound, storage>>
  BY <1>1
<1>2. CASE bound # None /\ RecordedRefusal(n)
  <2>1. CASE ~CurrentSession
    BY <1>1, <1>2, <2>1 DEF RecordedRefusal
  <2>2. CASE CurrentSession
    <3>1. bound' \in Bindings
      BY <1>2, <2>2 DEF RecordedRefusal, Bindings
    <3> QED BY <1>2, <2>2, <3>1, WrittenTypes DEF RecordedRefusal
  <2> QED BY <2>1, <2>2
<1>3. ASSUME bound # None, CurrentSession,
             NEW d \in HomeData, NEW read \in BOOLEAN, RecordedData(n, d, read)
      PROVE  bound' \in Bindings \cup {None} /\ storage' \in Snapshots \cup {None}
  <2> DEFINE b == [bound EXCEPT !.unver = IF read THEN @ \ {n} ELSE @]
  <2>1. b \in Bindings /\ [b EXCEPT !.memo[n] = DisplayData(d)] \in Bindings
    BY <1>3, DisplayTypes DEF Bindings
  <2>2. PICK good \in ValidData :
            IF n \in good
            THEN bound' = [b EXCEPT !.memo[n] = DisplayData(d)] /\ storage' \in Written(bound', storage)
            ELSE bound' = b /\ UNCHANGED storage
    BY <1>3 DEF RecordedData
  <2> HIDE DEF b
  <2> QED BY <2>1, <2>2, WrittenTypes
<1> QED BY <1>1, <1>2, <1>3 DEF RecordedData, RecordedRefusal

\* The answer on the account.
LEMMA AuthArrivesTypes ==
  ASSUME Typed, AuthArrives
  PROVE  Typed'
<1> USE DEF Typed, store, server
<1> DEFINE a == auth.read.answer.info
           code == auth.read.answer.code
<1>0. auth.read.answer \in Replies /\ (code = "ok" => a \in AuthAnswers)
  BY DEF AuthArrives, AuthTypes, Auths
<1>1. \/ /\ \E e \in {"failed", "refused"} : AuthFailed(e)
         /\ \/ UNCHANGED <<store, query, bound, storage>>
            \/ token # None /\ ForgetCurrent /\ UNCHANGED <<query, bound>>
            \/ DiscardHomeCache /\ UNCHANGED store
      \/ /\ code = "ok"
         /\ auth' = [data |-> a, err |-> "none", read |-> Idle]
         /\ BindHomeCache(a, route # "settings") \/ UNCHANGED <<query, bound, storage>>
         /\ UNCHANGED store
  BY <1>0 DEF AuthArrives, Replies
<1>2. AuthTypes'
  <2>1. auth'.read = Idle /\ auth' \in Auths
    <3>1. ASSUME NEW e \in {"failed", "refused"}
          PROVE  /\ [auth EXCEPT !.err = e, !.read = Idle] \in Auths
                 /\ [auth EXCEPT !.err = e, !.read = Idle].read = Idle
      BY IdleTypes DEF AuthTypes, Auths
    <3>2. ASSUME a \in AuthAnswers
          PROVE  [data |-> a, err |-> "none", read |-> Idle] \in Auths
      BY <3>2, IdleTypes DEF Auths
    <3>3. CASE \E e \in {"failed", "refused"} : AuthFailed(e)
      BY <3>1, <3>3 DEF AuthFailed
    <3>4. CASE code = "ok" /\ auth' = [data |-> a, err |-> "none", read |-> Idle]
      <4>1. auth'.read = Idle
        BY <3>4
      <4> QED BY <1>0, <3>2, <3>4, <4>1
    <3> QED BY <1>1, <3>3, <3>4
  <2> QED BY <2>1 DEF AuthTypes, Idle
<1>3. CacheTypes'
  BY <1>0, <1>1, BindHomeCacheTypes, RemovedTypes DEF CacheTypes, DiscardHomeCache, ForgetCurrent
<1>4. UNCHANGED <<client, route, loaded, coming, server>>
  BY DEF AuthArrives
<1>5. UNCHANGED store \/ (token' = None /\ accounts' \subseteq accounts)
  BY <1>1 DEF ForgetCurrent
<1>6. StoreTypes' /\ ServerTypes'
  BY <1>4, <1>5 DEF StoreTypes, ServerTypes
<1> QED BY <1>2, <1>3, <1>6

\* A failed read.
LEMMA FailedTypes ==
  ASSUME query \in [Names -> Queries], NEW n \in Names, NEW e \in {"failed", "refused"}, Failed(n, e)
  PROVE  query' \in [Names -> Queries]
<1>1. [query[n] EXCEPT !.err = e, !.read = Idle] \in Queries
  BY DEF Queries, Idle, Askers
<1>2. query' = [query EXCEPT ![n] = [query[n] EXCEPT !.err = e, !.read = Idle]]
  BY DEF Failed
<1> QED BY <1>1, <1>2

\* Data that replace what the query had.
LEMMA GoodTypes ==
  ASSUME query \in [Names -> Queries], NEW n \in Names, NEW d \in HomeData,
         query' = [query EXCEPT ![n] = [Nothing EXCEPT !.data = d]]
  PROVE  query' \in [Names -> Queries]
<1>1. [Nothing EXCEPT !.data = d] \in Queries
  BY IdleTypes DEF Queries
<1> QED BY <1>1

\* The answer with home data.
LEMMA ArrivesTypes ==
  ASSUME Typed, NEW n \in Names, Arrives(n)
  PROVE  Typed'
<1> USE DEF Typed, store, server
<1> DEFINE a == query[n].read.answer
<1>0. a \in Users \cup {"expired", "refused"}
  BY DEF Arrives, CacheTypes, Queries
<1>1. \/ /\ \E e \in {"failed", "refused"} : Failed(n, e)
         /\ \/ UNCHANGED <<store, bound, storage>>
            \/ ForgetCurrent /\ UNCHANGED bound
            \/ RecordedRefusal(n) /\ UNCHANGED store
      \/ /\ a \in Users
         /\ query' = [query EXCEPT ![n] = [Nothing EXCEPT !.data = Fetched(a)]]
         /\ RecordedData(n, Fetched(a), TRUE)
         /\ UNCHANGED store
  BY <1>0 DEF Arrives
<1>2. a \in Users => Fetched(a) \in HomeData
  BY DEF Fetched, HomeData
<1>3. query' \in [Names -> Queries]
  BY <1>1, <1>2, FailedTypes, GoodTypes DEF CacheTypes
<1>6. CacheTypes'
  BY <1>1, <1>2, <1>3, RecordedTypes DEF CacheTypes, ForgetCurrent
<1>7. UNCHANGED store \/ (token' = None /\ accounts' \subseteq accounts)
  BY <1>1 DEF ForgetCurrent
<1> QED BY <1>6, <1>7 DEF Arrives, StoreTypes, ServerTypes, AuthTypes

\* A save that was answered.
LEMMA SavedTypes ==
  ASSUME Typed, NEW n \in Names, Saved(n)
  PROVE  Typed'
<1> USE DEF Typed, store, server
<1> DEFINE data == [query[n].data EXCEPT !.of = holder[token]]
<1>1. data \in HomeData
  BY DEF Saved, CacheTypes, Queries, HomeData, ServerTypes
<1>2. /\ query' = [query EXCEPT ![n] = [Nothing EXCEPT !.data = data]]
      /\ RecordedData(n, data, FALSE)
  BY DEF Saved
<1> HIDE DEF data
<1>3. CacheTypes'
  BY <1>1, <1>2, GoodTypes, RecordedTypes DEF CacheTypes
<1> QED BY <1>3 DEF Saved, StoreTypes, ServerTypes, AuthTypes

\* Every step keeps the types.
LEMMA TypedStep ==
  ASSUME Typed, [Next]_vars
  PROVE  Typed'
<1>1. CASE UNCHANGED vars
  BY <1>1 DEF vars, store, cache, server, Typed, StoreTypes, ServerTypes, AuthTypes, CacheTypes
<1>2. CASE AuthArrives \/ \E n \in Names : Arrives(n) \/ Saved(n)
  BY <1>2, AuthArrivesTypes, ArrivesTypes, SavedTypes
<1>3. CASE \/ ReadAuth \/ HandleAuth \/ AuthLost
           \/ \E n \in Names : Read(n) \/ Handle(n) \/ Lost(n)
  BY <1>3, AskTypes
<1>4. CASE \/ SessionQueries \/ Reload \/ Loaded
           \/ \E page \in {"home", "settings", "login"} : Navigate(page)
  BY <1>4, PageStepTypes
<1>5. CASE \/ \E t \in Tokens : SelectAccount(t) \/ ForgetOther(t)
           \/ \E t \in Tokens, page \in {"home", "settings"} : SignIn(t, page)
           \/ Logout \/ UpdatePassword \/ ForgetPublic
  BY <1>5, StoreStepTypes
<1>6. CASE Environment
  BY <1>6, EnvironmentTypes
<1> QED BY <1>1, <1>2, <1>3, <1>4, <1>5, <1>6 DEF Next

\* They hold at first.
LEMMA TypedInit ==
  ASSUME Init
  PROVE  Typed
<1>1. StoreTypes /\ ServerTypes
  BY DEF Init, StoreTypes, ServerTypes
<1>2. AuthTypes /\ CacheTypes
  BY IdleTypes DEF Init, AuthTypes, CacheTypes, NoAuth, Idle
<1> QED BY <1>1, <1>2 DEF Typed

\* Every variable keeps its type, and the store's token is one of its accounts.
THEOREM TypeCorrect == Spec => []TypeOK
<1>1. Typed => TypeOK
  BY DEF Typed, TypeOK, StoreTypes, AuthTypes, CacheTypes, Auths, Queries, Snapshots
<1> QED BY <1>1, TypedInit, TypedStep, PTL DEF Spec

-----------------------------------------------------------------------------
(***************************************************************************)
(* Whose the data are.                                                     *)
(***************************************************************************)
\* What a read is sent as: the session of its query client.
Self == IF client = None THEN "guest" ELSE client

\* Only opened sessions are known, and never opened again.
Opened ==
  /\ \A t \in accounts : holder[t] # None
  /\ client # None => holder[client] # None

\* A read belongs to the session of its query client, and what the server answered
\* was about the account of that session, if it still is in force.
AuthAnswered ==
  /\ auth.read # Idle => auth.read.of = Self
  /\ auth.read.answer # None /\ auth.read.answer.code = "ok" =>
       /\ ~auth.read.answer.info.public =>
            client # None /\ auth.read.answer.info.user = holder[client]
       /\ client \in live => ~auth.read.answer.info.public

DataAnswered ==
  \A n \in Names :
    /\ query[n].read # Idle => query[n].read.of = Self
    /\ client \in live /\ query[n].read.answer \in Users => query[n].read.answer = holder[client]

\* The binding is for the account of the query client.
BoundIsOurs ==
  bound # None =>
    /\ client # None /\ bound.user = holder[client]
    /\ \A n \in Names : bound.memo[n] # None =>
         /\ ~bound.memo[n].whole
         /\ client \in live => bound.memo[n].of = holder[client]
         /\ client = token => query[n].err # "refused"

\* A copy that can be restored, because its session is in force or another tab
\* has left it, holds the data of the account it names.
CopyIsWhose ==
  storage # None =>
    \A n \in Names : storage.queries[n] # None =>
      /\ ~storage.queries[n].whole
      /\ ~storage.ours \/ token \in live => storage.queries[n].of = storage.user

\* Once the code for this visit of the settings is there, nothing unverified is left.
SettingsCleared ==
  client = token /\ route = "settings" /\ loaded = "settings" /\ ~coming =>
    \A n \in Names : query[n].data # None => query[n].data.whole

Ours == /\ Typed /\ Opened /\ AuthAnswered /\ DataAnswered
        /\ BoundIsOurs /\ CopyIsWhose /\ SettingsCleared /\ CachedIsOurs /\ SnapshotIsOurs

\* Steps of the store, of the server and of another tab.  They leave the query
\* client alone; when the session changes, it is not the client's any more and the
\* copy is gone.
LEMMA StoreStep ==
  ASSUME Ours, Typed',
         UNCHANGED <<client, loaded, coming, bound>>,
         auth' = auth \/ auth'.read = Idle,
         token' = token => query' = query,
         \A n \in Names : /\ query'[n].data = query[n].data /\ query'[n].inval = query[n].inval
                          /\ query'[n].read \in {query[n].read, Idle},
         \A t \in Tokens : holder[t] # None => holder'[t] = holder[t] /\ (t \in live' => t \in live),
         \A t \in accounts' : holder'[t] # None,
         \/ /\ token' = token /\ route' = route
            /\ \/ storage' = storage
               \/ storage' # None => ~storage'.ours /\ CopyIsWhose'
         \/ token' # client /\ storage' = None
  PROVE  Ours'
<1> USE DEF Ours, Typed, StoreTypes
<1>1. Opened'
  BY DEF Opened
<1>0. client # None => client \in Tokens /\ holder[client] # None /\ holder'[client] = holder[client]
  BY DEF Opened
<1>00. client \in live' => client \in live /\ client # None
  BY <1>0 DEF ServerTypes
<1>2. AuthAnswered'
  <2>1. auth' = auth \/ (auth'.read = Idle /\ auth'.read.answer = None)
    BY DEF Idle
  <2>2. Self' = Self
    BY DEF Self
  <2> QED BY <1>0, <1>00, <2>1, <2>2 DEF AuthAnswered
<1>8. DataAnswered'
  <2>1. Self' = Self
    BY DEF Self
  <2>2. \A n \in Names : query'[n].read = Idle => query'[n].read.answer = None
    BY DEF Idle
  <2> QED BY <1>0, <1>00, <2>1, <2>2 DEF DataAnswered
<1>3. BoundIsOurs'
  BY <1>0, <1>00 DEF BoundIsOurs
<1>4. CachedIsOurs'
  BY <1>0, <1>00 DEF CachedIsOurs, Verified, ServerTypes
<1>5. SettingsCleared'
  BY DEF SettingsCleared
<1>6. CopyIsWhose'
  BY DEF CopyIsWhose, ServerTypes, Opened
<1>7. SnapshotIsOurs'
  BY DEF SnapshotIsOurs, Opened
<1> QED BY <1>1, <1>2, <1>3, <1>4, <1>5, <1>6, <1>7, <1>8

\* All of them are of that form.
LEMMA StoreSteps ==
  ASSUME Ours, Typed',
         \/ \E t \in Tokens : SelectAccount(t) \/ ForgetOther(t)
         \/ \E t \in Tokens, page \in {"home", "settings"} : SignIn(t, page)
         \/ Logout \/ UpdatePassword \/ ForgetPublic
         \/ Environment
  PROVE  Ours'
<1> USE DEF Ours, Typed, StoreTypes, ServerTypes, store, cache, server, Opened
<1>1. CASE \E t \in Tokens : SelectAccount(t)
  <2>1. /\ client = token /\ token' # token /\ storage' = None
        /\ UNCHANGED <<accounts, client, loaded, coming, cache, holder, live>>
    BY <1>1 DEF SelectAccount, Shown
  <2> QED BY <2>1, StoreStep
<1>2. CASE \E t \in Tokens : ForgetOther(t)
  <2>1. /\ UNCHANGED <<token, client, route, loaded, coming, cache, storage, holder, live>>
        /\ accounts' \subseteq accounts
    BY <1>2 DEF ForgetOther
  <2> QED BY <2>1, StoreStep
<1>3. CASE \E t \in Tokens, page \in {"home", "settings"} : SignIn(t, page)
  <2> PICK t \in Tokens, page \in {"home", "settings"}, u \in Users :
        /\ holder[t] = None /\ holder' = [holder EXCEPT ![t] = u]
        /\ live' = live \cup {t}
        /\ accounts' = {s \in accounts : holder[s] # u} \cup {t}
        /\ token' = t /\ storage' = None
        /\ UNCHANGED <<client, loaded, coming, cache>>
    BY <1>3 DEF SignIn
  <2>1. \A v \in Tokens : holder[v] # None => holder'[v] = holder[v] /\ (v \in live' => v \in live)
    OBVIOUS
  <2>2. \A v \in accounts' : holder'[v] # None
    OBVIOUS
  <2>3. token' # client
    OBVIOUS
  <2> QED BY <2>1, <2>2, <2>3, StoreStep
<1>4. CASE Logout \/ UpdatePassword \/ ForgetPublic
  <2>1. /\ ForgetCurrent /\ client = token /\ token # None
        /\ UNCHANGED <<client, loaded, coming, cache, holder>> /\ live' \subseteq live
    BY <1>4 DEF Logout, UpdatePassword, ForgetPublic, SignOut, Shown
  <2> QED BY <2>1, StoreStep DEF ForgetCurrent
<1>5. CASE Environment
  <2>1. /\ UNCHANGED <<client, loaded, coming, cache, holder, store, route>> /\ live' \subseteq live
        /\ UNCHANGED storage \/ OtherTab
    BY <1>5 DEF Environment, Bar, Publish, ChangeRole, Revoke, OtherTab, Turn
  <2>2. CASE OtherTab
    <3>1. CASE storage' = None
      BY <2>1, <3>1, StoreStep
    <3>2. ASSUME NEW u \in Users, NEW has \in SUBSET Names,
                 storage' = [user |-> u, role |-> role[u], ours |-> FALSE, old |-> FALSE,
                   queries |-> [n \in Names |-> IF n \in has THEN DisplayData(Fetched(u)) ELSE None]]
          PROVE  Ours'
      <4>1. \A n \in Names : storage'.queries[n] # None => storage'.queries[n] = DisplayData(Fetched(u))
        BY <3>2
      <4>2. Fetched(u) \in HomeData /\ Fetched(u).of = u
        BY DEF Fetched, HomeData
      <4>3. ~DisplayData(Fetched(u)).whole /\ DisplayData(Fetched(u)).of = u
        BY <4>2, DisplayTypes
      <4>4. ~storage'.ours /\ storage'.user = u
        BY <3>2
      <4>5. CopyIsWhose'
        BY <4>1, <4>3, <4>4 DEF CopyIsWhose
      <4> QED BY <2>1, <4>4, <4>5, StoreStep
    <3> QED BY <2>2, <3>1, <3>2 DEF OtherTab
  <2>3. CASE UNCHANGED storage
    BY <2>1, <2>3, StoreStep
  <2> QED BY <2>1, <2>2, <2>3
<1> QED BY <1>1, <1>2, <1>3, <1>4, <1>5

\* A new query client starts empty.
LEMMA ClientStep ==
  ASSUME Ours, Typed', SessionQueries \/ Reload
  PROVE  Ours'
<1> USE DEF Ours, Typed, store, server
<1>1. /\ client' = token /\ auth' = NoAuth /\ query' = [n \in Names |-> Nothing] /\ bound' = None
      /\ UNCHANGED <<token, accounts, holder, live, storage>>
  BY DEF SessionQueries, Reload
<1>2. auth'.read = Idle /\ auth'.read.answer = None
  BY <1>1 DEF NoAuth, Idle
<1>3. \A n \in Names : query'[n].read = Idle /\ query'[n].data = None /\ query'[n].read.answer = None
  BY <1>1 DEF Nothing, Idle
<1>4. Opened'
  BY <1>1 DEF Opened, StoreTypes
<1>5. AuthAnswered' /\ DataAnswered'
  BY <1>2, <1>3 DEF AuthAnswered, DataAnswered
<1>6. BoundIsOurs' /\ CachedIsOurs' /\ SettingsCleared' /\ SnapshotIsOurs'
  BY <1>1, <1>3 DEF BoundIsOurs, CachedIsOurs, SettingsCleared, SnapshotIsOurs
<1>7. CopyIsWhose'
  BY <1>1 DEF CopyIsWhose
<1> QED BY <1>4, <1>5, <1>6, <1>7

\* Steps that leave the store, the server and the copy alone, and take data out of
\* the query client or mark its queries as failed.
LEMMA QueryStep ==
  ASSUME Ours, Typed',
         UNCHANGED <<token, accounts, client, storage, holder, live>>,
         AuthAnswered', DataAnswered', SettingsCleared',
         UNCHANGED bound \/ ClearUnverifiedHomeData,
         \A n \in Names :
           /\ query'[n].err \in {query[n].err, "none", "failed"}
           /\ \/ query'[n].data = None
              \/ query'[n].data = query[n].data /\ query'[n].inval = query[n].inval
           /\ bound' # bound => query'[n].data = None \/ n \notin bound.unver
  PROVE  Ours'
<1> USE DEF Ours, Typed
<1>1. Opened'
  BY DEF Opened
<1>2. bound' # None => bound # None /\ bound'.user = bound.user /\ bound'.memo = bound.memo
  BY DEF ClearUnverifiedHomeData, CacheTypes, Bindings
<1>3. BoundIsOurs'
  BY <1>2 DEF BoundIsOurs
<1>4. CopyIsWhose'
  BY DEF CopyIsWhose
<1>5. SnapshotIsOurs'
  BY <1>2 DEF SnapshotIsOurs
<1>6. CachedIsOurs'
  BY DEF CachedIsOurs, Verified
<1> QED BY <1>1, <1>3, <1>4, <1>5, <1>6

\* Loaded and Navigate.
LEMMA PageSteps ==
  ASSUME Ours, Typed',
         Loaded \/ \E page \in {"home", "settings", "login"} : Navigate(page)
  PROVE  Ours'
<1> USE DEF Ours, Typed, store, server
<1>1. CASE Loaded
  <2>1. /\ UNCHANGED <<token, accounts, client, storage, holder, live, auth, route>>
        /\ client = token /\ loaded' = route
        /\ IF route = "settings" THEN ClearUnverifiedHomeData ELSE UNCHANGED <<query, bound>>
    BY <1>1 DEF Loaded
  <2>2. AuthAnswered'
    BY <2>1 DEF AuthAnswered, Self
  <2>3. CASE UNCHANGED <<query, bound>>
    <3>1. DataAnswered'
      BY <2>1, <2>3 DEF DataAnswered, Self
    <3>2. SettingsCleared'
      <4>1. CASE route # "settings"
        BY <2>1, <4>1 DEF SettingsCleared
      <4>2. CASE route = "settings"
        <5>1. bound = None \/ bound.unver = {}
          BY <2>1, <2>3, <4>2 DEF ClearUnverifiedHomeData, CacheTypes, Bindings
        <5> QED BY <2>3, <5>1 DEF SettingsCleared, CachedIsOurs, Verified
      <4> QED BY <4>1, <4>2
    <3> QED BY <2>1, <2>2, <2>3, <3>1, <3>2, QueryStep
  <2>4. CASE bound # None /\ ClearUnverifiedHomeData
    <3>1. \A n \in Names : query'[n] = IF n \in bound.unver THEN Nothing ELSE query[n]
      BY <2>4 DEF ClearUnverifiedHomeData, Removed
    <3>2. \A n \in Names : n \in bound.unver => /\ query'[n].data = None /\ query'[n].err = "none"
                                                /\ query'[n].read = Idle
                                                /\ query'[n].read.answer = None
      BY <3>1 DEF Nothing, Idle
    <3>3. DataAnswered'
      BY <2>1, <3>1, <3>2 DEF DataAnswered, Self
    <3>4. SettingsCleared'
      BY <2>4, <3>1, <3>2 DEF SettingsCleared, CachedIsOurs, Verified
    <3> QED BY <2>1, <2>2, <2>4, <3>1, <3>2, <3>3, <3>4, QueryStep
  <2>5. CASE bound = None
    BY <2>1, <2>3, <2>5 DEF ClearUnverifiedHomeData
  <2> QED BY <2>1, <2>3, <2>4, <2>5
<1>2. CASE \E page \in {"home", "settings", "login"} : Navigate(page)
  <2> PICK page \in {"home", "settings", "login"} : Navigate(page)
    BY <1>2
  <2>1. /\ UNCHANGED <<token, accounts, client, storage, bound, holder, live>>
        /\ route' = page /\ page # route
        /\ page = "settings" => coming'
        /\ auth' \in {auth, [auth EXCEPT !.read = Idle]}
        /\ query' = Cancelled
    BY DEF Navigate
  <2>2. \A n \in Names : /\ query'[n].read = Idle /\ query'[n].read.answer = None
                         /\ query'[n].data = query[n].data /\ query'[n].err = query[n].err
                         /\ query'[n].inval = query[n].inval
    BY <2>1 DEF Cancelled, Idle, CacheTypes, Queries
  <2>3. auth'.read = auth.read \/ (auth'.read = Idle /\ auth'.read.answer = None)
    BY <2>1 DEF AuthTypes, Auths, Idle
  <2>4. AuthAnswered' /\ DataAnswered'
    BY <2>1, <2>2, <2>3 DEF AuthAnswered, DataAnswered, Self
  <2>5. SettingsCleared'
    BY <2>1 DEF SettingsCleared
  <2> QED BY <2>1, <2>2, <2>4, <2>5, QueryStep
<1> QED BY <1>1, <1>2

\* The server answers for the account of the session that asked.
LEMMA HandleAnswers ==
  ASSUME Ours
  PROVE  /\ client \in live => Visitor(Self) = holder[client]
         /\ Self \in live => client # None /\ Self = client
         /\ client \in live => Self \in live
BY DEF Ours, Typed, StoreTypes, ServerTypes, Visitor, Self

\* Reads that are sent, handled or lost.
LEMMA AskSteps ==
  ASSUME Ours, Typed',
         \/ ReadAuth \/ HandleAuth \/ AuthLost
         \/ \E n \in Names : Read(n) \/ Handle(n) \/ Lost(n)
  PROVE  Ours'
<1> USE DEF Ours, Typed, store, server
<1>0. UNCHANGED <<token, accounts, client, route, loaded, coming, bound, storage, holder, live>>
  BY DEF ReadAuth, HandleAuth, AuthLost, Read, Handle, Lost
<1>s. Self' = Self
  BY <1>0 DEF Self
<1>1. CASE ReadAuth \/ HandleAuth \/ AuthLost
  <2>1. query' = query
    BY <1>1 DEF ReadAuth, HandleAuth, AuthLost
  <2>2. DataAnswered' /\ SettingsCleared'
    BY <1>0, <1>s, <2>1 DEF DataAnswered, SettingsCleared
  <2>3. AuthAnswered'
    <3>1. CASE ReadAuth
      <4>1. auth'.read.of = Self /\ auth'.read.answer = auth.read.answer /\ auth.read.answer = None
        BY <3>1 DEF ReadAuth, AuthTypes, Auths, Self, Idle
      <4> QED BY <1>s, <4>1 DEF AuthAnswered
    <3>2. CASE HandleAuth
      <4>1. auth.read.of = Self /\ auth'.read.of = auth.read.of
        BY <3>2 DEF HandleAuth, AuthAnswered, AuthTypes, Auths
      <4>2. CASE Verdict(Self) = "ok"
        <5>1. /\ auth'.read.answer.info.user = Visitor(Self)
              /\ auth'.read.answer.info.public = (Self \notin live)
          BY <3>2, <4>1, <4>2 DEF HandleAuth, AuthTypes, Auths
        <5> QED BY <1>0, <1>s, <4>1, <5>1, HandleAnswers DEF AuthAnswered, Visitor
      <4>3. CASE Verdict(Self) # "ok"
        <5>1. auth'.read.answer.code # "ok"
          BY <3>2, <4>1, <4>3 DEF HandleAuth, AuthTypes, Auths
        <5> QED BY <1>s, <4>1, <5>1 DEF AuthAnswered
      <4> QED BY <4>2, <4>3
    <3>3. CASE AuthLost
      <4>1. auth'.read = Idle /\ auth'.read.answer = None
        BY <3>3 DEF AuthLost, AuthFailed, AuthTypes, Auths, Idle
      <4> QED BY <4>1 DEF AuthAnswered
    <3> QED BY <1>1, <3>1, <3>2, <3>3
  <2> QED BY <1>0, <2>1, <2>2, <2>3, QueryStep
<1>2. ASSUME NEW n \in Names, Read(n) \/ Handle(n) \/ Lost(n)
      PROVE  Ours'
  <2>1. auth' = auth
    BY <1>2 DEF Read, Handle, Lost
  <2>2. AuthAnswered'
    BY <1>0, <1>s, <2>1 DEF AuthAnswered
  <2>3. \A m \in Names :
          /\ m # n => query'[m] = query[m]
          /\ query'[m].err \in {query[m].err, "none", "failed"}
          /\ query'[m].data = query[m].data /\ query'[m].inval = query[m].inval
    BY <1>2 DEF Read, Handle, Lost, Failed, CacheTypes, Queries
  <2>4. SettingsCleared'
    BY <1>0, <2>3 DEF SettingsCleared
  <2>5. DataAnswered'
    <3>1. CASE Read(n)
      <4>1. query'[n].read.of = Self /\ query'[n].read.answer = None
        BY <3>1 DEF Read, Shown, CacheTypes, Queries, Self, Idle
      <4> QED BY <1>0, <1>s, <2>3, <4>1 DEF DataAnswered
    <3>2. CASE Handle(n)
      <4>1. query[n].read.of = Self /\ query'[n].read.of = query[n].read.of
        BY <3>2 DEF Handle, DataAnswered, CacheTypes, Queries
      <4>2. query'[n].read.answer \in {Visitor(Self), "expired", "refused"}
        BY <3>2, <4>1 DEF Handle, CacheTypes, Queries, Verdict
      <4> QED BY <1>0, <1>s, <2>3, <4>1, <4>2, HandleAnswers DEF DataAnswered
    <3>3. CASE Lost(n)
      <4>1. query'[n].read = Idle /\ query'[n].read.answer = None
        BY <3>3 DEF Lost, Failed, CacheTypes, Queries, Idle
      <4> QED BY <1>0, <1>s, <2>3, <4>1 DEF DataAnswered
    <3> QED BY <1>2, <3>1, <3>2, <3>3
  <2> QED BY <1>0, <2>2, <2>3, <2>4, <2>5, QueryStep
<1> QED BY <1>1, <1>2

-----------------------------------------------------------------------------
\* What the arrival of an answer leaves alone.
Still == UNCHANGED <<token, accounts, client, route, loaded, coming, holder, live>>

\* The copy a binding writes is for its account; one that a refused write leaves
\* is what it was.
LEMMA WrittenStep ==
  ASSUME Ours, Typed', Still, client = token, bound' # None, BoundIsOurs',
         NEW kept \in {storage, None}, storage' \in Written(bound', kept),
         Opened', AuthAnswered', DataAnswered', SettingsCleared', CachedIsOurs'
  PROVE  Ours'
<1>0. /\ UNCHANGED <<client, token, holder, live>>
      /\ \A n \in Names : query'[n].err = "refused" => bound'.memo[n] = None
  BY DEF Still, BoundIsOurs
<1>1. CASE storage' = None
  BY <1>0, <1>1 DEF Ours, CopyIsWhose, SnapshotIsOurs
<1>2. CASE storage' = [user |-> bound'.user, role |-> bound'.role, queries |-> bound'.memo,
                       ours |-> TRUE, old |-> FALSE]
  <2>1. storage'.user = bound'.user /\ storage'.queries = bound'.memo /\ storage'.ours = TRUE
    BY <1>2
  <2>2. CopyIsWhose'
    BY <1>0, <2>1 DEF CopyIsWhose, BoundIsOurs
  <2>3. SnapshotIsOurs'
    BY <1>0, <2>1 DEF SnapshotIsOurs, BoundIsOurs
  <2> QED BY <2>2, <2>3 DEF Ours
<1>3. CASE storage # None /\ storage' = [storage EXCEPT !.old = TRUE]
  <2>1. /\ storage'.user = storage.user /\ storage'.queries = storage.queries
        /\ storage'.ours = storage.ours /\ storage'.old
    BY <1>3 DEF Ours, Typed, CacheTypes, Snapshots
  <2>2. CopyIsWhose'
    BY <1>0, <1>3, <2>1 DEF Ours, CopyIsWhose
  <2>3. SnapshotIsOurs'
    BY <1>0, <1>3, <2>1 DEF Ours, SnapshotIsOurs
  <2> QED BY <2>2, <2>3 DEF Ours
<1> QED BY <1>1, <1>2, <1>3 DEF Written

\* The home data are discarded with the copy.
LEMMA DiscardStep ==
  ASSUME Ours, Typed', Still, DiscardHomeCache, auth'.read = Idle
  PROVE  Ours'
<1> USE DEF Ours, Typed, Still
<1>1. \A n \in Names : /\ query'[n].data = None
                       /\ query'[n].read = Idle /\ query'[n].read.answer = None
  BY DEF DiscardHomeCache, Removed, Nothing, Idle
<1>2. Opened'
  BY DEF Opened
<1>3. AuthAnswered' /\ DataAnswered'
  BY <1>1 DEF AuthAnswered, DataAnswered, Idle
<1>4. BoundIsOurs' /\ CopyIsWhose' /\ SnapshotIsOurs' /\ SettingsCleared' /\ CachedIsOurs'
  BY <1>1 DEF DiscardHomeCache, BoundIsOurs, CopyIsWhose, SnapshotIsOurs, SettingsCleared,
              CachedIsOurs
<1> QED BY <1>2, <1>3, <1>4

\* A query whose data were restored.
LEMMA RestoredQuery ==
  ASSUME NEW q \in Queries, NEW d
  PROVE  LET restored == [q EXCEPT !.data = d, !.inval = TRUE, !.err = "none"]
         IN /\ restored.data = d /\ restored.inval /\ restored.err = "none"
            /\ restored.read = q.read
BY DEF Queries

\* A new binding is for the account that was read, and so are the data it restores.
LEMMA BindStep ==
  ASSUME Ours, Typed', Still, auth'.read = Idle,
         NEW a \in AuthAnswers, a.user = holder[client],
         client = token, client # None,
         Bind(a, route # "settings")
  PROVE  Ours'
<1> USE DEF Ours, Typed, Still
<1> DEFINE before == IF bound = None THEN query ELSE Removed(query, Names)
           copies == IF bound = None THEN ReadSnapshot(a.user, a.role) ELSE {Empty}
           left == IF bound = None THEN storage ELSE None
           restore == route # "settings"
<1>p. PICK saved \in copies, good \in ValidData :
       LET unver == Restored(saved, before, restore)
           memo == Memo(saved, before, good)
       IN /\ bound' = [user |-> a.user, role |-> a.role, memo |-> memo, unver |-> unver]
          /\ query' = [n \in Names |->
                         IF n \in unver
                         THEN [before[n] EXCEPT !.data = saved[n], !.inval = TRUE, !.err = "none"]
                         ELSE before[n]]
          /\ IF \E n \in Names : before[n].err = "refused" \/ before[n].data # None
             THEN storage' \in Written(bound', left)
             ELSE storage' = left
  BY DEF Bind
<1> DEFINE unver == Restored(saved, before, restore)
           memo == Memo(saved, before, good)
<1>1. /\ before \in [Names -> Queries]
      /\ saved \in Copies
  <2>1. before \in [Names -> Queries]
    BY RemovedTypes DEF CacheTypes
  <2>2. saved \in Copies
    BY SnapshotTypes DEF Empty, Copies
  <2> QED BY <2>1, <2>2
<1>2. \A n \in Names :
        /\ before[n].data # None =>
             /\ before[n].data.whole
             /\ client \in live => before[n].data.of = holder[client]
        /\ before[n] = query[n] \/ before[n] = Nothing
        /\ before[n].read = query[n].read \/ (before[n].read = Idle /\ before[n].read.answer = None)
  <2>1. Nothing.data = None /\ Nothing.read = Idle /\ Idle.answer = None
    BY DEF Nothing, Idle
  <2> QED BY <2>1 DEF Removed, CachedIsOurs, Verified
<1>3. \A n \in Names : saved[n] # None =>
        /\ ~saved[n].whole
        /\ client \in live => saved[n].of = holder[client]
  <2>1. CASE bound = None
    BY <2>1 DEF ReadSnapshot, Empty, CopyIsWhose
  <2>2. CASE bound # None
    BY <2>2 DEF Empty
  <2> QED BY <2>1, <2>2
<1>4. \A n \in unver : /\ n \in Names /\ route # "settings"
                       /\ before[n].data = None /\ saved[n] # None /\ before[n].err # "refused"
  BY DEF Restored
<1>5. \A n \in Names : memo[n] # None =>
        /\ ~memo[n].whole
        /\ client \in live => memo[n].of = holder[client]
        /\ before[n].err # "refused"
  <2> SUFFICES ASSUME NEW n \in Names, memo[n] # None
               PROVE  /\ ~memo[n].whole
                      /\ client \in live => memo[n].of = holder[client]
                      /\ before[n].err # "refused"
    OBVIOUS
  <2>1. /\ before[n].err # "refused"
        /\ \/ memo[n] = saved[n]
           \/ before[n].data # None /\ memo[n] = DisplayData(before[n].data)
    BY DEF Memo
  <2>2. before[n].data # None => before[n].data \in HomeData
    BY <1>1 DEF Queries
  <2>3. CASE memo[n] = saved[n]
    BY <1>3, <2>1, <2>3
  <2>4. CASE before[n].data # None /\ memo[n] = DisplayData(before[n].data)
    <3>1. /\ ~DisplayData(before[n].data).whole
          /\ DisplayData(before[n].data).of = before[n].data.of
      BY <2>2, <2>4, DisplayTypes
    <3> QED BY <1>2, <2>1, <2>4, <3>1
  <2> QED BY <2>1, <2>3, <2>4
<1>6. /\ bound' = [user |-> a.user, role |-> a.role, memo |-> memo, unver |-> unver]
      /\ \A n \in Names : query'[n] = IF n \in unver
                            THEN [before[n] EXCEPT !.data = saved[n], !.inval = TRUE, !.err = "none"]
                            ELSE before[n]
      /\ left \in {storage, None}
      /\ \/ storage' \in Written(bound', left)
         \/ storage' = None
         \/ /\ storage' = storage
            /\ \A n \in Names : before[n].err # "refused" /\ before[n].data = None
  BY <1>p
<1>t. memo \in Copies /\ unver \in SUBSET Names
  BY <1>1, MemoTypes DEF Restored
<1> HIDE DEF unver, memo, before, copies, left
<1>7. /\ bound' # None /\ bound'.user = a.user /\ bound'.memo = memo /\ bound'.unver = unver
  <2>1. bound' \in Bindings
    BY <1>6, <1>t DEF AuthAnswers, Bindings, Copies
  <2> QED BY <1>6, <2>1
<1>8. \A n \in Names :
        IF n \in unver
        THEN /\ query'[n].data = saved[n] /\ query'[n].inval /\ query'[n].err = "none"
             /\ query'[n].read = before[n].read
        ELSE query'[n] = before[n]
  <2> SUFFICES ASSUME NEW n \in Names, n \in unver
               PROVE  /\ query'[n].data = saved[n] /\ query'[n].inval /\ query'[n].err = "none"
                      /\ query'[n].read = before[n].read
    BY <1>6
  <2>1. PICK q, d : q \in Queries /\ q = before[n] /\ d = saved[n]
    BY <1>1
  <2>2. query'[n] = [q EXCEPT !.data = d, !.inval = TRUE, !.err = "none"]
    BY <1>6, <2>1
  <2> QED BY <2>1, <2>2, RestoredQuery
<1>9. Opened'
  BY DEF Opened
<1>10. AuthAnswered'
  BY DEF AuthAnswered, Idle, Self
<1>11. DataAnswered'
  <2>1. \A n \in Names : query'[n].read = query[n].read \/ (query'[n].read = Idle /\ query'[n].read.answer = None)
    BY <1>2, <1>8
  <2> QED BY <2>1 DEF DataAnswered, Self
<1>12. BoundIsOurs'
  BY <1>5, <1>7, <1>8 DEF BoundIsOurs
<1>13. CachedIsOurs'
  <2> SUFFICES ASSUME NEW n \in Names, query'[n].data # None
               PROVE  /\ client \in live => query'[n].data.of = holder[client]
                      /\ ~query'[n].data.whole => n \in unver /\ query'[n].inval
    BY <1>7 DEF CachedIsOurs, Verified
  <2>1. CASE n \in unver
    BY <1>3, <1>4, <1>8, <2>1
  <2>2. CASE n \notin unver
    BY <1>2, <1>8, <2>2
  <2> QED BY <2>1, <2>2
<1>14. SettingsCleared'
  BY <1>2, <1>4, <1>8 DEF SettingsCleared
<1>15. CASE storage' \in Written(bound', left)
  BY <1>6, <1>7, <1>9, <1>10, <1>11, <1>12, <1>13, <1>14, <1>15, WrittenStep
<1>16. CASE storage' = None
  <2>1. CopyIsWhose' /\ SnapshotIsOurs'
    BY <1>5, <1>7, <1>8, <1>16 DEF CopyIsWhose, SnapshotIsOurs
  <2> QED BY <1>9, <1>10, <1>11, <1>12, <1>13, <1>14, <2>1
<1>17. CASE storage' = storage /\ \A n \in Names : before[n].err # "refused"
  <2>1. CopyIsWhose' /\ SnapshotIsOurs'
    BY <1>8, <1>17 DEF CopyIsWhose, SnapshotIsOurs
  <2> QED BY <1>9, <1>10, <1>11, <1>12, <1>13, <1>14, <2>1
<1> QED BY <1>6, <1>15, <1>16, <1>17

\* The binding records data that were read or saved: they are for its account.
LEMMA RecordStep ==
  ASSUME Ours, Typed', Still, auth' = auth, client = token,
         NEW n \in Names, NEW d \in HomeData, NEW read \in BOOLEAN,
         d.whole, client \in live => d.of = holder[client],
         query' = [query EXCEPT ![n] = [Nothing EXCEPT !.data = d]],
         RecordedData(n, d, read)
  PROVE  Ours'
<1> USE DEF Ours, Typed, Still
<1>1. /\ \A m \in Names \ {n} : query'[m] = query[m]
      /\ query'[n].data = d /\ query'[n].err = "none"
      /\ query'[n].read = Idle /\ query'[n].read.answer = None
  BY DEF CacheTypes, Nothing, Idle
<1>2. Opened'
  BY DEF Opened
<1>3. AuthAnswered' /\ DataAnswered'
  BY <1>1 DEF AuthAnswered, DataAnswered, Self
<1>4. SettingsCleared'
  BY <1>1 DEF SettingsCleared
<1>5. CASE bound = None
  <2>1. UNCHANGED <<bound, storage>>
    BY <1>5 DEF RecordedData
  <2>2. BoundIsOurs' /\ CopyIsWhose' /\ SnapshotIsOurs'
    BY <1>5, <2>1 DEF BoundIsOurs, CopyIsWhose, SnapshotIsOurs
  <2>3. CachedIsOurs'
    BY <1>1, <1>5, <2>1 DEF CachedIsOurs, Verified
  <2> QED BY <1>2, <1>3, <1>4, <2>2, <2>3
<1>6. CASE bound # None
  <2>1. PICK b : b = [bound EXCEPT !.unver = IF read THEN @ \ {n} ELSE @]
    OBVIOUS
  <2>2. PICK good \in ValidData :
            IF n \in good
            THEN bound' = [b EXCEPT !.memo[n] = DisplayData(d)] /\ storage' \in Written(bound', storage)
            ELSE bound' = b /\ UNCHANGED storage
    BY <1>6, <2>1 DEF RecordedData, CurrentSession
  <2>3. DisplayData(d) \in HomeData /\ ~DisplayData(d).whole /\ DisplayData(d).of = d.of
    BY DisplayTypes
  <2>4. /\ b \in Bindings /\ b.user = bound.user /\ b.memo = bound.memo
        /\ b.unver \in {bound.unver, bound.unver \ {n}}
    BY <1>6, <2>1 DEF CacheTypes, Bindings
  <2>5. /\ bound' # None /\ bound'.user = bound.user
        /\ bound'.unver = b.unver
        /\ \A m \in Names \ {n} : bound'.memo[m] = bound.memo[m]
        /\ bound'.memo[n] \in {bound.memo[n], DisplayData(d)}
    BY <2>2, <2>3, <2>4 DEF Bindings
  <2>6. storage' = storage \/ storage' \in Written(bound', storage)
    BY <2>2
  <2>7. BoundIsOurs'
    BY <1>1, <1>6, <2>3, <2>5 DEF BoundIsOurs
  <2>8. CachedIsOurs'
    BY <1>1, <1>6, <2>4, <2>5 DEF CachedIsOurs, Verified
  <2>9. CASE storage' = storage
    <3>1. CopyIsWhose' /\ SnapshotIsOurs'
      BY <1>1, <1>6, <2>5, <2>9 DEF CopyIsWhose, SnapshotIsOurs
    <3> QED BY <1>2, <1>3, <1>4, <2>7, <2>8, <3>1
  <2>10. CASE storage' \in Written(bound', storage)
    BY <1>2, <1>3, <1>4, <2>5, <2>7, <2>8, <2>10, WrittenStep
  <2> QED BY <2>6, <2>9, <2>10
<1> QED BY <1>5, <1>6

\* A read that the server refuses: the binding drops what it kept of it.
LEMMA RefusalStep ==
  ASSUME Ours, Typed', Still, auth' = auth, client = token,
         NEW n \in Names, Failed(n, "refused"), RecordedRefusal(n)
  PROVE  Ours'
<1> USE DEF Ours, Typed, Still
<1>1. /\ \A m \in Names \ {n} : query'[m] = query[m]
      /\ query'[n].data = query[n].data /\ query'[n].inval = query[n].inval
      /\ query'[n].read = Idle /\ query'[n].read.answer = None
  BY DEF Failed, CacheTypes, Queries, Idle
<1>2. Opened'
  BY DEF Opened
<1>3. AuthAnswered' /\ DataAnswered'
  BY <1>1 DEF AuthAnswered, DataAnswered, Self
<1>4. SettingsCleared'
  BY <1>1 DEF SettingsCleared
<1>5. CASE bound = None
  <2>1. UNCHANGED <<bound, storage>>
    BY <1>5 DEF RecordedRefusal
  <2>2. BoundIsOurs' /\ CopyIsWhose' /\ SnapshotIsOurs'
    BY <1>5, <2>1 DEF BoundIsOurs, CopyIsWhose, SnapshotIsOurs
  <2>3. CachedIsOurs'
    BY <1>1, <1>5, <2>1 DEF CachedIsOurs, Verified
  <2> QED BY <1>2, <1>3, <1>4, <2>2, <2>3
<1>6. CASE bound # None
  <2>1. bound' = [bound EXCEPT !.memo[n] = None] /\ storage' \in Written(bound', storage)
    BY <1>6 DEF RecordedRefusal, CurrentSession
  <2>2. /\ bound' # None /\ bound'.user = bound.user /\ bound'.unver = bound.unver
        /\ \A m \in Names \ {n} : bound'.memo[m] = bound.memo[m]
        /\ bound'.memo[n] = None
    BY <1>6, <2>1 DEF CacheTypes, Bindings
  <2>3. BoundIsOurs'
    BY <1>1, <1>6, <2>2 DEF BoundIsOurs
  <2>4. CachedIsOurs'
    BY <1>1, <1>6, <2>2 DEF CachedIsOurs, Verified
  <2> QED BY <1>2, <1>3, <1>4, <2>1, <2>2, <2>3, <2>4, WrittenStep
<1> QED BY <1>5, <1>6

\* A read that the query client still waits for was sent by its session: when the
\* session of the tab is the one that asked, the client is the one of the tab.
LEMMA AskedIsClient ==
  ASSUME Typed, NEW read, read.of = Self, Asked(read)
  PROVE  client = token
BY DEF Asked, Self, Typed, StoreTypes

\* Forgetting the current account leaves the client to a session that is gone.
LEMMA ForgetStep ==
  ASSUME Ours, Typed', client = token, token # None, ForgetCurrent,
         UNCHANGED <<client, loaded, coming, bound, holder, live>>,
         auth' = auth \/ auth'.read = Idle,
         \A n \in Names : /\ query'[n].data = query[n].data /\ query'[n].inval = query[n].inval
                          /\ query'[n].read \in {query[n].read, Idle}
  PROVE  Ours'
<1>1. token' # client /\ storage' = None /\ accounts' \subseteq accounts
  BY DEF ForgetCurrent
<1>2. \A t \in accounts' : holder'[t] # None
  BY <1>1 DEF Ours, Opened
<1> QED BY <1>1, <1>2, StoreStep

\* A query that failed.
LEMMA FailedIs ==
  ASSUME query \in [Names -> Queries], NEW n \in Names, NEW e, Failed(n, e)
  PROVE  /\ \A m \in Names \ {n} : query'[m] = query[m]
         /\ query'[n].data = query[n].data /\ query'[n].inval = query[n].inval
         /\ query'[n].err = e
         /\ query'[n].read = Idle /\ query'[n].read.answer = None
BY DEF Failed, Queries, Idle

\* The answer with home data arrives.
LEMMA ArrivesStep ==
  ASSUME Ours, Typed', NEW n \in Names, Arrives(n)
  PROVE  Ours'
<1> USE DEF Ours, Typed, store, server
<1> DEFINE a == query[n].read.answer
<1>0. a \in Users \cup {"expired", "refused"} /\ query[n].read.of = Self
  BY DEF Arrives, CacheTypes, Queries, DataAnswered, Idle
<1>1. UNCHANGED <<client, route, loaded, coming, auth, holder, live>>
  BY DEF Arrives
<1>2. CASE Failed(n, "failed") /\ UNCHANGED <<store, bound, storage>>
  <2>1. /\ \A m \in Names \ {n} : query'[m] = query[m]
        /\ query'[n].data = query[n].data /\ query'[n].inval = query[n].inval
        /\ query'[n].err = "failed"
        /\ query'[n].read = Idle /\ query'[n].read.answer = None
    BY <1>2, FailedIs DEF CacheTypes
  <2>2. AuthAnswered' /\ DataAnswered' /\ SettingsCleared'
    BY <1>1, <1>2, <2>1 DEF AuthAnswered, DataAnswered, SettingsCleared, Self
  <2> QED BY <1>1, <1>2, <2>1, <2>2, QueryStep
<1>3. CASE Asked(query[n].read) /\ token # None /\ Failed(n, "refused") /\ ForgetCurrent /\ UNCHANGED bound
  <2>1. \A m \in Names : /\ query'[m].data = query[m].data /\ query'[m].inval = query[m].inval
                         /\ query'[m].read \in {query[m].read, Idle}
    BY <1>3, FailedIs DEF CacheTypes
  <2>2. client = token
    BY <1>0, <1>3, AskedIsClient
  <2> QED BY <1>1, <1>3, <2>1, <2>2, ForgetStep
<1>4. CASE Asked(query[n].read) /\ Failed(n, "refused") /\ RecordedRefusal(n) /\ UNCHANGED store
  <2>1. client = token
    BY <1>0, <1>4, AskedIsClient
  <2> QED BY <1>1, <1>4, <2>1, RefusalStep DEF Still
<1>5. CASE /\ Asked(query[n].read) /\ a \in Users
           /\ query' = [query EXCEPT ![n] = [Nothing EXCEPT !.data = Fetched(a)]]
           /\ RecordedData(n, Fetched(a), TRUE)
           /\ UNCHANGED store
  <2>1. client = token
    BY <1>0, <1>5, AskedIsClient
  <2>2. Fetched(a) \in HomeData /\ Fetched(a).whole /\ Fetched(a).of = a
    BY <1>5 DEF Fetched, HomeData
  <2>3. client \in live => a = holder[client]
    BY <1>5 DEF DataAnswered
  <2>4. Still
    BY <1>1, <1>5 DEF Still
  <2> HIDE DEF a
  <2> QED BY <1>1, <1>5, <2>1, <2>2, <2>3, <2>4, RecordStep
<1> QED BY <1>0, <1>2, <1>3, <1>4, <1>5 DEF Arrives

\* A save was answered: what it puts into the cache is whole and the account's own.
LEMMA SavedStep ==
  ASSUME Ours, Typed', NEW n \in Names, Saved(n)
  PROVE  Ours'
<1> USE DEF Ours, Typed, store, server
<1>1. PICK d : d = [query[n].data EXCEPT !.of = holder[token]]
  OBVIOUS
<1>2. /\ token \in live /\ client = token /\ auth' = auth /\ Still
      /\ query' = [query EXCEPT ![n] = [Nothing EXCEPT !.data = d]]
      /\ RecordedData(n, d, FALSE)
  BY <1>1 DEF Saved, Shown, Still
<1>3. query[n].data \in HomeData /\ query[n].data.whole
  <2>1. query[n].data # None /\ ((Shown("settings") /\ ~coming) \/ Verified(n))
    BY DEF Saved
  <2> QED BY <2>1 DEF Shown, CacheTypes, Queries, SettingsCleared, CachedIsOurs
<1>4. d \in HomeData /\ d.whole /\ d.of = holder[token]
  BY <1>1, <1>2, <1>3 DEF HomeData, ServerTypes, StoreTypes
<1> QED BY <1>2, <1>4, RecordStep

\* The answer on the account arrives.
LEMMA AuthArrivesStep ==
  ASSUME Ours, Typed', AuthArrives
  PROVE  Ours'
<1> USE DEF Ours, Typed, store, server
<1> DEFINE a == auth.read.answer.info
           code == auth.read.answer.code
<1>0. /\ auth.read.answer \in Replies /\ (code = "ok" => a \in AuthAnswers)
      /\ auth.read.answer # None /\ auth.read.of = Self
  BY DEF AuthArrives, AuthTypes, Auths, AuthAnswered, Idle
<1>1. UNCHANGED <<client, route, loaded, coming, holder, live>>
  BY DEF AuthArrives
<1>2. \/ (\E e \in {"failed", "refused"} : AuthFailed(e)) /\ UNCHANGED <<store, query, bound, storage>>
      \/ /\ \E e \in {"failed", "refused"} : AuthFailed(e)
         /\ Asked(auth.read) /\ token # None /\ ForgetCurrent /\ UNCHANGED <<query, bound>>
      \/ (\E e \in {"failed", "refused"} : AuthFailed(e)) /\ DiscardHomeCache /\ UNCHANGED store
      \/ /\ code = "ok" /\ Asked(auth.read)
         /\ auth' = [data |-> a, err |-> "none", read |-> Idle]
         /\ \/ token # None /\ BindHomeCache(a, route # "settings")
            \/ UNCHANGED <<query, bound, storage>>
         /\ UNCHANGED store
  BY <1>0 DEF AuthArrives, Replies
<1>3. auth'.read = Idle /\ auth'.read.answer = None
  <2>1. \A e : [auth EXCEPT !.err = e, !.read = Idle].read = Idle
    BY DEF AuthTypes, Auths
  <2>2. [data |-> a, err |-> "none", read |-> Idle].read = Idle
    OBVIOUS
  <2>3. auth'.read = Idle
    BY <1>2, <2>1, <2>2 DEF AuthFailed
  <2> QED BY <2>3 DEF Idle
<1> HIDE DEF a, code
<1>4. CASE UNCHANGED <<store, query, bound, storage>>
  <2>1. AuthAnswered' /\ DataAnswered' /\ SettingsCleared'
    BY <1>1, <1>3, <1>4 DEF AuthAnswered, DataAnswered, SettingsCleared, Self
  <2> QED BY <1>1, <1>4, <2>1, QueryStep
<1>5. CASE Asked(auth.read) /\ token # None /\ ForgetCurrent /\ UNCHANGED <<query, bound>>
  <2>1. client = token
    BY <1>0, <1>5, AskedIsClient
  <2> QED BY <1>1, <1>3, <1>5, <2>1, ForgetStep
<1>6. CASE DiscardHomeCache /\ UNCHANGED store
  BY <1>1, <1>3, <1>6, DiscardStep DEF Still
<1>7. CASE /\ code = "ok" /\ Asked(auth.read) /\ token # None
           /\ BindHomeCache(a, route # "settings") /\ UNCHANGED store
  <2>1. CASE a.public
    BY <1>4, <1>6, <1>7, <2>1 DEF BindHomeCache
  <2>2. CASE ~a.public
    <3>1. UNCHANGED <<bound, query, storage>> \/ Bind(a, route # "settings")
      BY <1>7, <2>2 DEF BindHomeCache
    <3>2. CASE UNCHANGED <<bound, query, storage>>
      BY <1>4, <1>7, <3>2
    <3>3. CASE Bind(a, route # "settings")
      <4>1. client = token
        BY <1>0, <1>7, AskedIsClient
      <4>2. a \in AuthAnswers /\ a.user = holder[client]
        BY <1>0, <1>7, <2>2 DEF AuthAnswered, a, code
      <4>3. Still
        BY <1>1, <1>7 DEF Still
      <4> QED BY <1>3, <1>7, <3>3, <4>1, <4>2, <4>3, BindStep
    <3> QED BY <3>1, <3>2, <3>3
  <2> QED BY <2>1, <2>2
<1> QED BY <1>2, <1>4, <1>5, <1>6, <1>7

-----------------------------------------------------------------------------
\* A step that changes nothing.
LEMMA OursStutter ==
  ASSUME Ours, UNCHANGED vars
  PROVE  Ours'
<1> USE DEF vars, store, cache, server
<1>1. Typed' /\ Opened' /\ AuthAnswered' /\ DataAnswered'
  BY DEF Ours, Typed, StoreTypes, ServerTypes, AuthTypes, CacheTypes, Opened, AuthAnswered,
         DataAnswered, Self
<1>2. BoundIsOurs' /\ CopyIsWhose' /\ SettingsCleared' /\ CachedIsOurs' /\ SnapshotIsOurs'
  BY DEF Ours, BoundIsOurs, CopyIsWhose, SettingsCleared, CachedIsOurs, SnapshotIsOurs, Verified
<1> QED BY <1>1, <1>2 DEF Ours

\* Every step keeps what the data are.
LEMMA OursStep ==
  ASSUME Ours, [Next]_vars
  PROVE  Ours'
<1>0. Typed'
  BY TypedStep DEF Ours
<1>1. CASE UNCHANGED vars
  BY <1>1, OursStutter
<1>2. CASE AuthArrives \/ \E n \in Names : Arrives(n) \/ Saved(n)
  BY <1>0, <1>2, AuthArrivesStep, ArrivesStep, SavedStep
<1>3. CASE \/ ReadAuth \/ HandleAuth \/ AuthLost
           \/ \E n \in Names : Read(n) \/ Handle(n) \/ Lost(n)
  BY <1>0, <1>3, AskSteps
<1>4. CASE SessionQueries \/ Reload
  BY <1>0, <1>4, ClientStep
<1>5. CASE Loaded \/ \E page \in {"home", "settings", "login"} : Navigate(page)
  BY <1>0, <1>5, PageSteps
<1>6. CASE \/ \E t \in Tokens : SelectAccount(t) \/ ForgetOther(t)
           \/ \E t \in Tokens, page \in {"home", "settings"} : SignIn(t, page)
           \/ Logout \/ UpdatePassword \/ ForgetPublic
           \/ Environment
  BY <1>0, <1>6, StoreSteps
<1> QED BY <1>1, <1>2, <1>3, <1>4, <1>5, <1>6 DEF Next

\* At first there is no session and nothing is cached.
LEMMA OursInit ==
  ASSUME Init
  PROVE  Ours
<1>1. Typed
  BY TypedInit
<1>2. auth.read = Idle /\ auth.read.answer = None
  BY DEF Init, NoAuth, Idle
<1>3. \A n \in Names : query[n].read = Idle /\ query[n].read.answer = None /\ query[n].data = None
  BY DEF Init, Nothing, Idle
<1>4. Opened /\ AuthAnswered /\ DataAnswered
  BY <1>2, <1>3 DEF Init, Opened, AuthAnswered, DataAnswered
<1>5. BoundIsOurs /\ CopyIsWhose /\ SettingsCleared /\ CachedIsOurs /\ SnapshotIsOurs
  BY <1>3 DEF Init, BoundIsOurs, CopyIsWhose, SettingsCleared, CachedIsOurs, SnapshotIsOurs
<1> QED BY <1>1, <1>4, <1>5 DEF Ours

\* The inductive invariant: a read is its session's, what the server answers it, the
\* data of a query client, its binding and a copy that can be restored are the
\* account's of one session, and a settings page has whole data once its code has
\* arrived.
THEOREM OursInvariant == Spec => []Ours
BY OursInit, OursStep, PTL DEF Spec

\* While the server knows the session, the home data in its client are those of its
\* account, and data of the snapshot count as unverified and stale.
THEOREM CachedStaysOurs == Spec => []CachedIsOurs
<1>1. Ours => CachedIsOurs
  BY DEF Ours
<1> QED BY <1>1, OursInvariant, PTL

\* Once the code for this visit has arrived, a settings page has no data of the
\* snapshot (Protected, clearUnverifiedHomeData), for any order of route changes,
\* code, account and reads.  Before, it may (SettingsAreFresh says how).
THEOREM SettingsStayFresh == Spec => []SettingsAreFresh
<1>1. Ours => SettingsAreFresh
  BY DEF Ours, SettingsCleared, SettingsAreFresh, Shown
<1> QED BY <1>1, OursInvariant, PTL

\* What the tab leaves in the browser is for the account it is signed in to, and
\* what the server refuses has left it, unless the browser has refused a write
\* (bindHomeCache, writeSnapshot).
THEOREM SnapshotStaysOurs == Spec => []SnapshotIsOurs
<1>1. Ours => SnapshotIsOurs
  BY DEF Ours
<1> QED BY <1>1, OursInvariant, PTL
=============================================================================
