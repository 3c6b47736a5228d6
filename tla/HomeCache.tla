----------------------------- MODULE HomeCache -----------------------------
(***************************************************************************)
(* The browser's session and the snapshot of the home page (store.ts,      *)
(* SessionQueries, App.tsx, useAuth, homeCache.ts, api.ts): one tab with    *)
(* its account list, the query client of its session, the home data it     *)
(* reads, and the copy it keeps in localStorage for the next visit.         *)
(*                                                                         *)
(* The server, another tab and the network are the environment.  A read is *)
(* sent, handled by the server and delivered in separate steps.            *)
(***************************************************************************)
EXTENDS FiniteSets, Naturals

CONSTANTS
  Users,
  Tokens,      \* sessions; each is opened at most once
  Names,       \* panel, groups, search
  Roles,
  MaxTurns,    \* bound on the steps of the server and of the other tab
  None

\* None and the words for answers and askers are no accounts and no sessions.
ASSUME CacheAssumption ==
  /\ None \notin Users \cup Tokens \cup Roles \cup {"expired", "refused", "guest"}
  /\ Users \cap {"expired", "refused"} = {} /\ "guest" \notin Tokens
  /\ MaxTurns \in Nat

VARIABLES
  token, accounts,       \* the store, kept across a reload
  client,                \* the session whose query client is mounted
  route, loaded,         \* the route and the page whose code arrived last
  coming,                \* the code for this visit of the route has not arrived
  auth,                  \* the query ["auth"]
  query,                 \* the queries of the home data
  bound,                 \* bindings.get(client)
  storage,               \* localStorage["zpanel-home-cache"]
  holder, live,          \* server: whose each token is, which are in force
  role, barred, public,  \* server: roles, disabled accounts, public visitor
  turns

store == <<token, accounts>>
cache == <<auth, query, bound>>
server == <<holder, live, role, barred, public>>
vars == <<store, client, route, loaded, coming, cache, storage, server, turns>>

\* What a read is answered: the account, or a code, "expired" (1000, 1001) or
\* "refused" (1004).
AuthAnswers == [user : Users, role : Roles, public : BOOLEAN]

\* Home data: whose they are, and whether all fields of the answer are there.
HomeData == [of : Users, whole : BOOLEAN]
Fetched(u) == [of |-> u, whole |-> TRUE]

\* What the snapshot keeps of them are the fields for display.
DisplayData(data) == [data EXCEPT !.whole = FALSE]

\* A binding: the copy it keeps, and the restored names not yet read again.
Bindings == [user : Users, role : Roles, memo : [Names -> HomeData \cup {None}],
             unver : SUBSET Names]

ASSUME BindingAssumption == None \notin Bindings

Idle == [of |-> None, answer |-> None]
Nothing == [data |-> None, inval |-> FALSE, err |-> "none", read |-> Idle]
NoAuth == [data |-> None, err |-> "none", read |-> Idle]
Empty == [n \in Names |-> None]

Private == route \in {"home", "settings"}

\* Protected shows its page when the code of this route and the account are
\* there.
Shown(page) ==
  /\ client = token
  /\ route = page /\ loaded = page
  /\ auth.data # None /\ auth.err = "none"
  /\ page = "settings" => ~auth.data.public

-----------------------------------------------------------------------------
(* The snapshot.                                                           *)

\* currentSession, asked by a binding of this client.
CurrentSession == token = client

\* The names whose data have the expected shape: an answer of a thousand groups
\* has not, nor have the entries of another version.
ValidData == SUBSET Names

\* What a write leaves where kept was stored: the copy, nothing when it grows too
\* long, or kept when the browser refuses the write (its storage is full), which
\* is then out of date.  A removal is not refused where something is stored.
Written(b, kept) ==
  {[user |-> b.user, role |-> b.role, queries |-> b.memo, ours |-> TRUE, old |-> FALSE], None,
   IF kept = None THEN None ELSE [kept EXCEPT !.old = TRUE]}

AnySnapshot(u, r) ==   \* mutant: whoever the copy is for
  {[n \in Names |-> IF storage # None /\ n \in good THEN storage.queries[n] ELSE None] :
     good \in ValidData}

\* Of another account or role nothing is read, nor an entry that is malformed or
\* older than a day.
ReadSnapshot(u, r) ==
  IF storage # None /\ storage.user = u /\ storage.role = r
  THEN {[n \in Names |-> IF n \in good THEN storage.queries[n] ELSE None] : good \in ValidData}
  ELSE {Empty}

\* The queries without the home data; their reads are cancelled.
Removed(q, names) == [n \in Names |-> IF n \in names THEN Nothing ELSE q[n]]

DiscardHomeCache ==
  /\ bound' = None
  /\ query' = Removed(query, Names)
  /\ storage' = None

\* Good data in memory replace the copy, a refused query removes it.
Memo(saved, q, good) ==
  [n \in Names |-> IF q[n].err = "refused" THEN None
                   ELSE IF q[n].data # None /\ n \in good THEN DisplayData(q[n].data) ELSE saved[n]]

Restored(saved, q, restore) ==
  {n \in Names : restore /\ q[n].err # "refused" /\ q[n].data = None /\ saved[n] # None}

Bind(a, restore) ==
  LET before == IF bound = None THEN query ELSE Removed(query, Names)
      copies == IF bound = None THEN ReadSnapshot(a.user, a.role) ELSE {Empty}
      left == IF bound = None THEN storage ELSE None
  IN \E saved \in copies, good \in ValidData :
       LET unver == Restored(saved, before, restore)
           memo == Memo(saved, before, good)
       IN /\ bound' = [user |-> a.user, role |-> a.role, memo |-> memo, unver |-> unver]
          /\ query' = [n \in Names |->
                         IF n \in unver
                         THEN [before[n] EXCEPT !.data = saved[n], !.inval = TRUE, !.err = "none"]
                         ELSE before[n]]
          /\ IF \E n \in Names : before[n].err = "refused" \/ before[n].data # None
             THEN storage' \in Written(bound', left)
             ELSE storage' = left

BindHomeCache(a, restore) ==
  CASE a.public -> IF bound # None THEN DiscardHomeCache ELSE UNCHANGED <<bound, query, storage>>
    [] ~a.public /\ bound # None /\ bound.user = a.user /\ bound.role = a.role ->
         UNCHANGED <<bound, query, storage>>
    [] OTHER -> Bind(a, restore)

\* The subscription of the binding, after data n were read or saved, or refused.
\* Malformed data leave the copy as it is.
RecordedData(n, data, read) ==
  IF bound # None /\ CurrentSession
  THEN LET b == [bound EXCEPT !.unver = IF read THEN @ \ {n} ELSE @]
       IN \E good \in ValidData :
            IF n \in good
            THEN bound' = [b EXCEPT !.memo[n] = DisplayData(data)] /\ storage' \in Written(bound', storage)
            ELSE bound' = b /\ UNCHANGED storage
  ELSE UNCHANGED <<bound, storage>>

RefusedStays(n) ==   \* mutant: a refused entry stays in the copy
  UNCHANGED <<bound, storage>>

RecordedRefusal(n) ==
  IF bound # None /\ CurrentSession
  THEN bound' = [bound EXCEPT !.memo[n] = None] /\ storage' \in Written(bound', storage)
  ELSE UNCHANGED <<bound, storage>>

\* useUnverifiedHomeData: the pages let verified data be changed.
Verified(n) == bound = None \/ n \notin bound.unver

ClearUnverifiedHomeData ==
  IF bound = None
  THEN UNCHANGED <<query, bound>>
  ELSE /\ query' = Removed(query, bound.unver)
       /\ bound' = [bound EXCEPT !.unver = {}]

-----------------------------------------------------------------------------
(* The store.                                                              *)

ForgetCurrent ==
  /\ token' = None
  /\ accounts' = accounts \ {token}
  /\ storage' = None

SignInFilteredLast(t, page) ==   \* mutant: the new session is dropped with the old one
  /\ route = "login" /\ client = token
  /\ holder[t] = None
  /\ \E u \in Users \ barred :
       /\ holder' = [holder EXCEPT ![t] = u]
       /\ accounts' = {s \in accounts : holder[s] # u}
  /\ live' = live \cup {t}
  /\ token' = t
  /\ storage' = None
  /\ route' = page
  /\ UNCHANGED <<client, loaded, coming, cache, role, barred, public, turns>>

\* From the login page: the session replaces another of the same account.
SignIn(t, page) ==
  /\ route = "login" /\ client = token
  /\ holder[t] = None
  /\ \E u \in Users \ barred :
       /\ holder' = [holder EXCEPT ![t] = u]
       /\ accounts' = {s \in accounts : holder[s] # u} \cup {t}
  /\ live' = live \cup {t}
  /\ token' = t
  /\ storage' = None
  /\ route' = page
  /\ UNCHANGED <<client, loaded, coming, cache, role, barred, public, turns>>

SelectAccount(t) ==
  /\ Shown("settings")
  /\ t \in accounts \ {token}
  /\ token' = t
  /\ storage' = None
  /\ route' = "home"
  /\ UNCHANGED <<accounts, client, loaded, coming, cache, server, turns>>

ForgetOther(t) ==
  /\ Shown("settings")
  /\ t \in accounts \ {token}
  /\ accounts' = accounts \ {t}
  /\ UNCHANGED <<token, client, route, loaded, coming, cache, storage, server, turns>>

\* The server has ended these sessions, the page forgets the account.
SignOut(ended) ==
  /\ live' = live \ ended
  /\ ForgetCurrent
  /\ route' = "login"
  /\ UNCHANGED <<client, loaded, coming, cache, holder, role, barred, public, turns>>

Logout ==
  /\ Shown("settings") /\ token # None
  /\ SignOut({token})

\* A new password ends every session of the account.
UpdatePassword ==
  /\ Shown("settings") /\ token \in live
  /\ SignOut({t \in Tokens : holder[t] = holder[token]})

\* An account that the server no longer takes for its own (visitMode 1).
ForgetPublic ==
  /\ Private /\ client = token /\ token # None
  /\ auth.data # None /\ auth.data.public
  /\ ForgetCurrent
  /\ UNCHANGED <<client, route, loaded, coming, cache, server, turns>>

-----------------------------------------------------------------------------
(* The query client, the route and the page.                               *)

\* React mounts the query client of another session and clears the old one.
SessionQueries ==
  /\ client # token
  /\ client' = token
  /\ loaded' = "none" /\ coming' = Private
  /\ auth' = NoAuth
  /\ query' = [n \in Names |-> Nothing]
  /\ bound' = None
  /\ UNCHANGED <<store, route, storage, server, turns>>

Reload ==
  /\ client' = token
  /\ loaded' = "none" /\ coming' = Private
  /\ auth' = NoAuth
  /\ query' = [n \in Names |-> Nothing]
  /\ bound' = None
  /\ UNCHANGED <<store, route, storage, server, turns>>

\* Reads that no page waits for are cancelled.
Cancelled == [n \in Names |-> [query[n] EXCEPT !.read = Idle]]

\* The address may change at any time, by a link, the history or the address bar.
\* The routes "/" and "/settings" share Protected, which keeps the page it has and
\* asks for the code of the new one, even when it had just asked for another.
Navigate(page) ==
  /\ client = token /\ page # route
  /\ route' = page
  /\ coming' = (page # "login")
  /\ query' = Cancelled
  /\ IF page = "login"
     THEN loaded' = "none" /\ auth' = [auth EXCEPT !.read = Idle]
     ELSE UNCHANGED <<loaded, auth>>
  /\ UNCHANGED <<store, client, bound, storage, server, turns>>

LoadedWithoutClearing ==   \* mutant: restored data stay in the settings
  /\ Private /\ client = token /\ coming
  /\ loaded' = route /\ coming' = FALSE
  /\ UNCHANGED <<store, client, route, auth, query, bound, storage, server, turns>>

Loaded ==
  /\ Private /\ client = token /\ coming
  /\ loaded' = route /\ coming' = FALSE
  /\ IF route = "settings" THEN ClearUnverifiedHomeData ELSE UNCHANGED <<query, bound>>
  /\ UNCHANGED <<store, client, route, auth, storage, server, turns>>

-----------------------------------------------------------------------------
(* Reads: a page starts them, the server handles them, the answer arrives. *)

ReadAuth ==
  /\ Private /\ client = token /\ auth.read = Idle
  /\ auth' = [auth EXCEPT !.read.of = IF token = None THEN "guest" ELSE token,
                          !.err = IF auth.data = None THEN "none" ELSE @]
  /\ UNCHANGED <<store, client, route, loaded, coming, query, bound, storage, server, turns>>

Read(n) ==
  /\ Shown("home") \/ Shown("settings")
  /\ query[n].read = Idle
  /\ query' = [query EXCEPT ![n].read.of = IF token = None THEN "guest" ELSE token,
                            ![n].err = IF query[n].data = None THEN "none" ELSE @]
  /\ UNCHANGED <<store, client, route, loaded, coming, auth, bound, storage, server, turns>>

\* PublicModeInterceptor: the account of a session in force, or else the public
\* visitor.
Visitor(t) == IF t \in live THEN holder[t] ELSE public

Verdict(t) ==
  CASE Visitor(t) = None -> "expired"
    [] Visitor(t) # None /\ Visitor(t) \in barred -> "refused"
    [] OTHER -> "ok"

HandleAuth ==
  /\ auth.read # Idle /\ auth.read.answer = None
  /\ auth' = [auth EXCEPT !.read.answer =
                IF Verdict(auth.read.of) = "ok"
                THEN LET u == Visitor(auth.read.of)
                     IN [code |-> "ok", info |-> [user |-> u, role |-> role[u],
                                                  public |-> auth.read.of \notin live]]
                ELSE [code |-> Verdict(auth.read.of), info |-> None]]
  /\ UNCHANGED <<store, client, route, loaded, coming, query, bound, storage, server, turns>>

Handle(n) ==
  /\ query[n].read # Idle /\ query[n].read.answer = None
  /\ query' = [query EXCEPT ![n].read.answer =
                 IF Verdict(query[n].read.of) = "ok" THEN Visitor(query[n].read.of)
                 ELSE Verdict(query[n].read.of)]
  /\ UNCHANGED <<store, client, route, loaded, coming, auth, bound, storage, server, turns>>

\* ensureActive: the session is still the one that asked.
Asked(read) == (IF token = None THEN "guest" ELSE token) = read.of

AuthFailed(code) == auth' = [auth EXCEPT !.err = code, !.read = Idle]

\* restoreRef is read when the answer is there, not when the read began.
AuthArrives ==
  /\ auth.read.answer # None
  /\ LET a == auth.read.answer.info
         code == auth.read.answer.code
     IN CASE ~Asked(auth.read) ->
               AuthFailed("failed") /\ UNCHANGED <<store, query, bound, storage>>
          [] Asked(auth.read) /\ code = "expired" ->
               /\ AuthFailed("refused")
               /\ IF token # None
                  THEN ForgetCurrent /\ UNCHANGED <<query, bound>>
                  ELSE DiscardHomeCache /\ UNCHANGED store
          [] Asked(auth.read) /\ code = "refused" ->
               AuthFailed("refused") /\ DiscardHomeCache /\ UNCHANGED store
          [] OTHER ->
               /\ auth' = [data |-> a, err |-> "none", read |-> Idle]
               /\ IF token # None
                  THEN BindHomeCache(a, route # "settings")
                  ELSE UNCHANGED <<query, bound, storage>>
               /\ UNCHANGED store
  /\ UNCHANGED <<client, route, loaded, coming, server, turns>>

Failed(n, code) == query' = [query EXCEPT ![n].err = code, ![n].read = Idle]

Arrives(n) ==
  /\ query[n].read.answer # None
  /\ LET a == query[n].read.answer
     IN CASE ~Asked(query[n].read) ->
               Failed(n, "failed") /\ UNCHANGED <<store, bound, storage>>
          [] Asked(query[n].read) /\ a = "expired" /\ token # None ->
               Failed(n, "refused") /\ ForgetCurrent /\ UNCHANGED bound
          [] Asked(query[n].read) /\ (a = "refused" \/ (a = "expired" /\ token = None)) ->
               Failed(n, "refused") /\ RecordedRefusal(n) /\ UNCHANGED store
          [] OTHER ->
               /\ query' = [query EXCEPT ![n] = [Nothing EXCEPT !.data = Fetched(a)]]
               /\ RecordedData(n, Fetched(a), TRUE)
               /\ UNCHANGED store
  /\ UNCHANGED <<client, route, loaded, coming, auth, server, turns>>

\* The network fails or 15 seconds pass.
AuthLost ==
  /\ auth.read # Idle
  /\ AuthFailed("failed")
  /\ UNCHANGED <<store, client, route, loaded, coming, query, bound, storage, server, turns>>

Lost(n) ==
  /\ query[n].read # Idle
  /\ Failed(n, "failed")
  /\ UNCHANGED <<store, client, route, loaded, coming, auth, bound, storage, server, turns>>

\* A save was answered and its page puts what it sent into the cache: what it
\* had read, changed by the user.  The code of a page that is shown has arrived
\* long before a form of it is edited, waits and saves.
Saved(n) ==
  /\ token \in live
  /\ query[n].data # None /\ query[n].err # "refused"
  /\ \/ Shown("settings") /\ ~coming
     \/ Shown("home") /\ Verified(n)
  /\ LET data == [query[n].data EXCEPT !.of = holder[token]]
     IN /\ query' = [query EXCEPT ![n] = [Nothing EXCEPT !.data = data]]
        /\ RecordedData(n, data, FALSE)
  /\ UNCHANGED <<store, client, route, loaded, coming, auth, server, turns>>

-----------------------------------------------------------------------------
(* The environment.                                                        *)

Turn ==
  /\ turns < MaxTurns
  /\ turns' = turns + 1
  /\ UNCHANGED <<store, client, route, loaded, coming, cache, holder>>

ChangeRole(u, r) ==
  /\ Turn
  /\ role[u] # r /\ role' = [role EXCEPT ![u] = r]
  /\ UNCHANGED <<storage, live, barred, public>>

\* The session expires or is ended elsewhere.
Revoke(t) ==
  /\ Turn
  /\ t \in live /\ live' = live \ {t}
  /\ UNCHANGED <<storage, role, barred, public>>

Bar(u) ==
  /\ Turn
  /\ barred' = IF u \in barred THEN barred \ {u} ELSE barred \cup {u}
  /\ UNCHANGED <<storage, live, role, public>>

Publish(u) ==
  /\ Turn
  /\ public' = IF public = u THEN None ELSE u
  /\ UNCHANGED <<storage, live, role, barred>>

\* Another tab keeps the home page of its own account, or signs out.
OtherTab ==
  /\ Turn
  /\ \/ storage' = None /\ storage # None
     \/ \E u \in Users, has \in SUBSET Names :
          storage' = [user |-> u, role |-> role[u], ours |-> FALSE, old |-> FALSE,
                      queries |-> [n \in Names |-> IF n \in has THEN DisplayData(Fetched(u)) ELSE None]]
  /\ UNCHANGED <<live, role, barred, public>>

-----------------------------------------------------------------------------
Init ==
  /\ token = None /\ client = None /\ accounts = {}
  /\ route = "login" /\ loaded = "none" /\ coming = FALSE
  /\ auth = NoAuth /\ query = [n \in Names |-> Nothing]
  /\ bound = None /\ storage = None
  /\ holder = [t \in Tokens |-> None] /\ live = {}
  /\ \E r \in Roles : role = [u \in Users |-> r]
  /\ barred = {} /\ public \in Users \cup {None}
  /\ turns = 0

Environment ==
  \/ \E u \in Users : Bar(u) \/ Publish(u) \/ \E r \in Roles : ChangeRole(u, r)
  \/ \E t \in Tokens : Revoke(t)
  \/ OtherTab

Next ==
  \/ \E t \in Tokens : SelectAccount(t) \/ ForgetOther(t)
  \/ \E t \in Tokens, page \in {"home", "settings"} : SignIn(t, page)
  \/ Logout \/ UpdatePassword \/ ForgetPublic
  \/ SessionQueries \/ Reload \/ Loaded
  \/ \E page \in {"home", "settings", "login"} : Navigate(page)
  \/ ReadAuth \/ HandleAuth \/ AuthArrives \/ AuthLost
  \/ \E n \in Names : Read(n) \/ Handle(n) \/ Arrives(n) \/ Lost(n) \/ Saved(n)
  \/ Environment

Spec == Init /\ [][Next]_vars

-----------------------------------------------------------------------------
(* Properties.                                                             *)

\* Every variable keeps its type, and the store's token is one of its accounts.
TypeOK ==
  /\ token \in Tokens \cup {None} /\ client \in Tokens \cup {None}
  /\ accounts \subseteq Tokens
  /\ token # None => token \in accounts
  /\ route \in {"home", "settings", "login"} /\ loaded \in {"none", "home", "settings"}
  /\ coming \in BOOLEAN
  /\ auth.data \in AuthAnswers \cup {None}
  /\ auth.err \in {"none", "failed", "refused"}
  /\ \A n \in Names : /\ query[n].data \in HomeData \cup {None}
                      /\ query[n].inval \in BOOLEAN
                      /\ query[n].err \in {"none", "failed", "refused"}
  /\ bound \in Bindings \cup {None}
  /\ storage # None => storage.user \in Users /\ storage.role \in Roles

\* While the server knows the session, the home data in its client are those of
\* its account, whatever other sessions the tab, its snapshot or another tab
\* had; and data of the snapshot, which lack fields, count as unverified and as
\* stale.
CachedIsOurs ==
  \A n \in Names : query[n].data # None =>
     /\ client \in live => query[n].data.of = holder[client]
     /\ ~query[n].data.whole => ~Verified(n) /\ query[n].inval

\* Once the code that was asked for when it was opened has arrived, a settings
\* page, whose forms save whole objects, has no data of the snapshot, which lack
\* fields, however the routes, the account, the code and the reads arrive.  Until
\* then it may, though a comment of homeCache.ts says that no old snapshot can
\* enter a form before current values were read: after settings, home and settings
\* again, Protected still has the page of the first visit, and shows it with what
\* was restored for the home page.
SettingsAreFresh ==
  Shown("settings") /\ ~coming => \A n \in Names : query[n].data # None => query[n].data.whole

\* What this tab leaves in the browser is for the account it is signed in to, so
\* nothing once it has signed out, and has no more than the fields for display.
\* What the server refuses to the client that is there has left the copy of its
\* binding, and the browser too unless it has refused a write.
SnapshotIsOurs ==
  /\ storage # None /\ storage.ours =>
       /\ token # None /\ storage.user = holder[token]
       /\ \A n \in Names : storage.queries[n] # None => ~storage.queries[n].whole
  /\ client = token /\ bound # None =>
       \A n \in Names : query[n].err = "refused" =>
         /\ bound.memo[n] = None
         /\ storage # None /\ storage.ours /\ ~storage.old => storage.queries[n] = None

=============================================================================
