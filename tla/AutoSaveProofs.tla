--------------------------- MODULE AutoSaveProofs ---------------------------
(***************************************************************************)
(* Proofs about AutoSave, for any forms and any number of edits: no edit   *)
(* is lost or replaced, the form shows what is stored, and the page's      *)
(* message is honest.                                                      *)
(***************************************************************************)
EXTENDS AutoSave, TLAPS

USE RevisionAssumption

\* The save of a form that its page still follows.
Followed(r) == r.at # "stray"

Typed == HookTypes /\ ContentTypes /\ PageTypes

\* What a save sends is the draft it began with, and a write given up is a stray.
Sends ==
  \A r \in runs : r.values = r.rev /\ (r.at = "stray" => r.form \in strayed)

\* A form is saved once at a time, and stays dirty until the answer.
Saves ==
  Mounted =>
    /\ \A f \in Forms : savedRevision[f] <= revision[f]
    /\ \A f \in Forms : saving[f] <=> \E r \in runs : r.form = f /\ Followed(r)
    /\ \A r, s \in runs : Followed(r) /\ Followed(s) /\ r.form = s.form => r = s
    /\ \A r \in runs : Followed(r) =>
         /\ savedRevision[r.form] < r.rev /\ r.rev <= revision[r.form]
         /\ r.at = "stored" /\ r.form \notin strayed => server[r.form] = r.values

\* What counts as saved is in the form, the cache and the server, and in the answer
\* of a read under way.
Stored ==
  Mounted => \A f \in Forms \ strayed : ~Dirty(f) =>
    /\ draft[f] = cache[f] /\ cache[f] = server[f] /\ server[f] = revision[f]
    /\ fetch[f] \in {NoRead, Sent, server[f]}

\* Who has left waits for nothing but strays.
Gone ==
  page = "left" => \A r \in runs : r.form \in strayed

Faithful ==
  Typed /\ Sends /\ Saves /\ Stored /\ Gone /\ EditsSurvive /\ LeavingLosesNothing /\ HonestNotice

-----------------------------------------------------------------------------
(***************************************************************************)
(* What the steps have in common.                                          *)
(***************************************************************************)
\* The message after a render is honest when the forms are.
LEMMA AnnouncedHonest ==
  ASSUME Announce, Stored'
  PROVE  HonestNotice'
<1> SUFFICES ASSUME Mounted'
             PROVE  /\ notice' = "saved" =>
                         \A f \in Forms : ~Dirty(f)' /\ (f \in strayed' \/ server'[f] = draft'[f])
                    /\ (\E f \in Forms : status'[f] = "error") => notice' = "error"
  BY DEF HonestNotice
<1>1. notice' = "saved" => \A f \in Forms : ~Dirty(f)'
  BY DEF Announce, Mounted
<1>2. (\E f \in Forms : status'[f] = "error") => notice' = "error"
  BY DEF Announce, Mounted
<1>3. \A f \in Forms \ strayed' : ~Dirty(f)' => server'[f] = draft'[f]
  BY DEF Stored
<1> QED BY <1>1, <1>2, <1>3

\* A step that shows nothing new keeps the message.
LEMMA QuietHonest ==
  ASSUME HonestNotice, Stored', UNCHANGED <<notice, status, revision, savedRevision>>,
         Mounted' => Mounted
  PROVE  HonestNotice'
<1> SUFFICES ASSUME Mounted'
             PROVE  /\ notice' = "saved" =>
                         \A f \in Forms : ~Dirty(f)' /\ (f \in strayed' \/ server'[f] = draft'[f])
                    /\ (\E f \in Forms : status'[f] = "error") => notice' = "error"
  BY DEF HonestNotice
<1>1. \A f \in Forms \ strayed' : ~Dirty(f)' => server'[f] = draft'[f]
  BY DEF Stored
<1>2. \A f \in Forms : Dirty(f)' <=> Dirty(f)
  BY DEF Dirty
<1> QED BY <1>1, <1>2 DEF HonestNotice

\* A step that leaves the contents alone keeps what is said of them.
LEMMA ContentStays ==
  ASSUME Stored, EditsSurvive,
         UNCHANGED <<revision, savedRevision, draft, cache, fetch, server>>,
         strayed \subseteq strayed', Mounted' => Mounted
  PROVE  Stored' /\ EditsSurvive'
<1>1. \A f \in Forms : Dirty(f)' <=> Dirty(f)
  BY DEF Dirty
<1>2. Stored'
  BY <1>1 DEF Stored
<1>3. EditsSurvive'
  BY <1>1 DEF EditsSurvive
<1> QED BY <1>2, <1>3

\* A step that does not leave the page, and stores nothing after it was left.
LEMMA StillHere ==
  ASSUME Gone, LeavingLosesNothing, page' = "left" => page = "left",
         strayed \subseteq strayed',
         page = "left" => /\ \A r \in runs' : r.form \in strayed'
                          /\ \A f \in Forms \ strayed : server'[f] = server[f]
                          /\ UNCHANGED revision
  PROVE  Gone' /\ LeavingLosesNothing'
BY DEF Gone, LeavingLosesNothing

\* The saves of a form, when only what it shows changes.
LEMMA SavesStay ==
  ASSUME Saves, UNCHANGED <<saving, savedRevision, server, runs>>, Mounted' => Mounted,
         strayed \subseteq strayed',
         \A r \in runs : r.rev <= revision[r.form] => r.rev <= revision'[r.form],
         \A f \in Forms : savedRevision[f] <= revision[f] => savedRevision'[f] <= revision'[f]
  PROVE  Saves'
BY DEF Saves

-----------------------------------------------------------------------------
(***************************************************************************)
(* The user.                                                               *)
(***************************************************************************)
\* An edit makes the form dirty and shows what was typed.
LEMMA ChangedStep ==
  ASSUME Faithful, NEW f \in Forms, Mounted, revision[f] < MaxRevision, Changed(f),
         paused' \in [Forms -> {"no", "adjusting", "uploading"}],
         UNCHANGED <<query, server, runs, page, strayed>>, Announce
  PROVE  Faithful'
<1>1. /\ revision \in [Forms -> Revisions] /\ savedRevision \in [Forms -> Revisions]
      /\ \A g \in Forms : savedRevision[g] <= revision[g]
  BY DEF Faithful, Typed, HookTypes, Saves
<1>2. /\ revision' = [revision EXCEPT ![f] = @ + 1] /\ revision' \in [Forms -> Revisions]
      /\ revision'[f] = revision[f] + 1 /\ draft' = [draft EXCEPT ![f] = revision'[f]]
  BY <1>1 DEF Changed, Revisions
<1>3. Typed'
  <2>1. PICK b \in BOOLEAN : invalid' = [invalid EXCEPT ![f] = b]
    BY DEF Changed
  <2>2. HookTypes'
    BY <1>2, <2>1 DEF Faithful, Typed, HookTypes, Changed, query
  <2>3. ContentTypes'
    BY <1>2 DEF Faithful, Typed, ContentTypes, query
  <2>4. PageTypes'
    BY DEF Faithful, Typed, PageTypes, Announce
  <2> QED BY <2>2, <2>3, <2>4 DEF Typed
<1>4. Saves'
  <2>1. \A r \in runs : r.form \in Forms /\ r.rev \in Int
    BY DEF Faithful, Typed, ContentTypes, Runs, Revisions
  <2>2. \A g \in Forms : revision[g] <= revision'[g] /\ revision[g] \in Int /\ revision'[g] \in Int
    BY <1>1, <1>2 DEF Revisions
  <2>3. \A g \in Forms : savedRevision'[g] <= revision'[g]
    BY <1>1, <2>2 DEF Changed, Revisions
  <2>4. \A r \in runs : r.rev <= revision[r.form] => r.rev <= revision'[r.form]
    BY <2>1, <2>2
  <2> QED BY <2>3, <2>4, SavesStay DEF Faithful, Changed, Mounted
<1>5. \A g \in Forms \ {f} : /\ revision'[g] = revision[g] /\ draft'[g] = draft[g]
                             /\ Dirty(g)' <=> Dirty(g)
  BY <1>1, <1>2 DEF Faithful, Typed, ContentTypes, Dirty, Changed
<1>6. Dirty(f)' /\ draft'[f] = revision'[f]
  <2>1. draft'[f] = revision'[f]
    BY <1>2 DEF Faithful, Typed, ContentTypes
  <2>2. savedRevision'[f] <= revision[f] /\ savedRevision'[f] \in Int /\ revision[f] \in Int
    BY <1>1 DEF Changed, Revisions
  <2> QED BY <1>2, <2>1, <2>2 DEF Dirty
<1>7. Stored' /\ EditsSurvive'
  <2>1. Stored'
    BY <1>5, <1>6 DEF Faithful, Stored, query
  <2>2. EditsSurvive'
    BY <1>5, <1>6 DEF Faithful, EditsSurvive
  <2> QED BY <2>1, <2>2
<1>8. HonestNotice'
  BY <1>7, AnnouncedHonest
<1>9. Gone' /\ LeavingLosesNothing' /\ Sends'
  BY DEF Mounted, Gone, LeavingLosesNothing, Faithful, Sends
<1> QED BY <1>3, <1>4, <1>7, <1>8, <1>9 DEF Faithful

\* The button tries again, and the other steps of the user change no content.
LEMMA RetryStep ==
  ASSUME Faithful, NEW f \in Forms, Retry(f)
  PROVE  Faithful'
<1>1. Typed'
  BY DEF Retry, Faithful, Typed, HookTypes, ContentTypes, PageTypes, query, Announce
<1>2. Stored' /\ EditsSurvive' /\ Saves'
  BY ContentStays, SavesStay DEF Faithful, Retry, query, Saves, Mounted
<1>3. Gone' /\ LeavingLosesNothing' /\ Sends' /\ HonestNotice'
  BY <1>2, AnnouncedHonest DEF Retry, Mounted, Gone, LeavingLosesNothing, Faithful, Sends
<1> QED BY <1>1, <1>2, <1>3 DEF Faithful

\* A pause, or its end, touches no draft and no save.
LEMMA PauseStep ==
  ASSUME Faithful, NEW f \in Forms, Pause(f) \/ Resume(f)
  PROVE  Faithful'
<1>1. CASE Pause(f)
  <2>1. PICK how \in {"adjusting", "uploading"} : paused' = [paused EXCEPT ![f] = how]
    BY <1>1 DEF Pause
  <2>2. UNCHANGED <<hook, invalid, draft, query, server, runs, page, notice, strayed>>
    BY <1>1 DEF Pause
  <2>3. Typed'
    BY <2>1, <2>2 DEF Faithful, Typed, HookTypes, ContentTypes, PageTypes, query, hook
  <2>4. Stored' /\ EditsSurvive' /\ Saves'
    BY <2>2, ContentStays, SavesStay DEF Faithful, query, hook, Saves, Mounted
  <2>5. Gone' /\ LeavingLosesNothing' /\ Sends' /\ HonestNotice'
    BY <2>2, <2>4, QuietHonest DEF Mounted, Gone, LeavingLosesNothing, Faithful, Sends, query, hook
  <2> QED BY <2>3, <2>4, <2>5 DEF Faithful
<1>2. CASE Resume(f)
  <2>1. /\ paused' = [paused EXCEPT ![f] = "no"] /\ Mounted /\ Announce
        /\ UNCHANGED <<query, server, runs, page, strayed>>
    BY <1>2 DEF Resume
  <2>2. paused' \in [Forms -> {"no", "adjusting", "uploading"}]
    BY <2>1 DEF Faithful, Typed, HookTypes
  <2>3. CASE revision[f] < MaxRevision /\ Changed(f)
    BY <2>1, <2>2, <2>3, ChangedStep
  <2>4. CASE UNCHANGED <<hook, invalid, draft>>
    <3>1. Typed'
      BY <2>1, <2>2, <2>4 DEF Faithful, Typed, HookTypes, ContentTypes, PageTypes, query, hook, Announce
    <3>2. Stored' /\ EditsSurvive' /\ Saves'
      BY <2>1, <2>4, ContentStays, SavesStay DEF Faithful, query, hook, Saves, Mounted
    <3>3. Gone' /\ LeavingLosesNothing' /\ Sends' /\ HonestNotice'
      BY <2>1, <2>4, <3>2, AnnouncedHonest DEF Mounted, Gone, LeavingLosesNothing, Faithful, Sends, hook
    <3> QED BY <3>1, <3>2, <3>3 DEF Faithful
  <2> QED BY <1>2, <2>3, <2>4 DEF Resume
<1> QED BY <1>1, <1>2

\* Who leaves without a question has no draft, and no save under way.
LEMMA NothingUnsaved ==
  ASSUME Faithful, Mounted, ~Unsaved
  PROVE  /\ \A r \in runs : r.form \in strayed
         /\ \A f \in Forms \ strayed : server[f] = revision[f]
<1>1. \A f \in Forms : revision[f] = savedRevision[f]
  BY DEF Unsaved, Dirty
<1>2. ASSUME NEW r \in runs
      PROVE  r.form \in strayed
  <2>1. r.form \in Forms /\ r.rev \in Int /\ revision[r.form] \in Int
    BY DEF Faithful, Typed, HookTypes, ContentTypes, Runs, Revisions
  <2>2. ~Followed(r)
    BY <1>1, <2>1 DEF Faithful, Saves
  <2> QED BY <2>2 DEF Faithful, Sends, Followed
<1>3. \A f \in Forms \ strayed : server[f] = revision[f]
  BY <1>1 DEF Faithful, Stored, Dirty
<1> QED BY <1>2, <1>3

\* A navigation that goes ahead unasked finds every draft saved.
LEMMA LeaveStep ==
  ASSUME Faithful, Leave \/ Proceed \/ Stay \/ Discard
  PROVE  Faithful'
<1>1. /\ UNCHANGED <<hook, paused, invalid, draft, query, server, runs, strayed>>
      /\ page' \in {"open", "blocked", "left", "discarded"} /\ Mounted
      /\ page' = "left" => ~Unsaved
      /\ Announce \/ notice' = notice
  BY DEF Leave, Proceed, Stay, Discard, Mounted, Asking
<1>2. Typed'
  <2>1. notice' \in {"none", "saved", "error"}
    BY <1>1 DEF Announce, Faithful, Typed, PageTypes
  <2> QED BY <1>1, <2>1 DEF Faithful, Typed, HookTypes, ContentTypes, PageTypes, hook, query
<1>3. Stored' /\ EditsSurvive' /\ Saves'
  BY <1>1, ContentStays, SavesStay DEF Faithful, query, hook, Saves, Mounted
<1>4. HonestNotice'
  BY <1>1, <1>3, AnnouncedHonest, QuietHonest DEF Faithful, hook
<1>5. Gone' /\ LeavingLosesNothing' /\ Sends'
  BY <1>1, NothingUnsaved DEF Gone, LeavingLosesNothing, Faithful, Sends, hook
<1> QED BY <1>2, <1>3, <1>4, <1>5 DEF Faithful

\* The user's steps keep the invariant.
LEMMA UserStep ==
  ASSUME Faithful, UserSteps
  PROVE  Faithful'
<1>1. ASSUME NEW f \in Forms, Edit(f)
      PROVE  Faithful'
  BY <1>1, ChangedStep DEF Edit, Faithful, Typed, HookTypes
<1> QED BY <1>1, RetryStep, PauseStep, LeaveStep DEF UserSteps

-----------------------------------------------------------------------------
(***************************************************************************)
(* One save.                                                               *)
(***************************************************************************)
LEMMA RunTypes ==
  ASSUME Typed, NEW r \in runs
  PROVE  /\ r \in Runs /\ r.form \in Forms /\ r.rev \in Revisions /\ r.values \in Revisions
         /\ r.rev \in Int /\ revision[r.form] \in Int /\ savedRevision[r.form] \in Int
BY DEF Typed, HookTypes, ContentTypes, Runs, Revisions

\* While a save is under way its form is dirty and shows the last edit.
LEMMA UnderWay ==
  ASSUME Faithful, Mounted, NEW r \in runs, Followed(r)
  PROVE  Dirty(r.form) /\ draft[r.form] = revision[r.form]
<1>1. savedRevision[r.form] < r.rev /\ r.rev <= revision[r.form]
  BY DEF Faithful, Saves
<1>2. Dirty(r.form)
  BY <1>1, RunTypes DEF Faithful, Dirty
<1> QED BY <1>2, RunTypes DEF Faithful, EditsSurvive

\* The only save of its form has ended.
LEMMA RunEnds ==
  ASSUME Typed, Saves, NEW r \in runs, Followed(r), UNCHANGED <<revision, server, page>>,
         \A s \in runs' : Followed(s) => s \in runs /\ s # r,
         \A s \in runs : s # r => s \in runs',
         strayed \subseteq strayed',
         Mounted => saving' = [saving EXCEPT ![r.form] = FALSE],
         \A f \in Forms \ {r.form} : savedRevision'[f] = savedRevision[f],
         Mounted => savedRevision'[r.form] <= revision[r.form]
  PROVE  Saves'
<1> SUFFICES ASSUME Mounted, Mounted'
             PROVE  Saves'
  BY DEF Saves, Mounted
<1>1. /\ r.form \in Forms /\ \A s \in runs : s.form \in Forms
      /\ saving \in [Forms -> BOOLEAN]
  BY RunTypes DEF Typed, HookTypes
<1>2. \A s \in runs' : Followed(s) => s.form # r.form
  BY DEF Saves
<1>3. \A f \in Forms : savedRevision'[f] <= revision'[f]
  BY <1>1 DEF Saves
<1>4. \A f \in Forms : saving'[f] <=> \E s \in runs' : s.form = f /\ Followed(s)
  <2> TAKE f \in Forms
  <2>1. CASE f = r.form
    BY <1>1, <1>2, <2>1
  <2>2. CASE f # r.form
    <3>1. saving'[f] <=> \E s \in runs : s.form = f /\ Followed(s)
      BY <1>1, <2>2 DEF Saves
    <3>2. (\E s \in runs : s.form = f /\ Followed(s)) <=> (\E s \in runs' : s.form = f /\ Followed(s))
      BY <2>2
    <3> QED BY <3>1, <3>2
  <2> QED BY <2>1, <2>2
<1>5. \A s, t \in runs' : Followed(s) /\ Followed(t) /\ s.form = t.form => s = t
  BY DEF Saves
<1>6. \A s \in runs' : Followed(s) =>
        /\ savedRevision'[s.form] < s.rev /\ s.rev <= revision'[s.form]
        /\ s.at = "stored" /\ s.form \notin strayed' => server'[s.form] = s.values
  BY <1>1, <1>2 DEF Saves
<1> QED BY <1>3, <1>4, <1>5, <1>6 DEF Saves

\* What a save that ends does to the state of its form.
LEMMA SettledTypes ==
  ASSUME Typed, NEW r \in runs, NEW v \in {"idle", "pending", "saving", "saved", "error", "invalid"},
         Settle(r, v)
  PROVE  /\ UNCHANGED revision
         /\ status' \in [Forms -> {"idle", "pending", "saving", "saved", "error", "invalid"}]
         /\ saving' \in [Forms -> BOOLEAN]
         /\ Mounted => saving' = [saving EXCEPT ![r.form] = FALSE]
BY RunTypes DEF Typed, HookTypes, Settle

\* The timer fires and a save begins with the draft.
LEMMA FireStep ==
  ASSUME Faithful, NEW f \in Forms, Fire(f)
  PROVE  Faithful'
<1> DEFINE n == [form |-> f, rev |-> revision[f], values |-> draft[f], at |-> "validate"]
<1>1. /\ Mounted /\ Dirty(f) /\ ~saving[f] /\ runs' = runs \cup {n} /\ Announce
      /\ saving' = [saving EXCEPT ![f] = TRUE] /\ status' = [status EXCEPT ![f] = "saving"]
      /\ UNCHANGED <<revision, savedRevision, paused, invalid, draft, query, server, page, strayed>>
  BY DEF Fire, Due
<1>2. /\ revision[f] \in Revisions /\ savedRevision[f] \in Revisions /\ saving[f] \in BOOLEAN
      /\ savedRevision[f] <= revision[f]
  BY <1>1 DEF Faithful, Typed, HookTypes, Saves
<1>3. /\ n \in Runs /\ n.form = f /\ n.rev = revision[f] /\ n.values = revision[f]
      /\ n.at = "validate" /\ savedRevision[f] < n.rev
  <2>1. draft[f] = revision[f]
    BY <1>1 DEF Faithful, EditsSurvive
  <2>2. savedRevision[f] < revision[f]
    BY <1>1, <1>2 DEF Dirty, Revisions
  <2> QED BY <1>2, <2>1, <2>2 DEF Runs
<1> HIDE DEF n
<1>4. Typed'
  BY <1>1, <1>3 DEF Faithful, Typed, HookTypes, ContentTypes, PageTypes, query, Announce
<1>5. Sends'
  BY <1>1, <1>3 DEF Faithful, Sends
<1>6. Saves'
  <2>1. \A r \in runs : Followed(r) => r.form # f
    BY <1>1, <1>2 DEF Faithful, Saves
  <2>2. \A r \in runs' : r = n \/ r \in runs
    BY <1>1
  <2>3. Followed(n)
    BY <1>3 DEF Followed
  <2>4. \A g \in Forms : saving'[g] <=> \E r \in runs' : r.form = g /\ Followed(r)
    <3> TAKE g \in Forms
    <3>1. CASE g = f
      BY <1>1, <1>3, <2>3, <3>1 DEF Faithful, Typed, HookTypes
    <3>2. CASE g # f
      <4>1. saving'[g] = saving[g]
        BY <1>1, <3>2 DEF Faithful, Typed, HookTypes
      <4> QED BY <1>1, <1>3, <2>2, <3>2, <4>1 DEF Faithful, Saves
    <3> QED BY <3>1, <3>2
  <2>5. \A g \in Forms : savedRevision'[g] <= revision'[g]
    BY <1>1 DEF Faithful, Saves
  <2>6. \A r, s \in runs' : Followed(r) /\ Followed(s) /\ r.form = s.form => r = s
    BY <1>1, <1>3, <2>1, <2>2 DEF Faithful, Saves
  <2>7. \A r \in runs' : Followed(r) =>
          /\ savedRevision'[r.form] < r.rev /\ r.rev <= revision'[r.form]
          /\ r.at = "stored" /\ r.form \notin strayed' => server'[r.form] = r.values
    <3>1. n.rev <= revision[f]
      BY <1>2, <1>3 DEF Revisions
    <3> QED BY <1>1, <1>3, <2>2, <3>1 DEF Faithful, Saves
  <2> QED BY <2>4, <2>5, <2>6, <2>7 DEF Saves
<1>7. Stored' /\ EditsSurvive'
  BY <1>1, ContentStays DEF Faithful, query, Mounted
<1>8. HonestNotice' /\ Gone' /\ LeavingLosesNothing'
  BY <1>1, <1>7, AnnouncedHonest DEF Mounted, Gone, LeavingLosesNothing
<1> QED BY <1>4, <1>5, <1>6, <1>7, <1>8 DEF Faithful

\* A save ends without having been stored: invalid, superseded or failed.
LEMMA EndStep ==
  ASSUME Faithful, NEW r \in runs, Invalid(r) \/ Supersede(r) \/ Failed(r)
  PROVE  Faithful'
<1>1. PICK v \in {"pending", "error", "invalid"} : Settle(r, v)
  BY DEF Invalid, Supersede, Failed
<1>p. PICK s : s = [r EXCEPT !.at = "stray"]
  OBVIOUS
<1>2. s \in Runs /\ s.form = r.form /\ s.values = r.values /\ s.rev = r.rev /\ s.at = "stray"
  BY <1>p, RunTypes DEF Faithful, Runs
<1>3. /\ UNCHANGED <<savedRevision, paused, invalid, draft, query, server, page>>
      /\ Followed(r) /\ Announce
      /\ \/ runs' = runs \ {r} /\ UNCHANGED strayed
         \/ runs' = (runs \ {r}) \cup {s} /\ strayed' = strayed \cup {r.form}
  BY <1>p DEF Invalid, Supersede, Failed, Followed, Move
<1>4. /\ UNCHANGED revision
      /\ status' \in [Forms -> {"idle", "pending", "saving", "saved", "error", "invalid"}]
      /\ saving' \in [Forms -> BOOLEAN]
      /\ Mounted => saving' = [saving EXCEPT ![r.form] = FALSE]
  BY <1>1, SettledTypes DEF Faithful
<1>5. r.form \in Forms
  BY RunTypes DEF Faithful
<1>6. Typed'
  <2>1. strayed' \subseteq Forms /\ runs' \subseteq Runs
    BY <1>2, <1>3, <1>5 DEF Faithful, Typed, ContentTypes, PageTypes
  <2> QED BY <1>3, <1>4, <2>1 DEF Faithful, Typed, HookTypes, ContentTypes, PageTypes, query, Announce
<1>7. Sends'
  BY <1>2, <1>3 DEF Faithful, Sends
<1>8. Saves'
  <2>1. ~Followed(s)
    BY <1>2 DEF Followed
  <2>2. Mounted => savedRevision[r.form] <= revision[r.form]
    BY <1>5 DEF Faithful, Saves
  <2> QED BY <1>3, <1>4, <2>1, <2>2, RunEnds DEF Faithful
<1>9. Stored' /\ EditsSurvive'
  BY <1>3, <1>4, ContentStays DEF Faithful, query, Mounted
<1>10. HonestNotice'
  BY <1>3, <1>9, AnnouncedHonest
<1>11. Gone' /\ LeavingLosesNothing'
  BY <1>2, <1>3, <1>4 DEF Faithful, Gone, LeavingLosesNothing
<1> QED BY <1>6, <1>7, <1>8, <1>9, <1>10, <1>11 DEF Faithful

\* A save that goes on is still the only one of its form.
LEMMA SaveGoesOn ==
  ASSUME Typed, Saves, NEW r \in runs, Followed(r), NEW s, Followed(s),
         runs' = (runs \ {r}) \cup {s}, s.form = r.form, s.rev = r.rev,
         UNCHANGED <<revision, savedRevision, saving, page, strayed>>,
         \A f \in Forms \ {r.form} : server'[f] = server[f],
         s.at = "stored" /\ s.form \notin strayed => server'[s.form] = s.values
  PROVE  Saves'
<1> SUFFICES ASSUME Mounted, Mounted'
             PROVE  Saves'
  BY DEF Saves, Mounted
<1>1. r.form \in Forms /\ \A t \in runs : t.form \in Forms
  BY RunTypes
<1>2. \A t \in runs : t # r /\ Followed(t) => t.form # r.form
  BY DEF Saves
<1>3. \A t \in runs' : t = s \/ (t \in runs /\ t # r)
  OBVIOUS
<1>4. \A f \in Forms : saving'[f] <=> \E t \in runs' : t.form = f /\ Followed(t)
  <2> TAKE f \in Forms
  <2>1. (\E t \in runs : t.form = f /\ Followed(t)) <=> (\E t \in runs' : t.form = f /\ Followed(t))
    BY <1>3
  <2> QED BY <2>1 DEF Saves
<1>5. \A t, u \in runs' : Followed(t) /\ Followed(u) /\ t.form = u.form => t = u
  BY <1>2, <1>3 DEF Saves
<1>6. \A t \in runs' : Followed(t) =>
        /\ savedRevision'[t.form] < t.rev /\ t.rev <= revision'[t.form]
        /\ t.at = "stored" /\ t.form \notin strayed' => server'[t.form] = t.values
  BY <1>1, <1>2, <1>3 DEF Saves
<1>7. \A f \in Forms : savedRevision'[f] <= revision'[f]
  BY DEF Saves
<1> QED BY <1>4, <1>5, <1>6, <1>7 DEF Saves

\* What is sent is the draft as the save began with it.
LEMMA SendStep ==
  ASSUME Faithful, NEW r \in runs, Send(r)
  PROVE  Faithful'
<1> DEFINE f == r.form
<1>p. PICK s : s = [r EXCEPT !.at = "write", !.values = draft[r.form]]
  OBVIOUS
<1>1. /\ Mounted /\ Latest(r) /\ runs' = (runs \ {r}) \cup {s} /\ r.at = "validate"
      /\ fetch' = [fetch EXCEPT ![f] = NoRead]
      /\ UNCHANGED <<hook, paused, invalid, draft, cache, enabled, server, page, notice, strayed>>
  BY <1>p DEF Send, Move
<1>2. /\ s \in Runs /\ s.form = r.form /\ s.rev = r.rev /\ s.at = "write" /\ s.values = draft[r.form]
      /\ r.form \in Forms
  <2>1. draft[r.form] \in Revisions /\ r \in Runs /\ r.form \in Forms
    BY RunTypes DEF Faithful, Typed, ContentTypes
  <2> QED BY <1>p, <2>1 DEF Runs
<1>3. Followed(r) /\ Followed(s)
  BY <1>1, <1>2 DEF Followed
<1>4. Dirty(r.form) /\ s.values = s.rev
  BY <1>1, <1>2, <1>3, UnderWay DEF Latest
<1>5. Typed'
  <2>1. fetch' \in [Forms -> Revisions \cup {NoRead, Sent}]
    BY <1>1 DEF Faithful, Typed, ContentTypes
  <2> QED BY <1>1, <1>2, <2>1 DEF Faithful, Typed, HookTypes, ContentTypes, PageTypes, hook
<1>6. Sends' /\ Saves'
  <2>1. Sends'
    BY <1>1, <1>2, <1>4 DEF Faithful, Sends
  <2>2. Saves'
    BY <1>1, <1>2, <1>3, SaveGoesOn DEF Faithful, hook
  <2> QED BY <2>1, <2>2
<1>7. Stored' /\ EditsSurvive'
  <2>1. \A g \in Forms : Dirty(g)' <=> Dirty(g)
    BY <1>1 DEF Dirty, hook
  <2>2. \A g \in Forms : ~Dirty(g) => fetch'[g] = fetch[g]
    BY <1>1, <1>4 DEF Faithful, Typed, ContentTypes
  <2>3. Stored'
    BY <1>1, <2>1, <2>2 DEF Faithful, Stored, Mounted, hook
  <2>4. EditsSurvive'
    BY <1>1, <2>1 DEF Faithful, EditsSurvive, Mounted, hook
  <2> QED BY <2>3, <2>4
<1>8. HonestNotice'
  BY <1>1, <1>7, QuietHonest DEF Faithful, Mounted, hook
<1>9. Gone' /\ LeavingLosesNothing'
  BY <1>1 DEF Gone, LeavingLosesNothing, Mounted
<1> QED BY <1>5, <1>6, <1>7, <1>8, <1>9 DEF Faithful

\* The server stores what was sent, whoever still waits for it.
LEMMA StoreStep ==
  ASSUME Faithful, NEW r \in runs, Store(r)
  PROVE  Faithful'
<1>p. PICK s : s = [r EXCEPT !.at = "stored"]
  OBVIOUS
<1>1. /\ server' = [server EXCEPT ![r.form] = r.values]
      /\ \/ r.at = "write" /\ runs' = (runs \ {r}) \cup {s}
         \/ r.at = "stray" /\ runs' = runs \ {r}
      /\ UNCHANGED <<hook, paused, invalid, draft, query, page, notice, strayed>>
  BY <1>p DEF Store, Move
<1>2. /\ r \in Runs /\ r.form \in Forms /\ r.values \in Revisions
      /\ s \in Runs /\ s.form = r.form /\ s.rev = r.rev /\ s.at = "stored" /\ s.values = r.values
  <2>1. r \in Runs /\ r.form \in Forms /\ r.values \in Revisions
    BY RunTypes DEF Faithful
  <2> QED BY <1>p, <2>1 DEF Runs
<1>3. /\ server' \in [Forms -> Revisions] /\ server'[r.form] = r.values
      /\ \A f \in Forms \ {r.form} : server'[f] = server[f]
  BY <1>1, <1>2 DEF Faithful, Typed, ContentTypes
<1>4. Typed'
  BY <1>1, <1>2, <1>3 DEF Faithful, Typed, HookTypes, ContentTypes, PageTypes, hook, query
<1>5. Sends'
  BY <1>1, <1>2 DEF Faithful, Sends
<1>6. Saves'
  <2>1. CASE r.at = "write"
    <3>1. Followed(r) /\ Followed(s) /\ runs' = (runs \ {r}) \cup {s}
      BY <1>1, <1>2, <2>1 DEF Followed
    <3> QED BY <1>1, <1>2, <1>3, <3>1, SaveGoesOn DEF Faithful, hook
  <2>2. CASE r.at = "stray"
    <3>1. /\ ~Followed(r) /\ r.form \in strayed /\ runs' = runs \ {r}
      BY <1>1, <2>2 DEF Followed, Faithful, Sends
    <3>2. \A t \in runs : Followed(t) => t \in runs'
      BY <3>1
    <3>3. \A t \in runs : t.form \in Forms
      BY RunTypes DEF Faithful
    <3>4. \A f \in Forms : (\E t \in runs : t.form = f /\ Followed(t))
                          <=> (\E t \in runs' : t.form = f /\ Followed(t))
      BY <3>1, <3>2
    <3> QED BY <1>1, <1>3, <3>1, <3>3, <3>4 DEF Faithful, Saves, Mounted, hook
  <2> QED BY <1>1, <2>1, <2>2
<1>7. Mounted => r.form \in strayed \/ Dirty(r.form)
  <2>1. CASE r.at = "stray"
    BY <2>1 DEF Faithful, Sends
  <2>2. CASE r.at # "stray"
    BY <2>2, UnderWay DEF Followed
  <2> QED BY <2>1, <2>2
<1>8. Stored' /\ EditsSurvive'
  <2>1. \A g \in Forms : Dirty(g)' <=> Dirty(g)
    BY <1>1 DEF Dirty, hook
  <2>2. Stored'
    BY <1>1, <1>3, <1>7, <2>1 DEF Faithful, Stored, Mounted, hook, query
  <2>3. EditsSurvive'
    BY <1>1, <2>1 DEF Faithful, EditsSurvive, Mounted, hook
  <2> QED BY <2>2, <2>3
<1>9. HonestNotice'
  BY <1>1, <1>8, QuietHonest DEF Faithful, Mounted, hook
<1>10. Gone' /\ LeavingLosesNothing'
  <2>1. page = "left" => r.form \in strayed
    BY DEF Faithful, Gone
  <2>2. Gone'
    BY <1>1, <1>2, <2>1 DEF Faithful, Gone
  <2>3. LeavingLosesNothing'
    BY <1>1, <1>3, <2>1 DEF Faithful, LeavingLosesNothing, hook
  <2> QED BY <2>2, <2>3
<1> QED BY <1>4, <1>5, <1>6, <1>8, <1>9, <1>10 DEF Faithful

\* The form of a save that was answered shows what was stored; no other draft changes.
LEMMA SavedStep ==
  ASSUME Faithful, NEW r \in runs, Saved(r)
  PROVE  Faithful'
<1>1. /\ r.at = "stored" /\ runs' = runs \ {r} /\ Settle(r, "saved")
      /\ fetch' = [fetch EXCEPT ![r.form] = NoRead]
      /\ cache' = [cache EXCEPT ![r.form] = r.values]
      /\ enabled' = [enabled EXCEPT ![r.form] = TRUE]
      /\ savedRevision' = [savedRevision EXCEPT ![r.form] = IF Mounted THEN r.rev ELSE @]
      /\ draft' = Shown(draft)
      /\ UNCHANGED <<paused, invalid, server, page, strayed>> /\ Announce
  BY DEF Saved
<1>2. /\ r.form \in Forms /\ r.rev \in Revisions /\ r.values = r.rev /\ Followed(r)
  BY <1>1, RunTypes DEF Faithful, Sends, Followed
<1>3. /\ UNCHANGED revision
      /\ status' \in [Forms -> {"idle", "pending", "saving", "saved", "error", "invalid"}]
      /\ saving' \in [Forms -> BOOLEAN]
      /\ Mounted => saving' = [saving EXCEPT ![r.form] = FALSE]
  BY <1>1, SettledTypes DEF Faithful
<1>4. /\ savedRevision' \in [Forms -> Revisions] /\ cache' \in [Forms -> Revisions]
      /\ fetch' \in [Forms -> Revisions \cup {NoRead, Sent}] /\ enabled' \in [Forms -> BOOLEAN]
      /\ \A f \in Forms \ {r.form} :
           savedRevision'[f] = savedRevision[f] /\ cache'[f] = cache[f] /\ fetch'[f] = fetch[f]
      /\ Mounted => savedRevision'[r.form] = r.rev
      /\ cache'[r.form] = r.rev /\ fetch'[r.form] = NoRead
  BY <1>1, <1>2 DEF Faithful, Typed, HookTypes, ContentTypes
<1>5. /\ draft' \in [Forms -> Revisions]
      /\ \A f \in Forms : draft'[f] = IF Mounted /\ ~Dirty(f)' THEN cache'[f] ELSE draft[f]
  BY <1>1, <1>4 DEF Faithful, Typed, ContentTypes, Shown
<1>6. Typed'
  BY <1>1, <1>3, <1>4, <1>5 DEF Faithful, Typed, HookTypes, ContentTypes, PageTypes, Announce
<1>7. Sends'
  BY <1>1 DEF Faithful, Sends
<1>8. Saves'
  <2>1. Mounted => savedRevision'[r.form] <= revision[r.form]
    BY <1>2, <1>4 DEF Faithful, Saves
  <2> QED BY <1>1, <1>2, <1>3, <1>4, <2>1, RunEnds DEF Faithful
<1>9. \A f \in Forms \ {r.form} : Dirty(f)' <=> Dirty(f)
  BY <1>3, <1>4 DEF Dirty
<1>10. Stored'
  <2> SUFFICES ASSUME Mounted, NEW f \in Forms \ strayed, ~Dirty(f)'
               PROVE  /\ draft'[f] = cache'[f] /\ cache'[f] = server'[f] /\ server'[f] = revision'[f]
                      /\ fetch'[f] \in {NoRead, Sent, server'[f]}
    BY <1>1 DEF Stored, Mounted
  <2>1. CASE f = r.form
    <3>1. server[f] = r.rev /\ savedRevision'[f] = r.rev
      BY <1>1, <1>2, <1>4, <2>1 DEF Faithful, Saves
    <3> QED BY <1>1, <1>3, <1>4, <1>5, <2>1, <3>1 DEF Dirty
  <2>2. CASE f # r.form
    BY <1>1, <1>3, <1>4, <1>5, <1>9, <2>2 DEF Faithful, Stored
  <2> QED BY <2>1, <2>2
<1>11. EditsSurvive'
  <2> SUFFICES ASSUME Mounted, NEW f \in Forms, Dirty(f)'
               PROVE  draft'[f] = revision'[f]
    BY <1>1 DEF EditsSurvive, Mounted
  <2>1. Dirty(f)
    BY <1>2, <1>9, UnderWay
  <2> QED BY <1>3, <1>5, <2>1 DEF Faithful, EditsSurvive
<1>12. HonestNotice'
  BY <1>1, <1>10, AnnouncedHonest
<1>13. Gone' /\ LeavingLosesNothing'
  BY <1>1, <1>3 DEF Faithful, Gone, LeavingLosesNothing
<1> QED BY <1>6, <1>7, <1>8, <1>10, <1>11, <1>12, <1>13 DEF Faithful

-----------------------------------------------------------------------------
(***************************************************************************)
(* The query, and every step.                                              *)
(***************************************************************************)
\* A read that arrives at a form without a draft has what is stored.
LEMMA QueryStep ==
  ASSUME Faithful, NEW f \in Forms, Refetch(f) \/ Read(f) \/ Fetched(f) \/ NotFetched(f)
  PROVE  Faithful'
<1>1. /\ UNCHANGED <<hook, paused, invalid, server, runs, page, notice, strayed>>
      /\ \A g \in Forms \ {f} : fetch'[g] = fetch[g] /\ cache'[g] = cache[g]
      /\ fetch' \in [Forms -> Revisions \cup {NoRead, Sent}]
      /\ fetch'[f] \in {NoRead, Sent, server[f]}
      /\ enabled' \in [Forms -> BOOLEAN] /\ cache' \in [Forms -> Revisions]
      /\ \/ UNCHANGED <<draft, cache>>
         \/ /\ draft' = Shown(draft) /\ cache'[f] = fetch[f]
            /\ fetch[f] \notin {NoRead, Sent}
  <2>1. CASE Refetch(f)
    BY <2>1 DEF Faithful, Typed, HookTypes, ContentTypes, Refetch
  <2>2. CASE Read(f)
    BY <2>2 DEF Faithful, Typed, HookTypes, ContentTypes, Read
  <2>3. CASE Fetched(f)
    BY <2>3 DEF Faithful, Typed, HookTypes, ContentTypes, Fetched
  <2>4. CASE NotFetched(f)
    BY <2>4 DEF Faithful, Typed, HookTypes, ContentTypes, NotFetched
  <2> QED BY <2>1, <2>2, <2>3, <2>4
<1>2. \A g \in Forms : Dirty(g)' <=> Dirty(g)
  BY <1>1 DEF Dirty, hook
<1>3. /\ draft' \in [Forms -> Revisions]
      /\ \A g \in Forms : \/ draft'[g] = draft[g] /\ (~Dirty(g) /\ Mounted => cache'[g] = cache[g])
                          \/ /\ Mounted /\ ~Dirty(g) /\ draft'[g] = cache'[g]
                             /\ g = f => cache'[g] = fetch[g] /\ fetch[f] \notin {NoRead, Sent}
  <2>1. CASE UNCHANGED <<draft, cache>>
    BY <2>1 DEF Faithful, Typed, ContentTypes
  <2>2. CASE draft' = Shown(draft) /\ cache'[f] = fetch[f] /\ fetch[f] \notin {NoRead, Sent}
    <3>1. draft' = [g \in Forms |-> IF Mounted /\ ~Dirty(g)' THEN cache'[g] ELSE draft[g]]
      BY <2>2 DEF Shown
    <3> QED BY <1>1, <1>2, <2>2, <3>1 DEF Faithful, Typed, ContentTypes
  <2> QED BY <1>1, <2>1, <2>2
<1>4. Typed'
  BY <1>1, <1>3 DEF Faithful, Typed, HookTypes, ContentTypes, PageTypes, hook
<1>5. Sends' /\ Saves'
  <2>1. Sends'
    BY <1>1 DEF Faithful, Sends
  <2>2. Saves'
    BY <1>1, SavesStay DEF Faithful, Mounted, hook
  <2> QED BY <2>1, <2>2
<1>6. Stored'
  <2> SUFFICES ASSUME Mounted, NEW g \in Forms \ strayed, ~Dirty(g)
               PROVE  /\ draft'[g] = cache'[g] /\ cache'[g] = server'[g] /\ server'[g] = revision'[g]
                      /\ fetch'[g] \in {NoRead, Sent, server'[g]}
    BY <1>1, <1>2 DEF Stored, Mounted
  <2>1. /\ draft[g] = cache[g] /\ cache[g] = server[g] /\ server[g] = revision[g]
        /\ fetch[g] \in {NoRead, Sent, server[g]}
    BY DEF Faithful, Stored
  <2> QED BY <1>1, <1>3, <2>1 DEF hook
<1>7. EditsSurvive'
  BY <1>1, <1>2, <1>3 DEF Faithful, EditsSurvive, Mounted, hook
<1>8. HonestNotice'
  BY <1>1, <1>6, QuietHonest DEF Faithful, Mounted, hook
<1>9. Gone' /\ LeavingLosesNothing'
  BY <1>1 DEF Faithful, Gone, LeavingLosesNothing, hook
<1> QED BY <1>4, <1>5, <1>6, <1>7, <1>8, <1>9 DEF Faithful

\* Every step keeps the forms faithful.
LEMMA FaithfulStep ==
  ASSUME Faithful, [Next]_vars
  PROVE  Faithful'
<1>1. CASE UNCHANGED vars
  <2>1. Typed'
    BY <1>1 DEF vars, hook, query, Faithful, Typed, HookTypes, ContentTypes, PageTypes
  <2>2. Stored' /\ EditsSurvive' /\ Saves'
    BY <1>1, ContentStays, SavesStay DEF vars, hook, query, Faithful, Mounted
  <2>3. HonestNotice'
    BY <1>1, <2>2, QuietHonest DEF vars, hook, Faithful, Mounted
  <2>4. Sends' /\ Gone' /\ LeavingLosesNothing'
    BY <1>1 DEF vars, hook, Faithful, Sends, Gone, LeavingLosesNothing
  <2> QED BY <2>1, <2>2, <2>3, <2>4 DEF Faithful
<1>2. CASE UserSteps
  BY <1>2, UserStep
<1>3. CASE SaveSteps
  BY <1>3, FireStep, EndStep, SendStep, StoreStep, SavedStep DEF SaveSteps
<1>4. CASE QuerySteps
  BY <1>4, QueryStep DEF QuerySteps
<1> QED BY <1>1, <1>2, <1>3, <1>4 DEF Next

\* The settings were loaded and nothing was edited at first.
LEMMA FaithfulInit ==
  ASSUME Init
  PROVE  Faithful
<1>1. Typed
  <2>1. 0 \in Revisions
    BY DEF Revisions
  <2> QED BY <2>1 DEF Init, Typed, HookTypes, ContentTypes, PageTypes
<1>2. \A f \in Forms : /\ revision[f] = 0 /\ savedRevision[f] = 0 /\ draft[f] = 0 /\ cache[f] = 0
                       /\ server[f] = 0 /\ fetch[f] = NoRead /\ saving[f] = FALSE /\ status[f] = "idle"
  BY DEF Init
<1>3. runs = {} /\ page = "open" /\ notice = "none"
  BY DEF Init
<1> QED BY <1>1, <1>2, <1>3 DEF Faithful, Sends, Saves, Stored, Gone, EditsSurvive, LeavingLosesNothing,
                                HonestNotice, Dirty

\* The inductive invariant: one save of a form at a time, which sends the draft it
\* began with and keeps the form dirty until the answer; what counts as saved is in the
\* form, the cache, the server and the answer of a read under way.
THEOREM FaithfulInvariant == Spec => []Faithful
BY FaithfulInit, FaithfulStep, PTL DEF Spec

\* Every variable keeps its type, and a form that is saving has one save under way.
THEOREM TypeCorrect == Spec => []TypeOK
<1>1. Faithful => TypeOK
  BY DEF Faithful, Typed, Saves, Followed, TypeOK
<1> QED BY <1>1, FaithfulInvariant, PTL

\* A form without a draft shows what the cache holds and the server stored, for any
\* number of edits, saves and reads that overlap (autoSave.ts, Appearance.tsx).
THEOREM ShowsWhatIsStored == Spec => []FormShowsStored
<1>1. Faithful => FormShowsStored
  BY DEF Faithful, Stored, FormShowsStored
<1> QED BY <1>1, FaithfulInvariant, PTL

\* No answer replaces a draft that is not saved (useAutoSave).
THEOREM DraftsSurvive == Spec => []EditsSurvive
<1>1. Faithful => EditsSurvive
  BY DEF Faithful
<1> QED BY <1>1, FaithfulInvariant, PTL

\* The page says "saved" only when the server has every draft, and a failure is not
\* hidden (useAutoSaveFeedback).
THEOREM NoticeIsHonest == Spec => []HonestNotice
<1>1. Faithful => HonestNotice
  BY DEF Faithful
<1> QED BY <1>1, FaithfulInvariant, PTL

\* Who leaves without being asked leaves nothing unsaved behind (useUnsavedChanges).
THEOREM NothingLeftBehind == Spec => []LeavingLosesNothing
<1>1. Faithful => LeavingLosesNothing
  BY DEF Faithful
<1> QED BY <1>1, FaithfulInvariant, PTL
=============================================================================
