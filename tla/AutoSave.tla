------------------------------ MODULE AutoSave ------------------------------
(***************************************************************************)
(* A settings page with forms that save themselves (useAutoSave), announce *)
(* the result together (useAutoSaveFeedback) and hold back a navigation    *)
(* until the drafts are stored (useUnsavedChanges).  The n-th edit of a    *)
(* form makes its revision n and is also its content, so the stored        *)
(* content tells which edit the server has.  Meanwhile the query that      *)
(* loads the same settings may be refetched, be refused, or answer late.   *)
(*                                                                         *)
(* A handler, or the code between two awaits, is one step, and so is the   *)
(* render with its effects that follows it.  The 600 ms timer is pending   *)
(* while Due holds: every change of what it depends on clears it.          *)
(***************************************************************************)
EXTENDS Integers, FiniteSets

CONSTANTS
  Forms,
  MaxRevision,  \* bound on the edits of a form
  Strays,       \* TRUE: a write whose connection broke may still be handled
  NoRead, Sent  \* no read in flight; one in flight, not answered yet

ASSUME RevisionAssumption ==
  /\ MaxRevision \in Nat
  /\ Strays \in BOOLEAN
  /\ {NoRead, Sent} \cap Nat = {} /\ NoRead # Sent

VARIABLES
  revision, savedRevision, status, saving,  \* the state of useAutoSave
  paused,   \* "no", "adjusting" (a slider is held) or "uploading" (an image)
  enabled,  \* the settings were loaded and are not refused
  invalid,  \* the draft breaks a rule of the form
  draft,    \* what the form shows
  cache,    \* what the query cache holds
  fetch,    \* the read in flight: NoRead, Sent or what the server answered
  server,   \* what is stored
  runs,     \* the saves under way
  page,     \* "open", "blocked" (a navigation waits), "left" or "discarded"
  notice,   \* the page's message: "none", "saved" or "error"
  strayed   \* history: the forms of which a write was given up on its way

hook == <<revision, savedRevision, status, saving>>
query == <<cache, fetch, enabled>>
vars == <<hook, paused, invalid, draft, query, server, runs, page, notice, strayed>>

Revisions == 0..MaxRevision

\* rev is the revision a save began with, values what it sends; it is at
\* "validate", at "write" (sent), "stored" (handled, not answered yet), or
\* a "stray": given up by the client and still on its way.
Runs == [form : Forms, rev : Revisions, values : Revisions,
         at : {"validate", "write", "stored", "stray"}]

Init ==
  /\ revision = [f \in Forms |-> 0]
  /\ savedRevision = [f \in Forms |-> 0]
  /\ status = [f \in Forms |-> "idle"]
  /\ saving = [f \in Forms |-> FALSE]
  /\ paused = [f \in Forms |-> "no"]
  /\ enabled = [f \in Forms |-> TRUE]
  /\ invalid = [f \in Forms |-> FALSE]
  /\ draft = [f \in Forms |-> 0]
  /\ cache = [f \in Forms |-> 0]
  /\ fetch = [f \in Forms |-> NoRead]
  /\ server = [f \in Forms |-> 0]
  /\ runs = {}
  /\ page = "open"
  /\ notice = "none"
  /\ strayed = {}

-----------------------------------------------------------------------------
Mounted == page \in {"open", "blocked"}

Dirty(f) == revision[f] # savedRevision[f]

Unsaved == \E f \in Forms : Dirty(f) \/ paused[f] = "uploading"

WaitForAnySave ==   \* mutant: the status is not looked at
  \A f \in Forms : paused[f] # "uploading" /\ (Dirty(f) => enabled[f])

\* waitForSave: every draft is about to be saved, so the navigation needs no
\* question.
WaitForSave ==
  \A f \in Forms :
    /\ paused[f] # "uploading"
    /\ Dirty(f) => enabled[f] /\ status[f] \in {"pending", "saving"}

\* The question whether to leave without saving is on the screen.
Asking == page = "blocked" /\ Unsaved /\ ~WaitForSave

\* A save of one form at a time, and none while it is paused.
Due(f) ==
  /\ Mounted
  /\ enabled[f] /\ paused[f] = "no"
  /\ ~saving[f]
  /\ Dirty(f) /\ status[f] = "pending"

AnnounceEachForm ==   \* mutant: one saved form is enough
  notice' =
    IF \E f \in Forms : status'[f] = "error" THEN "error"
    ELSE IF \E f \in Forms : status'[f] = "saved" THEN "saved" ELSE notice

\* The effect of useAutoSaveFeedback, run by the render that ends a step.
Announce ==
  notice' =
    IF page' \notin {"open", "blocked"} THEN IF notice = "error" THEN "none" ELSE notice
    ELSE IF \E f \in Forms : status'[f] = "error" THEN "error"
    ELSE IF (\A f \in Forms : ~Dirty(f)') /\ (\E f \in Forms : status'[f] = "saved")
      THEN "saved"
    ELSE IF notice = "saved" /\ (\E f \in Forms : Dirty(f)') THEN "none"
    ELSE notice

ShownAnyway(drafts) ==   \* mutant: a form with a draft is reset too
  [f \in Forms |-> IF cache'[f] # cache[f] THEN cache'[f] ELSE drafts[f]]

\* The effect that copies the loaded settings into a form without a draft.
Shown(drafts) ==
  [f \in Forms |-> IF Mounted /\ ~Dirty(f)' THEN cache'[f] ELSE drafts[f]]

-----------------------------------------------------------------------------
(* The user.                                                               *)

Changed(f) ==
  /\ revision' = [revision EXCEPT ![f] = @ + 1]
  /\ status' = [status EXCEPT ![f] = "pending"]
  /\ draft' = [draft EXCEPT ![f] = revision'[f]]
  /\ \E b \in BOOLEAN : invalid' = [invalid EXCEPT ![f] = b]
  /\ UNCHANGED <<savedRevision, saving>>

Edit(f) ==
  /\ Mounted /\ ~Asking
  /\ enabled[f] /\ revision[f] < MaxRevision
  /\ Changed(f)
  /\ UNCHANGED <<paused, query, server, runs, page, strayed>>
  /\ Announce

\* The button of a failed form, or Enter in any form.
Retry(f) ==
  /\ Mounted /\ ~Asking
  /\ Dirty(f)
  /\ status' = [status EXCEPT ![f] = "pending"]
  /\ UNCHANGED <<revision, savedRevision, saving, paused, invalid, draft, query,
                 server, runs, page, strayed>>
  /\ Announce

Pause(f) ==
  /\ Mounted /\ ~Asking
  /\ enabled[f] /\ paused[f] = "no"
  /\ \E how \in {"adjusting", "uploading"} : paused' = [paused EXCEPT ![f] = how]
  /\ UNCHANGED <<hook, invalid, draft, query, server, runs, page, notice, strayed>>

\* The slider is released, or the upload ends; an upload that succeeded edits
\* the form.
Resume(f) ==
  /\ Mounted /\ paused[f] # "no"
  /\ paused' = [paused EXCEPT ![f] = "no"]
  /\ \/ UNCHANGED <<hook, invalid, draft>>
     \/ /\ paused[f] = "uploading" /\ revision[f] < MaxRevision
        /\ Changed(f)
  /\ UNCHANGED <<query, server, runs, page, strayed>>
  /\ Announce

\* A link is followed: at once, or when the drafts are stored.
Leave ==
  /\ page = "open"
  /\ page' = IF Unsaved THEN "blocked" ELSE "left"
  /\ UNCHANGED <<hook, paused, invalid, draft, query, server, runs, strayed>>
  /\ Announce

Proceed ==
  /\ page = "blocked" /\ ~Unsaved
  /\ page' = "left"
  /\ UNCHANGED <<hook, paused, invalid, draft, query, server, runs, strayed>>
  /\ Announce

Stay ==
  /\ Asking
  /\ page' = "open"
  /\ UNCHANGED <<hook, paused, invalid, draft, query, server, runs, notice, strayed>>

\* The user agrees to lose the drafts: the question above, the browser's own
\* question before it closes the page, or the one before another account.
Discard ==
  /\ Mounted /\ Unsaved
  /\ page' = "discarded"
  /\ UNCHANGED <<hook, paused, invalid, draft, query, server, runs, strayed>>
  /\ Announce

-----------------------------------------------------------------------------
(* One save, from the timer to the answer.                                 *)

Fire(f) ==
  /\ Due(f)
  /\ runs' = runs \cup {[form |-> f, rev |-> revision[f], values |-> draft[f],
                         at |-> "validate"]}
  /\ saving' = [saving EXCEPT ![f] = TRUE]
  /\ status' = [status EXCEPT ![f] = "saving"]
  /\ UNCHANGED <<revision, savedRevision, paused, invalid, draft, query, server,
                 page, strayed>>
  /\ Announce

Latest(r) == r.rev = revision[r.form]

Move(r, s) == runs' = (runs \ {r}) \cup {s}

SettleStillSaving(r, verdict) ==   \* mutant: no finally
  /\ status' = [status EXCEPT ![r.form] =
                  IF ~Mounted THEN @ ELSE IF Latest(r) THEN verdict ELSE "pending"]
  /\ UNCHANGED <<revision, saving>>

\* What a save that ends leaves behind: its verdict holds only for the draft
\* it began with; a later draft is still to be saved.
Settle(r, verdict) ==
  IF Mounted
  THEN /\ status' = [status EXCEPT ![r.form] = IF Latest(r) THEN verdict ELSE "pending"]
       /\ saving' = [saving EXCEPT ![r.form] = FALSE]
       /\ UNCHANGED revision
  ELSE UNCHANGED <<revision, status, saving>>

\* The draft as it is when the validation ends is refused.
Invalid(r) ==
  /\ r.at = "validate" /\ invalid[r.form]
  /\ runs' = runs \ {r}
  /\ Settle(r, "invalid")
  /\ UNCHANGED <<savedRevision, paused, invalid, draft, query, server, page, strayed>>
  /\ Announce

SupersedeQuietly(r) ==   \* mutant: the status stays "saving"
  /\ r.at = "validate" /\ ~invalid[r.form]
  /\ Mounted => ~Latest(r) \/ paused[r.form] # "no" \/ ~enabled[r.form]
  /\ runs' = runs \ {r}
  /\ saving' = [saving EXCEPT ![r.form] = ~Mounted /\ @]
  /\ UNCHANGED <<revision, status, savedRevision, paused, invalid, draft, query, server,
                 page, strayed>>
  /\ Announce

\* Valid, but edited meanwhile, paused or refused: saved later.
Supersede(r) ==
  /\ r.at = "validate" /\ ~invalid[r.form]
  /\ Mounted => ~Latest(r) \/ paused[r.form] # "no" \/ ~enabled[r.form]
  /\ runs' = runs \ {r}
  /\ Settle(r, "pending")
  /\ UNCHANGED <<savedRevision, paused, invalid, draft, query, server, page, strayed>>
  /\ Announce

\* save(): stop the reads of these settings, then send the draft.
Send(r) ==
  /\ r.at = "validate" /\ ~invalid[r.form]
  /\ Mounted /\ Latest(r) /\ paused[r.form] = "no" /\ enabled[r.form]
  /\ Move(r, [r EXCEPT !.at = "write", !.values = draft[r.form]])
  /\ fetch' = [fetch EXCEPT ![r.form] = NoRead]
  /\ UNCHANGED <<hook, paused, invalid, draft, cache, enabled, server, page, notice, strayed>>

Store(r) ==
  /\ r.at \in {"write", "stray"}
  /\ server' = [server EXCEPT ![r.form] = r.values]
  /\ IF r.at = "write" THEN Move(r, [r EXCEPT !.at = "stored"]) ELSE runs' = runs \ {r}
  /\ UNCHANGED <<hook, paused, invalid, draft, query, page, notice, strayed>>

SavedAllOfIt(r) ==   \* mutant: later edits count as saved too
  /\ r.at = "stored"
  /\ runs' = runs \ {r}
  /\ fetch' = [fetch EXCEPT ![r.form] = NoRead]
  /\ cache' = [cache EXCEPT ![r.form] = r.values]
  /\ enabled' = [enabled EXCEPT ![r.form] = TRUE]
  /\ savedRevision' = [savedRevision EXCEPT ![r.form] = revision[r.form]]
  /\ Settle(r, "saved")
  /\ draft' = Shown(draft)
  /\ UNCHANGED <<paused, invalid, server, page, strayed>>
  /\ Announce

SavedWhileReading(r) ==   \* mutant: the reads are not stopped again
  /\ r.at = "stored"
  /\ runs' = runs \ {r}
  /\ cache' = [cache EXCEPT ![r.form] = r.values]
  /\ enabled' = [enabled EXCEPT ![r.form] = TRUE]
  /\ savedRevision' = [savedRevision EXCEPT ![r.form] = IF Mounted THEN r.rev ELSE @]
  /\ Settle(r, "saved")
  /\ draft' = Shown(draft)
  /\ UNCHANGED <<fetch, paused, invalid, server, page, strayed>>
  /\ Announce

\* The answer arrives: reads begun meanwhile are stopped, the cache gets what
\* was sent, and what was sent counts as saved.
Saved(r) ==
  /\ r.at = "stored"
  /\ runs' = runs \ {r}
  /\ fetch' = [fetch EXCEPT ![r.form] = NoRead]
  /\ cache' = [cache EXCEPT ![r.form] = r.values]
  /\ enabled' = [enabled EXCEPT ![r.form] = TRUE]
  /\ savedRevision' = [savedRevision EXCEPT ![r.form] = IF Mounted THEN r.rev ELSE @]
  /\ Settle(r, "saved")
  /\ draft' = Shown(draft)
  /\ UNCHANGED <<paused, invalid, server, page, strayed>>
  /\ Announce

\* The write was refused, or its answer was lost.
Failed(r) ==
  /\ r.at \in {"write", "stored"}
  /\ \/ runs' = runs \ {r} /\ UNCHANGED strayed
     \/ /\ Strays /\ r.at = "write"
        /\ Move(r, [r EXCEPT !.at = "stray"])
        /\ strayed' = strayed \cup {r.form}
  /\ Settle(r, "error")
  /\ UNCHANGED <<savedRevision, paused, invalid, draft, query, server, page>>
  /\ Announce

-----------------------------------------------------------------------------
(* The query behind the form.                                              *)

Refetch(f) ==
  /\ Mounted /\ fetch[f] = NoRead
  /\ fetch' = [fetch EXCEPT ![f] = Sent]
  /\ UNCHANGED <<hook, paused, invalid, draft, cache, enabled, server, runs, page,
                 notice, strayed>>

Read(f) ==
  /\ fetch[f] = Sent
  /\ fetch' = [fetch EXCEPT ![f] = server[f]]
  /\ UNCHANGED <<hook, paused, invalid, draft, cache, enabled, server, runs, page,
                 notice, strayed>>

Fetched(f) ==
  /\ fetch[f] \notin {NoRead, Sent}
  /\ cache' = [cache EXCEPT ![f] = fetch[f]]
  /\ fetch' = [fetch EXCEPT ![f] = NoRead]
  /\ enabled' = [enabled EXCEPT ![f] = TRUE]
  /\ UNCHANGED <<hook, paused, invalid, server, runs, page, notice, strayed>>
  /\ draft' = Shown(draft)

\* Refused (the session or the right is gone), or failed for the moment.
NotFetched(f) ==
  /\ fetch[f] # NoRead
  /\ fetch' = [fetch EXCEPT ![f] = NoRead]
  /\ \E b \in {FALSE, enabled[f]} : enabled' = [enabled EXCEPT ![f] = b]
  /\ UNCHANGED <<hook, paused, invalid, draft, cache, server, runs, page, notice, strayed>>

-----------------------------------------------------------------------------
UserSteps ==
  \/ \E f \in Forms : Edit(f) \/ Retry(f) \/ Pause(f) \/ Resume(f)
  \/ Leave \/ Proceed \/ Stay \/ Discard

SaveSteps ==
  \/ \E f \in Forms : Fire(f)
  \/ \E r \in runs : Invalid(r) \/ Supersede(r) \/ Send(r) \/ Store(r) \/ Saved(r)
                     \/ Failed(r)

QuerySteps ==
  \E f \in Forms : Refetch(f) \/ Read(f) \/ Fetched(f) \/ NotFetched(f)

Next == UserSteps \/ SaveSteps \/ QuerySteps

\* Timers fire, validations end, and a request is answered or fails; a user may
\* stop editing, never release a slider, and leave a question unanswered.
Answered(f) ==
  \E r \in runs : r.form = f /\ (Invalid(r) \/ Supersede(r) \/ Send(r) \/ Saved(r) \/ Failed(r))

Fairness ==
  /\ WF_vars(Proceed)
  /\ \A f \in Forms : WF_vars(Fire(f)) /\ WF_vars(Answered(f))

Spec == Init /\ [][Next]_vars
FairSpec == Spec /\ Fairness

-----------------------------------------------------------------------------
PageTypes ==
  /\ page \in {"open", "blocked", "left", "discarded"}
  /\ notice \in {"none", "saved", "error"}
  /\ strayed \subseteq Forms

HookTypes ==
  /\ revision \in [Forms -> Revisions]
  /\ savedRevision \in [Forms -> Revisions]
  /\ status \in [Forms -> {"idle", "pending", "saving", "saved", "error", "invalid"}]
  /\ saving \in [Forms -> BOOLEAN]
  /\ paused \in [Forms -> {"no", "adjusting", "uploading"}]
  /\ enabled \in [Forms -> BOOLEAN]
  /\ invalid \in [Forms -> BOOLEAN]

ContentTypes ==
  /\ draft \in [Forms -> Revisions]
  /\ cache \in [Forms -> Revisions]
  /\ fetch \in [Forms -> Revisions \cup {NoRead, Sent}]
  /\ server \in [Forms -> Revisions]
  /\ runs \subseteq Runs

\* Every variable has the values that useAutoSave, its page and the query can
\* give it; a form that is saving has one save under way, and no other form has.
TypeOK ==
  /\ HookTypes /\ ContentTypes /\ PageTypes
  /\ Mounted => \A f \in Forms :
       saving[f] <=> \E r \in runs : r.form = f /\ r.at # "stray"

\* A form without a draft shows what the cache holds and the server stored,
\* whatever reads were under way when it was saved (autoSave.ts, the save of
\* Appearance.tsx).
FormShowsStored ==
  Mounted => \A f \in Forms \ strayed :
    ~Dirty(f) => draft[f] = cache[f] /\ cache[f] = server[f]

\* No answer, of a read or of a write, replaces a draft that is not saved.
EditsSurvive ==
  Mounted => \A f \in Forms : Dirty(f) => draft[f] = revision[f]

\* The page says "saved" only when the server has every draft of every form, and
\* a failed save is not hidden by another that worked.
HonestNotice ==
  Mounted =>
    /\ notice = "saved" =>
         \A f \in Forms : ~Dirty(f) /\ (f \in strayed \/ server[f] = draft[f])
    /\ (\E f \in Forms : status[f] = "error") => notice = "error"

\* Who leaves without being asked leaves nothing unsaved behind, unless a write
\* that the client has given up is handled late.
LeavingLosesNothing ==
  page = "left" => \A f \in Forms \ strayed : server[f] = revision[f]

\* A draft is stored, or its form says why not, unless the form is paused or
\* refused or the page is left.
DraftResolves ==
  \A f \in Forms :
    Mounted /\ Dirty(f) ~>
      \/ ~Dirty(f) \/ status[f] \in {"error", "invalid"}
      \/ paused[f] # "no" \/ ~enabled[f] \/ ~Mounted

\* A navigation that waits for the drafts goes ahead or becomes a question,
\* unless a slider is held meanwhile.
LeavingResolves ==
  page = "blocked" ~>
    page # "blocked" \/ Asking \/ \E f \in Forms : paused[f] = "adjusting"
=============================================================================
