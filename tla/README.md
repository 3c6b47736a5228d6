# ZPanel in TLA+

ZPanel is a self-hosted navigation panel: a Go backend (gin, gorm; SQLite by
default, MySQL as an option) that stores accounts, navigation groups and items,
settings and uploaded images, and a React frontend (TanStack Query, zustand)
that edits them. This directory holds TLA+ modules of the parts whose
correctness depends on the order of events, the TLC configurations that check
them, and TLAPS proofs of what matters most.

Run everything from this directory:

    tlc -workers 2 -config MCFileStore_faults.cfg MCFileStore
    tlapm FileStoreProofs.tla

`PROJECT.json` lists the runs, the lines of the source each definition stands
for, the hazards, the findings and, for every property of every passing run, a
mutated definition under which that property fails.

## 1. The system

| Component | State | Operations | Hard behaviour | What makes it correct |
|---|---|---|---|---|
| Uploaded images (`api/api_v1/system/file*.go`, `lib/storage`, `models/file*.go`) | bytes under `uploads/`, rows of the `file` table, every saved field that holds an upload path | upload, favicon download, save of a field, delete, replace | disk and table are not one transaction; a save was composed before a delete; crashes and failing removals | no saved field names a deleted image; bytes in use stay; one object per account and content; nothing is left by a failed upload |
| Write lock (`middleware/resource_mutation.go`, `lib/resourceguard`) | `mutationMu` | body first, then lock, then the lookup of stale paths, then the handler | what was read before the lock is stale under it; some routes do not take it | one writer at a time; the lock is given back on every path |
| Navigation (`api/api_v1/panel/itemIcon*.go`, `item_icon_group.go`, `import.go`) | `item_icon`, `item_icon_group` | move, edit, add, delete, save order, add and delete groups, import, the reads that seed the first group | look-ups outside the transaction that writes; overlapping first reads; deletions from two tabs | an item is in a living group of its own account; an account keeps a group; nothing disappears that was not asked for |
| Backup import (`Backup.tsx`, `import.go`, `import_receipt.go`) | request id in the page, receipts in the database | pick, choose, confirm, send, repeat | lost answers, repeats, late requests | applied once per choice; success is reported only for what was written |
| Auto-saved settings (`autoSave.ts`, `unsaved.ts`, settings pages) | revisions, status, timers, query cache | edit, timer, validate, send, answer, refetch, leave | answers of reads and writes that overtake one another; edits during a save | no edit is lost, overwritten, reordered or sent twice; the message is honest |
| Accounts and sessions (`panel/users.go`, `system/user.go`, `system/login.go`, `models/session.go`, `login_interceptor.go`, `public_mode_interceptor.go`, `initialize/app.go`) | users, sessions, `PANEL_PUBLIC_USER_ID` | login, logout, expiry, create, update, delete, change a password, choose the public account, reset from the command line | identity read before the wait for the lock; logins that overlap a change; two administrators acting on each other | an administrator remains; sessions end with the password they were opened with |
| Browser session and home snapshot (`store.ts`, `Providers.tsx`, `App.tsx`, `queries.ts`, `session.ts`, `homeCache.ts`, `api.ts`) | account list and token, the query client of the session, which cached data are verified, the snapshot in localStorage | sign in, switch, sign out, change the password, open a route, read, restore, record, discard | late, lost and refused answers around a switch; page code and account arriving in either order; another tab that writes the snapshot | nothing of one account is shown or kept for another; nothing of the snapshot is left in the settings |
| Navigation on the home and groups pages (`Home.tsx`, `ItemActionMenu.tsx`, `ItemEditor.tsx`, `Groups.tsx`) | the query of the navigation, menu, editor, dialogs, calls under way | open, edit, add, move, delete, sort, leave, retry | reads that overlap writes, answers lost after the server wrote, other tabs | what was confirmed is shown or being read; an edit does not undo a confirmed move |
| Wallpaper (`useWallpaperAppearance.ts`, `wallpaper.ts`, `WallpaperBackground.tsx`, `WallpaperPreview.tsx`) | the run of the effect, the decoded image, the image a canvas may read, the last result | measure, load, decode, analyze, give up | two loads and two timers against changes of size, theme and settings | no bright flash before the veil, no flash on reanalysis, the page always appears, the veil is no stronger than needed |
| Cached settings (`systemSetting.go`, `lib/cache`) | setting rows, cache | read, set | a read that fills the cache after a write invalidated it | the cache does not keep an older value than the last write, or only until it expires |
| Login rate limit (`login_rate_limit.go`) | a counter per address | attempt, cleaner | the boundary of the window | never more attempts than allowed in a window |
| Queue (`lib/queue`) | list and index | push, pop, delete | a lock taken twice, pop of an empty queue | no caller in the repository today |
| Thumbnails (`lib/storage/thumbnail.go`) | thumbnail files | build, remove | a build that overlaps the removal of its original | no thumbnail without an original |

Everything else is listed in `PROJECT.json` with the reason it is left out: the
validators of settings and URLs are pure and appear in the models as refusals
(`Fail`), host and Docker status have no state of their own, mail, captcha,
configuration, logging and languages are sequential.

How the parts interact: every route of the first list below takes
`mutationMu` in `ResourceMutation` after authentication and after the body has
been read. The others write without it.

- under the lock: `itemIcon` edit, move, deletes, saveSort, addMultiple;
  `itemIconGroup` edit, deletes; `userConfig` set, import; panel users create,
  update, deletes; `siteSetting/set`; `file` replace, deletes;
  `moduleConfig/save`; `user` updatePassword, updateInfo; and the storing of an
  upload (in `storeUploadedImage`);
- without it: `itemIconGroup` saveSort, `getSiteFavicon`, `setPublicVisitUser`,
  the reading routes (which may create the first group), login, logout, and the
  command line.

## 2. The modules

`Gallery` — abstract. What the image gallery promises: an image is published
once, fields may name it while it is live, and it is retired for good and only
while nothing names it. No lock, disk, request or failure.

`FileStore` — the detailed specification that implements `Gallery`. State:
the `file` table (`status`, `owner`, `sha`, `purpose`), the disk (`bytes`), the
saved fields (`ref`), the lock (`mutationMu`) and, for each request, its stage
(`pc`) and input. A request arrives with its input (`Begin`), waits, is granted
the lock (`Acquire`) and goes through the steps of its handler: an upload looks
for an existing object (`Reuse`), stores the bytes (`Store`, `StoreFails`) and
adds the row (`AddFile`, `AddFileFails`, which takes the bytes back); a save
looks its paths up (`CheckLocalFiles`, `RejectStale`) and writes (`Write`); a
delete scans the references (`Scan`, `RefuseReferenced`) and then removes bytes
and updates rows file by file (`RemoveBytes`, `EraseRow` and their failures); a
replacement rewrites the references of its owner's fields in one transaction
(`Replace`). A favicon download writes bytes and row without the lock
(`Download`, `AddIcon`). `Crash` ends every request between any two steps. A
field whose path stands inside a longer text is in `EmbeddedSlots`.

`Navigation` — groups and items of each account, with positions. Requests name
ids that may be gone when their turn comes. `CheckGroup`, `Locate` and `Place`
are the statements outside and inside the transaction of edit, add and move;
`CountGroups` and `DeleteGroups` are the count of the groups that stay and the
writes after it; the row lock of that count, which SQLite does not have, is left
out. `ReadGroups` and `SeedGroup` are the read and the writes of the first visit.
`Serializable` says whether a transaction can still write when another has
committed since its first read: with TRUE, the commit of any writer (`Commit`)
turns the first reads that had looked before it to "overtaken", and they can only
fail (SQLite); with FALSE they write (MySQL's repeatable read).

`Accounts` — accounts, passwords, sessions, the public visitor and the command
line. A request keeps the account it was admitted with. A change of one's own
password has two steps, `Verify` and `UpdatePassword`, both under the lock; a
login reads the account (`Login`) and creates the session later
(`OpenSession`); `setPublicVisitUser` looks the account up and stores it later
(`Choose`, `SetPublicVisitUser`); a reset from the command line is two
statements (`ResetPassword`, then `RevokeAfterReset` or `RevokeFails`). A
session that is revoked or expired is never found again, so the model forgets
it. `proof` and `late` are history variables.

`AutoSave` — the forms of one settings page, the query that loads the same
settings, the writes under way, the shared message and a navigation that waits.
The n-th edit makes revision n and is also the content, so the stored content
tells which edit the server has. A handler with its render and effects is one
step; the timer is pending while `Due` holds. A write whose client has given up
may still be handled by the server (`Strays`).

`BackupImport` — the page's file, mode, parts and request id, the calls on
their way, and the receipts that the server writes in the transaction of the
imported rows. A `choice` is a number that grows with every change of what would
be sent.

`HomeCache` — one tab. `token` and `accounts` are the persisted store;
`client` is the session whose query client is mounted, so a step in which
`client # token` is the moment between a switch and React's next render
(`SessionQueries`). A read is started by a page (`Read`, `ReadAuth`), handled by
the server (`Handle`, `HandleAuth`, with the public visitor of
`PublicModeInterceptor`) and delivered (`Arrives`, `AuthArrives`) or lost; the
check in `request` that the session is still the one that asked is `Asked`.
`Bind` is `bindHomeCache`, `RecordedData` and `RecordedRefusal` its subscription.
`Navigate` may change the route at any time, also while the account or the code is
pending: `loaded` is the page that `Protected` still has from the last route, and
`coming` says that the code of the present one was asked for and has not arrived
(`Loaded`). A write of the snapshot may be refused by the browser (`Written`): the
former copy stays and is out of date (`old`). Home data are whose they are and whether
all their fields are there: `DisplayData` drops the fields the snapshot does not
keep. Which data pass `validData`, and whether an entry is too old or the
snapshot too long, is any choice. Two assumptions: a browser that has an entry does
not refuse to remove it (it refuses removal only where it refuses all access), and a
form of the settings saves only when the code of its page has arrived (`Saved`; the
form waits 600 ms after an edit before it saves, and the code it was rendered from is
in memory). The server (roles, disabled accounts, ended
sessions, the public visitor) and another tab are the environment; `MaxTurns`
bounds their steps.

`HomePage` — one tab, one lasting session. `query` is the query `["groups"]` with
the read under way; a first read is kept by an invalidation and any other is
started anew (`Refetch`, as the query library does). A call is sent, handled by
the server (`Handle`, whose `Effects` are the outcomes `Navigation` has in
detail), and answered, refused or lost; who leaves the page gives up its
answers, not its effects (`Hushed`). `MoveConfirmed` is the whole tail of
`moveItem`: cancel the reads, put the confirmed place into the cache,
invalidate. `confirmed` and `moved` are history variables: the facts this tab
was told and nobody has changed since.

`Wallpaper` — the hook as a state machine: `input` is what the last render passed
to it, `run` the effect with its stage and timers, `sample` the last result.
`RunEffect` is a step of its own because loads and timers may fire before it. A
refused page (`PanelRefused`) comes back with the settings of its refetch in one
render (`PanelBack`). `seen` and `behind` are history: the images that were shown,
and those that got a result while the page was refused. The model has the home page, which waits behind its shell (`presented`), and the
preview, which delays the analysis (`Settled`).

`WallpaperContrast` — pure: `RequiredScrim` (bisection, for tones whose
readability grows with the veil), `CustomInkScrim` (scan of every strength, for
colors whose contrast may fall before it grows) and the choice of tone, against
the definition of the least veil. `MCWallpaper` joins the two: a result that
says `measured` has the veil this module computes.

`FileStoreProofs`, `NavigationProofs`, `AccountsProofs`, `AutoSaveProofs`,
`BackupImportProofs`, `HomeCacheProofs`, `HomePageProofs`, `WallpaperProofs` —
theorems about the module of that name and their proofs; the last also proves
`WallpaperContrast`, which it reaches through `MCWallpaper`.

`MC*` — model values and symmetry for TLC. `Users`, `Images`, `Items` and the
like are sets of model values; symmetry is used only in runs without liveness
properties.

The modules are joined where one part's promise is another's assumption:
`FileStore` instantiates `Gallery` (`View`); deletions of accounts appear in
`FileStore` as the save that clears all the account's fields
(`BeginDeleteUser`) and in `Accounts` as the end of the row and its sessions.
Rows of `Navigation` that hold an icon are the `Slots` of `FileStore`.
`HomePage` takes from `Navigation` what a write does, from `HomeCache` that a
restored read is unverified; `AutoSave` takes from `HomeCache` that its form
starts from data of the server (`SettingsAreFresh`, once the code of the page has
arrived).

## 3. What the runs show

| Run | Instance | What it shows |
|---|---|---|
| `files_faults` | an administrator and a user, a field of the user and the site's field, 2 files, 1 image, 2 requests, all failures | no dangling name, one copy per image, deleted means gone, bytes in use are kept in every step, and the refinement of `Gallery` |
| `files_live` | 1 account, 2 fields, 2 files, 2 requests, failing queries, fairness | requests return, a failed upload leaves nothing |
| `files_embedded` | as the first, the site's field embeds its path | **violated**: see findings |
| `nav` | 2 accounts, 2 groups, 2 items, positions 0..2, 2 requests, serializable transactions | items stay in living groups of their account, nothing vanishes unasked, a group remains, a move goes to the end, a first read creates a group only for an account that still has none |
| `accounts` | 2 accounts, 2 passwords, 1 session, 2 requests, failing revocation | an administrator remains, sessions know the password, no change of a password is lost |
| `accounts_reset` | the same | **violated**: see findings |
| `autosave_page` | 2 forms, 1 edit each | the shared message |
| `autosave_form` | 1 form, 3 edits, stray writes, fairness | no edit lost or replaced; drafts and navigations resolve |
| `backup` | 2 files, 3 changes of the choice | applied and reported once per choice, never refused |
| `home_cache` | 2 accounts, 2 sessions, 1 kind of home data, 2 roles, 1 turn of the environment | data in the cache, and what is left in the browser, are the account's own; nothing of the snapshot is left in the settings once their code has arrived |
| `home_page` | 2 items, 2 groups, 2 writes, at most 1 of them of another tab | what is confirmed is shown or read again; edits keep moves |
| `wallpaper` | 2 images, 2 looks, 2 views, a tone, a color and a color that cannot be analyzed, 2 changes, fairness; 4 strengths, 3 halvings | the veil comes with the image, but for two exceptions, and stays, it is the least, and the page appears |

The bounds. Two requests are enough for every race named in the hazards: each
is about one request that read something and another that changes it before
the first one writes. Two files let one image be deleted while another takes its
place, two copies of one content exist, and a replacement have a source and a
target; two accounts tell own from foreign rows. Two groups let two requests
delete both unless the second is refused, and two first reads create one each. Three edits let an edit happen
before, during and after a save whose answer is late. Three choices let the user
change the choice and change it back. `MaxSort`, `MaxRevision` and `MaxChoices` are
the only bounds on counters. One session suffices in `accounts`, because a
request keeps the account it was admitted with while the session is used again
by another account. In `home_cache`, two sessions are the one that is left and the one that is
entered; one turn lets a session end, a role change or another tab write while the user goes
on. In `home_page`, two
writes are a move and the edit, deletion or sort that overlaps it, or one of this
tab and one of another that makes what the page shows stale. In `wallpaper`, two changes leave
an image and come back to it, or refuse the page and bring it back with other
settings, which is what its exceptions are about. Larger
instances were checked once and take too long to repeat: `Navigation` with three
groups of one account (1.2 million states) and with MySQL's isolation (1.9 million),
`HomeCache` with two turns (4.6 million), with one role and three turns (9.2 million)
and with two kinds of data and no turn (1.6 million),
`HomePage` with one item and three writes, one of them of another tab (8.3
million), and with one item and three groups (1.5 million). Strengths are 4 steps
instead of 1000 with 3 halvings instead of 10: the search and the rounding are
the same for any number (`StepAssumption`). What the bounds leave open for
safety is closed by the proofs of section 5: every invariant and action property
of these runs is a theorem for all values of the constants. The runs keep
showing that what is proved is not vacuous (their mutants), and they alone show
liveness.

Deadlock is checked in `FileStore`, `Navigation` and `Accounts`. It is not in
`AutoSave` (a page that was left does nothing more), in `BackupImport` (when
the choices are used up, nothing is left to do), in `HomeCache` and `HomePage`
(a page at rest, with the environment's turns used up) and in `Wallpaper` (an
image that is shown).

## 4. Fairness

- `FileStore!FairSpec`: `WF(Step(r))`, a handler that can go on does; and
  `SF(Acquire(r))`. Strong fairness is needed because the lock is free only from
  time to time; Go's `sync.Mutex` justifies it, as a waiter of more than a
  millisecond is handed the lock (starvation mode). Arrivals and crashes are
  not fair.
- `AutoSave!FairSpec`: timers fire (`Fire`), validations end and a request is
  answered or fails (`Answered`), and the router proceeds with a navigation
  that is free to go (`Proceed`). Nothing is assumed of the user: they may stop
  editing, hold a slider for ever and leave a question open, and the liveness
  properties name these cases.
- `Wallpaper!FairSpec`: the viewport is measured, effects run, the delay of the
  preview ends and both timers fire, as React and the browser see to. Nothing
  is assumed of images: a load may hang, and so may `decode()`.

## 5. What is proved

Every safety property that a passing run checks, invariant or action property, and
the refinement of `Gallery`, is a theorem that TLAPS checks for every value of
the constants. The theorems rest on the named assumptions of the modules, which
TLC evaluates in the runs: model values such as `None` differ from the data they
stand beside (`NoneAssumption`, `RowAssumption`, `CacheAssumption`,
`BindingAssumption`, `PageAssumption`, `NavAssumption`, `SampleAssumption`,
`AbsentAssumption`), sets of accounts, inks and faults are subsets of what they are
taken from (`SlotAssumption`, `FaultAssumption`, `AccountAssumption`,
`InkAssumption`), and bounds are numbers (`SortAssumption`, `RevisionAssumption`,
`ChoiceAssumption`, `StepAssumption`; the last also says that there are fewer
strengths than intervals of the search, as 1000 < 2^10). `RowAssumption` has the
ids of items finite, as machine integers are.

Each module has one inductive invariant, the conjunction of its types, the safety
properties and what makes them inductive. It has one lemma per action or group of
like actions, and the theorems follow from it.

**`FileStoreProofs`.** `Guarded` (`GuardedInvariant`) strengthens
`NoDanglingName`: a request about to write must still know that what it checked is
active. `Held` says that a request in a locked stage is the holder of the lock,
`Checked` that what a request is about to write names active images, `Doomed` that
the images a delete removes one by one are active and no field refers to them. A
step of another request cannot break these, as it would have to hold the lock; the
steps that take no lock only make files active (`LockFree`). From it follow
`MutexExcludes` and `NoNameDangles`. `Kept` (`KeptInvariant`) adds the bytes: the
key of an upload is its own until the row exists (`Drawn`), names lead to rows
(`Named`), between the two halves of a deletion the disk is clean (`Erased`), and
between the two halves of an upload no twin appears (`Stored`). From `Kept`:
`DeletedStaysGone`, `OneCopyEach`, `NamedBytesStay`, `NoOrphanWithoutCrash` and
`GalleryImplemented`, the refinement: `AddFile` and `AddIcon` are `Publish`,
`Write` and `Replace` are `Save`, `EraseRow` and the failures of a removal are
`Retire`, every other step stutters. `NoOrphanWithoutCrash` has the hypothesis that
the process does not die (`"crash" \notin Faults`): between the two steps of an
upload a crash does leave bytes without a row.

**`NavigationProofs`.** `Orderly` (`OrderlyInvariant`): what a request under the
mutex looked up in an earlier statement still holds when it writes — the group is
the account's (`Owned`), so is the item (`Present`), and the end that was computed is
behind everything in the destination (`Ahead`). No other writer runs, except the
first read of an account, which takes no mutex; it touches only a group that is new,
so no request can rely on it (`Steady`). What `CountGroups` found
still holds when `DeleteGroups` writes (`Counted`), and where transactions are
serializable nobody has committed a group since a first read found none (`Unseen`).
`NoItemIsLost`, `AGroupRemains`, `NothingVanishes` and `MovesAppend` hold in both
settings of `Serializable`. `FirstGroupIsOne` needs it to be TRUE, which is the
point: under MySQL two first reads may both create a group. That the end of a group
exists (`EndOfGroup`) is a fact about sets of numbers of any size.

**`AccountsProofs`.** `Typed` adds to `TypeOK` which kind of request is in which
stage. `AnAdminRemains` holds for any set of accounts, disabled ones included (TLC
checks none disabled: nothing in this version sets another status): the code counts
the remaining administrators in the transaction that removes or demotes. `Sound`
(`SoundInvariant`, `PasswordsHold`) adds `Born`: a session, or a login on its way,
is of an account whose row exists or existed; otherwise `Create` could give a
password to an account that has a session. `ChangesKnowThePassword` rests on
`StillKnown`: what a request verified stays true until it writes, because only the
command line changes passwords without the mutex.

**`AutoSaveProofs`.** `Faithful` (`FaithfulInvariant`): a save sends the draft it began
with, and what the client has given up is a stray (`Sends`); a form is saved once at
a time and stays dirty until the answer (`Saves`); what counts as saved is in the
form, the cache, the server and the answer of any read under way (`Stored`, which is
why a late read cannot bring back an old value); who has left waits for strays only
(`Gone`). From it `ShowsWhatIsStored`, `DraftsSurvive`, `NoticeIsHonest` and
`NothingLeftBehind`, for any number of forms and edits.

**`BackupImportProofs`.** `Once` (`OnceInvariant`): an id stands for one payload in the
page, in every call and in the table (`OneContent`); rows and receipt come together,
before any answer (`Together`); and a choice that has an id is sent again only under
that id (`OncePerChoice`). From it `AppliedOnce` and `NothingRefused`.

**`HomeCacheProofs`.** `Ours` (`OursInvariant`): only opened sessions are known
(`Opened`); a read belongs to the session of its query client, and its answer is about
that session's account if the session is in force (`AuthAnswered`, `DataAnswered`);
the binding and the copy that can be restored are of that account (`BoundIsOurs`,
`CopyIsWhose`); and once the code of the settings has arrived nothing restored is left
(`SettingsCleared`; the code of the route that is open, since an older page may be
shown before). From it `CachedStaysOurs`, `SettingsStayFresh` and
`SnapshotStaysOurs`.

**`HomePageProofs`.** `Known` (`KnownInvariant`): what is shown is older than the read
under way, and that than the server (`Aged`; `Older` orders states by what is born and
deleted in them); nobody writes on data that are missing or restored (`Untouched`);
what each call holds (`MovesKnown`, `CallsStored`) and what the editor's form keeps
(`EditorKeeps`). From it `ConfirmedStaysShown` and `EditsKeepMoves`.

**`WallpaperProofs`.** `Masked` (`MaskedInvariant`): a run that loads has an image and a
measured view (`Loading`); before its settings are there the page loads nothing
(`Waiting`); and the image of a result has been on the screen, unless its load failed
or the result arrived behind a refused page (`Unveiled`). From it `VeilComesFirst` and
`ReanalysisStays`. The strength of the veil is proved for any number of steps and
halvings: `PresetsAreLeast` by the invariant of the bisection (an unreadable strength
below a readable one, half as far apart after each halving), `CustomsHelp` by what
has been considered after each tone; `TheLeastVeil` is the invariant of the run.
Induction there is over the least element of a set of numbers (`LeastNat`, from the
library's `WFMin`), the powers of two come from counting subsets (`Doubling`), and
that the recursion of the search has a value is proved as well (`SearchExists`).

Only model-checked: the liveness properties `RequestsReturn`, `DraftResolves`,
`LeavingResolves` and `ShellResolves`. They depend on fairness and thus on ENABLED,
which the installed provers do not handle.

What the proofs changed in the models. In `HomePage` the items of a deleted group
could move into that very group, which the server refuses: their destination is
another group now. To delete or to order what is already gone changes nothing there
and succeeds, and a component that leaves the page takes its open editor or dialog
with it. `Wallpaper`'s
`Appearance` was a CASE whose arms overlap: the code tries them in order, TLC takes
the first, but in TLA+ the value is undetermined; it is a chain of IFs now.
`SaveSort` of `Navigation` counts the items of a request, so `RowAssumption` says that
they are finite.

## 6. Findings

- `files_embedded`: `checkLocalFilesOnce`
  (`src/service/api/api_v1/middleware/resource_mutation.go:66`) looks up only
  strings that begin with `/uploads/`. A custom style sheet or a footer that
  holds such a path inside a longer text is saved after the file was deleted,
  though `FindFileUsage` counts those paths as references and the comment at
  lines 23-24 says that such references are rejected.
- `accounts_reset`: the password reset of the command line
  (`src/service/initialize/app.go:196,200`) writes the password and revokes the
  sessions in two statements and drops the second one's error; the handbook
  (`src/handbook/05-data-design.md:5`) says that both succeed or roll back
  together. A failing second statement leaves the old sessions alive.

Met on the way and stated in the models rather than as a defect: a login that
read the account before its password changed creates a session afterwards
(`late`); under MySQL's default isolation two overlapping first reads may both
create a group; a favicon whose row cannot be created leaves its bytes; the page
of the backup draws a new id when the choice is changed and changed back. When the
browser refuses to write the snapshot, the former one stays, so that data the server
has refused since may be restored at the next visit, until they are read again;
`docs/frontend.zh-CN.md:19` promises their removal, but names a failing storage as
a return to the network (`SnapshotIsOurs` excepts such a copy, `old`). A session that ended while public mode
is on reads the public account's data and stores them in the snapshot until the
account itself is read again (`CachedIsOurs` speaks of sessions in force). An
item is saved as a whole, so its editor can undo an edit made elsewhere
(`EditKeepsMoves` covers the group).

Two of what was met contradict what the comments say, and bound what the properties
can claim:

- Settings with restored data. `Protected` (`src/src/app/App.tsx:130`) keeps the page
  it loaded last and compares only whether that page is the settings. The code of the
  settings arrives while the account is pending, the route changes to "/", the account
  arrives and the snapshot is restored, and the route changes back before the code of
  the home page arrives: the settings are rendered with the restored data.
  `clearUnverifiedHomeData` runs only when the promise of the settings' code resolves
  again (lines 94-97). That is soon, as the code is in memory, and from then on nothing
  restored is left, which is what `SettingsAreFresh` says; without its condition
  `~coming`, TLC finds this schedule. `src/src/lib/homeCache.ts:245` says that the
  settings read current values before an old snapshot can enter a form, and
  `docs/frontend.zh-CN.md:19` and `handbook/11-decisions.md:96` say the same.
- A wallpaper without its veil. `displayReady`
  (`src/src/features/home/useWallpaperAppearance.ts:275`) takes any result for the
  image for its mask. An image that was analyzed for settings without automatic
  contrast while the page was refused is shown bare when a refetch brings the page back
  with automatic contrast; so is one whose load has failed, at its next attempt. The
  comments at lines 219-220 and 273-274 and `docs/frontend.zh-CN.md:18` promise the
  mask first. `MaskComesFirst` names both exceptions and holds for every other image;
  without them TLC finds either.

## 7. What is abstracted

Contents are model values: an image is what its SHA-256 and size identify, a
password is compared and never hashed. Names, titles, URLs, profile fields and
JSON validation can only refuse a request, which `Fail` does without naming the
reason. Quotas and MIME checks likewise. The order of the groups
(`itemIconGroup/saveSort`) only permutes tabs. Ids are never used twice, as
auto-increment and `uuid` guarantee. "The first administrator" of the command
line is any administrator, because ids are not ordered. The query library's
`cancelQueries`, `invalidateQueries` and the router's blocker are external and
modelled from how the code uses them. Colors, pixels and canvas sizes are the
strength from which a veil makes every color readable, or the worst contrast at
each strength.

Not modelled: the icon draft of `ItemEditor` (uploads and favicons that end after
the icon was edited), the search box and its engine, frames, focus and the
clipboard; `Files.tsx`, `Users.tsx`, `Site.tsx`, `Docker.tsx` and the monitor,
which are tables, forms and polls around calls that other modules have; the
cache of system settings, the login rate limit, the queue (without a caller) and
the thumbnails. Of the account list only one tab's copy is modelled: another tab
that persists its own list may bring back an account that was forgotten.

## 8. Plan

Done, in this order:

1. `Gallery`, `FileStore`: the image gallery and the lock, with the refinement.
2. `Navigation`; 3. `AutoSave`, `BackupImport`; 4. `Accounts`.
5. `HomeCache`, `HomePage`, `Wallpaper`: the browser's session and snapshot, the
   navigation under overlapping reads and writes, the wallpaper.
6. Proofs of every safety property of these modules.

Left:

7. `SettingCache` (read, fill, write, invalidate as separate steps),
   `LoginRateLimit` (window and cleaner), `QueueMemory` (its locks),
   `Thumbnail` (build against removal).
8. A second tab in `HomeCache` that persists its own account list, and in
   `AutoSave` a revision the server could refuse strays by, if the code gets one.
