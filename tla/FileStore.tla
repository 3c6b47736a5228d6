----------------------------- MODULE FileStore -----------------------------
(***************************************************************************)
(* Uploaded images: their bytes on disk, their rows in the file table, and *)
(* the saved fields (icons, wallpapers, avatars, module configuration and  *)
(* the site setting) that name them.  Every request that writes a field,   *)
(* deletes a file or stores an upload runs under one process-wide mutex,   *)
(* mutationMu; a favicon download does not.  The request reads its input   *)
(* BEFORE it takes the mutex, and disk and table are not written in one    *)
(* transaction, so the interesting states lie between the steps below.     *)
(***************************************************************************)
EXTENDS FiniteSets

CONSTANTS
  Users,          \* accounts
  Admins,         \* the accounts with role 1
  Slots,          \* saved fields that can name an uploaded image
  SlotOwner,      \* the account a field belongs to, or Site
  EmbeddedSlots,  \* fields that hold the path inside a longer text (custom CSS)
  Files,          \* object keys: a path under uploads and its row
  Images,         \* image contents (what SHA-256 and size identify)
  Reqs,           \* requests that can be in flight at once
  Faults,         \* the failures considered: "crash"; "db", a query or an insert;
                  \* "disk", a write or a removal; "erase", the update of the
                  \* row of a file that is already gone
  None, Keep, Site

ASSUME SlotAssumption ==
  /\ Admins \subseteq Users
  /\ EmbeddedSlots \subseteq Slots
  /\ SlotOwner \in [Slots -> Users \cup {Site}]
  /\ Site \notin Users

ASSUME FaultAssumption == Faults \subseteq {"crash", "db", "disk", "erase"}

ASSUME NoneAssumption ==
  /\ None \notin Files \cup Images \cup Reqs \cup Users
  /\ Keep \notin Files \cup {None}

VARIABLES
  status,      \* status[f] of the row: "none" when there is no row
  owner,       \* owner[f]: the row's owner_id
  sha,         \* sha[f]: the content the row's fingerprint stands for
  purpose,     \* purpose[f]: "attachment" (gallery upload) or "icon" (favicon)
  bytes,       \* bytes[f]: the content on disk, None when the file is missing
  ref,         \* ref[s]: the image that field s names
  mutationMu,  \* the request that holds the mutex
  pc,          \* where each request is
  user,        \* the account a request was authenticated as
  img,         \* the content an upload or a download carries
  file,        \* the file a request is working on
  ids,         \* the files a delete or a replace names
  form         \* what a save writes to each field; Keep leaves it alone

rows == <<status, owner, sha, purpose>>
request == <<user, img, file, ids, form>>
vars == <<status, owner, sha, purpose, bytes, ref, mutationMu, pc,
          user, img, file, ids, form>>

Statuses == {"none", "active", "delete_failed", "deleted"}

\* Requests queue for the mutex in these states ...
Waiting == {"upload", "save", "delete", "replace"}

\* ... and hold it in these.
Locked == {"match", "stored", "check", "write", "scan", "remove", "erase", "swap"}

Granted == [w \in Waiting |->
              CASE w = "upload"  -> "match"
                [] w = "save"    -> "check"
                [] w = "delete"  -> "scan"
                [] w = "replace" -> "swap"]

Untouched == [s \in Slots |-> Keep]

Known == {f \in Files : status[f] # "none"}

\* A name no row, no file and no request uses: uuid.NewString never repeats.
Fresh == {f \in Files : /\ status[f] = "none"
                        /\ bytes[f] = None
                        /\ \A q \in Reqs : file[q] # f}

ReferencedByOwner(f) ==   \* mutant: other accounts' fields are not scanned
  \E s \in Slots : SlotOwner[s] = owner[f] /\ ref[s] = f

\* FindFileUsage scans every table, whoever owns the row.
Referenced(f) == \E s \in Slots : ref[s] = f

\* The fields a request of u may write.
Writable(u) == {s \in Slots : SlotOwner[s] = u \/ (SlotOwner[s] = Site /\ u \in Admins)}

Init ==
  /\ status = [f \in Files |-> "none"]
  /\ owner = [f \in Files |-> None]
  /\ sha = [f \in Files |-> None]
  /\ purpose = [f \in Files |-> None]
  /\ bytes = [f \in Files |-> None]
  /\ ref = [s \in Slots |-> None]
  /\ mutationMu = None
  /\ pc = [r \in Reqs |-> "idle"]
  /\ user = [r \in Reqs |-> None]
  /\ img = [r \in Reqs |-> None]
  /\ file = [r \in Reqs |-> None]
  /\ ids = [r \in Reqs |-> {}]
  /\ form = [r \in Reqs |-> Untouched]

(***************************************************************************)
(* Requests arrive.  Authentication and the reading of the body are over   *)
(* when the request starts to wait for the mutex.                          *)
(***************************************************************************)
Arrive(r, u, stage) ==
  /\ pc[r] = "idle"
  /\ pc' = [pc EXCEPT ![r] = stage]
  /\ user' = [user EXCEPT ![r] = u]
  /\ UNCHANGED <<rows, bytes, ref, mutationMu>>

\* PrepareUpload has fingerprinted the image.  Store draws the object key later;
\* drawing it here is not observable.
BeginUpload(r, u, i, f) ==
  /\ Arrive(r, u, "upload")
  /\ f \in Fresh
  /\ img' = [img EXCEPT ![r] = i]
  /\ file' = [file EXCEPT ![r] = f]
  /\ UNCHANGED <<ids, form>>

\* itemIcon edit and addMultiple, userConfig set and import, updateInfo and
\* moduleConfig save write the caller's own fields, siteSetting set the site's.
\* A browser may still hold the URL of a file deleted since.
BeginSave(r, u, S) ==
  /\ Arrive(r, u, "save")
  /\ S # {}
  /\ S \subseteq Writable(u)
  /\ \E v \in [S -> Known \cup {None}] :
       form' = [form EXCEPT ![r] = [s \in Slots |-> IF s \in S THEN v[s] ELSE Keep]]
  /\ UNCHANGED <<img, file, ids>>

\* users/deletes drops every row of the deleted account.
BeginDeleteUser(r, u, victim) ==
  /\ Arrive(r, u, "save")
  /\ u \in Admins
  /\ form' = [form EXCEPT ![r] =
                [s \in Slots |-> IF SlotOwner[s] = victim THEN None ELSE Keep]]
  /\ UNCHANGED <<img, file, ids>>

BeginDelete(r, u, S) ==
  /\ Arrive(r, u, "delete")
  /\ S # {}
  /\ ids' = [ids EXCEPT ![r] = S]
  /\ UNCHANGED <<img, file, form>>

BeginReplace(r, u, source, target) ==
  /\ Arrive(r, u, "replace")
  /\ source # target
  /\ ids' = [ids EXCEPT ![r] = {source}]
  /\ file' = [file EXCEPT ![r] = target]
  /\ UNCHANGED <<img, form>>

(***************************************************************************)
(* The mutex.                                                              *)
(***************************************************************************)
AcquireExceptUploads(r) ==    \* mutant: uploads do not share the mutex
  /\ pc[r] \in Waiting
  /\ mutationMu = None \/ pc[r] = "upload"
  /\ mutationMu' = r
  /\ pc' = [pc EXCEPT ![r] = Granted[pc[r]]]
  /\ UNCHANGED <<rows, bytes, ref, request>>

Acquire(r) ==
  /\ pc[r] \in Waiting
  /\ mutationMu = None
  /\ mutationMu' = r
  /\ pc' = [pc EXCEPT ![r] = Granted[pc[r]]]
  /\ UNCHANGED <<rows, bytes, ref, request>>

Forget(r) ==
  /\ pc' = [pc EXCEPT ![r] = "idle"]
  /\ user' = [user EXCEPT ![r] = None]
  /\ img' = [img EXCEPT ![r] = None]
  /\ file' = [file EXCEPT ![r] = None]
  /\ ids' = [ids EXCEPT ![r] = {}]
  /\ form' = [form EXCEPT ![r] = Untouched]

\* The handler returns: the deferred unlock runs whatever the outcome was.
Return(r) ==
  /\ Forget(r)
  /\ mutationMu' = None

\* The handler's validation or its transaction rejects the request, or a
\* query fails.
Fail(r) ==
  /\ \/ pc[r] \in {"write", "swap"}
     \/ pc[r] \in {"match", "check", "scan"} /\ "db" \in Faults
  /\ Return(r)
  /\ UNCHANGED <<rows, bytes, ref>>

(***************************************************************************)
(* storeUploadedImage: one gallery object per content and account.         *)
(***************************************************************************)
Reusable(r) == {f \in Files : /\ status[f] = "active"
                              /\ owner[f] = user[r]
                              /\ purpose[f] = "attachment"
                              /\ sha[f] = img[r]
                              /\ bytes[f] = img[r]}

Reuse(r) ==
  /\ pc[r] = "match"
  /\ Reusable(r) # {}
  /\ Return(r)
  /\ UNCHANGED <<rows, bytes, ref>>

Store(r) ==
  /\ pc[r] = "match"
  /\ Reusable(r) = {}
  /\ bytes' = [bytes EXCEPT ![file[r]] = img[r]]
  /\ pc' = [pc EXCEPT ![r] = "stored"]
  /\ UNCHANGED <<rows, ref, mutationMu, request>>

\* Writing fails half-way; the cleanup may fail as well and leave bytes behind.
StoreFails(r) ==
  /\ pc[r] = "match"
  /\ Reusable(r) = {}
  /\ "disk" \in Faults
  /\ \/ bytes' = [bytes EXCEPT ![file[r]] = img[r]]
     \/ UNCHANGED bytes
  /\ Return(r)
  /\ UNCHANGED <<rows, ref>>

InsertRow(r, kind) ==
  /\ status' = [status EXCEPT ![file[r]] = "active"]
  /\ owner' = [owner EXCEPT ![file[r]] = user[r]]
  /\ sha' = [sha EXCEPT ![file[r]] = img[r]]
  /\ purpose' = [purpose EXCEPT ![file[r]] = kind]
  /\ UNCHANGED <<bytes, ref>>

AddFile(r) ==
  /\ pc[r] = "stored"
  /\ InsertRow(r, "attachment")
  /\ Return(r)

AddFileFailsAlone(r) ==   \* mutant: the bytes stay
  /\ pc[r] = "stored"
  /\ "db" \in Faults
  /\ Return(r)
  /\ UNCHANGED <<rows, bytes, ref>>

\* The row could not be created: the stored bytes are removed again.
AddFileFails(r) ==
  /\ pc[r] = "stored"
  /\ "db" \in Faults
  /\ \/ bytes' = [bytes EXCEPT ![file[r]] = None]
     \/ "disk" \in Faults /\ UNCHANGED bytes
  /\ Return(r)
  /\ UNCHANGED <<rows, ref>>

(***************************************************************************)
(* GetSiteFavicon: the download and its row, without the mutex; when the   *)
(* row cannot be created nothing removes the bytes.                        *)
(***************************************************************************)
Download(r, u, i, f) ==
  /\ pc[r] = "idle"
  /\ f \in Fresh
  /\ bytes' = [bytes EXCEPT ![f] = i]
  /\ pc' = [pc EXCEPT ![r] = "fetched"]
  /\ user' = [user EXCEPT ![r] = u]
  /\ img' = [img EXCEPT ![r] = i]
  /\ file' = [file EXCEPT ![r] = f]
  /\ UNCHANGED <<rows, ref, mutationMu, ids, form>>

AddIcon(r) ==
  /\ pc[r] = "fetched"
  /\ InsertRow(r, "icon")
  /\ Forget(r)
  /\ UNCHANGED mutationMu

AddIconFails(r) ==
  /\ pc[r] = "fetched"
  /\ "db" \in Faults
  /\ Forget(r)
  /\ UNCHANGED <<rows, bytes, ref, mutationMu>>

(***************************************************************************)
(* Saves: checkLocalFiles under the mutex, then the handler's transaction. *)
(* Only a JSON string that starts with the uploads prefix is looked up, so *)
(* a path inside a longer text passes unseen.                              *)
(***************************************************************************)
StaleNamesDeleted(r) ==   \* mutant: only soft-deleted rows are stale
  {s \in Slots \ EmbeddedSlots :
     form[r][s] \in Files /\ status[form[r][s]] = "deleted"}

StaleNames(r) == {s \in Slots \ EmbeddedSlots :
                    form[r][s] \in Files /\ status[form[r][s]] # "active"}

CheckLocalFiles(r) ==
  /\ pc[r] = "check"
  /\ StaleNames(r) = {}
  /\ pc' = [pc EXCEPT ![r] = "write"]
  /\ UNCHANGED <<rows, bytes, ref, mutationMu, request>>

RejectStillLocked(r) ==   \* mutant: this return forgets the unlock
  /\ pc[r] = "check"
  /\ StaleNames(r) # {}
  /\ Forget(r)
  /\ UNCHANGED <<rows, bytes, ref, mutationMu>>

RejectStale(r) ==
  /\ pc[r] = "check"
  /\ StaleNames(r) # {}
  /\ Return(r)
  /\ UNCHANGED <<rows, bytes, ref>>

Write(r) ==
  /\ pc[r] = "write"
  /\ ref' = [s \in Slots |-> IF form[r][s] = Keep THEN ref[s] ELSE form[r][s]]
  /\ Return(r)
  /\ UNCHANGED <<rows, bytes>>

(***************************************************************************)
(* Deletes: one transaction picks the caller's active files and refuses    *)
(* the whole request when any of them is still named; then, outside it,    *)
(* each file loses its bytes and after that its row.                       *)
(***************************************************************************)
Deletable(r) == {f \in ids[r] : owner[f] = user[r] /\ status[f] = "active"}

Scan(r) ==
  /\ pc[r] = "scan"
  /\ \A f \in Deletable(r) : ~Referenced(f)
  /\ ids' = [ids EXCEPT ![r] = Deletable(r)]
  /\ pc' = [pc EXCEPT ![r] = "remove"]
  /\ UNCHANGED <<rows, bytes, ref, mutationMu, user, img, file, form>>

RefuseReferenced(r) ==
  /\ pc[r] = "scan"
  /\ \E f \in Deletable(r) : Referenced(f)
  /\ Return(r)
  /\ UNCHANGED <<rows, bytes, ref>>

\* Marking the row as delete_failed can fail too; its error is ignored.
MarkFailed(f) ==
  /\ \/ status' = [status EXCEPT ![f] = "delete_failed"]
     \/ "erase" \in Faults /\ UNCHANGED status
  /\ UNCHANGED <<owner, sha, purpose>>

RemoveBytes(r, f) ==
  /\ pc[r] = "remove"
  /\ f \in ids[r]
  /\ bytes' = [bytes EXCEPT ![f] = None]
  /\ file' = [file EXCEPT ![r] = f]
  /\ pc' = [pc EXCEPT ![r] = "erase"]
  /\ UNCHANGED <<rows, ref, mutationMu, user, img, ids, form>>

RemoveBytesFailsSilently(r, f) ==   \* mutant: the row goes all the same
  /\ pc[r] = "remove"
  /\ f \in ids[r]
  /\ "disk" \in Faults
  /\ file' = [file EXCEPT ![r] = f]
  /\ pc' = [pc EXCEPT ![r] = "erase"]
  /\ UNCHANGED <<rows, bytes, ref, mutationMu, user, img, ids, form>>

RemoveBytesFails(r, f) ==
  /\ pc[r] = "remove"
  /\ f \in ids[r]
  /\ "disk" \in Faults
  /\ MarkFailed(f)
  /\ ids' = [ids EXCEPT ![r] = @ \ {f}]
  /\ UNCHANGED <<bytes, ref, mutationMu, pc, user, img, file, form>>

NextFile(r) ==
  /\ ids' = [ids EXCEPT ![r] = @ \ {file[r]}]
  /\ file' = [file EXCEPT ![r] = None]
  /\ pc' = [pc EXCEPT ![r] = "remove"]
  /\ UNCHANGED <<bytes, ref, mutationMu, user, img, form>>

EraseRowAsOrphaned(r) ==  \* mutant: another status constant
  /\ pc[r] = "erase"
  /\ status' = [status EXCEPT ![file[r]] = "orphaned"]
  /\ UNCHANGED <<owner, sha, purpose>>
  /\ NextFile(r)

EraseRow(r) ==
  /\ pc[r] = "erase"
  /\ status' = [status EXCEPT ![file[r]] = "deleted"]
  /\ UNCHANGED <<owner, sha, purpose>>
  /\ NextFile(r)

EraseRowFails(r) ==
  /\ pc[r] = "erase"
  /\ "erase" \in Faults
  /\ MarkFailed(file[r])
  /\ NextFile(r)

ReportDeletes(r) ==
  /\ pc[r] = "remove"
  /\ ids[r] = {}
  /\ Return(r)
  /\ UNCHANGED <<rows, bytes, ref>>

(***************************************************************************)
(* Replace: in one transaction, every field of the caller (and of the site *)
(* for an administrator) that names the source names the target instead.   *)
(* Gallery uploads and favicons are public, so any active file may be the  *)
(* target.                                                                 *)
(***************************************************************************)
ReplaceByAny(r) ==        \* mutant: the target is not checked
  /\ pc[r] = "swap"
  /\ \E source \in ids[r] :
       /\ status[source] = "active"
       /\ owner[source] = user[r]
       /\ ref' = [s \in Slots |->
                    IF ref[s] = source /\ s \in Writable(user[r])
                    THEN file[r] ELSE ref[s]]
  /\ Return(r)
  /\ UNCHANGED <<rows, bytes>>

Replace(r) ==
  /\ pc[r] = "swap"
  /\ \E source \in ids[r] :
       /\ status[source] = "active"
       /\ owner[source] = user[r]
       /\ status[file[r]] = "active"
       /\ ref' = [s \in Slots |->
                    IF ref[s] = source /\ s \in Writable(user[r])
                    THEN file[r] ELSE ref[s]]
  /\ Return(r)
  /\ UNCHANGED <<rows, bytes>>

\* The process dies; only the disk and the database survive.
Crash ==
  /\ "crash" \in Faults
  /\ mutationMu' = None
  /\ pc' = [r \in Reqs |-> "idle"]
  /\ user' = [r \in Reqs |-> None]
  /\ img' = [r \in Reqs |-> None]
  /\ file' = [r \in Reqs |-> None]
  /\ ids' = [r \in Reqs |-> {}]
  /\ form' = [r \in Reqs |-> Untouched]
  /\ UNCHANGED <<rows, bytes, ref>>

(***************************************************************************)
(* The specification.                                                      *)
(***************************************************************************)
Begin(r) ==
  \E u \in Users :
    \/ \E i \in Images, f \in Files : BeginUpload(r, u, i, f) \/ Download(r, u, i, f)
    \/ \E S \in SUBSET Slots : BeginSave(r, u, S)
    \/ \E victim \in Users : BeginDeleteUser(r, u, victim)
    \/ \E S \in SUBSET Known : BeginDelete(r, u, S)
    \/ \E source, target \in Known : BeginReplace(r, u, source, target)

\* What a request does once it is in the server.
Step(r) ==
  \/ Acquire(r) \/ Fail(r)
  \/ Reuse(r) \/ Store(r) \/ StoreFails(r) \/ AddFile(r) \/ AddFileFails(r)
  \/ AddIcon(r) \/ AddIconFails(r)
  \/ CheckLocalFiles(r) \/ RejectStale(r) \/ Write(r)
  \/ Scan(r) \/ RefuseReferenced(r)
  \/ \E f \in Files : RemoveBytes(r, f) \/ RemoveBytesFails(r, f)
  \/ EraseRow(r) \/ EraseRowFails(r) \/ ReportDeletes(r)
  \/ Replace(r)

Next ==
  \/ \E r \in Reqs : Begin(r) \/ Step(r)
  \/ Crash

Spec == Init /\ [][Next]_vars

\* A handler keeps running, and a Go mutex passes to a waiter that has waited
\* for more than a millisecond, so no request waits for it for ever.
FairSpec ==
  /\ Spec
  /\ \A r \in Reqs : WF_vars(Step(r)) /\ SF_vars(Acquire(r))

-----------------------------------------------------------------------------
StoredTypes ==    \* the database and the disk
  /\ status \in [Files -> Statuses]
  /\ owner \in [Files -> Users \cup {None}]
  /\ sha \in [Files -> Images \cup {None}]
  /\ purpose \in [Files -> {"attachment", "icon", None}]
  /\ bytes \in [Files -> Images \cup {None}]
  /\ ref \in [Slots -> Files \cup {None}]

RequestTypes ==   \* the process
  /\ mutationMu \in Reqs \cup {None}
  /\ pc \in [Reqs -> {"idle", "fetched"} \cup Waiting \cup Locked]
  /\ user \in [Reqs -> Users \cup {None}]
  /\ img \in [Reqs -> Images \cup {None}]
  /\ file \in [Reqs -> Files \cup {None}]
  /\ ids \in [Reqs -> SUBSET Files]
  /\ form \in [Reqs -> [Slots -> Files \cup {None, Keep}]]

\* Every variable keeps its type.
TypeOK == StoredTypes /\ RequestTypes

\* One writer at a time: what CheckLocalFiles or Scan read is still true when
\* the same request writes.
MutualExclusion ==
  \A r, q \in Reqs : pc[r] \in Locked /\ pc[q] \in Locked => r = q

\* A saved field never names an image whose row is deleted or failed to delete,
\* however a save and a delete of the same image overlap
\* (ResourceMutation, checkLocalFiles, Deletes).
NoDanglingName ==
  \A s \in Slots \ EmbeddedSlots : ref[s] # None => status[ref[s]] = "active"

\* The same for every field, the ones that hold the path inside a longer text
\* included: FindFileUsage counts those as references too.
NoDanglingNameAnywhere ==
  \A s \in Slots : ref[s] # None => status[ref[s]] = "active"

\* No step, a crash included, takes away the bytes of an image a field names:
\* only an image without references is physically deleted.
NamedBytesAreKept ==
  [][\A s \in Slots : ref[s] # None /\ bytes[ref[s]] # None
                        => bytes'[ref[s]] = bytes[ref[s]]]_vars

\* Concurrent uploads of one image by one account end in one gallery object:
\* two intact active attachments of an account never have the same content.
OneCopyPerImage ==
  \A f, g \in Files :
    /\ status[f] = "active" /\ status[g] = "active"
    /\ purpose[f] = "attachment" /\ purpose[g] = "attachment"
    /\ owner[f] = owner[g] /\ sha[f] = sha[g]
    /\ bytes[f] = sha[f] /\ bytes[g] = sha[g]
    => f = g

\* An upload whose row cannot be created takes its bytes back, so a database
\* failure alone leaves no file that no row knows.
UploadLeavesNoOrphan ==
  [][\A r \in Reqs : pc[r] = "stored" /\ pc'[r] = "idle" /\ "disk" \notin Faults
       => status'[file[r]] = "active" \/ bytes'[file[r]] = None]_vars

\* A deleted row stands for a file that is gone, whatever failed on the way:
\* the disk is written before the table.
DeletedIsGone == \A f \in Files : status[f] = "deleted" => bytes[f] = None

\* Every request returns: the mutex is released on every path.
RequestsReturn == \A r \in Reqs : pc[r] # "idle" ~> pc[r] = "idle"

\* What the fields that are checked see of this module is the abstract gallery.
View ==
  INSTANCE Gallery WITH
    Slots <- Slots \ EmbeddedSlots,
    life <- [f \in Files |-> CASE status[f] = "none" -> "new"
                               [] status[f] = "active" -> "live"
                               [] OTHER -> "gone"],
    used <- [s \in Slots \ EmbeddedSlots |-> ref[s]]

\* FileStore implements the abstract gallery.
ImplementsGallery == View!Spec
=============================================================================
