-------------------------- MODULE FileStoreProofs --------------------------
(* Theorems about FileStore, for any accounts, fields, files and requests. *)
EXTENDS FileStore, TLAPS

USE SlotAssumption, NoneAssumption

\* What the mutex grants is a stage that holds it.
LEMMA GrantedStages ==
  ASSUME NEW w \in Waiting
  PROVE  Granted[w] \in Locked
BY DEF Granted, Waiting, Locked

\* A request that leaves the server leaves well-typed traces.
LEMMA ForgetTypes ==
  ASSUME RequestTypes, NEW r \in Reqs, Forget(r), mutationMu' \in {mutationMu, None}
  PROVE  RequestTypes'
BY DEF RequestTypes, Forget, Untouched

\* Steps that leave disk and table alone keep the stored types.
LEMMA StoredUnchanged ==
  ASSUME StoredTypes, UNCHANGED <<rows, bytes, ref>>
  PROVE  StoredTypes'
BY DEF StoredTypes, rows

\* Steps of a request that only move its program counter keep the request types.
LEMMA StageTypes ==
  ASSUME RequestTypes, NEW r \in Reqs,
         NEW stage \in {"idle", "fetched"} \cup Waiting \cup Locked,
         pc' = [pc EXCEPT ![r] = stage],
         mutationMu' \in {mutationMu, r},
         UNCHANGED request
  PROVE  RequestTypes'
BY DEF RequestTypes, request

-----------------------------------------------------------------------------
\* What the arrival of a request does to the types.
LEMMA BeginTypes ==
  ASSUME TypeOK, NEW r \in Reqs, Begin(r)
  PROVE  TypeOK'
<1> USE DEF TypeOK
<1> PICK u \in Users :
      \/ \E i \in Images, f \in Files : BeginUpload(r, u, i, f) \/ Download(r, u, i, f)
      \/ \E S \in SUBSET Slots : BeginSave(r, u, S)
      \/ \E victim \in Users : BeginDeleteUser(r, u, victim)
      \/ \E S \in SUBSET Known : BeginDelete(r, u, S)
      \/ \E source, target \in Known : BeginReplace(r, u, source, target)
  BY DEF Begin
<1>1. CASE \E i \in Images, f \in Files : BeginUpload(r, u, i, f)
  <2>1. StoredTypes' BY <1>1, StoredUnchanged DEF BeginUpload, Arrive
  <2>2. RequestTypes' BY <1>1 DEF BeginUpload, Arrive, Waiting, RequestTypes
  <2> QED BY <2>1, <2>2
<1>2. CASE \E i \in Images, f \in Files : Download(r, u, i, f)
  <2>1. StoredTypes' BY <1>2 DEF Download, StoredTypes, rows
  <2>2. RequestTypes' BY <1>2 DEF Download, RequestTypes
  <2> QED BY <2>1, <2>2
<1>3. CASE \E S \in SUBSET Slots : BeginSave(r, u, S)
  <2> PICK S \in SUBSET Slots : BeginSave(r, u, S)
    BY <1>3
  <2>1. StoredTypes' BY StoredUnchanged DEF BeginSave, Arrive
  <2> PICK v \in [S -> Known \cup {None}] :
        form' = [form EXCEPT ![r] = [s \in Slots |-> IF s \in S THEN v[s] ELSE Keep]]
    BY DEF BeginSave
  <2>2. [s \in Slots |-> IF s \in S THEN v[s] ELSE Keep] \in [Slots -> Files \cup {None, Keep}]
    BY DEF Known
  <2>3. RequestTypes' BY <2>2 DEF BeginSave, Arrive, Waiting, RequestTypes
  <2> QED BY <2>1, <2>3
<1>4. CASE \E victim \in Users : BeginDeleteUser(r, u, victim)
  <2>1. StoredTypes' BY <1>4, StoredUnchanged DEF BeginDeleteUser, Arrive
  <2>2. RequestTypes' BY <1>4 DEF BeginDeleteUser, Arrive, Waiting, RequestTypes
  <2> QED BY <2>1, <2>2
<1>5. CASE \E S \in SUBSET Known : BeginDelete(r, u, S)
  <2>1. StoredTypes' BY <1>5, StoredUnchanged DEF BeginDelete, Arrive
  <2>2. RequestTypes' BY <1>5 DEF BeginDelete, Arrive, Waiting, Known, RequestTypes
  <2> QED BY <2>1, <2>2
<1>6. CASE \E source, target \in Known : BeginReplace(r, u, source, target)
  <2>1. StoredTypes' BY <1>6, StoredUnchanged DEF BeginReplace, Arrive
  <2>2. RequestTypes' BY <1>6 DEF BeginReplace, Arrive, Waiting, Known, RequestTypes
  <2> QED BY <2>1, <2>2
<1> QED BY <1>1, <1>2, <1>3, <1>4, <1>5, <1>6

\* What a request in the server does to the types.
LEMMA StepTypes ==
  ASSUME TypeOK, NEW r \in Reqs, Step(r)
  PROVE  TypeOK'
<1> USE DEF TypeOK
<1>1. CASE Acquire(r)
  <2>1. StoredTypes' BY <1>1, StoredUnchanged DEF Acquire
  <2>2. RequestTypes' BY <1>1, StageTypes, GrantedStages DEF Acquire
  <2> QED BY <2>1, <2>2
<1>2. CASE Fail(r) \/ Reuse(r) \/ RejectStale(r) \/ RefuseReferenced(r) \/ ReportDeletes(r)
  <2>1. Return(r) /\ UNCHANGED <<rows, bytes, ref>>
    BY <1>2 DEF Fail, Reuse, RejectStale, RefuseReferenced, ReportDeletes
  <2> QED BY <2>1, ForgetTypes, StoredUnchanged DEF Return
<1>3. CASE Store(r)
  <2>1. StoredTypes' BY <1>3 DEF Store, StoredTypes, RequestTypes, rows
  <2>2. "stored" \in Locked BY DEF Locked
  <2>3. RequestTypes' BY <1>3, <2>2, StageTypes DEF Store
  <2> QED BY <2>1, <2>3
<1>4. CASE StoreFails(r) \/ AddFileFails(r)
  <2>1. StoredTypes' BY <1>4 DEF StoreFails, AddFileFails, StoredTypes, RequestTypes, rows
  <2>2. RequestTypes' BY <1>4, ForgetTypes DEF StoreFails, AddFileFails, Return
  <2> QED BY <2>1, <2>2
<1>5. CASE AddFile(r) \/ AddIcon(r)
  <2> PICK kind \in {"attachment", "icon"} : InsertRow(r, kind)
    BY <1>5 DEF AddFile, AddIcon
  <2>1. StoredTypes'
    <3>1. status' \in [Files -> Statuses]
      BY DEF InsertRow, StoredTypes, RequestTypes, Statuses
    <3> QED BY <3>1 DEF InsertRow, StoredTypes, RequestTypes
  <2>2. RequestTypes' BY <1>5, ForgetTypes DEF AddFile, AddIcon, Return
  <2> QED BY <2>1, <2>2
<1>6. CASE AddIconFails(r)
  BY <1>6, ForgetTypes, StoredUnchanged DEF AddIconFails
<1>7. CASE CheckLocalFiles(r)
  <2>1. "write" \in Locked BY DEF Locked
  <2> QED BY <1>7, <2>1, StageTypes, StoredUnchanged DEF CheckLocalFiles
<1>8. CASE Write(r)
  <2>1. StoredTypes' BY <1>8 DEF Write, StoredTypes, RequestTypes, rows
  <2>2. RequestTypes' BY <1>8, ForgetTypes DEF Write, Return
  <2> QED BY <2>1, <2>2
<1>9. CASE Scan(r)
  <2>1. StoredTypes' BY <1>9, StoredUnchanged DEF Scan
  <2>2. Deletable(r) \in SUBSET Files BY DEF Deletable, RequestTypes
  <2>3. RequestTypes' BY <1>9, <2>2 DEF Scan, Locked, RequestTypes
  <2> QED BY <2>1, <2>3
<1>10. CASE \E f \in Files : RemoveBytes(r, f) \/ RemoveBytesFails(r, f)
  <2> PICK f \in Files : RemoveBytes(r, f) \/ RemoveBytesFails(r, f)
    BY <1>10
  <2>1. StoredTypes'
    BY DEF RemoveBytes, RemoveBytesFails, MarkFailed, StoredTypes, Statuses, rows
  <2>2. ids[r] \ {f} \in SUBSET Files BY DEF RequestTypes
  <2>3. RequestTypes'
    <3>1. CASE RemoveBytes(r, f) BY <3>1 DEF RemoveBytes, Locked, RequestTypes
    <3>2. CASE RemoveBytesFails(r, f) BY <3>2, <2>2 DEF RemoveBytesFails, RequestTypes
    <3> QED BY <3>1, <3>2
  <2> QED BY <2>1, <2>3
<1>11. CASE EraseRow(r) \/ EraseRowFails(r)
  <2>1. StoredTypes'
    BY <1>11 DEF EraseRow, EraseRowFails, MarkFailed, NextFile, StoredTypes, Statuses
  <2>2. NextFile(r) BY <1>11 DEF EraseRow, EraseRowFails
  <2>3. ids[r] \ {file[r]} \in SUBSET Files BY DEF RequestTypes
  <2>4. RequestTypes' BY <2>2, <2>3 DEF NextFile, Locked, RequestTypes
  <2> QED BY <2>1, <2>4
<1>12. CASE Replace(r)
  <2>1. StoredTypes' BY <1>12 DEF Replace, StoredTypes, RequestTypes, rows
  <2>2. RequestTypes' BY <1>12, ForgetTypes DEF Replace, Return
  <2> QED BY <2>1, <2>2
<1> QED
  BY <1>1, <1>2, <1>3, <1>4, <1>5, <1>6, <1>7, <1>8, <1>9, <1>10, <1>11, <1>12 DEF Step

\* Every variable keeps its type.
THEOREM TypeCorrect == Spec => []TypeOK
<1>1. Init => TypeOK
  BY DEF Init, TypeOK, StoredTypes, RequestTypes, Statuses, Untouched
<1>2. TypeOK /\ [Next]_vars => TypeOK'
  <2> SUFFICES ASSUME TypeOK, [Next]_vars
               PROVE  TypeOK'
    OBVIOUS
  <2>1. CASE \E r \in Reqs : Begin(r) \/ Step(r)
    BY <2>1, BeginTypes, StepTypes
  <2>2. CASE Crash
    BY <2>2 DEF Crash, Untouched, TypeOK, StoredTypes, RequestTypes, rows
  <2>3. CASE UNCHANGED vars
    BY <2>3 DEF vars, TypeOK, StoredTypes, RequestTypes
  <2> QED BY <2>1, <2>2, <2>3 DEF Next
<1> QED BY <1>1, <1>2, PTL DEF Spec

-----------------------------------------------------------------------------
(***************************************************************************)
(* The mutex, and what a request knows while it holds it.                  *)
(***************************************************************************)
Held == \A r \in Reqs : pc[r] \in Locked => mutationMu = r

\* What CheckLocalFiles found is still true when the handler writes.
Checked ==
  \A r \in Reqs : pc[r] = "write" =>
    \A s \in Slots \ EmbeddedSlots :
      form[r][s] \in Files => status[form[r][s]] = "active"

\* What Scan found is still true while the files are removed one by one.
Doomed ==
  \A r \in Reqs : pc[r] \in {"remove", "erase"} =>
    /\ \A f \in ids[r] : status[f] = "active" /\ ~Referenced(f)
    /\ pc[r] = "erase" => file[r] \in ids[r]

Guarded == TypeOK /\ Held /\ Checked /\ Doomed /\ NoDanglingName

\* What every step of request r leaves to the others.
OthersKept(r) ==
  \A q \in Reqs \ {r} : /\ pc'[q] = pc[q]
                        /\ form'[q] = form[q]
                        /\ ids'[q] = ids[q]
                        /\ file'[q] = file[q]

\* The steps that need no mutex leave the fields alone, only ever make a file
\* active and do not lead into the stages Guarded speaks of.
LEMMA LockFree ==
  ASSUME TypeOK, NEW r \in Reqs,
         Begin(r) \/ Acquire(r) \/ AddIcon(r) \/ AddIconFails(r)
  PROVE  /\ OthersKept(r)
         /\ ref' = ref
         /\ \A f \in Files : status'[f] \in {status[f], "active"}
         /\ pc'[r] \notin {"write", "remove", "erase"}
         /\ pc'[r] \in Locked => mutationMu = None /\ mutationMu' = r
         /\ pc'[r] \notin Locked => mutationMu' = mutationMu
         /\ pc[r] \notin Locked
<1> USE DEF TypeOK, StoredTypes, RequestTypes, OthersKept, rows, request
<1>1. CASE Begin(r)
  <2> PICK u \in Users :
        \/ \E i \in Images, f \in Files : BeginUpload(r, u, i, f) \/ Download(r, u, i, f)
        \/ \E S \in SUBSET Slots : BeginSave(r, u, S)
        \/ \E victim \in Users : BeginDeleteUser(r, u, victim)
        \/ \E S \in SUBSET Known : BeginDelete(r, u, S)
        \/ \E source, target \in Known : BeginReplace(r, u, source, target)
    BY <1>1 DEF Begin
  <2>1. CASE \E i \in Images, f \in Files : BeginUpload(r, u, i, f) \/ Download(r, u, i, f)
    BY <2>1 DEF BeginUpload, Arrive, Download, Locked
  <2>2. CASE \E S \in SUBSET Slots : BeginSave(r, u, S)
    BY <2>2 DEF BeginSave, Arrive, Locked
  <2>3. CASE \E victim \in Users : BeginDeleteUser(r, u, victim)
    BY <2>3 DEF BeginDeleteUser, Arrive, Locked
  <2>4. CASE \E S \in SUBSET Known : BeginDelete(r, u, S)
    BY <2>4 DEF BeginDelete, Arrive, Locked
  <2>5. CASE \E source, target \in Known : BeginReplace(r, u, source, target)
    BY <2>5 DEF BeginReplace, Arrive, Locked
  <2> QED BY <2>1, <2>2, <2>3, <2>4, <2>5
<1>2. CASE Acquire(r)
  BY <1>2 DEF Acquire, Granted, Waiting, Locked
<1>3. CASE AddIcon(r)
  BY <1>3 DEF AddIcon, InsertRow, Forget, Locked
<1>4. CASE AddIconFails(r)
  BY <1>4 DEF AddIconFails, Forget, Locked
<1> QED BY <1>1, <1>2, <1>3, <1>4

LockedStep(r) ==
  \/ Fail(r) \/ Reuse(r) \/ Store(r) \/ StoreFails(r) \/ AddFile(r) \/ AddFileFails(r)
  \/ CheckLocalFiles(r) \/ RejectStale(r) \/ Write(r)
  \/ Scan(r) \/ RefuseReferenced(r)
  \/ \E f \in Files : RemoveBytes(r, f) \/ RemoveBytesFails(r, f)
  \/ EraseRow(r) \/ EraseRowFails(r) \/ ReportDeletes(r)
  \/ Replace(r)

\* All other steps are taken with the mutex, which is kept or given back.
LEMMA LockedFrame ==
  ASSUME TypeOK, NEW r \in Reqs, LockedStep(r)
  PROVE  /\ OthersKept(r)
         /\ pc[r] \in Locked
         /\ \/ pc'[r] \in Locked /\ mutationMu' = mutationMu
            \/ pc'[r] = "idle" /\ mutationMu' = None
<1> USE DEF TypeOK, StoredTypes, RequestTypes, OthersKept, request, Locked, Return, Forget
<1>1. CASE Fail(r) \/ Reuse(r) \/ RejectStale(r) \/ RefuseReferenced(r) \/ ReportDeletes(r)
  BY <1>1 DEF Fail, Reuse, RejectStale, RefuseReferenced, ReportDeletes
<1>2. CASE Store(r) \/ StoreFails(r) \/ AddFile(r) \/ AddFileFails(r)
  BY <1>2 DEF Store, StoreFails, AddFile, AddFileFails
<1>3. CASE CheckLocalFiles(r) \/ Write(r) \/ Replace(r)
  BY <1>3 DEF CheckLocalFiles, Write, Replace
<1>4. CASE Scan(r)
  BY <1>4 DEF Scan
<1>5. CASE \E f \in Files : RemoveBytes(r, f) \/ RemoveBytesFails(r, f)
  BY <1>5 DEF RemoveBytes, RemoveBytesFails
<1>6. CASE EraseRow(r) \/ EraseRowFails(r)
  BY <1>6 DEF EraseRow, EraseRowFails, NextFile
<1> QED BY <1>1, <1>2, <1>3, <1>4, <1>5, <1>6 DEF LockedStep

\* Only its holder is in a stage under the mutex, whatever another request does.
LEMMA HeldStep ==
  ASSUME TypeOK, Held, NEW r \in Reqs, Begin(r) \/ Step(r)
  PROVE  Held'
<1>1. CASE Begin(r) \/ Acquire(r) \/ AddIcon(r) \/ AddIconFails(r)
  BY <1>1, LockFree DEF Held, OthersKept
<1>2. CASE LockedStep(r)
  BY <1>2, LockedFrame DEF Held, OthersKept, Locked
<1> QED BY <1>1, <1>2 DEF Step, LockedStep

\* A step that holds the mutex disturbs only what its own request knows.
LEMMA OnlyMine ==
  ASSUME TypeOK, Held, NEW r \in Reqs, LockedStep(r), NEW q \in Reqs, pc'[q] \in Locked
  PROVE  q = r
BY LockedFrame DEF Held, OthersKept

\* A step without the mutex keeps all that the holder knows.
LEMMA LockFreeGuarded ==
  ASSUME Guarded, NEW r \in Reqs,
         Begin(r) \/ Acquire(r) \/ AddIcon(r) \/ AddIconFails(r)
  PROVE  Checked' /\ Doomed' /\ NoDanglingName'
<1> USE DEF Guarded, TypeOK
<1>1. /\ OthersKept(r)
      /\ ref' = ref
      /\ \A f \in Files : status'[f] \in {status[f], "active"}
      /\ pc'[r] \notin {"write", "remove", "erase"}
  BY LockFree
<1>2. Checked'
  BY <1>1 DEF Checked, OthersKept
<1>3. Doomed'
  <2> SUFFICES ASSUME NEW q \in Reqs, pc'[q] \in {"remove", "erase"}
               PROVE  /\ \A f \in ids'[q] : status'[f] = "active" /\ ~Referenced(f)'
                      /\ pc'[q] = "erase" => file'[q] \in ids'[q]
    BY DEF Doomed
  <2>1. pc'[q] = pc[q] /\ ids'[q] = ids[q] /\ file'[q] = file[q]
    BY <1>1 DEF OthersKept
  <2>2. ids[q] \subseteq Files
    BY DEF RequestTypes
  <2>3. /\ \A f \in ids[q] : status[f] = "active" /\ ~Referenced(f)
        /\ pc[q] = "erase" => file[q] \in ids[q]
    BY <2>1 DEF Doomed
  <2>4. \A f \in Files : Referenced(f)' = Referenced(f)
    BY <1>1 DEF Referenced
  <2> QED BY <1>1, <2>1, <2>2, <2>3, <2>4
<1>4. NoDanglingName'
  BY <1>1 DEF NoDanglingName, StoredTypes
<1> QED BY <1>2, <1>3, <1>4

\* Nor does a step with the mutex disturb it, the writes included.
LEMMA LockedGuarded ==
  ASSUME Guarded, NEW r \in Reqs, LockedStep(r)
  PROVE  Checked' /\ Doomed' /\ NoDanglingName'
<1> USE DEF Guarded, TypeOK
<1>a. \A q \in Reqs : pc'[q] \in {"write", "remove", "erase"} => q = r
  BY OnlyMine DEF Locked
<1>1. CASE Fail(r) \/ Reuse(r) \/ RejectStale(r) \/ RefuseReferenced(r) \/ ReportDeletes(r)
  <2>1. pc'[r] = "idle" /\ UNCHANGED <<status, ref>>
    BY <1>1 DEF Fail, Reuse, RejectStale, RefuseReferenced, ReportDeletes, Return, Forget,
                RequestTypes, rows
  <2> QED BY <1>a, <2>1 DEF Checked, Doomed, NoDanglingName
<1>2. CASE Store(r) \/ StoreFails(r) \/ AddFileFails(r)
  <2>1. pc'[r] \in {"idle", "stored"} /\ UNCHANGED <<status, ref>>
    BY <1>2 DEF Store, StoreFails, AddFileFails, Return, Forget, RequestTypes, rows
  <2> QED BY <1>a, <2>1 DEF Checked, Doomed, NoDanglingName
<1>3. CASE AddFile(r)
  <2>1. pc'[r] = "idle" /\ ref' = ref
    BY <1>3 DEF AddFile, InsertRow, Return, Forget, RequestTypes
  <2>2. \A f \in Files : status'[f] \in {status[f], "active"}
    BY <1>3 DEF AddFile, InsertRow, StoredTypes
  <2>3. NoDanglingName' BY <2>1, <2>2 DEF NoDanglingName, StoredTypes
  <2> QED BY <1>a, <2>1, <2>3 DEF Checked, Doomed
<1>4. CASE CheckLocalFiles(r)
  <2>1. pc'[r] = "write" /\ UNCHANGED <<status, ref, form>>
    BY <1>4 DEF CheckLocalFiles, RequestTypes, rows, request
  <2>2. Checked' BY <1>a, <1>4, <2>1 DEF Checked, CheckLocalFiles, StaleNames
  <2>3. Doomed' BY <1>a, <2>1 DEF Doomed
  <2>4. NoDanglingName' BY <2>1 DEF NoDanglingName
  <2> QED BY <2>2, <2>3, <2>4
<1>5. CASE Write(r)
  <2>1. /\ pc[r] = "write"
        /\ pc'[r] = "idle"
        /\ status' = status
        /\ ref' = [s \in Slots |-> IF form[r][s] = Keep THEN ref[s] ELSE form[r][s]]
    BY <1>5 DEF Write, Return, Forget, RequestTypes, rows
  <2>2. NoDanglingName'
    <3> SUFFICES ASSUME NEW s \in Slots \ EmbeddedSlots, ref'[s] # None
                 PROVE  status[ref'[s]] = "active"
      BY <2>1 DEF NoDanglingName
    <3>1. CASE form[r][s] = Keep BY <2>1, <3>1 DEF NoDanglingName
    <3>2. CASE form[r][s] # Keep
      <4>1. form[r][s] \in Files BY <2>1, <3>2 DEF RequestTypes
      <4> QED BY <2>1, <3>2, <4>1 DEF Checked
    <3> QED BY <3>1, <3>2
  <2> QED BY <1>a, <2>1, <2>2 DEF Checked, Doomed
<1>6. CASE Scan(r)
  <2>1. /\ pc'[r] = "remove"
        /\ UNCHANGED <<status, ref>>
        /\ ids'[r] = Deletable(r)
        /\ \A f \in Deletable(r) : ~Referenced(f)
    BY <1>6 DEF Scan, RequestTypes, rows
  <2>2. Doomed' BY <1>a, <2>1 DEF Doomed, Deletable, Referenced
  <2> QED BY <1>a, <2>1, <2>2 DEF Checked, NoDanglingName
<1>7. CASE \E f \in Files : RemoveBytes(r, f)
  <2> PICK f \in Files : RemoveBytes(r, f)
    BY <1>7
  <2>1. /\ pc[r] = "remove"
        /\ f \in ids[r]
        /\ file'[r] = f
        /\ pc'[r] = "erase"
        /\ UNCHANGED <<status, ref, ids>>
    BY DEF RemoveBytes, RequestTypes, rows
  <2>2. Doomed' BY <1>a, <2>1 DEF Doomed, Referenced
  <2> QED BY <1>a, <2>1, <2>2 DEF Checked, NoDanglingName
<1>8. CASE \E f \in Files : RemoveBytesFails(r, f)
  <2> PICK f \in Files : RemoveBytesFails(r, f)
    BY <1>8
  <2>1. /\ pc[r] = "remove"
        /\ pc' = pc
        /\ f \in ids[r]
        /\ ids'[r] = ids[r] \ {f}
        /\ ref' = ref
        /\ \A g \in Files \ {f} : status'[g] = status[g]
    BY DEF RemoveBytesFails, MarkFailed, RequestTypes, StoredTypes
  <2>2. ~Referenced(f) BY <2>1 DEF Doomed
  <2>3. Doomed' BY <1>a, <2>1 DEF Doomed, Referenced, RequestTypes
  <2>4. NoDanglingName' BY <2>1, <2>2 DEF NoDanglingName, Referenced, StoredTypes
  <2> QED BY <1>a, <2>1, <2>3, <2>4 DEF Checked
<1>9. CASE EraseRow(r) \/ EraseRowFails(r)
  <2>1. /\ pc[r] = "erase"
        /\ pc'[r] = "remove"
        /\ ids'[r] = ids[r] \ {file[r]}
        /\ ref' = ref
        /\ \A g \in Files \ {file[r]} : status'[g] = status[g]
    BY <1>9 DEF EraseRow, EraseRowFails, MarkFailed, NextFile, RequestTypes, StoredTypes
  <2>2. ~Referenced(file[r]) BY <2>1 DEF Doomed
  <2>3. Doomed' BY <1>a, <2>1 DEF Doomed, Referenced, RequestTypes
  <2>4. NoDanglingName' BY <2>1, <2>2 DEF NoDanglingName, Referenced, StoredTypes
  <2> QED BY <1>a, <2>1, <2>3, <2>4 DEF Checked
<1>10. CASE Replace(r)
  <2>1. /\ pc'[r] = "idle"
        /\ status' = status
        /\ status[file[r]] = "active"
        /\ \A s \in Slots : ref'[s] \in {ref[s], file[r]}
    BY <1>10 DEF Replace, Return, Forget, RequestTypes, rows
  <2>2. NoDanglingName' BY <2>1 DEF NoDanglingName
  <2> QED BY <1>a, <2>1, <2>2 DEF Checked, Doomed
<1> QED
  BY <1>1, <1>2, <1>3, <1>4, <1>5, <1>6, <1>7, <1>8, <1>9, <1>10 DEF LockedStep

\* Nothing is stored, named or under way at first.
LEMMA GuardedInit ==
  ASSUME Init
  PROVE  Guarded
<1>1. TypeOK
  BY DEF Init, TypeOK, StoredTypes, RequestTypes, Statuses, Untouched
<1>2. Held /\ Checked /\ Doomed /\ NoDanglingName
  BY DEF Init, Held, Locked, Checked, Doomed, NoDanglingName
<1> QED BY <1>1, <1>2 DEF Guarded

\* Every step keeps what the writers rely on.
LEMMA GuardedNext ==
  ASSUME Guarded, [Next]_vars
  PROVE  Guarded'
<1>1. ASSUME NEW r \in Reqs, Begin(r) \/ Step(r)
      PROVE  Guarded'
  <2>1. TypeOK' BY <1>1, BeginTypes, StepTypes DEF Guarded
  <2>2. Held' BY <1>1, HeldStep DEF Guarded
  <2>3. Checked' /\ Doomed' /\ NoDanglingName'
    BY <1>1, LockFreeGuarded, LockedGuarded DEF Step, LockedStep
  <2> QED BY <2>1, <2>2, <2>3 DEF Guarded
<1>2. CASE Crash
  <2>1. TypeOK'
    BY <1>2 DEF Guarded, Crash, Untouched, TypeOK, StoredTypes, RequestTypes, rows
  <2>2. Held' /\ Checked' /\ Doomed' /\ NoDanglingName'
    BY <1>2 DEF Guarded, Crash, Held, Locked, Checked, Doomed, NoDanglingName, rows
  <2> QED BY <2>1, <2>2 DEF Guarded
<1>3. CASE UNCHANGED vars
  BY <1>3 DEF vars, Guarded, TypeOK, StoredTypes, RequestTypes, Held, Checked, Doomed,
              NoDanglingName, Referenced
<1> QED BY <1>1, <1>2, <1>3 DEF Next

\* The inductive invariant behind the two theorems below.
THEOREM GuardedInvariant == Spec => []Guarded
BY GuardedInit, GuardedNext, PTL DEF Spec

\* At most one request is between its lock and its unlock.
THEOREM MutexExcludes == Spec => []MutualExclusion
<1>1. Guarded => MutualExclusion
  BY DEF Guarded, Held, MutualExclusion
<1> QED BY <1>1, GuardedInvariant, PTL

\* A saved field never names an image that is deleted or failed to delete.
THEOREM NoNameDangles == Spec => []NoDanglingName
<1>1. Guarded => NoDanglingName
  BY DEF Guarded
<1> QED BY <1>1, GuardedInvariant, PTL

-----------------------------------------------------------------------------
(***************************************************************************)
(* The bytes on disk and their rows.                                       *)
(***************************************************************************)
Drawing == {"upload", "match", "stored", "fetched"}

\* The object key of an upload or a download is its own until the row exists.
Drawn ==
  \A r \in Reqs : pc[r] \in Drawing =>
    /\ user[r] \in Users
    /\ img[r] \in Images
    /\ file[r] \in Files \ Known
    /\ \A q \in Reqs \ {r} : file[q] # file[r]

\* Names lead to rows: a soft-deleted row stays.
Named ==
  /\ \A s \in Slots : ref[s] # None => ref[s] \in Known
  /\ \A r \in Reqs, s \in Slots : form[r][s] \in Files => form[r][s] \in Known

\* The fingerprint of a row is one of an image.
Described == \A f \in Known : sha[f] \in Images

\* Between the two halves of a deletion the disk is already clean.
Erased == \A r \in Reqs : pc[r] = "erase" => bytes[file[r]] = None

\* Between the two halves of an upload no twin appears.
Stored == \A r \in Reqs : pc[r] = "stored" => bytes[file[r]] = img[r] /\ Reusable(r) = {}

Kept ==
  /\ Guarded
  /\ Drawn /\ Named /\ Described /\ Erased /\ Stored /\ DeletedIsGone /\ OneCopyPerImage

\* What every step of request r leaves to the others, their uploads included.
OthersUntouched(r) ==
  OthersKept(r) /\ \A q \in Reqs \ {r} : user'[q] = user[q] /\ img'[q] = img[q]

\* No step forgets a row, and only a request that has drawn a file gives it one.
RowsEffect(r) ==
  \A f \in Files :
    /\ f \in Known =>
         /\ status'[f] # "none"
         /\ owner'[f] = owner[f] /\ sha'[f] = sha[f] /\ purpose'[f] = purpose[f]
         /\ status'[f] = "active" => status[f] = "active"
         /\ status'[f] = "deleted" => status[f] = "deleted" \/ (pc[r] = "erase" /\ f = file[r])
    /\ f \notin Known /\ status'[f] # "none" =>
         /\ pc[r] \in {"stored", "fetched"} /\ pc'[r] = "idle"
         /\ f = file[r]
         /\ status'[f] = "active" /\ owner'[f] = user[r] /\ sha'[f] = img[r]
         /\ purpose'[f] = IF pc[r] = "stored" THEN "attachment" ELSE "icon"

\* Bytes are written where no row is, and removed by a deletion that holds the file.
BytesEffect(r) ==
  \A f \in Files : bytes'[f] # bytes[f] =>
    \/ f \notin Known /\ status' = status
    \/ bytes'[f] = None /\ pc[r] = "remove" /\ f \in ids[r]

\* The file a request works on is its own, a new one, or one with a row.
FileEffect(r) ==
  /\ file'[r] \in {None, file[r]} \cup Known \cup Fresh
  /\ pc'[r] \in Drawing =>
       \/ /\ pc[r] \in Drawing
          /\ file'[r] = file[r] /\ user'[r] = user[r] /\ img'[r] = img[r]
       \/ file'[r] \in Fresh /\ user'[r] \in Users /\ img'[r] \in Images

\* What a save will write comes from rows that exist.
NamesEffect(r) ==
  /\ \A s \in Slots : form'[r][s] \in Known \cup {None, Keep, form[r][s]}
  /\ \A s \in Slots : \/ ref'[s] \in {ref[s], None}
                      \/ ref'[s] \in Files /\ ref'[s] = form[r][s]
                      \/ ref'[s] \in Known

\* What the arrival of a request does to disk and table: a download writes bytes.
LEMMA BeginEffects ==
  ASSUME TypeOK, NEW r \in Reqs, Begin(r)
  PROVE  /\ OthersUntouched(r)
         /\ UNCHANGED rows
         /\ RowsEffect(r) /\ BytesEffect(r) /\ FileEffect(r) /\ NamesEffect(r)
         /\ pc'[r] \in Waiting \cup {"fetched"}
<1> USE DEF TypeOK, StoredTypes, RequestTypes, OthersUntouched, OthersKept, rows
<1> PICK u \in Users :
      \/ \E i \in Images, f \in Files : BeginUpload(r, u, i, f) \/ Download(r, u, i, f)
      \/ \E S \in SUBSET Slots : BeginSave(r, u, S)
      \/ \E victim \in Users : BeginDeleteUser(r, u, victim)
      \/ \E S \in SUBSET Known : BeginDelete(r, u, S)
      \/ \E source, target \in Known : BeginReplace(r, u, source, target)
  BY DEF Begin
<1>1. CASE \E i \in Images, f \in Files : BeginUpload(r, u, i, f)
  BY <1>1 DEF BeginUpload, Arrive, RowsEffect, BytesEffect, FileEffect, NamesEffect,
              Waiting, Drawing, Known
<1>2. CASE \E i \in Images, f \in Files : Download(r, u, i, f)
  BY <1>2 DEF Download, RowsEffect, BytesEffect, FileEffect, NamesEffect,
              Waiting, Drawing, Known, Fresh
<1>3. CASE \E S \in SUBSET Slots : BeginSave(r, u, S)
  <2> PICK S \in SUBSET Slots : BeginSave(r, u, S)
    BY <1>3
  <2> PICK v \in [S -> Known \cup {None}] :
        form' = [form EXCEPT ![r] = [s \in Slots |-> IF s \in S THEN v[s] ELSE Keep]]
    BY DEF BeginSave
  <2>1. NamesEffect(r)
    BY DEF BeginSave, Arrive, NamesEffect
  <2> QED
    BY <2>1 DEF BeginSave, Arrive, RowsEffect, BytesEffect, FileEffect, Waiting, Drawing, Known
<1>4. CASE \E victim \in Users : BeginDeleteUser(r, u, victim)
  BY <1>4 DEF BeginDeleteUser, Arrive, RowsEffect, BytesEffect, FileEffect, NamesEffect,
              Waiting, Drawing, Known
<1>5. CASE \E S \in SUBSET Known : BeginDelete(r, u, S)
  BY <1>5 DEF BeginDelete, Arrive, RowsEffect, BytesEffect, FileEffect, NamesEffect,
              Waiting, Drawing, Known
<1>6. CASE \E source, target \in Known : BeginReplace(r, u, source, target)
  BY <1>6 DEF BeginReplace, Arrive, RowsEffect, BytesEffect, FileEffect, NamesEffect,
              Waiting, Drawing, Known
<1> QED BY <1>1, <1>2, <1>3, <1>4, <1>5, <1>6

\* What a request in the server does to them.
LEMMA StepEffects ==
  ASSUME Guarded, Drawn, NEW r \in Reqs, Step(r)
  PROVE  /\ OthersUntouched(r)
         /\ RowsEffect(r) /\ BytesEffect(r) /\ FileEffect(r) /\ NamesEffect(r)
<1> USE DEF Guarded, TypeOK, StoredTypes, RequestTypes, OthersUntouched, OthersKept, rows, request
<1>1. CASE Acquire(r)
  BY <1>1 DEF Acquire, Granted, Waiting, RowsEffect, BytesEffect, FileEffect, NamesEffect,
              Drawing, Known
<1>2. CASE Fail(r) \/ Reuse(r) \/ RejectStale(r) \/ RefuseReferenced(r) \/ ReportDeletes(r)
              \/ AddIconFails(r)
  <2>1. Forget(r) /\ UNCHANGED <<rows, bytes, ref>>
    BY <1>2 DEF Fail, Reuse, RejectStale, RefuseReferenced, ReportDeletes, AddIconFails, Return
  <2> QED
    BY <2>1 DEF Forget, Untouched, RowsEffect, BytesEffect, FileEffect, NamesEffect, Drawing, Known
<1>3. CASE Store(r)
  <2>1. file[r] \in Files \ Known
    BY <1>3 DEF Store, Drawn, Drawing
  <2> QED
    BY <1>3, <2>1 DEF Store, RowsEffect, BytesEffect, FileEffect, NamesEffect, Drawing, Known
<1>4. CASE StoreFails(r) \/ AddFileFails(r)
  <2>1. file[r] \in Files \ Known
    BY <1>4 DEF StoreFails, AddFileFails, Drawn, Drawing
  <2>2. /\ Forget(r) /\ UNCHANGED <<rows, ref>>
        /\ \A f \in Files \ {file[r]} : bytes'[f] = bytes[f]
    BY <1>4 DEF StoreFails, AddFileFails, Return
  <2> QED
    BY <2>1, <2>2 DEF Forget, Untouched, RowsEffect, BytesEffect, FileEffect, NamesEffect,
                      Drawing, Known
<1>5. CASE AddFile(r) \/ AddIcon(r)
  <2> PICK kind \in {"attachment", "icon"} : InsertRow(r, kind)
    BY <1>5 DEF AddFile, AddIcon
  <2>1. file[r] \in Files \ Known /\ pc[r] \in {"stored", "fetched"} /\ Forget(r)
    BY <1>5 DEF AddFile, AddIcon, Drawn, Drawing, Return
  <2>2. purpose'[file[r]] = IF pc[r] = "stored" THEN "attachment" ELSE "icon"
    BY <1>5, <2>1 DEF AddFile, AddIcon, InsertRow
  <2>3. pc'[r] = "idle"
    BY <2>1 DEF Forget
  <2>4. RowsEffect(r)
    BY <2>1, <2>2, <2>3 DEF InsertRow, RowsEffect, Known
  <2> QED
    BY <2>1, <2>4 DEF InsertRow, Forget, Untouched, BytesEffect, FileEffect, NamesEffect, Drawing, Known
<1>6. CASE CheckLocalFiles(r)
  BY <1>6 DEF CheckLocalFiles, RowsEffect, BytesEffect, FileEffect, NamesEffect, Drawing, Known
<1>7. CASE Write(r)
  BY <1>7 DEF Write, Return, Forget, Untouched, RowsEffect, BytesEffect, FileEffect, NamesEffect,
              Drawing, Known
<1>8. CASE Scan(r)
  BY <1>8 DEF Scan, RowsEffect, BytesEffect, FileEffect, NamesEffect, Drawing, Known
<1>9. CASE \E f \in Files : RemoveBytes(r, f)
  <2> PICK f \in Files : RemoveBytes(r, f)
    BY <1>9
  <2>1. f \in Known
    BY DEF RemoveBytes, Doomed, Known
  <2> QED
    BY <2>1 DEF RemoveBytes, RowsEffect, BytesEffect, FileEffect, NamesEffect, Drawing, Known
<1>10. CASE \E f \in Files : RemoveBytesFails(r, f)
  <2> PICK f \in Files : RemoveBytesFails(r, f)
    BY <1>10
  <2>1. f \in Known
    BY DEF RemoveBytesFails, Doomed, Known
  <2>2. RowsEffect(r)
    BY <2>1 DEF RemoveBytesFails, MarkFailed, RowsEffect, Known
  <2> QED
    BY <2>2 DEF RemoveBytesFails, BytesEffect, FileEffect, NamesEffect, Drawing, Known
<1>11. CASE EraseRow(r) \/ EraseRowFails(r)
  <2>1. NextFile(r) /\ pc[r] = "erase"
    BY <1>11 DEF EraseRow, EraseRowFails
  <2>2. file[r] \in Known
    BY <2>1 DEF Doomed, Known
  <2>3. RowsEffect(r)
    BY <1>11, <2>2 DEF EraseRow, EraseRowFails, MarkFailed, RowsEffect, Known
  <2> QED
    BY <2>1, <2>3 DEF NextFile, BytesEffect, FileEffect, NamesEffect, Drawing, Known
<1>12. CASE Replace(r)
  BY <1>12 DEF Replace, Return, Forget, Untouched, RowsEffect, BytesEffect, FileEffect, NamesEffect,
              Drawing, Known
<1> QED
  BY <1>1, <1>2, <1>3, <1>4, <1>5, <1>6, <1>7, <1>8, <1>9, <1>10, <1>11, <1>12 DEF Step

\* Both together.
LEMMA Effects ==
  ASSUME Guarded, Drawn, NEW r \in Reqs, Begin(r) \/ Step(r)
  PROVE  /\ OthersUntouched(r)
         /\ RowsEffect(r) /\ BytesEffect(r) /\ FileEffect(r) /\ NamesEffect(r)
BY BeginEffects, StepEffects DEF Guarded

\* A drawn file stays its request's own: no other step gives it a row or takes it.
LEMMA DrawnStep ==
  ASSUME Guarded, Drawn, NEW r \in Reqs, Begin(r) \/ Step(r)
  PROVE  Drawn'
<1> USE DEF Guarded, TypeOK
<1>e. OthersUntouched(r) /\ RowsEffect(r) /\ FileEffect(r) /\ TypeOK'
  BY Effects, BeginTypes, StepTypes
<1> SUFFICES ASSUME NEW q \in Reqs, pc'[q] \in Drawing
             PROVE  /\ user'[q] \in Users
                    /\ img'[q] \in Images
                    /\ file'[q] \in Files /\ status'[file'[q]] = "none"
                    /\ \A p \in Reqs \ {q} : file'[p] # file'[q]
  BY DEF Drawn, Known
<1>1. CASE q # r
  <2>1. user'[q] = user[q] /\ img'[q] = img[q] /\ file'[q] = file[q] /\ pc[q] \in Drawing
    BY <1>1, <1>e DEF OthersUntouched, OthersKept
  <2>2. /\ user[q] \in Users /\ img[q] \in Images /\ file[q] \in Files \ Known
        /\ \A p \in Reqs \ {q} : file[p] # file[q]
    BY <2>1 DEF Drawn
  <2>3. status'[file[q]] = "none"
    BY <1>1, <1>e, <2>2 DEF RowsEffect
  <2>4. file'[r] # file[q]
    BY <1>1, <1>e, <2>2 DEF FileEffect, Fresh
  <2>5. \A p \in Reqs \ {q} : file'[p] # file[q]
    BY <1>e, <2>2, <2>4 DEF OthersUntouched, OthersKept
  <2> QED BY <2>1, <2>2, <2>3, <2>5
<1>2. CASE q = r /\ pc[r] \in Drawing /\ file'[r] = file[r]
  <2>1. user[r] \in Users /\ img[r] \in Images /\ file[r] \in Files \ Known
    BY <1>2 DEF Drawn
  <2>2. user'[r] \in Users /\ img'[r] \in Images
    BY <1>2, <1>e, <2>1 DEF FileEffect
  <2>3. \A p \in Reqs \ {r} : file'[p] # file[r]
    BY <1>2, <1>e DEF OthersUntouched, OthersKept, Drawn
  <2>4. status'[file[r]] = "none"
    BY <1>2, <1>e, <2>1 DEF RowsEffect, Drawing
  <2> QED BY <1>2, <2>1, <2>2, <2>3, <2>4
<1>3. CASE q = r /\ file'[r] \in Fresh /\ user'[r] \in Users /\ img'[r] \in Images
  <2>1. \A p \in Reqs \ {r} : file'[p] # file'[r]
    BY <1>3, <1>e DEF OthersUntouched, OthersKept, Fresh
  <2>2. \A p \in Reqs : file[p] # file'[r]
    BY <1>3 DEF Fresh
  <2>3. status'[file'[r]] = "none"
    BY <1>3, <1>e, <2>2 DEF RowsEffect, Fresh, Known
  <2> QED BY <1>3, <2>1, <2>3 DEF Fresh
<1> QED BY <1>1, <1>2, <1>3, <1>e DEF FileEffect

\* Saves and replacements write names of rows.
LEMMA NamedStep ==
  ASSUME Guarded, Drawn, Named, NEW r \in Reqs, Begin(r) \/ Step(r)
  PROVE  Named'
<1>e. OthersUntouched(r) /\ RowsEffect(r) /\ NamesEffect(r)
  BY Effects
<1>1. Known \subseteq Known'
  BY <1>e DEF RowsEffect, Known
<1>2. \A s \in Slots : ref'[s] # None => ref'[s] \in Known
  BY <1>e DEF NamesEffect, Named
<1>3. \A q \in Reqs, s \in Slots : form'[q][s] \in Files => form'[q][s] \in Known
  BY <1>e DEF NamesEffect, Named, OthersUntouched, OthersKept
<1> QED BY <1>1, <1>2, <1>3 DEF Named

\* Bytes removed stay removed while the row waits for its update.
LEMMA ErasedStep ==
  ASSUME Guarded, Drawn, Erased, NEW r \in Reqs, Begin(r) \/ Step(r)
  PROVE  Erased'
<1> USE DEF Guarded, TypeOK
<1>e. OthersUntouched(r) /\ BytesEffect(r)
  BY Effects
<1> SUFFICES ASSUME NEW q \in Reqs, pc'[q] = "erase"
             PROVE  bytes'[file'[q]] = None
  BY DEF Erased
<1>1. CASE pc[q] = "erase" /\ file'[q] = file[q]
  <2>1. file[q] \in Known
    BY <1>1 DEF Doomed, Known, RequestTypes
  <2> QED BY <1>1, <1>e, <2>1 DEF BytesEffect, Erased, Known
<1>2. CASE q = r /\ ~(pc[q] = "erase" /\ file'[q] = file[q])
  <2>1. PICK f \in Files : RemoveBytes(r, f)
    <3>1. ~(Begin(r) \/ Acquire(r) \/ AddIcon(r) \/ AddIconFails(r))
      BY <1>2, LockFree
    <3>2. LockedStep(r)
      BY <3>1 DEF Step, LockedStep
    <3>3. CASE Fail(r) \/ Reuse(r) \/ StoreFails(r) \/ AddFile(r) \/ AddFileFails(r) \/ RejectStale(r)
               \/ Write(r) \/ RefuseReferenced(r) \/ ReportDeletes(r) \/ Replace(r)
      <4>1. Return(r)
        BY <3>3 DEF Fail, Reuse, StoreFails, AddFile, AddFileFails, RejectStale, Write,
                    RefuseReferenced, ReportDeletes, Replace
      <4> QED BY <1>2, <4>1 DEF Return, Forget, RequestTypes
    <3>4. CASE Store(r) \/ CheckLocalFiles(r) \/ Scan(r)
      BY <1>2, <3>4 DEF Store, CheckLocalFiles, Scan, RequestTypes
    <3>5. CASE EraseRow(r) \/ EraseRowFails(r)
      BY <1>2, <3>5 DEF EraseRow, EraseRowFails, NextFile, RequestTypes
    <3>6. CASE \E f \in Files : RemoveBytesFails(r, f)
      BY <1>2, <3>6 DEF RemoveBytesFails
    <3> QED BY <3>2, <3>3, <3>4, <3>5, <3>6 DEF LockedStep
  <2> QED BY <1>2, <2>1 DEF RemoveBytes, StoredTypes, RequestTypes
<1> QED BY <1>1, <1>2, <1>e DEF OthersUntouched, OthersKept

\* A row becomes deleted only after its bytes are gone, and no bytes come back.
LEMMA DeletedStep ==
  ASSUME Guarded, Drawn, Erased, DeletedIsGone, NEW r \in Reqs, Begin(r) \/ Step(r)
  PROVE  DeletedIsGone'
<1> USE DEF Guarded, TypeOK
<1>e. RowsEffect(r) /\ BytesEffect(r)
  BY Effects
<1> SUFFICES ASSUME NEW f \in Files, status'[f] = "deleted"
             PROVE  bytes'[f] = None
  BY DEF DeletedIsGone
<1>1. CASE status[f] = "deleted"
  BY <1>1, <1>e DEF BytesEffect, DeletedIsGone, Known
<1>2. CASE status[f] # "deleted"
  <2>1. pc[r] = "erase" /\ f = file[r] /\ f \in Known
    BY <1>2, <1>e DEF RowsEffect, Known
  <2> QED BY <2>1, <1>e DEF BytesEffect, Erased, Known
<1> QED BY <1>1, <1>2

\* No twin can appear between Store and AddFile: a download adds an icon, and any
\* other step that could needs the mutex.
LEMMA StoredStep ==
  ASSUME Guarded, Drawn, Stored, NEW r \in Reqs, Begin(r) \/ Step(r)
  PROVE  Stored'
<1> USE DEF Guarded, TypeOK
<1>e. OthersUntouched(r) /\ RowsEffect(r) /\ BytesEffect(r)
  BY Effects
<1> SUFFICES ASSUME NEW q \in Reqs, pc'[q] = "stored"
             PROVE  bytes'[file'[q]] = img'[q] /\ Reusable(q)' = {}
  BY DEF Stored
<1>1. CASE q # r
  <2>1. /\ pc[q] = "stored" /\ user'[q] = user[q] /\ img'[q] = img[q] /\ file'[q] = file[q]
        /\ file[q] \in Files \ Known /\ img[q] \in Images
    BY <1>1, <1>e DEF OthersUntouched, OthersKept, Drawn, Drawing
  <2>2. Begin(r) \/ Acquire(r) \/ AddIcon(r) \/ AddIconFails(r)
    <3>1. ~LockedStep(r)
      BY <1>1, OnlyMine DEF Locked
    <3> QED BY <3>1 DEF Step, LockedStep
  <2>3. pc[r] \notin Locked
    BY <2>2, LockFree
  <2>4. bytes'[file[q]] = bytes[file[q]]
    <3>1. CASE \E u \in Users, i \in Images, f \in Files : Download(r, u, i, f)
      BY <3>1, <2>1 DEF Download, Fresh, StoredTypes
    <3>2. CASE ~\E u \in Users, i \in Images, f \in Files : Download(r, u, i, f)
      BY <3>2, <2>2 DEF Begin, BeginUpload, BeginSave, BeginDeleteUser, BeginDelete,
         BeginReplace, Arrive, Acquire, AddIcon, InsertRow, AddIconFails
    <3> QED BY <3>1, <3>2
  <2>5. ASSUME NEW f \in Files, f \in Reusable(q)'
        PROVE  f \in Reusable(q)
    <3>1. f \in Known
      BY <2>1, <2>3, <2>5, <1>e DEF RowsEffect, Reusable, Locked
    <3>2. bytes'[f] = bytes[f]
      BY <2>1, <2>3, <3>1, <1>e DEF BytesEffect, Locked
    <3> QED BY <2>1, <2>5, <3>1, <3>2, <1>e DEF RowsEffect, Reusable
  <2> QED BY <2>1, <2>4, <2>5 DEF Stored, Reusable
<1>2. CASE q = r
  <2>1. Store(r)
    <3>1. ~(Begin(r) \/ AddIcon(r) \/ AddIconFails(r) \/ Acquire(r))
      BY <1>2, BeginEffects DEF Waiting, AddIcon, AddIconFails, Forget, RequestTypes,
                 Acquire, Granted
    <3>2. CASE Fail(r) \/ Reuse(r) \/ StoreFails(r) \/ AddFile(r) \/ AddFileFails(r) \/ RejectStale(r)
               \/ Write(r) \/ RefuseReferenced(r) \/ ReportDeletes(r) \/ Replace(r)
      <4>1. Return(r)
        BY <3>2 DEF Fail, Reuse, StoreFails, AddFile, AddFileFails, RejectStale, Write,
                    RefuseReferenced, ReportDeletes, Replace
      <4> QED BY <1>2, <4>1 DEF Return, Forget, RequestTypes
    <3>3. CASE CheckLocalFiles(r) \/ Scan(r) \/ EraseRow(r) \/ EraseRowFails(r)
               \/ \E f \in Files : RemoveBytes(r, f) \/ RemoveBytesFails(r, f)
      BY <1>2, <3>3 DEF CheckLocalFiles, Scan, EraseRow, EraseRowFails, NextFile,
           RemoveBytes, RemoveBytesFails, RequestTypes
    <3> QED BY <3>1, <3>2, <3>3 DEF Step
  <2>2. file[r] \in Files \ Known
    BY <2>1 DEF Store, Drawn, Drawing
  <2> QED BY <1>2, <2>1, <2>2 DEF Store, Reusable, Known, StoredTypes, rows, request
<1> QED BY <1>1, <1>2

\* A row is created with the fingerprint of the image its request carries.
LEMMA DescribedStep ==
  ASSUME Guarded, Drawn, Described, NEW r \in Reqs, Begin(r) \/ Step(r)
  PROVE  Described'
BY Effects DEF RowsEffect, Described, Drawn, Drawing, Known

\* A new row duplicates no intact one, and a row is never made intact again.
LEMMA OneCopyStep ==
  ASSUME Guarded, Drawn, Described, Stored, OneCopyPerImage, NEW r \in Reqs, Begin(r) \/ Step(r)
  PROVE  OneCopyPerImage'
<1>e. RowsEffect(r) /\ BytesEffect(r)
  BY Effects
<1> SUFFICES ASSUME NEW f \in Files, NEW g \in Files, f # g,
                    status'[f] = "active", status'[g] = "active",
                    purpose'[f] = "attachment", purpose'[g] = "attachment",
                    owner'[f] = owner'[g], sha'[f] = sha'[g],
                    bytes'[f] = sha'[f], bytes'[g] = sha'[g]
             PROVE  FALSE
  BY DEF OneCopyPerImage
<1>1. ASSUME NEW h \in Files, h \in Known, bytes'[h] = sha'[h]
      PROVE  bytes'[h] = bytes[h]
  BY <1>1, <1>e DEF RowsEffect, BytesEffect, Described
<1>2. CASE f \in Known /\ g \in Known
  BY <1>1, <1>2, <1>e DEF RowsEffect, OneCopyPerImage
<1>3. ASSUME NEW new \in {f, g}, NEW old \in {f, g} \ {new}, new \notin Known
      PROVE  FALSE
  <2>1. pc[r] = "stored" /\ new = file[r] /\ owner'[new] = user[r] /\ sha'[new] = img[r]
    BY <1>3, <1>e DEF RowsEffect
  <2>2. old \in Known
    BY <1>3, <2>1, <1>e DEF RowsEffect
  <2>3. old \in Reusable(r)
    BY <1>1, <2>1, <2>2, <1>e DEF RowsEffect, Reusable
  <2> QED BY <2>1, <2>3 DEF Stored
<1> QED BY <1>2, <1>3

\* The inductive invariant behind the theorems on the contents.
THEOREM KeptInvariant == Spec => []Kept
<1>1. Init => Kept
  <2> SUFFICES ASSUME Init
               PROVE  Kept
    OBVIOUS
  <2>1. Guarded
    BY GuardedInit
  <2>2. Drawn /\ Named /\ Described /\ Erased /\ Stored /\ DeletedIsGone /\ OneCopyPerImage
    BY DEF Init, Drawn, Drawing, Named, Described, Known, Untouched, Erased, Stored, DeletedIsGone,
           OneCopyPerImage
  <2> QED BY <2>1, <2>2 DEF Kept
<1>2. Kept /\ [Next]_vars => Kept'
  <2> SUFFICES ASSUME Kept, [Next]_vars
               PROVE  Kept'
    OBVIOUS
  <2>0. Guarded'
    BY GuardedNext DEF Kept
  <2>1. ASSUME NEW r \in Reqs, Begin(r) \/ Step(r)
        PROVE  Kept'
    BY <2>0, <2>1, DrawnStep, NamedStep, DescribedStep, ErasedStep, StoredStep, DeletedStep,
       OneCopyStep DEF Kept
  <2>2. CASE Crash
    BY <2>0, <2>2 DEF Kept, Crash, Drawn, Drawing, Named, Described, Known, Untouched, Erased, Stored,
         DeletedIsGone, OneCopyPerImage, rows
  <2>3. CASE UNCHANGED vars
    BY <2>0, <2>3 DEF Kept, vars, Drawn, Drawing, Named, Described, Known, Erased, Stored, Reusable,
         DeletedIsGone, OneCopyPerImage
  <2> QED BY <2>1, <2>2, <2>3 DEF Next
<1> QED BY <1>1, <1>2, PTL DEF Spec

\* A deleted row stands for a file that is gone.
THEOREM DeletedStaysGone == Spec => []DeletedIsGone
<1>1. Kept => DeletedIsGone
  BY DEF Kept
<1> QED BY <1>1, KeptInvariant, PTL

\* Two intact gallery uploads of an account never have the same content.
THEOREM OneCopyEach == Spec => []OneCopyPerImage
<1>1. Kept => OneCopyPerImage
  BY DEF Kept
<1> QED BY <1>1, KeptInvariant, PTL

\* No step takes away the bytes of an image that a field names.
THEOREM NamedBytesStay == Spec => NamedBytesAreKept
<1> DEFINE BytesStay == \A s \in Slots : ref[s] # None /\ bytes[ref[s]] # None
                                           => bytes'[ref[s]] = bytes[ref[s]]
<1>1. Kept /\ [Next]_vars => [BytesStay]_vars
  <2> SUFFICES ASSUME Kept, Next, NEW s \in Slots, ref[s] # None
               PROVE  bytes'[ref[s]] = bytes[ref[s]]
    OBVIOUS
  <2>1. ref[s] \in Known
    BY DEF Kept, Named
  <2>2. ASSUME NEW r \in Reqs, Begin(r) \/ Step(r)
        PROVE  bytes'[ref[s]] = bytes[ref[s]]
    <3>1. BytesEffect(r)
      BY <2>2, Effects DEF Kept
    <3>2. CASE pc[r] = "remove" /\ ref[s] \in ids[r]
      BY <3>2 DEF Kept, Guarded, Doomed, Referenced
    <3> QED BY <2>1, <3>1, <3>2 DEF BytesEffect, Known
  <2>3. CASE Crash
    BY <2>3 DEF Crash
  <2> QED BY <2>2, <2>3 DEF Next
<1> QED BY <1>1, KeptInvariant, PTL DEF Spec, NamedBytesAreKept

\* As long as the process lives, an upload whose row cannot be created takes
\* its bytes back.
THEOREM NoOrphanWithoutCrash == "crash" \notin Faults => (Spec => UploadLeavesNoOrphan)
<1> DEFINE TakenBack == \A r \in Reqs : pc[r] = "stored" /\ pc'[r] = "idle" /\ "disk" \notin Faults
                           => status'[file[r]] = "active" \/ bytes'[file[r]] = None
<1>1. "crash" \notin Faults /\ Kept /\ [Next]_vars => [TakenBack]_vars
  <2> SUFFICES ASSUME "crash" \notin Faults, Kept, Next, "disk" \notin Faults,
                      NEW r \in Reqs, pc[r] = "stored", pc'[r] = "idle"
               PROVE  status'[file[r]] = "active" \/ bytes'[file[r]] = None
    OBVIOUS
  <2>1. PICK q \in Reqs : Begin(q) \/ Step(q)
    BY DEF Next, Crash
  <2>2. q = r
    BY <2>1, Effects DEF Kept, OthersUntouched, OthersKept
  <2>3. file[r] \in Files
    BY DEF Kept, Drawn, Drawing
  <2>4. CASE AddFile(r)
    BY <2>3, <2>4 DEF AddFile, InsertRow, Kept, Guarded, TypeOK, StoredTypes
  <2>5. CASE AddFileFails(r)
    BY <2>3, <2>5 DEF AddFileFails, Kept, Guarded, TypeOK, StoredTypes
  <2>6. ~Begin(r)
    BY BeginEffects DEF Waiting, Kept, Guarded
  <2>7. ~(Acquire(r) \/ Fail(r) \/ Reuse(r) \/ Store(r) \/ StoreFails(r) \/ AddIcon(r)
          \/ AddIconFails(r) \/ CheckLocalFiles(r) \/ RejectStale(r) \/ Write(r) \/ Scan(r)
          \/ RefuseReferenced(r) \/ (\E f \in Files : RemoveBytes(r, f) \/ RemoveBytesFails(r, f))
          \/ EraseRow(r) \/ EraseRowFails(r) \/ ReportDeletes(r) \/ Replace(r))
    BY DEF Acquire, Waiting, Fail, Reuse, Store, StoreFails, AddIcon, AddIconFails, CheckLocalFiles,
         RejectStale, Write, Scan, RefuseReferenced, RemoveBytes, RemoveBytesFails, EraseRow,
         EraseRowFails, ReportDeletes, Replace
  <2> QED BY <2>1, <2>2, <2>4, <2>5, <2>6, <2>7 DEF Step
<1>2. CASE "crash" \notin Faults
  BY <1>1, <1>2, KeptInvariant, PTL DEF Spec, UploadLeavesNoOrphan
<1> QED BY <1>2

-----------------------------------------------------------------------------
(***************************************************************************)
(* The refinement of Gallery.                                              *)
(***************************************************************************)
life == [f \in Files |-> CASE status[f] = "none" -> "new"
                           [] status[f] = "active" -> "live"
                           [] OTHER -> "gone"]
used == [s \in Slots \ EmbeddedSlots |-> ref[s]]

\* The abstract life of a file, case by case.
LEMMA LifeOf ==
  ASSUME NEW f \in Files
  PROVE  /\ status[f] = "none" => life[f] = "new"
         /\ status[f] = "active" => life[f] = "live"
         /\ status[f] \notin {"none", "active"} => life[f] = "gone"
BY DEF life

\* The same after a step.
LEMMA LifeAfter ==
  ASSUME NEW f \in Files
  PROVE  /\ status'[f] = "none" => life'[f] = "new"
         /\ status'[f] = "active" => life'[f] = "live"
         /\ status'[f] \notin {"none", "active"} => life'[f] = "gone"
BY DEF life

\* A file that changes its status changes its life and no other.
LEMMA OneLife ==
  ASSUME TypeOK, TypeOK', NEW f \in Files, \A g \in Files \ {f} : status'[g] = status[g]
  PROVE  life' = [life EXCEPT ![f] = life'[f]]
<1>1. \A g \in Files \ {f} : life'[g] = life[g]
  BY LifeOf, LifeAfter DEF TypeOK, StoredTypes
<1> QED BY <1>1 DEF life

\* A step that changes neither a status nor a field is invisible.
LEMMA Stutters ==
  ASSUME status' = status, ref' = ref
  PROVE  UNCHANGED <<life, used>>
BY DEF life, used

\* A row's creation publishes the file.
LEMMA Publishes ==
  ASSUME Kept, TypeOK', NEW r \in Reqs, AddFile(r) \/ AddIcon(r)
  PROVE  View!Next
<1> USE DEF Kept, Guarded, TypeOK, StoredTypes
<1>1. PICK f \in Files :
        /\ status[f] = "none"
        /\ status' = [status EXCEPT ![f] = "active"]
        /\ ref' = ref
  <2>1. file[r] \in Files /\ status[file[r]] = "none"
    BY DEF AddFile, AddIcon, Drawn, Drawing, Known
  <2> QED BY <2>1 DEF AddFile, AddIcon, InsertRow
<1>2. life[f] = "new" /\ life'[f] = "live"
  BY <1>1, LifeOf, LifeAfter
<1>3. life' = [life EXCEPT ![f] = "live"]
  BY <1>1, <1>2, OneLife
<1>4. used' = used
  BY <1>1 DEF used
<1>5. View!Publish(f)
  BY <1>2, <1>3, <1>4 DEF View!Publish, life, used
<1> QED BY <1>5 DEF View!Next

\* A row's deletion, or its marking as failed, retires a file no field names.
LEMMA Retires ==
  ASSUME Kept, TypeOK', NEW r \in Reqs, NEW f \in ids[r], pc[r] \in {"remove", "erase"},
         ref' = ref,
         \/ status' = status
         \/ \E st \in {"delete_failed", "deleted"} : status' = [status EXCEPT ![f] = st]
  PROVE  View!Next \/ UNCHANGED <<life, used>>
<1> USE DEF Kept, Guarded, TypeOK, StoredTypes
<1>1. CASE status' = status
  BY <1>1, Stutters
<1>2. CASE \E st \in {"delete_failed", "deleted"} : status' = [status EXCEPT ![f] = st]
  <2>1. f \in Files /\ status[f] = "active" /\ ~Referenced(f)
    BY DEF Doomed, RequestTypes
  <2>2. status'[f] \in {"delete_failed", "deleted"} /\ \A g \in Files \ {f} : status'[g] = status[g]
    BY <1>2, <2>1
  <2>3. life[f] = "live" /\ life'[f] = "gone"
    BY <2>1, <2>2, LifeOf, LifeAfter
  <2>4. life' = [life EXCEPT ![f] = "gone"]
    BY <2>1, <2>2, <2>3, OneLife
  <2>5. used' = used /\ \A s \in Slots \ EmbeddedSlots : used[s] # f
    BY <2>1 DEF used, Referenced
  <2>6. View!Retire(f)
    BY <2>3, <2>4, <2>5 DEF View!Retire, life, used
  <2> QED BY <2>1, <2>6 DEF View!Next
<1> QED BY <1>1, <1>2

\* A save or a replacement writes names of live images.
LEMMA Saves ==
  ASSUME Kept, TypeOK', NEW r \in Reqs, Write(r) \/ Replace(r)
  PROVE  View!Next
<1> USE DEF Kept, Guarded, TypeOK, StoredTypes
<1>1. status' = status
  BY DEF Write, Replace, rows
<1>2. \A s \in Slots \ EmbeddedSlots :
        \/ ref'[s] = ref[s]
        \/ ref'[s] = None
        \/ ref'[s] \in Files /\ status[ref'[s]] = "active"
  <2>1. CASE Write(r)
    BY <2>1 DEF Write, Checked, RequestTypes
  <2>2. CASE Replace(r)
    BY <2>2 DEF Replace
  <2> QED BY <2>1, <2>2
<1>3. used' \in [Slots \ EmbeddedSlots -> Files \cup {None}]
  BY DEF used
<1>4. \A s \in Slots \ EmbeddedSlots :
        used'[s] = used[s] \/ used'[s] \in {f \in Files : life[f] = "live"} \cup {None}
  BY <1>2, LifeOf DEF used
<1>5. life' = life
  BY <1>1 DEF life
<1>6. View!Save
  BY <1>3, <1>4, <1>5 DEF View!Save, View!LiveOrNone, life, used
<1> QED BY <1>6 DEF View!Next

\* FileStore implements the abstract gallery: an upload or a download publishes,
\* a save or a replacement names live images only, a deletion retires, and all
\* other steps, a crash included, change nothing the gallery sees.
THEOREM GalleryImplemented == Spec => ImplementsGallery
<1>1. Init => View!Init
  BY DEF Init, View!Init
<1>2. Kept /\ Kept' /\ [Next]_vars => [View!Next]_View!gvars
  <2> SUFFICES ASSUME Kept, Kept', [Next]_vars
               PROVE  View!Next \/ UNCHANGED <<life, used>>
    BY DEF View!gvars, life, used
  <2> USE DEF Kept, Guarded
  <2>1. ASSUME NEW r \in Reqs, Begin(r) \/ Step(r)
        PROVE  View!Next \/ UNCHANGED <<life, used>>
    <3>1. CASE Begin(r)
      BY <3>1, BeginEffects, LockFree, Stutters DEF rows
    <3>2. CASE AddFile(r) \/ AddIcon(r)
      BY <3>2, Publishes
    <3>3. CASE Write(r) \/ Replace(r)
      BY <3>3, Saves
    <3>4. CASE \E f \in Files : RemoveBytesFails(r, f)
      BY <3>4, Retires DEF RemoveBytesFails, MarkFailed
    <3>5. CASE EraseRow(r) \/ EraseRowFails(r)
      <4>1. pc[r] = "erase" /\ file[r] \in ids[r]
        BY <3>5 DEF EraseRow, EraseRowFails, Doomed
      <4> QED BY <3>5, <4>1, Retires DEF EraseRow, EraseRowFails, MarkFailed, NextFile
    <3>6. CASE Acquire(r) \/ Fail(r) \/ Reuse(r) \/ Store(r) \/ StoreFails(r) \/ AddFileFails(r)
               \/ AddIconFails(r) \/ CheckLocalFiles(r) \/ RejectStale(r) \/ Scan(r)
               \/ RefuseReferenced(r) \/ (\E f \in Files : RemoveBytes(r, f)) \/ ReportDeletes(r)
      <4>1. UNCHANGED <<rows, ref>>
        BY <3>6 DEF Acquire, Fail, Reuse, Store, StoreFails, AddFileFails, AddIconFails,
             CheckLocalFiles, RejectStale, Scan, RefuseReferenced, RemoveBytes, ReportDeletes
      <4> QED BY <4>1, Stutters DEF rows
    <3> QED BY <2>1, <3>1, <3>2, <3>3, <3>4, <3>5, <3>6 DEF Step
  <2>2. CASE Crash
    BY <2>2, Stutters DEF Crash, rows
  <2>3. CASE UNCHANGED vars
    BY <2>3, Stutters DEF vars
  <2> QED BY <2>1, <2>2, <2>3 DEF Next
<1> QED BY <1>1, <1>2, KeptInvariant, PTL DEF Spec, ImplementsGallery, View!Spec
=============================================================================
