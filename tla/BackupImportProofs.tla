------------------------- MODULE BackupImportProofs -------------------------
(***************************************************************************)
(* Proofs about BackupImport, for any files and any number of choices: an  *)
(* import is applied once for each choice, success is reported only for    *)
(* what was written, and the server never has to refuse an id.             *)
(***************************************************************************)
EXTENDS BackupImport, TLAPS

USE ChoiceAssumption, NoneAssumption

\* The types, apart from what "busy" means.
Typed ==
  /\ reading \in Files \cup {None}
  /\ selected \in Selections \cup {None} /\ mode \in Modes
  /\ receipt \in Receipts \cup {None}
  /\ choice \in 0..MaxChoices /\ lastId \in 0..(MaxChoices + 1)
  /\ confirming \in BOOLEAN /\ busy \in BOOLEAN
  /\ drawn \in [Ids -> 0..MaxChoices]
  /\ told \subseteq Ids
  /\ calls \subseteq Calls
  /\ receipts \in [Ids -> Payloads \cup {None}]
  /\ applied \in [Ids -> Nat]

\* The page is busy exactly while it listens to a call.
Listening == busy = \E c \in calls : c.heard

\* One call at most is listened to.
Alone == \A c, d \in calls : c.heard /\ d.heard => c = d

\* The ids in use are those drawn.
DrawnOnly ==
  /\ receipt # None => receipt.id <= lastId
  /\ \A c \in calls : c.id <= lastId
  /\ \A id \in Ids : receipts[id] # None => id <= lastId

\* An id stands for one payload, wherever it is kept.
OneContent ==
  /\ \A c, d \in calls : c.id = d.id => c.payload = d.payload
  /\ \A c \in calls : receipts[c.id] \in {None, c.payload}
  /\ receipt # None =>
       /\ receipts[receipt.id] \in {None, receipt.payload}
       /\ \A c \in calls : c.id = receipt.id => c.payload = receipt.payload

\* The rows and the receipt are written together, and before any answer.
Together ==
  /\ \A id \in Ids : applied[id] = IF receipts[id] = None THEN 0 ELSE 1
  /\ \A c \in calls : c.at = "done" => receipts[c.id] # None
  /\ \A c \in calls : c.at # "refused"
  /\ \A id \in told : receipts[id] # None

\* What the user has chosen now has no id yet.
Unsent == \A id \in Ids : id <= lastId => drawn[id] < choice

\* No choice draws two ids.  A file is read only after a change of the choice,
\* and what could be sent without the receipt at hand is a new choice.
OncePerChoice ==
  /\ \A id \in Ids : id <= lastId => drawn[id] <= choice
  /\ \A a, b \in Ids : a <= lastId /\ b <= lastId /\ drawn[a] = drawn[b] => a = b
  /\ reading # None => selected = None /\ Unsent
  /\ selected # None /\ (receipt = None \/ receipt.payload # Payload) => Unsent

Once == Typed /\ Listening /\ Alone /\ DrawnOnly /\ OneContent /\ Together /\ OncePerChoice

-----------------------------------------------------------------------------
(***************************************************************************)
(* The steps of the user.                                                  *)
(***************************************************************************)
\* What the choosing steps leave alone.
Choice ==
  /\ UNCHANGED <<busy, ids, told, calls, stored>>
  /\ receipt' \in {receipt, None}

\* Choosing keeps the ids, and every change of what would be sent is a new choice.
LEMMA ChoosingStep ==
  ASSUME Once, \/ \E f \in Files : PickFile(f)
               \/ FileRead \/ ChangeMode \/ ChangeParts \/ Ask \/ Cancel
  PROVE  Once'
<1>1. Choice
  BY DEF Choice, PickFile, FileRead, ChangeMode, ChangeParts, Ask, Cancel
<1>2. Typed'
  <2>1. CASE (\E f \in Files : PickFile(f)) \/ FileRead
    BY <2>1 DEF Once, Typed, PickFile, FileRead, Choosing, Selections, ids, stored
  <2>2. CASE ChangeMode \/ ChangeParts
    BY <2>2 DEF Once, Typed, ChangeMode, ChangeParts, Choosing, Selections, Modes, ids, stored
  <2>3. CASE Ask \/ Cancel
    BY <2>3 DEF Once, Typed, Ask, Cancel, ids, stored
  <2> QED BY <2>1, <2>2, <2>3
<1>3. Listening' /\ Alone' /\ DrawnOnly' /\ OneContent' /\ Together'
  BY <1>1 DEF Once, Choice, Listening, Alone, DrawnOnly, OneContent, Together, ids, stored
<1>4. OncePerChoice'
  <2>1. /\ choice \in Int /\ lastId \in Int
        /\ \A id \in Ids : drawn[id] \in Int
    BY DEF Once, Typed
  <2>2. CASE Choosing
    <3>1. choice' = choice + 1
      BY <2>2 DEF Choosing
    <3>2. Unsent'
      BY <2>1, <3>1, <1>1 DEF Once, OncePerChoice, Unsent, Choice, ids
    <3>3. reading' # None => selected' = None
      BY DEF PickFile, FileRead, ChangeMode, ChangeParts, Ask, Cancel, Once, OncePerChoice
    <3> QED BY <2>1, <3>1, <3>2, <3>3, <1>1 DEF Once, OncePerChoice, Unsent, Choice, ids
  <2>3. CASE FileRead
    BY <2>1, <2>3, <1>1 DEF FileRead, Once, OncePerChoice, Unsent, Choice, ids, Payload, Selections
  <2>4. CASE Ask \/ Cancel
    BY <2>4 DEF Ask, Cancel, Once, OncePerChoice, Unsent, ids, Payload
  <2> QED BY <2>2, <2>3, <2>4 DEF PickFile, ChangeMode, ChangeParts
<1> QED BY <1>2, <1>3, <1>4 DEF Once

\* A call is sent with the receipt of its payload.
NewCall == [id |-> receipt'.id, payload |-> Payload, heard |-> TRUE, at |-> "sent"]

\* A new id is drawn only for a choice that has none, and a repeated one is sent
\* with the payload it has.
LEMMA ImportStep ==
  ASSUME Once, DoImport
  PROVE  Once'
<1>1. Payload \in Payloads
  BY DEF Once, Typed, DoImport, Payload, Payloads
<1>2. /\ receipt' \in Receipts /\ receipt'.payload = Payload
      /\ lastId' \in 0..(MaxChoices + 1) /\ drawn' \in [Ids -> 0..MaxChoices]
      /\ receipt'.id <= lastId'
      /\ \/ UNCHANGED <<receipt, ids>>
         \/ /\ lastId' = lastId + 1 /\ receipt'.id = lastId'
            /\ drawn' = [drawn EXCEPT ![lastId'] = choice]
            /\ receipt = None \/ receipt.payload # Payload
  <2>1. CASE receipt # None /\ receipt.payload = Payload
    BY <2>1 DEF DoImport, NextReceipt, Once, Typed, DrawnOnly, ids
  <2>2. CASE ~(receipt # None /\ receipt.payload = Payload)
    <3>1. /\ lastId < MaxChoices + 1 /\ lastId' = lastId + 1
          /\ drawn' = [drawn EXCEPT ![lastId + 1] = choice]
          /\ receipt' = [payload |-> Payload, id |-> lastId + 1]
      BY <2>2 DEF DoImport, NextReceipt
    <3>2. lastId + 1 \in Ids
      BY <3>1 DEF Once, Typed, Ids
    <3> QED BY <1>1, <2>2, <3>1, <3>2 DEF Once, Typed, Receipts
  <2> QED BY <2>1, <2>2
<1>3. /\ calls' = calls \cup {NewCall} /\ NewCall \in Calls
      /\ NewCall.id = receipt'.id /\ NewCall.payload = Payload /\ NewCall.heard
      /\ NewCall.at = "sent"
  BY <1>1, <1>2 DEF DoImport, NewCall, Calls, Receipts
<1>4. Typed'
  BY <1>2, <1>3 DEF DoImport, Once, Typed, stored
<1>5. Listening' /\ Alone'
  BY <1>3 DEF DoImport, Once, Listening, Alone
<1>6. DrawnOnly'
  <2>1. lastId <= lastId' /\ lastId \in Int /\ lastId' \in Int
    BY <1>2 DEF Once, Typed, ids
  <2>2. \A c \in calls : c.id \in Int
    BY DEF Once, Typed, Calls, Ids
  <2>3. \A id \in Ids : id \in Int
    BY DEF Ids
  <2> QED BY <1>2, <1>3, <2>1, <2>2, <2>3 DEF Once, DrawnOnly, DoImport, stored
<1>7. OneContent'
  <2>1. /\ receipts[receipt'.id] \in {None, Payload}
        /\ \A c \in calls : c.id = receipt'.id => c.payload = Payload
    <3>1. CASE UNCHANGED <<receipt, ids>>
      BY <1>2, <3>1 DEF Once, OneContent, Receipts
    <3>2. CASE lastId' = lastId + 1 /\ receipt'.id = lastId'
      <4>1. receipt'.id \in Ids /\ ~(receipt'.id <= lastId)
        BY <1>2, <3>2 DEF Once, Typed, Receipts
      <4> QED BY <4>1 DEF Once, DrawnOnly
    <3> QED BY <1>2, <3>1, <3>2
  <2> QED BY <1>2, <1>3, <2>1 DEF Once, OneContent, DoImport, stored
<1>8. Together'
  BY <1>3 DEF Once, Together, DoImport, stored
<1>9. OncePerChoice'
  <2>1. /\ choice \in Int /\ lastId \in Int /\ \A id \in Ids : id \in Int
        /\ \A id \in Ids : drawn[id] \in Int
    BY DEF Once, Typed, Ids
  <2>2. UNCHANGED <<reading, selected, mode, choice>> /\ selected # None
    BY DEF DoImport
  <2>3. CASE UNCHANGED <<receipt, ids>>
    BY <2>2, <2>3, <1>2 DEF Once, OncePerChoice, Unsent, Payload, ids
  <2>4. CASE /\ lastId' = lastId + 1
             /\ drawn' = [drawn EXCEPT ![lastId'] = choice]
             /\ receipt = None \/ receipt.payload # Payload
    <3>1. Unsent
      BY <2>2, <2>4 DEF Once, OncePerChoice
    <3>2. \A id \in Ids : id <= lastId' =>
            drawn'[id] = IF id = lastId' THEN choice ELSE drawn[id]
      BY <2>4 DEF Once, Typed
    <3>3. \A id \in Ids : id <= lastId' => id = lastId' \/ id <= lastId
      BY <2>1, <2>4
    <3>4. receipt' # None /\ receipt'.payload = Payload /\ Payload' = Payload
      BY <1>2, <2>2 DEF Payload
    <3> QED BY <2>1, <2>2, <3>1, <3>2, <3>3, <3>4 DEF Once, OncePerChoice, Unsent
  <2> QED BY <1>2, <2>3, <2>4
<1> QED BY <1>4, <1>5, <1>6, <1>7, <1>8, <1>9 DEF Once

-----------------------------------------------------------------------------
(***************************************************************************)
(* The server and the network.                                             *)
(***************************************************************************)
\* A transaction writes the receipt with the rows or changes nothing, and never
\* meets an id it knows with another content.
LEMMA ServerStep ==
  ASSUME Once, NEW c \in calls, Handle(c) \/ HandleFails(c)
  PROVE  Once'
<1>1. PICK at \in {"done", "refused", "failed"} :
        /\ calls' = (calls \ {c}) \cup {[c EXCEPT !.at = at]}
        /\ at = "refused" => receipts[c.id] \notin {None, c.payload}
        /\ \/ /\ receipts[c.id] = None /\ at = "done"
              /\ receipts' = [receipts EXCEPT ![c.id] = c.payload]
              /\ applied' = [applied EXCEPT ![c.id] = @ + 1]
           \/ UNCHANGED stored /\ (at = "done" => receipts[c.id] # None)
  <2>1. c.payload # None
    BY DEF Once, Typed, Calls
  <2> QED BY <2>1 DEF Handle, HandleFails, Turn
<1> DEFINE d == [c EXCEPT !.at = at]
<1>2. /\ c \in Calls /\ d \in Calls /\ d.id = c.id /\ d.payload = c.payload /\ d.heard = c.heard
      /\ d.at = at /\ c.id \in Ids /\ c.payload \in Payloads /\ c.payload # None
  BY <1>1 DEF Once, Typed, Calls
<1>3. UNCHANGED <<screen, ids, told>>
  BY DEF Handle, HandleFails
<1>4. at # "refused"
  BY <1>1 DEF Once, OneContent
<1>5. /\ receipts' \in [Ids -> Payloads \cup {None}] /\ applied' \in [Ids -> Nat]
      /\ \A id \in Ids \ {c.id} : receipts'[id] = receipts[id] /\ applied'[id] = applied[id]
      /\ receipts'[c.id] \in {receipts[c.id], c.payload}
      /\ receipts[c.id] # None => receipts'[c.id] = receipts[c.id]
      /\ applied'[c.id] = IF receipts'[c.id] = None THEN 0 ELSE 1
      /\ at = "done" => receipts'[c.id] # None
  <2>1. /\ receipts \in [Ids -> Payloads \cup {None}] /\ applied \in [Ids -> Nat]
        /\ applied[c.id] = IF receipts[c.id] = None THEN 0 ELSE 1
    BY <1>2 DEF Once, Typed, Together
  <2> QED BY <1>1, <1>2, <2>1 DEF stored
<1> HIDE DEF d
<1>6. \A e \in calls' : \E b \in calls : e.id = b.id /\ e.payload = b.payload /\ e.heard = b.heard
  BY <1>1, <1>2 DEF d
<1>13. Alone'
  <2>1. \A e \in calls' : e = d \/ (e \in calls /\ e # c)
    BY <1>1 DEF d
  <2> QED BY <1>2, <2>1 DEF Once, Alone
<1>7. Typed'
  BY <1>1, <1>2, <1>3, <1>5 DEF Once, Typed, screen, ids, d
<1>8. Listening'
  <2>1. c \in calls /\ d \in calls' /\ c.heard = d.heard /\ \A e \in calls : e = c \/ e \in calls'
    BY <1>1, <1>2 DEF d
  <2> QED BY <1>3, <1>6, <2>1 DEF Once, Listening, screen
<1>9. DrawnOnly'
  <2>1. \A id \in Ids : receipts'[id] # None => id <= lastId
    BY <1>2, <1>5 DEF Once, DrawnOnly
  <2> QED BY <1>3, <1>6, <2>1 DEF Once, DrawnOnly, screen, ids
<1>10. OneContent'
  <2>1. \A b \in calls : b.id \in Ids /\ receipts'[b.id] \in {None, b.payload}
    BY <1>2, <1>5 DEF Once, OneContent, Typed, Calls
  <2>2. receipt # None => receipts'[receipt.id] \in {None, receipt.payload}
    BY <1>2, <1>5 DEF Once, OneContent, Typed, Receipts
  <2> QED BY <1>3, <1>6, <2>1, <2>2 DEF Once, OneContent, screen
<1>11. Together'
  <2>1. \A e \in calls' : e = d \/ e \in calls
    BY <1>1 DEF d
  <2>2. \A id \in Ids : receipts[id] # None => receipts'[id] # None
    BY <1>2, <1>5
  <2>3. \A e \in calls : e.id \in Ids
    BY DEF Once, Typed, Calls
  <2> QED BY <1>2, <1>3, <1>4, <1>5, <2>1, <2>2, <2>3 DEF Once, Together, Typed
<1>12. OncePerChoice'
  BY <1>3 DEF Once, OncePerChoice, Unsent, Payload, screen, ids
<1> QED BY <1>7, <1>8, <1>9, <1>10, <1>11, <1>12, <1>13 DEF Once

\* An answer is told, or lost, or not awaited any more.
LEMMA AnswerStep ==
  ASSUME Once, NEW c \in calls, Answered(c) \/ Lost(c) \/ Unheard(c)
  PROVE  Once'
<1>p. PICK d : d = [c EXCEPT !.heard = FALSE]
  OBVIOUS
<1>1. /\ c \in Calls /\ c.id \in Ids /\ d \in Calls /\ d.id = c.id /\ d.payload = c.payload
      /\ d.at = c.at /\ d.heard = FALSE
  <2>1. c \in Calls
    BY DEF Once, Typed
  <2> QED BY <1>p, <2>1 DEF Calls
<1>2. /\ calls' \subseteq (calls \ {c}) \cup {d}
      /\ UNCHANGED <<reading, mode, choice, ids, stored>>
      /\ \/ UNCHANGED <<selected, receipt, confirming, told>>
         \/ /\ selected' = None /\ receipt' = None /\ confirming' = FALSE
            /\ told' = told \cup {c.id} /\ c.at = "done"
  BY <1>p DEF Answered, Lost, Unheard, Turn, screen
<1>3. \A e \in calls' : e \in Calls /\ \E b \in calls :
        e.id = b.id /\ e.payload = b.payload /\ e.at = b.at
  BY <1>1, <1>2 DEF Once, Typed
<1>4. Typed'
  BY <1>1, <1>2, <1>3 DEF Once, Typed, ids, stored, Answered, Lost, Unheard, screen
<1>5. Listening'
  <2>1. CASE Unheard(c)
    BY <2>1 DEF Once, Listening, Unheard, screen
  <2>2. CASE Answered(c) \/ Lost(c)
    <3>1. c.heard /\ busy' = FALSE
      BY <2>2 DEF Answered, Lost
    <3>2. \A e \in calls : e.heard => e = c
      BY <3>1 DEF Once, Alone
    <3> QED BY <1>1, <1>2, <3>1, <3>2 DEF Listening
  <2> QED BY <2>1, <2>2
<1>7. Alone'
  BY <1>1, <1>2 DEF Once, Alone
<1>6. DrawnOnly' /\ OneContent' /\ Together' /\ OncePerChoice'
  <2>1. DrawnOnly'
    BY <1>2, <1>3 DEF Once, DrawnOnly, ids, stored
  <2>2. OneContent'
    BY <1>2, <1>3 DEF Once, OneContent, ids, stored
  <2>3. Together'
    BY <1>1, <1>2, <1>3 DEF Once, Together, stored
  <2>4. OncePerChoice'
    BY <1>2 DEF Once, OncePerChoice, Unsent, Payload, ids
  <2> QED BY <2>1, <2>2, <2>3, <2>4
<1> QED BY <1>4, <1>5, <1>6, <1>7 DEF Once

\* The page is opened again and listens to nothing.
LEMMA ReopenStep ==
  ASSUME Once, Reopen
  PROVE  Once'
<1>1. \A e \in calls' : e \in Calls /\ e.heard = FALSE /\ \E b \in calls :
        e.id = b.id /\ e.payload = b.payload /\ e.at = b.at
  <2>1. ASSUME NEW b \in Calls, NEW e, e = [b EXCEPT !.heard = FALSE]
        PROVE  e \in Calls /\ e.heard = FALSE /\ e.id = b.id /\ e.payload = b.payload /\ e.at = b.at
    BY <2>1 DEF Calls
  <2>2. calls \subseteq Calls
    BY DEF Once, Typed
  <2>3. \A e \in calls' : \E b \in calls : e = [b EXCEPT !.heard = FALSE]
    BY DEF Reopen
  <2> QED
    <3> SUFFICES ASSUME NEW e \in calls'
                 PROVE  e \in Calls /\ e.heard = FALSE /\ \E b \in calls :
                          e.id = b.id /\ e.payload = b.payload /\ e.at = b.at
      OBVIOUS
    <3>1. PICK b \in calls : e = [b EXCEPT !.heard = FALSE]
      BY <2>3
    <3> QED BY <2>1, <2>2, <3>1
<1>2. /\ choice < MaxChoices /\ choice' = choice + 1 /\ reading' = None /\ selected' = None
      /\ receipt' = None /\ mode' = "append" /\ confirming' = FALSE /\ busy' = FALSE
      /\ UNCHANGED <<ids, told, stored>>
  BY Zenon DEF Reopen
<1>5. Typed'
  <2>1. calls' \subseteq Calls
    BY <1>1
  <2>2. choice' \in 0..MaxChoices
    BY <1>2 DEF Once, Typed
  <2>3. UNCHANGED <<lastId, drawn, told, receipts, applied>>
    BY <1>2 DEF ids, stored
  <2> QED BY <1>2, <2>1, <2>2, <2>3 DEF Once, Typed, Modes
<1>3. Listening' /\ Alone' /\ DrawnOnly' /\ OneContent' /\ Together'
  <2>1. Listening' /\ Alone'
    BY <1>1, <1>2 DEF Listening, Alone
  <2>2. DrawnOnly'
    BY <1>1, <1>2 DEF Once, DrawnOnly, ids, stored
  <2>3. OneContent'
    BY <1>1, <1>2 DEF Once, OneContent, stored
  <2>4. Together'
    BY <1>1, <1>2 DEF Once, Together, stored
  <2> QED BY <2>1, <2>2, <2>3, <2>4
<1>4. OncePerChoice'
  <2>1. /\ choice \in Int /\ \A id \in Ids : drawn[id] \in Int
    BY DEF Once, Typed
  <2> QED BY <1>2, <2>1 DEF Once, OncePerChoice, Unsent, ids
<1> QED BY <1>3, <1>4, <1>5 DEF Once

-----------------------------------------------------------------------------
\* Every step keeps the invariant.
LEMMA OnceStep ==
  ASSUME Once, [Next]_vars
  PROVE  Once'
<1>1. CASE UNCHANGED vars
  BY <1>1 DEF vars, screen, ids, stored, Once, Typed, Alone, Listening, DrawnOnly, OneContent, Together,
              OncePerChoice, Unsent, Payload
<1>2. CASE UserSteps
  BY <1>2, ChoosingStep, ImportStep, ReopenStep DEF UserSteps
<1>3. CASE CallSteps
  BY <1>3, ServerStep, AnswerStep DEF CallSteps
<1> QED BY <1>1, <1>2, <1>3 DEF Next

\* Nothing was chosen or sent at first.
LEMMA OnceInit ==
  ASSUME Init
  PROVE  Once
<1>1. Typed
  <2>1. [id \in Ids |-> 0] \in [Ids -> 0..MaxChoices] /\ [id \in Ids |-> 0] \in [Ids -> Nat]
    OBVIOUS
  <2>2. [id \in Ids |-> None] \in [Ids -> Payloads \cup {None}]
    OBVIOUS
  <2>3. 0 \in 0..MaxChoices /\ 0 \in 0..(MaxChoices + 1)
    OBVIOUS
  <2> QED BY <2>1, <2>2, <2>3 DEF Init, Typed, Modes
<1>2. Listening /\ Alone /\ DrawnOnly /\ OneContent /\ Together
  BY DEF Init, Listening, Alone, DrawnOnly, OneContent, Together
<1>3. OncePerChoice
  BY DEF Init, OncePerChoice, Ids
<1> QED BY <1>1, <1>2, <1>3 DEF Once

\* The inductive invariant: an id stands for one payload in the page, in every call
\* and in the table; rows and receipt come together; and a choice that has an id is
\* sent again only under that id.
THEOREM OnceInvariant == Spec => []Once
BY OnceInit, OnceStep, PTL DEF Spec

\* Every variable keeps its type, and the page is busy exactly while it listens to
\* a call.
THEOREM TypeCorrect == Spec => []TypeOK
<1>1. Once => TypeOK
  BY DEF Once, Typed, Listening, TypeOK
<1> QED BY <1>1, OnceInvariant, PTL

\* However often an import is repeated, and however late a lost request arrives, it
\* is written once for each choice, and reported only when it was (Backup.tsx,
\* importConfig).
THEOREM AppliedOnce == Spec => []AppliedOncePerChoice
<1>1. Once => AppliedOncePerChoice
  <2> SUFFICES ASSUME Once PROVE AppliedOncePerChoice
    OBVIOUS
  <2>1. \A id \in Ids : applied[id] \in {0, 1} /\ (applied[id] > 0 => receipts[id] # None)
    BY DEF Once, Together
  <2>2. \A id \in Ids : applied[id] > 0 => id <= lastId
    BY <2>1 DEF Once, DrawnOnly
  <2>3. \A id \in told : applied[id] = 1
    BY DEF Once, Together, Typed
  <2> QED BY <2>1, <2>2, <2>3 DEF Once, OncePerChoice, AppliedOncePerChoice
<1> QED BY <1>1, OnceInvariant, PTL

\* The server never meets an id with another content (importConfig's refusal).
THEOREM NothingRefused == Spec => []NeverRefused
<1>1. Once => NeverRefused
  BY DEF Once, Together, NeverRefused
<1> QED BY <1>1, OnceInvariant, PTL
=============================================================================
