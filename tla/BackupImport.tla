---------------------------- MODULE BackupImport ----------------------------
(***************************************************************************)
(* Importing a backup: the settings page that sends it (Backup.tsx) and    *)
(* the server that applies it once (importConfig).  The page keeps a       *)
(* requestId for what it would send now, so that a retry after a lost      *)
(* answer names the same import; the server stores the id as a receipt in  *)
(* the transaction that writes the imported rows.                          *)
(*                                                                         *)
(* What is sent is the payload: a file, a mode, and the parts the user     *)
(* ticked.  A choice is a number that grows with every change of those.    *)
(***************************************************************************)
EXTENDS Integers, FiniteSets

CONSTANTS
  Files,       \* backup files
  MaxChoices,  \* bound on how often the user changes the choice
  None

ASSUME ChoiceAssumption == MaxChoices \in Nat /\ None \notin Files

VARIABLES
  reading,    \* the file being read, or None
  selected,   \* the file that was read and the parts ticked, or None
  mode,       \* append to what is there, or replace it
  choice,     \* history: how often it was changed
  receipt,    \* receiptRef: a payload and its requestId, or None
  confirming, \* the question before everything is replaced
  busy,       \* the page waits for an answer
  lastId,     \* the request ids drawn so far are 1..lastId
  drawn,      \* history: drawn[id] is the choice that drew it
  told,       \* history: the ids the user was told have been imported
  calls,      \* the requests on their way
  receipts,   \* the server's table: receipts[id] is a payload or None
  applied     \* how often the server wrote the rows of import id

screen == <<reading, selected, mode, choice, receipt, confirming, busy>>
ids == <<lastId, drawn>>
stored == <<receipts, applied>>
vars == <<screen, ids, told, calls, stored>>

Ids == 1..(MaxChoices + 1)   \* bound

Modes == {"append", "replace"}
Selections == [file : Files, parts : {"all", "style"}]
Payloads == [chosen : Selections, mode : Modes]
Receipts == [payload : Payloads, id : Ids]

ASSUME NoneAssumption == None \notin Selections \cup Payloads \cup Receipts

\* What would be sent now.
Payload == [chosen |-> selected, mode |-> mode]

\* A call the page still listens to is heard; the server has done it, refused it
\* or failed, or it was only sent.
Calls == [id : Ids, payload : Payloads, heard : BOOLEAN,
          at : {"sent", "done", "refused", "failed"}]

Init ==
  /\ reading = None /\ selected = None /\ receipt = None
  /\ mode = "append" /\ choice = 0
  /\ confirming = FALSE /\ busy = FALSE
  /\ lastId = 0
  /\ drawn = [id \in Ids |-> 0]
  /\ told = {}
  /\ calls = {}
  /\ receipts = [id \in Ids |-> None]
  /\ applied = [id \in Ids |-> 0]

-----------------------------------------------------------------------------
(* Choosing.  The controls are disabled while the page is busy or asks.    *)

Free == ~busy /\ ~confirming

Choosing == Free /\ choice < MaxChoices /\ choice' = choice + 1

\* beforeUpload: what was selected goes at once; of files picked in a row the
\* last one counts.
PickFile(f) ==
  /\ Choosing
  /\ reading' = f
  /\ selected' = None
  /\ UNCHANGED <<mode, receipt, confirming, busy, ids, told, calls, stored>>

\* The file was read: it is a backup, or it is not.
FileRead ==
  /\ reading # None
  /\ reading' = None
  /\ \/ UNCHANGED <<selected, receipt>>
     \/ /\ selected' = [file |-> reading, parts |-> "all"]
        /\ receipt' = None
  /\ UNCHANGED <<mode, choice, confirming, busy, ids, told, calls, stored>>

ChangeMode ==
  /\ selected # None /\ Choosing
  /\ mode' \in Modes \ {mode}
  /\ receipt' = None
  /\ UNCHANGED <<reading, selected, confirming, busy, ids, told, calls, stored>>

ChangeParts ==
  /\ selected # None /\ Choosing
  /\ selected' = [selected EXCEPT !.parts = IF @ = "all" THEN "style" ELSE "all"]
  /\ UNCHANGED <<reading, mode, receipt, confirming, busy, ids, told, calls, stored>>

\* Replacing the navigation asks first; the question holds the payload.
MustAsk == mode = "replace" /\ selected.parts = "all"

Ask ==
  /\ selected # None /\ Free /\ MustAsk
  /\ confirming' = TRUE
  /\ UNCHANGED <<reading, selected, mode, choice, receipt, busy, ids, told, calls, stored>>

Cancel ==
  /\ confirming
  /\ confirming' = FALSE
  /\ UNCHANGED <<reading, selected, mode, choice, receipt, busy, ids, told, calls, stored>>

-----------------------------------------------------------------------------
(* Sending.                                                                *)

SameReceipt ==   \* mutant: the receipt is not compared with the payload
  IF receipt # None
  THEN UNCHANGED <<receipt, ids>>
  ELSE /\ lastId < MaxChoices + 1
       /\ lastId' = lastId + 1
       /\ drawn' = [drawn EXCEPT ![lastId + 1] = choice]
       /\ receipt' = [payload |-> Payload, id |-> lastId + 1]

\* The receipt of this payload, or a new one.
NextReceipt ==
  IF receipt # None /\ receipt.payload = Payload
  THEN UNCHANGED <<receipt, ids>>
  ELSE /\ lastId < MaxChoices + 1
       /\ lastId' = lastId + 1
       /\ drawn' = [drawn EXCEPT ![lastId + 1] = choice]
       /\ receipt' = [payload |-> Payload, id |-> lastId + 1]

\* doImport, from the button or from the question, which stays open after an
\* error.
DoImport ==
  /\ selected # None /\ ~busy
  /\ confirming = MustAsk
  /\ NextReceipt
  /\ busy' = TRUE
  /\ calls' = calls \cup {[id |-> receipt'.id, payload |-> Payload,
                           heard |-> TRUE, at |-> "sent"]}
  /\ UNCHANGED <<reading, selected, mode, choice, confirming, told, stored>>

Turn(c, d) == calls' = (calls \ {c}) \cup {d}

HandleReceiptAlone(c) ==   \* mutant: the receipt is not in the transaction of the rows
  /\ c.at = "sent"
  /\ \/ /\ receipts[c.id] = None
        /\ receipts' = [receipts EXCEPT ![c.id] = c.payload]
        /\ \E b \in BOOLEAN :
             /\ applied' = [applied EXCEPT ![c.id] = IF b THEN @ + 1 ELSE @]
             /\ Turn(c, [c EXCEPT !.at = IF b THEN "done" ELSE "failed"])
     \/ /\ receipts[c.id] # None
        /\ Turn(c, [c EXCEPT !.at = "done"])
        /\ UNCHANGED stored
  /\ UNCHANGED <<screen, ids, told>>

\* importConfig, one transaction under mutationMu: the receipt is new and the
\* rows are written with it, or the same request was handled before, or the id
\* stands for something else.
Handle(c) ==
  /\ c.at = "sent"
  /\ \/ /\ receipts[c.id] = None
        /\ receipts' = [receipts EXCEPT ![c.id] = c.payload]
        /\ applied' = [applied EXCEPT ![c.id] = @ + 1]
        /\ Turn(c, [c EXCEPT !.at = "done"])
     \/ /\ receipts[c.id] = c.payload
        /\ Turn(c, [c EXCEPT !.at = "done"])
        /\ UNCHANGED stored
     \/ /\ receipts[c.id] \notin {None, c.payload}
        /\ Turn(c, [c EXCEPT !.at = "refused"])
        /\ UNCHANGED stored
  /\ UNCHANGED <<screen, ids, told>>

\* Validation or a statement fails; the transaction leaves nothing behind.
HandleFails(c) ==
  /\ c.at = "sent"
  /\ Turn(c, [c EXCEPT !.at = "failed"])
  /\ UNCHANGED <<screen, ids, told, stored>>

AnsweredStillBusy(c) ==   \* mutant: no finally
  /\ c.at # "sent" /\ c.heard
  /\ calls' = calls \ {c}
  /\ IF c.at = "done"
     THEN /\ selected' = None /\ receipt' = None /\ confirming' = FALSE
          /\ told' = told \cup {c.id}
     ELSE UNCHANGED <<selected, receipt, confirming, told>>
  /\ UNCHANGED <<reading, mode, choice, busy, ids, stored>>

Answered(c) ==
  /\ c.at # "sent" /\ c.heard
  /\ calls' = calls \ {c}
  /\ busy' = FALSE
  /\ IF c.at = "done"
     THEN /\ selected' = None /\ receipt' = None /\ confirming' = FALSE
          /\ told' = told \cup {c.id}
     ELSE UNCHANGED <<selected, receipt, confirming, told>>
  /\ UNCHANGED <<reading, mode, choice, ids, stored>>

\* The connection breaks; the server may still handle what was sent.
Lost(c) ==
  /\ c.heard
  /\ Turn(c, [c EXCEPT !.heard = FALSE])
  /\ busy' = FALSE
  /\ UNCHANGED <<reading, selected, mode, choice, receipt, confirming, ids, told, stored>>

Unheard(c) ==
  /\ ~c.heard
  /\ calls' = calls \ {c}
  /\ UNCHANGED <<screen, ids, told, stored>>

\* The page is closed, its requests are aborted, and it is opened again.
Reopen ==
  /\ choice < MaxChoices
  /\ choice' = choice + 1
  /\ reading' = None /\ selected' = None /\ receipt' = None
  /\ mode' = "append" /\ confirming' = FALSE /\ busy' = FALSE
  /\ calls' = {[c EXCEPT !.heard = FALSE] : c \in calls}
  /\ UNCHANGED <<ids, told, stored>>

-----------------------------------------------------------------------------
UserSteps ==
  \/ \E f \in Files : PickFile(f)
  \/ FileRead \/ ChangeMode \/ ChangeParts \/ Ask \/ Cancel \/ DoImport \/ Reopen

CallSteps ==
  \E c \in calls :
    Handle(c) \/ HandleFails(c) \/ Answered(c) \/ Lost(c) \/ Unheard(c)

Next == UserSteps \/ CallSteps

Spec == Init /\ [][Next]_vars

-----------------------------------------------------------------------------
\* Every variable keeps its type, and the page is busy exactly while it listens
\* to a call.
TypeOK ==
  /\ reading \in Files \cup {None}
  /\ selected \in Selections \cup {None} /\ mode \in Modes
  /\ receipt \in Receipts \cup {None}
  /\ choice \in 0..MaxChoices /\ lastId \in 0..(MaxChoices + 1)
  /\ confirming \in BOOLEAN
  /\ drawn \in [Ids -> 0..MaxChoices]
  /\ told \subseteq Ids
  /\ calls \subseteq Calls
  /\ receipts \in [Ids -> Payloads \cup {None}]
  /\ applied \in [Ids -> Nat]
  /\ busy = \E c \in calls : c.heard

\* Whoever repeats an import, after an error or a lost answer and however late a
\* lost one arrives, imports nothing a second time as long as the choice stays
\* the same; and the page reports success only for an import that was written,
\* though a repeated one is answered from the receipt alone.
AppliedOncePerChoice ==
  /\ \A id \in Ids : applied[id] <= 1
  /\ \A a, b \in Ids :
       applied[a] > 0 /\ applied[b] > 0 /\ drawn[a] = drawn[b] => a = b
  /\ \A id \in told : applied[id] = 1

\* The page never repeats an id with another content, so the server never has to
\* ask the user to pick the file again.
NeverRefused == \A c \in calls : c.at # "refused"
=============================================================================
