------------------------------ MODULE HomePage ------------------------------
(***************************************************************************)
(* One tab edits the navigation (Home.tsx, ItemActionMenu, ItemEditor, the  *)
(* groups page of the settings): what it shows is a cached read, every      *)
(* write is followed by another read, and both overlap with the writes of   *)
(* other tabs.  A write is sent, handled by the server and answered in      *)
(* separate steps; leaving the page gives up its calls, not their effect.   *)
(* The account and its snapshot are the matter of HomeCache: here the       *)
(* session lasts and a restored read starts out unverified.                 *)
(***************************************************************************)
EXTENDS FiniteSets, Naturals

CONSTANTS
  Items, Groups,
  MaxWrites,   \* bound on the writes of all tabs
  MaxOthers,   \* bound on the writes of other tabs
  Gone,        \* the place of an item that is deleted or not yet there
  None

ASSUME PageAssumption ==
  /\ None \notin Items \cup Groups /\ Gone \notin Groups
  /\ MaxWrites \in Nat /\ MaxOthers \in Nat

VARIABLES
  server,      \* the navigation of the account
  query,       \* the query ["groups"]: data, flags and the read under way
  page,        \* "home" or "groups", the mounted page
  menu,        \* itemMenu
  editor,      \* the open editor: its item and the group in its form
  asked,       \* the item or the group a dialog asks to delete
  sorting,     \* sortingGroupId
  calls,       \* the writes under way
  confirmed,   \* history: what this tab was told is stored, and still is
  moved,       \* history: the items among them whose last write was a move
  writes, others

ui == <<menu, editor, asked, sorting>>
vars == <<server, query, page, ui, calls, confirmed, moved, writes, others>>

\* The places of the items, a revision of each, and one of all the positions.
\* An id of the table is not given out again: ids.
Navs == [groups : SUBSET Groups, ids : SUBSET Groups, place : [Items -> Groups \cup {Gone}],
         text : [Items -> Nat], order : Nat]

ASSUME NavAssumption == None \notin Navs

Fact(nav, x) ==
  IF x \in Items THEN <<nav.place[x], nav.text[x]>>
  ELSE IF x \in Groups THEN x \in nav.groups ELSE nav.order

Facts == Items \cup Groups \cup {"order"}

\* The item of an add is chosen by the server.
Calls == [kind : {"move", "edit", "delete", "sort", "group"},
          on : Items \cup Groups \cup {None},
          to : Groups \cup {None}, at : {"sent", "stored", "refused", "refreshing"}, heard : BOOLEAN,
          holds : SUBSET Facts]   \* history: what it wrote and nobody has changed since

Busy(kind) == \E c \in calls : c.heard /\ c.kind = kind
Moving(i) == \E c \in calls : c.heard /\ c.kind = "move" /\ c.on = i

Refused == query.err = "refused"
Available == query.data # None /\ ~Refused
Closed == menu = None /\ editor = None /\ asked = None

-----------------------------------------------------------------------------
(* The query.                                                              *)

NoRead == [at |-> "none", nav |-> None]
ASent == [at |-> "sent", nav |-> None]

\* A first read under way is kept, another is started anew.
Refetch(q) == IF q.data = None /\ q.read # NoRead THEN q ELSE [q EXCEPT !.read = ASent]

Invalidated(q) == Refetch([q EXCEPT !.inval = TRUE])

\* The writes that waited for this read are over; an editor closes after its
\* own, a dialog after its own.
Waiting(kinds) == \E c \in calls : c.kind \in kinds /\ c.at = "refreshing"
Done == {c \in calls : c.at # "refreshing"}
Refreshed ==
  /\ calls' = Done
  /\ editor' = IF Waiting({"edit"}) THEN None ELSE editor
  /\ asked' = IF Waiting({"delete"}) THEN None ELSE asked

\* An unmounted component aborts its requests; the server may handle them yet.
Hushed(cs, kinds) ==
  {c \in cs : c.kind \notin kinds}
    \cup {[c EXCEPT !.heard = FALSE] : c \in {d \in cs : d.kind \in kinds /\ d.at = "sent"}}

\* A target that is not there any more, or being sorted, loses its menu.
Target(nav, m, s) == IF m # None /\ nav.place[m] \notin {Gone, s} THEN m ELSE None

Retry ==
  /\ query.read = NoRead
  /\ query' = Refetch(query)
  /\ UNCHANGED <<server, page, ui, calls, confirmed, moved, writes, others>>

HandleRead ==
  /\ query.read.at = "sent"
  /\ query' = [query EXCEPT !.read = [at |-> "handled", nav |-> server]]
  /\ UNCHANGED <<server, page, ui, calls, confirmed, moved, writes, others>>

ReadArrives ==
  /\ query.read.at = "handled"
  /\ query' = [data |-> query.read.nav, inval |-> FALSE, err |-> "none", unver |-> FALSE,
               read |-> NoRead]
  /\ menu' = Target(query.read.nav, menu, sorting)
  /\ Refreshed
  /\ UNCHANGED <<server, page, sorting, confirmed, moved, writes, others>>

ReadFails ==
  /\ query.read # NoRead
  /\ query' = [query EXCEPT !.err = "failed", !.read = NoRead]
  /\ Refreshed
  /\ UNCHANGED <<server, page, menu, sorting, confirmed, moved, writes, others>>

\* Refused reads hide the navigation and close what is open on it, except a
\* dialog that asks.
ReadRefused ==
  /\ query.read # NoRead
  /\ query' = [query EXCEPT !.err = "refused", !.read = NoRead]
  /\ calls' = Hushed(Done, {"edit"})
  /\ menu' = None /\ editor' = None /\ sorting' = None
  /\ asked' = IF Waiting({"delete"}) THEN None ELSE asked
  /\ UNCHANGED <<server, page, confirmed, moved, writes, others>>

-----------------------------------------------------------------------------
(* The home page.                                                          *)

\* A component that leaves the page takes what is open with it and hears
\* nothing.  The
\* new one reads what is missing, flagged or old; restored data do not reach
\* the settings.
Visit(p) ==
  /\ page # p
  /\ page' = p
  /\ menu' = None /\ editor' = None /\ asked' = None /\ sorting' = None
  /\ calls' = Hushed(Done, {"move", "edit", "delete", "sort", "group"})
  /\ LET left == [query EXCEPT !.read = NoRead]
         kept == IF p = "groups" /\ query.unver
                 THEN [left EXCEPT !.data = None, !.inval = FALSE, !.err = "none", !.unver = FALSE]
                 ELSE left
     IN query' \in IF kept.data = None \/ kept.inval THEN {Refetch(kept)}
                   ELSE {kept, Refetch(kept)}
  /\ UNCHANGED <<server, confirmed, moved, writes, others>>

Frozen == UNCHANGED <<server, query, page, confirmed, moved, others>>

OpenMenu(i) ==
  /\ page = "home" /\ Available /\ Closed
  /\ query.data.place[i] \notin {Gone, sorting}
  /\ menu' = i
  /\ Frozen /\ UNCHANGED <<editor, asked, sorting, calls, writes>>

\* Every way out of the menu: a choice, a key, a click elsewhere, a scroll.
Dismissed == menu' = None

CloseMenu ==
  /\ menu # None
  /\ Dismissed
  /\ Frozen /\ UNCHANGED <<editor, asked, sorting, calls, writes>>

EditWhileMoving(i) ==   \* mutant: the item may be on its way
  /\ menu = i /\ ~query.unver
  /\ menu' = None
  /\ editor' = [on |-> i, to |-> query.data.place[i], picked |-> FALSE]
  /\ Frozen /\ UNCHANGED <<asked, sorting, calls, writes>>

\* The form starts with the item as the page shows it.
Edit(i) ==
  /\ menu = i /\ ~query.unver /\ ~Moving(i)
  /\ Dismissed
  /\ editor' = [on |-> i, to |-> query.data.place[i], picked |-> FALSE]
  /\ Frozen /\ UNCHANGED <<asked, sorting, calls, writes>>

Add(g) ==
  /\ page = "home" /\ Available /\ Closed /\ ~query.unver /\ g \in query.data.groups
  /\ editor' = [on |-> None, to |-> g, picked |-> FALSE]
  /\ Frozen /\ UNCHANGED <<menu, asked, sorting, calls, writes>>

\* The form, which its own call disables, is there while the navigation is.
EditorOpen == editor # None /\ Available /\ ~Busy("edit")

PickNothing(g) ==   \* mutant: the selection can be emptied
  /\ EditorOpen /\ g \in query.data.groups \ {editor.to}
  /\ editor' = [editor EXCEPT !.to = None, !.picked = TRUE]
  /\ Frozen /\ UNCHANGED <<menu, asked, sorting, calls, writes>>

PickGroup(g) ==
  /\ EditorOpen /\ g \in query.data.groups \ {editor.to}
  /\ editor' = [editor EXCEPT !.to = g, !.picked = TRUE]
  /\ Frozen /\ UNCHANGED <<menu, asked, sorting, calls, writes>>

CloseEditor ==
  /\ EditorOpen
  /\ editor' = None
  /\ Frozen /\ UNCHANGED <<menu, asked, sorting, calls, writes>>

Call(kind, on, to) ==
  /\ writes + others < MaxWrites
  /\ writes' = writes + 1
  /\ calls' = calls \cup {[kind |-> kind, on |-> on, to |-> to, at |-> "sent",
                           heard |-> TRUE, holds |-> {}]}

\* The whole item goes with the form, its group included.
SubmitEdit ==
  /\ EditorOpen
  /\ Call("edit", editor.on, editor.to)
  /\ Frozen /\ UNCHANGED ui

\* One move at a time.
MoveItem(i, g) ==
  /\ menu = i /\ ~query.unver /\ ~Busy("move")
  /\ g \in query.data.groups \ {query.data.place[i]}
  /\ Dismissed
  /\ Call("move", i, g)
  /\ Frozen /\ UNCHANGED <<editor, asked, sorting>>

AskDelete(i) ==
  /\ menu = i /\ ~query.unver /\ ~Moving(i)
  /\ Dismissed
  /\ asked' = i
  /\ Frozen /\ UNCHANGED <<editor, sorting, calls, writes>>

DeleteItem ==
  /\ asked \in Items /\ ~Busy("delete")
  /\ Call("delete", asked, None)
  /\ Frozen /\ UNCHANGED ui

Cancel ==
  /\ asked # None /\ ~Busy("delete")
  /\ asked' = None
  /\ Frozen /\ UNCHANGED <<menu, editor, sorting, calls, writes>>

Sort(g) ==
  /\ page = "home" /\ Available /\ Closed /\ ~query.unver /\ ~Busy("sort")
  /\ g \in query.data.groups
  /\ sorting' = IF sorting = g THEN None ELSE g
  /\ Frozen /\ UNCHANGED <<menu, editor, asked, calls, writes>>

SaveSort ==
  /\ sorting # None /\ Available /\ Closed /\ ~Busy("sort")
  /\ Call("sort", sorting, None)
  /\ Frozen /\ UNCHANGED ui

-----------------------------------------------------------------------------
(* The groups page.                                                        *)

\* One state "busy" for the whole page.
Listed == page = "groups" /\ query.data # None /\ query.err = "none"

\* An order or a title, or a group to add: None.
SaveGroup(g) ==
  /\ Listed /\ asked = None /\ ~Busy("group") /\ ~Busy("delete")
  /\ g \in query.data.groups \cup {None}
  /\ Call("group", g, None)
  /\ Frozen /\ UNCHANGED ui

AskDeleteGroup(g) ==
  /\ Listed /\ asked = None /\ ~Busy("group") /\ ~Busy("delete")
  /\ g \in query.data.groups /\ Cardinality(query.data.groups) > 1
  /\ asked' = g
  /\ Frozen /\ UNCHANGED <<menu, editor, sorting, calls, writes>>

DeleteGroup(h) ==
  /\ Listed /\ asked \in Groups /\ ~Busy("delete")
  /\ h \in (query.data.groups \ {asked}) \cup {None}
  /\ Call("delete", asked, h)
  /\ Frozen /\ UNCHANGED ui

-----------------------------------------------------------------------------
(* The server handles a write (Navigation models it) and answers.          *)

Put(nav, i, g) == [nav EXCEPT !.place[i] = g, !.text[i] = @ + 1]

Absent(nav, x) == x \notin nav.groups /\ (x \in Items => nav.place[x] = Gone)

\* What a write makes of the navigation; a refused one makes nothing.  To delete
\* or to order what is gone changes nothing and succeeds.
Effects(nav, c) ==
  CASE c.kind = "move" /\ c.on \in Items /\ nav.place[c.on] # Gone /\ c.to \in nav.groups ->
         {[nav EXCEPT !.place[c.on] = c.to]}
    [] c.kind = "edit" /\ c.to \in nav.groups ->
         {Put(nav, i, c.to) : i \in {j \in Items : IF c.on = None
                                                   THEN nav.place[j] = Gone /\ nav.text[j] = 0
                                                   ELSE j = c.on /\ nav.place[j] # Gone}}
    [] c.kind = "delete" /\ c.on \in Items /\ nav.place[c.on] # Gone -> {Put(nav, c.on, Gone)}
    [] /\ c.kind = "delete" /\ c.on \in nav.groups
       /\ Cardinality(nav.groups) > 1 /\ c.to \in (nav.groups \ {c.on}) \cup {None} ->
         {[nav EXCEPT !.groups = @ \ {c.on},
                      !.place = [i \in Items |-> IF @[i] # c.on THEN @[i]
                                                 ELSE IF c.to = None THEN Gone ELSE c.to],
                      !.text = [i \in Items |-> IF nav.place[i] = c.on THEN @[i] + 1 ELSE @[i]]]}
    [] c.kind \in {"delete", "sort"} /\ Absent(nav, c.on) -> {nav}
    [] c.kind \in {"sort", "group"} /\ c.on \in nav.groups -> {[nav EXCEPT !.order = @ + 1]}
    [] c.kind = "group" /\ c.on = None ->
         {[nav EXCEPT !.groups = @ \cup {g}, !.ids = @ \cup {g}] : g \in Groups \ nav.ids}
    [] OTHER -> {}

Changed == {x \in Facts : Fact(server', x) # Fact(server, x)}

\* What was true of the changed facts is history.
Forgotten(cs) == {[d EXCEPT !.holds = @ \ Changed] : d \in cs}

Handle(c) ==
  /\ c.at = "sent"
  /\ LET rest == calls \ {c}
     IN IF Effects(server, c) = {}
        THEN /\ calls' = IF c.heard THEN rest \cup {[c EXCEPT !.at = "refused"]} ELSE rest
             /\ UNCHANGED <<server, confirmed, moved>>
        ELSE /\ server' \in Effects(server, c)
             /\ confirmed' = confirmed \ Changed
             /\ moved' = moved \ Changed
             /\ calls' = Forgotten(rest) \cup
                  {d \in {[c EXCEPT !.at = "stored", !.holds = Changed]} : c.heard}
  /\ UNCHANGED <<query, page, ui, writes, others>>

MoveNotShown(nav, i, g) ==   \* mutant: the place is left to the next read
  nav

\* The confirmed place goes into what is shown.
Merged(nav, i, g) ==
  IF nav # None /\ nav.place[i] # Gone /\ g \in nav.groups THEN [nav EXCEPT !.place[i] = g] ELSE nav

\* Reads begun before the move are cancelled, and who waited for them goes on.
MoveConfirmed(c) ==
  /\ c.kind = "move"
  /\ LET nav == Merged(query.data, c.on, c.to)
     IN /\ query' = Invalidated([query EXCEPT !.data = nav, !.err = "none", !.read = NoRead])
        /\ menu' = Target(nav, menu, sorting)
  /\ calls' = (Done \ {c}) \cup {[c EXCEPT !.at = "refreshing"]}
  /\ editor' = IF Waiting({"edit"}) THEN None ELSE editor
  /\ asked' = IF Waiting({"delete"}) THEN None ELSE asked
  /\ moved' = moved \cup (c.holds \cap Items)

OtherConfirmed(c) ==
  /\ c.kind # "move"
  /\ query' = Invalidated(query)
  /\ calls' = (calls \ {c}) \cup {[c EXCEPT !.at = "refreshing"]}
  /\ UNCHANGED <<menu, editor, asked, moved>>

Confirmed(c) ==
  /\ c.at = "stored"
  /\ MoveConfirmed(c) \/ OtherConfirmed(c)
  /\ confirmed' = confirmed \cup c.holds
  /\ UNCHANGED <<server, page, sorting, writes, others>>

\* The user is told; what was open stays open.
CallRefused(c) ==
  /\ c.at = "refused"
  /\ calls' = calls \ {c}
  /\ UNCHANGED <<server, query, page, ui, confirmed, moved, writes, others>>

\* The connection breaks; what was sent may be handled yet, or never.
CallLost(c) ==
  /\ c.heard /\ c.at \in {"sent", "stored"}
  /\ calls' = (calls \ {c}) \cup {d \in {[c EXCEPT !.heard = FALSE]} : d.at = "sent"}
  /\ UNCHANGED <<server, query, page, ui, confirmed, moved, writes, others>>

OtherTab ==
  /\ others < MaxOthers /\ writes + others < MaxWrites
  /\ others' = others + 1
  /\ \E kind \in {"move", "edit", "delete"}, on \in Items \cup Groups, to \in Groups :
       server' \in Effects(server, [kind |-> kind, on |-> on, to |-> to])
  /\ confirmed' = confirmed \ Changed
  /\ moved' = moved \ Changed
  /\ calls' = Forgotten(calls)
  /\ UNCHANGED <<query, page, ui, writes>>

-----------------------------------------------------------------------------
\* The page opens on a first read, or on restored data that it reads again.
Init ==
  /\ server \in UNION {[groups : {gs}, ids : {gs}, place : [Items -> gs \cup {Gone}],
                        text : {[i \in Items |-> 0]}, order : {0}] : gs \in SUBSET Groups \ {{}}}
  /\ query \in {[data |-> d, inval |-> d # None, err |-> "none", unver |-> d # None, read |-> ASent] :
                d \in {None, server}}
  /\ page = "home"
  /\ menu = None /\ editor = None /\ asked = None /\ sorting = None
  /\ calls = {} /\ confirmed = {} /\ moved = {}
  /\ writes = 0 /\ others = 0

Reads == Retry \/ HandleRead \/ ReadArrives \/ ReadFails \/ ReadRefused

Home ==
  \/ \E i \in Items : OpenMenu(i) \/ Edit(i) \/ AskDelete(i) \/ \E g \in Groups : MoveItem(i, g)
  \/ \E g \in Groups : Add(g) \/ PickGroup(g) \/ Sort(g)
  \/ CloseMenu \/ CloseEditor \/ SubmitEdit \/ DeleteItem \/ Cancel \/ SaveSort

GroupsPage ==
  \/ \E g \in Groups \cup {None} : SaveGroup(g) \/ DeleteGroup(g)
  \/ \E g \in Groups : AskDeleteGroup(g)

Network ==
  \E c \in calls : Handle(c) \/ Confirmed(c) \/ CallRefused(c) \/ CallLost(c)

Next == Reads \/ Home \/ GroupsPage \/ Network \/ OtherTab \/ \E p \in {"home", "groups"} : Visit(p)

Spec == Init /\ [][Next]_vars

-----------------------------------------------------------------------------
(* Properties.                                                             *)

\* Every variable keeps its type.
TypeOK ==
  /\ server \in Navs
  /\ query.data \in Navs \cup {None} /\ query.read.nav \in Navs \cup {None}
  /\ query.inval \in BOOLEAN /\ query.unver \in BOOLEAN /\ query.err \in {"none", "failed", "refused"}
  /\ menu \in Items \cup {None} /\ sorting \in Groups \cup {None}
  /\ asked \in Items \cup Groups \cup {None}
  /\ editor # None => /\ editor.on \in Items \cup {None} /\ editor.to \in Groups
                      /\ editor.picked \in BOOLEAN
  /\ calls \subseteq Calls
  /\ confirmed \subseteq Facts /\ moved \subseteq Items

\* What the server confirmed and still has is what the page shows, or the page
\* is reading it again or says that this failed; and a confirmed move is shown
\* at once, whatever becomes of the reads around it (moveItem).
ConfirmedIsShown ==
  /\ \A x \in confirmed : query.data # None /\ Fact(query.data, x) # Fact(server, x) => query.inval
  /\ \A i \in moved : query.data # None => query.data.place[i] = server.place[i]
  /\ query.inval => query.read # NoRead \/ query.err # "none"

\* A form whose group nobody touched does not take back a move that was
\* confirmed, though it sends the whole item as it was when the form opened.
EditKeepsMoves ==
  [][\A c \in calls' \ calls :
       c.kind = "edit" /\ c.at = "sent" /\ c.heard /\ c.on \in moved /\ ~editor.picked
         => c.to = server.place[c.on]]_vars

=============================================================================
