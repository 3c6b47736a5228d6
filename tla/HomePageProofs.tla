--------------------------- MODULE HomePageProofs ---------------------------
(* Theorems about HomePage, for any items, groups and numbers of writes. *)
EXTENDS HomePage, TLAPS

USE PageAssumption, NavAssumption

-----------------------------------------------------------------------------
(***************************************************************************)
(* What a write makes of the navigation.                                    *)
(***************************************************************************)
\* An item is in a group of the navigation, and a group has an id of the table.
Sound(nav) ==
  /\ nav \in Navs
  /\ nav.groups \subseteq nav.ids
  /\ \A i \in Items : nav.place[i] \in nav.groups \cup {Gone}

\* The life of an item: it is not yet there, then in a group, then deleted.
Lived(nav, i) == nav.place[i] # Gone \/ nav.text[i] > 0
Dead(nav, i) == nav.place[i] = Gone /\ nav.text[i] > 0

\* What is deleted does not come back: neither a group nor an item.
Older(a, b) ==
  /\ a.ids \subseteq b.ids
  /\ a.ids \cap b.groups \subseteq a.groups
  /\ \A i \in Items : /\ Lived(a, i) => Lived(b, i)
                      /\ Dead(a, i) => Dead(b, i)

\* A state is no newer than itself.
LEMMA OlderReflexive ==
  ASSUME NEW a
  PROVE  Older(a, a)
BY DEF Older

\* And older states of older ones are older.
LEMMA OlderTransitive ==
  ASSUME NEW a, NEW b, NEW c, Older(a, b), Older(b, c)
  PROVE  Older(a, c)
BY DEF Older

\* The writes, one by one.
LEMMA EffectCases ==
  ASSUME NEW nav, NEW c, NEW new \in Effects(nav, c)
  PROVE  \/ /\ c.on \in Items /\ nav.place[c.on] # Gone /\ c.to \in nav.groups
            /\ c.kind = "move" /\ new = [nav EXCEPT !.place[c.on] = c.to]
         \/ /\ c.kind = "edit" /\ c.to \in nav.groups
            /\ \E i \in Items : /\ \/ nav.place[i] = Gone /\ nav.text[i] = 0
                                   \/ nav.place[i] # Gone
                                /\ new = Put(nav, i, c.to)
         \/ /\ c.kind = "delete" /\ c.on \in Items /\ nav.place[c.on] # Gone
            /\ new = Put(nav, c.on, Gone)
         \/ /\ c.kind = "delete" /\ c.on \in nav.groups
            /\ c.to \in (nav.groups \ {c.on}) \cup {None}
            /\ new = [nav EXCEPT !.groups = @ \ {c.on},
                        !.place = [i \in Items |-> IF @[i] # c.on THEN @[i]
                                                   ELSE IF c.to = None THEN Gone ELSE c.to],
                        !.text = [i \in Items |-> IF nav.place[i] = c.on THEN @[i] + 1 ELSE @[i]]]
         \/ c.kind \in {"delete", "sort"} /\ new = nav
         \/ c.kind \in {"sort", "group"} /\ new = [nav EXCEPT !.order = @ + 1]
         \/ c.kind = "group" /\ \E g \in Groups \ nav.ids :
              new = [nav EXCEPT !.groups = @ \cup {g}, !.ids = @ \cup {g}]
<1>1. CASE c.kind = "move"
  BY <1>1 DEF Effects
<1>2. CASE c.kind = "edit"
  BY <1>2 DEF Effects
<1>3. CASE c.kind = "delete"
  BY <1>3 DEF Effects
<1>4. CASE c.kind = "sort"
  BY <1>4 DEF Effects
<1>5. CASE c.kind = "group"
  BY <1>5 DEF Effects
<1>6. CASE c.kind \notin {"move", "edit", "delete", "sort", "group"}
  BY <1>6 DEF Effects
<1> QED BY <1>1, <1>2, <1>3, <1>4, <1>5, <1>6

\* A write keeps the navigation sound and never brings back what is deleted.
LEMMA EffectKeeps ==
  ASSUME NEW nav, Sound(nav), NEW c, NEW new \in Effects(nav, c)
  PROVE  Sound(new) /\ Older(nav, new)
<1> USE DEF Sound, Navs
<1>1. ASSUME NEW i \in Items, NEW g \in nav.groups, new = [nav EXCEPT !.place[i] = g], nav.place[i] # Gone
      PROVE  Sound(new) /\ Older(nav, new)
  BY <1>1 DEF Older, Lived, Dead
<1>2. ASSUME NEW i \in Items, NEW g \in nav.groups \cup {Gone}, new = Put(nav, i, g),
             \/ nav.place[i] = Gone /\ nav.text[i] = 0
             \/ nav.place[i] # Gone
      PROVE  Sound(new) /\ Older(nav, new)
  <2>1. /\ new.groups = nav.groups /\ new.ids = nav.ids /\ new.order = nav.order
        /\ new.place = [nav.place EXCEPT ![i] = g] /\ new.text = [nav.text EXCEPT ![i] = nav.text[i] + 1]
        /\ new = [groups |-> new.groups, ids |-> new.ids, place |-> new.place, text |-> new.text,
                  order |-> new.order]
    BY <1>2 DEF Put
  <2>2. new.place \in [Items -> Groups \cup {Gone}] /\ new.text \in [Items -> Nat]
    BY <1>2, <2>1
  <2>3. new \in Navs
    BY <2>1, <2>2
  <2>4. \A j \in Items \ {i} : new.place[j] = nav.place[j] /\ new.text[j] = nav.text[j]
    BY <2>1
  <2>5. new.place[i] = g /\ new.text[i] = nav.text[i] + 1 /\ nav.text[i] \in Nat
    BY <2>1
  <2> HIDE DEF Navs
  <2> QED BY <1>2, <2>1, <2>3, <2>4, <2>5 DEF Older, Lived, Dead
<1>3. ASSUME c.on \in nav.groups, c.to \in (nav.groups \ {c.on}) \cup {None},
             new = [nav EXCEPT !.groups = @ \ {c.on},
                        !.place = [i \in Items |-> IF @[i] # c.on THEN @[i]
                                                   ELSE IF c.to = None THEN Gone ELSE c.to],
                        !.text = [i \in Items |-> IF nav.place[i] = c.on THEN @[i] + 1 ELSE @[i]]]
      PROVE  Sound(new) /\ Older(nav, new)
  <2>1. /\ new.groups = nav.groups \ {c.on} /\ new.ids = nav.ids /\ new.order = nav.order
        /\ new.place = [i \in Items |-> IF nav.place[i] # c.on THEN nav.place[i]
                                        ELSE IF c.to = None THEN Gone ELSE c.to]
        /\ new.text = [i \in Items |-> IF nav.place[i] = c.on THEN nav.text[i] + 1 ELSE nav.text[i]]
        /\ new = [groups |-> new.groups, ids |-> new.ids, place |-> new.place, text |-> new.text,
                  order |-> new.order]
    BY <1>3
  <2>2. new.place \in [Items -> Groups \cup {Gone}] /\ new.text \in [Items -> Nat]
    BY <1>3, <2>1
  <2>3. new \in Navs
    BY <2>1, <2>2
  <2>4. \A i \in Items :
          IF nav.place[i] = c.on
          THEN new.place[i] \in (nav.groups \ {c.on}) \cup {Gone} /\ new.text[i] = nav.text[i] + 1
          ELSE new.place[i] = nav.place[i] /\ new.text[i] = nav.text[i]
    BY <1>3, <2>1
  <2>5. \A i \in Items : nav.text[i] \in Nat
    OBVIOUS
  <2>6. c.on # Gone
    BY <1>3
  <2> HIDE DEF Navs
  <2> QED BY <1>3, <2>1, <2>3, <2>4, <2>5, <2>6 DEF Older, Lived, Dead
<1>4. CASE new = nav
  BY <1>4, OlderReflexive
<1>5. CASE new = [nav EXCEPT !.order = @ + 1]
  BY <1>5 DEF Older, Lived, Dead
<1>6. ASSUME NEW g \in Groups \ nav.ids, new = [nav EXCEPT !.groups = @ \cup {g}, !.ids = @ \cup {g}]
      PROVE  Sound(new) /\ Older(nav, new)
  <2>1. /\ new.groups = nav.groups \cup {g} /\ new.ids = nav.ids \cup {g} /\ new.order = nav.order
        /\ new.place = nav.place /\ new.text = nav.text
        /\ new = [groups |-> new.groups, ids |-> new.ids, place |-> new.place, text |-> new.text,
                  order |-> new.order]
    BY <1>6, ZenonT(40)
  <2>2. new \in Navs
    BY <2>1
  <2> HIDE DEF Navs
  <2> QED BY <1>6, <2>1, <2>2 DEF Older, Lived, Dead
<1> HIDE DEF Sound, Navs
<1>7. CASE c.kind = "move"
  BY <1>1, <1>7, EffectCases
<1>8. CASE c.kind = "edit"
  BY <1>2, <1>8, EffectCases
<1>9. CASE c.kind \in {"delete", "sort", "group"}
  BY <1>2, <1>3, <1>4, <1>5, <1>6, <1>9, EffectCases
<1> QED BY <1>7, <1>8, <1>9, EffectCases

-----------------------------------------------------------------------------
(***************************************************************************)
(* Types.                                                                  *)
(***************************************************************************)
Queries == [data : Navs \cup {None}, inval : BOOLEAN, err : {"none", "failed", "refused"},
            unver : BOOLEAN,
            read : [at : {"none", "sent", "handled"}, nav : Navs \cup {None}]]
Editors == [on : Items \cup {None}, to : Groups, picked : BOOLEAN]

UiTypes ==
  /\ menu \in Items \cup {None} /\ sorting \in Groups \cup {None}
  /\ asked \in Items \cup Groups \cup {None}
  /\ editor \in Editors \cup {None}
  /\ menu # None => query.data # None /\ query.data.place[menu] # Gone

Typed ==
  /\ Sound(server)
  /\ query \in Queries /\ page \in {"home", "groups"}
  /\ query.read.at = "handled" => query.read.nav \in Navs
  /\ UiTypes
  /\ calls \subseteq Calls
  /\ confirmed \subseteq Facts /\ moved \subseteq Items

\* A read that is sent anew.
LEMMA RefetchTypes ==
  ASSUME NEW q \in Queries
  PROVE  /\ Refetch(q) \in Queries /\ Refetch(q).data = q.data /\ Refetch(q).inval = q.inval
         /\ Refetch(q).err = q.err /\ Refetch(q).unver = q.unver
         /\ Refetch(q).read # NoRead
         /\ Refetch(q).read = q.read \/ Refetch(q).read.at = "sent"
         /\ q.data # None \/ q.read = NoRead => Refetch(q).read.at = "sent"
<1>1. ASent # NoRead /\ ASent.at = "sent" /\ ASent \in [at : {"none", "sent", "handled"}, nav : Navs \cup {None}]
  BY DEF ASent, NoRead
<1>2. CASE q.data = None /\ q.read # NoRead
  BY <1>2 DEF Refetch
<1>3. CASE ~(q.data = None /\ q.read # NoRead)
  <2>1. Refetch(q) = [q EXCEPT !.read = ASent]
    BY <1>3 DEF Refetch
  <2> QED BY <1>1, <1>3, <2>1 DEF Queries
<1> QED BY <1>2, <1>3

\* A call that is given up.
GivenUp(c) == [c EXCEPT !.heard = FALSE]

\* A call that is given up is still a call.
LEMMA GivenUpTypes ==
  ASSUME NEW c \in Calls
  PROVE  [c EXCEPT !.heard = FALSE] \in Calls
BY DEF Calls

\* Calls that are given up, or whose facts others have changed.
LEMMA CallSetTypes ==
  ASSUME NEW cs \in SUBSET Calls, NEW kinds
  PROVE  Hushed(cs, kinds) \subseteq Calls /\ Forgotten(cs) \subseteq Calls
<1>1. ASSUME NEW c \in Calls
      PROVE  [c EXCEPT !.heard = FALSE] \in Calls /\ [c EXCEPT !.holds = @ \ Changed] \in Calls
  BY DEF Calls
<1> QED BY <1>1 DEF Hushed, Forgotten

\* A write is sent.
NewCall(kind, on, to) ==
  [kind |-> kind, on |-> on, to |-> to, at |-> "sent", heard |-> TRUE, holds |-> {}]

\* A call that is sent is one more call.
LEMMA CallTypes ==
  ASSUME calls \subseteq Calls,
         NEW kind \in {"move", "edit", "delete", "sort", "group"},
         NEW on \in Items \cup Groups \cup {None}, NEW to \in Groups \cup {None},
         Call(kind, on, to)
  PROVE  /\ calls' = calls \cup {NewCall(kind, on, to)}
         /\ NewCall(kind, on, to) \in Calls
BY DEF Call, NewCall, Calls

\* The groups of a navigation.
LEMMA ShownGroups ==
  ASSUME Typed, query.data # None
  PROVE  /\ query.data \in Navs /\ query.data.groups \subseteq Groups
         /\ \A i \in Items : query.data.place[i] \in Groups \cup {Gone}
BY DEF Typed, Queries, Navs

\* What the user does on the two pages.
LEMMA PageTypes ==
  ASSUME Typed, Home \/ GroupsPage
  PROVE  Typed'
<1> USE DEF Typed, Frozen, ui, UiTypes
<1>1. CASE \E i \in Items : OpenMenu(i) \/ Edit(i) \/ AskDelete(i)
  <2> PICK i \in Items : OpenMenu(i) \/ Edit(i) \/ AskDelete(i)
    BY <1>1
  <2>1. CASE Edit(i)
    <3>1. editor' \in Editors \cup {None}
      BY <2>1, ShownGroups DEF Edit, Editors
    <3> QED BY <2>1, <3>1 DEF Edit, Dismissed
  <2> QED BY <2>1 DEF OpenMenu, AskDelete, Dismissed, Available
<1>2. CASE \E i \in Items, g \in Groups : MoveItem(i, g)
  BY <1>2, CallTypes DEF MoveItem, Dismissed
<1>3. CASE \E g \in Groups : Add(g)
  BY <1>3, ShownGroups DEF Add, Editors, Available
<1>4. CASE \E g \in Groups : PickGroup(g)
  <2> PICK g \in Groups : PickGroup(g)
    BY <1>4
  <2>1. editor \in Editors /\ editor' = [editor EXCEPT !.to = g, !.picked = TRUE]
    BY DEF PickGroup, EditorOpen
  <2>2. editor' \in Editors
    BY <2>1 DEF Editors
  <2> QED BY <2>2 DEF PickGroup
<1>5. CASE SubmitEdit
  <2>1. editor.on \in Items \cup {None} /\ editor.to \in Groups
    BY <1>5 DEF SubmitEdit, EditorOpen, Editors
  <2> QED BY <1>5, <2>1, CallTypes DEF SubmitEdit
<1>6. CASE DeleteItem \/ SaveSort
  BY <1>6, CallTypes DEF DeleteItem, SaveSort
<1>7. CASE (\E g \in Groups : Sort(g)) \/ CloseMenu \/ CloseEditor \/ Cancel
  BY <1>7 DEF Sort, CloseMenu, CloseEditor, Cancel, Dismissed
<1>8. CASE \E g \in Groups \cup {None} : SaveGroup(g) \/ DeleteGroup(g)
  BY <1>8, CallTypes DEF SaveGroup, DeleteGroup
<1>9. CASE \E g \in Groups : AskDeleteGroup(g)
  BY <1>9 DEF AskDeleteGroup
<1> QED BY <1>1, <1>2, <1>3, <1>4, <1>5, <1>6, <1>7, <1>8, <1>9 DEF Home, GroupsPage

\* A place that is confirmed goes into what is shown.
LEMMA MergedTypes ==
  ASSUME NEW nav \in Navs, NEW i \in Items, NEW g
  PROVE  /\ Merged(nav, i, g) \in Navs
         /\ Merged(nav, i, g).groups = nav.groups /\ Merged(nav, i, g).ids = nav.ids
         /\ Merged(nav, i, g).text = nav.text
         /\ \A j \in Items \ {i} : Merged(nav, i, g).place[j] = nav.place[j]
         /\ IF nav.place[i] # Gone /\ g \in nav.groups
            THEN Merged(nav, i, g).place[i] = g ELSE Merged(nav, i, g) = nav
BY DEF Merged, Navs

\* What the answers to reads and a change of page do.
LEMMA ReadTypes ==
  ASSUME Typed, Reads \/ \E p \in {"home", "groups"} : Visit(p)
  PROVE  Typed'
<1> USE DEF Typed, ui, UiTypes
<1>r. /\ NoRead \in [at : {"none", "sent", "handled"}, nav : Navs \cup {None}]
      /\ NoRead.at # "handled" /\ NoRead.at # "sent"
  BY DEF NoRead
<1>1. CASE Retry
  <2>1. query' = Refetch(query)
    BY <1>1 DEF Retry
  <2>2. query' \in Queries /\ query'.data = query.data /\ query'.read.at = "sent"
    BY <1>1, <2>1, RefetchTypes DEF Retry
  <2> QED BY <1>1, <2>2 DEF Retry
<1>2. CASE HandleRead
  <2>1. query' = [query EXCEPT !.read = [at |-> "handled", nav |-> server]]
    BY <1>2 DEF HandleRead
  <2>2. query' \in Queries /\ query'.data = query.data /\ query'.read.nav = server
    BY <2>1 DEF Queries, Sound
  <2> QED BY <1>2, <2>2 DEF HandleRead, Sound
<1>3. CASE ReadArrives
  <2>1. /\ query' = [data |-> query.read.nav, inval |-> FALSE, err |-> "none", unver |-> FALSE,
                     read |-> NoRead]
        /\ query.read.nav \in Navs
    BY <1>3 DEF ReadArrives
  <2>2. query' \in Queries /\ query'.data = query.read.nav /\ query'.read = NoRead
    BY <1>r, <2>1 DEF Queries
  <2>3. menu' = Target(query.read.nav, menu, sorting) /\ Refreshed
    BY <1>3 DEF ReadArrives
  <2> QED BY <1>3, <1>r, <2>1, <2>2, <2>3 DEF ReadArrives, Refreshed, Target, Done
<1>4. CASE ReadFails \/ ReadRefused
  <2>1. PICK e \in {"failed", "refused"} : query' = [query EXCEPT !.err = e, !.read = NoRead]
    BY <1>4 DEF ReadFails, ReadRefused
  <2>2. query' \in Queries /\ query'.data = query.data /\ query'.read = NoRead
    BY <1>r, <2>1 DEF Queries
  <2>3. calls' \subseteq Calls
    BY <1>4, CallSetTypes DEF ReadFails, ReadRefused, Refreshed, Done
  <2> QED BY <1>4, <1>r, <2>2, <2>3 DEF ReadFails, ReadRefused, Refreshed
<1>5. CASE \E p \in {"home", "groups"} : Visit(p)
  <2> PICK p \in {"home", "groups"} : Visit(p)
    BY <1>5
  <2>1. PICK kept : /\ kept \in {[query EXCEPT !.read = NoRead],
                                 [[query EXCEPT !.read = NoRead] EXCEPT
                                    !.data = None, !.inval = FALSE, !.err = "none", !.unver = FALSE]}
                    /\ query' \in {kept, Refetch(kept)}
    BY DEF Visit
  <2>2. kept \in Queries /\ kept.read = NoRead
    <3>1. PICK left : left = [query EXCEPT !.read = NoRead]
      OBVIOUS
    <3>2. left \in Queries /\ left.read = NoRead
      BY <1>r, <3>1 DEF Queries
    <3>3. CASE kept = left
      BY <3>2, <3>3
    <3>4. CASE kept = [left EXCEPT !.data = None, !.inval = FALSE, !.err = "none", !.unver = FALSE]
      BY <3>2, <3>4 DEF Queries
    <3> QED BY <2>1, <3>1, <3>3, <3>4
  <2>3. query' \in Queries /\ query'.read.at # "handled"
    BY <1>r, <2>1, <2>2, RefetchTypes
  <2>4. calls' \subseteq Calls
    BY CallSetTypes DEF Visit, Done
  <2> QED BY <2>3, <2>4 DEF Visit
<1> QED BY <1>1, <1>2, <1>3, <1>4, <1>5 DEF Reads

\* What the network and another tab do.
LEMMA NetworkTypes ==
  ASSUME Typed, Network \/ OtherTab,
         \A c \in calls : c.kind = "move" => c.on \in Items
  PROVE  Typed'
<1> USE DEF Typed, ui, UiTypes
<1>1. ASSUME NEW c \in calls, Handle(c)
      PROVE  Typed'
  <2>1. server' = server \/ server' \in Effects(server, c)
    BY <1>1 DEF Handle
  <2>2. Sound(server')
    BY <2>1, EffectKeeps
  <2>3. [c EXCEPT !.at = "refused"] \in Calls /\ [c EXCEPT !.at = "stored", !.holds = Changed] \in Calls
    BY DEF Calls, Changed
  <2>4. Forgotten(calls \ {c}) \subseteq Calls
    BY CallSetTypes
  <2>5. calls' \subseteq Calls
    BY <1>1, <2>3, <2>4 DEF Handle
  <2> QED BY <1>1, <2>2, <2>5 DEF Handle
<1>2. ASSUME NEW c \in calls, Confirmed(c)
      PROVE  Typed'
  <2>1. [c EXCEPT !.at = "refreshing"] \in Calls /\ c.holds \subseteq Facts
    BY DEF Calls
  <2>2. calls' \subseteq Calls
    BY <1>2, <2>1 DEF Confirmed, MoveConfirmed, OtherConfirmed, Done
  <2>3. CASE MoveConfirmed(c)
    <3> DEFINE nav == Merged(query.data, c.on, c.to)
    <3>1. query.data # None => nav \in Navs
      BY <2>3, MergedTypes DEF MoveConfirmed, Queries
    <3>2. query.data = None => nav = None
      BY DEF Merged
    <3>3. PICK q : /\ q = [[query EXCEPT !.data = nav, !.err = "none", !.read = NoRead] EXCEPT !.inval = TRUE]
                   /\ query' = Refetch(q)
      BY <2>3 DEF MoveConfirmed, Invalidated
    <3>4. nav \in Navs \cup {None}
      BY <3>1, <3>2 DEF Queries
    <3> HIDE DEF nav
    <3>5. q \in Queries /\ q.data = nav /\ q.read = NoRead
      BY <3>3, <3>4 DEF Queries, NoRead
    <3>6. query' \in Queries /\ query'.data = nav /\ query'.read.at = "sent"
      BY <3>3, <3>5, RefetchTypes
    <3>7. menu' = Target(nav, menu, sorting)
      BY <2>3 DEF MoveConfirmed, nav
    <3>8. menu' \in Items \cup {None} /\ (menu' # None => nav # None /\ nav.place[menu'] # Gone)
      BY <3>1, <3>7 DEF Target
    <3> QED BY <1>2, <2>1, <2>2, <2>3, <3>6, <3>8 DEF Confirmed, MoveConfirmed
  <2>4. CASE OtherConfirmed(c)
    <3>1. PICK q : q = [query EXCEPT !.inval = TRUE] /\ query' = Refetch(q)
      BY <2>4 DEF OtherConfirmed, Invalidated
    <3>2. q \in Queries /\ q.data = query.data /\ q.read = query.read
      BY <3>1 DEF Queries
    <3>3. query' \in Queries /\ query'.data = query.data
          /\ (query'.read = query.read \/ query'.read.at = "sent")
      BY <3>1, <3>2, RefetchTypes
    <3> QED BY <1>2, <2>1, <2>2, <2>4, <3>3 DEF Confirmed, OtherConfirmed
  <2> QED BY <1>2, <2>3, <2>4 DEF Confirmed
<1>3. ASSUME NEW c \in calls, CallRefused(c) \/ CallLost(c)
      PROVE  Typed'
  <2>1. c \in Calls
    OBVIOUS
  <2>4. [c EXCEPT !.heard = FALSE] \in Calls
    BY <2>1, GivenUpTypes
  <2>2. calls' \subseteq calls \cup {[c EXCEPT !.heard = FALSE]}
    BY <1>3 DEF CallRefused, CallLost
  <2>3. UNCHANGED <<server, query, page, ui, confirmed, moved>>
    BY <1>3 DEF CallRefused, CallLost
  <2> QED BY <2>4, <2>2, <2>3
<1>4. CASE OtherTab
  <2>1. PICK c : server' \in Effects(server, c)
    BY <1>4 DEF OtherTab
  <2>2. Sound(server')
    BY <2>1, EffectKeeps
  <2> QED BY <1>4, <2>2, CallSetTypes DEF OtherTab
<1> QED BY <1>1, <1>2, <1>3, <1>4 DEF Network

\* The types hold at first.
LEMMA TypedInit ==
  ASSUME Init
  PROVE  Typed
<1>1. Sound(server)
  <2>1. PICK gs \in SUBSET Groups :
          server \in [groups : {gs}, ids : {gs}, place : [Items -> gs \cup {Gone}],
                     text : {[i \in Items |-> 0]}, order : {0}]
    BY DEF Init
  <2> QED BY <2>1 DEF Sound, Navs
<1>2. query \in Queries /\ query.read.at = "sent" /\ menu = None
  <2>1. PICK d \in {None, server} :
          query = [data |-> d, inval |-> d # None, err |-> "none", unver |-> d # None, read |-> ASent]
    BY DEF Init
  <2>2. d \in Navs \cup {None} /\ ASent \in [at : {"none", "sent", "handled"}, nav : Navs \cup {None}]
        /\ ASent.at = "sent"
    BY <1>1 DEF Sound, ASent
  <2>3. query \in Queries /\ query.read = ASent
    BY <2>1, <2>2 DEF Queries
  <2> QED BY <2>2, <2>3 DEF Init
<1> QED BY <1>1, <1>2 DEF Init, Typed, UiTypes

-----------------------------------------------------------------------------
(***************************************************************************)
(* What is shown of what was confirmed.                                     *)
(***************************************************************************)
\* Nobody writes on data that are missing or were restored.
Untouched ==
  /\ query.data = None \/ query.unver =>
       calls = {} /\ confirmed = {} /\ editor = None /\ asked = None /\ sorting = None
  /\ page = "groups" => ~query.unver

\* What is shown is older than the read under way, and that than the server; a read
\* that was handled has what was confirmed.
Aged ==
  /\ query.data # None => query.data.groups \subseteq query.data.ids /\ Older(query.data, server)
  /\ query.read.at = "handled" =>
       /\ query.read.nav.groups \subseteq query.read.nav.ids /\ Older(query.read.nav, server)
       /\ query.data # None => Older(query.data, query.read.nav)
       /\ \A x \in confirmed : Fact(query.read.nav, x) = Fact(server, x)

\* A move is of an item and to a group that the page has seen; one at a time, and
\* not of the item that is edited.
MovesKnown ==
  \A c \in calls : c.kind = "move" =>
    /\ c.on \in Items /\ Lived(query.data, c.on) /\ c.to \in query.data.ids
    /\ c.heard => /\ editor # None => c.on # editor.on
                  /\ \A d \in calls : d.kind = "move" /\ d.heard => d = c

\* Only a call that is heard gets further than the server; a move that is stored
\* and whose item nobody has changed since is where it went.
CallsStored ==
  \A c \in calls :
    /\ IF c.at = "sent" THEN c.holds = {} ELSE c.heard
    /\ c.kind = "move" =>
         /\ c.holds \subseteq {c.on}
         /\ c.at = "stored" /\ c.on \in c.holds \cup moved => server.place[c.on] = c.to

\* A form whose group nobody touched has the item where the server has it.
EditorKeeps ==
  /\ menu # None => editor = None
  /\ editor # None /\ ~editor.picked /\ editor.on \in moved => editor.to = server.place[editor.on]

Known ==
  /\ Typed /\ Untouched /\ Aged /\ MovesKnown /\ CallsStored /\ EditorKeeps
  /\ moved \subseteq confirmed /\ ConfirmedIsShown

\* The calls go on or are given up.
LEMMA CallsGoOn ==
  ASSUME Known, NEW f,
         calls' \subseteq {f[c] : c \in calls},
         \A c \in calls : /\ f[c].kind = c.kind /\ f[c].on = c.on /\ f[c].to = c.to
                          /\ f[c].heard => c.heard,
         \A c \in calls : c.kind = "move" =>
           Lived(query'.data, c.on) /\ c.to \in query'.data.ids,
         editor' = editor \/ editor' = None
  PROVE  MovesKnown'
BY DEF Known, MovesKnown

\* A step of the user leaves the server, the query and what was confirmed alone.
LEMMA UserStep ==
  ASSUME Known, Typed', UNCHANGED <<server, query, page, confirmed, moved>>,
         query.data = None \/ query.unver =>
           calls' = {} /\ editor' = None /\ asked' = None /\ sorting' = None,
         menu' # None => editor' = None,
         \/ calls' = calls
         \/ \E kind \in {"move", "edit", "delete", "sort", "group"},
               on \in Items \cup Groups \cup {None}, to \in Groups \cup {None} :
              /\ calls' = calls \cup {NewCall(kind, on, to)}
              /\ editor' = editor
              /\ kind = "move" => /\ on \in Items /\ Lived(query.data, on) /\ to \in query.data.ids
                                  /\ ~Busy("move") /\ editor = None,
         \/ editor' = None
         \/ editor' = editor
         \/ editor # None /\ editor'.on = editor.on /\ editor'.picked
         \/ editor'.on = None
         \/ /\ editor'.on \in Items /\ ~Moving(editor'.on)
            /\ editor'.to = query.data.place[editor'.on]
  PROVE  Known'
<1> USE DEF Known
<1>1. Untouched' /\ Aged' /\ ConfirmedIsShown' /\ (moved \subseteq confirmed)'
  BY DEF Untouched, Aged, ConfirmedIsShown
<1>2. EditorKeeps'
  BY DEF EditorKeeps, Typed, ConfirmedIsShown, Untouched, Queries
<1>3. CASE calls' = calls
  <2>1. CallsStored'
    BY <1>3 DEF CallsStored
  <2>2. MovesKnown'
    BY <1>3 DEF MovesKnown, Moving
  <2> QED BY <1>1, <1>2, <2>1, <2>2
<1>4. ASSUME NEW kind \in {"move", "edit", "delete", "sort", "group"},
             NEW on \in Items \cup Groups \cup {None}, NEW to \in Groups \cup {None},
             calls' = calls \cup {NewCall(kind, on, to)}, editor' = editor,
             kind = "move" => /\ on \in Items /\ Lived(query.data, on) /\ to \in query.data.ids
                              /\ ~Busy("move") /\ editor = None
      PROVE  Known'
  <2>1. PICK new : new = NewCall(kind, on, to)
    OBVIOUS
  <2>2. /\ new.kind = kind /\ new.on = on /\ new.to = to /\ new.at = "sent" /\ new.heard
        /\ new.holds = {}
    BY <2>1 DEF NewCall
  <2>3. calls' = calls \cup {new}
    BY <1>4, <2>1
  <2>4. CallsStored'
    BY <2>2, <2>3 DEF CallsStored
  <2>5. MovesKnown'
    BY <1>4, <2>2, <2>3 DEF MovesKnown, Busy
  <2> QED BY <1>1, <1>2, <2>4, <2>5
<1> QED BY <1>3, <1>4

\* The steps of the user.
LEMMA UserSteps ==
  ASSUME Known, Typed', Home \/ GroupsPage
  PROVE  Known'
<1> USE DEF Known, Frozen, ui, Typed, UiTypes, EditorKeeps
<1>1. CASE \E i \in Items : OpenMenu(i) \/ AskDelete(i)
  <2> PICK i \in Items : OpenMenu(i) \/ AskDelete(i)
    BY <1>1
  <2>1. /\ UNCHANGED <<server, query, page, confirmed, moved, calls, editor, sorting>>
        /\ query.data # None
        /\ OpenMenu(i) => editor = None /\ UNCHANGED asked
        /\ AskDelete(i) => menu' = None /\ ~query.unver
    BY DEF OpenMenu, AskDelete, Closed, Available, Dismissed
  <2> QED BY <2>1, UserStep DEF Untouched
<1>2. CASE \E i \in Items : Edit(i)
  <2> PICK i \in Items : Edit(i)
    BY <1>2
  <2>1. /\ UNCHANGED <<server, query, page, confirmed, moved, calls, asked, sorting>>
        /\ query.data # None /\ menu' = None /\ ~query.unver /\ ~Moving(i)
        /\ editor'.on = i /\ editor'.to = query.data.place[i]
    BY DEF Edit, Dismissed
  <2> QED BY <2>1, UserStep
<1>3. CASE \E i \in Items, g \in Groups : MoveItem(i, g)
  <2> PICK i \in Items, g \in Groups : MoveItem(i, g)
    BY <1>3
  <2>1. /\ UNCHANGED <<server, query, page, confirmed, moved, editor, asked, sorting>>
        /\ query.data # None /\ menu' = None /\ ~query.unver /\ ~Busy("move") /\ editor = None
        /\ g \in query.data.groups /\ query.data.place[i] # Gone
        /\ calls' = calls \cup {NewCall("move", i, g)}
    BY DEF MoveItem, Dismissed, Call, NewCall
  <2>2. Lived(query.data, i)
    BY <2>1 DEF Lived
  <2>3. g \in query.data.ids
    BY <2>1 DEF Aged
  <2> QED BY <2>1, <2>2, <2>3, UserStep
<1>4. CASE \E g \in Groups : Add(g) \/ PickGroup(g) \/ Sort(g)
  <2> PICK g \in Groups : Add(g) \/ PickGroup(g) \/ Sort(g)
    BY <1>4
  <2>1. /\ UNCHANGED <<server, query, page, confirmed, moved, calls, asked, menu>>
        /\ query.data # None
    BY DEF Add, PickGroup, Sort, EditorOpen, Available
  <2>2. CASE Add(g)
    <3>1. editor'.on = None /\ menu = None /\ ~query.unver
      BY <2>2 DEF Add, Closed
    <3> QED BY <2>1, <3>1, UserStep
  <2>3. CASE PickGroup(g)
    <3>1. editor # None /\ editor' = [editor EXCEPT !.to = g, !.picked = TRUE]
      BY <2>3 DEF PickGroup, EditorOpen
    <3>2. editor'.on = editor.on /\ editor'.picked
      BY <3>1 DEF Editors
    <3> QED BY <2>1, <3>1, <3>2, UserStep DEF Untouched
  <2>4. CASE Sort(g)
    <3>1. UNCHANGED editor /\ ~query.unver
      BY <2>4 DEF Sort
    <3> QED BY <2>1, <3>1, UserStep
  <2> QED BY <2>2, <2>3, <2>4
<1>5. CASE SubmitEdit \/ DeleteItem \/ SaveSort
  <2>1. /\ UNCHANGED <<server, query, page, confirmed, moved, ui>>
        /\ query.data # None /\ ~query.unver
    BY <1>5 DEF SubmitEdit, DeleteItem, SaveSort, EditorOpen, Untouched
  <2>2. \E kind \in {"edit", "delete", "sort"},
           on \in Items \cup Groups \cup {None}, to \in Groups \cup {None} :
             calls' = calls \cup {NewCall(kind, on, to)}
    BY <1>5 DEF SubmitEdit, DeleteItem, SaveSort, EditorOpen, Call, NewCall, Editors
  <2> QED BY <2>1, <2>2, UserStep
<1>6. CASE CloseMenu \/ CloseEditor \/ Cancel
  <2>1. /\ UNCHANGED <<server, query, page, confirmed, moved, calls, sorting>>
        /\ editor' \in {editor, None} /\ asked' \in {asked, None} /\ menu' \in {menu, None}
    BY <1>6 DEF CloseMenu, CloseEditor, Cancel, Dismissed
  <2> QED BY <2>1, UserStep DEF Untouched
<1>7. CASE \E g \in Groups \cup {None} : SaveGroup(g) \/ DeleteGroup(g)
  <2>1. /\ UNCHANGED <<server, query, page, confirmed, moved, ui>>
        /\ query.data # None /\ ~query.unver
    BY <1>7 DEF SaveGroup, DeleteGroup, Listed, Untouched
  <2>2. \E kind \in {"group", "delete"},
           on \in Items \cup Groups \cup {None}, to \in Groups \cup {None} :
             calls' = calls \cup {NewCall(kind, on, to)}
    BY <1>7 DEF SaveGroup, DeleteGroup, Call, NewCall
  <2> QED BY <2>1, <2>2, UserStep
<1>8. CASE \E g \in Groups : AskDeleteGroup(g)
  <2>1. /\ UNCHANGED <<server, query, page, confirmed, moved, calls, menu, editor, sorting>>
        /\ query.data # None /\ ~query.unver
    BY <1>8 DEF AskDeleteGroup, Listed, Untouched
  <2> QED BY <2>1, UserStep DEF Untouched
<1> QED BY <1>1, <1>2, <1>3, <1>4, <1>5, <1>6, <1>7, <1>8 DEF Home, GroupsPage

\* A step that changes the server: what was changed is no longer confirmed.
LEMMA ServerStep ==
  ASSUME Known, Typed', UNCHANGED <<query, page, ui>>,
         server' = server \/ \E c : server' \in Effects(server, c),
         confirmed' = confirmed \ Changed, moved' = moved \ Changed
  PROVE  /\ Aged' /\ ConfirmedIsShown' /\ EditorKeeps' /\ (moved \subseteq confirmed)'
         /\ \A i \in Items \ Changed : server'.place[i] = server.place[i]
<1> USE DEF Known, ui
<1>1. Older(server, server')
  BY OlderReflexive, EffectKeeps DEF Typed
<1>2. \A x \in Facts \ Changed : Fact(server', x) = Fact(server, x)
  BY DEF Changed
<1>3. \A i \in Items \ Changed : server'.place[i] = server.place[i]
  BY <1>2 DEF Facts, Fact
<1>4. Aged'
  BY <1>1, <1>2, OlderTransitive DEF Aged, Typed
<1>5. ConfirmedIsShown'
  BY <1>2, <1>3 DEF ConfirmedIsShown, Typed
<1>6. EditorKeeps'
  BY <1>3 DEF EditorKeeps, Typed
<1> QED BY <1>3, <1>4, <1>5, <1>6

\* Another tab writes.
LEMMA OtherTabStep ==
  ASSUME Known, Typed', OtherTab
  PROVE  Known'
<1> USE DEF Known, ui
<1>1. /\ \E c : server' \in Effects(server, c)
      /\ confirmed' = confirmed \ Changed /\ moved' = moved \ Changed
      /\ calls' = Forgotten(calls) /\ UNCHANGED <<query, page, ui>>
  BY DEF OtherTab
<1>2. /\ Aged' /\ ConfirmedIsShown' /\ EditorKeeps' /\ (moved \subseteq confirmed)'
      /\ \A i \in Items \ Changed : server'.place[i] = server.place[i]
  BY <1>1, ServerStep
<1>3. PICK f : f = [c \in calls |-> [c EXCEPT !.holds = @ \ Changed]]
  OBVIOUS
<1>4. \A c \in calls : /\ f[c].kind = c.kind /\ f[c].on = c.on /\ f[c].to = c.to
                       /\ f[c].heard = c.heard /\ f[c].at = c.at /\ f[c].holds = c.holds \ Changed
  BY <1>3 DEF Typed, Calls
<1>5. calls' = {f[c] : c \in calls}
  BY <1>1, <1>3 DEF Forgotten
<1>6. MovesKnown'
  BY <1>1, <1>4, <1>5, CallsGoOn DEF MovesKnown
<1>7. CallsStored'
  BY <1>1, <1>2, <1>4, <1>5 DEF CallsStored, MovesKnown
<1>8. Untouched'
  BY <1>1, <1>5 DEF Untouched
<1> QED BY <1>2, <1>6, <1>7, <1>8

\* The server handles a call.
LEMMA HandleStep ==
  ASSUME Known, Typed', NEW c \in calls, Handle(c)
  PROVE  Known'
<1> USE DEF Known, ui
<1>1. UNCHANGED <<query, page, ui>> /\ c.at = "sent"
  BY DEF Handle
<1>2. CASE Effects(server, c) = {}
  <2>1. /\ calls' \in {(calls \ {c}) \cup {[c EXCEPT !.at = "refused"]}, calls \ {c}}
        /\ calls' # calls \ {c} => c.heard
        /\ UNCHANGED <<server, confirmed, moved>>
    BY <1>2 DEF Handle
  <2>2. PICK f : f = [d \in calls |-> IF d = c THEN [c EXCEPT !.at = "refused"] ELSE d]
    OBVIOUS
  <2>3. \A d \in calls : /\ f[d].kind = d.kind /\ f[d].on = d.on /\ f[d].to = d.to
                         /\ f[d].heard = d.heard /\ f[d].holds = d.holds
                         /\ f[d].at = d.at \/ (d = c /\ f[d].at = "refused")
    BY <2>2 DEF Typed, Calls
  <2>4. \A e \in calls' : \E d \in calls : e = f[d] /\ (d = c => c.heard)
    BY <2>1, <2>2
  <2>5. MovesKnown'
    BY <1>1, <2>3, <2>4, CallsGoOn DEF MovesKnown
  <2>6. CallsStored'
    BY <2>1, <2>3, <2>4 DEF CallsStored
  <2>7. Untouched' /\ Aged' /\ EditorKeeps' /\ ConfirmedIsShown'
    BY <1>1, <2>1 DEF Untouched, Aged, EditorKeeps, ConfirmedIsShown
  <2> QED BY <2>1, <2>5, <2>6, <2>7
<1>3. CASE Effects(server, c) # {}
  <2>1. /\ server' \in Effects(server, c)
        /\ confirmed' = confirmed \ Changed /\ moved' = moved \ Changed
        /\ calls' = Forgotten(calls \ {c}) \cup
                      {d \in {[c EXCEPT !.at = "stored", !.holds = Changed]} : c.heard}
    BY <1>3 DEF Handle
  <2>2. /\ Aged' /\ ConfirmedIsShown' /\ EditorKeeps' /\ (moved \subseteq confirmed)'
        /\ \A i \in Items \ Changed : server'.place[i] = server.place[i]
    BY <1>1, <2>1, ServerStep
  <2>3. PICK f : f = [d \in calls |-> IF d = c THEN [c EXCEPT !.at = "stored", !.holds = Changed]
                                      ELSE [d EXCEPT !.holds = @ \ Changed]]
    OBVIOUS
  <2>4. \A d \in calls : /\ f[d].kind = d.kind /\ f[d].on = d.on /\ f[d].to = d.to
                         /\ f[d].heard = d.heard
                         /\ IF d = c THEN f[d].at = "stored" /\ f[d].holds = Changed
                            ELSE f[d].at = d.at /\ f[d].holds = d.holds \ Changed
    BY <2>3 DEF Typed, Calls
  <2>5. \A e \in calls' : \E d \in calls : e = f[d] /\ (d = c => c.heard)
    BY <2>1, <2>3 DEF Forgotten
  <2>6. MovesKnown'
    BY <1>1, <2>4, <2>5, CallsGoOn DEF MovesKnown
  <2>7. c.kind = "move" => Changed \subseteq {c.on} /\ server'.place[c.on] = c.to
    <3> SUFFICES ASSUME c.kind = "move"
                 PROVE  Changed \subseteq {c.on} /\ server'.place[c.on] = c.to
      OBVIOUS
    <3>1. c.on \in Items /\ server' = [server EXCEPT !.place[c.on] = c.to]
      BY <2>1, EffectCases
    <3>2. \A i \in Items : server.place[i] = server'.place[i] \/ i = c.on
      BY <3>1 DEF Typed, Sound, Navs
    <3>3. server'.place[c.on] = c.to /\ server'.text = server.text /\ server'.groups = server.groups
          /\ server'.order = server.order
      BY <3>1 DEF Typed, Sound, Navs
    <3>4. \A x \in Facts : x # c.on => Fact(server', x) = Fact(server, x)
      BY <3>2, <3>3 DEF Fact, Facts
    <3> QED BY <3>3, <3>4 DEF Changed
  <2>8. CallsStored'
    <3> SUFFICES ASSUME NEW e \in calls'
                 PROVE  /\ IF e.at = "sent" THEN e.holds = {} ELSE e.heard
                        /\ e.kind = "move" =>
                             /\ e.holds \subseteq {e.on}
                             /\ e.at = "stored" /\ e.on \in e.holds \cup moved' =>
                                  server'.place[e.on] = e.to
      BY DEF CallsStored
    <3>1. PICK d \in calls : e = f[d] /\ (d = c => c.heard)
      BY <2>5
    <3>2. CASE d = c
      BY <2>4, <2>7, <3>1, <3>2
    <3>3. CASE d # c
      <4>1. /\ e.kind = d.kind /\ e.on = d.on /\ e.to = d.to /\ e.heard = d.heard
            /\ e.at = d.at /\ e.holds = d.holds \ Changed
        BY <2>4, <3>1, <3>3
      <4>2. d.kind = "move" => d.on \in Items
        BY DEF MovesKnown
      <4> QED BY <2>1, <2>2, <4>1, <4>2 DEF CallsStored
    <3> QED BY <3>2, <3>3
  <2>9. Untouched'
    BY <1>1, <2>1 DEF Untouched
  <2> QED BY <2>2, <2>6, <2>8, <2>9
<1> QED BY <1>2, <1>3

\* A move is confirmed: its place goes into what is shown, which is read again.
LEMMA MoveConfirmedStep ==
  ASSUME Known, Typed', NEW c \in calls, Confirmed(c), MoveConfirmed(c)
  PROVE  Known'
<1> USE DEF Known, ui
<1>0. /\ c.kind = "move" /\ c.at = "stored" /\ c.heard /\ c \in Calls /\ c.on \in Items
      /\ Lived(query.data, c.on) /\ c.to \in query.data.ids /\ c.holds \subseteq {c.on}
      /\ c.on \in c.holds \cup moved => server.place[c.on] = c.to
  BY DEF Confirmed, MoveConfirmed, CallsStored, MovesKnown, Typed
<1>1. query.data \in Navs /\ query.data # None /\ ~query.unver
  BY DEF Untouched, Typed, Queries
<1>2. PICK nav : nav = Merged(query.data, c.on, c.to)
  OBVIOUS
<1>3. /\ nav \in Navs /\ nav.groups = query.data.groups /\ nav.ids = query.data.ids
      /\ nav.text = query.data.text
      /\ \A j \in Items \ {c.on} : nav.place[j] = query.data.place[j]
      /\ IF query.data.place[c.on] # Gone /\ c.to \in query.data.groups
         THEN nav.place[c.on] = c.to ELSE nav = query.data
  BY <1>0, <1>1, <1>2, MergedTypes
<1>4. PICK q : /\ q = [[query EXCEPT !.data = nav, !.err = "none", !.read = NoRead] EXCEPT !.inval = TRUE]
               /\ query' = Refetch(q)
  BY <1>2 DEF MoveConfirmed, Invalidated
<1>5. /\ q \in Queries /\ q.data = nav /\ q.read = NoRead /\ q.inval /\ q.unver = query.unver
  BY <1>3, <1>4 DEF Typed, Queries, NoRead
<1>6. /\ query'.data = nav /\ query'.read.at = "sent" /\ query'.read # NoRead /\ query'.inval
      /\ query'.unver = query.unver
  BY <1>4, <1>5, RefetchTypes
<1>7. /\ UNCHANGED <<server, page, sorting>>
      /\ calls' = (Done \ {c}) \cup {[c EXCEPT !.at = "refreshing"]}
      /\ editor' \in {editor, None} /\ asked' \in {asked, None} /\ menu' \in {menu, None}
      /\ confirmed' = confirmed \cup c.holds /\ moved' = moved \cup (c.holds \cap Items)
  BY DEF Confirmed, MoveConfirmed, Target
<1>8. Untouched'
  BY <1>1, <1>3, <1>6, <1>7 DEF Untouched
<1>9. c.on \in moved' => nav.place[c.on] = server.place[c.on]
  <2> SUFFICES ASSUME c.on \in moved'
               PROVE  nav.place[c.on] = server.place[c.on]
    OBVIOUS
  <2>1. server.place[c.on] = c.to
    BY <1>0, <1>7
  <2>2. c.to \in Groups /\ c.to # Gone
    BY <1>0, <1>1 DEF Navs
  <2>3. c.to \in server.groups
    BY <1>0, <2>1, <2>2 DEF Typed, Sound
  <2>4. c.to \in query.data.groups
    BY <1>0, <1>1, <2>3 DEF Aged, Older
  <2>5. query.data.place[c.on] # Gone
    BY <1>0, <1>1, <2>1, <2>2 DEF Aged, Older, Lived, Dead
  <2> QED BY <1>3, <2>1, <2>4, <2>5
<1>20. \A j \in Items : /\ Lived(nav, j) <=> Lived(query.data, j)
                        /\ Dead(nav, j) <=> Dead(query.data, j)
  <2>1. c.to # Gone
    BY <1>0, <1>1 DEF Navs
  <2>2. \A j \in Items : /\ nav.text[j] = query.data.text[j]
                         /\ nav.place[j] = Gone <=> query.data.place[j] = Gone
    BY <1>3, <2>1
  <2> QED BY <2>2 DEF Lived, Dead
<1>10. Older(nav, server)
  BY <1>1, <1>3, <1>20 DEF Aged, Older
<1>11. Aged'
  BY <1>1, <1>3, <1>6, <1>7, <1>10 DEF Aged
<1>12. ConfirmedIsShown'
  <2>1. \A i \in moved' : nav.place[i] = server.place[i]
    BY <1>0, <1>1, <1>3, <1>7, <1>9 DEF ConfirmedIsShown, Typed
  <2> QED BY <1>6, <1>7, <2>1 DEF ConfirmedIsShown
<1>13. EditorKeeps'
  BY <1>0, <1>7 DEF EditorKeeps, MovesKnown
<1>14. PICK f : f = [d \in calls |-> IF d = c THEN [c EXCEPT !.at = "refreshing"] ELSE d]
  OBVIOUS
<1>15. \A d \in calls : /\ f[d].kind = d.kind /\ f[d].on = d.on /\ f[d].to = d.to
                        /\ f[d].heard = d.heard /\ f[d].holds = d.holds
                        /\ IF d = c THEN f[d].at = "refreshing" ELSE f[d] = d
  BY <1>14 DEF Typed, Calls
<1>16. \A e \in calls' : \E d \in calls : e = f[d]
  BY <1>7, <1>14 DEF Done
<1>17. \A d \in calls : d.kind = "move" => Lived(nav, d.on) /\ d.to \in nav.ids
  BY <1>3, <1>20 DEF MovesKnown
<1>18. MovesKnown'
  BY <1>6, <1>7, <1>15, <1>16, <1>17, CallsGoOn
<1>19. CallsStored'
  <2> SUFFICES ASSUME NEW e \in calls'
               PROVE  /\ IF e.at = "sent" THEN e.holds = {} ELSE e.heard
                      /\ e.kind = "move" =>
                           /\ e.holds \subseteq {e.on}
                           /\ e.at = "stored" /\ e.on \in e.holds \cup moved' =>
                                server.place[e.on] = e.to
    BY <1>7 DEF CallsStored
  <2>1. PICK d \in calls : e = f[d]
    BY <1>16
  <2>2. CASE d = c
    BY <1>0, <1>15, <2>1, <2>2
  <2>3. CASE d # c
    <3>1. e = d
      BY <1>15, <2>1, <2>3
    <3>2. ~(e.kind = "move" /\ e.heard)
      BY <1>0, <2>3, <3>1 DEF MovesKnown
    <3> QED BY <3>1, <3>2 DEF CallsStored
  <2> QED BY <2>2, <2>3
<1> QED BY <1>7, <1>8, <1>11, <1>12, <1>13, <1>18, <1>19

\* Another write is confirmed: what is shown is read again.
LEMMA OtherConfirmedStep ==
  ASSUME Known, Typed', NEW c \in calls, Confirmed(c), OtherConfirmed(c)
  PROVE  Known'
<1> USE DEF Known, ui
<1>0. c.kind # "move" /\ c.heard /\ query.data # None /\ ~query.unver
  BY DEF Confirmed, OtherConfirmed, CallsStored, Untouched
<1>1. PICK q : q = [query EXCEPT !.inval = TRUE] /\ query' = Refetch(q)
  BY DEF OtherConfirmed, Invalidated
<1>2. q \in Queries /\ q.data = query.data /\ q.inval /\ q.unver = query.unver
  BY <1>1 DEF Typed, Queries
<1>3. /\ query'.data = query.data /\ query'.read.at = "sent" /\ query'.read # NoRead /\ query'.inval
      /\ query'.unver = query.unver
  BY <1>0, <1>1, <1>2, RefetchTypes
<1>4. /\ UNCHANGED <<server, page, sorting, menu, editor, asked, moved>>
      /\ calls' = (calls \ {c}) \cup {[c EXCEPT !.at = "refreshing"]}
      /\ confirmed' = confirmed \cup c.holds
  BY DEF Confirmed, OtherConfirmed
<1>5. Untouched' /\ Aged' /\ EditorKeeps' /\ ConfirmedIsShown'
  BY <1>0, <1>3, <1>4 DEF Untouched, Aged, EditorKeeps, ConfirmedIsShown
<1>6. PICK f : f = [d \in calls |-> IF d = c THEN [c EXCEPT !.at = "refreshing"] ELSE d]
  OBVIOUS
<1>7. \A d \in calls : /\ f[d].kind = d.kind /\ f[d].on = d.on /\ f[d].to = d.to
                       /\ f[d].heard = d.heard
                       /\ IF d = c THEN f[d].at = "refreshing" ELSE f[d] = d
  BY <1>6 DEF Typed, Calls
<1>8. \A e \in calls' : \E d \in calls : e = f[d]
  BY <1>4, <1>6
<1>9. MovesKnown'
  BY <1>3, <1>4, <1>7, <1>8, CallsGoOn DEF MovesKnown
<1>10. CallsStored'
  BY <1>0, <1>4, <1>7, <1>8 DEF CallsStored
<1> QED BY <1>4, <1>5, <1>9, <1>10

\* A call is refused or lost.
LEMMA CallEnds ==
  ASSUME Known, Typed', NEW c \in calls, CallRefused(c) \/ CallLost(c)
  PROVE  Known'
<1> USE DEF Known, ui
<1>1. /\ UNCHANGED <<server, query, page, ui, confirmed, moved>>
      /\ calls' \subseteq (calls \ {c}) \cup {d \in {[c EXCEPT !.heard = FALSE]} : d.at = "sent"}
  BY DEF CallRefused, CallLost
<1>2. PICK f : f = [d \in calls |-> IF d = c THEN [c EXCEPT !.heard = FALSE] ELSE d]
  OBVIOUS
<1>3. \A d \in calls : /\ f[d].kind = d.kind /\ f[d].on = d.on /\ f[d].to = d.to
                       /\ f[d].heard => d.heard
                       /\ f[d].at = d.at /\ f[d].holds = d.holds
                       /\ d # c => f[d] = d
  BY <1>2 DEF Typed, Calls
<1>4. \A e \in calls' : \E d \in calls : e = f[d] /\ (d = c => e.at = "sent")
  BY <1>1, <1>2
<1>5. MovesKnown'
  BY <1>1, <1>3, <1>4, CallsGoOn DEF MovesKnown
<1>6. CallsStored'
  BY <1>1, <1>3, <1>4 DEF CallsStored
<1>7. Untouched' /\ Aged' /\ EditorKeeps' /\ ConfirmedIsShown'
  BY <1>1 DEF Untouched, Aged, EditorKeeps, ConfirmedIsShown
<1> QED BY <1>1, <1>5, <1>6, <1>7

\* Steps of the reads, which leave the server and what was confirmed alone and give
\* up calls at most.
LEMMA ReadStep ==
  ASSUME Known, Typed', UNCHANGED <<server, confirmed, moved>>,
         \A e \in calls' : \/ e \in calls
                           \/ ~e.heard /\ \E d \in calls : d.at = "sent" /\ e = GivenUp(d),
         editor' \in {editor, None}, menu' \in {menu, None},
         Aged', ConfirmedIsShown', Untouched',
         query.data # None /\ ~query.unver => query'.data # None /\ Older(query.data, query'.data)
  PROVE  Known'
<1> USE DEF Known
<1>1. EditorKeeps'
  BY DEF EditorKeeps
<1>2. \A e \in calls' : \E d \in calls :
        /\ e.kind = d.kind /\ e.on = d.on /\ e.to = d.to /\ e.holds = d.holds /\ e.at = d.at
        /\ e.heard => e = d
        /\ e = d \/ d.at = "sent"
  BY DEF Typed, Calls, GivenUp
<1>3. CallsStored'
  BY <1>2 DEF CallsStored
<1>4. \A d \in calls : d.kind = "move" => Lived(query'.data, d.on) /\ d.to \in query'.data.ids
  BY DEF MovesKnown, Untouched, Older
<1>5. MovesKnown'
  BY <1>2, <1>4 DEF MovesKnown
<1> QED BY <1>1, <1>3, <1>5

\* Calls that a page has given up.
LEMMA HushedCalls ==
  ASSUME NEW cs \in SUBSET Calls, NEW kinds, NEW d \in Hushed(cs, kinds)
  PROVE  \/ d \in cs
         \/ ~d.heard /\ \E c \in cs : c.at = "sent" /\ d = GivenUp(c)
<1>1. \A c \in Calls : [c EXCEPT !.heard = FALSE].heard = FALSE
  BY DEF Calls
<1> QED BY <1>1 DEF Hushed, GivenUp

\* The reads and a change of page.
LEMMA ReadSteps ==
  ASSUME Known, Typed', Reads \/ \E p \in {"home", "groups"} : Visit(p)
  PROVE  Known'
<1> USE DEF Known, ui
<1>n. NoRead.at = "none"
  BY DEF NoRead
<1>0. query.data # None => Older(query.data, query.data)
  BY OlderReflexive
<1>1. CASE Retry
  <2>1. /\ query' = Refetch(query) /\ query.read = NoRead
        /\ UNCHANGED <<server, page, ui, calls, confirmed, moved>>
    BY <1>1 DEF Retry
  <2>2. /\ query'.data = query.data /\ query'.inval = query.inval /\ query'.unver = query.unver
        /\ query'.read.at = "sent" /\ query'.read # NoRead
    BY <2>1, RefetchTypes DEF Typed
  <2>3. Untouched' /\ Aged' /\ ConfirmedIsShown'
    BY <2>1, <2>2 DEF Untouched, Aged, ConfirmedIsShown
  <2> QED BY <1>0, <2>1, <2>2, <2>3, ReadStep
<1>2. CASE HandleRead
  <2>1. /\ query' = [query EXCEPT !.read = [at |-> "handled", nav |-> server]]
        /\ UNCHANGED <<server, page, ui, calls, confirmed, moved>>
    BY <1>2 DEF HandleRead
  <2>2. /\ query'.data = query.data /\ query'.inval = query.inval /\ query'.unver = query.unver
        /\ query'.read.nav = server /\ query'.read # NoRead
    BY <1>n, <2>1 DEF Typed, Queries
  <2>3. Untouched' /\ ConfirmedIsShown'
    BY <2>1, <2>2 DEF Untouched, ConfirmedIsShown
  <2>4. Aged'
    BY <2>1, <2>2, OlderReflexive DEF Aged, Typed, Sound
  <2> QED BY <1>0, <2>1, <2>2, <2>3, <2>4, ReadStep
<1>3. CASE ReadArrives
  <2>1. /\ query.read.at = "handled"
        /\ query' = [data |-> query.read.nav, inval |-> FALSE, err |-> "none", unver |-> FALSE,
                     read |-> NoRead]
        /\ menu' \in {menu, None} /\ editor' \in {editor, None} /\ asked' \in {asked, None}
        /\ calls' \subseteq calls
        /\ UNCHANGED <<server, page, sorting, confirmed, moved>>
    BY <1>3 DEF ReadArrives, Refreshed, Done, Target
  <2>2. /\ query'.data = query.read.nav /\ query.read.nav # None /\ ~query'.inval /\ ~query'.unver
        /\ query'.read.at = "none"
    BY <1>n, <2>1 DEF Typed
  <2>3. Untouched' /\ Aged'
    BY <2>1, <2>2 DEF Untouched, Aged
  <2>4. ConfirmedIsShown'
    <3>1. \A i \in moved : query.read.nav.place[i] = server.place[i]
      BY <2>1 DEF Aged, Fact, Typed
    <3> QED BY <2>1, <2>2, <3>1 DEF Aged, ConfirmedIsShown
  <2> QED BY <2>1, <2>2, <2>3, <2>4, ReadStep DEF Aged
<1>4. CASE ReadFails \/ ReadRefused
  <2>1. PICK e \in {"failed", "refused"} : query' = [query EXCEPT !.err = e, !.read = NoRead]
    BY <1>4 DEF ReadFails, ReadRefused
  <2>2. /\ query'.data = query.data /\ query'.inval = query.inval /\ query'.unver = query.unver
        /\ query'.read.at = "none" /\ query'.err # "none"
    BY <1>n, <2>1 DEF Typed, Queries
  <2>3. /\ UNCHANGED <<server, page, confirmed, moved>>
        /\ menu' \in {menu, None} /\ editor' \in {editor, None} /\ asked' \in {asked, None}
        /\ sorting' \in {sorting, None}
        /\ calls' \in {Done, Hushed(Done, {"edit"})}
    BY <1>4 DEF ReadFails, ReadRefused, Refreshed
  <2>4. \A d \in calls' : \/ d \in calls
                          \/ ~d.heard /\ \E c \in calls : c.at = "sent" /\ d = GivenUp(c)
    BY <2>3, HushedCalls DEF Done, Typed
  <2>5. calls = {} => calls' = {}
    BY <2>4
  <2>6. Untouched' /\ Aged' /\ ConfirmedIsShown'
    BY <2>2, <2>3, <2>5 DEF Untouched, Aged, ConfirmedIsShown
  <2> QED BY <1>0, <2>2, <2>3, <2>4, <2>6, ReadStep
<1>5. CASE \E p \in {"home", "groups"} : Visit(p)
  <2> PICK p \in {"home", "groups"} : Visit(p)
    BY <1>5
  <2>1. /\ page' = p /\ UNCHANGED <<server, confirmed, moved>>
        /\ menu' = None /\ editor' = None /\ asked' = None /\ sorting' = None
        /\ calls' = Hushed(Done, {"move", "edit", "delete", "sort", "group"})
    BY DEF Visit
  <2>2. PICK kept :
          /\ kept = IF p = "groups" /\ query.unver
                    THEN [[query EXCEPT !.read = NoRead] EXCEPT
                            !.data = None, !.inval = FALSE, !.err = "none", !.unver = FALSE]
                    ELSE [query EXCEPT !.read = NoRead]
          /\ query' \in {kept, Refetch(kept)}
          /\ kept.data = None \/ kept.inval => query' = Refetch(kept)
    BY DEF Visit
  <2>3. /\ kept \in Queries /\ kept.read = NoRead
        /\ IF p = "groups" /\ query.unver
           THEN kept.data = None /\ ~kept.inval /\ ~kept.unver
           ELSE kept.data = query.data /\ kept.inval = query.inval /\ kept.unver = query.unver
    <3>1. NoRead \in [at : {"none", "sent", "handled"}, nav : Navs \cup {None}]
      BY DEF NoRead
    <3>2. PICK left : left = [query EXCEPT !.read = NoRead]
      OBVIOUS
    <3>4. /\ left \in Queries /\ left.read = NoRead /\ left.data = query.data
          /\ left.inval = query.inval /\ left.unver = query.unver
      BY <3>1, <3>2 DEF Typed, Queries
    <3>3. CASE p = "groups" /\ query.unver
      <4>1. kept = [left EXCEPT !.data = None, !.inval = FALSE, !.err = "none", !.unver = FALSE]
        BY <2>2, <3>2, <3>3
      <4> QED BY <3>3, <3>4, <4>1 DEF Queries
    <3> QED BY <2>2, <3>2, <3>3, <3>4
  <2>4. /\ query'.data = kept.data /\ query'.inval = kept.inval /\ query'.unver = kept.unver
        /\ query'.read.at \in {"none", "sent"}
        /\ query'.inval => query'.read # NoRead
    <3>1. query' \in {kept, Refetch(kept)} /\ (kept.inval => query' = Refetch(kept))
      BY <2>2
    <3> QED BY <1>n, <2>3, <3>1, RefetchTypes
  <2>5. \A d \in calls' : \/ d \in calls
                          \/ ~d.heard /\ \E c \in calls : c.at = "sent" /\ d = GivenUp(c)
    BY <2>1, HushedCalls DEF Done, Typed
  <2>6. calls = {} => calls' = {}
    BY <2>5
  <2>7. Untouched'
    BY <2>1, <2>3, <2>4, <2>6 DEF Untouched
  <2>8. Aged'
    BY <2>1, <2>3, <2>4 DEF Aged
  <2>9. ConfirmedIsShown'
    BY <2>1, <2>3, <2>4 DEF ConfirmedIsShown
  <2> QED BY <1>0, <2>1, <2>3, <2>4, <2>5, <2>7, <2>8, <2>9, ReadStep
<1> QED BY <1>1, <1>2, <1>3, <1>4, <1>5 DEF Reads

-----------------------------------------------------------------------------
\* Every step keeps what is known.
LEMMA KnownStep ==
  ASSUME Known, [Next]_vars
  PROVE  Known'
<1>1. CASE UNCHANGED vars
  BY <1>1 DEF vars, ui, Known, Typed, UiTypes, Untouched, Aged, MovesKnown, CallsStored, EditorKeeps,
              ConfirmedIsShown
<1>2. CASE Home \/ GroupsPage
  BY <1>2, PageTypes, UserSteps DEF Known
<1>3. CASE Reads \/ \E p \in {"home", "groups"} : Visit(p)
  BY <1>3, ReadTypes, ReadSteps DEF Known
<1>4. CASE Network \/ OtherTab
  <2>1. Typed'
    BY <1>4, NetworkTypes DEF Known, MovesKnown
  <2>2. ASSUME NEW c \in calls, Confirmed(c)
        PROVE  Known'
    BY <2>1, <2>2, MoveConfirmedStep, OtherConfirmedStep DEF Confirmed
  <2> QED BY <1>4, <2>1, <2>2, HandleStep, CallEnds, OtherTabStep DEF Network
<1> QED BY <1>1, <1>2, <1>3, <1>4 DEF Next

\* At first nobody has written anything.
LEMMA KnownInit ==
  ASSUME Init
  PROVE  Known
<1>1. Typed
  BY TypedInit
<1>2. /\ query.data \in {None, server} /\ query.read = ASent /\ query.read.at = "sent"
      /\ query.read # NoRead
  <2>1. ASent.at = "sent" /\ NoRead.at = "none"
    BY DEF ASent, NoRead
  <2> QED BY <2>1 DEF Init
<1>3. Untouched /\ MovesKnown /\ CallsStored /\ EditorKeeps /\ ConfirmedIsShown
  BY <1>2 DEF Init, Untouched, MovesKnown, CallsStored, EditorKeeps, ConfirmedIsShown
<1>4. Aged
  BY <1>1, <1>2, OlderReflexive DEF Aged, Typed, Sound
<1> QED BY <1>1, <1>3, <1>4 DEF Init, Known

\* The inductive invariant: what is shown is no newer than the read under way and
\* that no newer than the server, nothing deleted comes back, one move is under way
\* and not of the item that is edited, and a read that was handled has all that was
\* confirmed.
THEOREM KnownInvariant == Spec => []Known
BY KnownInit, KnownStep, PTL DEF Spec

\* Every variable keeps its type.
THEOREM TypeCorrect == Spec => []TypeOK
<1>1. Known => TypeOK
  <2> SUFFICES ASSUME Known PROVE TypeOK
    OBVIOUS
  <2>1. /\ query.data \in Navs \cup {None} /\ query.read.nav \in Navs \cup {None}
        /\ query.inval \in BOOLEAN /\ query.unver \in BOOLEAN
        /\ query.err \in {"none", "failed", "refused"}
    BY DEF Known, Typed, Queries
  <2> QED BY <2>1 DEF Known, Typed, UiTypes, Sound, Editors, TypeOK
<1> QED BY <1>1, KnownInvariant, PTL

\* What the server confirmed and still has is what the page shows, or the page is
\* reading it again or says that this failed; a confirmed move is shown at once.
THEOREM ConfirmedStaysShown == Spec => []ConfirmedIsShown
<1>1. Known => ConfirmedIsShown
  BY DEF Known
<1> QED BY <1>1, KnownInvariant, PTL

-----------------------------------------------------------------------------
\* What a call that is sent wrote is nothing yet: forgetting leaves it as it is.
LEMMA SentForgets ==
  ASSUME Known, NEW cs \in SUBSET calls, NEW e \in Forgotten(cs), e.at = "sent"
  PROVE  e \in calls
<1>1. PICK d \in cs : e = [d EXCEPT !.holds = @ \ Changed]
  BY DEF Forgotten
<1>2. d \in Calls /\ d \in calls
  BY DEF Known, Typed
<1>3. e.at = d.at
  BY <1>1, <1>2 DEF Calls
<1>4. d.holds = {}
  BY <1>2, <1>3 DEF Known, CallsStored
<1>5. e = d
  BY <1>1, <1>2, <1>4 DEF Calls
<1> QED BY <1>2, <1>5

\* A call that a step sends: only the form sends an edit.
LEMMA NewEdit ==
  ASSUME Known, [Next]_vars, NEW c \in calls' \ calls,
         c.kind = "edit", c.at = "sent", c.heard
  PROVE  /\ editor # None /\ c.on = editor.on /\ c.to = editor.to
<1> USE DEF Known
<1>1. CASE UNCHANGED vars
  BY <1>1 DEF vars
<1>2. CASE Home
  <2>1. CASE SubmitEdit
    <3>1. editor # None /\ calls' = calls \cup {NewCall("edit", editor.on, editor.to)}
      BY <2>1 DEF SubmitEdit, EditorOpen, Call, NewCall
    <3> QED BY <3>1 DEF NewCall
  <2>2. CASE (\E i \in Items, g \in Groups : MoveItem(i, g)) \/ DeleteItem \/ SaveSort
    <3>1. \E kind, on, to : kind \in {"move", "delete", "sort"} /\ calls' = calls \cup {NewCall(kind, on, to)}
      BY <2>2 DEF MoveItem, DeleteItem, SaveSort, Call, NewCall
    <3> QED BY <3>1 DEF NewCall
  <2>3. CASE UNCHANGED calls
    BY <2>3
  <2> QED BY <1>2, <2>1, <2>2, <2>3 DEF Home, OpenMenu, Edit, AskDelete, Add, PickGroup, Sort, CloseMenu,
             CloseEditor, Cancel
<1>3. CASE GroupsPage
  <2>1. \/ UNCHANGED calls
        \/ \E kind, on, to : kind \in {"group", "delete"} /\ calls' = calls \cup {NewCall(kind, on, to)}
    BY <1>3 DEF GroupsPage, SaveGroup, DeleteGroup, AskDeleteGroup, Call, NewCall
  <2> QED BY <2>1 DEF NewCall
<1>4. CASE Reads \/ \E p \in {"home", "groups"} : Visit(p)
  <2>1. calls' \subseteq calls \/ \E kinds : calls' \subseteq Hushed(Done, kinds)
    BY <1>4 DEF Reads, Retry, HandleRead, ReadArrives, ReadFails, ReadRefused, Visit, Refreshed, Done
  <2>2. Done \in SUBSET Calls /\ Done \subseteq calls
    BY DEF Done, Typed
  <2> QED BY <2>1, <2>2, HushedCalls
<1>5. CASE OtherTab
  BY <1>5, SentForgets DEF OtherTab
<1>6. ASSUME NEW d \in calls, Handle(d)
      PROVE  FALSE
  <2>1. c \in (calls \ {d}) \cup Forgotten(calls \ {d})
             \cup {[d EXCEPT !.at = "refused"], [d EXCEPT !.at = "stored", !.holds = Changed]}
    BY <1>6 DEF Handle
  <2>2. d \in Calls
    BY DEF Typed
  <2>3. [d EXCEPT !.at = "refused"].at # "sent" /\ [d EXCEPT !.at = "stored", !.holds = Changed].at # "sent"
    BY <2>2 DEF Calls
  <2> QED BY <2>1, <2>3, SentForgets
<1>7. ASSUME NEW d \in calls, Confirmed(d) \/ CallRefused(d) \/ CallLost(d)
      PROVE  FALSE
  <2>1. c \in calls \cup {[d EXCEPT !.at = "refreshing"], GivenUp(d)}
    BY <1>7 DEF Confirmed, MoveConfirmed, OtherConfirmed, CallRefused, CallLost, Done, GivenUp
  <2>2. [d EXCEPT !.at = "refreshing"].at # "sent" /\ ~GivenUp(d).heard
    BY DEF Typed, Calls, GivenUp
  <2> QED BY <2>1, <2>2
<1> QED BY <1>1, <1>2, <1>3, <1>4, <1>5, <1>6, <1>7 DEF Next, Network

\* A form whose group nobody touched does not take back a move that was confirmed.
THEOREM EditsKeepMoves == Spec => EditKeepsMoves
<1>1. Known /\ [Next]_vars =>
        [\A c \in calls' \ calls :
           c.kind = "edit" /\ c.at = "sent" /\ c.heard /\ c.on \in moved /\ ~editor.picked
             => c.to = server.place[c.on]]_vars
  BY NewEdit DEF Known, EditorKeeps
<1> QED BY <1>1, KnownInvariant, PTL DEF Spec, EditKeepsMoves
=============================================================================
