----------------------------- MODULE Navigation -----------------------------
(***************************************************************************)
(* The navigation of each account: groups, and items that belong to a      *)
(* group and have a position (sort) in it.  Every write below runs under   *)
(* mutationMu, but what it writes was read in an earlier statement: the    *)
(* group is looked up before the transaction, the end of the destination   *)
(* before the update.  The readers take no mutex, and the first read of an *)
(* account that has no group yet writes: readGroups creates the group      *)
(* "APP" and moves every item into it.  Row ids are never used twice, so a *)
(* request can name rows that are gone when its turn comes.                *)
(***************************************************************************)
EXTENDS Integers, FiniteSets

CONSTANTS
  Users,
  Groups,        \* ids of group rows
  Items,         \* ids of item rows
  Reqs,          \* requests in flight at once
  MaxSort,       \* bound on positions
  NewSort,       \* the position of a new item (9999 in the code)
  Serializable,  \* TRUE: a transaction cannot write once another has committed
                 \* after its first read (SQLite); FALSE: it can (MySQL's
                 \* repeatable read)
  None, Gone     \* no row yet; soft-deleted row

ASSUME SortAssumption ==
  /\ MaxSort \in Nat
  /\ NewSort \in 0..MaxSort
  /\ Serializable \in BOOLEAN

ASSUME RowAssumption ==
  /\ Users \cap {None, Gone} = {}
  /\ None # Gone
  /\ None \notin Groups \cup Items \cup Reqs
  /\ IsFiniteSet(Items)   \* ids are machine integers

VARIABLES
  groupOwner,  \* groupOwner[g]: the account, None or Gone
  itemOwner,   \* itemOwner[i]: likewise
  itemGroup,   \* itemGroup[i]: item_icon_group_id
  sort,        \* sort[i]
  mutationMu,  \* the request that holds the mutex
  pc,          \* where each request is
  user,        \* the account it acts for
  op,          \* what it asks for
  end          \* the end of the destination, as Locate computed it

rows == <<groupOwner, itemOwner, itemGroup, sort>>
vars == <<groupOwner, itemOwner, itemGroup, sort, mutationMu, pc, user, op, end>>

Sorts == 0..MaxSort

Kinds == {"move", "edit", "add", "deleteItems", "saveSort", "addGroup",
          "deleteGroups", "append", "replace", "read"}

\* A request names the item to move or edit (item), the destination or the group
\* whose order is saved (group), the rows to delete or to order (items, groups), or
\* the groups of new items.
Asks(kinds, item, group, items, groups) ==
  [kind : kinds, item : item, group : group, items : items, groups : groups]

Ops ==
  LET no == {None}
      some(S) == SUBSET S \ {{}} IN
  Asks({"move", "edit"}, Items, Groups, {{}}, {{}})
  \cup Asks({"add"}, no, no, {{}}, some(Groups))
  \cup Asks({"deleteItems"}, no, no, some(Items), {{}})
  \cup Asks({"saveSort"}, no, Groups, some(Items), {{}})
  \cup Asks({"deleteGroups"}, no, Groups \cup no, {{}}, some(Groups))
  \cup Asks({"addGroup", "append", "replace", "read"}, no, no, {{}}, {{}})

NoOp == [kind |-> "read", item |-> None, group |-> None, items |-> {}, groups |-> {}]

\* The first stage under the mutex: Edit and AddMultiple look the group up
\* first, Move reads the item first, Deletes counts the groups first, and the
\* others only write.
Granted == [k \in Kinds |-> CASE k \in {"edit", "add"} -> "check"
                              [] k = "move" -> "locate"
                              [] k = "deleteGroups" -> "count"
                              [] OTHER -> "write"]

Locked == {"check", "locate", "count", "write"}

GroupsOf(u) == {g \in Groups : groupOwner[g] = u}
ItemsOf(u) == {i \in Items : itemOwner[i] = u}
Members(u, g) == {i \in ItemsOf(u) : itemGroup[i] = g}
Unborn(owners, ids) == {x \in ids : owners[x] = None}

AtNull(u, g) ==  \* mutant: no COALESCE, the end of an empty group is NULL
  IF Members(u, g) = {} THEN None
  ELSE CHOOSE n \in 0..(MaxSort + 1) : /\ \A i \in Members(u, g) : sort[i] < n
                                       /\ \E i \in Members(u, g) : sort[i] = n - 1

\* COALESCE(MAX(sort), -1) + 1
DestinationSort(u, g) ==
  IF Members(u, g) = {} THEN 0
  ELSE CHOOSE n \in 0..(MaxSort + 1) : /\ \A i \in Members(u, g) : sort[i] < n
                                       /\ \E i \in Members(u, g) : sort[i] = n - 1

Init ==
  /\ groupOwner = [g \in Groups |-> None]
  /\ itemOwner = [i \in Items |-> None]
  /\ itemGroup = [i \in Items |-> None]
  /\ sort = [i \in Items |-> 0]
  /\ mutationMu = None
  /\ pc = [r \in Reqs |-> "idle"]
  /\ user = [r \in Reqs |-> None]
  /\ op = [r \in Reqs |-> NoOp]
  /\ end = [r \in Reqs |-> 0]

(***************************************************************************)
(* Requests.                                                               *)
(***************************************************************************)
Born(owners, ids) == {x \in ids : owners[x] # None}

\* The ids a browser can send are those of rows that exist or once did.
Begin(r, u, o) ==
  /\ pc[r] = "idle"
  /\ {o.item} \cup o.items \subseteq Born(itemOwner, Items) \cup {None}
  /\ {o.group} \cup o.groups \subseteq Born(groupOwner, Groups) \cup {None}
  /\ pc' = [pc EXCEPT ![r] = IF o.kind = "read" THEN "read" ELSE "wait"]
  /\ user' = [user EXCEPT ![r] = u]
  /\ op' = [op EXCEPT ![r] = o]
  /\ UNCHANGED <<rows, mutationMu, end>>

AcquireExceptSort(r) ==   \* mutant: saveSort does not take the mutex
  /\ pc[r] = "wait"
  /\ mutationMu = None \/ op[r].kind = "saveSort"
  /\ mutationMu' = IF op[r].kind = "saveSort" THEN mutationMu ELSE r
  /\ pc' = [pc EXCEPT ![r] = Granted[op[r].kind]]
  /\ UNCHANGED <<rows, user, op, end>>

AcquireExceptDeletes(r) ==   \* mutant: itemIconGroup/deletes takes no lock
  /\ pc[r] = "wait"
  /\ mutationMu = None \/ op[r].kind = "deleteGroups"
  /\ mutationMu' = IF op[r].kind = "deleteGroups" THEN mutationMu ELSE r
  /\ pc' = [pc EXCEPT ![r] = Granted[op[r].kind]]
  /\ UNCHANGED <<rows, user, op, end>>

Acquire(r) ==
  /\ pc[r] = "wait"
  /\ mutationMu = None
  /\ mutationMu' = r
  /\ pc' = [pc EXCEPT ![r] = Granted[op[r].kind]]
  /\ UNCHANGED <<rows, user, op, end>>

Forget(r) ==
  /\ pc' = [pc EXCEPT ![r] = "idle"]
  /\ user' = [user EXCEPT ![r] = None]
  /\ op' = [op EXCEPT ![r] = NoOp]
  /\ end' = [end EXCEPT ![r] = 0]

Return(r) ==
  /\ Forget(r)
  /\ mutationMu' = IF mutationMu = r THEN None ELSE mutationMu

CommitUnseen(r) ==   \* mutant: the groups are read before the transaction
  Return(r)

\* A request that ends with the commit of its rows; where transactions are
\* serializable, the first reads that looked before it cannot write any more.
Commit(r) ==
  /\ pc' = [q \in Reqs |-> CASE q = r -> "idle"
                             [] q # r /\ pc[q] = "seed" /\ Serializable -> "overtaken"
                             [] OTHER -> pc[q]]
  /\ user' = [user EXCEPT ![r] = None]
  /\ op' = [op EXCEPT ![r] = NoOp]
  /\ end' = [end EXCEPT ![r] = 0]
  /\ mutationMu' = IF mutationMu = r THEN None ELSE mutationMu

\* A statement fails and the transaction rolls back.
Fail(r) ==
  /\ pc[r] # "idle" /\ pc[r] # "wait"
  /\ Return(r)
  /\ UNCHANGED rows

At(r, stage, kinds) == pc[r] = stage /\ op[r].kind \in kinds

\* Rows for the items in new, each in its home; before are the owners so far.
InsertItems(new, home, u, s, before) ==
  /\ itemOwner' = [i \in Items |-> IF i \in new THEN u ELSE before[i]]
  /\ itemGroup' = [i \in Items |-> IF i \in new THEN home[i] ELSE itemGroup[i]]
  /\ sort' = [i \in Items |-> IF i \in new THEN s ELSE sort[i]]

(***************************************************************************)
(* Items.                                                                  *)
(***************************************************************************)
OwnGroup(r) == ({op[r].group} \cup op[r].groups) \ {None} \subseteq GroupsOf(user[r])
OwnItem(r) == op[r].item \in ItemsOf(user[r])

\* ensureItemIconGroupsBelongToUser, before the transaction of Edit and AddMultiple.
CheckGroup(r) ==
  /\ At(r, "check", {"edit", "add"})
  /\ OwnGroup(r)
  /\ pc' = [pc EXCEPT ![r] = IF op[r].kind = "edit" THEN "locate" ELSE "write"]
  /\ UNCHANGED <<rows, mutationMu, user, op, end>>

RejectGroup(r) ==
  /\ At(r, "check", {"edit", "add"})
  /\ ~OwnGroup(r)
  /\ Return(r)
  /\ UNCHANGED rows

\* The transaction of Move and Edit reads the item, Move checks the destination,
\* and both compute its end.
Locate(r) ==
  /\ At(r, "locate", {"move", "edit"})
  /\ OwnItem(r)
  /\ op[r].kind = "move" => OwnGroup(r) /\ itemGroup[op[r].item] # op[r].group
  /\ DestinationSort(user[r], op[r].group) # MaxSort + 1   \* bound
  /\ end' = [end EXCEPT ![r] = DestinationSort(user[r], op[r].group)]
  /\ pc' = [pc EXCEPT ![r] = "write"]
  /\ UNCHANGED <<rows, mutationMu, user, op>>

\* No such item or destination, or it is there already.
LocateNothing(r) ==
  /\ At(r, "locate", {"move", "edit"})
  /\ \/ ~OwnItem(r)
     \/ op[r].kind = "move" /\ (~OwnGroup(r) \/ itemGroup[op[r].item] = op[r].group)
  /\ Return(r)
  /\ UNCHANGED rows

\* A change of group appends; an edit within the group may carry a position.
Place(r) ==
  /\ At(r, "write", {"move", "edit"})
  /\ LET i == op[r].item
         g == op[r].group IN
     /\ itemGroup' = [itemGroup EXCEPT ![i] = g]
     /\ \/ /\ itemGroup[i] # g
           /\ sort' = [sort EXCEPT ![i] = end[r]]
        \/ /\ itemGroup[i] = g
           /\ \E s \in Sorts : sort' = [sort EXCEPT ![i] = IF s = 0 THEN @ ELSE s]
  /\ Commit(r)
  /\ UNCHANGED <<groupOwner, itemOwner>>

\* Edit without an id gives its item NewSort; AddMultiple keeps the client's
\* positions.
Add(r) ==
  /\ At(r, "write", {"add"})
  /\ \E new \in SUBSET Unborn(itemOwner, Items) \ {{}}, s \in {0, NewSort} :
       \E home \in [new -> op[r].groups] : InsertItems(new, home, user[r], s, itemOwner)
  /\ Commit(r)
  /\ UNCHANGED groupOwner

DeleteItemsOfAnyone(r) ==   \* mutant: without user_id=?
  /\ At(r, "write", {"deleteItems"})
  /\ itemOwner' = [i \in Items |-> IF i \in op[r].items /\ itemOwner[i] # None
                                   THEN Gone ELSE itemOwner[i]]
  /\ Commit(r)
  /\ UNCHANGED <<groupOwner, itemGroup, sort>>

DeleteItems(r) ==
  /\ At(r, "write", {"deleteItems"})
  /\ itemOwner' = [i \in Items |-> IF i \in op[r].items \cap ItemsOf(user[r])
                                   THEN Gone ELSE itemOwner[i]]
  /\ Commit(r)
  /\ UNCHANGED <<groupOwner, itemGroup, sort>>

\* The positions 0, 1, ... in the order the browser shows; rows that have left
\* the group since do not match the WHERE clause.
SaveSort(r) ==
  /\ At(r, "write", {"saveSort"})
  /\ Cardinality(op[r].items) <= MaxSort + 1              \* bound
  /\ LET n == Cardinality(op[r].items)
         hit == op[r].items \cap Members(user[r], op[r].group) IN
     \E order \in [op[r].items -> 0..(n - 1)] :
       /\ \A i, j \in op[r].items : order[i] = order[j] => i = j
       /\ sort' = [i \in Items |-> IF i \in hit THEN order[i] ELSE sort[i]]
  /\ Commit(r)
  /\ UNCHANGED <<groupOwner, itemOwner, itemGroup>>

(***************************************************************************)
(* Groups.                                                                 *)
(***************************************************************************)
AddGroup(r) ==
  /\ At(r, "write", {"addGroup"})
  /\ \E g \in Unborn(groupOwner, Groups) :
       groupOwner' = [groupOwner EXCEPT ![g] = user[r]]
  /\ Commit(r)
  /\ UNCHANGED <<itemOwner, itemGroup, sort>>

Matched(r) == op[r].groups \cap GroupsOf(user[r])

\* Deletes reads the groups of the account, keeps one, and looks for the
\* destination among those that stay.
CountGroups(r) ==
  /\ At(r, "count", {"deleteGroups"})
  /\ Matched(r) \notin {{}, GroupsOf(user[r])}
  /\ op[r].group \in {None} \cup (GroupsOf(user[r]) \ op[r].groups)
  /\ pc' = [pc EXCEPT ![r] = "write"]
  /\ UNCHANGED <<rows, mutationMu, user, op, end>>

RefuseDeleteGroups(r) ==
  /\ At(r, "count", {"deleteGroups"})
  /\ \/ Matched(r) \in {{}, GroupsOf(user[r])}
     \/ op[r].group \notin {None} \cup (GroupsOf(user[r]) \ op[r].groups)
  /\ Return(r)
  /\ UNCHANGED rows

\* Then it writes: the items of the deleted groups go too, or move to the
\* destination and keep their positions.
DeleteGroups(r) ==
  /\ At(r, "write", {"deleteGroups"})
  /\ LET inside == {i \in ItemsOf(user[r]) : itemGroup[i] \in Matched(r)} IN
     \/ /\ op[r].group = None
        /\ itemOwner' = [i \in Items |-> IF i \in inside THEN Gone ELSE itemOwner[i]]
        /\ UNCHANGED itemGroup
     \/ /\ op[r].group # None
        /\ itemGroup' = [i \in Items |-> IF i \in inside THEN op[r].group ELSE itemGroup[i]]
        /\ UNCHANGED itemOwner
  /\ groupOwner' = [g \in Groups |-> IF g \in Matched(r) THEN Gone ELSE groupOwner[g]]
  /\ Commit(r)
  /\ UNCHANGED sort

\* The rows of u, soft-deleted.
Swept(owners, ids, u) == [x \in ids |-> IF owners[x] = u THEN Gone ELSE owners[x]]

\* importConfig, one transaction: a replacement, which has at least one group,
\* first deletes everything the account has; then the groups of the backup and
\* their items are created.
Import(r) ==
  /\ At(r, "write", {"append", "replace"})
  /\ LET replace == op[r].kind = "replace"
         oldGroups == IF replace THEN Swept(groupOwner, Groups, user[r]) ELSE groupOwner
         oldItems == IF replace THEN Swept(itemOwner, Items, user[r]) ELSE itemOwner IN
     \E gs \in SUBSET Unborn(groupOwner, Groups), new \in SUBSET Unborn(itemOwner, Items) :
       /\ replace => gs # {}
       /\ groupOwner' = [g \in Groups |-> IF g \in gs THEN user[r] ELSE oldGroups[g]]
       /\ \E home \in [new -> gs], s \in {0, NewSort} :
            InsertItems(new, home, user[r], s, oldItems)
  /\ Commit(r)

(***************************************************************************)
(* getList and getNavigation, without the mutex.                           *)
(***************************************************************************)
ReadGroups(r) ==
  /\ pc[r] = "read"
  /\ \/ GroupsOf(user[r]) # {} /\ Return(r)
     \/ /\ GroupsOf(user[r]) = {}
        /\ pc' = [pc EXCEPT ![r] = "seed"]
        /\ UNCHANGED <<mutationMu, user, op, end>>
  /\ UNCHANGED rows

\* It creates the group and moves the items of the account into it.
SeedGroup(r) ==
  /\ pc[r] = "seed"
  /\ \E g \in Unborn(groupOwner, Groups) :
       /\ groupOwner' = [groupOwner EXCEPT ![g] = user[r]]
       /\ itemGroup' = [i \in Items |-> IF i \in ItemsOf(user[r]) THEN g ELSE itemGroup[i]]
  /\ Commit(r)
  /\ UNCHANGED <<itemOwner, sort>>

\* The process dies; open transactions roll back.
Crash ==
  /\ mutationMu' = None
  /\ pc' = [r \in Reqs |-> "idle"]
  /\ user' = [r \in Reqs |-> None]
  /\ op' = [r \in Reqs |-> NoOp]
  /\ end' = [r \in Reqs |-> 0]
  /\ UNCHANGED rows

Step(r) ==
  \/ Acquire(r) \/ Fail(r)
  \/ CheckGroup(r) \/ RejectGroup(r) \/ Locate(r) \/ LocateNothing(r) \/ Place(r)
  \/ Add(r) \/ DeleteItems(r) \/ SaveSort(r)
  \/ AddGroup(r) \/ CountGroups(r) \/ RefuseDeleteGroups(r) \/ DeleteGroups(r) \/ Import(r)
  \/ ReadGroups(r) \/ SeedGroup(r)

Next ==
  \/ \E r \in Reqs :
       \/ \E u \in Users, o \in Ops : Begin(r, u, o)
       \/ Step(r)
  \/ Crash

Spec == Init /\ [][Next]_vars

-----------------------------------------------------------------------------
StoredTypes ==
  /\ groupOwner \in [Groups -> Users \cup {None, Gone}]
  /\ itemOwner \in [Items -> Users \cup {None, Gone}]
  /\ itemGroup \in [Items -> Groups \cup {None}]
  /\ sort \in [Items -> Sorts]

RequestTypes ==
  /\ mutationMu \in Reqs \cup {None}
  /\ pc \in [Reqs -> {"idle", "wait", "read", "seed", "overtaken"} \cup Locked]
  /\ user \in [Reqs -> Users \cup {None}]
  /\ op \in [Reqs -> Ops]
  /\ end \in [Reqs -> Sorts]

\* Every variable keeps its type.
TypeOK == StoredTypes /\ RequestTypes

\* Every item is in a group of its own account that exists, however a save of
\* the item and the deletion of its group overlap: Edit and AddMultiple look the
\* group up outside the transaction that writes the item.
NoLostItem ==
  \A i \in Items : itemOwner[i] \in Users =>
    itemGroup[i] \in Groups /\ groupOwner[itemGroup[i]] = itemOwner[i]

\* An account that has a group always has one, whatever it deletes or imports
\* at the same time from several tabs.
KeepsAGroup ==
  [][\A u \in Users : GroupsOf(u) # {} => GroupsOf(u)' # {}]_vars

\* An item that a request moves to another group stands behind everything that
\* is in that group when the move commits, so no saved order can slip in between
\* the computation of the end and the write.
MovedToTheEnd ==
  [][\A i \in Items, r \in Reqs :
       /\ At(r, "write", {"move", "edit"}) /\ op[r].item = i
       /\ itemGroup'[i] # itemGroup[i]
       => \A j \in Members(user[r], itemGroup'[i]) : sort[j] < sort'[i]]_vars

\* Items disappear only when their deletion, or that of their group without a
\* destination, or a replacement was asked for.
OnlyAskedForDeletions ==
  [][\A i \in Items :
       itemOwner[i] \in Users /\ itemOwner'[i] = Gone =>
         \E r \in Reqs :
           /\ user[r] = itemOwner[i]
           /\ \/ At(r, "write", {"deleteItems"}) /\ i \in op[r].items
              \/ At(r, "write", {"deleteGroups"}) /\ op[r].group = None
                                                  /\ itemGroup[i] \in op[r].groups
              \/ At(r, "write", {"replace"})]_vars

\* A read of the page creates a group only for an account that has none when the
\* group is stored, so overlapping first reads create one group, and a read that
\* found no group before an import takes no item out of the imported ones.  It
\* holds where transactions are serializable; MySQL lets both reads write.
OneFirstGroup ==
  [][\A r \in Reqs : pc[r] = "seed" /\ pc'[r] = "idle" /\ groupOwner' # groupOwner =>
       GroupsOf(user[r]) = {}]_vars
=============================================================================
