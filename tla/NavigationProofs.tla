-------------------------- MODULE NavigationProofs --------------------------
(***************************************************************************)
(* Proofs about Navigation, for any accounts, rows, requests and           *)
(* positions: an item is in a living group of its own account, an account  *)
(* keeps a group, nothing vanishes unasked, and a move goes to the end.    *)
(***************************************************************************)
EXTENDS Navigation, FiniteSetTheorems, WellFoundedInduction, TLAPS

USE SortAssumption, RowAssumption

\* A request under the mutex is the one that holds it.
Held == \A r \in Reqs : pc[r] \in Locked => mutationMu = r

\* A request under way is of an account.
Acting == \A r \in Reqs : pc[r] # "idle" => user[r] \in Users

\* The group an item is about to be put into was looked up, in an earlier
\* statement, and still is of the account.
Owned ==
  \A r \in Reqs :
    \/ At(r, "write", {"move", "edit", "add"})
    \/ At(r, "locate", {"edit"})
    => OwnGroup(r)

\* The item to be placed is still of the account.
Present == \A r \in Reqs : At(r, "write", {"move", "edit"}) => OwnItem(r)

\* The end that was computed still is behind everything in the destination.
Ahead ==
  \A r \in Reqs : At(r, "write", {"move", "edit"}) =>
    \A j \in Members(user[r], op[r].group) : sort[j] < end[r]

\* The groups that were counted still are there: one that stays, and the destination.
Counted ==
  \A r \in Reqs : At(r, "write", {"deleteGroups"}) =>
    /\ Matched(r) # GroupsOf(user[r])
    /\ op[r].group \in {None} \cup (GroupsOf(user[r]) \ op[r].groups)

\* Nothing was committed since a first read that can still write found no group.
Unseen ==
  Serializable => \A r \in Reqs : pc[r] = "seed" => GroupsOf(user[r]) = {}

Orderly ==
  /\ TypeOK /\ NoLostItem /\ Held /\ Acting
  /\ Owned /\ Present /\ Ahead /\ Counted /\ Unseen

-----------------------------------------------------------------------------
(***************************************************************************)
(* The operators of the model.                                             *)
(***************************************************************************)
Before == {p \in Nat \X Nat : p[1] < p[2]}

\* A set of naturals has a least element.
LEMMA LeastNat ==
  ASSUME NEW S, S \subseteq Nat, S # {}
  PROVE  \E n \in S : \A m \in S : n <= m
<1>1. IsWellFoundedOn(Before, Nat)
  <2>1. Before = OpToRel(<, Nat)
    BY DEF Before, OpToRel
  <2> QED BY <2>1, NatLessThanWellFounded
<1>2. PICK n \in S : \A m \in S : ~ (<<m, n>> \in Before)
  <2> HIDE DEF Before
  <2> QED BY <1>1, WFMin
<1>3. \A m \in S : n <= m
  <2> TAKE m \in S
  <2>1. n \in Nat /\ m \in Nat /\ <<m, n>> \notin Before
    BY <1>2
  <2>2. <<m, n>> \in Nat \X Nat /\ <<m, n>>[1] = m /\ <<m, n>>[2] = n
    BY <2>1
  <2>3. ~ (m < n)
    BY <2>1, <2>2 DEF Before
  <2> QED BY <2>1, <2>3
<1> QED BY <1>3

\* What every request asks for.
LEMMA OpTypes ==
  ASSUME NEW o \in Ops
  PROVE  /\ o.kind \in Kinds
         /\ o.item \in Items \cup {None} /\ o.group \in Groups \cup {None}
         /\ o.items \subseteq Items /\ o.groups \subseteq Groups
         /\ o.kind \in {"move", "edit"} =>
              o.item \in Items /\ o.group \in Groups /\ o.groups = {}
         /\ o.kind = "add" => o.group = None
<1>1. CASE o \in Asks({"move", "edit"}, Items, Groups, {{}}, {{}})
  BY <1>1 DEF Asks, Kinds
<1>2. CASE o \in Asks({"add"}, {None}, {None}, {{}}, SUBSET Groups \ {{}})
  BY <1>2 DEF Asks, Kinds
<1>3. CASE o \in Asks({"deleteItems"}, {None}, {None}, SUBSET Items \ {{}}, {{}})
  BY <1>3 DEF Asks, Kinds
<1>4. CASE o \in Asks({"saveSort"}, {None}, Groups, SUBSET Items \ {{}}, {{}})
  BY <1>4 DEF Asks, Kinds
<1>5. CASE o \in Asks({"deleteGroups"}, {None}, Groups \cup {None}, {{}}, SUBSET Groups \ {{}})
  BY <1>5 DEF Asks, Kinds
<1>6. CASE o \in Asks({"addGroup", "append", "replace", "read"}, {None}, {None}, {{}}, {{}})
  BY <1>6 DEF Asks, Kinds
<1> QED BY <1>1, <1>2, <1>3, <1>4, <1>5, <1>6 DEF Ops

\* A request that does nothing asks for nothing.
LEMMA NoOpIsOp == NoOp \in Ops
BY DEF NoOp, Ops, Asks

\* The end of a group is behind every position in it, and one more than a
\* position or 0.
LEMMA EndOfGroup ==
  ASSUME StoredTypes, NEW u, NEW g
  PROVE  /\ DestinationSort(u, g) \in 0..(MaxSort + 1)
         /\ \A i \in Members(u, g) : sort[i] < DestinationSort(u, g)
<1>1. CASE Members(u, g) = {}
  BY <1>1 DEF DestinationSort
<1>2. CASE Members(u, g) # {}
  <2> DEFINE Above == {n \in Nat : n <= MaxSort + 1 /\ \A i \in Members(u, g) : sort[i] < n}
  <2>1. \A i \in Members(u, g) : sort[i] \in 0..MaxSort
    BY DEF StoredTypes, Members, ItemsOf, Sorts
  <2>2. MaxSort + 1 \in Above
    BY <2>1
  <2>3. PICK n \in Above : \A m \in Above : n <= m
    <3> HIDE DEF Above
    <3>1. Above \subseteq Nat
      BY DEF Above
    <3> QED BY <2>2, <3>1, LeastNat
  <2>4. n \in 0..(MaxSort + 1) /\ \A i \in Members(u, g) : sort[i] < n
    BY <2>3
  <2>5. n > 0
    BY <1>2, <2>1, <2>4
  <2>6. n - 1 \notin Above
    BY <2>3, <2>4
  <2>7. \E i \in Members(u, g) : sort[i] = n - 1
    <3>1. PICK i \in Members(u, g) : ~ (sort[i] < n - 1)
      BY <2>4, <2>5, <2>6
    <3> QED BY <3>1, <2>1, <2>4
  <2> QED BY <1>2, <2>4, <2>7 DEF DestinationSort
<1> QED BY <1>1, <1>2

\* A request that ends is forgotten, and only it is; a commit may overtake first reads.
LEMMA ReturnTypes ==
  ASSUME RequestTypes, Held, Acting, NEW r \in Reqs, Return(r) \/ Commit(r)
  PROVE  /\ RequestTypes' /\ Held' /\ Acting'
         /\ pc'[r] = "idle"
         /\ \A q \in Reqs \ {r} :
              /\ pc'[q] = pc[q] \/ (pc[q] = "seed" /\ pc'[q] = "overtaken")
              /\ user'[q] = user[q] /\ op'[q] = op[q] /\ end'[q] = end[q]
<1>1. 0 \in Sorts
  BY DEF Sorts
<1>2. RequestTypes'
  BY <1>1, NoOpIsOp DEF RequestTypes, Return, Commit, Forget
<1>3. /\ pc'[r] = "idle"
      /\ \A q \in Reqs \ {r} :
           /\ pc'[q] = pc[q] \/ (pc[q] = "seed" /\ pc'[q] = "overtaken")
           /\ user'[q] = user[q] /\ op'[q] = op[q] /\ end'[q] = end[q]
  BY DEF RequestTypes, Return, Commit, Forget
<1>4. Held'
  BY <1>3 DEF Held, Return, Commit, Locked
<1>5. Acting'
  BY <1>3 DEF Acting
<1> QED BY <1>2, <1>3, <1>4, <1>5

\* A request that ends without a commit leaves the others where they are.
LEMMA ReturnLeaves ==
  ASSUME RequestTypes, NEW r \in Reqs, Return(r)
  PROVE  \A q \in Reqs \ {r} : pc'[q] = pc[q]
BY DEF RequestTypes, Return, Forget

\* After a commit nobody can write what it read before it, if that matters.
LEMMA CommitOvertakes ==
  ASSUME RequestTypes, NEW r \in Reqs, Commit(r)
  PROVE  Unseen'
BY DEF RequestTypes, Commit, Unseen

\* When the holder of the mutex commits, nobody is about to write.
LEMMA WriterReturns ==
  ASSUME Orderly, NEW r \in Reqs, pc[r] \in Locked, Commit(r)
  PROVE  /\ RequestTypes' /\ Held' /\ Acting' /\ Unseen'
         /\ Owned' /\ Present' /\ Ahead' /\ Counted'
<1>1. /\ RequestTypes' /\ Held' /\ Acting' /\ Unseen'
      /\ \A q \in Reqs : pc'[q] \notin Locked
  BY ReturnTypes, CommitOvertakes DEF Orderly, TypeOK, Held, Locked
<1> QED BY <1>1 DEF Owned, Present, Ahead, Counted, At, Locked

\* The rows change, if at all, as the first read of an account changes them: what a
\* request relies on stays true.
Steady ==
  /\ \A g \in Groups : groupOwner[g] \in Users => groupOwner'[g] = groupOwner[g]
  /\ UNCHANGED <<itemOwner, sort>>
  /\ \A i \in Items :
       itemGroup'[i] = itemGroup[i] \/ groupOwner[itemGroup'[i]] = None

\* What a request relies on, and still relies on after a steady step.
LEMMA SteadyStep ==
  ASSUME Orderly, Steady, NEW q \in Reqs,
         pc'[q] = pc[q] \/ pc'[q] = "overtaken",
         user'[q] = user[q], op'[q] = op[q], end'[q] = end[q]
  PROVE  /\ (At(q, "write", {"move", "edit", "add"}) \/ At(q, "locate", {"edit"}))' => OwnGroup(q)'
         /\ At(q, "write", {"move", "edit"})' =>
              /\ OwnItem(q)'
              /\ \A j \in Members(user[q], op[q].group)' : sort'[j] < end'[q]
         /\ At(q, "write", {"deleteGroups"})' =>
              /\ Matched(q)' # GroupsOf(user[q])'
              /\ op'[q].group \in {None} \cup (GroupsOf(user[q])' \ op'[q].groups)
<1>1. /\ op[q] \in Ops
      /\ pc[q] # "idle" => user[q] \in Users
  BY DEF Orderly, TypeOK, RequestTypes, Acting
<1>2. GroupsOf(user[q]) \subseteq GroupsOf(user[q])' \/ pc[q] = "idle"
  BY <1>1 DEF Steady, GroupsOf
<1>3. ASSUME At(q, "write", {"move", "edit", "add"}) \/ At(q, "locate", {"edit"})
      PROVE  OwnGroup(q)'
  <2>1. OwnGroup(q) /\ pc[q] # "idle"
    BY <1>3 DEF Orderly, Owned, At
  <2> QED BY <2>1, <1>2 DEF OwnGroup
<1>4. ASSUME At(q, "write", {"move", "edit"})
      PROVE  /\ OwnItem(q)'
             /\ \A j \in Members(user[q], op[q].group)' : sort'[j] < end'[q]
  <2>1. OwnItem(q)'
    BY <1>4 DEF Orderly, Present, OwnItem, ItemsOf, Steady
  <2>2. op[q].group \in Groups /\ groupOwner[op[q].group] \in Users
    <3>1. OwnGroup(q) /\ user[q] \in Users
      BY <1>1, <1>4 DEF Orderly, Owned, At
    <3>2. op[q].group \in Groups
      BY <1>1, <1>4, OpTypes DEF At
    <3> QED BY <3>1, <3>2 DEF OwnGroup, GroupsOf
  <2>3. Members(user[q], op[q].group)' \subseteq Members(user[q], op[q].group)
    BY <2>2 DEF Members, ItemsOf, Steady
  <2> QED BY <2>1, <2>3, <1>4 DEF Orderly, Ahead, Steady
<1>5. ASSUME At(q, "write", {"deleteGroups"})
      PROVE  /\ Matched(q)' # GroupsOf(user[q])'
             /\ op'[q].group \in {None} \cup (GroupsOf(user[q])' \ op'[q].groups)
  <2>1. /\ Matched(q) # GroupsOf(user[q])
        /\ op[q].group \in {None} \cup (GroupsOf(user[q]) \ op[q].groups)
    BY <1>5 DEF Orderly, Counted
  <2>2. GroupsOf(user[q]) \subseteq GroupsOf(user[q])'
    BY <1>2, <1>5 DEF At
  <2>3. PICK g \in GroupsOf(user[q]) : g \notin op[q].groups
    BY <2>1 DEF Matched
  <2>4. g \in GroupsOf(user[q])' /\ g \notin Matched(q)'
    BY <2>2, <2>3 DEF Matched
  <2> QED BY <2>1, <2>2, <2>4
<1> QED BY <1>3, <1>4, <1>5 DEF At

-----------------------------------------------------------------------------
(***************************************************************************)
(* The steps that leave the rows alone.                                    *)
(***************************************************************************)
\* A step of one request that writes no row disturbs no other.
LEMMA QuietStep ==
  ASSUME Orderly, NEW r \in Reqs, UNCHANGED rows
  PROVE  /\ StoredTypes' /\ NoLostItem' /\ Steady
         /\ (\A q \in Reqs : pc'[q] = "seed" => pc[q] = "seed" /\ user'[q] = user[q]) => Unseen'
BY DEF Orderly, TypeOK, rows, StoredTypes, NoLostItem, Steady, Unseen, GroupsOf

\* A request that arrives holds nothing.
LEMMA BeginStep ==
  ASSUME Orderly, NEW r \in Reqs, NEW u \in Users, NEW o \in Ops, Begin(r, u, o)
  PROVE  Orderly'
<1>1. RequestTypes' /\ Held' /\ Acting'
  BY DEF Orderly, TypeOK, RequestTypes, Held, Acting, Locked, Begin
<1>2. /\ pc'[r] \in {"read", "wait"}
      /\ \A q \in Reqs \ {r} :
           pc'[q] = pc[q] /\ user'[q] = user[q] /\ op'[q] = op[q] /\ end'[q] = end[q]
  BY DEF Orderly, TypeOK, RequestTypes, Begin
<1>3. StoredTypes' /\ NoLostItem' /\ Steady
  BY QuietStep DEF Begin
<1>4. Owned' /\ Present' /\ Ahead' /\ Counted'
  BY <1>2, <1>3, SteadyStep DEF Owned, Present, Ahead, Counted, At
<1>5. Unseen'
  BY <1>2, QuietStep DEF Begin
<1> QED BY <1>1, <1>3, <1>4, <1>5 DEF Orderly, TypeOK

\* The mutex is granted; nothing has been looked up yet.
LEMMA AcquireStep ==
  ASSUME Orderly, NEW r \in Reqs, Acquire(r)
  PROVE  Orderly'
<1>1. /\ op[r] \in Ops /\ op[r].kind \in Kinds
      /\ pc'[r] = Granted[op[r].kind]
      /\ \A q \in Reqs \ {r} :
           pc'[q] = pc[q] /\ user'[q] = user[q] /\ op'[q] = op[q] /\ end'[q] = end[q]
  BY OpTypes DEF Orderly, TypeOK, RequestTypes, Acquire
<1>2. /\ pc'[r] \in Locked
      /\ op[r].kind \in {"edit", "add"} => pc'[r] = "check"
      /\ op[r].kind = "move" => pc'[r] = "locate"
      /\ op[r].kind = "deleteGroups" => pc'[r] = "count"
  BY <1>1 DEF Granted, Kinds, Locked
<1>3. RequestTypes' /\ Held' /\ Acting'
  BY <1>1, <1>2 DEF Orderly, TypeOK, RequestTypes, Held, Acting, Locked, Acquire
<1>4. StoredTypes' /\ NoLostItem' /\ Steady
  BY QuietStep DEF Acquire
<1>5. op' = op
  BY DEF Acquire
<1>6. Owned' /\ Present' /\ Ahead' /\ Counted'
  BY <1>1, <1>2, <1>4, <1>5, SteadyStep DEF Owned, Present, Ahead, Counted, At
<1>7. Unseen'
  BY <1>1, <1>2, QuietStep DEF Acquire, Locked
<1> QED BY <1>3, <1>4, <1>6, <1>7 DEF Orderly, TypeOK

\* The group belongs to the account when it is looked up.
LEMMA CheckGroupStep ==
  ASSUME Orderly, NEW r \in Reqs, CheckGroup(r)
  PROVE  Orderly'
<1>1. /\ pc'[r] = IF op[r].kind = "edit" THEN "locate" ELSE "write"
      /\ UNCHANGED <<user, op, end>> /\ OwnGroup(r)' /\ op[r].kind \in {"edit", "add"}
      /\ \A q \in Reqs \ {r} : pc'[q] = pc[q]
  BY DEF Orderly, TypeOK, RequestTypes, CheckGroup, OwnGroup, GroupsOf, At, rows
<1>2. RequestTypes' /\ Held' /\ Acting'
  BY DEF Orderly, TypeOK, RequestTypes, Held, Acting, Locked, CheckGroup, At
<1>3. StoredTypes' /\ NoLostItem' /\ Steady
  BY QuietStep DEF CheckGroup
<1>4. Owned' /\ Present' /\ Ahead' /\ Counted'
  BY <1>1, <1>3, SteadyStep DEF Owned, Present, Ahead, Counted, At
<1>5. Unseen'
  BY <1>1, QuietStep DEF CheckGroup
<1> QED BY <1>2, <1>3, <1>4, <1>5 DEF Orderly, TypeOK

\* The transaction of a move or an edit has read the item and the destination.
LEMMA LocateStep ==
  ASSUME Orderly, NEW r \in Reqs, Locate(r)
  PROVE  Orderly'
<1>1. /\ pc'[r] = "write" /\ end'[r] = DestinationSort(user[r], op[r].group)
      /\ UNCHANGED <<rows, mutationMu, user, op>>
      /\ \A q \in Reqs \ {r} : pc'[q] = pc[q] /\ end'[q] = end[q]
  BY DEF Orderly, TypeOK, RequestTypes, Locate
<1>2. /\ DestinationSort(user[r], op[r].group) \in Sorts
      /\ \A j \in Members(user[r], op[r].group) : sort[j] < end'[r]
  <2>1. DestinationSort(user[r], op[r].group) # MaxSort + 1
    BY DEF Locate
  <2> QED BY <2>1, <1>1, EndOfGroup DEF Orderly, TypeOK, Sorts
<1>3. RequestTypes' /\ Held' /\ Acting'
  <2>1. pc[r] = "locate"
    BY DEF Locate, At
  <2>2. RequestTypes'
    BY <1>2, <2>1 DEF Orderly, TypeOK, RequestTypes, Locate, Locked
  <2>3. Held' /\ Acting'
    BY <1>1, <2>1 DEF Orderly, Held, Acting, Locked
  <2> QED BY <2>2, <2>3
<1>4. StoredTypes' /\ NoLostItem' /\ Steady
  BY <1>1, QuietStep
<1>5. OwnGroup(r)' /\ OwnItem(r)'
  <2>1. OwnGroup(r) /\ OwnItem(r)
    BY DEF Orderly, Owned, Locate, At
  <2> QED BY <2>1, <1>1 DEF OwnGroup, OwnItem, GroupsOf, ItemsOf, rows
<1>6. \A j \in Members(user[r], op[r].group)' : sort'[j] < end'[r]
  BY <1>1, <1>2 DEF Members, ItemsOf, rows
<1>7. ASSUME NEW q \in Reqs \ {r}
      PROVE  /\ (At(q, "write", {"move", "edit", "add"}) \/ At(q, "locate", {"edit"}))' => OwnGroup(q)'
             /\ At(q, "write", {"move", "edit"})' =>
                  /\ OwnItem(q)'
                  /\ \A j \in Members(user[q], op[q].group)' : sort'[j] < end'[q]
             /\ At(q, "write", {"deleteGroups"})' =>
                  /\ Matched(q)' # GroupsOf(user[q])'
                  /\ op'[q].group \in {None} \cup (GroupsOf(user[q])' \ op'[q].groups)
  BY <1>1, <1>4, SteadyStep
<1>8. Owned' /\ Present' /\ Ahead' /\ Counted'
  <2>1. op'[r].kind \in {"move", "edit"}
    BY <1>1 DEF Locate, At
  <2> QED BY <1>1, <1>5, <1>6, <1>7, <2>1 DEF Owned, Present, Ahead, Counted, At
<1>9. Unseen'
  BY <1>1, QuietStep
<1> QED BY <1>3, <1>4, <1>8, <1>9 DEF Orderly, TypeOK

\* One group stays, and the destination is among those that do.
LEMMA CountGroupsStep ==
  ASSUME Orderly, NEW r \in Reqs, CountGroups(r)
  PROVE  Orderly'
<1>1. /\ pc'[r] = "write" /\ pc[r] = "count" /\ op[r].kind = "deleteGroups"
      /\ UNCHANGED <<rows, mutationMu, user, op, end>>
      /\ \A q \in Reqs \ {r} : pc'[q] = pc[q]
  BY DEF Orderly, TypeOK, RequestTypes, CountGroups, At
<1>2. RequestTypes' /\ Held' /\ Acting'
  <2>1. RequestTypes'
    BY DEF Orderly, TypeOK, RequestTypes, CountGroups, Locked
  <2>2. Held' /\ Acting'
    BY <1>1 DEF Orderly, Held, Acting, Locked
  <2> QED BY <2>1, <2>2
<1>3. StoredTypes' /\ NoLostItem' /\ Steady
  BY <1>1, QuietStep
<1>4. /\ Matched(r)' # GroupsOf(user[r])'
      /\ op'[r].group \in {None} \cup (GroupsOf(user[r])' \ op'[r].groups)
  BY <1>1 DEF CountGroups, Matched, GroupsOf, rows
<1>5. Owned' /\ Present' /\ Ahead' /\ Counted'
  BY <1>1, <1>3, <1>4, SteadyStep DEF Owned, Present, Ahead, Counted, At
<1>6. Unseen'
  BY <1>1, QuietStep
<1> QED BY <1>2, <1>3, <1>5, <1>6 DEF Orderly, TypeOK

\* A request is refused, fails or has nothing to do.
LEMMA EndStep ==
  ASSUME Orderly, NEW r \in Reqs, Return(r), UNCHANGED rows
  PROVE  Orderly'
<1>1. /\ RequestTypes' /\ Held' /\ Acting' /\ pc'[r] = "idle"
      /\ \A q \in Reqs \ {r} :
           pc'[q] = pc[q] /\ user'[q] = user[q] /\ op'[q] = op[q] /\ end'[q] = end[q]
  BY ReturnTypes, ReturnLeaves DEF Orderly, TypeOK
<1>2. StoredTypes' /\ NoLostItem' /\ Steady
  BY QuietStep
<1>3. Owned' /\ Present' /\ Ahead' /\ Counted'
  BY <1>1, <1>2, SteadyStep DEF Owned, Present, Ahead, Counted, At
<1>4. Unseen'
  BY <1>1, QuietStep
<1> QED BY <1>1, <1>2, <1>3, <1>4 DEF Orderly, TypeOK

\* The first read of an account found no group.
LEMMA LookStep ==
  ASSUME Orderly, NEW r \in Reqs, ReadGroups(r)
  PROVE  Orderly'
<1>1. CASE Return(r)
  BY <1>1, EndStep DEF ReadGroups
<1>2. CASE /\ pc' = [pc EXCEPT ![r] = "seed"]
           /\ UNCHANGED <<mutationMu, user, op, end>>
  <2>1. /\ pc'[r] = "seed" /\ pc[r] = "read"
        /\ \A q \in Reqs \ {r} : pc'[q] = pc[q]
    BY <1>2 DEF Orderly, TypeOK, RequestTypes, ReadGroups
  <2>2. RequestTypes' /\ Held' /\ Acting'
    BY <1>2, <2>1 DEF Orderly, TypeOK, RequestTypes, Held, Acting, Locked
  <2>3. StoredTypes' /\ NoLostItem' /\ Steady
    BY QuietStep DEF ReadGroups
  <2>4. Owned' /\ Present' /\ Ahead' /\ Counted'
    BY <1>2, <2>1, <2>3, SteadyStep DEF Owned, Present, Ahead, Counted, At
  <2>5. Unseen'
    <3>1. GroupsOf(user[r]) = {}
      BY <2>1, <1>2 DEF ReadGroups, Orderly, TypeOK, RequestTypes, Return, Forget
    <3> QED BY <1>2, <2>1, <3>1 DEF Orderly, Unseen, GroupsOf, ReadGroups, rows
  <2> QED BY <2>2, <2>3, <2>4, <2>5 DEF Orderly, TypeOK
<1> QED BY <1>1, <1>2 DEF ReadGroups

\* After a crash no request is left.
LEMMA CrashStep ==
  ASSUME Orderly, Crash
  PROVE  Orderly'
<1>1. StoredTypes' /\ NoLostItem'
  BY DEF Orderly, TypeOK, StoredTypes, NoLostItem, Crash, rows
<1>2. RequestTypes'
  <2>1. 0 \in Sorts
    BY DEF Sorts
  <2> QED BY <2>1, NoOpIsOp DEF RequestTypes, Crash
<1>3. Held' /\ Acting' /\ Owned' /\ Present' /\ Ahead' /\ Counted' /\ Unseen'
  BY DEF Crash, Held, Acting, Owned, Present, Ahead, Counted, Unseen, At, Locked
<1> QED BY <1>1, <1>2, <1>3 DEF Orderly, TypeOK

-----------------------------------------------------------------------------
(***************************************************************************)
(* The steps that write, each the last of its request.                     *)
(***************************************************************************)
\* Who writes holds the mutex, so only the rows are left to show.
LEMMA WriteStep ==
  ASSUME Orderly, NEW r \in Reqs, pc[r] = "write", Commit(r), StoredTypes', NoLostItem'
  PROVE  Orderly'
BY WriterReturns DEF Orderly, TypeOK, Locked

\* An item moves to the group that was looked up.
LEMMA PlaceStep ==
  ASSUME Orderly, NEW r \in Reqs, Place(r)
  PROVE  Orderly'
<1> DEFINE i == op[r].item
           g == op[r].group
<1>1. pc[r] = "write" /\ op[r].kind \in {"move", "edit"} /\ op[r] \in Ops /\ end[r] \in Sorts
  BY DEF Orderly, TypeOK, RequestTypes, Place, At
<1>2. i \in Items /\ g \in Groups
  BY <1>1, OpTypes
<1>3. itemOwner[i] = user[r] /\ groupOwner[g] = user[r] /\ user[r] \in Users
  <2>1. OwnGroup(r) /\ OwnItem(r) /\ user[r] \in Users
    BY <1>1 DEF Orderly, Owned, Present, Acting, At
  <2> QED BY <1>2, <2>1 DEF OwnGroup, OwnItem, GroupsOf, ItemsOf
<1>4. itemGroup' = [itemGroup EXCEPT ![i] = g] /\ UNCHANGED <<groupOwner, itemOwner>>
  BY DEF Place
<1>5. StoredTypes'
  <2>1. sort' \in [Items -> Sorts]
    <3>1. CASE sort' = [sort EXCEPT ![i] = end[r]]
      BY <1>1, <3>1 DEF Orderly, TypeOK, StoredTypes
    <3>2. CASE \E s \in Sorts : sort' = [sort EXCEPT ![i] = IF s = 0 THEN @ ELSE s]
      BY <1>2, <3>2 DEF Orderly, TypeOK, StoredTypes
    <3> QED BY <3>1, <3>2 DEF Place
  <2> QED BY <1>2, <1>4, <2>1 DEF Orderly, TypeOK, StoredTypes
<1>6. NoLostItem'
  BY <1>2, <1>3, <1>4 DEF Orderly, TypeOK, StoredTypes, NoLostItem
<1> QED BY <1>1, <1>5, <1>6, WriteStep DEF Place

\* New rows for items: each is in a group of its own account.
LEMMA InsertTypes ==
  ASSUME StoredTypes, NEW new \in SUBSET Items, NEW gs \in SUBSET Groups,
         NEW home \in [new -> gs], NEW u \in Users, NEW s \in {0, NewSort},
         NEW before \in [Items -> Users \cup {None, Gone}],
         InsertItems(new, home, u, s, before)
  PROVE  /\ itemOwner' \in [Items -> Users \cup {None, Gone}]
         /\ itemGroup' \in [Items -> Groups \cup {None}]
         /\ sort' \in [Items -> Sorts]
<1>1. s \in Sorts
  BY DEF Sorts
<1> QED BY <1>1 DEF StoredTypes, InsertItems

\* New items are put into groups of the account.
LEMMA AddStep ==
  ASSUME Orderly, NEW r \in Reqs, Add(r)
  PROVE  Orderly'
<1>1. pc[r] = "write" /\ op[r].kind = "add" /\ op[r] \in Ops
  BY DEF Orderly, TypeOK, RequestTypes, Add, At
<1>2. user[r] \in Users /\ op[r].groups \subseteq GroupsOf(user[r]) /\ op[r].groups \subseteq Groups
  <2>1. OwnGroup(r) /\ user[r] \in Users
    BY <1>1 DEF Orderly, Owned, Acting, At
  <2>2. op[r].groups \subseteq Groups
    BY <1>1, OpTypes
  <2> QED BY <2>1, <2>2 DEF OwnGroup
<1>a. PICK new \in SUBSET Unborn(itemOwner, Items), s \in {0, NewSort} :
        \E home \in [new -> op[r].groups] : InsertItems(new, home, user[r], s, itemOwner)
  BY DEF Add
<1>3. PICK home \in [new -> op[r].groups] : InsertItems(new, home, user[r], s, itemOwner)
  BY <1>a
<1>4. new \subseteq Items
  BY DEF Unborn
<1>5. StoredTypes'
  <2>1. StoredTypes /\ itemOwner \in [Items -> Users \cup {None, Gone}]
    BY DEF Orderly, TypeOK, StoredTypes
  <2>2. new \in SUBSET Items /\ op[r].groups \in SUBSET Groups
    BY <1>2, <1>4
  <2>3. /\ itemOwner' \in [Items -> Users \cup {None, Gone}]
        /\ itemGroup' \in [Items -> Groups \cup {None}]
        /\ sort' \in [Items -> Sorts]
    BY <1>2, <1>3, <2>1, <2>2, InsertTypes
  <2> QED BY <2>1, <2>3 DEF StoredTypes, Add
<1>6. NoLostItem'
  <2> SUFFICES ASSUME NEW i \in Items, itemOwner'[i] \in Users
               PROVE  itemGroup'[i] \in Groups /\ groupOwner[itemGroup'[i]] = itemOwner'[i]
    BY DEF NoLostItem, Add
  <2>1. CASE i \in new
    BY <1>2, <1>3, <1>4, <2>1 DEF InsertItems, GroupsOf
  <2>2. CASE i \notin new
    BY <1>3, <2>2 DEF InsertItems, Orderly, NoLostItem
  <2> QED BY <2>1, <2>2
<1> QED BY <1>1, <1>5, <1>6, WriteStep DEF Add

\* Items are deleted.
LEMMA DeleteItemsStep ==
  ASSUME Orderly, NEW r \in Reqs, DeleteItems(r)
  PROVE  Orderly'
<1>1. StoredTypes'
  BY DEF Orderly, TypeOK, StoredTypes, DeleteItems
<1>2. NoLostItem'
  BY DEF Orderly, TypeOK, StoredTypes, NoLostItem, DeleteItems
<1> QED BY <1>1, <1>2, WriteStep DEF DeleteItems, At

\* Positions are saved.
LEMMA SaveSortStep ==
  ASSUME Orderly, NEW r \in Reqs, SaveSort(r)
  PROVE  Orderly'
<1> DEFINE n == Cardinality(op[r].items)
           hit == op[r].items \cap Members(user[r], op[r].group)
<1>1. n <= MaxSort + 1 /\ UNCHANGED <<groupOwner, itemOwner, itemGroup>>
  BY DEF SaveSort
<1>2. PICK order \in [op[r].items -> 0..(n - 1)] :
        sort' = [i \in Items |-> IF i \in hit THEN order[i] ELSE sort[i]]
  BY DEF SaveSort
<1>3. \A i \in hit : order[i] \in Sorts
  <2>1. n \in Nat
    <3>1. op[r].items \subseteq Items
      BY OpTypes DEF Orderly, TypeOK, RequestTypes
    <3> QED BY <3>1, FS_Subset, FS_CardinalityType
  <2>2. \A i \in hit : order[i] \in 0..(n - 1)
    OBVIOUS
  <2> QED BY <2>1, <2>2, <1>1 DEF Sorts
<1>4. StoredTypes'
  BY <1>1, <1>2, <1>3 DEF Orderly, TypeOK, StoredTypes
<1>5. NoLostItem'
  BY <1>1 DEF Orderly, NoLostItem
<1> QED BY <1>4, <1>5, WriteStep DEF SaveSort, At

\* A group is added.
LEMMA AddGroupStep ==
  ASSUME Orderly, NEW r \in Reqs, AddGroup(r)
  PROVE  Orderly'
<1>1. PICK g \in Unborn(groupOwner, Groups) : groupOwner' = [groupOwner EXCEPT ![g] = user[r]]
  BY DEF AddGroup
<1>2. g \in Groups /\ groupOwner[g] = None
  BY <1>1 DEF Unborn
<1>3. StoredTypes'
  BY <1>1, <1>2 DEF Orderly, TypeOK, StoredTypes, RequestTypes, AddGroup
<1>4. NoLostItem'
  BY <1>1, <1>2 DEF Orderly, TypeOK, StoredTypes, NoLostItem, AddGroup
<1> QED BY <1>3, <1>4, WriteStep DEF AddGroup, At

\* Groups are deleted with their items, or their items move to a group that stays.
LEMMA DeleteGroupsStep ==
  ASSUME Orderly, NEW r \in Reqs, DeleteGroups(r)
  PROVE  Orderly'
<1> DEFINE inside == {i \in ItemsOf(user[r]) : itemGroup[i] \in Matched(r)}
<1>1. /\ groupOwner' = [g \in Groups |-> IF g \in Matched(r) THEN Gone ELSE groupOwner[g]]
      /\ UNCHANGED sort
  BY DEF DeleteGroups
<1>2. user[r] \in Users
  BY DEF Orderly, Acting, DeleteGroups, At
<1>3. /\ \A g \in Matched(r) : groupOwner[g] = user[r]
      /\ \A i \in Items : itemOwner[i] \in Users /\ i \notin inside =>
           /\ itemGroup[i] \in Groups \ Matched(r)
           /\ groupOwner[itemGroup[i]] = itemOwner[i]
  BY DEF Orderly, NoLostItem, Matched, GroupsOf, ItemsOf
<1>c. op[r].group \in {None} \cup (GroupsOf(user[r]) \ op[r].groups)
  BY DEF Orderly, Counted, DeleteGroups
<1>4. CASE /\ op[r].group = None
           /\ itemOwner' = [i \in Items |-> IF i \in inside THEN Gone ELSE itemOwner[i]]
           /\ UNCHANGED itemGroup
  <2>1. StoredTypes'
    BY <1>1, <1>4 DEF Orderly, TypeOK, StoredTypes
  <2>2. NoLostItem'
    BY <1>1, <1>3, <1>4 DEF Orderly, TypeOK, StoredTypes, NoLostItem
  <2> QED BY <2>1, <2>2, WriteStep DEF DeleteGroups, At
<1>5. CASE /\ op[r].group # None
           /\ itemGroup' = [i \in Items |-> IF i \in inside THEN op[r].group ELSE itemGroup[i]]
           /\ UNCHANGED itemOwner
  <2>1. /\ op[r].group \in Groups \ Matched(r) /\ groupOwner[op[r].group] = user[r]
        /\ \A i \in inside : itemOwner[i] = user[r]
    BY <1>5, <1>c DEF GroupsOf, ItemsOf, Matched
  <2>2. StoredTypes'
    BY <1>1, <1>5, <2>1 DEF Orderly, TypeOK, StoredTypes
  <2>3. NoLostItem'
    BY <1>1, <1>3, <1>5, <2>1 DEF Orderly, TypeOK, StoredTypes, NoLostItem
  <2> QED BY <2>2, <2>3, WriteStep DEF DeleteGroups, At
<1> QED BY <1>4, <1>5 DEF DeleteGroups

\* An import creates groups with their items; a replacement has deleted the old
\* ones of the account.
LEMMA ImportStep ==
  ASSUME Orderly, NEW r \in Reqs, Import(r)
  PROVE  Orderly'
<1> DEFINE replace == op[r].kind = "replace"
           oldGroups == IF replace THEN Swept(groupOwner, Groups, user[r]) ELSE groupOwner
           oldItems == IF replace THEN Swept(itemOwner, Items, user[r]) ELSE itemOwner
<1>1. user[r] \in Users
  BY DEF Orderly, Acting, Import, At
<1>2. PICK gs \in SUBSET Unborn(groupOwner, Groups), new \in SUBSET Unborn(itemOwner, Items) :
        /\ groupOwner' = [g \in Groups |-> IF g \in gs THEN user[r] ELSE oldGroups[g]]
        /\ \E home \in [new -> gs], s \in {0, NewSort} :
             InsertItems(new, home, user[r], s, oldItems)
  BY DEF Import
<1>3. PICK home \in [new -> gs], s \in {0, NewSort} : InsertItems(new, home, user[r], s, oldItems)
  BY <1>2
<1>4. /\ new \in SUBSET Items /\ \A i \in new : itemOwner[i] = None
      /\ gs \in SUBSET Groups /\ \A g \in gs : groupOwner[g] = None
  BY DEF Unborn
<1>5. /\ oldGroups \in [Groups -> Users \cup {None, Gone}]
      /\ oldItems \in [Items -> Users \cup {None, Gone}]
  BY DEF Orderly, TypeOK, StoredTypes, Swept
<1>6. /\ \A i \in Items : oldItems[i] \in Users => oldItems[i] = itemOwner[i]
      /\ \A g \in Groups, i \in Items :
           oldItems[i] \in Users /\ groupOwner[g] = itemOwner[i] => oldGroups[g] = groupOwner[g]
  BY DEF Orderly, TypeOK, StoredTypes, Swept
<1> HIDE DEF oldGroups, oldItems
<1>7. StoredTypes'
  <2>1. /\ itemOwner' \in [Items -> Users \cup {None, Gone}]
        /\ itemGroup' \in [Items -> Groups \cup {None}]
        /\ sort' \in [Items -> Sorts]
    <3>1. StoredTypes
      BY DEF Orderly, TypeOK
    <3> QED BY <3>1, <1>1, <1>3, <1>4, <1>5, InsertTypes
  <2> QED BY <2>1, <1>1, <1>2, <1>5 DEF StoredTypes
<1>8. NoLostItem'
  <2> SUFFICES ASSUME NEW i \in Items, itemOwner'[i] \in Users
               PROVE  itemGroup'[i] \in Groups /\ groupOwner'[itemGroup'[i]] = itemOwner'[i]
    BY DEF NoLostItem
  <2>1. CASE i \in new
    BY <1>2, <1>3, <1>4, <2>1 DEF InsertItems
  <2>2. CASE i \notin new
    <3>1. itemGroup'[i] = itemGroup[i] /\ itemOwner'[i] = oldItems[i]
      BY <1>3, <2>2 DEF InsertItems
    <3>2. itemGroup[i] \in Groups /\ groupOwner[itemGroup[i]] = itemOwner[i] /\ itemOwner[i] = oldItems[i]
      BY <3>1, <1>6 DEF Orderly, NoLostItem
    <3>3. itemGroup[i] \notin gs
      BY <3>1, <3>2, <1>4
    <3> QED BY <3>1, <3>2, <3>3, <1>2, <1>6
  <2> QED BY <2>1, <2>2
<1> QED BY <1>7, <1>8, WriteStep DEF Import, At

-----------------------------------------------------------------------------
(***************************************************************************)
(* The first read of an account writes without the mutex.                  *)
(***************************************************************************)
\* The group it creates is new, so no request under the mutex relies on it.
LEMMA SeedIsSteady ==
  ASSUME Orderly, NEW r \in Reqs, SeedGroup(r)
  PROVE  Steady
<1>1. PICK g \in Unborn(groupOwner, Groups) :
        /\ groupOwner' = [groupOwner EXCEPT ![g] = user[r]]
        /\ itemGroup' = [i \in Items |-> IF i \in ItemsOf(user[r]) THEN g ELSE itemGroup[i]]
  BY DEF SeedGroup
<1> QED BY <1>1 DEF Orderly, TypeOK, StoredTypes, Unborn, Steady, SeedGroup

\* All items of the account are in the group that was created for it.
LEMMA SeedStep ==
  ASSUME Orderly, NEW r \in Reqs, SeedGroup(r)
  PROVE  Orderly'
<1>1. PICK g \in Unborn(groupOwner, Groups) :
        /\ groupOwner' = [groupOwner EXCEPT ![g] = user[r]]
        /\ itemGroup' = [i \in Items |-> IF i \in ItemsOf(user[r]) THEN g ELSE itemGroup[i]]
  BY DEF SeedGroup
<1>2. g \in Groups /\ groupOwner[g] = None
  BY DEF Unborn
<1>3. user[r] \in Users
  BY DEF Orderly, Acting, SeedGroup
<1>4. StoredTypes'
  BY <1>1, <1>2, <1>3 DEF Orderly, TypeOK, StoredTypes, SeedGroup
<1>5. NoLostItem'
  BY <1>1, <1>2, <1>3 DEF Orderly, TypeOK, StoredTypes, NoLostItem, ItemsOf, SeedGroup
<1>6. /\ RequestTypes' /\ Held' /\ Acting' /\ Unseen' /\ pc'[r] = "idle"
      /\ \A q \in Reqs \ {r} :
           /\ pc'[q] = pc[q] \/ pc'[q] = "overtaken"
           /\ user'[q] = user[q] /\ op'[q] = op[q] /\ end'[q] = end[q]
  BY ReturnTypes, CommitOvertakes DEF Orderly, TypeOK, SeedGroup
<1>7. Owned' /\ Present' /\ Ahead' /\ Counted'
  BY <1>6, SeedIsSteady, SteadyStep DEF Owned, Present, Ahead, Counted, At
<1> QED BY <1>4, <1>5, <1>6, <1>7 DEF Orderly, TypeOK

-----------------------------------------------------------------------------
(***************************************************************************)
(* Every step.                                                             *)
(***************************************************************************)
\* The steps that write rows.
Writes(r) ==
  \/ Place(r) \/ Add(r) \/ DeleteItems(r) \/ SaveSort(r)
  \/ AddGroup(r) \/ DeleteGroups(r) \/ Import(r) \/ SeedGroup(r)

\* A step writes rows or leaves them alone.
LEMMA RowSteps ==
  ASSUME [Next]_vars
  PROVE  UNCHANGED rows \/ \E r \in Reqs : Writes(r)
<1>1. CASE UNCHANGED vars \/ Crash
  BY <1>1 DEF vars, rows, Crash
<1>2. ASSUME NEW r \in Reqs, NEW u \in Users, NEW o \in Ops, Begin(r, u, o)
      PROVE  UNCHANGED rows
  BY <1>2 DEF Begin, rows
<1>3. ASSUME NEW r \in Reqs, Step(r)
      PROVE  UNCHANGED rows \/ Writes(r)
  BY <1>3 DEF Step, Writes, Acquire, Fail, CheckGroup, RejectGroup, Locate, LocateNothing,
              CountGroups, RefuseDeleteGroups, ReadGroups, rows
<1> QED BY <1>1, <1>2, <1>3 DEF Next

\* The steps of a request keep the order.
LEMMA RequestStep ==
  ASSUME Orderly, NEW r \in Reqs, Step(r)
  PROVE  Orderly'
<1>1. CASE Fail(r) \/ RejectGroup(r) \/ LocateNothing(r) \/ RefuseDeleteGroups(r)
  BY <1>1, EndStep DEF Fail, RejectGroup, LocateNothing, RefuseDeleteGroups
<1>2. CASE Acquire(r) \/ CheckGroup(r) \/ Locate(r) \/ CountGroups(r) \/ ReadGroups(r)
  BY <1>2, AcquireStep, CheckGroupStep, LocateStep, CountGroupsStep, LookStep
<1>3. CASE Place(r) \/ Add(r) \/ DeleteItems(r) \/ SaveSort(r)
  BY <1>3, PlaceStep, AddStep, DeleteItemsStep, SaveSortStep
<1>4. CASE AddGroup(r) \/ DeleteGroups(r) \/ Import(r) \/ SeedGroup(r)
  BY <1>4, AddGroupStep, DeleteGroupsStep, ImportStep, SeedStep
<1> QED BY <1>1, <1>2, <1>3, <1>4 DEF Step

\* Every step keeps the order.
LEMMA OrderlyStep ==
  ASSUME Orderly, [Next]_vars
  PROVE  Orderly'
<1>1. CASE UNCHANGED vars
  BY <1>1 DEF vars, Orderly, TypeOK, StoredTypes, RequestTypes, NoLostItem, Held, Acting, Owned,
              Present, Ahead, Counted, Unseen, At, OwnGroup, OwnItem, Matched, GroupsOf,
              Members, ItemsOf
<1>2. CASE Next
  BY <1>2, BeginStep, RequestStep, CrashStep DEF Next
<1> QED BY <1>1, <1>2

\* Nothing is stored and no request is under way at first.
LEMMA OrderlyInit ==
  ASSUME Init
  PROVE  Orderly
<1>1. TypeOK
  <2>1. 0 \in Sorts
    BY DEF Sorts
  <2> QED BY <2>1, NoOpIsOp DEF Init, TypeOK, StoredTypes, RequestTypes
<1>2. /\ NoLostItem /\ Held /\ Acting
      /\ Owned /\ Present /\ Ahead /\ Counted /\ Unseen
  BY DEF Init, NoLostItem, Held, Acting, Owned, Present, Ahead, Counted, Unseen, At, Locked
<1> QED BY <1>1, <1>2 DEF Orderly

\* The inductive invariant: what a request under the mutex looked up in an earlier
\* statement still holds when it writes, because no other writer runs and the first
\* read of an account touches only a group nobody knows.
THEOREM OrderlyInvariant == Spec => []Orderly
BY OrderlyInit, OrderlyStep, PTL DEF Spec

\* Every variable keeps its type.
THEOREM TypeCorrect == Spec => []TypeOK
<1>1. Orderly => TypeOK
  BY DEF Orderly
<1> QED BY <1>1, OrderlyInvariant, PTL

\* Every item is in a living group of its own account (ItemIcon.Edit, Move,
\* AddMultiple, ItemIconGroup.Deletes, importConfig, readGroups).
THEOREM NoItemIsLost == Spec => []NoLostItem
<1>1. Orderly => NoLostItem
  BY DEF Orderly
<1> QED BY <1>1, OrderlyInvariant, PTL

\* An account that has a group always has one: the mutex keeps what a deletion counted
\* until it writes, and a replacement brings a group (ItemIconGroup.Deletes,
\* importConfig).
THEOREM AGroupRemains == Spec => KeepsAGroup
<1> DEFINE Keeps == \A u \in Users : GroupsOf(u) # {} => GroupsOf(u)' # {}
<1>1. ASSUME Orderly, [Next]_vars
      PROVE  Keeps
  <2> SUFFICES ASSUME NEW u \in Users, NEW h \in GroupsOf(u)
               PROVE  GroupsOf(u)' # {}
    OBVIOUS
  <2>1. CASE groupOwner'[h] = groupOwner[h]
    BY <2>1 DEF GroupsOf
  <2>2. ASSUME NEW r \in Reqs, Writes(r), groupOwner'[h] # groupOwner[h]
        PROVE  GroupsOf(u)' # {}
    <3>1. groupOwner[h] = u /\ h \in Groups
      BY DEF GroupsOf
    <3>2. ~ (Place(r) \/ Add(r) \/ DeleteItems(r) \/ SaveSort(r))
      BY <2>2 DEF Place, Add, DeleteItems, SaveSort
    <3>3. ~ SeedGroup(r)
      BY <1>1, <2>2, <3>1, SeedIsSteady DEF Steady
    <3>4. ~ AddGroup(r)
      BY <1>1, <2>2, <3>1 DEF AddGroup, Unborn, Orderly, TypeOK, StoredTypes
    <3>5. CASE DeleteGroups(r)
      <4>1. groupOwner' = [g \in Groups |-> IF g \in Matched(r) THEN Gone ELSE groupOwner[g]]
        BY <3>5 DEF DeleteGroups
      <4>2. u = user[r]
        BY <2>2, <3>1, <4>1 DEF Matched, GroupsOf
      <4>3. PICK g \in GroupsOf(u) : g \notin Matched(r)
        BY <1>1, <3>5, <4>2 DEF DeleteGroups, Matched, Orderly, Counted
      <4> QED BY <4>1, <4>3 DEF GroupsOf
    <3>6. CASE Import(r)
      <4> DEFINE replace == op[r].kind = "replace"
                 oldGroups == IF replace THEN Swept(groupOwner, Groups, user[r]) ELSE groupOwner
      <4>1. PICK gs \in SUBSET Unborn(groupOwner, Groups) :
              /\ replace => gs # {}
              /\ groupOwner' = [g \in Groups |-> IF g \in gs THEN user[r] ELSE oldGroups[g]]
        BY <3>6 DEF Import
      <4>2. h \notin gs
        BY <3>1 DEF Unborn
      <4>3. replace /\ u = user[r]
        BY <2>2, <3>1, <4>1, <4>2 DEF Swept
      <4> QED BY <4>1, <4>3 DEF GroupsOf, Unborn
    <3> QED BY <2>2, <3>2, <3>3, <3>4, <3>5, <3>6 DEF Writes
  <2> QED BY <1>1, <2>1, <2>2, RowSteps DEF rows
<1> QED BY <1>1, OrderlyInvariant, PTL DEF Spec, KeepsAGroup

\* Items disappear only when their deletion, that of their group without a
\* destination, or a replacement was asked for by their account (ItemIcon.Deletes,
\* ItemIconGroup.Deletes, importConfig).
THEOREM NothingVanishes == Spec => OnlyAskedForDeletions
<1> DEFINE Asked ==
      \A i \in Items :
       itemOwner[i] \in Users /\ itemOwner'[i] = Gone =>
         \E r \in Reqs :
           /\ user[r] = itemOwner[i]
           /\ \/ At(r, "write", {"deleteItems"}) /\ i \in op[r].items
              \/ At(r, "write", {"deleteGroups"}) /\ op[r].group = None
                                                  /\ itemGroup[i] \in op[r].groups
              \/ At(r, "write", {"replace"})
<1>1. ASSUME Orderly, [Next]_vars
      PROVE  Asked
  <2> SUFFICES ASSUME NEW i \in Items, itemOwner[i] \in Users, itemOwner'[i] = Gone
               PROVE  \E r \in Reqs :
                        /\ user[r] = itemOwner[i]
                        /\ \/ At(r, "write", {"deleteItems"}) /\ i \in op[r].items
                           \/ At(r, "write", {"deleteGroups"}) /\ op[r].group = None
                                                               /\ itemGroup[i] \in op[r].groups
                           \/ At(r, "write", {"replace"})
    OBVIOUS
  <2>1. itemOwner'[i] # itemOwner[i]
    OBVIOUS
  <2>2. PICK r \in Reqs : Writes(r)
    BY <1>1, <2>1, RowSteps DEF rows
  <2>3. user[r] \in Users
    BY <1>1, <2>2 DEF Orderly, Acting, Writes, Place, Add, DeleteItems, SaveSort, AddGroup,
                      DeleteGroups, Import, SeedGroup, At
  <2>4. ~ (Place(r) \/ SaveSort(r) \/ AddGroup(r) \/ SeedGroup(r))
    BY <2>1 DEF Place, SaveSort, AddGroup, SeedGroup
  <2>5. ~ Add(r)
    BY <2>1, <2>3 DEF Add, InsertItems, Unborn
  <2>6. CASE DeleteItems(r)
    BY <2>1, <2>6 DEF DeleteItems, At, ItemsOf
  <2>7. CASE DeleteGroups(r)
    <3>1. /\ op[r].group = None
          /\ i \in {j \in ItemsOf(user[r]) : itemGroup[j] \in Matched(r)}
      BY <2>1, <2>7 DEF DeleteGroups
    <3> QED BY <3>1, <2>7 DEF DeleteGroups, At, ItemsOf, Matched
  <2>8. CASE Import(r)
    <3> DEFINE replace == op[r].kind = "replace"
               oldItems == IF replace THEN Swept(itemOwner, Items, user[r]) ELSE itemOwner
    <3>1. \E new \in SUBSET Unborn(itemOwner, Items) :
            itemOwner' = [j \in Items |-> IF j \in new THEN user[r] ELSE oldItems[j]]
      BY <2>8 DEF Import, InsertItems
    <3>2. itemOwner'[i] = oldItems[i]
      BY <3>1, <2>3
    <3>3. replace /\ user[r] = itemOwner[i]
      BY <3>2, <2>1 DEF Swept
    <3> QED BY <3>3, <2>8 DEF Import, At
  <2> QED BY <2>2, <2>4, <2>5, <2>6, <2>7, <2>8 DEF Writes
<1> QED BY <1>1, OrderlyInvariant, PTL DEF Spec, OnlyAskedForDeletions

\* An item that moves to another group stands behind everything in it when the
\* move commits: no saved order slips in after the end was computed
\* (ItemIcon.Move, Edit, SaveSort).
THEOREM MovesAppend == Spec => MovedToTheEnd
<1> DEFINE Appends ==
      \A i \in Items, r \in Reqs :
       /\ At(r, "write", {"move", "edit"}) /\ op[r].item = i
       /\ itemGroup'[i] # itemGroup[i]
       => \A j \in Members(user[r], itemGroup'[i]) : sort[j] < sort'[i]
<1>1. ASSUME Orderly, [Next]_vars
      PROVE  Appends
  <2> SUFFICES ASSUME NEW i \in Items, NEW r \in Reqs,
                      At(r, "write", {"move", "edit"}), op[r].item = i,
                      itemGroup'[i] # itemGroup[i],
                      NEW j \in Members(user[r], itemGroup'[i])
               PROVE  sort[j] < sort'[i]
    OBVIOUS
  <2>1. PICK q \in Reqs : Writes(q)
    BY <1>1, RowSteps DEF rows
  <2>2. user[r] \in Users /\ mutationMu = r
    BY <1>1 DEF Orderly, Acting, Held, At, Locked
  <2>3. CASE SeedGroup(q)
    \* Nobody is in a group that is created now.
    <3>1. itemGroup'[i] \in Groups /\ groupOwner[itemGroup'[i]] = None
      BY <1>1, <2>3, SeedIsSteady DEF Steady, SeedGroup, Unborn
    <3>2. j \in Items /\ itemOwner[j] = user[r] /\ itemGroup[j] = itemGroup'[i]
      BY DEF Members, ItemsOf
    <3> QED BY <3>1, <3>2, <2>2, <1>1 DEF Orderly, NoLostItem
  <2>4. CASE ~ SeedGroup(q)
    <3>1. q = r
      BY <1>1, <2>1, <2>2, <2>4 DEF Orderly, Held, Locked, Writes, Place, Add, DeleteItems,
                                    SaveSort, AddGroup, DeleteGroups, Import, At
    <3>2. Place(r)
      BY <2>1, <2>4, <3>1 DEF Writes, Add, DeleteItems, SaveSort, AddGroup, DeleteGroups,
                              Import, At
    <3>3. itemGroup'[i] = op[r].group /\ sort'[i] = end[r]
      <4>1. itemGroup' = [itemGroup EXCEPT ![i] = op[r].group]
        BY <3>2 DEF Place
      <4>2. itemGroup[i] # op[r].group /\ itemGroup'[i] = op[r].group
        BY <4>1, <1>1 DEF Orderly, TypeOK, StoredTypes
      <4>3. sort' = [sort EXCEPT ![i] = end[r]]
        BY <3>2, <4>2 DEF Place
      <4> QED BY <4>2, <4>3, <1>1 DEF Orderly, TypeOK, StoredTypes
    <3> QED BY <3>3, <1>1 DEF Orderly, Ahead
  <2> QED BY <2>3, <2>4
<1> QED BY <1>1, OrderlyInvariant, PTL DEF Spec, MovedToTheEnd

\* Where a transaction cannot write once another has committed after its first read,
\* as in SQLite, a read of the page creates a group only for an account that has
\* none when the group is stored (readGroups).  The hypothesis is needed: in MySQL
\* two first reads may both create a group.
THEOREM FirstGroupIsOne == Serializable => (Spec => OneFirstGroup)
<1> SUFFICES ASSUME Serializable PROVE Spec => OneFirstGroup
  OBVIOUS
<1> DEFINE Seeds ==
      \A r \in Reqs : pc[r] = "seed" /\ pc'[r] = "idle" /\ groupOwner' # groupOwner =>
       GroupsOf(user[r]) = {}
<1>1. ASSUME Orderly, [Next]_vars
      PROVE  Seeds
  BY <1>1 DEF Orderly, Unseen
<1> QED BY <1>1, OrderlyInvariant, PTL DEF Spec, OneFirstGroup
=============================================================================
