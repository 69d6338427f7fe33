------------------------------ MODULE TreeProofs ------------------------------
(***************************************************************************)
(* Proofs about the versioned tree (Tree.tla), for every set of ids and    *)
(* versions and every buffer capacity.                                     *)
(*                                                                         *)
(* HeadsIndexExact is not inductive as it stands: the write batch adds    *)
(* the new item as a head of its id without looking whether an earlier    *)
(* item names its version as a parent.  It holds because no item can:     *)
(* write()'s MissingParent check lets an item in only once all its        *)
(* parents are written (ParentsCommitted), and the DuplicateVersion check  *)
(* keeps the new version out of the written ones.                          *)
(***************************************************************************)
EXTENDS Tree, SequenceTheorems, TLAPS

\* Every committed item names only versions that were written.
ParentsCommitted == \A m \in DOMAIN log : log[m].pa \subseteq Written

\* Item j of the sequence L is a head: no item of L names it as a parent
\* of the same id.
IsHead(L, j) == \A m \in DOMAIN L : ~(L[m].id = L[j].id /\ L[j].v \in L[m].pa)

\* The heads rows that the items of L determine.
HeadRows(L) == {<<L[k].id, L[k].v>> : k \in {j \in DOMAIN L : IsHead(L, j)}}

\* The inductive invariant behind HeadsIndexExact.
HeadsInv == TreeTypeOK /\ ParentsCommitted /\ HeadsIndexExact

-----------------------------------------------------------------------------
\* The type of the tree's state is kept by every step: the buffer never
\* exceeds the back-pressure bound and every row pairs an id with a version.
LEMMA TreeTypeInit == TreeInit => TreeTypeOK
BY BufMaxAssumption DEF TreeInit, TreeTypeOK

LEMMA TreeTypeStep == TreeTypeOK /\ [TreeNext]_treeVars => TreeTypeOK'
<1> SUFFICES ASSUME TreeTypeOK, [TreeNext]_treeVars PROVE TreeTypeOK'
    OBVIOUS
<1>1. CASE \E it \in Item : Submit(it)
    BY <1>1, AppendProperties, BufMaxAssumption DEF Submit, TreeTypeOK
<1>2. CASE CommitValid
    <2> DEFINE h == Head(buf)
    <2>1. h \in Item
        BY <1>2 DEF CommitValid, TreeTypeOK
    <2>2. log' \in Seq(Item)
        BY <1>2, <2>1 DEF CommitValid, TreeTypeOK
    <2>3. buf' \in Seq(Item) /\ Len(buf') <= BufMax
        BY <1>2, HeadTailProperties, BufMaxAssumption DEF CommitValid, TreeTypeOK
    <2>4. heads' \subseteq Ids \X Versions
        BY <1>2, <2>1 DEF CommitValid, TreeTypeOK, Item
    <2>5. QED
        BY <2>2, <2>3, <2>4 DEF TreeTypeOK
<1>3. CASE CommitRejected
    BY <1>3, HeadTailProperties, BufMaxAssumption DEF CommitRejected, TreeTypeOK
<1>4. CASE UNCHANGED treeVars
    BY <1>4 DEF treeVars, TreeTypeOK
<1>5. QED
    BY <1>1, <1>2, <1>3, <1>4 DEF TreeNext, Commit

\* The tree's state always has its type (TreeTypeOK of the tree run).
THEOREM TreeTypeCorrect == TreeSpec => []TreeTypeOK
BY TreeTypeInit, TreeTypeStep, PTL DEF TreeSpec

-----------------------------------------------------------------------------
\* What one valid commit does to the log: it appends the head of the buffer,
\* which passed both checks of write().
LEMMA CommitValidLog ==
    ASSUME TreeTypeOK, CommitValid
    PROVE  LET h == Head(buf) IN
           /\ h \in Item
           /\ DOMAIN log' = 1..(Len(log) + 1)
           /\ \A j \in 1..Len(log) : log'[j] = log[j]
           /\ log'[Len(log) + 1] = h
           /\ h.v \notin Written
           /\ h.pa \subseteq Written
           /\ Written' = Written \cup {h.v}
<1> DEFINE h == Head(buf)
<1>1. h \in Item
    BY DEF CommitValid, TreeTypeOK
<1>2. /\ DOMAIN log' = 1..(Len(log) + 1)
      /\ \A j \in 1..Len(log) : log'[j] = log[j]
      /\ log'[Len(log) + 1] = h
    BY <1>1, AppendProperties DEF CommitValid, TreeTypeOK
<1>3. h.v \notin Written /\ h.pa \subseteq Written
    BY DEF CommitValid, Valid
<1>4. Written' = Written \cup {h.v}
    <2>1. Len(log) \in Nat /\ DOMAIN log = 1..Len(log)
        BY DEF TreeTypeOK
    <2>2. 1..(Len(log) + 1) = (1..Len(log)) \cup {Len(log) + 1}
        BY <2>1
    <2>3. Written' = {log'[k].v : k \in 1..(Len(log) + 1)}
        BY <1>2 DEF Written
    <2>4. QED
        BY <1>2, <2>1, <2>2, <2>3 DEF Written
<1>5. QED
    BY <1>1, <1>2, <1>3, <1>4

LEMMA HeadsExactIsHeadRows == HeadsIndexExact <=> heads = HeadRows(log)
BY DEF HeadsIndexExact, HeadRows, IsHead

\* A valid commit keeps the parents of every item written, and changes the
\* heads the log determines exactly as the write batch changes the heads
\* rows.
LEMMA HeadsCommitValid ==
    ASSUME HeadsInv, CommitValid
    PROVE  ParentsCommitted' /\ HeadsIndexExact'
<1> DEFINE h == Head(buf)
           n == Len(log)
<1>1. /\ h \in Item
      /\ DOMAIN log' = 1..(n + 1)
      /\ \A j \in 1..n : log'[j] = log[j]
      /\ log'[n + 1] = h
      /\ h.v \notin Written
      /\ h.pa \subseteq Written
      /\ Written' = Written \cup {h.v}
    BY CommitValidLog DEF HeadsInv
<1>2. n \in Nat /\ DOMAIN log = 1..n
    BY DEF HeadsInv, TreeTypeOK
<1>3. ParentsCommitted'
    BY <1>1, <1>2 DEF HeadsInv, ParentsCommitted
\* Only the new item can stop an old one being a head.
<1>4. \A j \in 1..n :
         IsHead(log', j) <=> IsHead(log, j) /\ ~(h.id = log[j].id /\ log[j].v \in h.pa)
    BY <1>1, <1>2 DEF IsHead
\* No item names the new version as a parent: the old ones name only
\* written versions, and the new one names only written versions too.
<1>5. IsHead(log', n + 1)
    <2>1. \A m \in 1..n : h.v \notin log[m].pa
        BY <1>1, <1>2 DEF HeadsInv, ParentsCommitted
    <2>2. h.v \notin h.pa
        BY <1>1
    <2>3. QED
        BY <1>1, <1>2, <2>1, <2>2 DEF IsHead
<1>6. HeadRows(log') = (HeadRows(log) \ ({h.id} \X h.pa)) \cup {<<h.id, h.v>>}
    <2>1. HeadRows(log') = {<<log'[k].id, log'[k].v>> : k \in {j \in 1..n : IsHead(log', j)}}
                           \cup {<<h.id, h.v>>}
        BY <1>1, <1>2, <1>5 DEF HeadRows
    <2>2. {<<log'[k].id, log'[k].v>> : k \in {j \in 1..n : IsHead(log', j)}}
            = {<<log[k].id, log[k].v>> :
                 k \in {j \in 1..n : IsHead(log, j) /\ ~(h.id = log[j].id /\ log[j].v \in h.pa)}}
        BY <1>1, <1>4
    <2>3. {<<log[k].id, log[k].v>> :
             k \in {j \in 1..n : IsHead(log, j) /\ ~(h.id = log[j].id /\ log[j].v \in h.pa)}}
            = HeadRows(log) \ ({h.id} \X h.pa)
        BY <1>2 DEF HeadRows
    <2>4. QED
        BY <2>1, <2>2, <2>3
<1>7. heads' = (HeadRows(log) \ ({h.id} \X h.pa)) \cup {<<h.id, h.v>>}
    BY HeadsExactIsHeadRows DEF HeadsInv, CommitValid
<1>8. HeadsIndexExact' <=> heads' = HeadRows(log')
    BY DEF HeadsIndexExact, HeadRows, IsHead
<1>9. QED
    BY <1>3, <1>6, <1>7, <1>8, Zenon

\* Every step keeps the heads invariant.
LEMMA HeadsInvStep == HeadsInv /\ [TreeNext]_treeVars => HeadsInv'
<1> SUFFICES ASSUME HeadsInv, [TreeNext]_treeVars PROVE HeadsInv'
    OBVIOUS
<1>1. TreeTypeOK'
    BY TreeTypeStep DEF HeadsInv
<1>2. CASE CommitValid
    BY <1>1, <1>2, HeadsCommitValid DEF HeadsInv
<1>3. CASE UNCHANGED <<log, heads>>
    <2>1. log' = log /\ heads' = heads
        BY <1>3
    <2>2. ParentsCommitted' /\ HeadsIndexExact'
        BY <2>1 DEF HeadsInv, ParentsCommitted, Written, HeadsIndexExact
    <2>3. QED
        BY <1>1, <2>2 DEF HeadsInv
<1>4. QED
    BY <1>2, <1>3 DEF TreeNext, Submit, Commit, CommitRejected, treeVars

\* The heads index kept by the write batches is, in every state, exactly the
\* set of committed versions that no item of the same id names as a parent
\* (HeadsIndexExact of the tree run).
THEOREM HeadsAreExact == TreeSpec => []HeadsIndexExact
<1>1. TreeInit => HeadsInv
    BY TreeTypeInit DEF TreeInit, HeadsInv, ParentsCommitted, HeadsIndexExact
<1>2. HeadsInv => HeadsIndexExact
    BY DEF HeadsInv
<1>3. QED
    BY <1>1, <1>2, HeadsInvStep, PTL DEF TreeSpec
=============================================================================
