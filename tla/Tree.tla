-------------------------------- MODULE Tree --------------------------------
(***************************************************************************)
(* One append-only versioned tree of the MergeTree (spec.md, sections 3    *)
(* and 4.1): the local tree "l" that the db process serves head lookups    *)
(* from.  The tree's implementation (lib/tree.js) is not part of the       *)
(* sources at hand, so this module is modelled from the spec.              *)
(*                                                                         *)
(* State:                                                                  *)
(*   log    the committed items in insertion order; the index of an item   *)
(*          in log is its insertion sequence number h.i (dense, from 1)    *)
(*   buf    the single-writer queue: items submitted to the tree's write   *)
(*          stream and not yet committed ("in buffer")                     *)
(*   heads  the heads index rows (tree, 'h', id, v), kept incrementally by *)
(*          the write batch                                                *)
(*                                                                         *)
(* An item keeps what the heads, the lookups and the validation tell       *)
(* apart: its id, its version v, its parent versions pa, and whether it is *)
(* live (neither a tombstone h.d nor a conflict marker h.c).  Bodies,      *)
(* perspectives and meta data are left out.                                *)
(***************************************************************************)
EXTENDS Naturals, Sequences, FiniteSets

CONSTANTS
    Ids,        \* logical ids h.id
    Versions,   \* version identifiers h.v
    BufMax      \* capacity of the write buffer (back-pressure bound)

ASSUME BufMaxAssumption == BufMax \in Nat \ {0}

VARIABLES log, buf, heads

treeVars == <<log, buf, heads>>

\* h.pa holds 0 to 2 parent versions.
ParentSets == {s \in SUBSET Versions : Cardinality(s) <= 2}

Item == [id : Ids, v : Versions, pa : ParentSets, live : BOOLEAN]

\* The versions present in the byVersion index.
Written == {log[k].v : k \in DOMAIN log}

\* Mutant: write() without its MissingParent check.
ValidNoParentCheck(it) == it.v \notin Written

\* write(item) rejects a DuplicateVersion and a MissingParent.
Valid(it) == it.v \notin Written /\ it.pa \subseteq Written

\* inBufferById(id): a write for id is submitted and not yet flushed.
InBufferById(id) == \E k \in DOMAIN buf : buf[k].id = id

\* The heads of id that getHeads yields with skipConflicts and skipDeletes.
LiveHeads(id) ==
    {v \in Versions : /\ <<id, v>> \in heads
                      /\ \E k \in DOMAIN log : log[k].v = v /\ log[k].live}

\* The heads of every id in the set S, whatever their status.
HeadsOf(S) == {v \in Versions : \E id \in S : <<id, v>> \in heads}

\* lastVersion(): the version with the largest i, as a one-element set.
LastVersion == IF log = <<>> THEN {} ELSE {log[Len(log)].v}

TreeTypeOK ==
    /\ log \in Seq(Item)
    /\ buf \in Seq(Item)
    /\ Len(buf) <= BufMax
    /\ heads \subseteq Ids \X Versions

TreeInit ==
    /\ log = <<>>
    /\ buf = <<>>
    /\ heads = {}

(***************************************************************************)
(* The write stream accepts an item into the buffer; it back-pressures     *)
(* when the buffer is full.                                                *)
(***************************************************************************)
\* Mutant: a write stream that accepts items without back-pressure.
SubmitNoBackPressure(it) ==
    /\ buf' = Append(buf, it)
    /\ UNCHANGED <<log, heads>>

Submit(it) ==
    /\ Len(buf) < BufMax
    /\ buf' = Append(buf, it)
    /\ UNCHANGED <<log, heads>>

(***************************************************************************)
(* The oldest buffered item is written: i is assigned, the byVersion,     *)
(* byId and byI rows and the heads update go in one atomic batch, and the *)
(* item leaves the buffer.  The parents of the item stop being heads of   *)
(* its id and the item becomes one.                                        *)
(***************************************************************************)
CommitValid ==
    /\ buf # <<>>
    /\ Valid(Head(buf))
    /\ log' = Append(log, Head(buf))
    /\ heads' = (heads \ ({Head(buf).id} \X Head(buf).pa))
                    \cup {<<Head(buf).id, Head(buf).v>>}
    /\ buf' = Tail(buf)

\* The oldest buffered item fails validation: the write fails, nothing is
\* written, and the item leaves the buffer.
CommitRejected ==
    /\ buf # <<>>
    /\ ~Valid(Head(buf))
    /\ buf' = Tail(buf)
    /\ UNCHANGED <<log, heads>>

Commit == CommitValid \/ CommitRejected

TreeNext ==
    \/ \E it \in Item : Submit(it)
    \/ Commit

TreeSpec == TreeInit /\ [][TreeNext]_treeVars

-----------------------------------------------------------------------------
(***************************************************************************)
(* Properties.                                                             *)
(***************************************************************************)

\* The heads index, kept incrementally by each write batch, equals the set
\* of versions that no other version of the same id names as a parent
\* (spec 3, "head"; P3).  It relies on write() rejecting duplicate versions
\* and missing parents: a later write of an already named parent, or a
\* re-used version, would leave a stale row in the index.
HeadsIndexExact ==
    heads = {<<log[k].id, log[k].v>> :
                k \in {j \in DOMAIN log :
                         \A m \in DOMAIN log :
                            ~(log[m].id = log[j].id /\ log[j].v \in log[m].pa)}}
=============================================================================
