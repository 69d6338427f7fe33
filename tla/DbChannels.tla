------------------------------ MODULE DbChannels ------------------------------
(***************************************************************************)
(* What the running db child promises about its channels and its store,   *)
(* without sockets, messages or lookups: channels are accepted under a    *)
(* connection id that is free, at most one local writer is set up, writes *)
(* go into the store's buffer only while the store is open, and shutdown  *)
(* closes the MergeTree only once no channel is registered and the store  *)
(* only once the buffer is flushed.  DbProcess implements it (see the     *)
(* refinement RegistrySpec there).                                         *)
(***************************************************************************)
EXTENDS Naturals

CONSTANT ConnIds        \* the connection ids channels are registered under

VARIABLES
    reg,        \* the connection ids that hold an accepted channel
    writer,     \* 1 once a local write stream is set up, else 0
    stage,      \* "running", "draining", "mtClosing", "dbClosing", "closed"
    buffered,   \* writes accepted by the store and not yet flushed
    writes      \* writes accepted so far

vars == <<reg, writer, stage, buffered, writes>>

Init ==
    /\ reg = {}
    /\ writer = 0
    /\ stage = "running"
    /\ buffered = 0
    /\ writes = 0

\* A channel is accepted under a free id; the local data channel also sets
\* up the writer, which is possible only once.
Accept(i) ==
    /\ stage = "running"
    /\ i \notin reg
    /\ reg' = reg \cup {i}
    /\ UNCHANGED <<writer, stage, buffered, writes>>

AcceptWriter(i) ==
    /\ stage = "running"
    /\ i \notin reg /\ writer = 0
    /\ reg' = reg \cup {i}
    /\ writer' = 1
    /\ UNCHANGED <<stage, buffered, writes>>

\* autoMerge sets up the writer without a channel.
StartWriter ==
    /\ stage = "running" /\ writer = 0
    /\ writer' = 1
    /\ UNCHANGED <<reg, stage, buffered, writes>>

\* A channel leaves the registry, at any time.
Release(i) ==
    /\ i \in reg
    /\ reg' = reg \ {i}
    /\ UNCHANGED <<writer, stage, buffered, writes>>

\* The writer writes into the store until the MergeTree closes.
Write ==
    /\ writer = 1 /\ stage \in {"running", "draining"}
    /\ buffered' = buffered + 1
    /\ writes' = writes + 1
    /\ UNCHANGED <<reg, writer, stage>>

Flush ==
    /\ buffered > 0
    /\ buffered' = buffered - 1
    /\ UNCHANGED <<reg, writer, stage, writes>>

Kill ==
    /\ stage = "running"
    /\ stage' = "draining"
    /\ UNCHANGED <<reg, writer, buffered, writes>>

CloseTree ==
    /\ stage = "draining" /\ reg = {}
    /\ stage' = "mtClosing"
    /\ UNCHANGED <<reg, writer, buffered, writes>>

CloseStore ==
    /\ stage = "mtClosing" /\ buffered = 0
    /\ stage' = "dbClosing"
    /\ UNCHANGED <<reg, writer, buffered, writes>>

Closed ==
    /\ stage = "dbClosing"
    /\ stage' = "closed"
    /\ UNCHANGED <<reg, writer, buffered, writes>>

Next ==
    \/ \E i \in ConnIds : Accept(i) \/ AcceptWriter(i) \/ Release(i)
    \/ StartWriter \/ Write \/ Flush
    \/ Kill \/ CloseTree \/ CloseStore \/ Closed

Spec == Init /\ [][Next]_vars
=============================================================================
