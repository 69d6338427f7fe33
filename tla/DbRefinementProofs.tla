------------------------- MODULE DbRefinementProofs -------------------------
(***************************************************************************)
(* Proof that the db child (DbProcess) implements the abstract channel    *)
(* service DbChannels under the refinement mapping of DbProcess: every    *)
(* step of the process is a step of the service or leaves the mapped      *)
(* state alone.  The proof rests on the inductive invariant IInv of        *)
(* DbProcessProofs.                                                        *)
(***************************************************************************)
EXTENDS DbProcessProofs

(***************************************************************************)
(* How the registry's rows move.                                           *)
(***************************************************************************)

\* A socket's 'close' listener clears at most its own row: the set of
\* registered ids is unchanged or loses the socket's connection id.
LEMMA DestroyRows ==
    ASSUME TypeOK, NEW c, Destroy(c)
    PROVE  \/ RegRows' = RegRows
           \/ ConnIdOf[c] \in RegRows /\ RegRows' = RegRows \ {ConnIdOf[c]}
<1>1. \A i \in ConnIds : i # ConnIdOf[c] => connections'[i] = connections[i]
    BY DEF Destroy, Unregister, TypeOK
<1>2. \A i \in ConnIds : connections'[i] \in {connections[i], NoConn}
    BY DEF Destroy, Unregister, TypeOK
<1>3. CASE ConnIdOf[c] \in RegRows /\ connections'[ConnIdOf[c]] = NoConn
    BY <1>1, <1>3 DEF RegRows
<1>4. CASE ~(ConnIdOf[c] \in RegRows /\ connections'[ConnIdOf[c]] = NoConn)
    BY <1>1, <1>2, <1>4 DEF RegRows
<1>5. QED
    BY <1>3, <1>4

\* A socket registered under a free id adds exactly that id.
LEMMA RegisterRows ==
    ASSUME TypeOK, DbAssumption, NEW c \in Conns, NEW s, ~Collides(c), Register(c, s)
    PROVE  /\ ConnIdOf[c] \in ConnIds
           /\ ConnIdOf[c] \notin RegRows
           /\ RegRows' = RegRows \cup {ConnIdOf[c]}
BY DEF Register, Collides, RegRows, TypeOK

\* A step that keeps the writer, shutdown's stage, the buffer and the
\* write count, and clears at most one row, is a Release or a stutter.
LEMMA RowsStep ==
    ASSUME NEW j,
           \/ RegRows' = RegRows
           \/ j \in RegRows /\ RegRows' = RegRows \ {j},
           UNCHANGED <<writeStreams, phase, buf, writes>>
    PROVE  [AC!Next]_AC!vars
<1>1. CASE RegRows' = RegRows
    BY <1>1 DEF AC!vars
<1>2. CASE j \in RegRows /\ RegRows' = RegRows \ {j}
    <2>1. AC!Release(j) /\ j \in ConnIds
        BY <1>2 DEF AC!Release, RegRows
    <2>2. QED
        BY <2>1 DEF AC!Next
<1>3. QED
    BY <1>1, <1>2

\* A step of connErrorHandler or of a socket's close listeners.
LEMMA DestroyRef ==
    ASSUME TypeOK, NEW c, Destroy(c), UNCHANGED <<writeStreams, phase, buf, writes>>
    PROVE  [AC!Next]_AC!vars
BY DestroyRows, RowsStep

\* A step that touches neither the registry nor the mapped state.
LEMMA FrameRef ==
    ASSUME UNCHANGED <<connections, writeStreams, phase, buf, writes>>
    PROVE  [AC!Next]_AC!vars
BY DEF AC!vars, RegRows

-----------------------------------------------------------------------------
(***************************************************************************)
(* The initial state and the steps.                                        *)
(***************************************************************************)

LEMMA RefInit == Init => AC!Init
BY DEF Init, AC!Init, RegRows, LT!TreeInit

LEMMA RefStep == IInv /\ [Next]_vars => [AC!Next]_AC!vars
<1> SUFFICES ASSUME IInv, [Next]_vars PROVE [AC!Next]_AC!vars
    OBVIOUS
<1> USE DbAssumption DEF treeVars, lookupVars, flagVars
<1>0. TypeOK /\ WriterInv /\ DrainCovers
    BY DEF IInv
<1>1. ASSUME NEW c \in Conns, MsgHeadLookup(c) PROVE [AC!Next]_AC!vars
    <2>1. CASE headLookupReceived \/ Collides(c)
        <3>1. Destroy(c) /\ UNCHANGED <<writeStreams, phase, buf, writes>>
            BY <1>1, <2>1 DEF MsgHeadLookup
        <3>2. QED
            BY <1>0, <3>1, DestroyRef
    <2>2. CASE ~headLookupReceived /\ ~Collides(c)
        <3>1. Register(c, "open") /\ phase = "running"
              /\ UNCHANGED <<writeStreams, phase, buf, writes>>
            BY <1>1, <2>2 DEF MsgHeadLookup
        <3>2. /\ ConnIdOf[c] \in ConnIds /\ ConnIdOf[c] \notin RegRows
              /\ RegRows' = RegRows \cup {ConnIdOf[c]}
            BY <1>0, <2>2, <3>1, RegisterRows
        <3>3. AC!Accept(ConnIdOf[c])
            BY <3>1, <3>2 DEF AC!Accept
        <3>4. QED
            BY <3>2, <3>3 DEF AC!Next
    <2>3. QED
        BY <2>1, <2>2
<1>2. ASSUME NEW c \in Conns, MsgLocalDataChannel(c) PROVE [AC!Next]_AC!vars
    <2>1. CASE localDataChannelReceived
        <3>1. Destroy(c) /\ UNCHANGED <<writeStreams, phase, buf, writes>>
            BY <1>2, <2>1 DEF MsgLocalDataChannel
        <3>2. QED
            BY <1>0, <3>1, DestroyRef
    <2>2. CASE ~localDataChannelReceived /\ autoMergeReceived
        <3>1. UNCHANGED <<connections, writeStreams, phase, buf, writes>>
            BY <1>2, <2>2 DEF MsgLocalDataChannel
        <3>2. QED
            BY <3>1, FrameRef
    <2>3. CASE ~localDataChannelReceived /\ ~autoMergeReceived /\ Collides(c)
        <3>1. Destroy(c) /\ UNCHANGED <<writeStreams, phase, buf, writes>>
            BY <1>2, <2>3 DEF MsgLocalDataChannel
        <3>2. QED
            BY <1>0, <3>1, DestroyRef
    <2>4. CASE ~localDataChannelReceived /\ ~autoMergeReceived /\ ~Collides(c)
        <3>1. /\ Register(c, "open") /\ phase = "running"
              /\ writeStreams' = writeStreams + 1
              /\ UNCHANGED <<phase, buf, writes>>
            BY <1>2, <2>4 DEF MsgLocalDataChannel
        <3>2. writeStreams = 0
            BY <1>0, <2>4 DEF WriterInv
        <3>3. /\ ConnIdOf[c] \in ConnIds /\ ConnIdOf[c] \notin RegRows
              /\ RegRows' = RegRows \cup {ConnIdOf[c]}
            BY <1>0, <2>4, <3>1, RegisterRows
        <3>4. AC!AcceptWriter(ConnIdOf[c])
            BY <3>1, <3>2, <3>3 DEF AC!AcceptWriter
        <3>5. QED
            BY <3>3, <3>4 DEF AC!Next
    <2>5. QED
        BY <2>1, <2>2, <2>3, <2>4
<1>3. ASSUME NEW c \in Conns, MsgUnknown(c) PROVE [AC!Next]_AC!vars
    BY <1>0, <1>3, DestroyRef DEF MsgUnknown
<1>4. ASSUME NEW c \in Conns, NEW pe \in PeNames, MsgRemoteDataChannel(c, pe)
      PROVE [AC!Next]_AC!vars
    <2>1. CASE pe \notin Perspectives \/ Collides(c)
        <3>1. Destroy(c) /\ UNCHANGED <<writeStreams, phase, buf, writes>>
            BY <1>4, <2>1 DEF MsgRemoteDataChannel
        <3>2. QED
            BY <1>0, <3>1, DestroyRef
    <2>2. CASE pe \in Perspectives /\ ~Collides(c)
        <3>1. Register(c, "remote") /\ phase = "running"
              /\ UNCHANGED <<writeStreams, phase, buf, writes>>
            BY <1>4, <2>2 DEF MsgRemoteDataChannel
        <3>2. /\ ConnIdOf[c] \in ConnIds /\ ConnIdOf[c] \notin RegRows
              /\ RegRows' = RegRows \cup {ConnIdOf[c]}
            BY <1>0, <2>2, <3>1, RegisterRows
        <3>3. AC!Accept(ConnIdOf[c])
            BY <3>1, <3>2 DEF AC!Accept
        <3>4. QED
            BY <3>2, <3>3 DEF AC!Next
    <2>3. QED
        BY <2>1, <2>2
<1>5. ASSUME NEW c \in Conns, PeerClose(c) PROVE [AC!Next]_AC!vars
    BY <1>0, <1>5, DestroyRef DEF PeerClose
<1>6. ASSUME NEW c \in Conns, RemoteError(c) PROVE [AC!Next]_AC!vars
    <2>1. connections' = [connections EXCEPT ![ConnIdOf[c]] = NoConn]
          /\ UNCHANGED <<writeStreams, phase, buf, writes>>
        BY <1>6 DEF RemoteError
    <2>2. \/ RegRows' = RegRows
          \/ ConnIdOf[c] \in RegRows /\ RegRows' = RegRows \ {ConnIdOf[c]}
        BY <1>0, <2>1 DEF RegRows, TypeOK
    <2>3. QED
        BY <2>1, <2>2, RowsStep
<1>7. CASE MsgAutoMerge
    <2>1. writeStreams = 0
        BY <1>0, <1>7 DEF MsgAutoMerge, WriterInv
    <2>2. AC!StartWriter
        BY <1>7, <2>1 DEF MsgAutoMerge, AC!StartWriter, RegRows
    <2>3. QED
        BY <2>2 DEF AC!Next
<1>8. CASE MsgKill
    <2>1. AC!Kill
        BY <1>8 DEF MsgKill, AC!Kill, RegRows
    <2>2. QED
        BY <2>1 DEF AC!Next
<1>9. ASSUME NEW it \in LT!Item, LocalWrite(it) PROVE [AC!Next]_AC!vars
    <2>1. writeStreams = 1 /\ buf \in Seq(LT!Item)
        BY <1>0, <1>9 DEF LocalWrite, WriterInv, TypeOK, LT!TreeTypeOK
    <2>2. AC!Write
        BY <1>9, <2>1 DEF LocalWrite, LT!Submit, AC!Write, RegRows
    <2>3. QED
        BY <2>2 DEF AC!Next
<1>10. CASE TreeCommit
    <2>0. buf \in Seq(LT!Item)
        BY <1>0 DEF TypeOK, LT!TreeTypeOK
    <2>1. buf \in Seq(LT!Item) /\ buf # <<>> /\ buf' = Tail(buf)
        BY <1>10, <2>0, Zenon DEF TreeCommit, LT!Commit, LT!CommitValid, LT!CommitRejected
    <2>2. AC!Flush
        BY <1>10, <2>1 DEF TreeCommit, AC!Flush, RegRows
    <2>3. QED
        BY <2>2 DEF AC!Next
<1>11. ASSUME NEW r \in Requests, ClientRequest(r) PROVE [AC!Next]_AC!vars
    BY <1>11, FrameRef DEF ClientRequest
<1>12. CASE ReadRequest
    BY <1>12, FrameRef DEF ReadRequest
<1>13. ASSUME NEW k \in ReqIdx, ScanById(k) PROVE [AC!Next]_AC!vars
    <2>1. UNCHANGED <<writeStreams, phase, buf, writes>>
        BY <1>13 DEF ScanById
    <2>2. CASE Destroy(hlConn)
        BY <1>0, <2>1, <2>2, DestroyRef
    <2>3. CASE UNCHANGED connections
        BY <2>1, <2>3, FrameRef
    <2>4. QED
        BY <1>13, <2>2, <2>3 DEF ScanById
<1>14. ASSUME NEW k \in ReqIdx, ScanByPrefix(k) PROVE [AC!Next]_AC!vars
    BY <1>14, FrameRef DEF ScanByPrefix
<1>15. ASSUME NEW k \in ReqIdx, RetryTimer(k) PROVE [AC!Next]_AC!vars
    BY <1>15, FrameRef DEF RetryTimer
<1>16. CASE DrainDone
    <2>1. RegRows = {}
        BY <1>0, <1>16 DEF DrainDone, DrainCovers, RegRows
    <2>2. AC!CloseTree
        BY <1>16, <2>1 DEF DrainDone, AC!CloseTree, RegRows
    <2>3. QED
        BY <2>2 DEF AC!Next
<1>17. CASE MtClosed
    <2>1. AC!CloseStore
        BY <1>17 DEF MtClosed, AC!CloseStore, RegRows
    <2>2. QED
        BY <2>1 DEF AC!Next
<1>18. CASE DbClosed
    <2>1. AC!Closed
        BY <1>18 DEF DbClosed, AC!Closed, RegRows
    <2>2. QED
        BY <2>1 DEF AC!Next
<1>19. CASE Terminated \/ UNCHANGED vars
    BY <1>19, FrameRef DEF Terminated, vars
<1>20. QED
    BY <1>1, <1>2, <1>3, <1>4, <1>5, <1>6, <1>7, <1>8, <1>9, <1>10, <1>11,
       <1>12, <1>13, <1>14, <1>15, <1>16, <1>17, <1>18, <1>19, Zenon DEF Next

\* The db child implements the abstract channel service: a channel is
\* accepted only under a free connection id, autoMerge and the local data
\* channel set up one writer between them, nothing is written into the
\* store once mt.close() has begun, and shutdown closes the MergeTree only
\* with an empty registry and the store only with a flushed buffer.
THEOREM Refinement == Spec => RegistrySpec
<1>1. Spec => []IInv
    BY IInvHolds
<1>2. QED
    BY <1>1, RefInit, RefStep, PTL DEF Spec, RegistrySpec, AC!Spec
=============================================================================
