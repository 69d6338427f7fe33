--------------------------- MODULE DbProcessProofs ---------------------------
(***************************************************************************)
(* Proofs about DbProcess for every value of its constants: the type       *)
(* invariant, P8 (one local writer), and the two invariants that shutdown  *)
(* relies on (the registry holds only open sockets, and the store is      *)
(* closed only after every registered channel).                            *)
(***************************************************************************)
EXTENDS DbProcess, FiniteSetTheorems, TLAPS

(***************************************************************************)
(* The inductive invariants.                                               *)
(***************************************************************************)

\* handleIncomingMsg sets at most one of autoMergeReceived and
\* localDataChannelReceived, and opens the writer and the merge stream
\* together, only on the step that sets the flag.
WriterInv ==
    /\ writeStreams = mergeStreams
    /\ writeStreams \in {0, 1}
    /\ ~(autoMergeReceived /\ localDataChannelReceived)
    /\ writeStreams = 1 => autoMergeReceived \/ localDataChannelReceived

\* A registry row holds a socket under that socket's own connection id, so
\* the socket's 'close' listener deletes exactly the row it occupies.
RowsKeyed ==
    \A i \in ConnIds : connections[i] # NoConn => ConnIdOf[connections[i]] = i

\* Once kill has arrived, every registered socket is one that shutdown
\* waits for, and from mt.close() on the registry and the wait are empty.
DrainCovers ==
    /\ phase # "running" =>
          \A i \in ConnIds : connections[i] # NoConn => connections[i] \in drain
    /\ phase \in {"mtClosing", "dbClosing", "closed"} => drain = {}

IInv ==
    /\ TypeOK
    /\ WriterInv
    /\ RowsKeyed
    /\ RegistryHoldsOpenSockets
    /\ DrainCovers
-----------------------------------------------------------------------------
(***************************************************************************)
(* Lemmas on the operators of the model.                                   *)
(***************************************************************************)

\* The heads a lookup snapshot takes, and the versions lastVersion yields,
\* are versions of the tree.
LEMMA SnapshotsAreVersions ==
    ASSUME LT!TreeTypeOK
    PROVE  /\ \A id : LT!LiveHeads(id) \subseteq Versions
           /\ \A S : LT!HeadsOf(S) \subseteq Versions
           /\ LT!LastVersion \subseteq Versions
<1>1. \A id : LT!LiveHeads(id) \subseteq Versions
    BY DEF LT!LiveHeads
<1>2. \A S : LT!HeadsOf(S) \subseteq Versions
    BY DEF LT!HeadsOf
<1>3. LT!LastVersion \subseteq Versions
    <2>1. CASE log # <<>>
        <3>1. log[Len(log)] \in LT!Item
            BY <2>1 DEF LT!TreeTypeOK
        <3>2. QED
            BY <2>1, <3>1 DEF LT!LastVersion, LT!Item
    <2>2. QED
        BY <2>1 DEF LT!LastVersion
<1>4. QED
    BY <1>1, <1>2, <1>3

\* A set of one element is not empty, so CHOOSE picks a member of it.
LEMMA OneElement ==
    ASSUME NEW S, Cardinality(S) = 1
    PROVE  (CHOOSE v \in S : TRUE) \in S
BY FS_EmptySet

-----------------------------------------------------------------------------
(***************************************************************************)
(* Type correctness.                                                       *)
(***************************************************************************)

\* TypeOK, split by the parts of the process the variables belong to.
SocketTypeOK ==
    /\ connections \in [ConnIds -> Conns \cup {NoConn}]
    /\ connSt \in [Conns -> SocketStates]
    /\ hlConn \in Conns \cup {NoConn}
    /\ phase \in Phases
    /\ drain \subseteq Conns

FlagTypeOK ==
    /\ headLookupReceived \in BOOLEAN
    /\ localDataChannelReceived \in BOOLEAN
    /\ autoMergeReceived \in BOOLEAN

WriterTypeOK ==
    /\ writeStreams \in Nat
    /\ mergeStreams \in Nat
    /\ writes \in 0..MaxWrites

LookupTypeOK ==
    /\ sent \in Seq(Requests) /\ Len(sent) <= MaxReq
    /\ rd \in 0..Len(sent)
    /\ lk \in [ReqIdx -> Lookups]
    /\ out \in Seq([req : ReqIdx, ans : Versions \cup {Null}])

TypeParts ==
    LT!TreeTypeOK /\ SocketTypeOK /\ FlagTypeOK /\ WriterTypeOK /\ LookupTypeOK

LEMMA TypeOKParts == TypeOK <=> TypeParts
BY DEF TypeOK, TypeParts, SocketTypeOK, FlagTypeOK, WriterTypeOK, LookupTypeOK

LEMMA TypeInit == Init => TypeOK
<1> SUFFICES ASSUME Init PROVE TypeOK
    OBVIOUS
<1> USE DbAssumption DEF Init
<1>1. LT!TreeTypeOK
    BY DEF LT!TreeInit, LT!TreeTypeOK
<1>2. SocketTypeOK
    BY DEF SocketTypeOK, Phases, SocketStates
<1>3. FlagTypeOK
    BY DEF FlagTypeOK
<1>4. WriterTypeOK
    BY DEF WriterTypeOK
<1>5. LookupTypeOK
    BY DEF LookupTypeOK, ReqIdx, Lookups
<1>6. QED
    BY <1>1, <1>2, <1>3, <1>4, <1>5, TypeOKParts DEF TypeParts

\* The socket helpers keep the socket part typed.
LEMMA DestroyType ==
    ASSUME SocketTypeOK, DbAssumption, NEW c \in Conns \cup {NoConn}, Destroy(c),
           UNCHANGED <<hlConn, phase>>
    PROVE  SocketTypeOK'
BY DEF SocketTypeOK, Destroy, Unregister, SocketStates

LEMMA RegisterType ==
    ASSUME SocketTypeOK, DbAssumption, NEW c \in Conns, NEW s \in SocketStates,
           Register(c, s), UNCHANGED phase, hlConn' \in Conns \cup {NoConn}
    PROVE  SocketTypeOK'
BY DEF SocketTypeOK, Register

LEMMA TypeStep == TypeOK /\ [Next]_vars => TypeOK'
<1> SUFFICES ASSUME TypeOK, [Next]_vars PROVE TypeOK'
    OBVIOUS
<1> USE DbAssumption DEF treeVars, lookupVars, flagVars
<1>0. TypeParts
    BY TypeOKParts
<1> USE DEF TypeParts
<1>1. ASSUME NEW c \in Conns, MsgHeadLookup(c) PROVE TypeOK'
    <2>1. LT!TreeTypeOK'
        BY <1>0, <1>1 DEF MsgHeadLookup, LT!TreeTypeOK
    <2>2. SocketTypeOK'
        BY <1>0, <1>1, DestroyType, RegisterType DEF MsgHeadLookup, SocketTypeOK, SocketStates
    <2>3. FlagTypeOK'
        BY <1>0, <1>1 DEF MsgHeadLookup, FlagTypeOK
    <2>4. WriterTypeOK'
        BY <1>0, <1>1 DEF MsgHeadLookup, WriterTypeOK
    <2>5. LookupTypeOK'
        BY <1>0, <1>1 DEF MsgHeadLookup, LookupTypeOK
    <2>6. QED
        BY <2>1, <2>2, <2>3, <2>4, <2>5 DEF TypeOK, SocketTypeOK, FlagTypeOK,
                                            WriterTypeOK, LookupTypeOK
<1>2. ASSUME NEW c \in Conns, MsgLocalDataChannel(c) PROVE TypeOK'
    <2>1. LT!TreeTypeOK'
        BY <1>0, <1>2 DEF MsgLocalDataChannel, LT!TreeTypeOK
    <2>2. SocketTypeOK'
        BY <1>0, <1>2, DestroyType, RegisterType DEF MsgLocalDataChannel, SocketTypeOK, SocketStates
    <2>3. FlagTypeOK'
        BY <1>0, <1>2 DEF MsgLocalDataChannel, FlagTypeOK
    <2>4. WriterTypeOK'
        BY <1>0, <1>2 DEF MsgLocalDataChannel, WriterTypeOK
    <2>5. LookupTypeOK'
        BY <1>0, <1>2 DEF MsgLocalDataChannel, LookupTypeOK
    <2>6. QED
        BY <2>1, <2>2, <2>3, <2>4, <2>5 DEF TypeOK, SocketTypeOK, FlagTypeOK,
                                            WriterTypeOK, LookupTypeOK
<1>3. ASSUME NEW c \in Conns, MsgUnknown(c) PROVE TypeOK'
    <2>1. LT!TreeTypeOK'
        BY <1>0, <1>3 DEF MsgUnknown, LT!TreeTypeOK
    <2>2. SocketTypeOK'
        BY <1>0, <1>3, DestroyType, RegisterType DEF MsgUnknown, SocketTypeOK, SocketStates
    <2>3. FlagTypeOK'
        BY <1>0, <1>3 DEF MsgUnknown, FlagTypeOK
    <2>4. WriterTypeOK'
        BY <1>0, <1>3 DEF MsgUnknown, WriterTypeOK
    <2>5. LookupTypeOK'
        BY <1>0, <1>3 DEF MsgUnknown, LookupTypeOK
    <2>6. QED
        BY <2>1, <2>2, <2>3, <2>4, <2>5 DEF TypeOK, SocketTypeOK, FlagTypeOK,
                                            WriterTypeOK, LookupTypeOK
<1>4. ASSUME NEW c \in Conns, NEW pe \in PeNames, MsgRemoteDataChannel(c, pe)
      PROVE TypeOK'
    <2>1. LT!TreeTypeOK'
        BY <1>0, <1>4 DEF MsgRemoteDataChannel, LT!TreeTypeOK
    <2>2. SocketTypeOK'
        BY <1>0, <1>4, DestroyType, RegisterType DEF MsgRemoteDataChannel, SocketTypeOK, SocketStates
    <2>3. FlagTypeOK'
        BY <1>0, <1>4 DEF MsgRemoteDataChannel, FlagTypeOK
    <2>4. WriterTypeOK'
        BY <1>0, <1>4 DEF MsgRemoteDataChannel, WriterTypeOK
    <2>5. LookupTypeOK'
        BY <1>0, <1>4 DEF MsgRemoteDataChannel, LookupTypeOK
    <2>6. QED
        BY <2>1, <2>2, <2>3, <2>4, <2>5 DEF TypeOK, SocketTypeOK, FlagTypeOK,
                                            WriterTypeOK, LookupTypeOK
<1>5. ASSUME NEW c \in Conns, PeerClose(c) PROVE TypeOK'
    <2>1. LT!TreeTypeOK'
        BY <1>0, <1>5 DEF PeerClose, LT!TreeTypeOK
    <2>2. SocketTypeOK'
        BY <1>0, <1>5, DestroyType, RegisterType DEF PeerClose, SocketTypeOK, SocketStates
    <2>3. FlagTypeOK'
        BY <1>0, <1>5 DEF PeerClose, FlagTypeOK
    <2>4. WriterTypeOK'
        BY <1>0, <1>5 DEF PeerClose, WriterTypeOK
    <2>5. LookupTypeOK'
        BY <1>0, <1>5 DEF PeerClose, LookupTypeOK
    <2>6. QED
        BY <2>1, <2>2, <2>3, <2>4, <2>5 DEF TypeOK, SocketTypeOK, FlagTypeOK,
                                            WriterTypeOK, LookupTypeOK
<1>17. ASSUME NEW c \in Conns, RemoteError(c) PROVE TypeOK'
    <2>1. SocketTypeOK'
        BY <1>0, <1>17 DEF RemoteError, SocketTypeOK, SocketStates
    <2>2. LT!TreeTypeOK' /\ FlagTypeOK' /\ WriterTypeOK' /\ LookupTypeOK'
        BY <1>0, <1>17 DEF RemoteError, LT!TreeTypeOK, FlagTypeOK, WriterTypeOK,
                          LookupTypeOK
    <2>3. QED
        BY <2>1, <2>2 DEF TypeOK, SocketTypeOK, FlagTypeOK, WriterTypeOK, LookupTypeOK
<1>6. CASE MsgAutoMerge
    <2>1. LT!TreeTypeOK'
        BY <1>0, <1>6 DEF MsgAutoMerge, LT!TreeTypeOK
    <2>2. SocketTypeOK'
        BY <1>0, <1>6 DEF MsgAutoMerge, SocketTypeOK
    <2>3. FlagTypeOK'
        BY <1>0, <1>6 DEF MsgAutoMerge, FlagTypeOK
    <2>4. WriterTypeOK'
        BY <1>0, <1>6 DEF MsgAutoMerge, WriterTypeOK
    <2>5. LookupTypeOK'
        BY <1>0, <1>6 DEF MsgAutoMerge, LookupTypeOK
    <2>6. QED
        BY <2>1, <2>2, <2>3, <2>4, <2>5 DEF TypeOK, SocketTypeOK, FlagTypeOK,
                                            WriterTypeOK, LookupTypeOK
<1>7. CASE MsgKill
    <2>1. LT!TreeTypeOK'
        BY <1>0, <1>7 DEF MsgKill, LT!TreeTypeOK
    <2>2. SocketTypeOK'
        BY <1>0, <1>7 DEF MsgKill, SocketTypeOK, Phases
    <2>3. FlagTypeOK'
        BY <1>0, <1>7 DEF MsgKill, FlagTypeOK
    <2>4. WriterTypeOK'
        BY <1>0, <1>7 DEF MsgKill, WriterTypeOK
    <2>5. LookupTypeOK'
        BY <1>0, <1>7 DEF MsgKill, LookupTypeOK
    <2>6. QED
        BY <2>1, <2>2, <2>3, <2>4, <2>5 DEF TypeOK, SocketTypeOK, FlagTypeOK,
                                            WriterTypeOK, LookupTypeOK
<1>8. ASSUME NEW it \in LT!Item, LocalWrite(it) PROVE TypeOK'
    <2>1. LT!TreeTypeOK'
        BY <1>0, <1>8 DEF LocalWrite, LT!Submit, LT!TreeTypeOK
    <2>2. SocketTypeOK'
        BY <1>0, <1>8 DEF LocalWrite, SocketTypeOK
    <2>3. FlagTypeOK'
        BY <1>0, <1>8 DEF LocalWrite, FlagTypeOK
    <2>4. WriterTypeOK'
        BY <1>0, <1>8 DEF LocalWrite, WriterTypeOK
    <2>5. LookupTypeOK'
        BY <1>0, <1>8 DEF LocalWrite, LookupTypeOK
    <2>6. QED
        BY <2>1, <2>2, <2>3, <2>4, <2>5 DEF TypeOK, SocketTypeOK, FlagTypeOK,
                                            WriterTypeOK, LookupTypeOK
<1>9. CASE TreeCommit
    <2>1. LT!TreeTypeOK'
        <3>1. CASE LT!CommitValid
            <4> DEFINE h == Head(buf)
            <4>1. h \in LT!Item
                BY <1>0, <3>1 DEF LT!CommitValid, LT!TreeTypeOK
            <4>2. h.id \in Ids /\ h.v \in Versions
                BY <4>1 DEF LT!Item
            <4>3. log' \in Seq(LT!Item)
                BY <1>0, <3>1, <4>1 DEF LT!CommitValid, LT!TreeTypeOK
            <4>4. buf' \in Seq(LT!Item) /\ Len(buf') <= BufMax
                BY <1>0, <3>1 DEF LT!CommitValid, LT!TreeTypeOK
            <4>5. heads' \subseteq Ids \X Versions
                BY <1>0, <3>1, <4>2 DEF LT!CommitValid, LT!TreeTypeOK
            <4>6. QED
                BY <4>3, <4>4, <4>5 DEF LT!TreeTypeOK
        <3>2. CASE LT!CommitRejected
            BY <1>0, <3>2 DEF LT!CommitRejected, LT!TreeTypeOK
        <3>3. QED
            BY <1>9, <3>1, <3>2 DEF TreeCommit, LT!Commit
    <2>2. SocketTypeOK'
        BY <1>0, <1>9 DEF TreeCommit, SocketTypeOK
    <2>3. FlagTypeOK'
        BY <1>0, <1>9 DEF TreeCommit, FlagTypeOK
    <2>4. WriterTypeOK'
        BY <1>0, <1>9 DEF TreeCommit, WriterTypeOK
    <2>5. LookupTypeOK'
        BY <1>0, <1>9 DEF TreeCommit, LookupTypeOK
    <2>6. QED
        BY <2>1, <2>2, <2>3, <2>4, <2>5 DEF TypeOK, SocketTypeOK, FlagTypeOK,
                                            WriterTypeOK, LookupTypeOK
<1>10. ASSUME NEW r \in Requests, ClientRequest(r) PROVE TypeOK'
    <2>1. LT!TreeTypeOK'
        BY <1>0, <1>10 DEF ClientRequest, LT!TreeTypeOK
    <2>2. SocketTypeOK'
        BY <1>0, <1>10 DEF ClientRequest, SocketTypeOK
    <2>3. FlagTypeOK'
        BY <1>0, <1>10 DEF ClientRequest, FlagTypeOK
    <2>4. WriterTypeOK'
        BY <1>0, <1>10 DEF ClientRequest, WriterTypeOK
    <2>5. LookupTypeOK'
        BY <1>0, <1>10 DEF ClientRequest, LookupTypeOK
    <2>6. QED
        BY <2>1, <2>2, <2>3, <2>4, <2>5 DEF TypeOK, SocketTypeOK, FlagTypeOK,
                                            WriterTypeOK, LookupTypeOK
<1>11. CASE ReadRequest
    <2>1. LT!TreeTypeOK'
        BY <1>0, <1>11 DEF ReadRequest, LT!TreeTypeOK
    <2>2. SocketTypeOK'
        BY <1>0, <1>11 DEF ReadRequest, SocketTypeOK
    <2>3. FlagTypeOK'
        BY <1>0, <1>11 DEF ReadRequest, FlagTypeOK
    <2>4. WriterTypeOK'
        BY <1>0, <1>11 DEF ReadRequest, WriterTypeOK
    <2>5. LookupTypeOK'
        <3> DEFINE k == rd + 1
                   r == sent[k]
        <3>1. k \in ReqIdx /\ r \in Requests
            BY <1>0, <1>11 DEF ReadRequest, LookupTypeOK, ReqIdx
        <3>2. CASE r.kind = "id"
            <4>1. lk' = [lk EXCEPT ![k] = [st |-> "scan", snap |-> LT!LiveHeads(r.arg)]]
                  /\ out' = out
                BY <1>11, <3>2 DEF ReadRequest
            <4>2. QED
                BY <1>0, <1>11, <3>1, <4>1, SnapshotsAreVersions
                   DEF ReadRequest, LookupTypeOK, Lookups
        <3>3. CASE r.kind = "prefix"
            <4>1. lk' = [lk EXCEPT ![k] = [st |-> "scan",
                          snap |-> LT!HeadsOf({id \in Ids : <<r.arg, id>> \in PrefixMatch})]]
                  /\ out' = out
                BY <1>11, <3>3 DEF ReadRequest
            <4>2. QED
                BY <1>0, <1>11, <3>1, <4>1, SnapshotsAreVersions
                   DEF ReadRequest, LookupTypeOK, Lookups
        <3>4. CASE r.kind = "last"
            <4> DEFINE a == IF LT!LastVersion = {} THEN Null
                            ELSE CHOOSE v \in LT!LastVersion : TRUE
            <4>1. lk' = [lk EXCEPT ![k].st = "done"]
                  /\ out' = Append(out, [req |-> k, ans |-> a])
                BY <1>11, <3>4 DEF ReadRequest, Answer
            <4>2. a \in Versions \cup {Null}
                BY <1>0, SnapshotsAreVersions
            <4>3. sent' = sent /\ rd' = rd + 1 /\ rd < Len(sent)
                BY <1>11 DEF ReadRequest
            <4>4. lk' \in [ReqIdx -> Lookups]
                <5>1. lk \in [ReqIdx -> Lookups]
                    BY <1>0 DEF LookupTypeOK
                <5>2. [lk[k] EXCEPT !.st = "done"] \in Lookups
                    BY <5>1, <3>1 DEF Lookups
                <5>3. lk' = [lk EXCEPT ![k] = [lk[k] EXCEPT !.st = "done"]]
                    BY <4>1
                <5>4. QED
                    BY <5>1, <5>2, <5>3, <3>1
            <4>5. out' \in Seq([req : ReqIdx, ans : Versions \cup {Null}])
                BY <1>0, <3>1, <4>1, <4>2 DEF LookupTypeOK
            <4>6. QED
                BY <1>0, <4>3, <4>4, <4>5 DEF LookupTypeOK
        <3>5. QED
            BY <3>1, <3>2, <3>3, <3>4 DEF Requests
    <2>6. QED
        BY <2>1, <2>2, <2>3, <2>4, <2>5 DEF TypeOK, SocketTypeOK, FlagTypeOK,
                                            WriterTypeOK, LookupTypeOK
<1>12. ASSUME NEW k \in ReqIdx, ScanById(k) PROVE TypeOK'
    <2>1. LT!TreeTypeOK'
        BY <1>0, <1>12 DEF ScanById, LT!TreeTypeOK
    <2>2. SocketTypeOK'
        BY <1>0, <1>12, DestroyType, RegisterType DEF ScanById, SocketTypeOK
    <2>3. FlagTypeOK'
        BY <1>0, <1>12 DEF ScanById, FlagTypeOK
    <2>4. WriterTypeOK'
        BY <1>0, <1>12 DEF ScanById, WriterTypeOK
    <2>5. LookupTypeOK'
        <3> DEFINE snap == lk[k].snap
        <3>1. snap \subseteq Versions
            BY <1>0 DEF LookupTypeOK, Lookups
        <3>2. Cardinality(snap) = 1 => (CHOOSE v \in snap : TRUE) \in Versions
            BY <3>1, OneElement
        <3>3. lk' \in [ReqIdx -> Lookups]
            <4>1. lk \in [ReqIdx -> Lookups]
                BY <1>0 DEF LookupTypeOK
            <4>2. \/ lk' = [lk EXCEPT ![k] = [lk[k] EXCEPT !.st = "done"]]
                  \/ lk' = [lk EXCEPT ![k] = [lk[k] EXCEPT !.st = "wait"]]
                BY <1>12 DEF ScanById
            <4>3. QED
                BY <4>1, <4>2 DEF Lookups
        <3>4. out' \in Seq([req : ReqIdx, ans : Versions \cup {Null}])
            <4>1. \/ out' = out
                  \/ /\ Cardinality(snap) = 1
                     /\ out' = Append(out, [req |-> k, ans |-> CHOOSE v \in snap : TRUE])
                  \/ out' = Append(out, [req |-> k, ans |-> Null])
                <5>1. \/ UNCHANGED out
                      \/ Cardinality(snap) = 1 /\ Answer(k, CHOOSE v \in snap : TRUE)
                      \/ Answer(k, Null)
                    BY <1>12 DEF ScanById
                <5>2. QED
                    BY <5>1 DEF Answer
            <4>2. CASE out' = out
                BY <1>0, <4>2 DEF LookupTypeOK
            <4>3. CASE /\ Cardinality(snap) = 1
                       /\ out' = Append(out, [req |-> k, ans |-> CHOOSE v \in snap : TRUE])
                <5>1. (CHOOSE v \in snap : TRUE) \in Versions
                    BY <3>2, <4>3
                <5>2. QED
                    BY <1>0, <4>3, <5>1 DEF LookupTypeOK
            <4>4. CASE out' = Append(out, [req |-> k, ans |-> Null])
                BY <1>0, <4>4 DEF LookupTypeOK
            <4>5. QED
                BY <4>1, <4>2, <4>3, <4>4
        <3>5. QED
            BY <1>0, <1>12, <3>3, <3>4 DEF ScanById, LookupTypeOK
    <2>6. QED
        BY <2>1, <2>2, <2>3, <2>4, <2>5 DEF TypeOK, SocketTypeOK, FlagTypeOK,
                                            WriterTypeOK, LookupTypeOK
<1>13. ASSUME NEW k \in ReqIdx, ScanByPrefix(k) PROVE TypeOK'
    <2>1. LT!TreeTypeOK'
        BY <1>0, <1>13 DEF ScanByPrefix, LT!TreeTypeOK
    <2>2. SocketTypeOK'
        BY <1>0, <1>13 DEF ScanByPrefix, SocketTypeOK
    <2>3. FlagTypeOK'
        BY <1>0, <1>13 DEF ScanByPrefix, FlagTypeOK
    <2>4. WriterTypeOK'
        BY <1>0, <1>13 DEF ScanByPrefix, WriterTypeOK
    <2>5. LookupTypeOK'
        <3>1. lk' \in [ReqIdx -> Lookups]
            BY <1>0, <1>13 DEF ScanByPrefix, LookupTypeOK, Lookups
        <3>2. out' \in Seq([req : ReqIdx, ans : Versions \cup {Null}])
            <4>1. \A v \in lk[k].snap : v \in Versions
                BY <1>0 DEF LookupTypeOK, Lookups
            <4>2. CASE lk[k].snap = {} /\ Answer(k, Null)
                BY <1>0, <4>2 DEF Answer, LookupTypeOK
            <4>3. CASE \E v \in lk[k].snap : Answer(k, v)
                <5>1. PICK v \in lk[k].snap : Answer(k, v)
                    BY <4>3
                <5>2. QED
                    BY <1>0, <4>1, <5>1 DEF Answer, LookupTypeOK
            <4>4. QED
                BY <1>13, <4>2, <4>3 DEF ScanByPrefix
        <3>3. QED
            BY <1>0, <1>13, <3>1, <3>2 DEF ScanByPrefix, LookupTypeOK
    <2>6. QED
        BY <2>1, <2>2, <2>3, <2>4, <2>5 DEF TypeOK, SocketTypeOK, FlagTypeOK,
                                            WriterTypeOK, LookupTypeOK
<1>14. ASSUME NEW k \in ReqIdx, RetryTimer(k) PROVE TypeOK'
    <2>1. LT!TreeTypeOK'
        BY <1>0, <1>14 DEF RetryTimer, LT!TreeTypeOK
    <2>2. SocketTypeOK'
        BY <1>0, <1>14 DEF RetryTimer, SocketTypeOK
    <2>3. FlagTypeOK'
        BY <1>0, <1>14 DEF RetryTimer, FlagTypeOK
    <2>4. WriterTypeOK'
        BY <1>0, <1>14 DEF RetryTimer, WriterTypeOK
    <2>5. LookupTypeOK'
        <3>1. LT!LiveHeads(sent[k].arg) \subseteq Versions
            BY <1>0, SnapshotsAreVersions, Zenon
        <3>2. QED
            BY <1>0, <1>14, <3>1 DEF RetryTimer, LookupTypeOK, Lookups
    <2>6. QED
        BY <2>1, <2>2, <2>3, <2>4, <2>5 DEF TypeOK, SocketTypeOK, FlagTypeOK,
                                            WriterTypeOK, LookupTypeOK
<1>15. CASE DrainDone \/ MtClosed \/ DbClosed \/ Terminated \/ UNCHANGED vars
    <2>1. LT!TreeTypeOK'
        BY <1>0, <1>15 DEF DrainDone, MtClosed, DbClosed, Terminated, vars, LT!TreeTypeOK
    <2>2. SocketTypeOK'
        BY <1>0, <1>15 DEF DrainDone, MtClosed, DbClosed, Terminated, vars, SocketTypeOK,
                          Phases
    <2>3. FlagTypeOK'
        BY <1>0, <1>15 DEF DrainDone, MtClosed, DbClosed, Terminated, vars, FlagTypeOK
    <2>4. WriterTypeOK'
        BY <1>0, <1>15 DEF DrainDone, MtClosed, DbClosed, Terminated, vars, WriterTypeOK
    <2>5. LookupTypeOK'
        BY <1>0, <1>15 DEF DrainDone, MtClosed, DbClosed, Terminated, vars, LookupTypeOK
    <2>6. QED
        BY <2>1, <2>2, <2>3, <2>4, <2>5 DEF TypeOK, SocketTypeOK, FlagTypeOK,
                                            WriterTypeOK, LookupTypeOK
<1>16. QED
    BY <1>1, <1>2, <1>3, <1>4, <1>5, <1>6, <1>7, <1>8, <1>9, <1>10, <1>11, <1>12,
       <1>13, <1>14, <1>15, <1>17 DEF Next

\* Every state the db process reaches is well typed.
THEOREM TypeCorrect == Spec => []TypeOK
BY TypeInit, TypeStep, PTL DEF Spec
-----------------------------------------------------------------------------
(***************************************************************************)
(* The registry and shutdown.                                              *)
(***************************************************************************)

\* Destroying a socket (connErrorHandler, or a close from the peer) runs
\* its 'close' listener: its row is deleted, no other row changes, and the
\* registry still holds only open sockets under their own ids.
LEMMA DestroyInv ==
    ASSUME TypeOK, RowsKeyed, RegistryHoldsOpenSockets, DbAssumption,
           NEW c, Destroy(c)
    PROVE  /\ RowsKeyed'
           /\ RegistryHoldsOpenSockets'
           /\ \A i \in ConnIds : connections'[i] \in {connections[i], NoConn}
           /\ \A i \in ConnIds : connections'[i] # NoConn => connections'[i] # c
           /\ drain' \subseteq drain
<1>1. \A i \in ConnIds : connections'[i] \in {connections[i], NoConn}
    BY DEF Destroy, Unregister, TypeOK
<1>2. \A i \in ConnIds : connections'[i] # NoConn => connections'[i] # c
    <2> SUFFICES ASSUME NEW i \in ConnIds, connections'[i] # NoConn
                 PROVE  connections'[i] # c
        OBVIOUS
    <2>1. CASE connSt[c] \in Listened
        <3>1. connections' = [connections EXCEPT ![ConnIdOf[c]] = NoConn]
            BY <2>1 DEF Destroy, Unregister
        <3>2. i # ConnIdOf[c]
            BY <3>1 DEF TypeOK
        <3>3. connections'[i] = connections[i]
            BY <3>1, <3>2 DEF TypeOK
        <3>4. QED
            BY <3>2, <3>3 DEF RowsKeyed
    <2>2. CASE connSt[c] \notin Listened
        <3>1. connections' = connections
            BY <2>2 DEF Destroy, Unregister
        <3>2. connSt[connections[i]] \in {"open", "remote"}
            BY <3>1 DEF RegistryHoldsOpenSockets
        <3>3. QED
            BY <2>2, <3>1, <3>2 DEF Listened
    <2>3. QED
        BY <2>1, <2>2
<1>3. \A d \in Conns : d # c => connSt'[d] = connSt[d]
    BY DEF Destroy, TypeOK
<1>4. RowsKeyed'
    <2> SUFFICES ASSUME NEW i \in ConnIds, connections'[i] # NoConn
                 PROVE  ConnIdOf[connections'[i]] = i
        BY DEF RowsKeyed
    <2>1. connections'[i] = connections[i]
        BY <1>1
    <2>2. QED
        BY <2>1 DEF RowsKeyed
<1>5. RegistryHoldsOpenSockets'
    <2> SUFFICES ASSUME NEW i \in ConnIds, connections'[i] # NoConn
                 PROVE  connSt'[connections'[i]] \in {"open", "remote"}
        BY DEF RegistryHoldsOpenSockets
    <2>1. connections'[i] = connections[i]
        BY <1>1
    <2>2. connections[i] \in Conns /\ connections[i] # c
        BY <2>1, <1>2 DEF TypeOK
    <2>3. QED
        BY <2>1, <2>2, <1>3 DEF RegistryHoldsOpenSockets
<1>6. QED
    BY <1>1, <1>2, <1>4, <1>5 DEF Destroy

\* Registering a socket the parent has just handed over (the handlers'
\* connections[connId] = conn) keeps the registry keyed and open.
LEMMA RegisterInv ==
    ASSUME TypeOK, RowsKeyed, RegistryHoldsOpenSockets, DbAssumption,
           NEW c \in Conns, NEW s \in {"open", "remote"}, Fresh(c), Register(c, s)
    PROVE  /\ RowsKeyed'
           /\ RegistryHoldsOpenSockets'
<1>1. \A i \in ConnIds : connections[i] # c
    BY DEF Fresh, RegistryHoldsOpenSockets, TypeOK
<1>2. RowsKeyed'
    BY DEF Register, RowsKeyed, TypeOK
<1>3. RegistryHoldsOpenSockets'
    BY <1>1 DEF Register, RegistryHoldsOpenSockets, TypeOK
<1>4. QED
    BY <1>2, <1>3

LEMMA IInvInit == Init => IInv
<1> SUFFICES ASSUME Init PROVE IInv
    OBVIOUS
<1>1. TypeOK
    BY TypeInit
<1>2. WriterInv /\ RowsKeyed /\ RegistryHoldsOpenSockets /\ DrainCovers
    BY DEF Init, WriterInv, RowsKeyed, RegistryHoldsOpenSockets, DrainCovers
<1>3. QED
    BY <1>1, <1>2 DEF IInv

\* The socket part of IInv after a step that destroys c and keeps phase.
LEMMA DestroyStep ==
    ASSUME IInv, DbAssumption, NEW c, Destroy(c), UNCHANGED phase
    PROVE  RowsKeyed' /\ RegistryHoldsOpenSockets' /\ DrainCovers'
<1>1. /\ RowsKeyed' /\ RegistryHoldsOpenSockets'
      /\ \A i \in ConnIds : connections'[i] \in {connections[i], NoConn}
      /\ \A i \in ConnIds : connections'[i] # NoConn => connections'[i] # c
      /\ drain' \subseteq drain
    BY DestroyInv DEF IInv
<1>2. DrainCovers'
    <2>1. \A i \in ConnIds : connections'[i] # NoConn => connections'[i] # c
        BY <1>1
    <2>2. drain' = drain \ {c}
        BY DEF Destroy
    <2>3. QED
        BY <1>1, <2>1, <2>2 DEF DrainCovers, IInv
<1>3. QED
    BY <1>1, <1>2

\* A step that leaves the flags, the counters, the registry, the sockets
\* and shutdown's state alone, and keeps the types, keeps IInv.
LEMMA IInvFrame ==
    ASSUME IInv, TypeOK',
           UNCHANGED <<flagVars, connections, connSt, writeStreams, mergeStreams,
                       phase, drain>>
    PROVE  IInv'
BY DEF IInv, WriterInv, RowsKeyed, RegistryHoldsOpenSockets, DrainCovers, flagVars

LEMMA IInvStep == IInv /\ [Next]_vars => IInv'
<1> SUFFICES ASSUME IInv, [Next]_vars PROVE IInv'
    OBVIOUS
<1> USE DbAssumption DEF treeVars, lookupVars, flagVars
<1>0. TypeOK'
    BY TypeStep DEF IInv
<1>1. ASSUME NEW c \in Conns, MsgHeadLookup(c) PROVE IInv'
    <2>1. WriterInv'
        BY <1>1 DEF MsgHeadLookup, WriterInv, IInv
    <2>2. CASE headLookupReceived \/ Collides(c)
        <3>1. Destroy(c) /\ UNCHANGED phase
            BY <1>1, <2>2 DEF MsgHeadLookup
        <3>2. QED
            BY <1>0, <2>1, <3>1, DestroyStep DEF IInv
    <2>3. CASE ~headLookupReceived /\ ~Collides(c)
        <3>1. Register(c, "open") /\ Fresh(c) /\ phase = "running" /\ phase' = "running"
            BY <1>1, <2>3 DEF MsgHeadLookup
        <3>2. RowsKeyed' /\ RegistryHoldsOpenSockets'
            BY <3>1, RegisterInv DEF IInv
        <3>3. DrainCovers'
            BY <3>1 DEF DrainCovers
        <3>4. QED
            BY <1>0, <2>1, <3>2, <3>3 DEF IInv
    <2>4. QED
        BY <2>2, <2>3
<1>2. ASSUME NEW c \in Conns, MsgLocalDataChannel(c) PROVE IInv'
    <2>1. CASE localDataChannelReceived
        <3>1. Destroy(c) /\ UNCHANGED <<phase, localDataChannelReceived,
                                      autoMergeReceived, writeStreams, mergeStreams>>
            BY <1>2, <2>1 DEF MsgLocalDataChannel
        <3>2. WriterInv'
            BY <3>1 DEF WriterInv, IInv
        <3>3. QED
            BY <1>0, <3>1, <3>2, DestroyStep DEF IInv
    <2>2. CASE ~localDataChannelReceived /\ autoMergeReceived
        <3>1. /\ connSt' = [connSt EXCEPT ![c] = "leaked"]
              /\ Fresh(c)
              /\ UNCHANGED <<connections, phase, drain, localDataChannelReceived,
                             autoMergeReceived, writeStreams, mergeStreams>>
            BY <1>2, <2>2 DEF MsgLocalDataChannel
        <3>2. WriterInv'
            BY <3>1 DEF WriterInv, IInv
        <3>3. RowsKeyed' /\ DrainCovers'
            BY <3>1 DEF RowsKeyed, DrainCovers, IInv
        <3>4. RegistryHoldsOpenSockets'
            <4> SUFFICES ASSUME NEW i \in ConnIds, connections'[i] # NoConn
                         PROVE  connSt'[connections'[i]] \in {"open", "remote"}
                BY DEF RegistryHoldsOpenSockets
            <4>1. connections'[i] = connections[i]
                BY <3>1
            <4>2. connSt[connections[i]] \in {"open", "remote"}
                  /\ connections[i] \in Conns
                BY <4>1 DEF RegistryHoldsOpenSockets, IInv, TypeOK
            <4>3. connections[i] # c
                BY <3>1, <4>2 DEF Fresh
            <4>4. QED
                BY <3>1, <4>1, <4>2, <4>3
        <3>5. QED
            BY <1>0, <3>2, <3>3, <3>4 DEF IInv
    <2>3. CASE ~localDataChannelReceived /\ ~autoMergeReceived /\ Collides(c)
        <3>1. /\ Destroy(c)
              /\ UNCHANGED <<phase, autoMergeReceived, writeStreams, mergeStreams>>
              /\ localDataChannelReceived' = TRUE
            BY <1>2, <2>3 DEF MsgLocalDataChannel
        <3>2. WriterInv'
            BY <2>3, <3>1 DEF WriterInv, IInv
        <3>3. QED
            BY <1>0, <3>1, <3>2, DestroyStep DEF IInv
    <2>4. CASE ~localDataChannelReceived /\ ~autoMergeReceived /\ ~Collides(c)
        <3>1. /\ Register(c, "open") /\ Fresh(c)
              /\ phase = "running" /\ phase' = "running"
              /\ localDataChannelReceived' = TRUE
              /\ UNCHANGED autoMergeReceived
              /\ writeStreams' = writeStreams + 1
              /\ mergeStreams' = mergeStreams + 1
            BY <1>2, <2>4 DEF MsgLocalDataChannel
        <3>2. writeStreams = 0 /\ mergeStreams = 0
            BY <2>4 DEF WriterInv, IInv
        <3>3. WriterInv'
            BY <2>4, <3>1, <3>2 DEF WriterInv
        <3>4. RowsKeyed' /\ RegistryHoldsOpenSockets'
            BY <3>1, RegisterInv DEF IInv
        <3>5. DrainCovers'
            BY <3>1 DEF DrainCovers
        <3>6. QED
            BY <1>0, <3>3, <3>4, <3>5 DEF IInv
    <2>5. QED
        BY <2>1, <2>2, <2>3, <2>4
<1>3. ASSUME NEW c \in Conns, MsgUnknown(c) PROVE IInv'
    <2>1. Destroy(c) /\ UNCHANGED <<phase, flagVars, writeStreams, mergeStreams>>
        BY <1>3 DEF MsgUnknown
    <2>2. WriterInv'
        BY <2>1 DEF WriterInv, IInv
    <2>3. QED
        BY <1>0, <2>1, <2>2, DestroyStep DEF IInv
<1>4. ASSUME NEW c \in Conns, NEW pe \in PeNames, MsgRemoteDataChannel(c, pe)
      PROVE IInv'
    <2>1. WriterInv'
        BY <1>4 DEF MsgRemoteDataChannel, WriterInv, IInv
    <2>2. CASE pe \notin Perspectives \/ Collides(c)
        <3>1. Destroy(c) /\ UNCHANGED phase
            BY <1>4, <2>2 DEF MsgRemoteDataChannel
        <3>2. QED
            BY <1>0, <2>1, <3>1, DestroyStep DEF IInv
    <2>3. CASE ~(pe \notin Perspectives \/ Collides(c))
        <3>1. Register(c, "remote") /\ Fresh(c) /\ phase = "running" /\ phase' = "running"
            BY <1>4, <2>3 DEF MsgRemoteDataChannel
        <3>2. RowsKeyed' /\ RegistryHoldsOpenSockets'
            BY <3>1, RegisterInv DEF IInv
        <3>3. DrainCovers'
            BY <3>1 DEF DrainCovers
        <3>4. QED
            BY <1>0, <2>1, <3>2, <3>3 DEF IInv
    <2>4. QED
        BY <2>2, <2>3
<1>5. ASSUME NEW c \in Conns, PeerClose(c) PROVE IInv'
    <2>1. Destroy(c) /\ UNCHANGED <<phase, flagVars, writeStreams, mergeStreams>>
        BY <1>5 DEF PeerClose
    <2>2. WriterInv'
        BY <2>1 DEF WriterInv, IInv
    <2>3. QED
        BY <1>0, <2>1, <2>2, DestroyStep DEF IInv
<1>18. ASSUME NEW c \in Conns, RemoteError(c) PROVE IInv'
    <2>1. /\ connSt[c] = "remote"
          /\ connSt' = [connSt EXCEPT ![c] = "errored"]
          /\ connections' = [connections EXCEPT ![ConnIdOf[c]] = NoConn]
          /\ UNCHANGED <<flagVars, writeStreams, mergeStreams, phase, drain>>
        BY <1>18 DEF RemoteError
    <2>2. WriterInv'
        BY <2>1 DEF WriterInv, IInv
    <2>3. \A i \in ConnIds : connections'[i] \in {connections[i], NoConn}
        BY <2>1 DEF IInv, TypeOK
    <2>4. \A i \in ConnIds : connections'[i] # NoConn => connections'[i] # c
        BY <2>1 DEF IInv, TypeOK, RowsKeyed
    <2>5. RowsKeyed'
        BY <2>3 DEF RowsKeyed, IInv
    <2>6. RegistryHoldsOpenSockets'
        <3> SUFFICES ASSUME NEW i \in ConnIds, connections'[i] # NoConn
                     PROVE  connSt'[connections'[i]] \in {"open", "remote"}
            BY DEF RegistryHoldsOpenSockets
        <3>1. connections'[i] = connections[i]
            BY <2>3, Zenon
        <3>2. connections[i] \in Conns /\ connections[i] # c
            BY <3>1, <2>4, Zenon DEF IInv, TypeOK
        <3>3. QED
            BY <2>1, <3>1, <3>2 DEF RegistryHoldsOpenSockets, IInv, TypeOK
    <2>7. DrainCovers'
        BY <2>1, <2>3 DEF DrainCovers, IInv
    <2>8. QED
        BY <1>0, <2>2, <2>5, <2>6, <2>7 DEF IInv
<1>6. CASE MsgAutoMerge
    <2>1. writeStreams = 0 /\ mergeStreams = 0
        BY <1>6 DEF MsgAutoMerge, WriterInv, IInv
    <2>2. WriterInv'
        BY <1>6, <2>1 DEF MsgAutoMerge, WriterInv
    <2>3. UNCHANGED <<connections, connSt, phase, drain>>
        BY <1>6 DEF MsgAutoMerge
    <2>4. RowsKeyed' /\ RegistryHoldsOpenSockets' /\ DrainCovers'
        BY <2>3 DEF RowsKeyed, RegistryHoldsOpenSockets, DrainCovers, IInv
    <2>5. QED
        BY <1>0, <2>2, <2>4 DEF IInv
<1>7. CASE MsgKill
    <2>1. DrainCovers'
        BY <1>7 DEF MsgKill, DrainCovers
    <2>2. QED
        BY <1>0, <1>7, <2>1, Zenon DEF MsgKill, IInv, WriterInv, RowsKeyed,
                                RegistryHoldsOpenSockets
<1>8. ASSUME NEW it \in LT!Item, LocalWrite(it) PROVE IInv'
    <2>1. UNCHANGED <<flagVars, connections, connSt, writeStreams, mergeStreams,
                      phase, drain>>
        BY <1>8 DEF LocalWrite
    <2>2. QED
        BY <1>0, <2>1, IInvFrame
<1>9. CASE TreeCommit
    <2>1. UNCHANGED <<flagVars, connections, connSt, writeStreams, mergeStreams,
                      phase, drain>>
        BY <1>9 DEF TreeCommit
    <2>2. QED
        BY <1>0, <2>1, IInvFrame
<1>10. ASSUME NEW r \in Requests, ClientRequest(r) PROVE IInv'
    <2>1. UNCHANGED <<flagVars, connections, connSt, writeStreams, mergeStreams,
                      phase, drain>>
        BY <1>10 DEF ClientRequest
    <2>2. QED
        BY <1>0, <2>1, IInvFrame
<1>11. CASE ReadRequest
    <2>1. UNCHANGED <<flagVars, connections, connSt, writeStreams, mergeStreams,
                      phase, drain>>
        BY <1>11 DEF ReadRequest
    <2>2. QED
        BY <1>0, <2>1, IInvFrame
<1>12. ASSUME NEW k \in ReqIdx, ScanById(k) PROVE IInv'
    <2>1. WriterInv'
        BY <1>12 DEF ScanById, WriterInv, IInv
    <2>2. CASE Destroy(hlConn)
        <3>1. UNCHANGED phase
            BY <1>12 DEF ScanById
        <3>2. QED
            BY <1>0, <2>1, <2>2, <3>1, DestroyStep DEF IInv
    <2>3. CASE UNCHANGED <<connections, connSt, drain>>
        BY <1>0, <1>12, <2>1, <2>3 DEF ScanById, IInv, RowsKeyed,
                                       RegistryHoldsOpenSockets, DrainCovers
    <2>4. QED
        BY <1>12, <2>2, <2>3 DEF ScanById
<1>13. ASSUME NEW k \in ReqIdx, ScanByPrefix(k) PROVE IInv'
    <2>1. UNCHANGED <<flagVars, connections, connSt, writeStreams, mergeStreams,
                      phase, drain>>
        BY <1>13, Zenon DEF ScanByPrefix
    <2>2. QED
        BY <1>0, <2>1, IInvFrame
<1>14. ASSUME NEW k \in ReqIdx, RetryTimer(k) PROVE IInv'
    <2>1. UNCHANGED <<flagVars, connections, connSt, writeStreams, mergeStreams,
                      phase, drain>>
        BY <1>14 DEF RetryTimer
    <2>2. QED
        BY <1>0, <2>1, IInvFrame
<1>15. CASE DrainDone \/ MtClosed \/ DbClosed
    <2>1. UNCHANGED <<flagVars, connections, connSt, writeStreams, mergeStreams,
                      drain>>
        BY <1>15 DEF DrainDone, MtClosed, DbClosed
    <2>2. phase' \in {"mtClosing", "dbClosing", "closed"}
        BY <1>15 DEF DrainDone, MtClosed, DbClosed
    <2>3. DrainDone => drain = {}
        BY DEF DrainDone
    <2>4. phase \in {"mtClosing", "dbClosing"} \/ drain = {}
        BY <1>15, <2>3 DEF MtClosed, DbClosed
    <2>5. drain = {}
        BY <2>4 DEF IInv, DrainCovers
    <2>6. phase # "running"
        BY <1>15 DEF DrainDone, MtClosed, DbClosed
    <2>7. \A i \in ConnIds : connections[i] = NoConn
        <3>0. DrainCovers
            BY DEF IInv
        <3>1. \A i \in ConnIds : connections[i] # NoConn => connections[i] \in drain
            BY <3>0, <2>6, Zenon DEF DrainCovers
        <3>2. QED
            BY <3>1, <2>5
    <2>8. WriterInv' /\ RowsKeyed' /\ RegistryHoldsOpenSockets'
        BY <2>1, <2>7 DEF IInv, WriterInv, RowsKeyed, RegistryHoldsOpenSockets,
                          flagVars
    <2>9. DrainCovers'
        BY <2>1, <2>2, <2>5, <2>7, Zenon DEF DrainCovers
    <2>10. QED
        BY <1>0, <2>8, <2>9 DEF IInv
<1>16. CASE Terminated \/ UNCHANGED vars
    <2>1. UNCHANGED <<flagVars, connections, connSt, writeStreams, mergeStreams,
                      phase, drain>>
        BY <1>16 DEF Terminated, vars, flagVars
    <2>2. QED
        BY <1>0, <2>1, IInvFrame
<1>17. QED
    BY <1>1, <1>2, <1>3, <1>4, <1>5, <1>6, <1>7, <1>8, <1>9, <1>10, <1>11,
       <1>12, <1>13, <1>14, <1>15, <1>16, <1>18, Zenon DEF Next

\* IInv holds in every reachable state.
LEMMA IInvHolds == Spec => []IInv
BY IInvInit, IInvStep, PTL DEF Spec

\* P8: whatever the order of the parent's autoMerge and localDataChannel
\* messages, handleIncomingMsg opens at most one local write stream and at
\* most one merge stream.
THEOREM SingleWriter == Spec => []SingleLocalWriter
<1>1. IInv => SingleLocalWriter
    BY DEF IInv, WriterInv, SingleLocalWriter
<1>2. QED
    BY <1>1, IInvHolds, PTL

\* The registry "connections" holds only open sockets: every close or error
\* listener deletes the row of its socket, and a rejected socket never
\* overwrites a row, so shutdown() never waits on a socket already closed.
THEOREM RegistryOpen == Spec => []RegistryHoldsOpenSockets
<1>1. IInv => RegistryHoldsOpenSockets
    BY DEF IInv
<1>2. QED
    BY <1>1, IInvHolds, PTL

\* When shutdown() calls mt.close() and db.close() the registry is empty:
\* the close listener of every socket it waited for deleted that socket's
\* row, and nothing registers after kill.  (It does not say every channel
\* has closed; see ChannelsEndedBeforeStore.)
THEOREM StoreClosedLast == Spec => []StoreOutlivesChannels
<1>1. IInv => StoreOutlivesChannels
    BY DEF IInv, DrainCovers, StoreOutlivesChannels
<1>2. QED
    BY <1>1, IInvHolds, PTL

=============================================================================
