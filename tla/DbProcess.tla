------------------------------ MODULE DbProcess ------------------------------
(***************************************************************************)
(* The db child process after it has sent "listen" (lib/db.js, postChroot  *)
(* and the three channel handlers): the IPC message dispatch               *)
(* handleIncomingMsg, the registry "connections", the head lookup channel  *)
(* with its retry loop lookupById, the local writer set up by autoMerge or *)
(* by a local data channel, and shutdown.  The local tree it serves        *)
(* lookups from is the Tree module.                                        *)
(*                                                                         *)
(* Every callback of the process runs to completion on one event loop, so *)
(* each action is one callback; the suspension points between them are    *)
(* the IPC messages, socket events, the getHeads scan, the 100 ms timer,  *)
(* the tree's commits and the close callbacks of shutdown.                 *)
(***************************************************************************)
EXTENDS Naturals, Sequences, FiniteSets

CONSTANTS
    Ids, Versions, BufMax,  \* of the local tree
    Conns,          \* sockets the parent can pass along with a message
    ConnIds,        \* values of getConnectionId(conn)
    ConnIdOf,       \* getConnectionId, a function that need not be 1-1
    Perspectives,   \* perspectives of the db config (persCfg.pers)
    PeNames,        \* perspective names a remoteDataChannel may carry
    Prefixes,       \* prefixes a prefixExists request may carry
    PrefixMatch,    \* the pairs <<p, id>> where id starts with p
    MaxReq,         \* requests the head lookup client sends, at most
    MaxWrites,      \* items the local writer submits, at most
    NoConn,         \* an absent connection
    Null            \* an empty answer ({} serialized)

ASSUME DbAssumption ==
    /\ BufMax \in Nat \ {0}
    /\ ConnIdOf \in [Conns -> ConnIds]
    /\ Perspectives \subseteq PeNames
    /\ PrefixMatch \subseteq Prefixes \X Ids
    /\ MaxReq \in Nat /\ MaxWrites \in Nat
    /\ NoConn \notin Conns
    /\ Null \notin Versions

VARIABLES
    log, buf, heads,            \* the local tree
    headLookupReceived,         \* the globals of lib/db.js
    localDataChannelReceived,
    autoMergeReceived,
    connections,                \* [ConnIds -> Conns \cup {NoConn}]
    connSt,                     \* per socket, see SocketStates
    writeStreams,               \* calls of mt.createLocalWriteStream()
    mergeStreams,               \* calls of mt.startMerge()
    writes,                     \* items submitted by the local writer
    hlConn,                     \* the head lookup channel's socket
    sent,                       \* requests the lookup client has sent
    rd,                         \* how many of them ls.read() returned
    lk,                         \* per request: its lookup in progress
    out,                        \* the answers written on the channel
    phase,                      \* "running", then shutdown's stages
    drain                       \* the sockets shutdown waits for

LT == INSTANCE Tree

vars == <<log, buf, heads, headLookupReceived, localDataChannelReceived,
          autoMergeReceived, connections, connSt, writeStreams, mergeStreams,
          writes, hlConn, sent, rd, lk, out, phase, drain>>

Phases == {"running", "draining", "mtClosing", "dbClosing", "closed"}

\* A head lookup request: {id}, {prefixExists} or {} (the last version).
Requests == [kind : {"id"}, arg : Ids] \cup [kind : {"prefix"}, arg : Prefixes]
              \cup [kind : {"last"}, arg : {Null}]

\* A lookup in progress: scanning getHeads from a snapshot, or waiting on
\* the 100 ms timer.  "idle" before the request is read, "done" after.
Lookups == [st : {"idle", "scan", "wait", "done"}, snap : SUBSET Versions]

ReqIdx == 1..MaxReq

Registered(c) == connections[ConnIdOf[c]] = c

\* A socket is "new" (held by the parent), "open" (a head lookup or local
\* data channel), "remote" (a remote data channel), "errored" (a remote
\* socket whose 'error' listener has run, its 'close' still to come),
\* "leaked" (open, with no listener of the process) or "closed".
SocketStates == {"new", "open", "remote", "errored", "leaked", "closed"}

\* The sockets that carry a 'close' listener deleting their registry row.
Listened == {"open", "remote", "errored"}

TypeOK ==
    /\ LT!TreeTypeOK
    /\ headLookupReceived \in BOOLEAN
    /\ localDataChannelReceived \in BOOLEAN
    /\ autoMergeReceived \in BOOLEAN
    /\ connections \in [ConnIds -> Conns \cup {NoConn}]
    /\ connSt \in [Conns -> SocketStates]
    /\ writeStreams \in Nat
    /\ mergeStreams \in Nat
    /\ writes \in 0..MaxWrites
    /\ hlConn \in Conns \cup {NoConn}
    /\ sent \in Seq(Requests) /\ Len(sent) <= MaxReq
    /\ rd \in 0..Len(sent)
    /\ lk \in [ReqIdx -> Lookups]
    /\ out \in Seq([req : ReqIdx, ans : Versions \cup {Null}])
    /\ phase \in Phases
    /\ drain \subseteq Conns

Init ==
    /\ LT!TreeInit
    /\ headLookupReceived = FALSE
    /\ localDataChannelReceived = FALSE
    /\ autoMergeReceived = FALSE
    /\ connections = [i \in ConnIds |-> NoConn]
    /\ connSt = [c \in Conns |-> "new"]
    /\ writeStreams = 0
    /\ mergeStreams = 0
    /\ writes = 0
    /\ hlConn = NoConn
    /\ sent = <<>>
    /\ rd = 0
    /\ lk = [k \in ReqIdx |-> [st |-> "idle", snap |-> {}]]
    /\ out = <<>>
    /\ phase = "running"
    /\ drain = {}

lookupVars == <<hlConn, sent, rd, lk, out>>
flagVars == <<headLookupReceived, localDataChannelReceived, autoMergeReceived>>
treeVars == <<log, buf, heads>>

-----------------------------------------------------------------------------
(***************************************************************************)
(* Sockets.                                                                *)
(***************************************************************************)

\* Mutant: a 'close' listener that misses its delete.
UnregisterNoDelete(c) == UNCHANGED connections

\* The socket's 'close' listener: delete connections[connId], whichever
\* socket the row holds by then.  Every handler that registers a socket
\* installs one; a refused or leaked socket has none.
Unregister(c) ==
    IF connSt[c] \in Listened
    THEN connections' = [connections EXCEPT ![ConnIdOf[c]] = NoConn]
    ELSE UNCHANGED connections

\* A socket closes, by conn.destroy() in connErrorHandler or from the
\* peer's side: its 'close' listeners run, the handler's (Unregister) and,
\* during shutdown, the conn.once('close', cb) of async.each.
Destroy(c) ==
    /\ connSt' = [connSt EXCEPT ![c] = "closed"]
    /\ Unregister(c)
    /\ drain' = drain \ {c}

\* connections[connId] = conn, after the guard "connection already exists",
\* with the socket's listeners installed: s is "open" or "remote".
Register(c, s) ==
    /\ connections' = [connections EXCEPT ![ConnIdOf[c]] = c]
    /\ connSt' = [connSt EXCEPT ![c] = s]
    /\ UNCHANGED drain

Collides(c) == connections[ConnIdOf[c]] # NoConn

\* A socket handed to the process: the parent passes a fresh one.
Fresh(c) == connSt[c] = "new"

-----------------------------------------------------------------------------
(***************************************************************************)
(* handleIncomingMsg, one action per message type.  The listener is      *)
(* removed by shutdown, so messages are handled only while running.       *)
(***************************************************************************)

\* case 'headLookup' and headLookupConnHandler.
MsgHeadLookup(c) ==
    /\ phase = "running" /\ Fresh(c)
    /\ IF headLookupReceived
       THEN /\ Destroy(c)
            /\ UNCHANGED <<headLookupReceived, hlConn>>
       ELSE /\ headLookupReceived' = TRUE
            /\ IF Collides(c)
               THEN Destroy(c) /\ UNCHANGED hlConn
               ELSE Register(c, "open") /\ hlConn' = c
    /\ UNCHANGED <<treeVars, localDataChannelReceived, autoMergeReceived,
                   writeStreams, mergeStreams, writes, sent, rd, lk, out,
                   phase>>

\* case 'autoMerge': mt.startMerge().pipe(mt.createLocalWriteStream()).
\* When a merge or a local channel is already set up, the error is only
\* logged: a step that changes nothing (so a stutter step of the model),
\* like 'localDataChannel' and 'remoteDataChannel' without a socket.
\* Mutant: 'autoMerge' without the localDataChannelReceived check.
MsgAutoMergeNoChannelCheck ==
    /\ phase = "running"
    /\ ~autoMergeReceived
    /\ autoMergeReceived' = TRUE
    /\ mergeStreams' = mergeStreams + 1
    /\ writeStreams' = writeStreams + 1
    /\ UNCHANGED <<treeVars, headLookupReceived, localDataChannelReceived,
                   connections, connSt, writes, lookupVars, phase, drain>>

MsgAutoMerge ==
    /\ phase = "running"
    /\ ~autoMergeReceived
    /\ ~localDataChannelReceived
    /\ autoMergeReceived' = TRUE
    /\ mergeStreams' = mergeStreams + 1
    /\ writeStreams' = writeStreams + 1
    /\ UNCHANGED <<treeVars, headLookupReceived, localDataChannelReceived,
                   connections, connSt, writes, lookupVars, phase, drain>>

\* case 'localDataChannel' and localDataConnHandler: the socket is piped
\* into mt.createLocalWriteStream() and mt.startMerge() is piped back.
MsgLocalDataChannel(c) ==
    /\ phase = "running" /\ Fresh(c)
    /\ IF localDataChannelReceived
       THEN Destroy(c) /\ UNCHANGED <<localDataChannelReceived, writeStreams,
                                     mergeStreams>>
       ELSE IF autoMergeReceived
       THEN \* "already auto merging": logged, returns without a reply
            /\ connSt' = [connSt EXCEPT ![c] = "leaked"]
            /\ UNCHANGED <<connections, localDataChannelReceived,
                           writeStreams, mergeStreams, drain>>
       ELSE /\ localDataChannelReceived' = TRUE
            /\ IF Collides(c)
               THEN Destroy(c) /\ UNCHANGED <<writeStreams, mergeStreams>>
               ELSE /\ Register(c, "open")
                    /\ writeStreams' = writeStreams + 1
                    /\ mergeStreams' = mergeStreams + 1
    /\ UNCHANGED <<treeVars, headLookupReceived, autoMergeReceived, writes,
                   lookupVars, phase>>

\* case 'remoteDataChannel' and remoteDataConnHandler.
MsgRemoteDataChannel(c, pe) ==
    /\ phase = "running" /\ Fresh(c)
    /\ IF pe \notin Perspectives \/ Collides(c)
       THEN Destroy(c)
       ELSE Register(c, "remote")
    /\ UNCHANGED <<treeVars, flagVars, writeStreams, mergeStreams, writes,
                   lookupVars, phase>>

\* The default case, an unknown message type: connErrorHandler(conn).
MsgUnknown(c) ==
    /\ phase = "running" /\ Fresh(c)
    /\ Destroy(c)
    /\ UNCHANGED <<treeVars, flagVars, writeStreams, mergeStreams, writes,
                   lookupVars, phase>>

\* case 'kill': shutdown() removes the message listener, and for every
\* socket in connections calls conn.once('close', cb) and conn.end().
\* Mutant: shutdown iterating over every registry key, deleted rows
\* included (rows set to undefined instead of deleted).
MsgKillAllKeys ==
    /\ phase = "running"
    /\ phase' = "draining"
    /\ drain' = {connections[i] : i \in ConnIds}
    /\ UNCHANGED <<treeVars, flagVars, connections, connSt, writeStreams,
                   mergeStreams, writes, lookupVars>>

MsgKill ==
    /\ phase = "running"
    /\ phase' = "draining"
    /\ drain' = {connections[i] : i \in {j \in ConnIds : connections[j] # NoConn}}
    /\ UNCHANGED <<treeVars, flagVars, connections, connSt, writeStreams,
                   mergeStreams, writes, lookupVars>>

-----------------------------------------------------------------------------
(***************************************************************************)
(* Socket events.                                                          *)
(***************************************************************************)

\* A remote data socket fails: its 'error' listener deletes
\* connections[connId] at once; Node emits 'close' only later, from the
\* socket's close callback, so other callbacks may run in between.
RemoteError(c) ==
    /\ connSt[c] = "remote"
    /\ connSt' = [connSt EXCEPT ![c] = "errored"]
    /\ connections' = [connections EXCEPT ![ConnIdOf[c]] = NoConn]
    /\ UNCHANGED <<treeVars, flagVars, writeStreams, mergeStreams, writes,
                   lookupVars, phase, drain>>

\* The socket closes: the peer closed it (or ended it after shutdown's
\* conn.end()), it failed, or remoteConnHandler called back with an error
\* and connErrorHandler destroyed it.  Its 'close' listeners run.  The
\* head lookup socket's 'error' listener only ends its request stream.
PeerClose(c) ==
    /\ connSt[c] \in Listened \cup {"leaked"}
    /\ Destroy(c)
    /\ UNCHANGED <<treeVars, flagVars, writeStreams, mergeStreams, writes,
                   lookupVars, phase>>

-----------------------------------------------------------------------------
(***************************************************************************)
(* The local writer writes into the local tree until mt.close().           *)
(***************************************************************************)

LocalWrite(it) ==
    /\ writeStreams > 0
    /\ phase \in {"running", "draining"}
    /\ writes < MaxWrites
    /\ LT!Submit(it)
    /\ writes' = writes + 1
    /\ UNCHANGED <<flagVars, connections, connSt, writeStreams, mergeStreams,
                   lookupVars, phase, drain>>

TreeCommit ==
    /\ LT!Commit
    /\ UNCHANGED <<flagVars, connections, connSt, writeStreams, mergeStreams,
                   writes, lookupVars, phase, drain>>

-----------------------------------------------------------------------------
(***************************************************************************)
(* The head lookup channel.                                                *)
(***************************************************************************)

\* The client writes one LDJSON request on the channel.
ClientRequest(r) ==
    /\ hlConn # NoConn /\ connSt[hlConn] = "open"
    /\ Len(sent) < MaxReq
    /\ sent' = Append(sent, r)
    /\ UNCHANGED <<treeVars, flagVars, connections, connSt, writeStreams,
                   mergeStreams, writes, hlConn, rd, lk, out, phase, drain>>

Answer(k, a) == out' = Append(out, [req |-> k, ans |-> a])

\* The 'readable' listener: ls.read() returns the next request.  {id}
\* starts lookupById, whose getHeads scan reads a snapshot of the tree;
\* {prefixExists} starts a getHeads scan with limit 1; {} reads
\* lastVersion and then getByVersion, and writes that item.
ReadRequest ==
    /\ hlConn # NoConn /\ connSt[hlConn] = "open"
    /\ rd < Len(sent)
    /\ LET k == rd + 1
           r == sent[k]
       IN \/ /\ r.kind = "id"
             /\ lk' = [lk EXCEPT ![k] = [st |-> "scan", snap |-> LT!LiveHeads(r.arg)]]
             /\ UNCHANGED out
          \/ /\ r.kind = "prefix"
             /\ lk' = [lk EXCEPT ![k] = [st |-> "scan",
                         snap |-> LT!HeadsOf({id \in Ids : <<r.arg, id>> \in PrefixMatch})]]
             /\ UNCHANGED out
          \/ /\ r.kind = "last"
             /\ lk' = [lk EXCEPT ![k].st = "done"]
             /\ Answer(k, IF LT!LastVersion = {} THEN Null
                          ELSE CHOOSE v \in LT!LastVersion : TRUE)
    /\ rd' = rd + 1
    /\ UNCHANGED <<treeVars, flagVars, connections, connSt, writeStreams,
                   mergeStreams, writes, hlConn, sent, phase, drain>>

\* lookupById's getHeads completes.  A second head found aborts the scan
\* with an error, and connErrorHandler destroys the channel.  One head is
\* written.  No head: if the id is still in the write buffer, retry in
\* 100 ms, otherwise write an empty object.
\* Mutant: lookupById waiting whenever no head is found, without asking
\* inBufferById.
ScanByIdAlwaysWait(k) ==
    /\ lk[k].st = "scan" /\ sent[k].kind = "id"
    /\ LET s == lk[k].snap IN
       \/ /\ Cardinality(s) > 1
          /\ lk' = [lk EXCEPT ![k].st = "done"]
          /\ Destroy(hlConn)
          /\ UNCHANGED out
       \/ /\ Cardinality(s) = 1
          /\ lk' = [lk EXCEPT ![k].st = "done"]
          /\ Answer(k, CHOOSE v \in s : TRUE)
          /\ UNCHANGED <<connections, connSt, drain>>
       \/ /\ s = {}
          /\ lk' = [lk EXCEPT ![k].st = "wait"]
          /\ UNCHANGED <<out, connections, connSt, drain>>
    /\ UNCHANGED <<treeVars, flagVars, writeStreams, mergeStreams, writes,
                   hlConn, sent, rd, phase>>

ScanById(k) ==
    /\ lk[k].st = "scan" /\ sent[k].kind = "id"
    /\ LET s == lk[k].snap IN
       \/ /\ Cardinality(s) > 1
          /\ lk' = [lk EXCEPT ![k].st = "done"]
          /\ Destroy(hlConn)
          /\ UNCHANGED out
       \/ /\ Cardinality(s) = 1
          /\ lk' = [lk EXCEPT ![k].st = "done"]
          /\ Answer(k, CHOOSE v \in s : TRUE)
          /\ UNCHANGED <<connections, connSt, drain>>
       \/ /\ s = {}
          /\ LT!InBufferById(sent[k].arg)
          /\ lk' = [lk EXCEPT ![k].st = "wait"]
          /\ UNCHANGED <<out, connections, connSt, drain>>
       \/ /\ s = {}
          /\ ~LT!InBufferById(sent[k].arg)
          /\ lk' = [lk EXCEPT ![k].st = "done"]
          /\ Answer(k, Null)
          /\ UNCHANGED <<connections, connSt, drain>>
    /\ UNCHANGED <<treeVars, flagVars, writeStreams, mergeStreams, writes,
                   hlConn, sent, rd, phase>>

\* The prefixExists scan yields its first head, whatever its status.
ScanByPrefix(k) ==
    /\ lk[k].st = "scan" /\ sent[k].kind = "prefix"
    /\ lk' = [lk EXCEPT ![k].st = "done"]
    /\ \/ lk[k].snap = {} /\ Answer(k, Null)
       \/ \E v \in lk[k].snap : Answer(k, v)
    /\ UNCHANGED <<treeVars, flagVars, connections, connSt, writeStreams,
                   mergeStreams, writes, hlConn, sent, rd, phase, drain>>

\* The 100 ms timer fires: lookupById(id) scans again.
RetryTimer(k) ==
    /\ lk[k].st = "wait"
    /\ lk' = [lk EXCEPT ![k] = [st |-> "scan", snap |-> LT!LiveHeads(sent[k].arg)]]
    /\ UNCHANGED <<treeVars, flagVars, connections, connSt, writeStreams,
                   mergeStreams, writes, hlConn, sent, rd, out, phase, drain>>

-----------------------------------------------------------------------------
(***************************************************************************)
(* Shutdown, after every socket it waits for has closed: mt.close() (which *)
(* drains the writers), then db.close().                                   *)
(***************************************************************************)

\* Mutant: mt.close() called without waiting for the sockets.
DrainDoneEarly ==
    /\ phase = "draining"
    /\ phase' = "mtClosing"
    /\ UNCHANGED <<treeVars, flagVars, connections, connSt, writeStreams,
                   mergeStreams, writes, lookupVars, drain>>

\* Mutant: shutdown waiting for every socket the process was handed to
\* close, not only those it has ended.
DrainDoneAllClosed ==
    /\ phase = "draining"
    /\ drain = {}
    /\ \A c \in Conns : connSt[c] # "open"
    /\ phase' = "mtClosing"
    /\ UNCHANGED <<treeVars, flagVars, connections, connSt, writeStreams,
                   mergeStreams, writes, lookupVars, drain>>

DrainDone ==
    /\ phase = "draining"
    /\ drain = {}
    /\ phase' = "mtClosing"
    /\ UNCHANGED <<treeVars, flagVars, connections, connSt, writeStreams,
                   mergeStreams, writes, lookupVars, drain>>

MtClosed ==
    /\ phase = "mtClosing"
    /\ buf = <<>>
    /\ phase' = "dbClosing"
    /\ UNCHANGED <<treeVars, flagVars, connections, connSt, writeStreams,
                   mergeStreams, writes, lookupVars, drain>>

DbClosed ==
    /\ phase = "dbClosing"
    /\ phase' = "closed"
    /\ UNCHANGED <<treeVars, flagVars, connections, connSt, writeStreams,
                   mergeStreams, writes, lookupVars, drain>>

\* db.close() has called back: the event loop is empty and the process ends.
Terminated == phase = "closed" /\ UNCHANGED vars

-----------------------------------------------------------------------------

Next ==
    \/ \E c \in Conns :
          \/ MsgHeadLookup(c)
          \/ MsgLocalDataChannel(c)
          \/ MsgUnknown(c)
          \/ \E pe \in PeNames : MsgRemoteDataChannel(c, pe)
          \/ RemoteError(c)
          \/ PeerClose(c)
    \/ MsgAutoMerge \/ MsgKill
    \/ \E it \in LT!Item : LocalWrite(it)
    \/ TreeCommit
    \/ \E r \in Requests : ClientRequest(r)
    \/ ReadRequest
    \/ \E k \in ReqIdx : ScanById(k) \/ ScanByPrefix(k) \/ RetryTimer(k)
    \/ DrainDone \/ MtClosed \/ DbClosed
    \/ Terminated

Spec == Init /\ [][Next]_vars

(***************************************************************************)
(* Fairness.  The process's own callbacks (the scan and timer callbacks of *)
(* lookupById, the 'readable' listener, the tree's batch commits, the      *)
(* close callbacks of shutdown) are scheduled by the event loop once they  *)
(* are due, so they are weakly fair.  A peer that shutdown has sent a FIN  *)
(* (conn.end()) is assumed to close its side.  The parent, the lookup      *)
(* client and the local writer get no fairness: they may stop anytime.     *)
(* A socket that has emitted 'error' is destroyed, and Node always emits   *)
(* its 'close' afterwards.                                                 *)
(***************************************************************************)
Fairness ==
    /\ WF_vars(ReadRequest)
    /\ \A k \in ReqIdx : /\ WF_vars(ScanById(k))
                         /\ WF_vars(ScanByPrefix(k))
                         /\ WF_vars(RetryTimer(k))
    /\ WF_vars(TreeCommit)
    /\ \A c \in Conns : WF_vars(c \in drain /\ PeerClose(c))
    /\ \A c \in Conns : WF_vars(connSt[c] = "errored" /\ PeerClose(c))
    /\ WF_vars(DrainDone) /\ WF_vars(MtClosed) /\ WF_vars(DbClosed)

FairSpec == Spec /\ Fairness

-----------------------------------------------------------------------------
(***************************************************************************)
(* Properties.                                                             *)
(***************************************************************************)

\* P8: handleIncomingMsg opens at most one local write stream and starts at
\* most one merge stream, whatever the order of the parent's autoMerge and
\* localDataChannel messages and whether the handler accepts the socket.
SingleLocalWriter == writeStreams <= 1 /\ mergeStreams <= 1

\* Every socket in the registry "connections" is open and has not failed.
\* shutdown() waits
\* for a 'close' event of each registered socket, so a closed socket left
\* in the registry (a close or error listener that misses its delete, a
\* rejected socket that overwrote a row) would stall it forever.
RegistryHoldsOpenSockets ==
    \A i \in ConnIds : connections[i] # NoConn => connSt[connections[i]] \in {"open", "remote"}

\* When shutdown() calls mt.close() and then db.close(), the registry
\* "connections" is empty: async.each waited for the 'close' of the socket
\* in every row held when kill arrived, each close listener deleted the row
\* its socket held, and handleIncomingMsg no longer registers anything.
\* This is a statement about the registry only: a socket whose row another
\* listener deleted is not waited for, and ChannelsEndedBeforeStore shows
\* that such a channel can still be open at mt.close().
StoreOutlivesChannels ==
    phase \in {"mtClosing", "dbClosing", "closed"} =>
        \A i \in ConnIds : connections[i] = NoConn

\* After kill, shutdown() eventually closes the MergeTree and the store,
\* provided the peers of the ended sockets close their side.
ShutdownCompletes == phase = "draining" ~> phase = "closed"

\* Every lookup that the head lookup channel has read eventually finishes
\* (answered, or ended by an error): lookupById's 100 ms retry loop stops
\* once the tree has flushed the id's buffered writes.
LookupCompletes ==
    \A k \in ReqIdx : lk[k].st \in {"scan", "wait"} ~> lk[k].st = "done"

\* The last answer written on the channel, in the step that writes it.
NewAnswer == Len(out') = Len(out) + 1
LastAnswer == out'[Len(out')]

\* Spec 8, scenario 6 and P5: an {id} lookup does not answer "not found"
\* (an empty object) while the id has a live head in the local tree; a
\* write still in the buffer makes lookupById wait rather than miss it.
NotFoundNotStale ==
    [][ (NewAnswer /\ LastAnswer.ans = Null /\ sent[LastAnswer.req].kind = "id")
          => LT!LiveHeads(sent[LastAnswer.req].arg) = {} ]_vars

\* Spec 1: head lookup is a request/response channel.  The answers written
\* on it carry no request id, so the client pairs them with its requests
\* by order: the channel answers the requests in the order it read them,
\* however long each lookup takes (a retry of lookupById included).
AnswersInRequestOrder ==
    \A j \in 1..Len(out) : out[j].req = j

\* Spec 5 and 7: a channel request that handleIncomingMsg refuses fails;
\* every socket the parent handed over is either closed or registered, so
\* that the peer learns the outcome and shutdown() ends it.
ChannelsAccountedFor ==
    \A c \in Conns : connSt[c] \in {"open", "remote", "leaked"} => Registered(c)

\* shutdown() ends every channel before mt.close(): when the MergeTree and
\* the store close, no head lookup, local or remote data channel the
\* process accepted is still open.  (A socket whose 'error' has fired is
\* already destroyed.)
ChannelsEndedBeforeStore ==
    phase \in {"mtClosing", "dbClosing", "closed"} =>
        \A c \in Conns : connSt[c] \notin {"open", "remote"}
-----------------------------------------------------------------------------
(***************************************************************************)
(* Refinement: the db child implements the abstract channel service       *)
(* DbChannels.  An id is registered when its row of connections holds a   *)
(* socket, the writer is mt.createLocalWriteStream(), the buffered writes *)
(* are the tree's write buffer and shutdown's stages are the same.         *)
(***************************************************************************)
RegRows == {i \in ConnIds : connections[i] # NoConn}

AC == INSTANCE DbChannels
         WITH reg <- RegRows, writer <- writeStreams, stage <- phase,
              buffered <- Len(buf), writes <- writes

\* Every step of handleIncomingMsg, the sockets' listeners, the writer,
\* the tree and shutdown is a step of the abstract service or leaves it
\* unchanged: a channel takes only a free id, autoMerge and the local data
\* channel set up one writer between them, nothing is written after
\* mt.close(), and mt.close() and db.close() wait for an empty registry
\* and a flushed buffer.
RegistrySpec == AC!Spec
=============================================================================
