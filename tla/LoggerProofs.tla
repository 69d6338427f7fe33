----------------------------- MODULE LoggerProofs -----------------------------
(***************************************************************************)
(* Proofs about lib/logger.js (Logger.tla), for every set of file kinds,   *)
(* masks and message priorities that LoggerAssumption allows.              *)
(*                                                                         *)
(* logger() and close() count finished tasks and call back when the count  *)
(* reaches the number of tasks.  That the count reaching it means every    *)
(* file is open (or ended) is not a property of one step: it rests on the  *)
(* count being, in every state, the number of tasks that finished without  *)
(* an error (TaskCount), on a failed task never being counted, and on no   *)
(* task being left once the callback has had "ok".  LInv states this for  *)
(* both counters; it is the inductive invariant every theorem here uses.   *)
(***************************************************************************)
EXTENDS Logger, FiniteSetTheorems, SequenceTheorems, TLAPS

\* The tasks counted as done, of a counter whose tick task is pending or not
\* and whose files in done have called back without an error.
TaskCount(pend, done) == (IF "tick" \in pend THEN 0 ELSE 1) + Cardinality(done)

\* logger()'s counter counts the tick and the files opened, and every
\* configured file gets a task.
OpenCount ==
    /\ pending \subseteq {"tick"} \cup Tasked
    /\ opened \subseteq Tasked
    /\ opened \cap pending = {}
    /\ tasksDone = TaskCount(pending, opened)

\* Once cb has had the api, no task of logger() is left and every tasked
\* file is open.
ReadyExact == Called(calls, "ok") => pending = {} /\ opened = Tasked

\* Before close() nothing of it has happened.
CloseIdle == tasks2 = 0 => pending2 = {} /\ tasks2Done = 0 /\ ended = {} /\ calls2 = <<>>

\* close()'s counter counts the tick and the files ended, out of a tick and
\* one end() per opened file.
CloseCount ==
    tasks2 # 0 => /\ Called(calls, "ok")
                  /\ tasks2 = Cardinality(opened) + 1
                  /\ pending2 \subseteq {"tick"} \cup opened
                  /\ ended \cap pending2 = {}
                  /\ tasks2Done = TaskCount(pending2, ended)

\* Once cb2 has had success, no task of close() is left and every opened
\* file is ended.
ClosedExact == Called(calls2, "ok") => pending2 = {} /\ ended = opened

\* Only the api that cb received logs.
LoggedAfterReady == logged # {} => Called(calls, "ok")

LInv ==
    /\ LoggerTypeOK /\ OpenCount /\ ReadyExact /\ CloseIdle /\ CloseCount
    /\ ClosedExact /\ LoggedAfterReady

-----------------------------------------------------------------------------
(***************************************************************************)
(* Lemmas about the sets of files and the sequences of results.            *)
(***************************************************************************)
LEMMA RolesFinite == IsFiniteSet(Roles) /\ Cardinality(Roles) = 2
<1>1. IsFiniteSet({"file"}) /\ Cardinality({"file"}) = 1
    BY FS_Singleton
<1>2. Roles = {"file"} \cup {"error"} /\ "error" \notin {"file"}
    BY DEF Roles
<1>3. QED
    BY <1>1, <1>2, FS_AddElement

\* A set of files is finite and has at most two elements.
LEMMA RoleSubset ==
    ASSUME NEW S \in SUBSET Roles
    PROVE  IsFiniteSet(S) /\ Cardinality(S) \in 0..2
BY RolesFinite, FS_Subset, FS_CardinalityType

\* A set of files with as many elements as a set of files it is part of is
\* that set.
LEMMA RoleSubsetEqual ==
    ASSUME NEW S \in SUBSET Roles, NEW T \in SUBSET S,
           Cardinality(T) = Cardinality(S)
    PROVE  T = S
BY RoleSubset, FS_Subset

\* Adding a new file to a set of files adds one to its size.
LEMMA RoleAdd ==
    ASSUME NEW S \in SUBSET Roles, NEW x, x \notin S
    PROVE  Cardinality(S \cup {x}) = Cardinality(S) + 1
BY RoleSubset, FS_AddElement

\* A result has been passed after an append iff it was passed before or it
\* is the one appended.
LEMMA CalledAppend ==
    ASSUME NEW s \in Seq(Results), NEW x \in Results, NEW r
    PROVE  Called(Append(s, x), r) <=> Called(s, r) \/ x = r
<1>1. /\ DOMAIN Append(s, x) = 1..(Len(s) + 1)
      /\ \A i \in 1..Len(s) : Append(s, x)[i] = s[i]
      /\ Append(s, x)[Len(s) + 1] = x
    BY AppendProperties
<1>2. DOMAIN s = 1..Len(s) /\ Len(s) \in Nat
    OBVIOUS
<1>3. QED
    BY <1>1, <1>2 DEF Called

LEMMA CalledEmpty == \A r : ~Called(<<>>, r)
BY DEF Called

\* The callback of a task passes "ok" exactly when the count it reaches is
\* the number of tasks.
LEMMA CalledFinish ==
    ASSUME NEW s \in Seq(Results), NEW c \in BOOLEAN
    PROVE  LET t == IF c THEN Append(s, "ok") ELSE s IN
           /\ t \in Seq(Results)
           /\ Called(t, "ok") <=> Called(s, "ok") \/ c
BY CalledAppend, AppendProperties DEF Results

\* An error passed to a callback is not a success.
LEMMA CalledErr ==
    ASSUME NEW s \in Seq(Results)
    PROVE  /\ Append(s, "err") \in Seq(Results)
           /\ Called(Append(s, "err"), "ok") <=> Called(s, "ok")
BY CalledAppend, AppendProperties DEF Results

-----------------------------------------------------------------------------
LEMMA LInvInit == Init => LInv
<1> SUFFICES ASSUME Init PROVE LInv
    OBVIOUS
<1>1. Tasked \subseteq files /\ files \subseteq Roles
    BY DEF Init, Tasked
<1>2. Cardinality(opened) = 0
    BY FS_EmptySet DEF Init
<1>3. LoggerTypeOK
    <2>1. pending \subseteq Tasks /\ opened \subseteq files /\ errored \subseteq opened
        BY <1>1 DEF Init, Tasks
    <2>2. calls \in Seq(Results) /\ calls2 \in Seq(Results)
        BY DEF Init
    <2>3. /\ tasksDone \in 0..3 /\ tasks2 \in 0..3 /\ tasks2Done \in 0..3
          /\ pending2 \subseteq Tasks /\ ended \subseteq opened
          /\ logged \subseteq MsgPrios \cup {DEBUG2} /\ out \subseteq Dests \X Prios
        BY DEF Init
    <2>4. QED
        BY <1>1, <2>1, <2>2, <2>3 DEF Init, LoggerTypeOK
<1>4. OpenCount
    BY <1>1, <1>2 DEF Init, OpenCount, TaskCount
<1>5. ReadyExact /\ ClosedExact /\ LoggedAfterReady
    BY CalledEmpty DEF Init, ReadyExact, ClosedExact, LoggedAfterReady
<1>6. CloseIdle /\ CloseCount
    BY DEF Init, CloseIdle, CloseCount
<1>7. QED
    BY <1>3, <1>4, <1>5, <1>6 DEF LInv

\* What LInv says of the sizes of the sets of files.
LEMMA LInvSizes ==
    ASSUME LInv
    PROVE  /\ Tasked \in SUBSET Roles /\ opened \in SUBSET Tasked
           /\ ended \in SUBSET opened
           /\ Cardinality(Tasked) \in 0..2 /\ Cardinality(opened) \in 0..2
           /\ Cardinality(ended) \in 0..2
<1>1. Tasked \in SUBSET Roles /\ opened \in SUBSET Tasked /\ ended \in SUBSET opened
    BY DEF LInv, LoggerTypeOK, OpenCount, Tasked
<1>2. QED
    BY <1>1, RoleSubset

\* The nextTick task of logger() keeps LInv: it is counted, and if it is the
\* last task cb gets the api with every tasked file open.
LEMMA TickDoneInv == LInv /\ TickDone => LInv'
<1> SUFFICES ASSUME LInv, TickDone PROVE LInv'
    OBVIOUS
<1>0. /\ Tasked \in SUBSET Roles /\ opened \in SUBSET Tasked
      /\ Cardinality(Tasked) \in 0..2 /\ Cardinality(opened) \in 0..2
    BY LInvSizes
<1>1. /\ files' = files /\ kind' = kind /\ opened' = opened /\ errored' = errored
      /\ pending2' = pending2 /\ tasks2' = tasks2 /\ tasks2Done' = tasks2Done
      /\ ended' = ended /\ calls2' = calls2 /\ logged' = logged /\ out' = out
      /\ cons' = cons /\ silence' = silence /\ mask' = mask
    BY DEF TickDone, msgVars
<1>2. Tasked' = Tasked
    BY <1>1 DEF Tasked
<1>3. ~Called(calls, "ok") /\ tasks2 = 0 /\ logged = {}
    BY DEF TickDone, LInv, ReadyExact, CloseCount, LoggedAfterReady
<1>4. tasksDone = Cardinality(opened)
    BY <1>0 DEF TickDone, LInv, OpenCount, TaskCount
<1>5. tasksDone' = TaskCount(pending', opened')
    BY <1>0, <1>1, <1>4 DEF TickDone, TaskCount
<1>6. /\ calls' \in Seq(Results)
      /\ Called(calls', "ok") <=> tasksDone + 1 = Cardinality(Tasked) + 1
    BY <1>3, CalledFinish DEF TickDone, Finish, LInv, LoggerTypeOK
<1>7. OpenCount'
    BY <1>1, <1>2, <1>5 DEF OpenCount, LInv, TickDone
<1>8. ReadyExact'
    <2> SUFFICES ASSUME Called(calls', "ok") PROVE pending' = {} /\ opened' = Tasked'
        BY DEF ReadyExact
    <2>1. Cardinality(opened) = Cardinality(Tasked)
        BY <1>0, <1>4, <1>6
    <2>2. opened = Tasked
        BY <1>0, <2>1, RoleSubsetEqual
    <2>3. pending' = {}
        BY <2>2 DEF TickDone, LInv, OpenCount
    <2>4. QED
        BY <1>1, <1>2, <2>2, <2>3
<1>9. LoggerTypeOK'
    <2>1. tasksDone' \in 0..3 /\ pending' \subseteq Tasks
        BY <1>0, <1>1, <1>5 DEF TaskCount, TickDone, LInv, LoggerTypeOK, Tasks
    <2>2. QED
        BY <1>1, <1>6, <2>1 DEF LInv, LoggerTypeOK
<1>10. CloseIdle' /\ CloseCount' /\ ClosedExact' /\ LoggedAfterReady'
    BY <1>1, <1>3 DEF LInv, CloseIdle, CloseCount, ClosedExact, LoggedAfterReady
<1>11. QED
    BY <1>7, <1>8, <1>9, <1>10 DEF LInv

\* openFile() calling back with its stream keeps LInv: the file is counted
\* as open, and if it is the last task cb gets the api.
LEMMA OpenDoneInv ==
    ASSUME NEW r \in Roles, LInv, OpenDone(r)
    PROVE  LInv'
<1>0. /\ Tasked \in SUBSET Roles /\ opened \in SUBSET Tasked
      /\ Cardinality(Tasked) \in 0..2 /\ Cardinality(opened) \in 0..2
    BY LInvSizes
<1>1. /\ files' = files /\ kind' = kind /\ errored' = errored
      /\ pending2' = pending2 /\ tasks2' = tasks2 /\ tasks2Done' = tasks2Done
      /\ ended' = ended /\ calls2' = calls2 /\ logged' = logged /\ out' = out
      /\ cons' = cons /\ silence' = silence /\ mask' = mask
    BY DEF OpenDone, msgVars
<1>2. Tasked' = Tasked
    BY <1>1 DEF Tasked
<1>3. ~Called(calls, "ok") /\ tasks2 = 0 /\ logged = {}
    BY DEF OpenDone, LInv, ReadyExact, CloseCount, LoggedAfterReady
<1>4. r \in Tasked /\ r \notin opened /\ r # "tick"
    BY DEF OpenDone, LInv, OpenCount, Roles
<1>5. /\ opened' \in SUBSET Tasked
      /\ Cardinality(opened') = Cardinality(opened) + 1
    BY <1>0, <1>4, RoleAdd DEF OpenDone
<1>5a. Cardinality(opened') <= Cardinality(Tasked)
    BY <1>0, <1>5, RoleSubset, FS_Subset
<1>6. tasksDone' = TaskCount(pending', opened')
    <2>1. ("tick" \in pending') <=> ("tick" \in pending)
        BY <1>4 DEF OpenDone
    <2>2. QED
        BY <1>0, <1>5, <2>1 DEF OpenDone, LInv, OpenCount, TaskCount
<1>7. /\ calls' \in Seq(Results)
      /\ Called(calls', "ok") <=> tasksDone + 1 = Cardinality(Tasked) + 1
    BY <1>3, CalledFinish DEF OpenDone, Finish, LInv, LoggerTypeOK
<1>8. OpenCount'
    <2>1. pending' \subseteq {"tick"} \cup Tasked /\ opened' \cap pending' = {}
        BY DEF OpenDone, LInv, OpenCount
    <2>2. QED
        BY <1>2, <1>5, <1>6, <2>1 DEF OpenCount
<1>9. ReadyExact'
    <2> SUFFICES ASSUME Called(calls', "ok") PROVE pending' = {} /\ opened' = Tasked'
        BY DEF ReadyExact
    <2>1. TaskCount(pending', opened') = Cardinality(Tasked) + 1
        BY <1>6, <1>7 DEF OpenDone
    <2>2. "tick" \notin pending' /\ Cardinality(opened') = Cardinality(Tasked)
        BY <1>0, <1>5, <1>5a, <2>1 DEF TaskCount
    <2>3. opened' = Tasked
        BY <1>0, <1>5, <2>2, RoleSubsetEqual
    <2>4. pending' = {}
        BY <1>8, <1>2, <2>2, <2>3 DEF OpenCount
    <2>5. QED
        BY <1>2, <2>3, <2>4
<1>10. LoggerTypeOK'
    <2>1. tasksDone' \in 0..3
        BY <1>0, <1>5, <1>5a, <1>6 DEF TaskCount
    <2>6. pending' \subseteq Tasks
        BY DEF OpenDone, LInv, LoggerTypeOK
    <2>2. opened' \subseteq files /\ errored' \subseteq opened' /\ ended' \subseteq opened'
        BY <1>1, <1>5 DEF OpenDone, LInv, LoggerTypeOK, Tasked
    <2>3. QED
        BY <1>1, <1>7, <2>1, <2>2, <2>6 DEF LInv, LoggerTypeOK
\* close() is not called before cb has had the api, so none of it has
\* happened yet.
<1>11. CloseIdle' /\ CloseCount' /\ ClosedExact' /\ LoggedAfterReady'
    BY <1>1, <1>3, CalledEmpty DEF LInv, CloseIdle, CloseCount, ClosedExact, LoggedAfterReady
<1>12. QED
    BY <1>8, <1>9, <1>10, <1>11 DEF LInv

\* openFile() calling back with an error keeps LInv: the task is not
\* counted, and cb gets the error, not the api.
LEMMA OpenFailedInv ==
    ASSUME NEW r \in Roles, LInv, OpenFailed(r)
    PROVE  LInv'
<1>1. /\ files' = files /\ kind' = kind /\ errored' = errored /\ opened' = opened
      /\ tasksDone' = tasksDone
      /\ pending2' = pending2 /\ tasks2' = tasks2 /\ tasks2Done' = tasks2Done
      /\ ended' = ended /\ calls2' = calls2 /\ logged' = logged /\ out' = out
      /\ cons' = cons /\ silence' = silence /\ mask' = mask
    BY DEF OpenFailed, msgVars
<1>2. Tasked' = Tasked
    BY <1>1 DEF Tasked
<1>3. ~Called(calls, "ok") /\ tasks2 = 0 /\ logged = {}
    BY DEF OpenFailed, LInv, ReadyExact, CloseCount, LoggedAfterReady
<1>4. calls' \in Seq(Results) /\ ~Called(calls', "ok")
    BY <1>3, CalledErr DEF OpenFailed, LInv, LoggerTypeOK
<1>5. OpenCount'
    <2>1. r # "tick"
        BY DEF Roles
    <2>2. QED
        BY <1>1, <1>2, <2>1 DEF OpenFailed, LInv, OpenCount, TaskCount
<1>6. LoggerTypeOK'
    BY <1>1, <1>4 DEF OpenFailed, LInv, LoggerTypeOK
<1>7. QED
    BY <1>1, <1>3, <1>4, <1>5, <1>6
       DEF LInv, ReadyExact, CloseIdle, CloseCount, ClosedExact, LoggedAfterReady

\* A write error of an open path file keeps LInv: cb is called again with
\* the error, which changes no count.
LEMMA WriteFailedInv ==
    ASSUME NEW r \in Roles, LInv, WriteFailed(r)
    PROVE  LInv'
<1>1. /\ files' = files /\ kind' = kind /\ opened' = opened /\ pending' = pending
      /\ tasksDone' = tasksDone
      /\ pending2' = pending2 /\ tasks2' = tasks2 /\ tasks2Done' = tasks2Done
      /\ ended' = ended /\ calls2' = calls2 /\ logged' = logged /\ out' = out
      /\ cons' = cons /\ silence' = silence /\ mask' = mask
    BY DEF WriteFailed, msgVars
<1>2. Tasked' = Tasked
    BY <1>1 DEF Tasked
<1>3. calls' \in Seq(Results) /\ (Called(calls', "ok") <=> Called(calls, "ok"))
    BY CalledErr DEF WriteFailed, LInv, LoggerTypeOK
<1>4. LoggerTypeOK'
    BY <1>1, <1>3 DEF WriteFailed, LInv, LoggerTypeOK
<1>5. QED
    BY <1>1, <1>2, <1>3, <1>4
       DEF LInv, OpenCount, ReadyExact, CloseIdle, CloseCount, ClosedExact,
           LoggedAfterReady

\* A level function writes what log() lets through; nothing is counted.
LEMMA LogInv ==
    ASSUME NEW p \in MsgPrios, LInv, Log(p)
    PROVE  LInv'
<1>1. /\ files' = files /\ kind' = kind /\ opened' = opened /\ pending' = pending
      /\ errored' = errored /\ tasksDone' = tasksDone /\ calls' = calls
      /\ pending2' = pending2 /\ tasks2' = tasks2 /\ tasks2Done' = tasks2Done
      /\ ended' = ended /\ calls2' = calls2
      /\ cons' = cons /\ silence' = silence /\ mask' = mask
    BY DEF Log
<1>2. Tasked' = Tasked
    BY <1>1 DEF Tasked
<1>3. Written(p) \subseteq Dests \X Prios
    <2>1. p \in Prios /\ opened \subseteq Roles
        BY LoggerAssumption DEF LInv, LoggerTypeOK
    <2>2. QED
        BY <2>1 DEF Written, Dests
<1>4. LoggerTypeOK'
    BY <1>1, <1>3 DEF Log, LInv, LoggerTypeOK
<1>5. LoggedAfterReady'
    BY <1>1 DEF Log, LoggedAfterReady
<1>6. QED
    BY <1>1, <1>2, <1>4, <1>5
       DEF LInv, OpenCount, ReadyExact, CloseIdle, CloseCount, ClosedExact

\* close() starts a tick and one end() per opened file; it logs first.
LEMMA CloseInv == LInv /\ Close => LInv'
<1> SUFFICES ASSUME LInv, Close PROVE LInv'
    OBVIOUS
<1>0. opened \in SUBSET Roles /\ Cardinality(opened) \in 0..2
    BY LInvSizes
<1>1. /\ files' = files /\ kind' = kind /\ opened' = opened /\ pending' = pending
      /\ errored' = errored /\ tasksDone' = tasksDone /\ calls' = calls
      /\ tasks2Done' = tasks2Done /\ ended' = ended /\ calls2' = calls2
      /\ cons' = cons /\ silence' = silence /\ mask' = mask
    BY DEF Close
<1>2. Tasked' = Tasked
    BY <1>1 DEF Tasked
<1>3. pending2 = {} /\ tasks2Done = 0 /\ ended = {} /\ calls2 = <<>>
    BY DEF Close, LInv, CloseIdle
<1>4. Written(DEBUG2) \subseteq Dests \X Prios
    BY <1>0 DEF Written, Dests, DEBUG2, Prios
<1>5. LoggerTypeOK'
    <2>1. tasks2' \in 0..3 /\ pending2' \subseteq Tasks
        BY <1>0 DEF Close, Tasks
    <2>2. logged' \subseteq MsgPrios \cup {DEBUG2} /\ out' \subseteq Dests \X Prios
        BY <1>4 DEF Close, LInv, LoggerTypeOK
    <2>3. QED
        BY <1>1, <2>1, <2>2 DEF LInv, LoggerTypeOK
<1>6. CloseCount'
    <2>1. Cardinality(ended') = 0
        BY <1>1, <1>3, FS_EmptySet
    <2>2. QED
        BY <1>1, <1>3, <2>1, <1>0 DEF Close, CloseCount, TaskCount
<1>7. CloseIdle' /\ ClosedExact'
    BY <1>0, <1>1, <1>3, CalledEmpty DEF Close, CloseIdle, ClosedExact
<1>8. OpenCount' /\ ReadyExact' /\ LoggedAfterReady'
    BY <1>1, <1>2 DEF Close, LInv, OpenCount, ReadyExact, LoggedAfterReady
<1>9. QED
    BY <1>5, <1>6, <1>7, <1>8 DEF LInv

\* close()'s nextTick task keeps LInv: it is counted, and if it is the last
\* task cb2 gets success with every opened file ended.
LEMMA CloseTickDoneInv == LInv /\ CloseTickDone => LInv'
<1> SUFFICES ASSUME LInv, CloseTickDone PROVE LInv'
    OBVIOUS
<1>0. /\ opened \in SUBSET Roles /\ ended \in SUBSET opened
      /\ Cardinality(opened) \in 0..2 /\ Cardinality(ended) \in 0..2
    BY LInvSizes
<1>1. /\ files' = files /\ kind' = kind /\ opened' = opened /\ pending' = pending
      /\ errored' = errored /\ tasksDone' = tasksDone /\ calls' = calls
      /\ tasks2' = tasks2 /\ ended' = ended /\ logged' = logged /\ out' = out
      /\ cons' = cons /\ silence' = silence /\ mask' = mask
    BY DEF CloseTickDone, msgVars
<1>2. Tasked' = Tasked
    BY <1>1 DEF Tasked
<1>3. tasks2 # 0 /\ ~Called(calls2, "ok")
    BY DEF CloseTickDone, LInv, CloseIdle, ClosedExact
<1>4. /\ tasks2 = Cardinality(opened) + 1
      /\ tasks2Done = Cardinality(ended)
      /\ tasks2Done' = TaskCount(pending2', ended')
    BY <1>0, <1>1, <1>3 DEF CloseTickDone, LInv, CloseCount, TaskCount
<1>5. /\ calls2' \in Seq(Results)
      /\ Called(calls2', "ok") <=> tasks2Done + 1 = tasks2
    BY <1>3, CalledFinish DEF CloseTickDone, Finish2, LInv, LoggerTypeOK
<1>6. CloseCount'
    BY <1>1, <1>3, <1>4 DEF CloseTickDone, LInv, CloseCount
<1>7. ClosedExact'
    <2> SUFFICES ASSUME Called(calls2', "ok") PROVE pending2' = {} /\ ended' = opened'
        BY DEF ClosedExact
    <2>1. ended = opened
        BY <1>0, <1>4, <1>5, RoleSubsetEqual
    <2>2. QED
        BY <1>1, <1>3, <2>1 DEF CloseTickDone, LInv, CloseCount
<1>8. LoggerTypeOK'
    <2>1. tasks2Done' \in 0..3 /\ pending2' \subseteq Tasks
        BY <1>0, <1>4 DEF CloseTickDone, LInv, LoggerTypeOK, TaskCount
    <2>2. QED
        BY <1>1, <1>5, <2>1 DEF LInv, LoggerTypeOK
<1>9. QED
    BY <1>1, <1>2, <1>3, <1>6, <1>7, <1>8
       DEF LInv, OpenCount, ReadyExact, CloseIdle, LoggedAfterReady

\* end() calling back without an error keeps LInv: the file is counted as
\* ended, and if it is the last task cb2 gets success.
LEMMA EndDoneInv ==
    ASSUME NEW r \in Roles, LInv, EndDone(r)
    PROVE  LInv'
<1>0. /\ opened \in SUBSET Roles /\ ended \in SUBSET opened
      /\ Cardinality(opened) \in 0..2 /\ Cardinality(ended) \in 0..2
    BY LInvSizes
<1>1. /\ files' = files /\ kind' = kind /\ opened' = opened /\ pending' = pending
      /\ errored' = errored /\ tasksDone' = tasksDone /\ calls' = calls
      /\ tasks2' = tasks2 /\ logged' = logged /\ out' = out
      /\ cons' = cons /\ silence' = silence /\ mask' = mask
    BY DEF EndDone, msgVars
<1>2. Tasked' = Tasked
    BY <1>1 DEF Tasked
<1>3. tasks2 # 0 /\ ~Called(calls2, "ok")
    BY DEF EndDone, LInv, CloseIdle, ClosedExact
<1>4. r \in opened /\ r \notin ended /\ r # "tick"
    BY <1>3 DEF EndDone, LInv, CloseCount, Roles
<1>5. /\ ended' \in SUBSET opened
      /\ Cardinality(ended') = Cardinality(ended) + 1
      /\ Cardinality(ended') <= Cardinality(opened)
    BY <1>0, <1>4, RoleAdd, RoleSubset, FS_Subset DEF EndDone
<1>6. tasks2Done' = TaskCount(pending2', ended')
    <2>1. ("tick" \in pending2') <=> ("tick" \in pending2)
        BY <1>4 DEF EndDone
    <2>2. QED
        BY <1>0, <1>3, <1>5, <2>1 DEF EndDone, LInv, CloseCount, TaskCount
<1>7. /\ calls2' \in Seq(Results)
      /\ Called(calls2', "ok") <=> tasks2Done + 1 = tasks2
    BY <1>3, CalledFinish DEF EndDone, Finish2, LInv, LoggerTypeOK
<1>8. CloseCount'
    <2>1. pending2' \subseteq {"tick"} \cup opened /\ ended' \cap pending2' = {}
        BY <1>3 DEF EndDone, LInv, CloseCount
    <2>2. QED
        BY <1>1, <1>3, <1>6, <2>1 DEF LInv, CloseCount
<1>9. ClosedExact'
    <2> SUFFICES ASSUME Called(calls2', "ok") PROVE pending2' = {} /\ ended' = opened'
        BY DEF ClosedExact
    <2>1. TaskCount(pending2', ended') = Cardinality(opened) + 1
        BY <1>3, <1>6, <1>7 DEF EndDone, LInv, CloseCount
    <2>2. "tick" \notin pending2' /\ Cardinality(ended') = Cardinality(opened)
        BY <1>0, <1>5, <2>1 DEF TaskCount
    <2>3. ended' = opened
        BY <1>0, <1>5, <2>2, RoleSubsetEqual
    <2>4. pending2' = {}
        BY <1>8, <1>1, <1>3, <2>2, <2>3 DEF CloseCount
    <2>5. QED
        BY <1>1, <2>3, <2>4
<1>10. LoggerTypeOK'
    <2>1. tasks2Done' \in 0..3
        BY <1>0, <1>5, <1>6 DEF TaskCount
    <2>2. pending2' \subseteq Tasks
        BY DEF EndDone, LInv, LoggerTypeOK
    <2>3. QED
        BY <1>1, <1>5, <1>7, <2>1, <2>2 DEF LInv, LoggerTypeOK
<1>11. QED
    BY <1>1, <1>2, <1>3, <1>8, <1>9, <1>10
       DEF LInv, OpenCount, ReadyExact, CloseIdle, LoggedAfterReady

\* end() calling back with an error keeps LInv: it is not counted, and cb2
\* gets the error.
LEMMA EndFailedInv ==
    ASSUME NEW r \in Roles, LInv, EndFailed(r)
    PROVE  LInv'
<1>1. /\ files' = files /\ kind' = kind /\ opened' = opened /\ pending' = pending
      /\ errored' = errored /\ tasksDone' = tasksDone /\ calls' = calls
      /\ tasks2' = tasks2 /\ tasks2Done' = tasks2Done /\ ended' = ended
      /\ logged' = logged /\ out' = out
      /\ cons' = cons /\ silence' = silence /\ mask' = mask
    BY DEF EndFailed, msgVars
<1>2. Tasked' = Tasked
    BY <1>1 DEF Tasked
<1>3. tasks2 # 0 /\ ~Called(calls2, "ok")
    BY DEF EndFailed, LInv, CloseIdle, ClosedExact
<1>4. calls2' \in Seq(Results) /\ ~Called(calls2', "ok")
    BY <1>3, CalledErr DEF EndFailed, LInv, LoggerTypeOK
<1>5. CloseCount'
    <2>1. r # "tick"
        BY DEF Roles
    <2>2. QED
        BY <1>1, <1>3, <2>1 DEF EndFailed, LInv, CloseCount, TaskCount
<1>6. LoggerTypeOK'
    BY <1>1, <1>4 DEF EndFailed, LInv, LoggerTypeOK
<1>7. QED
    BY <1>1, <1>2, <1>3, <1>4, <1>5, <1>6
       DEF LInv, OpenCount, ReadyExact, CloseIdle, ClosedExact, LoggedAfterReady

\* Every step of the logger keeps LInv.
LEMMA LInvStep == LInv /\ [Next]_vars => LInv'
<1> SUFFICES ASSUME LInv, [Next]_vars PROVE LInv'
    OBVIOUS
<1>1. CASE TickDone
    BY <1>1, TickDoneInv
<1>2. CASE \E r \in Roles : OpenDone(r) \/ OpenFailed(r)
    BY <1>2, OpenDoneInv, OpenFailedInv
<1>3. CASE \E p \in MsgPrios : Log(p)
    BY <1>3, LogInv
<1>4. CASE Close
    BY <1>4, CloseInv
<1>5. CASE CloseTickDone
    BY <1>5, CloseTickDoneInv
<1>6. CASE \E r \in Roles : EndDone(r) \/ EndFailed(r)
    BY <1>6, EndDoneInv, EndFailedInv
<1>7. CASE \E r \in Roles : WriteFailed(r)
    BY <1>7, WriteFailedInv
<1>8. CASE Settled \/ UNCHANGED vars
    BY <1>8 DEF Settled, vars, LInv, LoggerTypeOK, OpenCount, Tasked, ReadyExact,
                CloseIdle, CloseCount, ClosedExact, LoggedAfterReady
<1>9. QED
    BY <1>1, <1>2, <1>3, <1>4, <1>5, <1>6, <1>7, <1>8 DEF Next

-----------------------------------------------------------------------------
(***************************************************************************)
(* Theorems.                                                               *)
(***************************************************************************)
LEMMA LInvHolds == Spec => []LInv
BY LInvInit, LInvStep, PTL DEF Spec

\* The logger's state always has its type; in particular its counters
\* never pass the number of tasks (LoggerTypeOK of the logger run).
THEOREM LoggerTypeCorrect == Spec => []LoggerTypeOK
BY LInvHolds, PTL DEF LInv

\* Whatever the order in which the tasks of logger() call back, cb gets the
\* api only once every file that got an openFile task is open.
THEOREM ReadyWhenTasksOpened == Spec => [](Called(calls, "ok") => opened = Tasked)
BY LInvHolds, PTL DEF LInv, ReadyExact

\* Where no file is given as descriptor 0, every configured file gets a
\* task, and cb gets the api only once every configured file is open
\* (ReadyOnlyWhenOpened of the logger run; with descriptor 0 the run
\* logger_fd0 shows it false).
THEOREM ReadyOnlyOpened ==
    ASSUME "fd0" \notin FileKinds
    PROVE  Spec => []ReadyOnlyWhenOpened
<1>1. LInv => ReadyOnlyWhenOpened
    <2> SUFFICES ASSUME LInv, Called(calls, "ok") PROVE opened = files
        BY DEF ReadyOnlyWhenOpened
    <2>1. Tasked = files
        BY DEF LInv, LoggerTypeOK, Tasked
    <2>2. QED
        BY <2>1 DEF LInv, ReadyExact
<1>2. QED
    BY <1>1, LInvHolds, PTL

\* Whatever the order in which the tasks of close() call back, cb2 reports
\* success only once every opened file has been ended (ClosedOnlyWhenEnded
\* of the logger run).
THEOREM ClosedAfterEnds == Spec => []ClosedOnlyWhenEnded
BY LInvHolds, PTL DEF LInv, ClosedExact, ClosedOnlyWhenEnded
=============================================================================
