-------------------------------- MODULE Logger --------------------------------
(***************************************************************************)
(* lib/logger.js: logger(opts, cb) starts its tasks all at once (a         *)
(* nextTick task, and one openFile task for each of opts.file and          *)
(* opts.error) and calls cb when the number of finished tasks reaches the  *)
(* number of tasks; close(cb2) does the same with a nextTick task and one  *)
(* end() task per opened file.  The tasks finish in any order, and a task *)
(* that fails calls the callback with its error at once.                   *)
(*                                                                         *)
(* The file names, descriptors and streams are abstracted to the two roles *)
(* "file" and "error" and to how each is given: a path, a descriptor other *)
(* than 0, descriptor 0, or a writable stream object.  A message is its    *)
(* priority; its text and formatting are left out.                         *)
(***************************************************************************)
EXTENDS Naturals, Sequences, FiniteSets

\* The priorities of lib/logger.js (POSIX order) and its error threshold.
Prios == 0..8
CRIT == 2
ERR_THRESHOLD == 3
NOTICE == 5
DEBUG2 == 8
PRIOS == <<"EMERG", "ALERT", "CRIT", "ERR", "WARNING", "NOTICE", "INFO", "DEBUG", "DEBUG2">>

\* levelToPrio(name): the index of the (upper-cased) name in PRIOS, or null
\* for a name that is not a level.
LevelToPrio(name) ==
    IF \E i \in DOMAIN PRIOS : PRIOS[i] = name
    THEN CHOOSE p \in Prios : PRIOS[p + 1] = name
    ELSE "null"

CONSTANTS
    FileKinds,  \* how opts.file and opts.error may be given
    Masks,      \* the values opts.mask may have
    MsgPrios    \* the priorities the level functions are called with

ASSUME LoggerAssumption ==
    /\ FileKinds \subseteq {"path", "fd", "fd0", "stream"}
    /\ Masks \subseteq Prios
    /\ MsgPrios \subseteq Prios

VARIABLES
    files,      \* the files configured: a subset of {"file", "error"}
    kind,       \* per file: given as a "path" or as a descriptor "fd"
    errored,    \* path files whose write stream has emitted 'error'
    pending,    \* tasks of logger() not yet finished
    tasksDone,  \* the counter tasksDone
    opened,     \* files whose openFile has called back with a stream
    calls,      \* the results passed to cb, in order: "ok" or "err"
    pending2,   \* tasks of close() not yet finished ({} before close())
    tasks2,     \* the number of tasks of close(), 0 before close()
    tasks2Done, \* the counter tasks2Done
    ended,      \* files whose end() has called back
    calls2,     \* the results passed to cb2, in order
    cons,       \* opts.console
    silence,    \* opts.silence
    mask,       \* opts.mask
    logged,     \* the priorities the level functions have been called with
    out         \* the messages written: <<destination, priority>>

vars == <<files, kind, errored, pending, tasksDone, opened, calls, pending2, tasks2,
          tasks2Done, ended, calls2, cons, silence, mask, logged, out>>
msgVars == <<cons, silence, mask, logged, out>>

Roles == {"file", "error"}
Tasks == {"tick"} \cup Roles
Results == {"ok", "err"}
Dests == Roles \cup {"stdout", "stderr"}

\* if (file) / if (error): a file given as descriptor 0 is falsy and gets
\* no openFile task.
Tasked == {r \in files : kind[r] # "fd0"}

LoggerTypeOK ==
    /\ files \subseteq Roles
    /\ kind \in [Roles -> FileKinds]
    /\ errored \subseteq opened
    /\ pending \subseteq Tasks
    /\ tasksDone \in 0..3
    /\ opened \subseteq files
    /\ calls \in Seq(Results)
    /\ pending2 \subseteq Tasks
    /\ tasks2 \in 0..3
    /\ tasks2Done \in 0..3
    /\ ended \subseteq opened
    /\ calls2 \in Seq(Results)
    /\ cons \in BOOLEAN /\ silence \in BOOLEAN /\ mask \in Masks
    /\ logged \subseteq MsgPrios \cup {DEBUG2}
    /\ out \subseteq Dests \X Prios

(***************************************************************************)
(* logger(opts, cb) with a configuration that passes its checks (a call   *)
(* that throws never starts a task): every combination of file and error, *)
(* console, mask and silence for which one logging method is truthy.  The  *)
(* forEach starts every task.                                              *)
(***************************************************************************)
Init ==
    /\ files \in SUBSET Roles
    /\ kind \in [Roles -> FileKinds]
    /\ cons \in BOOLEAN /\ silence \in BOOLEAN /\ mask \in Masks
    /\ cons \/ silence \/ Tasked # {}
    /\ errored = {}
    /\ pending = {"tick"} \cup Tasked
    /\ tasksDone = 0
    /\ opened = {}
    /\ calls = <<>>
    /\ pending2 = {}
    /\ tasks2 = 0
    /\ tasks2Done = 0
    /\ ended = {}
    /\ calls2 = <<>>
    /\ logged = {}
    /\ out = {}

\* The callback each task passes to logger's forEach: an error is passed on
\* at once; otherwise cb(null, api) when tasksDone === tasks.length.
\* Mutant: the api handed out one task early.
FinishEarly(done, n) ==
    calls' = IF done = n - 1 THEN Append(calls, "ok") ELSE calls

Finish(done, n) ==
    calls' = IF done = n THEN Append(calls, "ok") ELSE calls

\* The nextTick task: tasksDone++ and cb2().
TickDone ==
    /\ "tick" \in pending
    /\ pending' = pending \ {"tick"}
    /\ tasksDone' = tasksDone + 1
    /\ Finish(tasksDone + 1, Cardinality(Tasked) + 1)
    /\ UNCHANGED <<msgVars, files, kind, errored, opened, pending2, tasks2, tasks2Done, ended, calls2>>

\* openFile(file) calls back with the stream: logFile or errFile is set,
\* tasksDone++ and cb2().
OpenDone(r) ==
    /\ r \in pending
    /\ pending' = pending \ {r}
    /\ opened' = opened \cup {r}
    /\ tasksDone' = tasksDone + 1
    /\ Finish(tasksDone + 1, Cardinality(Tasked) + 1)
    /\ UNCHANGED <<msgVars, files, kind, errored, pending2, tasks2, tasks2Done, ended, calls2>>

\* openFile(file) calls back with an error: the write stream of a path
\* emits 'error' before 'open'.  cb2(err), and the forEach callback calls
\* cb(err).  A descriptor is wrapped without a check and never fails here.
\* Mutant: an open error swallowed by the task.
OpenFailedSilent(r) ==
    /\ r \in pending
    /\ kind[r] = "path"
    /\ pending' = pending \ {r}
    /\ UNCHANGED <<msgVars, files, kind, errored, tasksDone, opened, calls, pending2,
                   tasks2, tasks2Done, ended, calls2>>

OpenFailed(r) ==
    /\ r \in pending
    /\ kind[r] = "path"
    /\ pending' = pending \ {r}
    /\ calls' = Append(calls, "err")
    /\ UNCHANGED <<msgVars, files, kind, errored, tasksDone, opened, pending2, tasks2, tasks2Done,
                   ended, calls2>>

Called(seq, res) == \E k \in DOMAIN seq : seq[k] = res

(***************************************************************************)
(* log(prio, ...): nothing when prio > mask or silence; otherwise the      *)
(* message goes to logFile when it is set, to errFile when it is set and  *)
(* prio <= ERR_THRESHOLD, and with console to stderr (prio <=             *)
(* ERR_THRESHOLD) or stdout.                                               *)
(***************************************************************************)
Written(p) ==
    IF p > mask \/ silence THEN {}
    ELSE {<<r, p>> : r \in {r2 \in opened : r2 = "file" \/ p <= ERR_THRESHOLD}}
         \cup {<<d, p>> : d \in IF ~cons THEN {}
                                ELSE IF p <= ERR_THRESHOLD THEN {"stderr"}
                                ELSE {"stdout"}}

\* A level function (emerg ... debug2) of the api that cb received calls
\* log with its priority.
Log(p) ==
    /\ Called(calls, "ok")
    /\ logged' = logged \cup {p}
    /\ out' = out \cup Written(p)
    /\ UNCHANGED <<files, kind, errored, pending, tasksDone, opened, calls, pending2,
                   tasks2, tasks2Done, ended, calls2, cons, silence, mask>>

(***************************************************************************)
(* close(cb2), called on the api that cb received: logDebug2('closing all *)
(* logs'), then a nextTick task and an end() task for logFile and for      *)
(* errFile when they are set.                                              *)
(***************************************************************************)
Close ==
    /\ Called(calls, "ok")
    /\ tasks2 = 0
    /\ logged' = logged \cup {DEBUG2}
    /\ out' = out \cup Written(DEBUG2)
    /\ pending2' = {"tick"} \cup opened
    /\ tasks2' = Cardinality(opened) + 1
    /\ UNCHANGED <<files, kind, errored, pending, tasksDone, opened, calls, tasks2Done,
                   ended, calls2, cons, silence, mask>>

\* Mutant: cb2 called one task early.
Finish2Early(done) ==
    calls2' = IF done = tasks2 - 1 THEN Append(calls2, "ok") ELSE calls2

Finish2(done) ==
    calls2' = IF done = tasks2 THEN Append(calls2, "ok") ELSE calls2

CloseTickDone ==
    /\ "tick" \in pending2
    /\ pending2' = pending2 \ {"tick"}
    /\ tasks2Done' = tasks2Done + 1
    /\ Finish2(tasks2Done + 1)
    /\ UNCHANGED <<msgVars, files, kind, errored, pending, tasksDone, opened, calls, tasks2, ended>>

\* logFile.end() or errFile.end() calls back without an error.
EndDone(r) ==
    /\ r \in pending2
    /\ pending2' = pending2 \ {r}
    /\ ended' = ended \cup {r}
    /\ tasks2Done' = tasks2Done + 1
    /\ Finish2(tasks2Done + 1)
    /\ UNCHANGED <<msgVars, files, kind, errored, pending, tasksDone, opened, calls, tasks2>>

\* end() calls back with an error: cb3(err), and cb2(err).
EndFailed(r) ==
    /\ r \in pending2
    /\ pending2' = pending2 \ {r}
    /\ calls2' = Append(calls2, "err")
    /\ UNCHANGED <<msgVars, files, kind, errored, pending, tasksDone, opened, calls, tasks2,
                   tasks2Done, ended>>

\* The write stream of an opened path emits 'error' later (a failed write):
\* the listener logFile.once('error', cb) installed by openFile is still
\* in place, so openFile's callback runs again and so does logger's cb.
\* Mutant: a write error reported for a file that never opened.
WriteFailedAny(r) ==
    /\ r \in files \ errored
    /\ kind[r] = "path"
    /\ errored' = errored \cup {r}
    /\ calls' = Append(calls, "err")
    /\ UNCHANGED <<msgVars, files, kind, pending, tasksDone, opened, pending2, tasks2,
                   tasks2Done, ended, calls2>>

WriteFailed(r) ==
    /\ r \in opened \ errored
    /\ kind[r] = "path"
    /\ errored' = errored \cup {r}
    /\ calls' = Append(calls, "err")
    /\ UNCHANGED <<msgVars, files, kind, pending, tasksDone, opened, pending2, tasks2,
                   tasks2Done, ended, calls2>>

\* Every task has called back and nothing is left to do.
Settled ==
    /\ pending = {} /\ pending2 = {}
    /\ UNCHANGED vars

Next ==
    \/ TickDone
    \/ \E r \in Roles : OpenDone(r) \/ OpenFailed(r)
    \/ \E p \in MsgPrios : Log(p)
    \/ Close
    \/ CloseTickDone
    \/ \E r \in Roles : EndDone(r) \/ EndFailed(r)
    \/ \E r \in Roles : WriteFailed(r)
    \/ Settled

\* The event loop runs every task's callback once it is due.
Fairness ==
    /\ WF_vars(TickDone) /\ WF_vars(CloseTickDone)
    /\ \A r \in Roles : /\ WF_vars(OpenDone(r) \/ OpenFailed(r))
                        /\ WF_vars(EndDone(r) \/ EndFailed(r))

Spec == Init /\ [][Next]_vars /\ Fairness

-----------------------------------------------------------------------------
(***************************************************************************)
(* Properties.                                                             *)
(***************************************************************************)

\* logger() hands out its api only when every configured file is open: the
\* count of finished tasks, raised from callbacks that run in any order,
\* must not reach tasks.length before the last openFile has called back.
ReadyOnlyWhenOpened == Called(calls, "ok") => opened = files

\* close() reports success only when every opened file has been ended.
ClosedOnlyWhenEnded == Called(calls2, "ok") => ended = opened

\* logger() always answers: cb is eventually called, with the api or with
\* an error, whichever tasks fail.
LoggerAnswers == <>(calls # <<>>)

\* The documented contract of logger(opts, cb): cb is called once, with an
\* error or with the api (and likewise cb2 of close()).
CallbackOnce == Len(calls) <= 1 /\ Len(calls2) <= 1
=============================================================================
