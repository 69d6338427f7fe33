------------------------------ MODULE DbStartup ------------------------------
(***************************************************************************)
(* The db child's startup (DbInit) composed with the logger it opens      *)
(* (Logger): the config message calls logger(msg.log, cb), and cb is the  *)
(* callback of lib/db.js that goes on with hooks, mkdirp, stat, chroot and *)
(* level.  The logger calls cb from inside its task callbacks, so a logger *)
(* step that calls cb and the db's callback are one step.  The db never    *)
(* calls log.close(), so close() is not part of the composition.           *)
(***************************************************************************)
EXTENDS Naturals, Sequences

VARIABLES
    files, kind, errored, pending, tasksDone, opened, calls, pending2, tasks2,
    tasks2Done, ended, calls2, cons, silence, mask, logged, out,
    stage, pathKind, chrooted, dbOpen, exitCode, failed

\* The db's msg.log options: a file or an error file given as a path or a
\* descriptor, and the mask the launcher derives from its level (NOTICE by
\* default); the startup chain logs nothing that changes its own course.
L == INSTANCE Logger WITH FileKinds <- {"path", "fd"}, Masks <- {5}, MsgPrios <- {}
I == INSTANCE DbInit

logVars == <<files, kind, errored, pending, tasksDone, opened, calls, pending2,
             tasks2, tasks2Done, ended, calls2, cons, silence, mask, logged, out>>
dbVars == <<stage, pathKind, chrooted, dbOpen, exitCode, failed>>
vars == <<logVars, dbVars>>

DbStartupTypeOK == L!LoggerTypeOK /\ I!DbInitTypeOK

Init == L!Init /\ I!Init

\* The db's logger callback, run with the result res that logger passes.
DbCallback(res) ==
    \/ I!LogOpened(res)
    \/ res = "err" /\ I!LogFailedLate

\* A logger step in a running process, after logger() was called: when it
\* calls cb (calls grows), the db's callback runs in the same tick.
LoggerStep(A) ==
    /\ stage \notin {"config", "exited"}
    /\ A
    /\ IF Len(calls') = Len(calls) THEN UNCHANGED dbVars
                                   ELSE DbCallback(calls'[Len(calls')])

\* The tasks logger() started: its nextTick and one openFile per file.
OpenTask ==
    \/ LoggerStep(L!TickDone)
    \/ \E r \in L!Roles : LoggerStep(L!OpenDone(r)) \/ LoggerStep(L!OpenFailed(r))

\* A log file emits 'error' on a failed write, at any time after it opened.
WriteError == \E r \in L!Roles : LoggerStep(L!WriteFailed(r))

\* The db's own callbacks, which do not touch the logger's state.
DbStep ==
    /\ \/ I!ConfigMsg \/ I!MkdirpDone \/ I!StatDone \/ I!MkdirDone
       \/ I!ChownDone \/ I!LevelDone
    /\ UNCHANGED logVars

Done == I!Done /\ UNCHANGED logVars

Next == OpenTask \/ WriteError \/ DbStep \/ Done

\* The event loop runs every due callback; write errors are not forced.
Spec == Init /\ [][Next]_vars /\ WF_vars(OpenTask) /\ WF_vars(DbStep)

-----------------------------------------------------------------------------
(***************************************************************************)
(* Properties.                                                             *)
(***************************************************************************)

\* The store is opened, and "listen" sent, only inside the chroot and on a
\* data path that is a directory, whatever the logger's tasks do.
ListenOnlyConfined == I!ListenOnlyConfined

\* Startup ends, listening or exited with a non-zero code, however the
\* logger's tasks finish: the logger always calls cb, and every callback
\* of the startup chain either goes on or exits.
StartupEnds == I!StartupEnds

\* Spec 6: "shutdown is parent-driven via kill": a db child that listens
\* does not exit by itself (here, where no kill arrives, not at all).
ListeningUntilKilled ==
    [][stage = "listening" => stage' = "listening"]_vars
=============================================================================
