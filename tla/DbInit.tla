------------------------------- MODULE DbInit -------------------------------
(***************************************************************************)
(* Startup of the db child process (lib/db.js, from process.send('init')  *)
(* to postChroot): the config message, the logger, hooks and user lookup, *)
(* the chroot directory and the data path, chroot(), and opening the      *)
(* store.  Each step is one callback; a failing step exits the process     *)
(* with a code (or dies of an uncaught exception, exit code 1).            *)
(*                                                                         *)
(* The file system is abstracted to what the steps test: what the data     *)
(* path dbroot + '/data' is before startup ("absent", a "dir" or a        *)
(* "file").  Every system call may fail; which fail is left open.          *)
(***************************************************************************)
EXTENDS Naturals

VARIABLES
    stage,      \* the callback the process waits for, or "listening"/"exited"
    pathKind,   \* the data path: "absent", "dir" or "file"
    chrooted,   \* chroot(dbroot, uid, gid) has succeeded
    dbOpen,     \* level() has opened the store
    exitCode,   \* the process's exit code, 0 while it runs
    failed      \* the step that failed, "none" while none has

vars == <<stage, pathKind, chrooted, dbOpen, exitCode, failed>>

Stages == {"config", "log", "mkdirp", "stat", "mkdir", "chown", "level",
           "listening", "exited"}

\* The steps a failure can be attributed to.
Steps == {"none", "config", "log", "hooks", "ids", "mkdirp", "stat", "mkdir",
          "chown", "notDir", "chroot", "level", "hookName"}

DbInitTypeOK ==
    /\ stage \in Stages
    /\ pathKind \in {"absent", "dir", "file"}
    /\ chrooted \in BOOLEAN
    /\ dbOpen \in BOOLEAN
    /\ exitCode \in 0..9
    /\ failed \in Steps

\* process.send('init'), then process.once('message', ...) waits.
Init ==
    /\ stage = "config"
    /\ pathKind \in {"absent", "dir", "file"}
    /\ chrooted = FALSE
    /\ dbOpen = FALSE
    /\ exitCode = 0
    /\ failed = "none"

\* Mutant: process.exit() called without its code.
ExitNoCode(step, code) ==
    /\ stage' = "exited"
    /\ failed' = step
    /\ exitCode' = 0

\* process.exit(code) after log.err, or an uncaught exception (code 1).
Exit(step, code) ==
    /\ stage' = "exited"
    /\ failed' = step
    /\ exitCode' = code

\* doChroot() and then openDbAndProceed(), run in one callback: chroot or
\* exit 8, then level() is called.
ChrootThenOpen ==
    \/ /\ chrooted' = TRUE
       /\ stage' = "level"
       /\ UNCHANGED <<exitCode, failed>>
    \/ /\ Exit("chroot", 8)
       /\ UNCHANGED chrooted

\* The config message: its checks throw a TypeError (exit 1), otherwise
\* logger(msg.log, cb) is called.
ConfigMsg ==
    /\ stage = "config"
    /\ \/ Exit("config", 1)
       \/ stage' = "log" /\ UNCHANGED <<exitCode, failed>>
    /\ UNCHANGED <<pathKind, chrooted, dbOpen>>

\* logger() calls back with res.  With an error, l.err(err) is a call on
\* undefined: a TypeError, exit 1.  Otherwise, synchronously: the hooks are
\* required (exit 2), the user and group looked up (exit 3), the core limit
\* set and mkdirp(dbroot) called.
LogOpened(res) ==
    /\ stage = "log"
    /\ \/ res = "err" /\ Exit("log", 1)
       \/ res = "ok" /\ Exit("hooks", 2)
       \/ res = "ok" /\ Exit("ids", 3)
       \/ res = "ok" /\ stage' = "mkdirp" /\ UNCHANGED <<exitCode, failed>>
    /\ UNCHANGED <<pathKind, chrooted, dbOpen>>

\* logger() calls back again, with an error, after startup went past it:
\* the callback's l is undefined and l.err(err) throws, exit 1.
LogFailedLate ==
    /\ stage \notin {"config", "log", "exited"}
    /\ Exit("log", 1)
    /\ UNCHANGED <<pathKind, chrooted, dbOpen>>

\* mkdirp(dbroot) calls back: exit 3, or fs.stat the data path.
MkdirpDone ==
    /\ stage = "mkdirp"
    /\ \/ Exit("mkdirp", 3)
       \/ stage' = "stat" /\ UNCHANGED <<exitCode, failed>>
    /\ UNCHANGED <<pathKind, chrooted, dbOpen>>

\* Mutant: the stats.isDirectory() check left out.
StatDoneNoDirCheck ==
    /\ stage = "stat"
    /\ \/ Exit("stat", 4) /\ UNCHANGED chrooted
       \/ pathKind = "absent" /\ stage' = "mkdir"
          /\ UNCHANGED <<exitCode, failed, chrooted>>
       \/ pathKind # "absent" /\ ChrootThenOpen
    /\ UNCHANGED <<pathKind, dbOpen>>

\* fs.stat calls back: an error other than ENOENT exits 4; ENOENT creates
\* the directory; a path that is not a directory exits 7; a directory goes
\* on to chroot and the store.
StatDone ==
    /\ stage = "stat"
    /\ \/ Exit("stat", 4) /\ UNCHANGED chrooted
       \/ pathKind = "absent" /\ stage' = "mkdir"
          /\ UNCHANGED <<exitCode, failed, chrooted>>
       \/ pathKind = "file" /\ Exit("notDir", 7) /\ UNCHANGED chrooted
       \/ pathKind = "dir" /\ ChrootThenOpen
    /\ UNCHANGED <<pathKind, dbOpen>>

\* fs.mkdir(path, 0700) calls back: exit 5, or chown it.
MkdirDone ==
    /\ stage = "mkdir"
    /\ \/ Exit("mkdir", 5) /\ UNCHANGED pathKind
       \/ pathKind' = "dir" /\ stage' = "chown" /\ UNCHANGED <<exitCode, failed>>
    /\ UNCHANGED <<chrooted, dbOpen>>

\* fs.chown calls back: exit 6, or chroot and open the store.
ChownDone ==
    /\ stage = "chown"
    /\ \/ Exit("chown", 6) /\ UNCHANGED chrooted
       \/ ChrootThenOpen
    /\ UNCHANGED <<pathKind, dbOpen>>

\* postChroot(msg): replaceHookNames throws (exit 1) when a perspective
\* names a hook that was not loaded; otherwise the process sends "listen".
PostChroot ==
    \/ Exit("hookName", 1)
    \/ stage' = "listening" /\ UNCHANGED <<exitCode, failed>>

\* level() calls back: with an error the process exits 9; otherwise db is
\* set and postChroot(msg) runs.
LevelDone ==
    /\ stage = "level"
    /\ \/ Exit("level", 9) /\ UNCHANGED dbOpen
       \/ dbOpen' = TRUE /\ PostChroot
    /\ UNCHANGED <<pathKind, chrooted>>

\* Listening (DbProcess takes over) or exited: nothing more here.
Done ==
    /\ stage \in {"listening", "exited"}
    /\ UNCHANGED vars

Next ==
    \/ ConfigMsg \/ (\E res \in {"ok", "err"} : LogOpened(res))
    \/ MkdirpDone \/ StatDone
    \/ MkdirDone \/ ChownDone \/ LevelDone \/ Done

\* Every callback is called once its system call completes; the parent is
\* assumed to send the config message.
Spec == Init /\ [][Next]_vars /\ WF_vars(Next)

-----------------------------------------------------------------------------
(***************************************************************************)
(* Properties.                                                             *)
(***************************************************************************)

\* The process serves requests only from a store it opened inside the
\* chroot, on a data path that is a directory: no path through the stat,
\* mkdir and chown callbacks reaches level() or "listen" without chroot().
ListenOnlyConfined ==
    (dbOpen \/ stage = "listening") => chrooted /\ pathKind = "dir"

\* Startup always ends, listening or with an exit code that is not 0.
StartupEnds ==
    <>(\/ stage = "listening"
       \/ stage = "exited" /\ exitCode # 0)

=============================================================================
