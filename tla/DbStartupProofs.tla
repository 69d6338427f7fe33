---------------------------- MODULE DbStartupProofs ----------------------------
(***************************************************************************)
(* Proofs about the db child's startup composed with its logger            *)
(* (DbStartup.tla).                                                        *)
(*                                                                         *)
(* ListenOnlyConfined is not inductive: a step from "level" to "listening" *)
(* or one that opens the store does not look at chrooted or at the data    *)
(* path.  It holds because of what the stages before it guarantee, which   *)
(* Confined states: a chroot only happens on a directory, the chown stage *)
(* is reached only by creating the directory, the level and listening     *)
(* stages only after chroot(), and the store opens only after chroot().    *)
(* None of it is touched by the logger, whose steps reach the db's state   *)
(* only through the db's logger callback.                                  *)
(***************************************************************************)
EXTENDS DbStartup, TLAPS

\* The inductive invariant behind ListenOnlyConfined.
Confined ==
    /\ I!DbInitTypeOK
    /\ chrooted => pathKind = "dir"
    /\ stage = "chown" => pathKind = "dir"
    /\ stage \in {"level", "listening"} => chrooted
    /\ dbOpen => chrooted

\* The chain's callbacks, the late logger error included.
DbAction ==
    \/ I!ConfigMsg
    \/ \E res \in {"ok", "err"} : I!LogOpened(res)
    \/ I!LogFailedLate
    \/ I!MkdirpDone \/ I!StatDone \/ I!MkdirDone
    \/ I!ChownDone \/ I!LevelDone \/ I!Done

\* The startup state keeps its type: every exit names a step and a code.
LEMMA DbTypeAction == I!DbInitTypeOK /\ DbAction => I!DbInitTypeOK'
<1> SUFFICES ASSUME I!DbInitTypeOK, DbAction PROVE I!DbInitTypeOK'
    OBVIOUS
<1> USE DEF DbAction, I!DbInitTypeOK, I!Exit, I!ConfigMsg, I!LogOpened,
            I!LogFailedLate, I!MkdirpDone, I!StatDone, I!ChrootThenOpen,
            I!MkdirDone, I!ChownDone, I!LevelDone, I!PostChroot, I!Done,
            I!vars
<1>1. stage' \in I!Stages
    BY DEF I!Stages
<1>2. pathKind' \in {"absent", "dir", "file"}
    OBVIOUS
<1>3. chrooted' \in BOOLEAN /\ dbOpen' \in BOOLEAN
    OBVIOUS
<1>4. exitCode' \in 0..9
    OBVIOUS
<1>5. failed' \in I!Steps
    BY DEF I!Steps
<1>6. QED
    BY <1>1, <1>2, <1>3, <1>4, <1>5

\* Every callback of the chain keeps Confined.
LEMMA ConfinedDbAction == Confined /\ DbAction => Confined'
<1> SUFFICES ASSUME Confined, DbAction PROVE Confined'
    OBVIOUS
<1>0. I!DbInitTypeOK'
    BY DbTypeAction DEF Confined
<1> USE DEF Confined, I!Exit
<1>1. CASE I!ConfigMsg
    BY <1>0, <1>1 DEF I!ConfigMsg
<1>2. CASE \E res \in {"ok", "err"} : I!LogOpened(res)
    BY <1>0, <1>2 DEF I!LogOpened
<1>3. CASE I!LogFailedLate
    BY <1>0, <1>3 DEF I!LogFailedLate
<1>4. CASE I!MkdirpDone
    BY <1>0, <1>4 DEF I!MkdirpDone
\* A chroot from the stat callback happens only on a directory.
<1>5. CASE I!StatDone
    BY <1>0, <1>5 DEF I!StatDone, I!ChrootThenOpen
\* mkdir makes the data path a directory before the chown stage.
<1>6. CASE I!MkdirDone
    BY <1>0, <1>6 DEF I!MkdirDone
<1>7. CASE I!ChownDone
    BY <1>0, <1>7 DEF I!ChownDone, I!ChrootThenOpen
\* level() opens the store only in the level stage, after chroot().
<1>8. CASE I!LevelDone
    BY <1>0, <1>8 DEF I!LevelDone, I!PostChroot
<1>9. CASE I!Done
    BY <1>0, <1>9 DEF I!Done, I!vars
<1>10. QED
    BY <1>1, <1>2, <1>3, <1>4, <1>5, <1>6, <1>7, <1>8, <1>9 DEF DbAction

\* A logger step leaves the db's state alone, or runs the db's logger
\* callback.
LEMMA LoggerStepEffect ==
    ASSUME NEW A, LoggerStep(A)
    PROVE  UNCHANGED dbVars \/ DbAction
<1>1. CASE Len(calls') = Len(calls)
    BY <1>1 DEF LoggerStep
<1>2. CASE Len(calls') # Len(calls)
    <2>1. DbCallback(calls'[Len(calls')])
        BY <1>2 DEF LoggerStep
    <2>2. QED
        BY <2>1 DEF DbCallback, I!LogOpened, DbAction
<1>3. QED
    BY <1>1, <1>2

LEMMA ConfinedInit == Init => Confined
<1> SUFFICES ASSUME Init PROVE Confined
    OBVIOUS
<1>1. I!DbInitTypeOK
    <2>1. stage \in I!Stages /\ failed \in I!Steps
        BY DEF Init, I!Init, I!Stages, I!Steps
    <2>2. exitCode \in 0..9
        BY DEF Init, I!Init
    <2>3. QED
        BY <2>1, <2>2 DEF Init, I!Init, I!DbInitTypeOK
<1>2. QED
    BY <1>1 DEF Init, I!Init, Confined

LEMMA ConfinedStep == Confined /\ [Next]_vars => Confined'
<1> SUFFICES ASSUME Confined, [Next]_vars PROVE Confined'
    OBVIOUS
<1>1. CASE UNCHANGED dbVars
    BY <1>1 DEF Confined, dbVars, I!DbInitTypeOK
<1>2. CASE OpenTask
    <2>1. \E A : LoggerStep(A)
        BY <1>2 DEF OpenTask
    <2>2. QED
        BY <1>1, <2>1, LoggerStepEffect, ConfinedDbAction
<1>3. CASE WriteError
    <2>1. \E A : LoggerStep(A)
        BY <1>3 DEF WriteError
    <2>2. QED
        BY <1>1, <2>1, LoggerStepEffect, ConfinedDbAction
<1>4. CASE DbStep
    BY <1>4, ConfinedDbAction DEF DbStep, DbAction
<1>5. CASE Done
    BY <1>5, ConfinedDbAction DEF Done, DbAction
<1>6. CASE UNCHANGED vars
    BY <1>1, <1>6 DEF vars
<1>7. QED
    BY <1>2, <1>3, <1>4, <1>5, <1>6 DEF Next

\* However the logger's tasks and the system calls turn out, the store is
\* opened and "listen" sent only inside the chroot on a data path that is
\* a directory (ListenOnlyConfined of the startup run).
THEOREM StartupConfined == Spec => []ListenOnlyConfined
<1>1. Confined => ListenOnlyConfined
    BY DEF Confined, ListenOnlyConfined, I!ListenOnlyConfined
<1>2. QED
    BY <1>1, ConfinedInit, ConfinedStep, PTL DEF Spec

-----------------------------------------------------------------------------
(***************************************************************************)
(* The logger's part of the state: the logger's inductive invariant,       *)
(* instantiated with the db's logger options, is kept by the logger's     *)
(* tasks and left alone by the db's own callbacks.                         *)
(***************************************************************************)
LP == INSTANCE LoggerProofs WITH FileKinds <- {"path", "fd"}, Masks <- {5},
                                 MsgPrios <- {}

LEMMA LoggerPartStep == LP!LInv /\ [Next]_vars => LP!LInv'
<1> SUFFICES ASSUME LP!LInv, [Next]_vars PROVE LP!LInv'
    OBVIOUS
\* The db's logger options satisfy the logger's assumption.
<1>0. /\ {"path", "fd"} \subseteq {"path", "fd", "fd0", "stream"}
      /\ {5} \subseteq LP!Prios
      /\ {} \subseteq LP!Prios
    BY DEF LP!Prios
\* Both instances count the same tasks.
<1>5. L!Cardinality(L!Tasked) = LP!Cardinality(LP!Tasked)
    BY Zenon DEF L!Tasked, LP!Tasked, L!Cardinality, LP!Cardinality
<1>1. CASE OpenTask
    <2>1. CASE LoggerStep(L!TickDone)
        <3>1. LP!TickDone
            BY <1>5, <2>1, Zenon DEF LoggerStep, L!TickDone, LP!TickDone, L!Finish,
                                     LP!Finish, L!msgVars, LP!msgVars
        <3>2. QED
            BY <1>0, <3>1, LP!TickDoneInv
    <2>2. CASE \E r \in L!Roles : LoggerStep(L!OpenDone(r))
        <3>1. PICK r \in LP!Roles : LP!OpenDone(r)
            BY <1>5, <2>2, Zenon DEF LoggerStep, L!OpenDone, LP!OpenDone, L!Roles,
                                     LP!Roles, L!Finish, LP!Finish, L!msgVars,
                                     LP!msgVars
        <3>2. QED
            BY <1>0, <3>1, LP!OpenDoneInv
    <2>3. CASE \E r \in L!Roles : LoggerStep(L!OpenFailed(r))
        <3>1. PICK r \in LP!Roles : LP!OpenFailed(r)
            BY <2>3 DEF LoggerStep, L!OpenFailed, LP!OpenFailed, L!Roles, LP!Roles, L!msgVars, LP!msgVars
        <3>2. QED
            BY <1>0, <3>1, LP!OpenFailedInv
    <2>4. QED
        BY <1>1, <2>1, <2>2, <2>3 DEF OpenTask
<1>2. CASE WriteError
    <2>1. PICK r \in LP!Roles : LP!WriteFailed(r)
        BY <1>2 DEF WriteError, LoggerStep, L!WriteFailed, LP!WriteFailed, L!Roles,
                    LP!Roles, L!msgVars, LP!msgVars
    <2>2. QED
        BY <1>0, <2>1, LP!WriteFailedInv
<1>3. CASE UNCHANGED logVars
    BY <1>3 DEF logVars, LP!LInv, LP!LoggerTypeOK, LP!OpenCount, LP!ReadyExact,
                LP!CloseIdle, LP!CloseCount, LP!ClosedExact, LP!LoggedAfterReady,
                LP!Tasked, LP!TaskCount, LP!Called
<1>4. QED
    BY <1>1, <1>2, <1>3 DEF Next, DbStep, Done, vars

LEMMA LoggerPartInit == Init => LP!LInv
<1> SUFFICES ASSUME Init PROVE LP!LInv
    OBVIOUS
<1>1. /\ {"path", "fd"} \subseteq {"path", "fd", "fd0", "stream"}
      /\ {5} \subseteq LP!Prios
      /\ {} \subseteq LP!Prios
    BY DEF LP!Prios
<1>2. LP!Init
    BY Zenon DEF Init, L!Init, LP!Init, L!Tasked, LP!Tasked, L!Roles, LP!Roles
<1>3. QED
    BY <1>1, <1>2, LP!LInvInit

\* The composed startup's state always has its type: the logger's counters
\* stay within the number of tasks and every exit names a step and a code
\* (DbStartupTypeOK of the startup run).
THEOREM StartupTypeCorrect == Spec => []DbStartupTypeOK
<1>1. LP!LInv /\ Confined => DbStartupTypeOK
    <2> SUFFICES ASSUME LP!LInv, Confined PROVE DbStartupTypeOK
        OBVIOUS
    <2>1. LP!LoggerTypeOK
        BY DEF LP!LInv
    <2>2. L!LoggerTypeOK
        BY <2>1, Zenon DEF LP!LoggerTypeOK, L!LoggerTypeOK, LP!Roles, L!Roles,
                           LP!Tasks, L!Tasks, LP!Results, L!Results, LP!Dests,
                           L!Dests, LP!Prios, L!Prios, LP!DEBUG2, L!DEBUG2
    <2>3. QED
        BY <2>2 DEF Confined, DbStartupTypeOK
<1>2. QED
    BY <1>1, LoggerPartInit, LoggerPartStep, ConfinedInit, ConfinedStep, PTL DEF Spec
=============================================================================
