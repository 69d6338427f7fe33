------------------------------ MODULE MC_Logger ------------------------------
(* Model-checking instances of Logger.  The files are given as a path, a   *)
(* descriptor other than 0 or a stream; the mask is the default NOTICE or  *)
(* DEBUG2 (the pdb launcher passes levelToPrio of the configured level);   *)
(* the level functions are called with ERR, NOTICE and DEBUG.  The other   *)
(* instance adds descriptor 0.                                             *)
EXTENDS Logger

MCFileKinds == {"path", "fd", "stream"}
MCFileKindsFd0 == {"path", "fd0"}
MCMasks == {LevelToPrio("NOTICE"), LevelToPrio("DEBUG2")}
MCMsgPrios == {ERR_THRESHOLD, NOTICE, DEBUG2 - 1}
=============================================================================
