---------------------------- MODULE MCFirmwareMux ----------------------------
(***************************************************************************)
(* FirmwareMux from one initial value of the variable.  Renaming the two   *)
(* modes and the versions of the rest maps the module to itself (but for   *)
(* the unused mode of a call that has not come), so that a behaviour from  *)
(* another initial value is a renamed one of these.  SYMMETRY would say    *)
(* the same, but is not sound for liveness.                                *)
(***************************************************************************)
EXTENDS FirmwareMux

OneInit ==
    /\ Init
    /\ nvram = [mode |-> "hybrid", rest |-> CHOOSE rest \in Rests : TRUE]

OneFairSpec == OneInit /\ [][Next]_vars /\ Fairness
=============================================================================
