---------------------------- MODULE MCNapRefresh ----------------------------
(***************************************************************************)
(* NapRefresh for TLC: five commits, one without a required tool and one   *)
(* the integration patch does not fit.                                     *)
(***************************************************************************)
EXTENDS NapRefresh
=============================================================================
