------------------------------- MODULE MCPage -------------------------------
(***************************************************************************)
(* Values for the constants of AdminPage that a .cfg cannot write down.    *)
(***************************************************************************)
EXTENDS AdminPage

CONSTANTS a, b

OnlyB == {{b}}
AllOrB == {{a, b}, {b}}
=============================================================================
