------------------------------- MODULE MCSound -------------------------------
(* The constants of the runs of Sound.                                     *)
EXTENDS Sound

MCWords == {{8}, {6, 8}}
MCLevels == {{6, 7}}
=============================================================================
