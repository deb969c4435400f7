---------------------------- MODULE MCQCanServer -----------------------------
(* The constants of the runs of QCanServer.                                *)
EXTENDS QCanServer
==============================================================================
