---------------------------- MODULE MCLan8814TsFifo ----------------------------
(* Small instances of Lan8814TsFifo for TLC.                                    *)
EXTENDS Lan8814TsFifo
CONSTANTS t1, t2, cb1, cb2

\* Single events and groups of them.
AllGroups == SUBSET Events \ {{}}
================================================================================
