------------------------------ MODULE MCServer ------------------------------
(* Small instances of Server for TLC.                                      *)
EXTENDS Server

(* Every mode with room for two clients and, for the first job, a pipe;    *)
(* and a table that one client fills.                                      *)
AllSetups == [threading : {"TM_THREAD", "TM_JOB"}, secure : BOOLEAN, maxFds : {4}]
               \cup [threading : {"TM_THREAD"}, secure : {FALSE}, maxFds : {2}]
OneSetup  == [threading : {"TM_THREAD"}, secure : {FALSE}, maxFds : {3}]
=============================================================================
