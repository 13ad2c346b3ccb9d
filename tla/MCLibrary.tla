----------------------------- MODULE MCLibrary -----------------------------
(***************************************************************************)
(* Model checking of Library.                                              *)
(***************************************************************************)
EXTENDS Library

CONSTANTS lecture, meeting, tab, window

MCJobs == {lecture, meeting}
MCRequests == {tab, window}
=============================================================================
