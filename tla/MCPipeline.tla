----------------------------- MODULE MCPipeline -----------------------------
(***************************************************************************)
(* Model checking of Pipeline.  Each MCPipeline_*.cfg fixes one shape of   *)
(* job and one kind of adversity; the README says why the bounds suffice.  *)
(***************************************************************************)
EXTENDS PipelineProperties

\* The values of Reapers: every checker switched off, and the one of the web frontend.
NoReaper == {}
OneReaper == {"frontend"}
=============================================================================
