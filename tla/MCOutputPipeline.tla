-------------------------- MODULE MCOutputPipeline --------------------------
(***************************************************************************)
(* Scenarios of the outputs for TLC.                                       *)
(***************************************************************************)
EXTENDS OutputPipeline

Load(sinks, records) == [routes |-> sinks, records |-> records]

\* Two records reach every pair of places of the two queues behind each other;
\* three fill a queue whose worker is busy; one passes through a fan-out.
Mixed == {Load({"upload"}, 2), Load({"file"}, 3), Load({"kafka", "file"}, 1)}

Upload == {Load({"upload"}, 1)}
=============================================================================
