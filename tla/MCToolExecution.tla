-------------------------- MODULE MCToolExecution --------------------------
(***************************************************************************)
(* An instance of ToolExecution with tools of ToolCatalog.                 *)
(***************************************************************************)
EXTENDS ToolExecution, ToolCatalog

MCCourses == [tool \in Tools |-> Executors[tool]]

MCRequired == [tool \in Tools |-> RequiredPermission(tool)]
============================================================================
