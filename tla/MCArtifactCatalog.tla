------------------------- MODULE MCArtifactCatalog -------------------------
(***************************************************************************)
(* Instances of ArtifactCatalog. Two clients are enough for one to change  *)
(* what the other has read; a third request lets a name be freed and taken *)
(* again in between.                                                       *)
(***************************************************************************)
EXTENDS ArtifactCatalog, TLC

Everything == {"create_project", "tool_create_project", "rename_project",
               "delete_project", "create_artifact", "tool_create",
               "set_task_done", "update_artifact", "tool_update",
               "delete_artifact", "link_artifact", "link_by_id", "tool_link"}

\* Clients, slugs and names are interchangeable.
Symmetry == Permutations(Clients) \cup Permutations(Slugs) \cup Permutations(Names)
============================================================================
