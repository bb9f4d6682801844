---------------------------- MODULE ToolCatalog ----------------------------
(***************************************************************************)
(* The tools of the MCP server: what PgToolRegistry declares of each, and  *)
(* which transactions its function in PgToolExecutor makes. A course is    *)
(* the sequence of a call's transactions, in order, each of which changes  *)
(* something ("write") or not ("read"); a tool has several when arguments  *)
(* or what it finds make a difference. A course that an error cuts short   *)
(* is not listed.                                                          *)
(*                                                                         *)
(* openspec_import is left out: it goes on after an error.                 *)
(***************************************************************************)
EXTENDS Naturals, Sequences, TLC

\* _resolve_flow looks the project up unless the call names a flow.
OrWithFlow(course) == {course, <<"read">> \o course}

SemanticMemory ==
  [search_semantic    |-> OrWithFlow(<<"read">>),
   read_artifact      |-> {<<"read">>},
   list_artifacts     |-> OrWithFlow(<<"read">>),
   read_change_bundle |-> {<<"read">>}]

EpisodicMemory ==
  [recall_episodes |-> {<<"read">>},
   record_trace    |-> {<<"write">>}]

\* get_or_create writes when the project has no session yet.
WorkingContext ==
  [get_working_context    |-> {<<"read", "read">>, <<"write", "read">>},
   update_working_context |-> {<<"read", "write">>, <<"write", "write">>}]

Skills ==
  [list_skills   |-> {<<"read">>},
   get_skill     |-> {<<"read">>},
   suggest_skill |-> {<<"read">>},
   create_skill  |-> {<<"write">>}]

\* A value that is not in a list of valid ones is answered at once.
Harness ==
  [add_rule              |-> {<< >>, <<"write">>},
   list_rules            |-> {<<"read">>},
   get_harness_checklist |-> {<< >>} \cup OrWithFlow(<<"read">>)]

\* An UPDATE that finds no row, and a link there already, change nothing.
Protocols ==
  [create_artifact   |-> OrWithFlow(<<"write">>),
   update_artifact   |-> {<<"read">>, <<"write">>},
   validate_artifact |-> {<<"read">>, <<"read", "read">>, <<"read", "read", "read">>},
   link_artifacts    |-> {<<"read", "read">>, <<"read", "read", "read">>,
                          <<"read", "read", "write">>},
   get_relationships |-> {<<"read">>, <<"read", "read">>}]

Projects ==
  [list_projects            |-> {<<"read">>},
   create_project           |-> {<<"read">>, <<"read", "write">>},
   register_flow            |-> {<< >>, <<"read">>, <<"write">>},
   set_project_default_flow |-> {<< >>, <<"read">>, <<"write">>}]

\* EXECUTORS
Executors == SemanticMemory @@ EpisodicMemory @@ WorkingContext @@ Skills
             @@ Harness @@ Protocols @@ Projects

\* _WRITE_TOOLS
WriteTools == {"create_artifact", "update_artifact", "create_skill", "add_rule",
               "create_project", "register_flow", "set_project_default_flow",
               "record_trace", "link_artifacts"}

\* Permission, in the order of _PERMISSION_ORDER
ReadOnly == 0
Write == 1
Admin == 2

RequiredPermission(tool) == IF tool \in WriteTools THEN Write ELSE ReadOnly
============================================================================
