-------------------------- MODULE ArtifactCatalog --------------------------
(***************************************************************************)
(* Projects, artifacts and the relationships between artifacts, as the     *)
(* management API (/api/v1) and the tools of the MCP server read and write *)
(* them. Every repository function is a transaction of one statement; a    *)
(* request awaits several of them, and requests interleave between them.   *)
(*                                                                         *)
(* The management API addresses an artifact by its id, reads it, and then  *)
(* updates it by project and name, the key of the repository's UPDATE.     *)
(*                                                                         *)
(* Contents, types, flows, statuses and metadata travel with a request     *)
(* unread; the answer tells which artifact was written.                    *)
(***************************************************************************)
EXTENDS Naturals, FiniteSets

CONSTANTS Clients,      \* requests in flight
          Slugs,        \* project slugs
          Names,        \* artifact names
          MaxProjects,  \* bound of the model: projects ever created
          MaxArtifacts, \* bound of the model: artifacts ever created
          MaxRequests,  \* bound of the model: requests ever made
          Operations,   \* the operations the clients use
          NoName        \* an absent parameter

ASSUME BoundAssumption ==
  MaxProjects \in Nat /\ MaxArtifacts \in Nat /\ MaxRequests \in Nat
ASSUME NameAssumption == NoName \notin Names \cup Slugs

VARIABLES projects,   \* table projects: id -> slug
          artifacts,  \* table artifacts: id -> project, name
          links,      \* table artifact_relationships: <<source, target>>
          request,    \* the requests in flight
          answer,     \* the answer given in the last step, if it gave one
          requests    \* requests made so far

vars == <<projects, artifacts, links, request, answer, requests>>
tables == <<projects, artifacts, links>>

Projects == 1 .. MaxProjects      \* ids are never used twice
Artifacts == 1 .. MaxArtifacts

Unborn == [state |-> "unborn"]
Deleted == [state |-> "deleted"]

Live(table) == {i \in DOMAIN table : table[i].state = "live"}
New(table) == {i \in DOMAIN table : table[i].state = "unborn"
                 /\ \A j \in DOMAIN table : j < i => table[j].state # "unborn"}

\* The rows a statement finds: UNIQUE leaves at most one
WithSlug(slug) == {p \in Live(projects) : projects[p].slug = slug}
WithName(p, name) ==
  {i \in Live(artifacts) : artifacts[i].project = p /\ artifacts[i].name = name}

Idle == [step |-> "idle"]

\* What is known of a request: its parameters and what it has read so far
Params(op, slug, id, name, newName) ==
  [op |-> op, slug |-> slug, id |-> id, name |-> name, newName |-> newName,
   project |-> 0, target |-> 0]

\* `hit' is the artifact a request has created, changed, deleted or linked, or
\* the project it has renamed.
Answer(code, hit, q) ==
  [code |-> code, hit |-> hit, op |-> q.op,
   project |-> q.project, id |-> q.id, target |-> q.target]

NoAnswer == Answer("none", 0, Params("none", NoName, 0, NoName, NoName))

\* Tables after earlier requests, the rows in the order of their ids
Filled(ids, rows) ==
  {table \in [ids -> rows \cup {Unborn}] :
     \A i, j \in ids : i < j /\ table[i] = Unborn => table[j] = Unborn}

ProjectRows == [state : {"live"}, slug : Slugs]
ArtifactRows == [state : {"live"}, project : Projects, name : Names]

\* What the schema accepts: UNIQUE and REFERENCES
Consistent ==
  /\ \A p, q \in Live(projects) : projects[p].slug = projects[q].slug => p = q
  /\ \A i, j \in Live(artifacts) :
       /\ artifacts[i].project \in Live(projects)
       /\ artifacts[i].project = artifacts[j].project
            /\ artifacts[i].name = artifacts[j].name => i = j
  /\ \A l \in links : {l[1], l[2]} \subseteq Live(artifacts)

\* A process starts over the tables that earlier requests have left. Bound of
\* the model: one relationship among them; a request concerns one pair.
Init == /\ projects \in Filled(Projects, ProjectRows)
        /\ artifacts \in Filled(Artifacts, ArtifactRows)
        /\ links \in {{}} \cup {{l} : l \in Live(artifacts) \X Live(artifacts)}
        /\ Consistent
        /\ request = [k \in Clients |-> Idle]
        /\ answer = NoAnswer
        /\ requests = 0

Submit(k, op, step, slug, id, name, newName) ==
  /\ op \in Operations
  /\ request[k] = Idle
  /\ requests < MaxRequests
  /\ requests' = requests + 1
  /\ request' = [request EXCEPT ![k] =
       [step |-> step, params |-> Params(op, slug, id, name, newName)]]
  /\ answer' = NoAnswer
  /\ UNCHANGED tables

CreateProject(k, slug) ==
  \E op \in {"create_project", "tool_create_project"} :
    Submit(k, op, "slug", slug, 0, NoName, NoName)
RenameProject(k, slug, newSlug) ==
  Submit(k, "rename_project", "project", slug, 0, NoName, newSlug)
DeleteProject(k, slug) == Submit(k, "delete_project", "write", slug, 0, NoName, NoName)
CreateArtifact(k, slug, name) ==
  Submit(k, "create_artifact", "project", slug, 0, name, NoName)
ToolCreate(k, slug, name) == Submit(k, "tool_create", "project", slug, 0, name, NoName)
SetTaskDone(k, slug, id) == Submit(k, "set_task_done", "project", slug, id, NoName, NoName)
UpdateArtifact(k, id, newName) ==
  Submit(k, "update_artifact", "artifact", NoName, id, NoName, newName)
ToolUpdate(k, slug, name) == Submit(k, "tool_update", "project", slug, 0, name, NoName)
DeleteArtifact(k, id) == Submit(k, "delete_artifact", "write", NoName, id, NoName, NoName)
LinkArtifact(k, id, name) == Submit(k, "link_artifact", "artifact", NoName, id, NoName, name)
LinkById(k, id, target) == Submit(k, "link_by_id", "artifact", NoName, id, NoName, target)
ToolLink(k, slug, name, target) ==
  Submit(k, "tool_link", "project", slug, 0, name, target)

----------------------------------------------------------------------------
(* The steps of a request                                                  *)

Reply(k, code, hit) ==
  /\ answer' = Answer(code, hit, request[k].params)
  /\ request' = [request EXCEPT ![k] = Idle]
  /\ UNCHANGED requests

Refuse(k, code) == Reply(k, code, 0) /\ UNCHANGED tables

Continue(k, step, params) ==
  /\ request' = [request EXCEPT ![k] = [step |-> step, params |-> params]]
  /\ answer' = NoAnswer
  /\ UNCHANGED <<tables, requests>>

Tools == {"tool_create", "tool_update", "tool_link"}

AfterProject(q) ==
  CASE q.op = "create_artifact" -> "name"
    [] q.op = "set_task_done" -> "artifact"
    [] q.op = "tool_link" -> "source"
    [] q.op = "rename_project" -> IF q.newName = q.slug THEN "write" ELSE "slug"
    [] q.op \in {"tool_create", "tool_update"} -> "write"

\* get_project_by_slug: _project_or_404, or require_project, which raises
\* inside a tool
LookUpProject(k) ==
  LET q == request[k].params
      found == WithSlug(q.slug)
  IN  /\ request[k].step = "project"
      /\ \/ /\ found = {}
            /\ Refuse(k, IF q.op \in Tools THEN "internal" ELSE "not_found")
         \/ \E p \in found : Continue(k, AfterProject(q), [q EXCEPT !.project = p])

\* The slug a project is to get must be free. The tool answers with the
\* project that has it, the management API refuses.
CheckSlug(k) ==
  LET q == request[k].params
      slug == IF q.op = "rename_project" THEN q.newName ELSE q.slug
  IN  /\ request[k].step = "slug"
      /\ \/ /\ WithSlug(slug) # {}
            /\ Refuse(k, IF q.op = "tool_create_project" THEN "ok" ELSE "conflict")
         \/ /\ WithSlug(slug) = {}
            /\ Continue(k, "write", q)

\* What follows the reading of the artifact a request names by its id
AfterFetch(q, name) ==
  IF q.op \in {"link_artifact", "link_by_id"} THEN "target"
  ELSE IF q.op = "update_artifact" /\ q.newName \notin {NoName, name} THEN "name"
  ELSE "write"

\* get_artifact_by_id: a task must belong to the project of the request.
FetchArtifact(k) ==
  LET q == request[k].params
      row == artifacts[q.id]
      ok == /\ row.state = "live"
            /\ q.op = "set_task_done" => row.project = q.project
  IN  /\ request[k].step = "artifact"
      /\ \/ ~ok /\ Refuse(k, "not_found")
         \/ ok /\ Continue(k, AfterFetch(q, row.name),
                           [q EXCEPT !.project = row.project, !.name = row.name])

\* The name an artifact is to get must be free in its project.
CheckName(k) ==
  LET q == request[k].params
      name == IF q.op = "create_artifact" THEN q.name ELSE q.newName
  IN  /\ request[k].step = "name"
      /\ \/ WithName(q.project, name) # {} /\ Refuse(k, "conflict")
         \/ WithName(q.project, name) = {} /\ Continue(k, "write", q)

\* get_artifact by the names a link is given by; a target may also be given
\* by its id, in any project.
FetchEnds(k) ==
  LET q == request[k].params
      found == IF q.op = "link_by_id" THEN {q.newName} \cap Live(artifacts)
               ELSE WithName(q.project, IF request[k].step = "source"
                                        THEN q.name ELSE q.newName)
  IN  /\ request[k].step \in {"source", "target"}
      /\ \/ found = {} /\ Refuse(k, "not_found")
         \/ \E i \in found :
              IF request[k].step = "source"
              THEN Continue(k, "target", [q EXCEPT !.id = i])
              ELSE Continue(k, "write", [q EXCEPT !.target = i])

----------------------------------------------------------------------------
(* The statements that write                                               *)

Writing(k, ops) == request[k].step = "write" /\ request[k].params.op \in ops

\* UNIQUE (slug): the second of two requests that found the slug free fails.
InsertProject(k) ==
  LET slug == request[k].params.slug
  IN  /\ Writing(k, {"create_project", "tool_create_project"})
      /\ \/ WithSlug(slug) # {} /\ Refuse(k, "internal")
         \/ /\ WithSlug(slug) = {}
            /\ \E p \in New(projects) :
                 projects' = [projects EXCEPT ![p] = [state |-> "live", slug |-> slug]]
            /\ Reply(k, "ok", 0)
            /\ UNCHANGED <<artifacts, links>>

\* Here the violation of UNIQUE is translated.
WriteProject(k) ==
  LET q == request[k].params
      found == WithSlug(q.slug)
  IN  /\ Writing(k, {"rename_project"})
      /\ \/ found = {} /\ Refuse(k, "not_found")
         \/ \E p \in found :
              \/ WithSlug(q.newName) \ {p} # {} /\ Refuse(k, "conflict")
              \/ /\ WithSlug(q.newName) \ {p} = {}
                 /\ projects' = [projects EXCEPT ![p].slug = q.newName]
                 /\ Reply(k, "ok", p)
                 /\ UNCHANGED <<artifacts, links>>

\* ON DELETE CASCADE
Remove(gone) ==
  /\ artifacts' = [i \in Artifacts |-> IF i \in gone THEN Deleted ELSE artifacts[i]]
  /\ links' = {l \in links : l[1] \notin gone /\ l[2] \notin gone}

RemoveProject(k) ==
  LET found == WithSlug(request[k].params.slug)
  IN  /\ Writing(k, {"delete_project"})
      /\ \/ found = {} /\ Refuse(k, "not_found")
         \/ \E p \in found :
              /\ projects' = [projects EXCEPT ![p] = Deleted]
              /\ Remove({i \in Live(artifacts) : artifacts[i].project = p})
              /\ Reply(k, "ok", 0)

\* Variant, a plausible mistake: the check for a free name is trusted.
InsertArtifactUnchecked(k) ==
  LET q == request[k].params
  IN  /\ Writing(k, {"create_artifact", "tool_create"})
      /\ \E i \in New(artifacts) :
           /\ artifacts' = [artifacts EXCEPT ![i] =
                [state |-> "live", project |-> q.project, name |-> q.name]]
           /\ Reply(k, "ok", i)
      /\ UNCHANGED <<projects, links>>

\* UNIQUE (project_id, name) and the reference to the project
InsertArtifact(k) ==
  LET q == request[k].params
      ok == q.project \in Live(projects) /\ WithName(q.project, q.name) = {}
  IN  /\ Writing(k, {"create_artifact", "tool_create"})
      /\ \/ ~ok /\ Refuse(k, "internal")
         \/ /\ ok
            /\ \E i \in New(artifacts) :
                 /\ artifacts' = [artifacts EXCEPT ![i] =
                      [state |-> "live", project |-> q.project, name |-> q.name]]
                 /\ Reply(k, "ok", i)
            /\ UNCHANGED <<projects, links>>

\* Variant, a plausible mistake: a name that is not given is written.
WriteAbsentName(k) ==
  LET q == request[k].params
      found == WithName(q.project, q.name)
  IN  /\ Writing(k, {"set_task_done", "update_artifact", "tool_update"})
      /\ \E i \in found :
           /\ artifacts' = [artifacts EXCEPT ![i].name = q.newName]
           /\ Reply(k, "ok", i)
           /\ UNCHANGED <<projects, links>>

\* Variant, a plausible mistake: the project is not part of the WHERE clause.
WriteWithoutProject(k) ==
  LET q == request[k].params
      found == {i \in Live(artifacts) : artifacts[i].name = q.name}
  IN  /\ Writing(k, {"set_task_done", "update_artifact", "tool_update"})
      /\ \E i \in found :
           /\ artifacts' = [artifacts EXCEPT ![i].name = @]
           /\ Reply(k, "ok", i)
           /\ UNCHANGED <<projects, links>>

\* UPDATE artifacts ... WHERE project_id = .. AND name = ..
WriteArtifact(k) ==
  LET q == request[k].params
      found == WithName(q.project, q.name)
      renamed == q.op = "update_artifact" /\ q.newName \notin {NoName, q.name}
      taken == renamed /\ WithName(q.project, q.newName) # {}
  IN  /\ Writing(k, {"set_task_done", "update_artifact", "tool_update"})
      /\ \/ found = {} /\ Refuse(k, "not_found")
         \/ found # {} /\ taken /\ Refuse(k, "internal")
         \/ \E i \in found :
              /\ ~taken
              /\ artifacts' = [artifacts EXCEPT ![i].name = IF renamed THEN q.newName ELSE @]
              /\ Reply(k, "ok", i)
              /\ UNCHANGED <<projects, links>>

RemoveArtifact(k) ==
  LET id == request[k].params.id
  IN  /\ Writing(k, {"delete_artifact"})
      /\ \/ id \notin Live(artifacts) /\ Refuse(k, "not_found")
         \/ /\ id \in Live(artifacts)
            /\ Remove({id})
            /\ Reply(k, "ok", id)
            /\ UNCHANGED projects

\* INSERT ... ON CONFLICT DO NOTHING, with references to both ends
InsertLink(k) ==
  LET q == request[k].params
      link == <<q.id, q.target>>
  IN  /\ Writing(k, {"link_artifact", "link_by_id", "tool_link"})
      /\ \/ {q.id, q.target} \ Live(artifacts) # {} /\ Refuse(k, "internal")
         \/ link \in links /\ Continue(k, "reread", q)
         \/ /\ {q.id, q.target} \subseteq Live(artifacts) /\ link \notin links
            /\ links' = links \cup {link}
            /\ Reply(k, "ok", q.id)
            /\ UNCHANGED <<projects, artifacts>>

\* The link was there; reading it again fails if it has gone meanwhile.
RereadLink(k) ==
  LET q == request[k].params
  IN  /\ request[k].step = "reread"
      /\ Refuse(k, IF <<q.id, q.target>> \in links THEN "ok" ELSE "internal")

----------------------------------------------------------------------------
Requests(k) ==
  \/ \E slug \in Slugs : \/ CreateProject(k, slug) \/ DeleteProject(k, slug)
                         \/ \E new \in Slugs : RenameProject(k, slug, new)
  \/ \E slug \in Slugs, name \in Names :
       \/ CreateArtifact(k, slug, name) \/ ToolCreate(k, slug, name)
       \/ ToolUpdate(k, slug, name)
       \/ \E target \in Names : ToolLink(k, slug, name, target)
  \/ \E id \in Artifacts :
       \/ DeleteArtifact(k, id)
       \/ \E slug \in Slugs : SetTaskDone(k, slug, id)
       \/ \E name \in Names \cup {NoName} : UpdateArtifact(k, id, name)
       \/ \E name \in Names : LinkArtifact(k, id, name)
       \/ \E target \in Artifacts : LinkById(k, id, target)

Step(k) ==
  \/ LookUpProject(k) \/ CheckSlug(k) \/ FetchArtifact(k) \/ CheckName(k)
  \/ FetchEnds(k) \/ InsertProject(k) \/ WriteProject(k) \/ RemoveProject(k)
  \/ InsertArtifact(k) \/ WriteArtifact(k) \/ RemoveArtifact(k)
  \/ InsertLink(k) \/ RereadLink(k)

Next == \E k \in Clients : Requests(k) \/ Step(k)

Spec == Init /\ [][Next]_vars

Steps == {"project", "slug", "artifact", "name", "source", "target", "write", "reread"}

ParamsOK == [op : Operations \cup {"none"}, slug : Slugs \cup {NoName},
             id : 0 .. MaxArtifacts, name : Names \cup {NoName},
             newName : Names \cup Slugs \cup {NoName} \cup Artifacts,
             project : 0 .. MaxProjects, target : 0 .. MaxArtifacts]

TypeOK ==
  /\ projects \in [Projects -> {Unborn, Deleted} \cup ProjectRows]
  /\ artifacts \in [Artifacts -> {Unborn, Deleted} \cup ArtifactRows]
  /\ links \subseteq Artifacts \X Artifacts
  /\ request \in [Clients -> {Idle} \cup [step : Steps, params : ParamsOK]]
  /\ answer \in [code : {"none", "ok", "not_found", "conflict", "internal"},
                  hit : 0 .. MaxArtifacts \cup 0 .. MaxProjects, op : Operations \cup {"none"},
                  project : 0 .. MaxProjects,
                  id : 0 .. MaxArtifacts, target : 0 .. MaxArtifacts]
  /\ requests \in 0 .. MaxRequests

----------------------------------------------------------------------------
(* Slugs and names are unique, every artifact has its project and every    *)
(* relationship both its ends, although requests check and write in        *)
(* different transactions while others rename and delete.                  *)
CatalogIsSound == Consistent

Answered(ops) == answer.code = "ok" /\ answer.op \in ops

(* Whatever happens to names and slugs while a request is under way, it    *)
(* changes nothing outside the project it was addressed to; and a          *)
(* relationship made by name connects artifacts of one project.            *)
RequestStaysInProject ==
  /\ Answered({"create_artifact", "tool_create", "set_task_done",
               "update_artifact", "tool_update"})
       => artifacts[answer.hit].project = answer.project
  /\ Answered({"link_artifact", "tool_link"})
       => artifacts[answer.id].project = artifacts[answer.target].project
  /\ Answered({"tool_link"}) => artifacts[answer.id].project = answer.project

(* A request that names an artifact by its id, to mark it done or to       *)
(* change it, changes this artifact and no other one.                      *)
UpdateHitsItsTarget ==
  Answered({"set_task_done", "update_artifact"}) => answer.hit = answer.id
============================================================================
