----------------------- MODULE ArtifactCatalogProofs -----------------------
(***************************************************************************)
(* Proofs about ArtifactCatalog, for any sets of clients, slugs and names  *)
(* and any bounds: the types, the soundness of the tables, and that a      *)
(* request changes nothing outside its project.                            *)
(*                                                                         *)
(* What a request has read may be out of date when it writes. The          *)
(* invariant says what stays true of it nevertheless: an id that it has    *)
(* looked up is never given to another row, and if the row is still there  *)
(* it is in the project the request is about.                              *)
(***************************************************************************)
EXTENDS ArtifactCatalog, TLAPS

Linking == {"link_artifact", "link_by_id", "tool_link"}
WritingArtifacts == {"set_task_done", "update_artifact", "tool_update"}

\* Which operations get to a step
Reaches(op, step) ==
  /\ step = "project" => op \in {"create_artifact", "tool_create", "set_task_done",
                                 "tool_update", "tool_link", "rename_project"}
  /\ step = "slug" => op \in {"create_project", "tool_create_project", "rename_project"}
  /\ step = "artifact" => op \in {"set_task_done", "update_artifact",
                                  "link_artifact", "link_by_id"}
  /\ step = "name" => op \in {"create_artifact", "update_artifact"}
  /\ step = "source" => op = "tool_link"
  /\ step \in {"target", "reread"} => op \in Linking

\* The parameters that an operation has
Given(q) ==
  /\ q.op \in {"create_project", "tool_create_project"} => q.slug \in Slugs
  /\ q.op = "rename_project" => q.newName \in Slugs
  /\ q.op \in {"create_artifact", "tool_create", "tool_update", "tool_link"} => q.name \in Names
  /\ q.op = "update_artifact" => q.newName \in Names \cup {NoName}
  /\ q.op \in {"set_task_done", "update_artifact", "link_artifact", "link_by_id",
               "delete_artifact"} => q.id \in Artifacts

\* What a request knows for good of an artifact that it has looked up
Known(table, i, p) == /\ i \in Artifacts
                      /\ table[i].state # "unborn"
                      /\ table[i].state = "live" => table[i].project = p

HasRead(table, step, q) ==
  /\ q.op \in Linking /\ step \in {"target", "write", "reread"}
       => Known(table, q.id, q.project)
  /\ q.op \in {"link_artifact", "tool_link"} /\ step \in {"write", "reread"}
       => Known(table, q.target, q.project)

RequestOK(table, step, q) ==
  Reaches(q.op, step) /\ Given(q) /\ HasRead(table, step, q)

RequestInv == \A k \in Clients :
  request[k] # Idle => RequestOK(artifacts, request[k].step, request[k].params)

Inv == TypeOK /\ Consistent /\ RequestInv /\ RequestStaysInProject

----------------------------------------------------------------------------
(* Rows never come back, and never change their project.                   *)
Kept(old, new) == \A i \in Artifacts :
  /\ old[i].state # "unborn" => new[i].state # "unborn"
  /\ old[i].state # "unborn" /\ new[i].state = "live"
       => old[i].state = "live" /\ new[i].project = old[i].project

(* What a request has read stays true.                                     *)
LEMMA ReadStays ==
  ASSUME NEW old, NEW new, NEW step, NEW q, Kept(old, new), RequestOK(old, step, q)
  PROVE  RequestOK(new, step, q)
PROOF
<1>1. \A i, p : Known(old, i, p) => Known(new, i, p)
  BY DEF Kept, Known
<1> QED BY <1>1 DEF RequestOK, HasRead

(* Rows that are not written are kept.                                     *)
LEMMA UnchangedKept ==
  ASSUME NEW table
  PROVE  Kept(table, table)
PROOF BY DEF Kept

(* A step concerns one request; the others know what they knew.            *)
LEMMA OthersStay ==
  ASSUME RequestInv, Kept(artifacts, artifacts'), NEW k \in Clients,
         \A j \in Clients \ {k} : request'[j] = request[j],
         request'[k] # Idle => RequestOK(artifacts', request'[k].step, request'[k].params)
  PROVE  RequestInv'
PROOF
<1> SUFFICES ASSUME NEW j \in Clients, request'[j] # Idle
             PROVE  RequestOK(artifacts', request'[j].step, request'[j].params)
  BY DEF RequestInv
<1>1. CASE j = k
  BY <1>1
<1>2. CASE j # k
  <2>1. RequestOK(artifacts, request[j].step, request[j].params) /\ request'[j] = request[j]
    BY <1>2 DEF RequestInv
  <2> QED BY <2>1, ReadStays
<1> QED BY <1>1, <1>2

(* An answer of a kind the properties say nothing about                    *)
LEMMA OtherAnswers ==
  ASSUME answer'.code # "ok" \/ answer'.op \notin
           {"create_artifact", "tool_create", "set_task_done", "update_artifact",
            "tool_update", "link_artifact", "tool_link"}
  PROVE  RequestStaysInProject'
PROOF BY DEF RequestStaysInProject, Answered

NoAnswerTyped == NoAnswer \in
  [code : {"none", "ok", "not_found", "conflict", "internal"},
   hit : 0 .. MaxArtifacts \cup 0 .. MaxProjects, op : Operations \cup {"none"},
   project : 0 .. MaxProjects, id : 0 .. MaxArtifacts, target : 0 .. MaxArtifacts]

(* There is a type for the absence of an answer.                           *)
LEMMA NoAnswerOK == NoAnswerTyped
PROOF BY BoundAssumption DEF NoAnswerTyped, NoAnswer, Answer, Params

(* A request that goes on leaves the tables alone.                         *)
LEMMA ContinueKeeps ==
  ASSUME Inv, NEW k \in Clients, NEW step \in Steps, NEW q \in ParamsOK,
         Continue(k, step, q), RequestOK(artifacts, step, q)
  PROVE  Inv'
PROOF
<1> DEFINE r == [step |-> step, params |-> q]
<1>1. /\ request' = [request EXCEPT ![k] = r] /\ answer' = NoAnswer
      /\ UNCHANGED <<projects, artifacts, links, requests>>
  BY DEF Continue, tables
<1>2. Kept(artifacts, artifacts')
  BY <1>1, UnchangedKept
<1>3. TypeOK'
  <2>1. r \in [step : Steps, params : ParamsOK]
    OBVIOUS
  <2>2. request' \in [Clients -> {Idle} \cup [step : Steps, params : ParamsOK]]
    BY <1>1, <2>1 DEF Inv, TypeOK
  <2> QED BY <1>1, <2>2, NoAnswerOK DEF Inv, TypeOK, NoAnswerTyped
<1>4. Consistent'
  BY <1>1 DEF Inv, Consistent, Live
<1>5. RequestInv'
  <2>1. \A j \in Clients \ {k} : request'[j] = request[j]
    BY <1>1 DEF Inv, TypeOK
  <2>2. request'[k] = r
    BY <1>1 DEF Inv, TypeOK
  <2>3. RequestOK(artifacts', r.step, r.params)
    BY <1>1
  <2> QED BY <1>2, <2>1, <2>2, <2>3, OthersStay DEF Inv
<1>6. RequestStaysInProject'
  BY <1>1, OtherAnswers DEF NoAnswer, Answer
<1> QED BY <1>3, <1>4, <1>5, <1>6 DEF Inv

(* A request is answered: what is left to show is about the tables and     *)
(* about the answer.                                                       *)
LEMMA ReplyKeeps ==
  ASSUME Inv, NEW k \in Clients, request[k] # Idle,
         NEW code \in {"ok", "not_found", "conflict", "internal"},
         NEW hit \in 0 .. MaxArtifacts \cup 0 .. MaxProjects,
         Reply(k, code, hit), Kept(artifacts, artifacts'),
         projects' \in [Projects -> {Unborn, Deleted} \cup ProjectRows],
         artifacts' \in [Artifacts -> {Unborn, Deleted} \cup ArtifactRows],
         links' \subseteq Artifacts \X Artifacts,
         Consistent', RequestStaysInProject'
  PROVE  Inv'
PROOF
<1>1. /\ request' = [request EXCEPT ![k] = Idle]
      /\ answer' = Answer(code, hit, request[k].params) /\ requests' = requests
  BY DEF Reply
<1>2. request' \in [Clients -> {Idle} \cup [step : Steps, params : ParamsOK]]
  BY <1>1 DEF Inv, TypeOK
<1>3. request[k].params \in ParamsOK
  BY DEF Inv, TypeOK
<1>4. answer' \in [code : {"none", "ok", "not_found", "conflict", "internal"},
                   hit : 0 .. MaxArtifacts \cup 0 .. MaxProjects, op : Operations \cup {"none"},
                   project : 0 .. MaxProjects,
                   id : 0 .. MaxArtifacts, target : 0 .. MaxArtifacts]
  BY <1>1, <1>3 DEF Answer, ParamsOK
<1>5. TypeOK'
  BY <1>1, <1>2, <1>4 DEF Inv, TypeOK
<1>6. RequestInv'
  <2>1. \A j \in Clients \ {k} : request'[j] = request[j]
    BY <1>1 DEF Inv, TypeOK
  <2>2. request'[k] = Idle
    BY <1>1 DEF Inv, TypeOK
  <2> QED BY <2>1, <2>2, OthersStay DEF Inv
<1> QED BY <1>5, <1>6 DEF Inv

(* A request is refused.                                                   *)
LEMMA RefuseKeeps ==
  ASSUME Inv, NEW k \in Clients, request[k] # Idle,
         NEW code \in {"ok", "not_found", "conflict", "internal"},
         Refuse(k, code), RequestStaysInProject'
  PROVE  Inv'
PROOF
<1>1. Reply(k, code, 0) /\ UNCHANGED <<projects, artifacts, links>>
  BY DEF Refuse, tables
<1>2. Consistent'
  BY <1>1 DEF Inv, Consistent, Live
<1>3. 0 \in 0 .. MaxArtifacts \cup 0 .. MaxProjects
  BY BoundAssumption
<1> QED BY <1>1, <1>2, <1>3, UnchangedKept, ReplyKeeps DEF Inv, TypeOK

(* An error is refused.                                                    *)
LEMMA ErrorKeeps ==
  ASSUME Inv, NEW k \in Clients, request[k] # Idle,
         NEW code \in {"not_found", "conflict", "internal"}, Refuse(k, code)
  PROVE  Inv'
PROOF
<1>1. answer'.code = code
  BY DEF Refuse, Reply, Answer
<1> QED BY <1>1, OtherAnswers, RefuseKeeps

(* A request is made.                                                      *)
LEMMA SubmitKeeps ==
  ASSUME Inv, NEW k \in Clients, NEW op, NEW step \in Steps,
         NEW slug \in Slugs \cup {NoName}, NEW id \in 0 .. MaxArtifacts,
         NEW name \in Names \cup {NoName},
         NEW newName \in Names \cup Slugs \cup {NoName} \cup Artifacts,
         Submit(k, op, step, slug, id, name, newName),
         RequestOK(artifacts, step, Params(op, slug, id, name, newName))
  PROVE  Inv'
PROOF
<1> DEFINE q == Params(op, slug, id, name, newName)
           r == [step |-> step, params |-> q]
<1>1. /\ request' = [request EXCEPT ![k] = r] /\ answer' = NoAnswer
      /\ requests < MaxRequests /\ requests' = requests + 1
      /\ op \in Operations /\ UNCHANGED <<projects, artifacts, links>>
  BY DEF Submit, tables
<1>2. TypeOK'
  <2>1. q \in ParamsOK
    BY <1>1, BoundAssumption DEF Params, ParamsOK
  <2>2. r \in [step : Steps, params : ParamsOK]
    BY <2>1
  <2>3. request' \in [Clients -> {Idle} \cup [step : Steps, params : ParamsOK]]
    BY <1>1, <2>2 DEF Inv, TypeOK
  <2>4. requests' \in 0 .. MaxRequests
    BY <1>1, BoundAssumption DEF Inv, TypeOK
  <2> QED BY <1>1, <2>3, <2>4, NoAnswerOK DEF Inv, TypeOK, NoAnswerTyped
<1>3. Consistent'
  BY <1>1 DEF Inv, Consistent, Live
<1>4. RequestInv'
  <2>1. \A j \in Clients \ {k} : request'[j] = request[j]
    BY <1>1 DEF Inv, TypeOK
  <2>2. request'[k] = r
    BY <1>1 DEF Inv, TypeOK
  <2>3. RequestOK(artifacts', r.step, r.params)
    BY <1>1
  <2>4. Kept(artifacts, artifacts')
    BY <1>1, UnchangedKept
  <2> QED BY <2>1, <2>2, <2>3, <2>4, OthersStay DEF Inv
<1>5. RequestStaysInProject'
  BY <1>1, OtherAnswers DEF NoAnswer, Answer
<1> QED BY <1>2, <1>3, <1>4, <1>5 DEF Inv

(* Every operation begins with a step that it gets to.                     *)
LEMMA RequestsKeep ==
  ASSUME Inv, NEW k \in Clients, Requests(k)
  PROVE  Inv'
PROOF
<1> USE DEF RequestOK, Reaches, Given, HasRead, Linking, Params, Steps
<1>0. 0 \in 0 .. MaxArtifacts /\ Artifacts \subseteq 0 .. MaxArtifacts
  BY BoundAssumption DEF Artifacts
<1>1. ASSUME NEW slug \in Slugs, CreateProject(k, slug) PROVE Inv'
  BY <1>0, <1>1, SubmitKeeps DEF CreateProject
<1>2. ASSUME NEW slug \in Slugs, DeleteProject(k, slug) PROVE Inv'
  BY <1>0, <1>2, SubmitKeeps DEF DeleteProject
<1>3. ASSUME NEW slug \in Slugs, NEW new \in Slugs, RenameProject(k, slug, new) PROVE Inv'
  BY <1>0, <1>3, SubmitKeeps DEF RenameProject
<1>4. ASSUME NEW slug \in Slugs, NEW name \in Names, CreateArtifact(k, slug, name) PROVE Inv'
  BY <1>0, <1>4, SubmitKeeps DEF CreateArtifact
<1>5. ASSUME NEW slug \in Slugs, NEW name \in Names, ToolCreate(k, slug, name) PROVE Inv'
  BY <1>0, <1>5, SubmitKeeps DEF ToolCreate
<1>6. ASSUME NEW slug \in Slugs, NEW name \in Names, ToolUpdate(k, slug, name) PROVE Inv'
  BY <1>0, <1>6, SubmitKeeps DEF ToolUpdate
<1>7. ASSUME NEW slug \in Slugs, NEW name \in Names, NEW target \in Names,
             ToolLink(k, slug, name, target)
      PROVE  Inv'
  BY <1>0, <1>7, SubmitKeeps DEF ToolLink
<1>8. ASSUME NEW id \in Artifacts, DeleteArtifact(k, id) PROVE Inv'
  BY <1>0, <1>8, SubmitKeeps DEF DeleteArtifact
<1>9. ASSUME NEW id \in Artifacts, NEW slug \in Slugs, SetTaskDone(k, slug, id) PROVE Inv'
  BY <1>0, <1>9, SubmitKeeps DEF SetTaskDone
<1>10. ASSUME NEW id \in Artifacts, NEW name \in Names \cup {NoName}, UpdateArtifact(k, id, name)
       PROVE  Inv'
  BY <1>0, <1>10, SubmitKeeps DEF UpdateArtifact
<1>11. ASSUME NEW id \in Artifacts, NEW name \in Names, LinkArtifact(k, id, name) PROVE Inv'
  BY <1>0, <1>11, SubmitKeeps DEF LinkArtifact
<1>12. ASSUME NEW id \in Artifacts, NEW target \in Artifacts, LinkById(k, id, target) PROVE Inv'
  BY <1>0, <1>12, SubmitKeeps DEF LinkById
<1> QED
  BY <1>1, <1>2, <1>3, <1>4, <1>5, <1>6, <1>7, <1>8, <1>9, <1>10, <1>11, <1>12 DEF Requests

----------------------------------------------------------------------------
(* What the invariant says of a request in flight                          *)
LEMMA InFlight ==
  ASSUME Inv, NEW k \in Clients, request[k].step # "idle"
  PROVE  /\ request[k] # Idle
         /\ request[k].params \in ParamsOK
         /\ request[k].step \in Steps
         /\ RequestOK(artifacts, request[k].step, request[k].params)
PROOF
<1>1. request[k] # Idle
  BY DEF Idle
<1>2. request[k] \in [step : Steps, params : ParamsOK]
  BY <1>1 DEF Inv, TypeOK
<1> QED BY <1>1, <1>2 DEF Inv, RequestInv

(* The rows that a statement finds                                         *)
LEMMA Found ==
  ASSUME Inv
  PROVE  /\ \A slug : \A p \in WithSlug(slug) : p \in Projects
         /\ \A p, name : \A i \in WithName(p, name) :
              i \in Artifacts /\ Known(artifacts, i, p) /\ artifacts[i].project = p
PROOF BY DEF WithSlug, WithName, Live, Known, Inv, TypeOK

(* The project of the slug is found, or the request is refused.            *)
LEMMA LookUpProjectKeeps ==
  ASSUME Inv, NEW k \in Clients, LookUpProject(k)
  PROVE  Inv'
PROOF
<1> DEFINE q == request[k].params
<1>1. request[k].step = "project"
  BY DEF LookUpProject
<1>2. /\ request[k] # Idle /\ q \in ParamsOK /\ RequestOK(artifacts, "project", q)
  BY <1>1, InFlight
<1>3. CASE \E code \in {"internal", "not_found"} : Refuse(k, code)
  BY <1>2, <1>3, ErrorKeeps
<1>4. CASE \E p \in WithSlug(q.slug) : Continue(k, AfterProject(q), [q EXCEPT !.project = p])
  <2> PICK p \in WithSlug(q.slug) : Continue(k, AfterProject(q), [q EXCEPT !.project = p])
    BY <1>4
  <2> DEFINE r == [q EXCEPT !.project = p]
  <2>1. r \in ParamsOK
    BY <1>2, Found DEF ParamsOK, Projects
  <2>2. /\ r.op = q.op /\ r.slug = q.slug /\ r.name = q.name
        /\ r.newName = q.newName /\ r.id = q.id
    BY <1>2 DEF ParamsOK
  <2>3. q.op \in {"create_artifact", "tool_create", "set_task_done",
                  "tool_update", "tool_link", "rename_project"}
    BY <1>2 DEF RequestOK, Reaches
  <2>4. /\ AfterProject(q) \in {"name", "artifact", "source", "slug", "write"}
        /\ AfterProject(q) = "name" => q.op = "create_artifact"
        /\ AfterProject(q) = "artifact" => q.op = "set_task_done"
        /\ AfterProject(q) = "source" => q.op = "tool_link"
        /\ AfterProject(q) = "slug" => q.op = "rename_project"
        /\ AfterProject(q) = "write" => q.op \in {"rename_project", "tool_create", "tool_update"}
    BY <2>3 DEF AfterProject
  <2>5. Given(r)
    BY <1>2, <2>2 DEF RequestOK, Given
  <2>6. Reaches(r.op, AfterProject(q)) /\ HasRead(artifacts, AfterProject(q), r)
    BY <2>2, <2>4 DEF Reaches, HasRead, Linking
  <2>7. AfterProject(q) \in Steps
    BY <2>4 DEF Steps
  <2> QED BY <2>1, <2>5, <2>6, <2>7, ContinueKeeps DEF RequestOK
<1> QED BY <1>3, <1>4 DEF LookUpProject

(* The slug is free, or the request is refused; the tool may then answer   *)
(* with the project that has it.                                           *)
LEMMA CheckSlugKeeps ==
  ASSUME Inv, NEW k \in Clients, CheckSlug(k)
  PROVE  Inv'
PROOF
<1> DEFINE q == request[k].params
<1>1. request[k].step = "slug"
  BY DEF CheckSlug
<1>2. /\ request[k] # Idle /\ q \in ParamsOK /\ RequestOK(artifacts, "slug", q)
  BY <1>1, InFlight
<1>3. q.op \in {"create_project", "tool_create_project", "rename_project"}
  BY <1>2 DEF RequestOK, Reaches
<1>4. CASE Refuse(k, IF q.op = "tool_create_project" THEN "ok" ELSE "conflict")
  <2>1. CASE q.op = "tool_create_project"
    <3>1. answer'.op = "tool_create_project"
      BY <1>4, <2>1 DEF Refuse, Reply, Answer
    <3>2. RequestStaysInProject'
      BY <3>1, OtherAnswers
    <3>3. Refuse(k, "ok")
      BY <1>4, <2>1
    <3> QED BY <1>2, <3>2, <3>3, RefuseKeeps
  <2>2. CASE q.op # "tool_create_project"
    BY <1>2, <1>4, <2>2, ErrorKeeps
  <2> QED BY <2>1, <2>2
<1>5. CASE Continue(k, "write", q)
  <2>1. RequestOK(artifacts, "write", q)
    BY <1>2, <1>3 DEF RequestOK, Reaches, HasRead, Linking
  <2> QED BY <1>2, <1>5, <2>1, ContinueKeeps DEF Steps
<1> QED BY <1>4, <1>5 DEF CheckSlug

(* The artifact of the id is found, or the request is refused.             *)
LEMMA FetchArtifactKeeps ==
  ASSUME Inv, NEW k \in Clients, FetchArtifact(k)
  PROVE  Inv'
PROOF
<1> DEFINE q == request[k].params
           row == artifacts[q.id]
           r == [q EXCEPT !.project = row.project, !.name = row.name]
<1>1. request[k].step = "artifact"
  BY DEF FetchArtifact
<1>2. /\ request[k] # Idle /\ q \in ParamsOK /\ RequestOK(artifacts, "artifact", q)
  BY <1>1, InFlight
<1>3. CASE Refuse(k, "not_found")
  BY <1>2, <1>3, ErrorKeeps
<1>4. CASE row.state = "live" /\ Continue(k, AfterFetch(q, row.name), r)
  <2>1. /\ q.op \in {"set_task_done", "update_artifact", "link_artifact", "link_by_id"}
        /\ q.id \in Artifacts
    BY <1>2 DEF RequestOK, Reaches, Given
  <2>2. row \in ArtifactRows
    BY <1>4, <2>1 DEF Inv, TypeOK, Unborn, Deleted
  <2> HIDE DEF row
  <2>3. r \in ParamsOK
    <3>1. row.project \in 0 .. MaxProjects /\ row.name \in Names
      BY <2>2 DEF ArtifactRows, Projects
    <3> QED BY <1>2, <3>1 DEF ParamsOK
  <2>4. /\ r.op = q.op /\ r.id = q.id /\ r.newName = q.newName /\ r.project = row.project
    BY <1>2 DEF ParamsOK
  <2>5. Known(artifacts, q.id, row.project)
    BY <1>4, <2>1 DEF Known, row
  <2>6. Given(r)
    BY <1>2, <2>1, <2>4 DEF RequestOK, Given
  <2>7. /\ AfterFetch(q, row.name) \in {"target", "name", "write"}
        /\ AfterFetch(q, row.name) = "target" <=> q.op \in {"link_artifact", "link_by_id"}
        /\ AfterFetch(q, row.name) = "name" => q.op = "update_artifact"
    BY DEF AfterFetch
  <2>8. Reaches(r.op, AfterFetch(q, row.name)) /\ HasRead(artifacts, AfterFetch(q, row.name), r)
    BY <2>1, <2>4, <2>5, <2>7 DEF Reaches, HasRead, Linking
  <2> QED BY <1>4, <2>3, <2>6, <2>7, <2>8, ContinueKeeps DEF RequestOK, Steps
<1> QED BY <1>3, <1>4 DEF FetchArtifact

(* The name is free, or the request is refused.                            *)
LEMMA CheckNameKeeps ==
  ASSUME Inv, NEW k \in Clients, CheckName(k)
  PROVE  Inv'
PROOF
<1> DEFINE q == request[k].params
<1>1. request[k].step = "name"
  BY DEF CheckName
<1>2. /\ request[k] # Idle /\ q \in ParamsOK /\ RequestOK(artifacts, "name", q)
  BY <1>1, InFlight
<1>3. CASE Refuse(k, "conflict")
  BY <1>2, <1>3, ErrorKeeps
<1>4. CASE Continue(k, "write", q)
  <2>1. RequestOK(artifacts, "write", q)
    BY <1>2 DEF RequestOK, Reaches, HasRead, Linking
  <2> QED BY <1>2, <1>4, <2>1, ContinueKeeps DEF Steps
<1> QED BY <1>3, <1>4 DEF CheckName

(* An end of the link is found, in the project of the request when it is   *)
(* given by its name.                                                      *)
LEMMA FetchEndsKeeps ==
  ASSUME Inv, NEW k \in Clients, FetchEnds(k)
  PROVE  Inv'
PROOF
<1> DEFINE q == request[k].params
           step == request[k].step
           found == IF q.op = "link_by_id" THEN {q.newName} \cap Live(artifacts)
                    ELSE WithName(q.project, IF step = "source" THEN q.name ELSE q.newName)
<1>1. step \in {"source", "target"}
  BY DEF FetchEnds
<1>2. /\ request[k] # Idle /\ q \in ParamsOK /\ RequestOK(artifacts, step, q)
  BY <1>1, InFlight
<1>3. q.op \in Linking /\ (step = "source" => q.op = "tool_link")
  BY <1>1, <1>2 DEF RequestOK, Reaches, Linking
<1>4. \A i \in found : i \in Artifacts /\ (q.op # "link_by_id" => Known(artifacts, i, q.project))
  BY Found DEF Live, Inv, TypeOK
<1>5. CASE Refuse(k, "not_found")
  BY <1>2, <1>5, ErrorKeeps
<1>6. CASE step = "source" /\ \E i \in found : Continue(k, "target", [q EXCEPT !.id = i])
  <2> PICK i \in found : Continue(k, "target", [q EXCEPT !.id = i])
    BY <1>6
  <2> DEFINE r == [q EXCEPT !.id = i]
  <2>1. r \in ParamsOK
    BY <1>2, <1>4 DEF ParamsOK, Artifacts
  <2>2. /\ r.op = q.op /\ r.name = q.name /\ r.slug = q.slug /\ r.newName = q.newName
        /\ r.id = i /\ r.project = q.project
    BY <1>2 DEF ParamsOK
  <2>3. r.op = "tool_link" /\ Known(artifacts, i, q.project)
    BY <1>3, <1>4, <1>6, <2>2
  <2>4. RequestOK(artifacts, "target", r)
    BY <1>2, <2>2, <2>3 DEF RequestOK, Reaches, Given, HasRead, Linking
  <2> QED BY <2>1, <2>4, ContinueKeeps DEF Steps
<1>7. CASE step = "target" /\ \E i \in found : Continue(k, "write", [q EXCEPT !.target = i])
  <2> PICK i \in found : Continue(k, "write", [q EXCEPT !.target = i])
    BY <1>7
  <2> DEFINE r == [q EXCEPT !.target = i]
  <2>1. r \in ParamsOK
    BY <1>2, <1>4 DEF ParamsOK, Artifacts
  <2>2. /\ r.op = q.op /\ r.name = q.name /\ r.slug = q.slug /\ r.newName = q.newName
        /\ r.id = q.id /\ r.target = i /\ r.project = q.project
    BY <1>2 DEF ParamsOK
  <2>3. Given(r)
    BY <1>2, <2>2 DEF RequestOK, Given
  <2>4. Known(artifacts, q.id, q.project)
    BY <1>2, <1>3, <1>7 DEF RequestOK, HasRead
  <2>5. HasRead(artifacts, "write", r)
    BY <1>4, <2>2, <2>4 DEF HasRead
  <2>6. RequestOK(artifacts, "write", r)
    BY <2>3, <2>5 DEF RequestOK, Reaches
  <2> QED BY <2>1, <2>6, ContinueKeeps DEF Steps
<1>8. \/ Refuse(k, "not_found")
      \/ \E i \in found : IF step = "source" THEN Continue(k, "target", [q EXCEPT !.id = i])
                          ELSE Continue(k, "write", [q EXCEPT !.target = i])
  BY DEF FetchEnds
<1>9. CASE step = "source"
  BY <1>5, <1>6, <1>8, <1>9
<1>10. CASE step = "target"
  BY <1>5, <1>7, <1>8, <1>10
<1> QED BY <1>1, <1>9, <1>10

----------------------------------------------------------------------------
(* An answer about an artifact that is in the project of the request       *)
LEMMA AnswerInProject ==
  ASSUME NEW k \in Clients, NEW code, NEW hit, Reply(k, code, hit),
         request[k].params.op \in {"create_artifact", "tool_create"} \cup WritingArtifacts,
         artifacts'[hit].project = request[k].params.project
  PROVE  RequestStaysInProject'
PROOF
<1>1. /\ answer'.op = request[k].params.op /\ answer'.hit = hit
      /\ answer'.project = request[k].params.project
  BY DEF Reply, Answer
<1> QED BY <1>1 DEF RequestStaysInProject, Answered, WritingArtifacts

(* An answer about a link both of whose ends are there                     *)
LEMMA LinkInProject ==
  ASSUME Inv, NEW k \in Clients, request[k].step \in {"write", "reread"},
         request[k].params.op \in Linking, NEW code, NEW hit, Reply(k, code, hit),
         {request[k].params.id, request[k].params.target} \subseteq Live(artifacts),
         UNCHANGED artifacts
  PROVE  RequestStaysInProject'
PROOF
<1> DEFINE q == request[k].params
<1>1. /\ answer'.op = q.op /\ answer'.id = q.id
      /\ answer'.target = q.target /\ answer'.project = q.project
  BY DEF Reply, Answer
<1>2. HasRead(artifacts, request[k].step, q)
  BY InFlight DEF RequestOK
<1>3. artifacts[q.id].project = q.project
  BY <1>2 DEF HasRead, Known, Live
<1>4. q.op \in {"link_artifact", "tool_link"} => artifacts[q.target].project = q.project
  BY <1>2 DEF HasRead, Known, Live
<1> QED BY <1>1, <1>3, <1>4 DEF RequestStaysInProject, Answered, Linking

(* The new project has the slug alone.                                     *)
LEMMA InsertProjectKeeps ==
  ASSUME Inv, NEW k \in Clients, InsertProject(k)
  PROVE  Inv'
PROOF
<1> DEFINE q == request[k].params
           row == [state |-> "live", slug |-> q.slug]
<1>1. request[k].step = "write" /\ q.op \in {"create_project", "tool_create_project"}
  BY DEF InsertProject, Writing
<1>2. /\ request[k] # Idle /\ q \in ParamsOK /\ RequestOK(artifacts, "write", q)
  BY <1>1, InFlight
<1>3. CASE Refuse(k, "internal")
  BY <1>2, <1>3, ErrorKeeps
<1>4. CASE /\ WithSlug(q.slug) = {}
           /\ \E p \in New(projects) : projects' = [projects EXCEPT ![p] = row]
           /\ Reply(k, "ok", 0) /\ UNCHANGED <<artifacts, links>>
  <2> PICK p \in New(projects) : projects' = [projects EXCEPT ![p] = row]
    BY <1>4
  <2>1. p \in Projects /\ projects[p].state = "unborn"
    BY DEF New, Inv, TypeOK
  <2>2. row \in ProjectRows
    BY <1>1, <1>2 DEF RequestOK, Given, ProjectRows
  <2>3. projects' \in [Projects -> {Unborn, Deleted} \cup ProjectRows]
    BY <2>2 DEF Inv, TypeOK
  <2>4. projects'[p] = row /\ \A o \in Projects \ {p} : projects'[o] = projects[o]
    BY <2>1 DEF Inv, TypeOK
  <2>5. Live(projects') = Live(projects) \cup {p}
    BY <2>1, <2>3, <2>4 DEF Live, Inv, TypeOK
  <2>6. p \notin Live(projects)
    BY <2>1 DEF Live
  <2>7. \A o \in Live(projects) : projects'[o] = projects[o] /\ projects[o].slug # q.slug
    BY <1>4, <2>4, <2>6 DEF WithSlug, Live, Inv, TypeOK
  <2>8. Consistent'
    <3>1. \A o, n \in Live(projects') : projects'[o].slug = projects'[n].slug => o = n
      BY <2>4, <2>5, <2>7 DEF Inv, Consistent
    <3> QED BY <1>4, <2>5, <3>1 DEF Inv, Consistent, Live
  <2>9. RequestStaysInProject'
    <3>1. answer'.op = q.op
      BY <1>4 DEF Reply, Answer
    <3> QED BY <1>1, <3>1, OtherAnswers
  <2>10. 0 \in 0 .. MaxArtifacts \cup 0 .. MaxProjects
    BY BoundAssumption
  <2> QED BY <1>2, <1>4, <2>3, <2>8, <2>9, <2>10, UnchangedKept, ReplyKeeps DEF Inv, TypeOK
<1> QED BY <1>3, <1>4 DEF InsertProject

(* The renamed project has the slug alone.                                 *)
LEMMA WriteProjectKeeps ==
  ASSUME Inv, NEW k \in Clients, WriteProject(k)
  PROVE  Inv'
PROOF
<1> DEFINE q == request[k].params
<1>1. request[k].step = "write" /\ q.op = "rename_project"
  BY DEF WriteProject, Writing
<1>2. /\ request[k] # Idle /\ q \in ParamsOK /\ RequestOK(artifacts, "write", q)
  BY <1>1, InFlight
<1>3. CASE Refuse(k, "not_found") \/ Refuse(k, "conflict")
  BY <1>2, <1>3, ErrorKeeps
<1>4. ASSUME NEW p \in WithSlug(q.slug), WithSlug(q.newName) \ {p} = {},
             projects' = [projects EXCEPT ![p].slug = q.newName],
             Reply(k, "ok", p), UNCHANGED <<artifacts, links>>
      PROVE  Inv'
  <2>1. p \in Projects /\ p \in Live(projects)
    BY Found DEF WithSlug
  <2>2. q.newName \in Slugs
    BY <1>1, <1>2 DEF RequestOK, Given
  <2>3. projects[p] \in ProjectRows
    BY <2>1 DEF Live, Inv, TypeOK, Unborn, Deleted
  <2>4. projects'[p] = [projects[p] EXCEPT !.slug = q.newName]
        /\ \A o \in Projects \ {p} : projects'[o] = projects[o]
    BY <1>4, <2>1 DEF Inv, TypeOK
  <2>5. projects'[p] = [state |-> "live", slug |-> q.newName]
    BY <2>3, <2>4 DEF ProjectRows
  <2>6. projects' \in [Projects -> {Unborn, Deleted} \cup ProjectRows]
    <3>1. projects'[p] \in ProjectRows
      BY <2>2, <2>5 DEF ProjectRows
    <3> QED BY <1>4, <2>4, <3>1 DEF Inv, TypeOK
  <2>7. Live(projects') = Live(projects)
    BY <2>1, <2>4, <2>5, <2>6 DEF Live, Inv, TypeOK
  <2>8. \A o \in Live(projects) \ {p} : projects'[o] = projects[o] /\ projects[o].slug # q.newName
    BY <1>4, <2>4 DEF WithSlug, Live, Inv, TypeOK
  <2>9. Consistent'
    <3>1. \A o, n \in Live(projects') : projects'[o].slug = projects'[n].slug => o = n
      BY <2>5, <2>7, <2>8 DEF Inv, Consistent
    <3> QED BY <1>4, <2>7, <3>1 DEF Inv, Consistent, Live
  <2>10. RequestStaysInProject'
    <3>1. answer'.op = q.op
      BY <1>4 DEF Reply, Answer
    <3> QED BY <1>1, <3>1, OtherAnswers
  <2>11. p \in 0 .. MaxArtifacts \cup 0 .. MaxProjects
    BY <2>1, BoundAssumption DEF Projects
  <2> QED BY <1>2, <1>4, <2>6, <2>9, <2>10, <2>11, UnchangedKept, ReplyKeeps DEF Inv, TypeOK
<1> QED BY <1>3, <1>4 DEF WriteProject

(* Rows that go take their links with them.                                *)
LEMMA RemoveIsClean ==
  ASSUME Inv, NEW gone \in SUBSET Artifacts, Remove(gone)
  PROVE  /\ artifacts' \in [Artifacts -> {Unborn, Deleted} \cup ArtifactRows]
         /\ links' \subseteq Artifacts \X Artifacts
         /\ Kept(artifacts, artifacts')
         /\ Live(artifacts') = Live(artifacts) \ gone
         /\ \A i \in Live(artifacts') : artifacts'[i] = artifacts[i]
         /\ \A l \in links' : {l[1], l[2]} \subseteq Live(artifacts')
PROOF
<1>1. artifacts' = [i \in Artifacts |-> IF i \in gone THEN Deleted ELSE artifacts[i]]
      /\ links' = {l \in links : l[1] \notin gone /\ l[2] \notin gone}
  BY DEF Remove
<1>2. artifacts' \in [Artifacts -> {Unborn, Deleted} \cup ArtifactRows]
  BY <1>1 DEF Inv, TypeOK
<1>3. links' \subseteq Artifacts \X Artifacts
  BY <1>1 DEF Inv, TypeOK
<1>4. Deleted.state # "unborn" /\ Deleted.state # "live"
  BY DEF Deleted
<1>5. Kept(artifacts, artifacts')
  BY <1>1, <1>4 DEF Kept
<1>6. Live(artifacts') = Live(artifacts) \ gone
  BY <1>1, <1>4 DEF Live, Inv, TypeOK
<1>7. \A i \in Live(artifacts') : artifacts'[i] = artifacts[i]
  BY <1>1, <1>6 DEF Live, Inv, TypeOK
<1>8. \A l \in links' : {l[1], l[2]} \subseteq Live(artifacts')
  BY <1>1, <1>6 DEF Inv, Consistent
<1> QED BY <1>2, <1>3, <1>5, <1>6, <1>7, <1>8

(* A project goes with its artifacts.                                      *)
LEMMA RemoveProjectKeeps ==
  ASSUME Inv, NEW k \in Clients, RemoveProject(k)
  PROVE  Inv'
PROOF
<1> DEFINE q == request[k].params
<1>1. request[k].step = "write" /\ q.op = "delete_project"
  BY DEF RemoveProject, Writing
<1>2. /\ request[k] # Idle /\ q \in ParamsOK /\ RequestOK(artifacts, "write", q)
  BY <1>1, InFlight
<1>3. CASE Refuse(k, "not_found")
  BY <1>2, <1>3, ErrorKeeps
<1>4. ASSUME NEW p \in WithSlug(q.slug), projects' = [projects EXCEPT ![p] = Deleted],
             Remove({i \in Live(artifacts) : artifacts[i].project = p}), Reply(k, "ok", 0)
      PROVE  Inv'
  <2> DEFINE gone == {i \in Live(artifacts) : artifacts[i].project = p}
  <2>1. gone \in SUBSET Artifacts
    BY DEF Live, Inv, TypeOK
  <2>2. /\ artifacts' \in [Artifacts -> {Unborn, Deleted} \cup ArtifactRows]
        /\ links' \subseteq Artifacts \X Artifacts
        /\ Kept(artifacts, artifacts')
        /\ Live(artifacts') = Live(artifacts) \ gone
        /\ \A i \in Live(artifacts') : artifacts'[i] = artifacts[i]
        /\ \A l \in links' : {l[1], l[2]} \subseteq Live(artifacts')
    BY <1>4, <2>1, RemoveIsClean
  <2>3. projects' \in [Projects -> {Unborn, Deleted} \cup ProjectRows]
    BY <1>4 DEF Inv, TypeOK
  <2>4. Live(projects') = Live(projects) \ {p}
    BY <1>4, <2>3, Found DEF Live, Deleted, Inv, TypeOK
  <2>5. \A o \in Live(projects') : projects'[o] = projects[o]
    BY <1>4, <2>4 DEF Live, Inv, TypeOK
  <2>6. Consistent'
    <3>1. \A o, n \in Live(projects') : projects'[o].slug = projects'[n].slug => o = n
      BY <2>4, <2>5 DEF Inv, Consistent
    <3>2. \A i, j \in Live(artifacts') :
            /\ artifacts'[i].project \in Live(projects')
            /\ artifacts'[i].project = artifacts'[j].project
                 /\ artifacts'[i].name = artifacts'[j].name => i = j
      BY <2>2, <2>4 DEF Inv, Consistent
    <3> QED BY <2>2, <3>1, <3>2 DEF Consistent
  <2>7. RequestStaysInProject'
    <3>1. answer'.op = q.op
      BY <1>4 DEF Reply, Answer
    <3> QED BY <1>1, <3>1, OtherAnswers
  <2>8. 0 \in 0 .. MaxArtifacts \cup 0 .. MaxProjects
    BY BoundAssumption
  <2> QED BY <1>2, <1>4, <2>2, <2>3, <2>6, <2>7, <2>8, ReplyKeeps
<1> QED BY <1>3, <1>4 DEF RemoveProject

(* An artifact goes with its links.                                        *)
LEMMA RemoveArtifactKeeps ==
  ASSUME Inv, NEW k \in Clients, RemoveArtifact(k)
  PROVE  Inv'
PROOF
<1> DEFINE q == request[k].params
<1>1. request[k].step = "write" /\ q.op = "delete_artifact"
  BY DEF RemoveArtifact, Writing
<1>2. /\ request[k] # Idle /\ q \in ParamsOK /\ RequestOK(artifacts, "write", q)
  BY <1>1, InFlight
<1>3. CASE Refuse(k, "not_found")
  BY <1>2, <1>3, ErrorKeeps
<1>4. CASE Remove({q.id}) /\ Reply(k, "ok", q.id) /\ UNCHANGED projects
  <2>1. q.id \in Artifacts
    BY <1>1, <1>2 DEF RequestOK, Given
  <2>2. /\ artifacts' \in [Artifacts -> {Unborn, Deleted} \cup ArtifactRows]
        /\ links' \subseteq Artifacts \X Artifacts
        /\ Kept(artifacts, artifacts')
        /\ Live(artifacts') = Live(artifacts) \ {q.id}
        /\ \A i \in Live(artifacts') : artifacts'[i] = artifacts[i]
        /\ \A l \in links' : {l[1], l[2]} \subseteq Live(artifacts')
    BY <1>4, <2>1, RemoveIsClean
  <2>3. Consistent'
    <3>1. \A i, j \in Live(artifacts') :
            /\ artifacts'[i].project \in Live(projects')
            /\ artifacts'[i].project = artifacts'[j].project
                 /\ artifacts'[i].name = artifacts'[j].name => i = j
      BY <1>4, <2>2 DEF Inv, Consistent
    <3> QED BY <1>4, <2>2, <3>1 DEF Inv, Consistent
  <2>4. RequestStaysInProject'
    <3>1. answer'.op = q.op
      BY <1>4 DEF Reply, Answer
    <3> QED BY <1>1, <3>1, OtherAnswers
  <2>5. q.id \in 0 .. MaxArtifacts \cup 0 .. MaxProjects
    BY <2>1, BoundAssumption DEF Artifacts
  <2> QED BY <1>2, <1>4, <2>2, <2>3, <2>4, <2>5, ReplyKeeps DEF Inv, TypeOK
<1> QED BY <1>3, <1>4 DEF RemoveArtifact

(* The new artifact has its name alone in its project.                     *)
LEMMA InsertArtifactKeeps ==
  ASSUME Inv, NEW k \in Clients, InsertArtifact(k)
  PROVE  Inv'
PROOF
<1> DEFINE q == request[k].params
           row == [state |-> "live", project |-> q.project, name |-> q.name]
<1>1. request[k].step = "write" /\ q.op \in {"create_artifact", "tool_create"}
  BY DEF InsertArtifact, Writing
<1>2. /\ request[k] # Idle /\ q \in ParamsOK /\ RequestOK(artifacts, "write", q)
  BY <1>1, InFlight
<1>3. CASE Refuse(k, "internal")
  BY <1>2, <1>3, ErrorKeeps
<1>4. ASSUME q.project \in Live(projects), WithName(q.project, q.name) = {},
             NEW i \in New(artifacts), artifacts' = [artifacts EXCEPT ![i] = row],
             Reply(k, "ok", i), UNCHANGED <<projects, links>>
      PROVE  Inv'
  <2>1. i \in Artifacts /\ artifacts[i].state = "unborn"
    BY DEF New, Inv, TypeOK
  <2>2. row \in ArtifactRows
    <3>1. q.project \in Projects
      BY <1>4 DEF Live, Inv, TypeOK
    <3>2. q.name \in Names
      BY <1>1, <1>2 DEF RequestOK, Given
    <3> QED BY <3>1, <3>2 DEF ArtifactRows
  <2>3. artifacts' \in [Artifacts -> {Unborn, Deleted} \cup ArtifactRows]
    BY <1>4, <2>2 DEF Inv, TypeOK
  <2>4. artifacts'[i] = row /\ \A j \in Artifacts \ {i} : artifacts'[j] = artifacts[j]
    BY <1>4, <2>1 DEF Inv, TypeOK
  <2>5. Kept(artifacts, artifacts')
    BY <2>1, <2>4 DEF Kept
  <2>6. Live(artifacts') = Live(artifacts) \cup {i}
    BY <2>1, <2>3, <2>4 DEF Live, Inv, TypeOK
  <2>7. \A j \in Live(artifacts) : artifacts'[j] = artifacts[j]
    BY <2>1, <2>4 DEF Live, Inv, TypeOK
  <2>8. \A j \in Live(artifacts) :
          ~ (artifacts[j].project = q.project /\ artifacts[j].name = q.name)
    BY <1>4 DEF WithName
  <2>9. Consistent'
    <3>1. \A j \in Live(artifacts') : artifacts'[j].project \in Live(projects')
      BY <1>4, <2>4, <2>6, <2>7 DEF Inv, Consistent
    <3>2. ASSUME NEW j \in Live(artifacts'), NEW n \in Live(artifacts'),
                 artifacts'[j].project = artifacts'[n].project,
                 artifacts'[j].name = artifacts'[n].name
          PROVE  j = n
      <4>1. CASE j \in Live(artifacts) /\ n \in Live(artifacts)
        BY <2>7, <3>2, <4>1 DEF Inv, Consistent
      <4>2. CASE j = i /\ n \in Live(artifacts)
        BY <2>4, <2>7, <2>8, <3>2, <4>2
      <4>3. CASE j \in Live(artifacts) /\ n = i
        BY <2>4, <2>7, <2>8, <3>2, <4>3
      <4> QED BY <2>6, <4>1, <4>2, <4>3
    <3>3. projects' = projects /\ Live(projects') = Live(projects)
      BY <1>4
    <3>4. \A o, n \in Live(projects') : projects'[o].slug = projects'[n].slug => o = n
      BY <3>3 DEF Inv, Consistent
    <3>5. \A l \in links' : {l[1], l[2]} \subseteq Live(artifacts')
      BY <1>4, <2>6 DEF Inv, Consistent
    <3> QED BY <3>1, <3>2, <3>4, <3>5 DEF Consistent
  <2>10. RequestStaysInProject'
    BY <1>1, <1>4, <2>4, AnswerInProject
  <2>11. i \in 0 .. MaxArtifacts \cup 0 .. MaxProjects
    BY <2>1, BoundAssumption DEF Artifacts
  <2> QED BY <1>2, <1>4, <2>3, <2>5, <2>9, <2>10, <2>11, ReplyKeeps DEF Inv, TypeOK
<1> QED BY <1>3, <1>4 DEF InsertArtifact

(* The artifact of the project and the name stays in the project, and has  *)
(* its new name alone there.                                               *)
LEMMA WriteArtifactKeeps ==
  ASSUME Inv, NEW k \in Clients, WriteArtifact(k)
  PROVE  Inv'
PROOF
<1> DEFINE q == request[k].params
           renamed == q.op = "update_artifact" /\ q.newName \notin {NoName, q.name}
           taken == renamed /\ WithName(q.project, q.newName) # {}
           name(old) == IF renamed THEN q.newName ELSE old
<1>1. request[k].step = "write" /\ q.op \in WritingArtifacts
  BY DEF WriteArtifact, Writing, WritingArtifacts
<1>2. /\ request[k] # Idle /\ q \in ParamsOK /\ RequestOK(artifacts, "write", q)
  BY <1>1, InFlight
<1>3. CASE Refuse(k, "not_found") \/ Refuse(k, "internal")
  BY <1>2, <1>3, ErrorKeeps
<1>4. ASSUME NEW i \in WithName(q.project, q.name), ~taken,
             artifacts' = [artifacts EXCEPT ![i].name = IF renamed THEN q.newName ELSE @],
             Reply(k, "ok", i), UNCHANGED <<projects, links>>
      PROVE  Inv'
  <2>1. i \in Artifacts /\ i \in Live(artifacts)
        /\ artifacts[i].project = q.project /\ artifacts[i].name = q.name
    BY Found DEF WithName
  <2>2. artifacts[i] \in ArtifactRows
    BY <2>1 DEF Live, Inv, TypeOK, Unborn, Deleted
  <2>3. name(q.name) \in Names
    BY <1>2, <2>1, <2>2 DEF RequestOK, Given, ArtifactRows
  <2>4. artifacts'[i] = [artifacts[i] EXCEPT !.name = name(artifacts[i].name)]
        /\ \A j \in Artifacts \ {i} : artifacts'[j] = artifacts[j]
    BY <1>4, <2>1 DEF Inv, TypeOK
  <2> HIDE DEF name
  <2>5. artifacts'[i] = [state |-> "live", project |-> q.project, name |-> name(q.name)]
    BY <2>1, <2>2, <2>4 DEF ArtifactRows
  <2>6. artifacts' \in [Artifacts -> {Unborn, Deleted} \cup ArtifactRows]
    <3>1. artifacts'[i] \in ArtifactRows
      BY <2>1, <2>2, <2>3, <2>5 DEF ArtifactRows
    <3> QED BY <1>4, <2>4, <3>1 DEF Inv, TypeOK
  <2>7. Live(artifacts') = Live(artifacts)
    BY <2>1, <2>4, <2>5, <2>6 DEF Live, Inv, TypeOK
  <2>8. \A j \in Live(artifacts) \ {i} : artifacts'[j] = artifacts[j]
    BY <2>4 DEF Live, Inv, TypeOK
  <2>9. Kept(artifacts, artifacts')
    BY <2>1, <2>4, <2>5 DEF Kept, Live
  <2>10. \A j \in Live(artifacts) \ {i} :
           ~ (artifacts[j].project = q.project /\ artifacts[j].name = name(q.name))
    <3>1. CASE renamed
      BY <1>4, <3>1 DEF WithName, name
    <3>2. CASE ~renamed
      BY <2>1, <3>2 DEF Inv, Consistent, name
    <3> QED BY <3>1, <3>2
  <2>11. Consistent'
    <3>1. \A j \in Live(artifacts') : artifacts'[j].project \in Live(projects')
      BY <1>4, <2>1, <2>5, <2>7, <2>8 DEF Inv, Consistent
    <3>2. ASSUME NEW j \in Live(artifacts'), NEW n \in Live(artifacts'),
                 artifacts'[j].project = artifacts'[n].project,
                 artifacts'[j].name = artifacts'[n].name
          PROVE  j = n
      <4>1. CASE j # i /\ n # i
        BY <2>7, <2>8, <3>2, <4>1 DEF Inv, Consistent
      <4>2. CASE j = i /\ n # i
        BY <2>5, <2>7, <2>8, <2>10, <3>2, <4>2
      <4>3. CASE j # i /\ n = i
        BY <2>5, <2>7, <2>8, <2>10, <3>2, <4>3
      <4> QED BY <4>1, <4>2, <4>3
    <3>3. projects' = projects /\ Live(projects') = Live(projects)
      BY <1>4
    <3>4. \A o, n \in Live(projects') : projects'[o].slug = projects'[n].slug => o = n
      BY <3>3 DEF Inv, Consistent
    <3>5. \A l \in links' : {l[1], l[2]} \subseteq Live(artifacts')
      BY <1>4, <2>7 DEF Inv, Consistent
    <3> QED BY <3>1, <3>2, <3>4, <3>5 DEF Consistent
  <2>12. RequestStaysInProject'
    BY <1>1, <1>4, <2>5, AnswerInProject
  <2>13. i \in 0 .. MaxArtifacts \cup 0 .. MaxProjects
    BY <2>1, BoundAssumption DEF Artifacts
  <2> QED BY <1>2, <1>4, <2>6, <2>9, <2>11, <2>12, <2>13, ReplyKeeps DEF Inv, TypeOK
<1> QED BY <1>3, <1>4 DEF WriteArtifact

(* A link gets both its ends, which are still what they were read as.      *)
LEMMA InsertLinkKeeps ==
  ASSUME Inv, NEW k \in Clients, InsertLink(k)
  PROVE  Inv'
PROOF
<1> DEFINE q == request[k].params
           link == <<q.id, q.target>>
<1>1. request[k].step = "write" /\ q.op \in Linking
  BY DEF InsertLink, Writing, Linking
<1>2. /\ request[k] # Idle /\ q \in ParamsOK /\ RequestOK(artifacts, "write", q)
  BY <1>1, InFlight
<1>3. CASE Refuse(k, "internal")
  BY <1>2, <1>3, ErrorKeeps
<1>4. CASE Continue(k, "reread", q)
  <2>1. RequestOK(artifacts, "reread", q)
    BY <1>1, <1>2 DEF RequestOK, Reaches, HasRead
  <2> QED BY <1>2, <1>4, <2>1, ContinueKeeps DEF Steps
<1>5. CASE /\ {q.id, q.target} \subseteq Live(artifacts) /\ links' = links \cup {link}
           /\ Reply(k, "ok", q.id) /\ UNCHANGED <<projects, artifacts>>
  <2>1. {q.id, q.target} \subseteq Artifacts
    BY <1>5 DEF Live, Inv, TypeOK
  <2>2. links' \subseteq Artifacts \X Artifacts
    BY <1>5, <2>1 DEF Inv, TypeOK
  <2>3. Consistent'
    <3>1. \A l \in links' : {l[1], l[2]} \subseteq Live(artifacts')
      BY <1>5 DEF Inv, Consistent
    <3> QED BY <1>5, <3>1 DEF Inv, Consistent, Live
  <2>4. RequestStaysInProject'
    BY <1>1, <1>5, LinkInProject
  <2>5. q.id \in 0 .. MaxArtifacts \cup 0 .. MaxProjects
    BY <2>1, BoundAssumption DEF Artifacts
  <2> QED BY <1>2, <1>5, <2>2, <2>3, <2>4, <2>5, UnchangedKept, ReplyKeeps DEF Inv, TypeOK
<1> QED BY <1>3, <1>4, <1>5 DEF InsertLink

(* A link that is there has both its ends.                                 *)
LEMMA RereadLinkKeeps ==
  ASSUME Inv, NEW k \in Clients, RereadLink(k)
  PROVE  Inv'
PROOF
<1> DEFINE q == request[k].params
<1>1. request[k].step = "reread"
  BY DEF RereadLink
<1>2. /\ request[k] # Idle /\ q \in ParamsOK /\ RequestOK(artifacts, "reread", q)
  BY <1>1, InFlight
<1>3. CASE <<q.id, q.target>> \notin links
  BY <1>2, <1>3, ErrorKeeps DEF RereadLink
<1>4. CASE <<q.id, q.target>> \in links
  <2>1. Refuse(k, "ok")
    BY <1>4 DEF RereadLink
  <2>2. Reply(k, "ok", 0) /\ UNCHANGED artifacts
    BY <2>1 DEF Refuse, tables
  <2>3. {q.id, q.target} \subseteq Live(artifacts)
    BY <1>4 DEF Inv, Consistent
  <2>4. q.op \in Linking
    BY <1>2 DEF RequestOK, Reaches
  <2>5. RequestStaysInProject'
    BY <1>1, <2>2, <2>3, <2>4, LinkInProject
  <2> QED BY <1>2, <2>1, <2>5, RefuseKeeps
<1> QED BY <1>3, <1>4

----------------------------------------------------------------------------
(* The tables that earlier requests have left are consistent, and nobody   *)
(* has read anything yet.                                                  *)
LEMMA InitHolds == Init => Inv
PROOF
<1> SUFFICES ASSUME Init PROVE Inv
  OBVIOUS
<1>1. projects \in [Projects -> ProjectRows \cup {Unborn}]
      /\ artifacts \in [Artifacts -> ArtifactRows \cup {Unborn}]
  BY DEF Init, Filled
<1>2. links \subseteq Artifacts \X Artifacts
  BY <1>1 DEF Init, Live
<1>3. request = [k \in Clients |-> Idle] /\ answer = NoAnswer /\ requests = 0 /\ Consistent
  BY DEF Init
<1>4. TypeOK
  BY <1>1, <1>2, <1>3, NoAnswerOK, BoundAssumption DEF TypeOK, NoAnswerTyped
<1>5. RequestInv
  BY <1>3 DEF RequestInv
<1>6. RequestStaysInProject
  BY <1>3 DEF NoAnswer, Answer, RequestStaysInProject, Answered
<1> QED BY <1>3, <1>4, <1>5, <1>6 DEF Inv

(* Nothing but the steps of requests touches the tables.                   *)
LEMMA NextKeeps == Inv /\ [Next]_vars => Inv'
PROOF
<1> SUFFICES ASSUME Inv, [Next]_vars PROVE Inv'
  OBVIOUS
<1>1. CASE UNCHANGED vars
  BY <1>1 DEF Inv, vars, TypeOK, Consistent, Live, RequestInv, RequestOK, Reaches, Given,
              HasRead, Known, RequestStaysInProject, Answered
<1>2. ASSUME NEW k \in Clients, Requests(k) PROVE Inv'
  BY <1>2, RequestsKeep
<1>3. ASSUME NEW k \in Clients, Step(k) PROVE Inv'
  BY <1>3, LookUpProjectKeeps, CheckSlugKeeps, FetchArtifactKeeps, CheckNameKeeps,
     FetchEndsKeeps, InsertProjectKeeps, WriteProjectKeeps, RemoveProjectKeeps,
     InsertArtifactKeeps, WriteArtifactKeeps, RemoveArtifactKeeps, InsertLinkKeeps,
     RereadLinkKeeps
     DEF Step
<1> QED BY <1>1, <1>2, <1>3 DEF Next

(* What requests know of each other's tables is an invariant.              *)
LEMMA Invariance == Spec => []Inv
PROOF BY InitHolds, NextKeeps, PTL DEF Spec

(* The variables keep their types.                                         *)
THEOREM TypeCorrect == Spec => []TypeOK
PROOF
<1>1. Inv => TypeOK
  BY DEF Inv
<1> QED BY <1>1, Invariance, PTL

(* Slugs and names are unique, every artifact has its project and every    *)
(* relationship both its ends: the checks that the requests make, in       *)
(* transactions of their own, are not what this rests on.                  *)
THEOREM CatalogStaysSound == Spec => []CatalogIsSound
PROOF
<1>1. Inv => CatalogIsSound
  BY DEF Inv, CatalogIsSound
<1> QED BY <1>1, Invariance, PTL

(* Whatever is renamed, deleted or created while a request is under way,   *)
(* it writes in the project it was addressed to, and a relationship made   *)
(* by name connects artifacts of one project.                              *)
THEOREM StaysInProject == Spec => []RequestStaysInProject
PROOF
<1>1. Inv => RequestStaysInProject
  BY DEF Inv
<1> QED BY <1>1, Invariance, PTL

============================================================================
