--------------------------- MODULE OpenSpecImport ---------------------------
(***************************************************************************)
(* The import of a directory of OpenSpec documents into a project, by the  *)
(* command `import openspec' and the tool openspec_import. An import finds *)
(* the files, reads once which of them have an artifact already, and goes  *)
(* through them one by one, each in a transaction of its own; at the end   *)
(* it links what it has stored, again one by one. Meanwhile other imports  *)
(* of the same files run, and people create, rename and delete artifacts.  *)
(*                                                                         *)
(* A name is the sequence of its words, which the code joins by hyphens.   *)
(* The contents of the files travel unread.                                *)
(***************************************************************************)
EXTENDS Naturals, Sequences, SequencesExt, FiniteSets, FiniteSetsExt

CONSTANTS Importers,
          Changes,      \* directories under openspec/changes: a sequence of
                        \* [name, documents (a set of types), specs]
          GlobalSpecs,  \* openspec/specs; a specification file is
                        \* [place, capability]
          UserNames,    \* names that people give to artifacts
          NoChange,     \* change_name of a global spec; no --change option
          NoFile,       \* source_path of an artifact that no import has made
          MaxArtifacts, \* bounds of the model: artifacts and imports ever made,
          MaxImports,   \* edits by people and failures
          MaxEvents

ASSUME BoundAssumption == {MaxArtifacts, MaxImports, MaxEvents} \subseteq Nat
ASSUME DirectoryAssumption ==
  /\ Changes \in Seq(ToSet(Changes))
  /\ \A i \in DOMAIN Changes : /\ Changes[i].name # NoChange
                               /\ Changes[i].specs \in Seq(ToSet(Changes[i].specs))
  /\ GlobalSpecs \in Seq(ToSet(GlobalSpecs))

VARIABLES artifacts,  \* table artifacts: id -> name and metadata.source_path
          links,      \* relationships of type depends_on: <<source, target>>
          import,     \* the imports under way
          imports,    \* imports so far
          events,     \* edits and failures so far
          crossed     \* history: has a name been given up during an import?

vars == <<artifacts, links, import, imports, events, crossed>>

----------------------------------------------------------------------------
(* Discovery                                                               *)

File(path, type, name, change) ==
  [path |-> path, type |-> type, name |-> name, change |-> change]

\* The elements of s that are in S, in their order
Among(s, S) ==
  FlattenSeq([i \in DOMAIN s |-> IF s[i] \in S THEN <<s[i]>> ELSE << >>])

\* _discover_change_artifacts, for one directory
ChangeFiles(c) ==
  LET present == Among(<<"proposal", "design", "task">>, c.documents)
  IN [i \in DOMAIN present |->
        File(<<c.name, present[i]>>, present[i], c.name \o <<present[i]>>, c.name)]
     \o [i \in DOMAIN c.specs |->
        File(<<c.name, c.specs[i].place>>, "spec",
             c.name \o c.specs[i].capability \o <<"spec">>, c.name)]

\* _discover_global_specs
GlobalFiles == [i \in DOMAIN GlobalSpecs |->
  File(<<NoChange, GlobalSpecs[i].place>>, "spec",
       GlobalSpecs[i].capability \o <<"spec">>, NoChange)]

\* The files of an import that may be restricted to one change
Discovered(only) ==
  FlattenSeq([i \in DOMAIN Changes |->
    IF only \in {NoChange, Changes[i].name} THEN ChangeFiles(Changes[i]) ELSE << >>])
  \o (IF only = NoChange THEN GlobalFiles ELSE << >>)

Scopes == {NoChange} \cup {Changes[i].name : i \in DOMAIN Changes}
FilesOf == [only \in Scopes |-> Discovered(only)]

AllFiles == ToSet(Discovered(NoChange))
Paths == {f.path : f \in AllFiles}
Names == {f.name : f \in AllFiles} \cup UserNames

\* A path is that of one file, and the artifacts of people have none.
ASSUME PathAssumption == /\ \A f, g \in AllFiles : f.path = g.path => f = g
                         /\ NoFile \notin Paths

----------------------------------------------------------------------------
(* The tables                                                              *)

Ids == 1 .. MaxArtifacts
Unborn == [state |-> "unborn"]
Deleted == [state |-> "deleted"]
Artifact(name, path) == [state |-> "live", name |-> name, path |-> path]

Live == {i \in Ids : artifacts[i].state = "live"}
Named(name) == {i \in Live : artifacts[i].name = name}
From(path) == {i \in Live : artifacts[i].path = path}

\* INSERT, which UNIQUE (project_id, name) lets happen only for a free name
Insert(i, name, path) ==
  /\ Named(name) = {}
  /\ artifacts[i] = Unborn /\ \A j \in Ids : j < i => artifacts[j] # Unborn
  /\ artifacts' = [artifacts EXCEPT ![i] = Artifact(name, path)]

Idle == [at |-> "idle"]
Running == {k \in Importers : import[k] # Idle}

Init == /\ artifacts = [i \in Ids |-> Unborn]
        /\ links = {}
        /\ import = [k \in Importers |-> Idle]
        /\ imports = 0
        /\ events = 0
        /\ crossed = FALSE

----------------------------------------------------------------------------
(* An import                                                               *)

\* _build_existing_index: of several artifacts of one file it keeps one
Index(latest) ==
  [p \in Paths |-> IF From(p) = {} THEN 0
                   ELSE IF latest THEN Max(From(p)) ELSE Min(From(p))]

\* `name' is what the index knows an artifact by. `stored' is `upserted':
\* the artifact of each file handled so far; `failed', the files reported.
Begin(k, only, force) ==
  /\ import[k] = Idle
  /\ imports < MaxImports
  /\ FilesOf[only] # << >>
  /\ \E latest \in BOOLEAN : LET index == Index(latest) IN
       import' = [import EXCEPT ![k] =
         [at |-> "files", only |-> only, force |-> force, next |-> 1,
          index |-> index,
          name |-> [p \in Paths |-> IF index[p] = 0 THEN << >> ELSE artifacts[index[p]].name],
          stored |-> [p \in Paths |-> 0], failed |-> {}]]
  /\ imports' = imports + 1
  /\ UNCHANGED <<artifacts, links, events, crossed>>

Current(k) == FilesOf[import[k].only][import[k].next]

AtFile(k) == /\ import[k].at = "files"
             /\ import[k].next <= Len(FilesOf[import[k].only])

\* The file is done with; artifact i (0: none) is what it is linked by.
Advance(k, i) ==
  /\ import' = [import EXCEPT ![k].next = @ + 1, ![k].stored[Current(k).path] = i]
  /\ UNCHANGED <<imports, crossed>>

Fail(k) ==
  /\ import' = [import EXCEPT ![k].next = @ + 1, ![k].failed = @ \cup {Current(k).path}]
  /\ UNCHANGED <<imports, crossed>>

Event == events < MaxEvents /\ events' = events + 1

IsKnown(k) == import[k].index[Current(k).path] # 0

\* Variant, a plausible mistake: only what has been written is linked.
SkipUnlinked(k) ==
  /\ AtFile(k)
  /\ IsKnown(k) /\ ~import[k].force
  /\ Advance(k, 0)
  /\ UNCHANGED <<artifacts, links, events>>

Skip(k) ==
  /\ AtFile(k)
  /\ IsKnown(k) /\ ~import[k].force
  /\ Advance(k, import[k].index[Current(k).path])
  /\ UNCHANGED <<artifacts, links, events>>

\* Variant, a plausible mistake: the artifact is addressed by the name that
\* the file would give it.
RewriteByFileName(k) ==
  /\ AtFile(k)
  /\ IsKnown(k) /\ import[k].force
  /\ \/ Named(Current(k).name) = {} /\ Advance(k, 0) /\ UNCHANGED artifacts
     \/ \E i \in Named(Current(k).name) :
          /\ artifacts' = [artifacts EXCEPT ![i].path = Current(k).path]
          /\ Advance(k, i)
  /\ UNCHANGED <<links, events>>

\* Variant, a plausible mistake: the name is stored as the source path.
RewriteNameAsPath(k) ==
  /\ AtFile(k)
  /\ IsKnown(k) /\ import[k].force
  /\ \E i \in Named(import[k].name[Current(k).path]) :
       /\ artifacts' = [artifacts EXCEPT ![i].path = Current(k).name]
       /\ Advance(k, i)
  /\ UNCHANGED <<links, events>>

\* update_artifact, by the name that the index has; None counts as imported.
Rewrite(k) ==
  /\ AtFile(k)
  /\ IsKnown(k) /\ import[k].force
  /\ LET found == Named(import[k].name[Current(k).path])
     IN \/ found = {} /\ Advance(k, 0) /\ UNCHANGED artifacts
        \/ \E i \in found :
             /\ artifacts' = [artifacts EXCEPT ![i].path = Current(k).path]
             /\ Advance(k, i)
  /\ UNCHANGED <<links, events>>

\* create_artifact; a name that is taken is a failure.
Create(k) ==
  /\ AtFile(k)
  /\ ~IsKnown(k)
  /\ LET name == Current(k).name
     IN \/ Named(name) # {} /\ Fail(k) /\ UNCHANGED artifacts
        \/ \E i \in Ids : Insert(i, name, Current(k).path) /\ Advance(k, i)
  /\ UNCHANGED <<links, events>>

\* The file cannot be read, or the database fails: the import goes on with
\* the next file.
FailFile(k) ==
  /\ AtFile(k)
  /\ Event
  /\ Fail(k)
  /\ UNCHANGED <<artifacts, links>>

OfType(files, type) == Among(files, {f \in ToSet(files) : f.type = type})

Pairs(sources, targets) ==
  FlattenSeq([i \in DOMAIN sources |-> [j \in DOMAIN targets |-> <<sources[i], targets[j]>>]])

\* _create_relationships, for the files of one change that were stored
Plan(files) ==
  Pairs(OfType(files, "spec"), OfType(files, "proposal"))
    \o Pairs(OfType(files, "design"), OfType(files, "proposal"))
    \o Pairs(OfType(files, "task"), OfType(files, "spec") \o OfType(files, "design"))

\* The changes in the order in which their first stored file was found;
\* global specs are a group that has only specs, and so no links.
LinkPlan(only, stored) ==
  FlattenSeq([i \in DOMAIN Changes |->
    Plan(Among(FilesOf[only],
               {f \in AllFiles : f.change = Changes[i].name /\ stored[f.path] # 0}))])

BeginLinks(k) ==
  /\ import[k].at = "files"
  /\ ~AtFile(k)
  /\ import' = [import EXCEPT ![k] =
       [at |-> "links", only |-> @.only, stored |-> @.stored, failed |-> @.failed,
        plan |-> LinkPlan(@.only, @.stored)]]
  /\ UNCHANGED <<artifacts, links, imports, events, crossed>>

AtLink(k) == import[k].at = "links" /\ import[k].plan # << >>

NextLink(k) == LET pair == Head(import[k].plan)
               IN <<import[k].stored[pair[1].path], import[k].stored[pair[2].path]>>

Link(k) ==
  /\ AtLink(k)
  /\ ToSet(NextLink(k)) \subseteq Live
  /\ links' = links \cup {NextLink(k)}
  /\ import' = [import EXCEPT ![k].plan = Tail(@)]
  /\ UNCHANGED <<artifacts, imports, events, crossed>>

\* Everything that can be linked is linked: the result is returned.
IsComplete(k) == import[k].at = "links" /\ import[k].plan = << >>

\* The result is returned; or the import ends early: an artifact to be linked
\* has gone, the database fails, the process dies. What is done stays done.
End(k) ==
  /\ import[k] # Idle
  /\ import' = [import EXCEPT ![k] = Idle]
  /\ UNCHANGED <<artifacts, links, imports, events, crossed>>

----------------------------------------------------------------------------
(* What people do meanwhile                                                *)

Edit == Event /\ UNCHANGED <<import, imports>>

GiveUpName == crossed' = (crossed \/ Running # {})

UserCreate(name) ==
  /\ Edit
  /\ \E i \in Ids : Insert(i, name, NoFile)
  /\ UNCHANGED <<links, crossed>>

UserRename(i, name) ==
  /\ Edit
  /\ i \in Live /\ Named(name) = {}
  /\ artifacts' = [artifacts EXCEPT ![i].name = name]
  /\ GiveUpName
  /\ UNCHANGED links

UserDelete(i) ==
  /\ Edit
  /\ i \in Live
  /\ artifacts' = [artifacts EXCEPT ![i] = Deleted]
  /\ links' = {l \in links : i \notin ToSet(l)}
  /\ GiveUpName

Next ==
  \/ \E k \in Importers :
       \/ \E only \in Scopes, force \in BOOLEAN : Begin(k, only, force)
       \/ Skip(k) \/ Rewrite(k) \/ Create(k) \/ FailFile(k)
       \/ BeginLinks(k) \/ Link(k) \/ End(k)
  \/ \E name \in UserNames : UserCreate(name)
  \/ \E i \in Ids : UserDelete(i) \/ \E name \in UserNames : UserRename(i, name)

Spec == Init /\ [][Next]_vars

TypeOK ==
  /\ artifacts \in [Ids -> {Unborn, Deleted}
                          \cup [state : {"live"}, name : Names, path : Paths \cup {NoFile}]]
  /\ links \subseteq Ids \X Ids
  /\ \A k \in Running :
       /\ import[k].at \in {"files", "links"} /\ import[k].only \in Scopes
       /\ import[k].stored \in [Paths -> Ids \cup {0}] /\ import[k].failed \subseteq Paths
       /\ import[k].at = "files" =>
            /\ import[k].index \in [Paths -> Ids \cup {0}]
            /\ import[k].name \in [Paths -> Names \cup {<< >>}]
            /\ import[k].next \in 1 .. Len(FilesOf[import[k].only]) + 1
       /\ import[k].at = "links" => ToSet(import[k].plan) \subseteq AllFiles \X AllFiles
  /\ imports \in 0 .. MaxImports /\ events \in 0 .. MaxEvents
  /\ crossed \in BOOLEAN

----------------------------------------------------------------------------
\* The order in which OpenSpec has the documents of a change written
DependsOn(f, g) ==
  /\ f.change = g.change /\ f.change # NoChange
  /\ <<f.type, g.type>> \in {<<"spec", "proposal">>, <<"design", "proposal">>,
                             <<"task", "spec">>, <<"task", "design">>}

(* When an import is through, whatever earlier ones have left undone and   *)
(* whatever happens beside it, the artifacts it has in hand are linked as  *)
(* their documents depend on each other, as far as they are still there.   *)
(* And unless a name was given up during an import, each file that is not  *)
(* reported as failed has one artifact, however often and by how many      *)
(* processes it was imported; these are linked as the documents depend on  *)
(* each other, and nothing else is linked.                                 *)
ImportIsComplete ==
  \A k \in Importers : IsComplete(k) =>
    LET files == ToSet(FilesOf[import[k].only])
        stored == import[k].stored
        done == {f \in files : f.path \notin import[k].failed}
    IN /\ \A f, g \in files :
            DependsOn(f, g) /\ {stored[f.path], stored[g.path]} \subseteq Live
              => <<stored[f.path], stored[g.path]>> \in links
       /\ ~crossed =>
            /\ \A f \in done : Cardinality(From(f.path)) = 1
            /\ \A f, g \in done : DependsOn(f, g) => From(f.path) \X From(g.path) \subseteq links
            /\ \A l \in links : \E f, g \in AllFiles :
                 DependsOn(f, g) /\ l \in From(f.path) \X From(g.path)

(* No import writes a file over an artifact that is not of this file, even *)
(* if the file's own has been renamed and its name given to another one    *)
(* since; unless that happens during an import.                            *)
NothingTakenOver ==
  [][\A i \in Live \cap Live' : artifacts'[i].path # artifacts[i].path => crossed]_vars
============================================================================
