------------------------------- MODULE Projects -------------------------------
(***************************************************************************)
(* The registry of projects and what is kept of it on the host             *)
(* (server/projects.ts): a registry in memory that every operation changes *)
(* first and writes afterwards, undoing the change by hand when the write  *)
(* fails, and one queue of whole-file writes whose content is fixed when a *)
(* write is asked for.  A checkpoint of a stage is the number of changes   *)
(* it contains.                                                            *)
(***************************************************************************)
EXTENDS Naturals, FiniteSets, SequencesExt

CONSTANTS
  Project,      \* the ids projects are given
  Default,      \* the project in slot 0
  Name,
  NoFile,       \* projects.json does not exist
  MaxProjects,  \* 12
  MaxVersion,   \* bound: the changes of a stage that are counted
  MaxWrites     \* bound: the writes that may wait when a timer asks for one more

ASSUME ProjectAssumption ==
  Default \in Project /\ MaxProjects \in Nat \ {0} /\ MaxVersion \in Nat /\ Name # {}

VARIABLES
  registry,  \* this.registry
  file,      \* projects.json
  stages,    \* the checkpoint in each stage.json, 0 for none
  writes     \* this.writes: the writes that are asked for and not done

registryVars == <<registry, file, stages, writes>>

FirstName == CHOOSE n \in Name : TRUE

Initial == [active |-> Default,
            projects |-> <<[id |-> Default, name |-> FirstName, slot |-> 0]>>]

Ids(r) == {r.projects[i].id : i \in DOMAIN r.projects}

IndexOf(p) == CHOOSE i \in DOMAIN registry.projects : registry.projects[i].id = p

\* registrySchema: what init() accepts of a file.
ValidRegistry(r) ==
  /\ Len(r.projects) \in 1..MaxProjects
  /\ r.active \in Ids(r)
  /\ \A i, j \in DOMAIN r.projects :
       i # j => /\ r.projects[i].id # r.projects[j].id
                /\ r.projects[i].slot # r.projects[j].slot
  /\ \A i \in DOMAIN r.projects : (r.projects[i].id = Default) <=> (r.projects[i].slot = 0)

-------------------------------------------------------------------------------
(* atomic(): a write is its file, its content and who awaits it. *)

Enqueue(document, content, waiter) ==
  writes' = Append(writes, [document |-> document, content |-> content, waiter |-> waiter])

Persist(r, waiter) == registry' = r /\ Enqueue("registry", r, waiter)

Save(p, version, waiter) == Enqueue(p, version, waiter)

RegistryWrites == {i \in DOMAIN writes : writes[i].document = "registry"}

\* mutant: writes are not queued behind each other.
NextWriteAnyOrder == DOMAIN writes

\* The writes that may be under way.
NextWrite == DOMAIN writes \cap {1}

\* The temporary file of write i is renamed.
Written(i) ==
  /\ writes' = RemoveAt(writes, i)
  /\ IF writes[i].document = "registry"
       THEN file' = writes[i].content /\ UNCHANGED stages
       ELSE stages' = [stages EXCEPT ![writes[i].document] = writes[i].content] /\ UNCHANGED file

NotWritten(i) == writes' = RemoveAt(writes, i) /\ UNCHANGED <<file, stages>>

-------------------------------------------------------------------------------
(* create(), activate() and rename(), up to the await of their write, and  *)
(* what each of them does when it fails.  An undo is what the operation    *)
(* remembers for that.                                                     *)

NoUndo == [active |-> Default, index |-> 0, name |-> FirstName]

NameFree(n, others) == \A i \in others : registry.projects[i].name # n

CanCreate(n) ==
  Len(registry.projects) < MaxProjects /\ NameFree(n, DOMAIN registry.projects)

Create(p, n, waiter) ==
  /\ CanCreate(n)
  /\ Persist([registry EXCEPT !.projects =
                Append(@, [id |-> p, name |-> n, slot |-> Len(@)])], waiter)

Activate(p, waiter) == Persist([registry EXCEPT !.active = p], waiter)

Rename(p, n, waiter) ==
  /\ NameFree(n, DOMAIN registry.projects \ {IndexOf(p)})
  /\ Persist([registry EXCEPT !.projects[IndexOf(p)].name = n], waiter)

\* mutant: a failed activation is not undone.
UndoneButActive(kind, undo) ==
  CASE kind = "create" -> [registry EXCEPT !.projects = Front(@)]
    [] kind = "select" -> registry
    [] kind = "rename" -> [registry EXCEPT !.projects[undo.index].name = undo.name]

Undone(kind, undo) ==
  CASE kind = "create" -> [registry EXCEPT !.projects = Front(@)]
    [] kind = "select" -> [registry EXCEPT !.active = undo.active]
    [] kind = "rename" -> [registry EXCEPT !.projects[undo.index].name = undo.name]

===============================================================================
