--------------------------- MODULE ProjectSwitchProofs ---------------------------
(***************************************************************************)
(* Theorems about the server over its projects, for any number of          *)
(* projects, names, sessions and requests.                                 *)
(***************************************************************************)
EXTENDS ProjectSwitch, SequenceTheorems, TLAPS

Entry == [id : Project, name : Name, slot : Nat]
Registry == [active : Project, projects : Seq(Entry)]
Administers == {"create", "select", "rename"}

Write ==
  [document : {"registry"}, content : Registry, waiter : Request \cup {"init"}]
    \cup [document : Project, content : 0..MaxVersion, waiter : {"timer", "shutdown"}]

\* What create(), activate() and rename() make of a registry when their write fails.
UndoneOf(r, kind, undo) ==
  CASE kind = "create" -> [r EXCEPT !.projects = Front(@)]
    [] kind = "select" -> [r EXCEPT !.active = undo.active]
    [] kind = "rename" -> [r EXCEPT !.projects[undo.index].name = undo.name]

\* What the state is made of, the queue included.
DataTypeOK ==
  /\ SwitchTypeOK
  /\ writes \in Seq(Write)

\* The writes that wait, those of the registry among them.
Queued == {writes[i] : i \in DOMAIN writes}
RegistryQueued == {w \in Queued : w.document = "registry"}
StageQueued == Queued \ RegistryQueued

\* A registry that init() accepts, with every project in the slot of its place and a name
\* of its own.
RegistryOK(r) ==
  /\ r \in Registry
  /\ ValidRegistry(r)
  /\ \A i \in DOMAIN r.projects : r.projects[i].slot = i - 1
  /\ \A i, j \in DOMAIN r.projects : r.projects[i].name = r.projects[j].name => i = j

RegistriesOK ==
  /\ RegistryOK(registry)
  /\ file # NoFile \/ up \in {"opening", "up", "stopping"} => RegistryOK(file)
  /\ \A w \in RegistryQueued : RegistryOK(w.content)

\* A process that does not serve has neither visitors nor requests, and at most the first
\* write of the registry.
QuietOutside ==
  ~Serving =>
    /\ sessions = {} /\ timer = {} /\ floor = {} /\ entered = {} /\ job = {}
    /\ \A r \in Request : request[r] = Idle
    /\ up # "init" => writes = <<>>
    /\ up = "init" =>
         /\ registry = Initial
         /\ writes = <<[document |-> "registry", content |-> Initial, waiter |-> "init"]>>
    /\ up # "opening" => opened = {} /\ opening = {}
    /\ up = "opening" => file = registry /\ activeId = registry.active

\* A request is idle, an action, or the one of the administrator.
RequestsApart ==
  \A r \in Request :
    /\ request[r].kind = "idle" => request[r] = Idle
    /\ request[r].at = "open" => request[r].kind \in {"create", "select"}
    /\ request[r].at = "persist" => request[r].kind \in Administers
    /\ request[r].kind = "select" /\ request[r].at = "open" => request[r].project \in Ids(registry)
    /\ request[r].kind \in Administers =>
         /\ request[r].at # "-"
         /\ switching
         /\ \A q \in Request \ {r} : request[q].kind \notin Administers

\* While the registry is written for a request, the file is what undoing the request gives.
FileIsUndone ==
  Serving =>
    /\ \A w \in RegistryQueued :
         /\ w.waiter \in Request
         /\ request[w.waiter].at = "persist"
         /\ w.content = registry
    /\ \A i, j \in RegistryWrites : i = j
    /\ \A r \in Request : request[r].at = "persist" =>
         /\ \E w \in RegistryQueued : w.waiter = r
         /\ file = UndoneOf(registry, request[r].kind, request[r].undo)
         /\ activeId = file.active
         /\ registry.active = IF request[r].kind = "select" THEN request[r].project ELSE activeId
    /\ (\A r \in Request : request[r].at # "persist") => file = registry /\ activeId = registry.active

\* The selected project is open, and so is the one that is about to be.
SelectedIsOpen ==
  /\ up = "opening" => Ids(registry) \subseteq opening \cup opened
  /\ Serving => activeId \in opened
  /\ \A r \in Request :
       request[r].kind = "select" /\ request[r].at = "persist" => request[r].project \in opened

\* A switch begins when nothing is under way, and nothing begins before it ends.
SwitchIsAlone ==
  \A r \in Request : request[r].kind = "select" =>
    floor = {} /\ \A q \in Request : request[q].kind # "action"

QueueInOrder ==
  \A i, j \in DOMAIN writes \ RegistryWrites :
    i < j /\ writes[i].document = writes[j].document => writes[i].content <= writes[j].content

\* The checkpoints of a stage wait in their order, behind the one on disk.
CheckpointsInOrder ==
  /\ opening \cap opened = {}
  /\ \A p \in opened : stages[p] <= stage[p]
  /\ \A w \in StageQueued :
       /\ w.document \in opened
       /\ stages[w.document] <= w.content /\ w.content <= stage[w.document]
  /\ QueueInOrder

\* What shutdown() must save is on the stage, in the queue or on disk.
ShutdownUnderWay ==
  /\ up # "stopping" =>
       /\ \A p \in Project : shutdown[p] = "-"
       /\ \A w \in Queued : w.waiter # "shutdown"
  /\ up \in {"stopping", "exited"} =>
       /\ \A w \in Queued : w.waiter = "shutdown" => due[w.document] <= w.content
       /\ \A p \in Project :
            /\ shutdown[p] = "-" => due[p] <= stages[p]
            /\ shutdown[p] = "stop" => p \in opened /\ due[p] <= stage[p]

SwitchIInv ==
  /\ DataTypeOK /\ RegistriesOK /\ QuietOutside /\ RequestsApart /\ FileIsUndone
  /\ SelectedIsOpen /\ OnlySelectedWorks /\ SwitchIsAlone /\ EveryoneJoined
  /\ CheckpointsInOrder /\ ShutdownUnderWay

-------------------------------------------------------------------------------

\* A write that joins the queue.
Grows(w) ==
  /\ writes' \in Seq(Write)
  /\ w \in Write /\ w \in Queued' /\ Queued' = Queued \cup {w}
  /\ w.document = "registry" =>
       RegistryQueued' = RegistryQueued \cup {w} /\ StageQueued' = StageQueued
  /\ w.document # "registry" =>
       RegistryQueued' = RegistryQueued /\ StageQueued' = StageQueued \cup {w}
  /\ (\A i, j \in RegistryWrites : i = j) /\ (RegistryQueued = {} \/ w.document # "registry")
       => \A i, j \in RegistryWrites' : i = j

\* The write in front that leaves it.
Shrinks ==
  /\ writes' \in Seq(Write)
  /\ writes[1] \in Queued /\ Queued' \subseteq Queued /\ Queued \subseteq Queued' \cup {writes[1]}
  /\ RegistryQueued' \subseteq RegistryQueued /\ StageQueued' \subseteq StageQueued
  /\ writes[1].document # "registry" => RegistryQueued' = RegistryQueued
  /\ (\A i, j \in RegistryWrites : i = j) =>
       /\ \A i, j \in RegistryWrites' : i = j
       /\ writes[1].document = "registry" => RegistryQueued' = {}

LEMMA UndoneIs == \A k, u : Undone(k, u) = UndoneOf(registry, k, u)
  BY DEF Undone, UndoneOf

LEMMA QueueShrinks ==
  ASSUME NEW S, NEW q \in Seq(S), 1 \in DOMAIN q
  PROVE  /\ RemoveAt(q, 1) \in Seq(S)
         /\ Len(RemoveAt(q, 1)) = Len(q) - 1
         /\ \A i \in 1..(Len(q) - 1) : RemoveAt(q, 1)[i] = q[i + 1]
<1>1. SubSeq(q, 1, 1 - 1) = <<>>
  BY SubSeqEmpty
<1>2. RemoveAt(q, 1) = <<>> \o SubSeq(q, 2, Len(q))
  BY <1>1 DEF RemoveAt
<1>3. Len(q) \in Nat /\ DOMAIN q = 1..Len(q) /\ Len(q) >= 1
  BY LenProperties
<1> DEFINE t == SubSeq(q, 2, Len(q))
<1>4. t \in Seq(S)
  BY <1>3, SubSeqProperties
<1>5. Len(t) = Len(q) - 1
  BY <1>3, SubSeqProperties
<1>6. \A i \in 1..(Len(q) - 1) : t[i] = q[i + 1]
  BY <1>3, SubSeqProperties
<1>7. QED
  BY <1>2, <1>4, <1>5, <1>6, ConcatEmptySeq

LEMMA FrontOfAppend ==
  ASSUME NEW S, NEW q \in Seq(S), NEW e \in S
  PROVE  Front(Append(q, e)) = q
<1> DEFINE t == Append(q, e)
<1>1. t \in Seq(S) /\ Len(t) = Len(q) + 1 /\ Len(q) \in Nat /\ \A i \in 1..Len(q) : t[i] = q[i]
  OBVIOUS
<1>2. Front(t) = SubSeq(t, 1, Len(q))
  BY <1>1 DEF Front
<1> HIDE DEF t
<1>3. Front(t) \in Seq(S) /\ Len(Front(t)) = Len(q) /\ \A i \in 1..Len(q) : Front(t)[i] = q[i]
  BY <1>1, <1>2
<1>4. QED
  BY <1>3, SeqEqual DEF t
LEMMA QueueGrows ==
  ASSUME DataTypeOK, NEW w \in Write, writes' = Append(writes, w)
  PROVE  /\ Grows(w)
         /\ DOMAIN writes' = DOMAIN writes \cup {Len(writes) + 1}
         /\ DOMAIN writes = 1..Len(writes) /\ Len(writes) \in Nat
         /\ writes'[Len(writes) + 1] = w
         /\ \A i \in DOMAIN writes : writes'[i] = writes[i]
<1>1. writes \in Seq(Write)
  BY DEF DataTypeOK
<1>2. /\ writes' \in Seq(Write) /\ DOMAIN writes' = 1..(Len(writes) + 1)
      /\ Len(writes) \in Nat /\ DOMAIN writes = 1..Len(writes)
      /\ writes'[Len(writes) + 1] = w
      /\ \A i \in DOMAIN writes : writes'[i] = writes[i]
  BY <1>1
<1>3. DOMAIN writes' = DOMAIN writes \cup {Len(writes) + 1}
  BY <1>2
<1>4. Queued' = Queued \cup {w}
  BY <1>2, <1>3 DEF Queued
<1>5. /\ w.document = "registry" =>
           RegistryQueued' = RegistryQueued \cup {w} /\ StageQueued' = StageQueued
      /\ w.document # "registry" =>
           RegistryQueued' = RegistryQueued /\ StageQueued' = StageQueued \cup {w}
  BY <1>4 DEF RegistryQueued, StageQueued
<1>6. RegistryQueued = {} => RegistryWrites = {}
  BY DEF RegistryQueued, Queued, RegistryWrites
<1>7. ASSUME \A i, j \in RegistryWrites : i = j, RegistryQueued = {} \/ w.document # "registry"
      PROVE  \A i, j \in RegistryWrites' : i = j
  BY <1>2, <1>3, <1>6, <1>7 DEF RegistryWrites
<1>8. QED
  BY <1>2, <1>3, <1>4, <1>5, <1>7 DEF Grows

LEMMA QueueShortens ==
  ASSUME DataTypeOK, 1 \in DOMAIN writes, writes' = RemoveAt(writes, 1)
  PROVE  /\ Shrinks
         /\ \A i \in DOMAIN writes' :
              i \in Nat /\ i + 1 \in DOMAIN writes /\ i + 1 # 1 /\ writes'[i] = writes[i + 1]
         /\ Len(writes) = 1 => writes' = <<>>
<1>1. writes \in Seq(Write) /\ Len(writes) \in Nat /\ DOMAIN writes = 1..Len(writes)
  BY LenProperties DEF DataTypeOK
<1>2. /\ writes' \in Seq(Write) /\ Len(writes') = Len(writes) - 1
      /\ \A i \in 1..(Len(writes) - 1) : writes'[i] = writes[i + 1]
  BY <1>1, QueueShrinks
<1>3. DOMAIN writes' = 1..(Len(writes) - 1)
  BY <1>2, LenProperties
<1>4. \A i \in DOMAIN writes' :
        i \in Nat /\ i + 1 \in DOMAIN writes /\ i + 1 # 1 /\ writes'[i] = writes[i + 1]
  BY <1>1, <1>2, <1>3
<1>5. \A i \in DOMAIN writes \ {1} :
        i \in Nat /\ i - 1 \in DOMAIN writes' /\ (i - 1) + 1 = i /\ writes'[i - 1] = writes[i]
  <2>1. \A i \in DOMAIN writes \ {1} : i \in Nat /\ i - 1 \in DOMAIN writes' /\ (i - 1) + 1 = i
    BY <1>1, <1>3
  <2>2. QED
    BY <2>1, <1>4
<1>6. writes[1] \in Queued /\ Queued' \subseteq Queued /\ Queued \subseteq Queued' \cup {writes[1]}
  BY <1>4, <1>5 DEF Queued
<1>7. /\ RegistryQueued' \subseteq RegistryQueued /\ StageQueued' \subseteq StageQueued
      /\ writes[1].document # "registry" => RegistryQueued' = RegistryQueued
  BY <1>6 DEF RegistryQueued, StageQueued
<1>8. \A i \in RegistryWrites' : i \in Nat /\ i + 1 \in RegistryWrites /\ i + 1 # 1
  BY <1>4 DEF RegistryWrites
<1>9. ASSUME \A i, j \in RegistryWrites : i = j
      PROVE  /\ \A i, j \in RegistryWrites' : i = j
             /\ writes[1].document = "registry" => RegistryQueued' = {}
  <2>1. \A i, j \in RegistryWrites' : i = j
    BY <1>8, <1>9
  <2>2. ASSUME writes[1].document = "registry"
        PROVE  RegistryWrites' = {}
    BY <1>8, <1>9, <2>2 DEF RegistryWrites
  <2>3. RegistryWrites' = {} => RegistryQueued' = {}
    BY DEF RegistryWrites, RegistryQueued, Queued
  <2>4. QED
    BY <2>1, <2>2, <2>3
<1>10. Len(writes) = 1 => writes' = <<>>
  BY <1>2, EmptySeq
<1>11. QED
  BY <1>2, <1>4, <1>6, <1>7, <1>9, <1>10 DEF Shrinks

LEMMA OrderGrows ==
  ASSUME DataTypeOK, CheckpointsInOrder, NEW w \in Write, writes' = Append(writes, w),
         w.document # "registry" => w.content = stage[w.document]
  PROVE  QueueInOrder'
<1>1. /\ DOMAIN writes' = DOMAIN writes \cup {Len(writes) + 1}
      /\ DOMAIN writes = 1..Len(writes) /\ Len(writes) \in Nat
      /\ writes'[Len(writes) + 1] = w
      /\ \A i \in DOMAIN writes : writes'[i] = writes[i]
  BY QueueGrows
<1> SUFFICES ASSUME NEW i \in DOMAIN writes', NEW j \in DOMAIN writes',
                    writes'[i].document # "registry", writes'[j].document # "registry",
                    i < j, writes'[i].document = writes'[j].document
             PROVE  writes'[i].content <= writes'[j].content
  BY DEF QueueInOrder, RegistryWrites
<1>2. i \in DOMAIN writes /\ writes'[i] = writes[i]
  BY <1>1
<1>3. CASE j \in DOMAIN writes
  BY <1>1, <1>2, <1>3 DEF CheckpointsInOrder, QueueInOrder, RegistryWrites
<1>4. CASE j = Len(writes) + 1
  <2>1. writes[i] \in StageQueued
    BY <1>2 DEF StageQueued, RegistryQueued, Queued
  <2>2. QED
    BY <1>1, <1>2, <1>4, <2>1 DEF CheckpointsInOrder
<1>5. QED
  BY <1>1, <1>3, <1>4

LEMMA OrderShortens ==
  ASSUME DataTypeOK, CheckpointsInOrder, 1 \in DOMAIN writes, writes' = RemoveAt(writes, 1)
  PROVE  /\ QueueInOrder'
         /\ writes[1].document # "registry" =>
              \A w \in StageQueued' : w.document = writes[1].document => writes[1].content <= w.content
<1>1. \A i \in DOMAIN writes' :
        i \in Nat /\ i + 1 \in DOMAIN writes /\ i + 1 # 1 /\ writes'[i] = writes[i + 1]
  BY QueueShortens
<1>2. \A i, j \in DOMAIN writes' : i < j => i + 1 < j + 1
  BY <1>1
<1>3. QueueInOrder'
  BY <1>1, <1>2 DEF CheckpointsInOrder, QueueInOrder, RegistryWrites
<1>4. ASSUME writes[1].document # "registry", NEW w \in StageQueued', w.document = writes[1].document
      PROVE  writes[1].content <= w.content
  <2>1. PICK i \in DOMAIN writes' : w = writes'[i] /\ w.document # "registry"
    BY <1>4 DEF StageQueued, RegistryQueued, Queued
  <2>2. 1 < i + 1 /\ i + 1 \in DOMAIN writes \ RegistryWrites /\ 1 \in DOMAIN writes \ RegistryWrites
    BY <1>1, <1>4, <2>1 DEF RegistryWrites
  <2>3. QED
    BY <1>1, <1>4, <2>1, <2>2 DEF CheckpointsInOrder, QueueInOrder
<1>5. QED
  BY <1>3, <1>4

LEMMA QueuedIs ==
  ASSUME DataTypeOK
  PROVE  /\ \A w \in RegistryQueued :
              w.document = "registry" /\ w.content \in Registry /\ w.waiter \in Request \cup {"init"}
         /\ \A w \in StageQueued :
              /\ w.document \in Project /\ w.document # "registry"
              /\ w.content \in 0..MaxVersion /\ w.waiter \in {"timer", "shutdown"}
         /\ Queued = RegistryQueued \cup StageQueued
<1>1. Queued \subseteq Write
  BY ElementOfSeq, LenProperties DEF DataTypeOK, Queued
<1>2. QED
  BY <1>1, SwitchAssumption DEF Write, RegistryQueued, StageQueued

LEMMA RegistryIs ==
  ASSUME NEW r \in Registry
  PROVE  /\ r.active \in Project
         /\ r.projects \in Seq(Entry) /\ Len(r.projects) \in Nat
         /\ DOMAIN r.projects = 1..Len(r.projects)
         /\ \A i \in DOMAIN r.projects :
              /\ r.projects[i] \in Entry
              /\ r.projects[i].id \in Project /\ r.projects[i].name \in Name
              /\ r.projects[i].slot \in Nat
<1>1. r.active \in Project /\ r.projects \in Seq(Entry)
  BY DEF Registry
<1>2. \A i \in 1..Len(r.projects) : r.projects[i] \in Entry
  BY <1>1, ElementOfSeq
<1>3. QED
  BY <1>1, <1>2, LenProperties DEF Entry

LEMMA CreatedOK ==
  ASSUME RegistryOK(registry), NEW p \in Project, NEW n \in Name, NEW w,
         p \notin Ids(registry), Create(p, n, w)
  PROVE  /\ RegistryOK(registry')
         /\ [registry' EXCEPT !.projects = Front(@)] = registry
         /\ registry'.active = registry.active
         /\ Ids(registry') = Ids(registry) \cup {p}
<1> DEFINE e == [id |-> p, name |-> n, slot |-> Len(registry.projects)]
           q == registry.projects
<1>1. registry \in Registry /\ q \in Seq(Entry) /\ Len(q) \in 1..MaxProjects /\ e \in Entry /\ DOMAIN q = 1..Len(q)
  BY ProjectAssumption DEF RegistryOK, ValidRegistry, Registry, Entry
<1>2. registry' = [registry EXCEPT !.projects = Append(q, e)]
  BY DEF Create, Persist
<1>3. /\ Append(q, e) \in Seq(Entry) /\ DOMAIN Append(q, e) = 1..(Len(q) + 1) /\ Len(Append(q, e)) = Len(q) + 1
      /\ Append(q, e)[Len(q) + 1] = e
      /\ \A i \in 1..Len(q) : Append(q, e)[i] = q[i]
  BY <1>1
<1>4. registry'.projects = Append(q, e) /\ registry'.active = registry.active /\ registry' \in Registry
  BY <1>1, <1>2, <1>3 DEF Registry
<1>5. Ids(registry') = Ids(registry) \cup {p}
  BY <1>1, <1>3, <1>4 DEF Ids
<1>6. \A i \in 1..Len(q) : q[i].id # p /\ q[i].name # n /\ q[i].slot # Len(q)
  BY <1>1 DEF Ids, Create, CanCreate, NameFree, RegistryOK
<1> DEFINE t == Append(q, e)
<1>7. \A i \in 1..Len(q) : t[i] = q[i] /\ q[i].slot = i - 1
  BY <1>1, <1>3 DEF RegistryOK
<1>8. t[Len(q) + 1].id = p /\ t[Len(q) + 1].slot = Len(q) /\ t[Len(q) + 1].name = n
  BY <1>3
<1>9. ValidRegistry(registry)
  BY DEF RegistryOK
<1>10. Len(t) \in 1..MaxProjects
  BY <1>1, <1>3, ProjectAssumption DEF Create, CanCreate
<1>11. registry'.active \in Ids(registry')
  BY <1>4, <1>5, <1>9 DEF ValidRegistry
<1> HIDE DEF t
<1>12. /\ DOMAIN t = 1..(Len(q) + 1) /\ Len(q) \in Nat
       /\ \A i \in 1..(Len(q) + 1) : i \in 1..Len(q) \/ i = Len(q) + 1
  BY <1>1, <1>3 DEF t
<1> HIDE DEF q
<1>13. \A i \in 1..(Len(q) + 1) : t[i].slot = i - 1
  BY <1>7, <1>8, <1>12
<1>14. \A i, j \in 1..(Len(q) + 1) : i # j => t[i].id # t[j].id
  <2>1. \A i, j \in 1..Len(q) : i # j => q[i].id # q[j].id
    BY <1>1, <1>9 DEF ValidRegistry, q
  <2>2. QED
    BY <2>1, <1>1, <1>6, <1>7, <1>8, <1>12
<1>15. \A i, j \in 1..(Len(q) + 1) : t[i].name = t[j].name => i = j
  <2>1. \A i, j \in 1..Len(q) : q[i].name = q[j].name => i = j
    BY <1>1 DEF RegistryOK, q
  <2>2. QED
    BY <2>1, <1>1, <1>6, <1>7, <1>8, <1>12
<1> USE DEF q
<1>16. \A i \in 1..(Len(q) + 1) : t[i].id = Default <=> t[i].slot = 0
  <2>1. \A i \in 1..Len(q) : q[i].id = Default <=> q[i].slot = 0
    BY <1>1, <1>9 DEF ValidRegistry
  <2>2. p # Default
    BY <1>1, <1>6, <1>7, <2>1
  <2>3. QED
    BY <2>1, <2>2, <1>1, <1>7, <1>8, <1>12
<1>17. ValidRegistry(registry')
  <2>1. registry'.projects = t
    BY <1>4 DEF t
  <2>2. \A i, j \in DOMAIN t : i # j => t[i].id # t[j].id /\ t[i].slot # t[j].slot
    BY <1>12, <1>13, <1>14
  <2>3. \A i \in DOMAIN t : t[i].id = Default <=> t[i].slot = 0
    BY <1>12, <1>16
  <2>4. QED
    BY <2>1, <2>2, <2>3, <1>10, <1>11 DEF ValidRegistry
<1>18. RegistryOK(registry')
  BY <1>4, <1>12, <1>13, <1>15, <1>17 DEF RegistryOK, t
<1>19. Front(t) = q
  BY <1>1, FrontOfAppend DEF t
<1>20. [registry' EXCEPT !.projects = Front(@)] = registry
  BY <1>1, <1>2, <1>4, <1>19 DEF Registry, t
<1>21. QED
  BY <1>4, <1>5, <1>18, <1>20
LEMMA RenamedOK ==
  ASSUME RegistryOK(registry), NEW p \in Ids(registry), NEW n \in Name, NEW w, Rename(p, n, w)
  PROVE  /\ RegistryOK(registry')
         /\ [registry' EXCEPT !.projects[IndexOf(p)].name = registry.projects[IndexOf(p)].name] = registry
         /\ registry'.active = registry.active /\ Ids(registry') = Ids(registry)
         /\ IndexOf(p) \in Nat /\ registry.projects[IndexOf(p)].name \in Name
<1> DEFINE q == registry.projects
           k == IndexOf(p)
<1>1. registry \in Registry /\ q \in Seq(Entry) /\ DOMAIN q = 1..Len(q) /\ \A i \in DOMAIN q : q[i] \in Entry
  BY RegistryIs DEF RegistryOK
<1>2. k \in DOMAIN q /\ q[k].id = p
  BY <1>1 DEF IndexOf, Ids
<1> HIDE DEF k
<1> DEFINE t == [q EXCEPT ![k].name = n]
<1>13. t = [q EXCEPT ![k] = [q[k] EXCEPT !.name = n]] /\ [q[k] EXCEPT !.name = n] \in Entry
  BY <1>1, <1>2 DEF Entry
<1>14. t \in Seq(Entry) /\ Len(t) = Len(q)
  BY <1>1, <1>2, <1>13, ExceptSeq
<1>3. /\ t \in Seq(Entry) /\ DOMAIN t = DOMAIN q /\ Len(t) = Len(q)
      /\ \A i \in DOMAIN q : t[i].id = q[i].id /\ t[i].slot = q[i].slot
                                /\ t[i].name = IF i = k THEN n ELSE q[i].name
  BY <1>1, <1>2, <1>14 DEF Entry
<1>4. registry' = [registry EXCEPT !.projects = t]
  BY <1>1 DEF Rename, Persist, k, Registry
<1>5. registry'.projects = t /\ registry'.active = registry.active /\ registry' \in Registry
  BY <1>1, <1>3, <1>4 DEF Registry
<1>6. \A i \in DOMAIN q : i # k => q[i].name # n
  BY <1>2 DEF Rename, NameFree, k
<1> HIDE DEF t
<1>15. ValidRegistry(registry) /\ Ids(registry') = Ids(registry)
  BY <1>3, <1>5 DEF RegistryOK, Ids
<1>7. ValidRegistry(registry')
  BY <1>3, <1>5, <1>15 DEF ValidRegistry
<1>8. RegistryOK(registry')
  BY <1>1, <1>2, <1>3, <1>5, <1>6, <1>7 DEF RegistryOK
<1>9. [t EXCEPT ![k].name = q[k].name] = q
  <2>1. DOMAIN q = 1..Len(q) /\ q = [i \in DOMAIN q |-> q[i]]
    BY <1>1
  <2>2. [t EXCEPT ![k].name = q[k].name] = [i \in DOMAIN q |-> q[i]]
    BY <1>1, <1>2 DEF Entry, t
  <2>3. QED
    BY <2>1, <2>2
<1>10. [registry' EXCEPT !.projects[k].name = q[k].name] = registry
  BY <1>1, <1>4, <1>9 DEF Registry
<1>11. k \in Nat /\ q[k].name \in Name
  BY <1>1, <1>2 DEF Entry
<1>12. QED
  BY <1>5, <1>8, <1>10, <1>11, <1>15 DEF k
LEMMA ActivatedOK ==
  ASSUME RegistryOK(registry), NEW p \in Ids(registry), NEW w, Activate(p, w)
  PROVE  /\ RegistryOK(registry')
         /\ [registry' EXCEPT !.active = registry.active] = registry
         /\ registry'.active = p /\ registry.active \in Project /\ Ids(registry') = Ids(registry)
<1>1. p \in Project /\ registry \in Registry /\ registry.active \in Project
  BY RegistryIs DEF RegistryOK, Ids
<1>2. registry' = [registry EXCEPT !.active = p]
  BY DEF Activate, Persist
<1>3. registry' \in Registry /\ registry'.active = p /\ registry'.projects = registry.projects
  BY <1>1, <1>2 DEF Registry
<1>4. ValidRegistry(registry') /\ RegistryOK(registry')
  BY <1>3 DEF RegistryOK, ValidRegistry, Ids
<1>5. [registry' EXCEPT !.active = registry.active] = registry
  BY <1>1, <1>2 DEF Registry
<1>6. Ids(registry') = Ids(registry)
  BY <1>3 DEF Ids
<1>7. QED
  BY <1>1, <1>3, <1>4, <1>5, <1>6

LEMMA InitialOK == RegistryOK(Initial) /\ Initial.active = Default
<1> DEFINE e == [id |-> Default, name |-> FirstName, slot |-> 0]
<1>1. e \in Entry /\ FirstName \in Name
  BY ProjectAssumption DEF Entry, FirstName
<1>2. /\ <<e>> \in Seq(Entry) /\ Len(<<e>>) = 1 /\ DOMAIN <<e>> = {1} /\ <<e>>[1] = e
  BY <1>1
<1>3. Initial \in Registry /\ Initial.projects = <<e>> /\ Initial.active = Default
  BY <1>2, ProjectAssumption DEF Initial, Registry
<1>4. ValidRegistry(Initial)
  BY <1>1, <1>2, <1>3, ProjectAssumption DEF ValidRegistry, Ids
<1>5. QED
  BY <1>2, <1>3, <1>4 DEF RegistryOK

LEMMA ConstantsAre ==
  /\ Default \in Project /\ MaxVersion \in Nat
  /\ NoUndo \in [active : Project, index : Nat, name : Name]
  /\ Idle \in RequestState
<1>1. NoUndo \in [active : Project, index : Nat, name : Name]
  BY ProjectAssumption DEF NoUndo, FirstName
<1>2. QED
  BY <1>1, ProjectAssumption DEF Idle, RequestState

LEMMA RequestsAre ==
  ASSUME DataTypeOK
  PROVE  /\ request \in [Request -> RequestState]
         /\ \A r \in Request : request[r].project \in Project
  BY DEF DataTypeOK, SwitchTypeOK, RequestState

LEMMA StagesAre ==
  ASSUME DataTypeOK
  PROVE  /\ stage \in [Project -> Nat] /\ stages \in [Project -> Nat] /\ due \in [Project -> Nat]
         /\ shutdown \in [Project -> {"-", "stop", "save"}]
         /\ opened \subseteq Project /\ opening \subseteq Project /\ MaxVersion \in Nat
         /\ timer \subseteq opened /\ floor \subseteq opened
         /\ entered \subseteq opened /\ job \subseteq opened
  BY ProjectAssumption DEF DataTypeOK, SwitchTypeOK

LEMMA BlankTypes ==
  ASSUME DataTypeOK, Blank
  PROVE  /\ request' \in [Request -> RequestState] /\ shutdown' \in [Project -> {"-", "stop", "save"}]
         /\ joined' \in [Project -> SUBSET Session] /\ stage' \in [Project -> 0..MaxVersion]
         /\ activeId' \in Project /\ switching' \in BOOLEAN
         /\ opening' = {} /\ opened' = {} /\ sessions' = {} /\ timer' = {} /\ floor' = {} /\ entered' = {} /\ job' = {}
<1>1. request' \in [Request -> RequestState] /\ activeId' \in Project /\ switching' \in BOOLEAN
  BY ConstantsAre DEF Blank
<1>2. /\ shutdown' \in [Project -> {"-", "stop", "save"}]
      /\ joined' \in [Project -> SUBSET Session] /\ stage' \in [Project -> 0..MaxVersion]
  BY ConstantsAre DEF Blank
<1>3. QED
  BY <1>1, <1>2 DEF Blank

LEMMA QueueFollows ==
  /\ writes = <<>> => Queued = {}
  /\ \A w : writes = <<w>> => Len(writes) = 1 /\ writes[1] = w /\ Queued = {w}
  /\ writes' = <<>> =>
       /\ writes' \in Seq(Write) /\ DOMAIN writes' = {} /\ QueueInOrder'
       /\ Queued' = {} /\ RegistryQueued' = {} /\ StageQueued' = {} /\ RegistryWrites' = {}
  /\ writes' = writes =>
       /\ QueueInOrder' = QueueInOrder
       /\ Queued' = Queued /\ RegistryQueued' = RegistryQueued /\ StageQueued' = StageQueued
       /\ RegistryWrites' = RegistryWrites
<1>1. writes = <<>> => DOMAIN writes = {}
  OBVIOUS
<1>2. \A w : writes = <<w>> => Len(writes) = 1 /\ DOMAIN writes = {1} /\ writes[1] = w
  OBVIOUS
<1>3. writes' = <<>> => DOMAIN writes' = {}
  OBVIOUS
<1>4. writes' = <<>> =>
        /\ writes' \in Seq(Write) /\ DOMAIN writes' = {} /\ QueueInOrder'
        /\ Queued' = {} /\ RegistryQueued' = {} /\ StageQueued' = {} /\ RegistryWrites' = {}
  BY <1>3 DEF Queued, RegistryQueued, StageQueued, RegistryWrites, QueueInOrder
<1>5. writes' = writes =>
        /\ QueueInOrder' = QueueInOrder
        /\ Queued' = Queued /\ RegistryQueued' = RegistryQueued /\ StageQueued' = StageQueued
        /\ RegistryWrites' = RegistryWrites
  BY DEF Queued, RegistryQueued, StageQueued, RegistryWrites, QueueInOrder
<1>6. QED
  BY <1>1, <1>2, <1>4, <1>5 DEF Queued

LEMMA RegistriesAre ==
  ASSUME RegistriesOK
  PROVE  /\ registry.active \in Project /\ Ids(registry) \subseteq Project
         /\ RegistryOK(file) => file.active \in Project /\ Ids(file) \subseteq Project
<1>1. \A r : RegistryOK(r) => r.active \in Project /\ Ids(r) \subseteq Project
  BY RegistryIs DEF RegistryOK, Ids
<1>2. QED
  BY <1>1 DEF RegistriesOK

-------------------------------------------------------------------------------
(* What each step does to the invariant. *)

LEMMA CrashKeeps ==
  ASSUME SwitchIInv, Crash
  PROVE  SwitchIInv'
<1>1. DataTypeOK /\ RegistriesOK /\ CheckpointsInOrder /\ FileIsUndone
  BY DEF SwitchIInv
<1> USE SwitchAssumption
        DEF SwitchIInv, Serving, memory, work, registryVars, Crash, Blank, Idle
<1>2. DataTypeOK'
  BY <1>1, BlankTypes, QueueFollows, ProjectAssumption DEF DataTypeOK, SwitchTypeOK
<1>3. SelectedIsOpen' BY DEF SelectedIsOpen
<1>4. RegistriesOK' BY QueueFollows, InitialOK DEF RegistriesOK
<1>5. QuietOutside' BY DEF QuietOutside
<1>6. RequestsApart' BY DEF RequestsApart, Administers
<1>7. FileIsUndone' BY DEF FileIsUndone
<1>8. OnlySelectedWorks' BY DEF OnlySelectedWorks
<1>9. SwitchIsAlone' BY DEF SwitchIsAlone
<1>10. EveryoneJoined' BY DEF EveryoneJoined
<1>11. CheckpointsInOrder' BY QueueFollows DEF CheckpointsInOrder
<1>12. ShutdownUnderWay' BY QueueFollows DEF ShutdownUnderWay
<1>13. QED
  BY <1>2, <1>3, <1>4, <1>5, <1>6, <1>7, <1>8, <1>9, <1>10, <1>11, <1>12

LEMMA FirstBootKeeps ==
  ASSUME SwitchIInv, Boot, file = NoFile
  PROVE  SwitchIInv'
<1>1. DataTypeOK /\ RegistriesOK /\ CheckpointsInOrder /\ FileIsUndone
  BY DEF SwitchIInv
<1>2. [document |-> "registry", content |-> Initial, waiter |-> "init"] \in Write
  BY <1>1, ConstantsAre, RegistriesAre, InitialOK
     DEF Write, RegistryOK, RegistriesOK, DataTypeOK, SwitchTypeOK
<1>3. writes' = Append(writes, [document |-> "registry", content |-> Initial, waiter |-> "init"])
  BY DEF Boot, Persist, Enqueue
<1>4. Grows([document |-> "registry", content |-> Initial, waiter |-> "init"]) /\ QueueInOrder'
  BY <1>1, <1>2, <1>3, QueueGrows, OrderGrows, SwitchAssumption
<1> USE SwitchAssumption
        DEF SwitchIInv, Serving, memory, work, registryVars, Boot, Persist, Enqueue, Grows
<1>5. DataTypeOK' BY <1>4, ProjectAssumption DEF DataTypeOK, SwitchTypeOK
<1>6. SelectedIsOpen' BY DEF SelectedIsOpen
<1>7. RegistriesOK' BY <1>4, InitialOK DEF RegistriesOK
<1>8. QuietOutside'
  <2>1. writes = <<>> /\ sessions = {} /\ timer = {} /\ floor = {} /\ entered = {} /\ job = {} /\ opened = {} /\ opening = {}
    BY DEF QuietOutside
  <2>2. \A q \in Request : request[q] = Idle
    BY DEF QuietOutside
  <2>3. writes' = <<[document |-> "registry", content |-> Initial, waiter |-> "init"]>>
    BY <1>3, <2>1
  <2>4. QED
    BY <2>1, <2>2, <2>3 DEF QuietOutside
<1>9. RequestsApart' BY DEF RequestsApart, QuietOutside, Idle
<1>10. FileIsUndone' BY DEF FileIsUndone
<1>11. CheckpointsInOrder' BY <1>4 DEF CheckpointsInOrder
<1>12. ShutdownUnderWay' BY <1>4 DEF ShutdownUnderWay
<1>13. OnlySelectedWorks' /\ SwitchIsAlone' /\ EveryoneJoined'
  BY DEF OnlySelectedWorks, SwitchIsAlone, EveryoneJoined
<1>14. QED
  BY <1>5, <1>6, <1>7, <1>8, <1>9, <1>10, <1>11, <1>12, <1>13

LEMMA BootKeeps ==
  ASSUME SwitchIInv, Boot, file # NoFile
  PROVE  SwitchIInv'
<1>1. DataTypeOK /\ RegistriesOK /\ CheckpointsInOrder /\ FileIsUndone
  BY DEF SwitchIInv
<1> USE SwitchAssumption
        DEF SwitchIInv, Serving, memory, work, registryVars, Boot
<1>2. DataTypeOK'
  BY <1>1, RegistriesAre, ProjectAssumption DEF DataTypeOK, SwitchTypeOK, RegistriesOK
<1>3. SelectedIsOpen' BY DEF SelectedIsOpen
<1>4. RegistriesOK' BY QueueFollows DEF RegistriesOK
<1>5. QuietOutside' BY DEF QuietOutside
<1>6. RequestsApart' BY DEF RequestsApart, QuietOutside, Idle
<1>7. FileIsUndone' BY DEF FileIsUndone
<1>8. OnlySelectedWorks' BY DEF OnlySelectedWorks, QuietOutside, Idle
<1>9. CheckpointsInOrder' BY QueueFollows DEF CheckpointsInOrder, QuietOutside
<1>10. ShutdownUnderWay' BY QueueFollows DEF ShutdownUnderWay
<1>11. SwitchIsAlone' /\ EveryoneJoined' BY DEF SwitchIsAlone, EveryoneJoined
<1>12. QED
  BY <1>2, <1>3, <1>4, <1>5, <1>6, <1>7, <1>8, <1>9, <1>10, <1>11

LEMMA ListenKeeps ==
  ASSUME SwitchIInv, Listen
  PROVE  SwitchIInv'
<1> USE SwitchAssumption
        DEF SwitchIInv, Serving, memory, work, registryVars, Listen
<1>1. DataTypeOK' BY DEF DataTypeOK, SwitchTypeOK
<1>2. SelectedIsOpen'
  BY DEF SelectedIsOpen, QuietOutside, RegistriesOK, RegistryOK, ValidRegistry
<1>3. RegistriesOK' BY QueueFollows DEF RegistriesOK
<1>4. QuietOutside' BY DEF QuietOutside
<1>5. FileIsUndone' BY QueueFollows DEF FileIsUndone, QuietOutside, Idle
<1>6. ShutdownUnderWay' BY QueueFollows DEF ShutdownUnderWay
<1>7. RequestsApart' /\ OnlySelectedWorks' /\ SwitchIsAlone' /\ EveryoneJoined' /\ CheckpointsInOrder'
  BY QueueFollows
     DEF RequestsApart, OnlySelectedWorks, SwitchIsAlone, EveryoneJoined, CheckpointsInOrder
<1>8. QED
  BY <1>1, <1>2, <1>3, <1>4, <1>5, <1>6, <1>7

LEMMA BeginShutdownKeeps ==
  ASSUME SwitchIInv, BeginShutdown
  PROVE  SwitchIInv'
<1> USE SwitchAssumption
        DEF SwitchIInv, Serving, memory, work, registryVars, BeginShutdown
<1>1. DataTypeOK' BY ProjectAssumption DEF DataTypeOK, SwitchTypeOK
<1>2. SelectedIsOpen' BY DEF SelectedIsOpen
<1>3. RegistriesOK' BY QueueFollows DEF RegistriesOK
<1>4. QuietOutside' BY DEF QuietOutside
<1>5. RequestsApart' BY DEF RequestsApart
<1>6. FileIsUndone' BY QueueFollows DEF FileIsUndone
<1>7. ShutdownUnderWay' BY StagesAre, QueueFollows DEF ShutdownUnderWay
<1>8. OnlySelectedWorks' /\ SwitchIsAlone' /\ EveryoneJoined' /\ CheckpointsInOrder'
  BY QueueFollows DEF OnlySelectedWorks, SwitchIsAlone, EveryoneJoined, CheckpointsInOrder
<1>9. QED
  BY <1>1, <1>2, <1>3, <1>4, <1>5, <1>6, <1>7, <1>8

LEMMA ExitKeeps ==
  ASSUME SwitchIInv, Exit
  PROVE  SwitchIInv'
<1>1. DataTypeOK /\ RegistriesOK /\ CheckpointsInOrder /\ FileIsUndone
  BY DEF SwitchIInv
<1> USE SwitchAssumption
        DEF SwitchIInv, Serving, memory, work, registryVars, Exit, CanExit, Blank
<1>2. DataTypeOK'
  BY <1>1, BlankTypes, QueueFollows, ProjectAssumption DEF DataTypeOK, SwitchTypeOK
<1>3. SelectedIsOpen' BY DEF SelectedIsOpen, Idle
<1>4. RegistriesOK' BY QueueFollows, InitialOK DEF RegistriesOK
<1>5. QuietOutside' BY DEF QuietOutside
<1>6. RequestsApart' BY DEF RequestsApart, Idle
<1>7. FileIsUndone' BY DEF FileIsUndone
<1>8. OnlySelectedWorks' BY DEF OnlySelectedWorks, Idle
<1>9. SwitchIsAlone' BY DEF SwitchIsAlone
<1>10. EveryoneJoined' BY DEF EveryoneJoined
<1>11. CheckpointsInOrder' BY QueueFollows DEF CheckpointsInOrder
<1>12. ShutdownUnderWay' BY QueueFollows DEF ShutdownUnderWay
<1>13. QED
  BY <1>2, <1>3, <1>4, <1>5, <1>6, <1>7, <1>8, <1>9, <1>10, <1>11, <1>12

LEMMA OpenedKeeps ==
  ASSUME SwitchIInv, NEW p \in Project, Opened(p)
  PROVE  SwitchIInv'
<1> USE SwitchAssumption
        DEF SwitchIInv, Serving, memory, work, registryVars, Opened
<1>1. DataTypeOK' BY DEF DataTypeOK, SwitchTypeOK
<1>2. SelectedIsOpen' BY DEF SelectedIsOpen
<1>3. QuietOutside' BY DEF QuietOutside
<1>4. EveryoneJoined' BY DEF EveryoneJoined, DataTypeOK, SwitchTypeOK
<1>5. CheckpointsInOrder' BY StagesAre, QueueFollows DEF CheckpointsInOrder
<1>6. ShutdownUnderWay' BY QueueFollows DEF ShutdownUnderWay, CheckpointsInOrder
<1>7. RegistriesOK' /\ RequestsApart' /\ FileIsUndone' /\ OnlySelectedWorks' /\ SwitchIsAlone'
  BY QueueFollows DEF RegistriesOK, RequestsApart, FileIsUndone, OnlySelectedWorks, SwitchIsAlone
<1>8. QED
  BY <1>1, <1>2, <1>3, <1>4, <1>5, <1>6, <1>7

LEMMA OpenFailsKeeps ==
  ASSUME SwitchIInv, NEW p \in Project, OpenFails(p), up # "opening"
  PROVE  SwitchIInv'
<1>1. DataTypeOK /\ RegistriesOK /\ CheckpointsInOrder /\ FileIsUndone
  BY DEF SwitchIInv
<1> USE SwitchAssumption
        DEF SwitchIInv, Serving, memory, work, registryVars, OpenFails, Waits
<1>2. request' \in [Request -> RequestState] BY RequestsAre, ConstantsAre
<1>3. DataTypeOK' BY <1>2 DEF DataTypeOK, SwitchTypeOK
<1>4. SelectedIsOpen' BY DEF SelectedIsOpen, Idle
<1>5. QuietOutside' BY DEF QuietOutside
<1>6. RequestsApart'
  <2>1. \A q \in Request : request'[q] = Idle \/ (request'[q] = request[q] /\ ~Waits(q, p))
    BY <1>1, RequestsAre
  <2>2. \A q \in Request : ~Waits(q, p) /\ request[q].kind \in Administers /\ request'[q] # Idle => switching'
    BY <2>1 DEF RequestsApart, Administers
  <2>3. QED
    BY <2>1, <2>2 DEF RequestsApart, Administers, Idle
<1>7. FileIsUndone' BY QueueFollows DEF FileIsUndone, Idle
<1>8. OnlySelectedWorks' BY DEF OnlySelectedWorks, Idle
<1>9. SwitchIsAlone' BY DEF SwitchIsAlone, Idle
<1>10. CheckpointsInOrder' BY QueueFollows DEF CheckpointsInOrder
<1>11. RegistriesOK' /\ EveryoneJoined' /\ ShutdownUnderWay'
  BY QueueFollows DEF RegistriesOK, EveryoneJoined, ShutdownUnderWay
<1>12. QED
  BY <1>3, <1>4, <1>5, <1>6, <1>7, <1>8, <1>9, <1>10, <1>11

LEMMA ViewKeeps ==
  ASSUME SwitchIInv, NEW p \in Project, View(p)
  PROVE  SwitchIInv'
<1> USE SwitchAssumption
        DEF SwitchIInv, Serving, memory, work, registryVars, View
<1>1. DataTypeOK' BY DEF DataTypeOK, SwitchTypeOK
<1>2. SelectedIsOpen' BY DEF SelectedIsOpen
<1>3. QuietOutside' BY DEF QuietOutside
<1>4. CheckpointsInOrder' BY QueueFollows DEF CheckpointsInOrder
<1>5. /\ RegistriesOK' /\ RequestsApart' /\ FileIsUndone' /\ OnlySelectedWorks'
      /\ SwitchIsAlone' /\ EveryoneJoined' /\ ShutdownUnderWay'
  BY QueueFollows
     DEF RegistriesOK, RequestsApart, FileIsUndone, OnlySelectedWorks, SwitchIsAlone,
          EveryoneJoined, ShutdownUnderWay
<1>6. QED
  BY <1>1, <1>2, <1>3, <1>4, <1>5

\* Whatever is done on a stage: the floor is taken by requests only, and what is saved
\* only grows.
LEMMA PublishKeeps ==
  ASSUME SwitchIInv, NEW p \in Project, p \in opened, Serving, Publishes(p),
         floor' \subseteq opened, entered' \subseteq opened, job' \subseteq opened,
         floor' \subseteq floor \/ (ActsOn(p) /\ floor' = floor \cup {p}),
         \/ UNCHANGED stage
         \/ stage[p] < MaxVersion /\ stage' = [stage EXCEPT ![p] = @ + 1]
  PROVE  SwitchIInv'
<1>1. DataTypeOK /\ RegistriesOK /\ CheckpointsInOrder /\ FileIsUndone
  BY DEF SwitchIInv
<1> USE SwitchAssumption
        DEF SwitchIInv, Serving, memory, registryVars, Publishes
<1>2. DataTypeOK'
  <2>1. MaxVersion \in Nat /\ stage \in [Project -> 0..MaxVersion] /\ p \in Project
    BY <1>1, StagesAre DEF DataTypeOK, SwitchTypeOK
  <2>2. stage[p] \in 0..MaxVersion /\ (stage[p] < MaxVersion => stage[p] + 1 \in 0..MaxVersion)
    BY <2>1
  <2>3. stage' \in [Project -> 0..MaxVersion]
    BY <2>1, <2>2
  <2>4. QED
    BY <1>1, <2>3 DEF DataTypeOK, SwitchTypeOK
<1>3. QuietOutside' BY DEF QuietOutside
<1>4. OnlySelectedWorks' BY DEF OnlySelectedWorks, ActsOn
<1>5. SwitchIsAlone' BY DEF SwitchIsAlone, ActsOn
<1>6. \A q \in Project : stage'[q] \in Nat /\ stage[q] <= stage'[q]
  BY <1>1, StagesAre
<1>7. CheckpointsInOrder'
  <2>1. \A q \in opened : stages[q] <= stage'[q]
    BY <1>1, <1>6, StagesAre DEF CheckpointsInOrder
  <2>2. \A w \in StageQueued : w.content <= stage'[w.document]
    BY <1>1, <1>6, StagesAre, QueuedIs DEF CheckpointsInOrder
  <2>3. QED
    BY <1>1, <2>1, <2>2, QueueFollows DEF CheckpointsInOrder
<1>8. ShutdownUnderWay'
  <2>1. \A q \in Project : shutdown[q] = "stop" /\ due[q] <= stage[q] => due[q] <= stage'[q]
    BY <1>1, <1>6, StagesAre
  <2>2. QED
    BY <2>1, QueueFollows DEF ShutdownUnderWay
<1>9. SelectedIsOpen' /\ RegistriesOK' /\ RequestsApart' /\ FileIsUndone' /\ EveryoneJoined'
  BY QueueFollows DEF SelectedIsOpen, RegistriesOK, RequestsApart, FileIsUndone, EveryoneJoined
<1>10. QED
  BY <1>2, <1>3, <1>4, <1>5, <1>7, <1>8, <1>9

LEMMA WorkKeeps ==
  ASSUME SwitchIInv, NEW p \in Project,
         StageChanges(p) \/ TakeFloor(p) \/ LeaveFloor(p) \/ HookBegins(p) \/ JobEnds(p)
  PROVE  SwitchIInv'
<1>1. /\ floor \subseteq opened /\ entered \subseteq opened /\ job \subseteq opened
      /\ ~Serving => floor = {} /\ entered = {} /\ job = {}
  BY StagesAre DEF SwitchIInv, QuietOutside
<1>2. ActsOn(p) => Serving /\ p \in opened
  BY DEF SwitchIInv, ActsOn, OnlySelectedWorks, SelectedIsOpen, QuietOutside, Idle
<1>3. Serving /\ p \in opened
  BY <1>1, <1>2 DEF StageChanges, TakeFloor, LeaveFloor, HookBegins, JobEnds, Busy
<1>4. CASE StageChanges(p)
  <2>1. /\ Publishes(p)
        /\ floor' \subseteq opened /\ entered' \subseteq opened /\ job' \subseteq opened
    BY <1>1, <1>3, <1>4 DEF StageChanges, work
  <2>2. floor' \subseteq floor
    BY <1>4 DEF StageChanges, work
  <2>3. stage[p] < MaxVersion /\ stage' = [stage EXCEPT ![p] = @ + 1]
    BY <1>4 DEF StageChanges, work
  <2>4. QED
    BY <1>3, <2>1, <2>2, <2>3, PublishKeeps
<1>5. CASE TakeFloor(p)
  <2>1. /\ Publishes(p)
        /\ floor' \subseteq opened /\ entered' \subseteq opened /\ job' \subseteq opened
    BY <1>1, <1>3, <1>5 DEF TakeFloor
  <2>2. ActsOn(p) /\ floor' = floor \cup {p}
    BY <1>5 DEF TakeFloor
  <2>3. UNCHANGED stage
    BY <1>5 DEF TakeFloor
  <2>4. QED
    BY <1>3, <2>1, <2>2, <2>3, PublishKeeps
<1>6. CASE LeaveFloor(p)
  <2>1. /\ Publishes(p)
        /\ floor' \subseteq opened /\ entered' \subseteq opened /\ job' \subseteq opened
    BY <1>1, <1>3, <1>6 DEF LeaveFloor
  <2>2. floor' \subseteq floor
    BY <1>6 DEF LeaveFloor
  <2>3. UNCHANGED stage
    BY <1>6 DEF LeaveFloor
  <2>4. QED
    BY <1>3, <2>1, <2>2, <2>3, PublishKeeps
<1>7. CASE HookBegins(p)
  <2>1. /\ Publishes(p)
        /\ floor' \subseteq opened /\ entered' \subseteq opened /\ job' \subseteq opened
    BY <1>1, <1>3, <1>7 DEF HookBegins
  <2>2. floor' \subseteq floor
    BY <1>7 DEF HookBegins
  <2>3. UNCHANGED stage
    BY <1>7 DEF HookBegins
  <2>4. QED
    BY <1>3, <2>1, <2>2, <2>3, PublishKeeps
<1>8. CASE JobEnds(p)
  <2>1. /\ Publishes(p)
        /\ floor' \subseteq opened /\ entered' \subseteq opened /\ job' \subseteq opened
    BY <1>1, <1>3, <1>8 DEF JobEnds
  <2>2. floor' \subseteq floor
    BY <1>8 DEF JobEnds
  <2>3. UNCHANGED stage
    BY <1>8 DEF JobEnds
  <2>4. QED
    BY <1>3, <2>1, <2>2, <2>3, PublishKeeps
<1>9. QED
  BY <1>4, <1>5, <1>6, <1>7, <1>8

LEMMA TimerFiresKeeps ==
  ASSUME SwitchIInv, NEW p \in Project, TimerFires(p), p \in Ids(registry)
  PROVE  SwitchIInv'
<1>1. DataTypeOK /\ RegistriesOK /\ CheckpointsInOrder /\ FileIsUndone
  BY DEF SwitchIInv
<1>2. [document |-> p, content |-> stage[p], waiter |-> "timer"] \in Write
  BY <1>1, ConstantsAre, RegistriesAre, InitialOK
     DEF Write, RegistryOK, RegistriesOK, DataTypeOK, SwitchTypeOK
<1>3. writes' = Append(writes, [document |-> p, content |-> stage[p], waiter |-> "timer"])
  BY DEF TimerFires, Save, Enqueue
<1>4. Grows([document |-> p, content |-> stage[p], waiter |-> "timer"]) /\ QueueInOrder'
  BY <1>1, <1>2, <1>3, QueueGrows, OrderGrows, SwitchAssumption
<1> USE SwitchAssumption
        DEF SwitchIInv, Serving, memory, work, registryVars, TimerFires, Save, Enqueue, Grows
<1>5. DataTypeOK' BY <1>2, <1>4 DEF DataTypeOK, SwitchTypeOK
<1>6. RegistriesOK' BY <1>4 DEF RegistriesOK
<1>7. QuietOutside' BY DEF QuietOutside
<1>8. FileIsUndone' BY <1>4 DEF FileIsUndone
<1>9. CheckpointsInOrder' BY <1>4, StagesAre DEF CheckpointsInOrder
<1>10. ShutdownUnderWay' BY <1>4 DEF ShutdownUnderWay
<1>11. SelectedIsOpen' /\ RequestsApart' /\ OnlySelectedWorks' /\ SwitchIsAlone' /\ EveryoneJoined'
  BY DEF SelectedIsOpen, RequestsApart, OnlySelectedWorks, SwitchIsAlone, EveryoneJoined
<1>12. QED
  BY <1>5, <1>6, <1>7, <1>8, <1>9, <1>10, <1>11

LEMMA StoppedKeeps ==
  ASSUME SwitchIInv, NEW p \in Project, Stopped(p), p \in Ids(registry)
  PROVE  SwitchIInv'
<1>1. DataTypeOK /\ RegistriesOK /\ CheckpointsInOrder /\ FileIsUndone
  BY DEF SwitchIInv
<1>2. [document |-> p, content |-> stage[p], waiter |-> "shutdown"] \in Write
  BY <1>1, ConstantsAre, RegistriesAre, InitialOK
     DEF Write, RegistryOK, RegistriesOK, DataTypeOK, SwitchTypeOK
<1>3. writes' = Append(writes, [document |-> p, content |-> stage[p], waiter |-> "shutdown"])
  BY DEF Stopped, Save, Enqueue
<1>4. Grows([document |-> p, content |-> stage[p], waiter |-> "shutdown"]) /\ QueueInOrder'
  BY <1>1, <1>2, <1>3, QueueGrows, OrderGrows, SwitchAssumption
<1> USE SwitchAssumption
        DEF SwitchIInv, Serving, memory, work, registryVars, Stopped, Save, Enqueue, Grows
<1>5. DataTypeOK'
  <2>1. shutdown' \in [Project -> {"-", "stop", "save"}]
    BY <1>1, StagesAre
  <2>2. timer' \subseteq opened /\ floor' \subseteq opened /\ entered' \subseteq opened /\ job' \subseteq opened
    BY <1>1, StagesAre
  <2>3. writes' \in Seq(Write)
    BY <1>4
  <2>4. QED
    BY <1>1, <2>1, <2>2, <2>3 DEF DataTypeOK, SwitchTypeOK
<1>6. RegistriesOK' BY <1>4 DEF RegistriesOK
<1>7. QuietOutside' BY DEF QuietOutside, ShutdownUnderWay
<1>8. FileIsUndone' BY <1>4 DEF FileIsUndone
<1>9. OnlySelectedWorks' BY DEF OnlySelectedWorks
<1>10. SwitchIsAlone' BY DEF SwitchIsAlone
<1>11. CheckpointsInOrder' BY <1>4, StagesAre DEF CheckpointsInOrder, ShutdownUnderWay
<1>12. ShutdownUnderWay' BY <1>4, StagesAre DEF ShutdownUnderWay
<1>13. SelectedIsOpen' /\ RequestsApart' /\ EveryoneJoined'
  BY DEF SelectedIsOpen, RequestsApart, EveryoneJoined
<1>14. QED
  BY <1>5, <1>6, <1>7, <1>8, <1>9, <1>10, <1>11, <1>12, <1>13

LEMMA CreateDoneKeeps ==
  ASSUME SwitchIInv, NEW r \in Request, OpenDone(r), request[r].kind = "create"
  PROVE  SwitchIInv'
<1> USE SwitchAssumption
        DEF SwitchIInv, Serving, memory, work, registryVars, OpenDone
<1>1. request' \in [Request -> RequestState] BY RequestsAre, ConstantsAre
<1>2. DataTypeOK' BY <1>1 DEF DataTypeOK, SwitchTypeOK
<1>3. SelectedIsOpen' BY RequestsAre DEF SelectedIsOpen, Idle
<1>4. QuietOutside' BY RequestsAre DEF QuietOutside
<1>5. RequestsApart' BY RequestsAre DEF RequestsApart, Idle, Administers
<1>6. FileIsUndone' BY RequestsAre, QueueFollows DEF FileIsUndone, Idle
<1>7. OnlySelectedWorks' BY RequestsAre DEF OnlySelectedWorks, Idle
<1>8. SwitchIsAlone' BY RequestsAre DEF SwitchIsAlone, Idle
<1>9. RegistriesOK' /\ EveryoneJoined' /\ CheckpointsInOrder' /\ ShutdownUnderWay'
  BY QueueFollows DEF RegistriesOK, EveryoneJoined, CheckpointsInOrder, ShutdownUnderWay
<1>10. QED
  BY <1>2, <1>3, <1>4, <1>5, <1>6, <1>7, <1>8, <1>9

LEMMA SelectActivatesKeeps ==
  ASSUME SwitchIInv, NEW r \in Request, OpenDone(r), request[r].kind # "create"
  PROVE  SwitchIInv'
<1>1. DataTypeOK /\ RegistriesOK /\ CheckpointsInOrder /\ FileIsUndone
  BY DEF SwitchIInv
<1>2. request[r].kind = "select" /\ request[r].project \in Ids(registry)
  BY DEF SwitchIInv, RequestsApart, OpenDone
<1>3. Activate(request[r].project, r)
  BY <1>2 DEF OpenDone
<1>4. /\ RegistryOK(registry') /\ Ids(registry') = Ids(registry)
      /\ registry'.active = request[r].project /\ registry.active \in Project
      /\ [registry' EXCEPT !.active = registry.active] = registry
  BY <1>1, <1>2, <1>3, ActivatedOK DEF RegistriesOK
<1>5. PICK u \in [active : Project, index : Nat, name : Name] :
        u = [NoUndo EXCEPT !.active = registry.active] /\ UndoneOf(registry', "select", u) = registry
  <2> DEFINE v == [NoUndo EXCEPT !.active = registry.active]
  <2>1. v \in [active : Project, index : Nat, name : Name] /\ v.active = registry.active
    BY <1>4, ConstantsAre
  <2>2. QED
    BY <1>4, <2>1 DEF UndoneOf
<1>6. [document |-> "registry", content |-> registry', waiter |-> r] \in Write
  BY <1>1, ConstantsAre, RegistriesAre, InitialOK, <1>4
     DEF Write, RegistryOK, RegistriesOK, DataTypeOK, SwitchTypeOK
<1>7. writes' = Append(writes, [document |-> "registry", content |-> registry', waiter |-> r])
  BY DEF OpenDone, Activate, Persist, Enqueue
<1>8. Grows([document |-> "registry", content |-> registry', waiter |-> r]) /\ QueueInOrder'
  BY <1>1, <1>6, <1>7, QueueGrows, OrderGrows, SwitchAssumption
<1> USE SwitchAssumption
        DEF SwitchIInv, Serving, memory, work, registryVars, OpenDone, Activate, Persist, Enqueue,
             Awaits, Grows
<1>9. request' \in [Request -> RequestState]
  <2>1. [kind |-> "select", at |-> "persist", project |-> request[r].project, undo |-> u] \in RequestState
    BY <1>1, <1>5, RequestsAre DEF RequestState
  <2>2. QED
    BY <1>1, <1>2, <1>5, <2>1, RequestsAre
<1>10. DataTypeOK' BY <1>8, <1>9 DEF DataTypeOK, SwitchTypeOK
<1>11. SelectedIsOpen' BY <1>2, <1>4, <1>5, RequestsAre DEF SelectedIsOpen
<1>12. RegistriesOK' BY <1>4, <1>8 DEF RegistriesOK
<1>13. QuietOutside' BY DEF QuietOutside, Idle
<1>14. RequestsApart' BY RequestsAre DEF RequestsApart, Administers
<1>15. FileIsUndone'
  <2>1. \A q \in Request : request[q].at # "persist"
    BY <1>2 DEF RequestsApart, Administers, FileIsUndone
  <2>2. Serving => RegistryQueued = {} /\ file = registry /\ activeId = registry.active
    BY <2>1 DEF FileIsUndone
  <2>3. PICK w : /\ w.content = registry' /\ w.waiter = r
                 /\ Serving => RegistryQueued' = {w} /\ \A i, j \in RegistryWrites' : i = j
    BY <1>8, <2>2 DEF FileIsUndone
  <2>4. /\ request'[r].at = "persist" /\ request'[r].kind = "select"
        /\ request'[r].project = request[r].project /\ request'[r].undo = u
        /\ \A q \in Request \ {r} : request'[q] = request[q]
    BY <1>1, <1>2, <1>5, RequestsAre
  <2>5. UndoneOf(registry', request'[r].kind, request'[r].undo) = registry
    BY <1>5, <2>4
  <2>6. \A q \in Request : request'[q].at = "persist" => q = r
    BY <2>1, <2>4
  <2>7. QED
    BY <1>2, <1>4, <2>2, <2>3, <2>4, <2>5, <2>6, SMTT(60) DEF FileIsUndone
<1>16. OnlySelectedWorks'
  <2>1. floor' = floor /\ activeId' = activeId
    OBVIOUS
  <2>2. request'[r].kind = "select" /\ \A q \in Request \ {r} : request'[q] = request[q]
    BY <1>1, <1>2, RequestsAre
  <2>3. QED
    BY <2>1, <2>2 DEF OnlySelectedWorks
<1>17. SwitchIsAlone' BY <1>2, RequestsAre DEF SwitchIsAlone
<1>18. EveryoneJoined' BY DEF EveryoneJoined
<1>19. CheckpointsInOrder' BY <1>8 DEF CheckpointsInOrder
<1>20. ShutdownUnderWay' BY <1>8 DEF ShutdownUnderWay
<1>21. QED
  BY <1>10, <1>11, <1>12, <1>13, <1>14, <1>15, <1>16, <1>17, <1>18, <1>19, <1>20

LEMMA BeginActionKeeps ==
  ASSUME SwitchIInv, NEW r \in Request, BeginAction(r)
  PROVE  SwitchIInv'
<1> USE SwitchAssumption
        DEF SwitchIInv, Serving, memory, work, registryVars, BeginAction, CanAct, Awaits
<1>1. request' \in [Request -> RequestState]
  BY ConstantsAre DEF RequestState, DataTypeOK, SwitchTypeOK
<1>2. DataTypeOK' BY <1>1 DEF DataTypeOK, SwitchTypeOK
<1>3. SelectedIsOpen' BY DEF SelectedIsOpen
<1>4. QuietOutside' BY DEF QuietOutside
<1>5. RequestsApart' BY DEF RequestsApart, Administers
<1>6. FileIsUndone' BY QueueFollows DEF FileIsUndone, Idle
<1>7. OnlySelectedWorks' BY DEF OnlySelectedWorks
<1>8. SwitchIsAlone' BY DEF SwitchIsAlone, RequestsApart, Administers
<1>9. RegistriesOK' /\ EveryoneJoined' /\ CheckpointsInOrder' /\ ShutdownUnderWay'
  BY QueueFollows DEF RegistriesOK, EveryoneJoined, CheckpointsInOrder, ShutdownUnderWay
<1>10. QED
  BY <1>2, <1>3, <1>4, <1>5, <1>6, <1>7, <1>8, <1>9

LEMMA EndActionKeeps ==
  ASSUME SwitchIInv, NEW r \in Request, EndAction(r)
  PROVE  SwitchIInv'
<1> USE SwitchAssumption
        DEF SwitchIInv, Serving, memory, work, registryVars, EndAction
<1>1. request' \in [Request -> RequestState] BY RequestsAre, ConstantsAre
<1>2. DataTypeOK' BY <1>1 DEF DataTypeOK, SwitchTypeOK
<1>3. SelectedIsOpen' BY DEF SelectedIsOpen, Idle
<1>4. QuietOutside' BY DEF QuietOutside
<1>5. RequestsApart' BY DEF RequestsApart, Idle, Administers
<1>6. FileIsUndone' BY QueueFollows DEF FileIsUndone, RequestsApart, Idle, Administers
<1>7. OnlySelectedWorks' BY DEF OnlySelectedWorks, Idle
<1>8. SwitchIsAlone' BY DEF SwitchIsAlone, Idle
<1>9. RegistriesOK' /\ EveryoneJoined' /\ CheckpointsInOrder' /\ ShutdownUnderWay'
  BY QueueFollows DEF RegistriesOK, EveryoneJoined, CheckpointsInOrder, ShutdownUnderWay
<1>10. QED
  BY <1>2, <1>3, <1>4, <1>5, <1>6, <1>7, <1>8, <1>9

LEMMA SelectProjectKeeps ==
  ASSUME SwitchIInv, NEW r \in Request, NEW p \in Project, SelectProject(r, p)
  PROVE  SwitchIInv'
<1> USE SwitchAssumption
        DEF SwitchIInv, Serving, memory, work, registryVars, SelectProject, CanAdminister, CanSwitch,
             Busy, Awaits
<1>1. request' \in [Request -> RequestState]
  BY ConstantsAre DEF RequestState, DataTypeOK, SwitchTypeOK
<1>2. DataTypeOK' BY <1>1 DEF DataTypeOK, SwitchTypeOK
<1>3. SelectedIsOpen' BY DEF SelectedIsOpen
<1>4. QuietOutside' BY DEF QuietOutside
<1>5. RequestsApart' BY DEF RequestsApart
<1>6. FileIsUndone' BY QueueFollows DEF FileIsUndone, Idle
<1>7. OnlySelectedWorks' BY DEF OnlySelectedWorks
<1>8. SwitchIsAlone' BY DEF SwitchIsAlone, OnlySelectedWorks
<1>9. CheckpointsInOrder' BY QueueFollows DEF CheckpointsInOrder
<1>10. RegistriesOK' /\ EveryoneJoined' /\ ShutdownUnderWay'
  BY QueueFollows DEF RegistriesOK, EveryoneJoined, ShutdownUnderWay
<1>11. QED
  BY <1>2, <1>3, <1>4, <1>5, <1>6, <1>7, <1>8, <1>9, <1>10

LEMMA CreateProjectKeeps ==
  ASSUME SwitchIInv, NEW r \in Request, NEW p \in Project, NEW n \in Name, CreateProject(r, p, n)
  PROVE  SwitchIInv'
<1>1. DataTypeOK /\ RegistriesOK /\ CheckpointsInOrder /\ FileIsUndone
  BY DEF SwitchIInv
<1>2. /\ RegistryOK(registry') /\ Ids(registry') = Ids(registry) \cup {p}
      /\ registry'.active = registry.active
      /\ [registry' EXCEPT !.projects = Front(@)] = registry
  BY <1>1, CreatedOK DEF RegistriesOK, CreateProject, Fresh
<1>3. UndoneOf(registry', "create", NoUndo) = registry
  BY <1>2 DEF UndoneOf
<1>4. [document |-> "registry", content |-> registry', waiter |-> r] \in Write
  BY <1>1, ConstantsAre, RegistriesAre, InitialOK, <1>2
     DEF Write, RegistryOK, RegistriesOK, DataTypeOK, SwitchTypeOK
<1>5. writes' = Append(writes, [document |-> "registry", content |-> registry', waiter |-> r])
  BY DEF CreateProject, Create, Persist, Enqueue
<1>6. Grows([document |-> "registry", content |-> registry', waiter |-> r]) /\ QueueInOrder'
  BY <1>1, <1>4, <1>5, QueueGrows, OrderGrows, SwitchAssumption
<1> USE SwitchAssumption
        DEF SwitchIInv, Serving, memory, work, registryVars, CreateProject, CanAdminister, Awaits, Fresh,
             Grows
<1>7. request' \in [Request -> RequestState]
  BY ConstantsAre DEF RequestState, DataTypeOK, SwitchTypeOK
<1>8. DataTypeOK' BY <1>6, <1>7 DEF DataTypeOK, SwitchTypeOK
<1>9. SelectedIsOpen' BY DEF SelectedIsOpen
<1>10. RegistriesOK' BY <1>2, <1>6 DEF RegistriesOK
<1>11. QuietOutside' BY DEF QuietOutside
<1>12. RequestsApart' BY DEF RequestsApart, Administers
<1>13. FileIsUndone'
  <2>1. \A q \in Request : request[q].at # "persist"
    BY DEF RequestsApart, Administers, FileIsUndone
  <2>2. Serving => RegistryQueued = {} /\ file = registry /\ activeId = registry.active
    BY <2>1 DEF FileIsUndone
  <2>3. PICK w : /\ w.content = registry' /\ w.waiter = r
                 /\ Serving => RegistryQueued' = {w} /\ \A i, j \in RegistryWrites' : i = j
    BY <1>6, <2>2 DEF FileIsUndone
  <2>4. /\ request'[r].at = "persist" /\ request'[r].kind = "create"
        /\ request'[r].project = p /\ request'[r].undo = NoUndo
        /\ \A q \in Request \ {r} : request'[q] = request[q]
    BY <1>1, RequestsAre
  <2>5. UndoneOf(registry', request'[r].kind, request'[r].undo) = registry
    BY <1>3, <2>4
  <2>6. \A q \in Request : request'[q].at = "persist" => q = r
    BY <2>1, <2>4
  <2>7. QED
    BY <1>2, <2>2, <2>3, <2>4, <2>5, <2>6 DEF FileIsUndone
<1>14. OnlySelectedWorks' BY DEF OnlySelectedWorks
<1>15. SwitchIsAlone' BY DEF SwitchIsAlone
<1>16. EveryoneJoined' BY DEF EveryoneJoined
<1>17. CheckpointsInOrder' BY <1>6 DEF CheckpointsInOrder
<1>18. ShutdownUnderWay' BY <1>6 DEF ShutdownUnderWay
<1>19. QED
  BY <1>8, <1>9, <1>10, <1>11, <1>12, <1>13, <1>14, <1>15, <1>16, <1>17, <1>18

LEMMA RenameProjectKeeps ==
  ASSUME SwitchIInv, NEW r \in Request, NEW p \in Project, NEW n \in Name, RenameProject(r, p, n)
  PROVE  SwitchIInv'
<1>1. DataTypeOK /\ RegistriesOK /\ CheckpointsInOrder /\ FileIsUndone
  BY DEF SwitchIInv
<1>2. /\ RegistryOK(registry') /\ Ids(registry') = Ids(registry)
      /\ registry'.active = registry.active
      /\ [registry' EXCEPT !.projects[IndexOf(p)].name = registry.projects[IndexOf(p)].name] = registry
      /\ IndexOf(p) \in Nat /\ registry.projects[IndexOf(p)].name \in Name
  BY <1>1, RenamedOK DEF RegistriesOK, RenameProject
<1>3. PICK u \in [active : Project, index : Nat, name : Name] :
        /\ u = [NoUndo EXCEPT !.index = IndexOf(p), !.name = registry.projects[IndexOf(p)].name]
        /\ UndoneOf(registry', "rename", u) = registry
  <2> DEFINE v == [NoUndo EXCEPT !.index = IndexOf(p), !.name = registry.projects[IndexOf(p)].name]
  <2>1. /\ v \in [active : Project, index : Nat, name : Name]
        /\ v.index = IndexOf(p) /\ v.name = registry.projects[IndexOf(p)].name
    BY <1>2, ConstantsAre
  <2>2. QED
    BY <1>2, <2>1 DEF UndoneOf
<1>4. [document |-> "registry", content |-> registry', waiter |-> r] \in Write
  BY <1>1, ConstantsAre, RegistriesAre, InitialOK, <1>2
     DEF Write, RegistryOK, RegistriesOK, DataTypeOK, SwitchTypeOK
<1>5. writes' = Append(writes, [document |-> "registry", content |-> registry', waiter |-> r])
  BY DEF RenameProject, Rename, Persist, Enqueue
<1>6. Grows([document |-> "registry", content |-> registry', waiter |-> r]) /\ QueueInOrder'
  BY <1>1, <1>4, <1>5, QueueGrows, OrderGrows, SwitchAssumption
<1> USE SwitchAssumption
        DEF SwitchIInv, Serving, memory, work, registryVars, RenameProject, CanAdminister, Awaits, Grows
<1>7. request' \in [Request -> RequestState]
  BY <1>3 DEF RequestState, DataTypeOK, SwitchTypeOK
<1>8. DataTypeOK' BY <1>6, <1>7 DEF DataTypeOK, SwitchTypeOK
<1>9. SelectedIsOpen' BY DEF SelectedIsOpen
<1>10. RegistriesOK' BY <1>2, <1>6 DEF RegistriesOK
<1>11. QuietOutside' BY DEF QuietOutside
<1>12. RequestsApart' BY DEF RequestsApart, Administers
<1>13. FileIsUndone'
  <2>1. \A q \in Request : request[q].at # "persist"
    BY DEF RequestsApart, Administers, FileIsUndone
  <2>2. Serving => RegistryQueued = {} /\ file = registry /\ activeId = registry.active
    BY <2>1 DEF FileIsUndone
  <2>3. PICK w : /\ w.content = registry' /\ w.waiter = r
                 /\ Serving => RegistryQueued' = {w} /\ \A i, j \in RegistryWrites' : i = j
    BY <1>6, <2>2 DEF FileIsUndone
  <2>4. /\ request'[r].at = "persist" /\ request'[r].kind = "rename"
        /\ request'[r].project = p /\ request'[r].undo = u
        /\ \A q \in Request \ {r} : request'[q] = request[q]
    BY <1>1, <1>3, RequestsAre
  <2>5. UndoneOf(registry', request'[r].kind, request'[r].undo) = registry
    BY <1>3, <2>4
  <2>6. \A q \in Request : request'[q].at = "persist" => q = r
    BY <2>1, <2>4
  <2>7. QED
    BY <1>2, <2>2, <2>3, <2>4, <2>5, <2>6 DEF FileIsUndone
<1>14. OnlySelectedWorks' BY DEF OnlySelectedWorks
<1>15. SwitchIsAlone' BY DEF SwitchIsAlone
<1>16. EveryoneJoined' BY DEF EveryoneJoined
<1>17. CheckpointsInOrder' BY <1>6 DEF CheckpointsInOrder
<1>18. ShutdownUnderWay' BY <1>6 DEF ShutdownUnderWay
<1>19. QED
  BY <1>8, <1>9, <1>10, <1>11, <1>12, <1>13, <1>14, <1>15, <1>16, <1>17, <1>18

LEMMA InitWrittenKeeps ==
  ASSUME SwitchIInv, 1 \in NextWrite, InitWritten(1)
  PROVE  SwitchIInv'
<1>1. DataTypeOK /\ RegistriesOK /\ CheckpointsInOrder /\ FileIsUndone
  BY DEF SwitchIInv
<1>2. 1 \in DOMAIN writes /\ writes' = RemoveAt(writes, 1)
  BY DEF InitWritten, Written, NextWrite
<1>3. Shrinks /\ QueueInOrder' /\ (Len(writes) = 1 => writes' = <<>>)
  BY <1>1, <1>2, QueueShortens, OrderShortens
<1>4. writes[1].document # "registry" =>
       \A w \in StageQueued' : w.document = writes[1].document => writes[1].content <= w.content
  BY <1>1, <1>2, OrderShortens
<1> USE SwitchAssumption
        DEF SwitchIInv, Serving, memory, work, registryVars, InitWritten, Written, Shrinks
<1>5. DataTypeOK' BY <1>2, <1>3, RegistriesAre, QueuedIs DEF DataTypeOK, SwitchTypeOK
<1>6. SelectedIsOpen' BY DEF SelectedIsOpen
<1>7. RegistriesOK' BY <1>3, QueuedIs DEF RegistriesOK
<1>8. QuietOutside' BY <1>3, QueuedIs, QueueFollows DEF QuietOutside, FileIsUndone
<1>9. FileIsUndone' BY DEF FileIsUndone
<1>10. OnlySelectedWorks'
  BY DEF OnlySelectedWorks, SwitchIsAlone, FileIsUndone, QuietOutside, Idle
<1>11. CheckpointsInOrder'
  BY <1>2, <1>3, <1>4, QueuedIs DEF CheckpointsInOrder, QuietOutside, FileIsUndone
<1>12. ShutdownUnderWay'
  <2>1. up = "init" /\ Queued = {writes[1]}
    BY <1>1, <1>2, <1>3, QueuedIs, QueueFollows DEF QuietOutside, FileIsUndone
  <2>2. \A w \in Queued' : w.waiter # "shutdown"
    BY <1>3, <2>1
  <2>3. QED
    BY <2>1, <2>2 DEF ShutdownUnderWay
<1>13. RequestsApart' /\ SwitchIsAlone' /\ EveryoneJoined'
  BY DEF RequestsApart, SwitchIsAlone, EveryoneJoined
<1>14. QED
  BY <1>5, <1>6, <1>7, <1>8, <1>9, <1>10, <1>11, <1>12, <1>13

LEMMA CreateWrittenKeeps ==
  ASSUME SwitchIInv, 1 \in NextWrite, NEW r \in Request, RequestWritten(1, r), request[r].kind = "create"
  PROVE  SwitchIInv'
<1>1. DataTypeOK /\ RegistriesOK /\ CheckpointsInOrder /\ FileIsUndone
  BY DEF SwitchIInv
<1>2. 1 \in DOMAIN writes /\ writes' = RemoveAt(writes, 1)
  BY DEF RequestWritten, Written, NextWrite
<1>3. Shrinks /\ QueueInOrder' /\ (Len(writes) = 1 => writes' = <<>>)
  BY <1>1, <1>2, QueueShortens, OrderShortens
<1>4. writes[1].document # "registry" =>
       \A w \in StageQueued' : w.document = writes[1].document => writes[1].content <= w.content
  BY <1>1, <1>2, OrderShortens
<1> USE SwitchAssumption
        DEF SwitchIInv, Serving, memory, work, registryVars, RequestWritten, Written, Awaits, Shrinks
<1>5. request' \in [Request -> RequestState]
  BY <1>1, RequestsAre, ConstantsAre DEF RequestState
<1>6. DataTypeOK'
  <2>1. writes[1] \in RegistryQueued
    BY <1>1, <1>3, QueuedIs
  <2>2. stages' = stages /\ writes' \in Seq(Write)
    BY <1>1, <1>3, <2>1, QueuedIs
  <2>3. QED
    BY <1>1, <1>5, <2>2, RequestsAre DEF DataTypeOK, SwitchTypeOK
<1>7. SelectedIsOpen' BY RequestsAre DEF SelectedIsOpen
<1>8. RegistriesOK' BY <1>3, QueuedIs DEF RegistriesOK
<1>9. QuietOutside' BY <1>3, QueueFollows DEF QuietOutside
<1>10. RequestsApart' BY RequestsAre DEF RequestsApart
<1>11. FileIsUndone' BY <1>3, RequestsAre, QueuedIs DEF FileIsUndone, RequestsApart
<1>12. OnlySelectedWorks' BY RequestsAre DEF OnlySelectedWorks
<1>13. SwitchIsAlone' BY RequestsAre DEF SwitchIsAlone
<1>14. EveryoneJoined' BY DEF EveryoneJoined
<1>15. CheckpointsInOrder' BY <1>3, QueuedIs DEF CheckpointsInOrder
<1>16. ShutdownUnderWay' BY <1>3, QueuedIs DEF ShutdownUnderWay
<1>17. QED
  BY <1>6, <1>7, <1>8, <1>9, <1>10, <1>11, <1>12, <1>13, <1>14, <1>15, <1>16

LEMMA RequestWrittenKeeps ==
  ASSUME SwitchIInv, 1 \in NextWrite, NEW r \in Request, RequestWritten(1, r), request[r].kind # "create"
  PROVE  SwitchIInv'
<1>1. DataTypeOK /\ RegistriesOK /\ CheckpointsInOrder /\ FileIsUndone
  BY DEF SwitchIInv
<1>2. 1 \in DOMAIN writes /\ writes' = RemoveAt(writes, 1)
  BY DEF RequestWritten, Written, NextWrite
<1>3. Shrinks /\ QueueInOrder' /\ (Len(writes) = 1 => writes' = <<>>)
  BY <1>1, <1>2, QueueShortens, OrderShortens
<1>4. writes[1].document # "registry" =>
       \A w \in StageQueued' : w.document = writes[1].document => writes[1].content <= w.content
  BY <1>1, <1>2, OrderShortens
<1> USE SwitchAssumption
        DEF SwitchIInv, Serving, memory, work, registryVars, RequestWritten, Written, Awaits, Shrinks
<1>5. request' \in [Request -> RequestState]
  BY <1>1, RequestsAre, ConstantsAre DEF RequestState
<1>6. DataTypeOK'
  <2>1. writes[1] \in RegistryQueued
    BY <1>1, <1>3, QueuedIs
  <2>2. stages' = stages /\ writes' \in Seq(Write)
    BY <1>1, <1>3, <2>1, QueuedIs
  <2>3. QED
    BY <1>1, <1>5, <2>2, RequestsAre DEF DataTypeOK, SwitchTypeOK
<1>7. SelectedIsOpen' BY <1>3, QueuedIs, RequestsAre DEF SelectedIsOpen, FileIsUndone, Idle
<1>8. RegistriesOK' BY <1>3, QueuedIs DEF RegistriesOK
<1>9. QuietOutside' BY <1>3, QueueFollows DEF QuietOutside
<1>10. RequestsApart'
  BY <1>3, QueuedIs, RequestsAre DEF RequestsApart, QuietOutside, FileIsUndone, Idle, Administers
<1>11. FileIsUndone' BY <1>3, RequestsAre, QueuedIs DEF FileIsUndone, RequestsApart, Idle
<1>12. OnlySelectedWorks' BY RequestsAre DEF OnlySelectedWorks, SwitchIsAlone, Idle
<1>13. SwitchIsAlone' BY RequestsAre DEF SwitchIsAlone, Idle
<1>14. EveryoneJoined' BY DEF EveryoneJoined
<1>15. CheckpointsInOrder' BY <1>3, QueuedIs DEF CheckpointsInOrder
<1>16. ShutdownUnderWay' BY <1>3, QueuedIs DEF ShutdownUnderWay
<1>17. QED
  BY <1>6, <1>7, <1>8, <1>9, <1>10, <1>11, <1>12, <1>13, <1>14, <1>15, <1>16

LEMMA RequestNotWrittenKeeps ==
  ASSUME SwitchIInv, 1 \in NextWrite, NEW r \in Request, RequestNotWritten(1, r)
  PROVE  SwitchIInv'
<1>1. DataTypeOK /\ RegistriesOK /\ CheckpointsInOrder /\ FileIsUndone
  BY DEF SwitchIInv
<1>2. 1 \in DOMAIN writes /\ writes' = RemoveAt(writes, 1)
  BY DEF RequestNotWritten, NotWritten, NextWrite
<1>3. Shrinks /\ QueueInOrder' /\ (Len(writes) = 1 => writes' = <<>>)
  BY <1>1, <1>2, QueueShortens, OrderShortens
<1>4. writes[1].document # "registry" =>
       \A w \in StageQueued' : w.document = writes[1].document => writes[1].content <= w.content
  BY <1>1, <1>2, OrderShortens
<1>5. registry' = UndoneOf(registry, request[r].kind, request[r].undo)
  BY UndoneIs DEF RequestNotWritten
<1> USE SwitchAssumption
        DEF SwitchIInv, Serving, memory, work, registryVars, RequestNotWritten, NotWritten, Shrinks
<1>6. request' \in [Request -> RequestState] BY RequestsAre, ConstantsAre
<1>7. DataTypeOK' BY <1>3, <1>6 DEF DataTypeOK, SwitchTypeOK
<1>8. SelectedIsOpen' BY <1>2 DEF SelectedIsOpen, QuietOutside, Idle
<1>9. RegistriesOK'
  BY <1>3, <1>5, QueuedIs, QueueFollows DEF RegistriesOK, FileIsUndone, QuietOutside
<1>10. QuietOutside' BY <1>3, QueueFollows DEF QuietOutside
<1>11. RequestsApart'
  BY <1>3, QueuedIs, RequestsAre DEF RequestsApart, QuietOutside, FileIsUndone, Idle, Administers
<1>12. FileIsUndone'
  BY <1>3, <1>5, RequestsAre, QueuedIs DEF FileIsUndone, RequestsApart, Idle
<1>13. OnlySelectedWorks' BY DEF OnlySelectedWorks, Idle
<1>14. SwitchIsAlone' BY DEF SwitchIsAlone, Idle
<1>15. EveryoneJoined' BY DEF EveryoneJoined
<1>16. CheckpointsInOrder' BY <1>3 DEF CheckpointsInOrder
<1>17. ShutdownUnderWay' BY <1>3 DEF ShutdownUnderWay
<1>18. QED
  BY <1>7, <1>8, <1>9, <1>10, <1>11, <1>12, <1>13, <1>14, <1>15, <1>16, <1>17

LEMMA StageWrittenKeeps ==
  ASSUME SwitchIInv, 1 \in NextWrite, StageWritten(1)
  PROVE  SwitchIInv'
<1>1. DataTypeOK /\ RegistriesOK /\ CheckpointsInOrder /\ FileIsUndone
  BY DEF SwitchIInv
<1>2. 1 \in DOMAIN writes /\ writes' = RemoveAt(writes, 1)
  BY DEF StageWritten, Written, NextWrite
<1>3. Shrinks /\ QueueInOrder' /\ (Len(writes) = 1 => writes' = <<>>)
  BY <1>1, <1>2, QueueShortens, OrderShortens
<1>4. writes[1].document # "registry" =>
       \A w \in StageQueued' : w.document = writes[1].document => writes[1].content <= w.content
  BY <1>1, <1>2, OrderShortens
<1> USE SwitchAssumption
        DEF SwitchIInv, Serving, memory, work, registryVars, StageWritten, Written, Shrinks
<1>5. DataTypeOK'
  <2>1. writes[1] \in StageQueued
    BY <1>1, <1>3, QueuedIs
  <2>2. /\ writes[1].document \in Project /\ writes[1].content \in 0..MaxVersion
        /\ writes[1].document # "registry"
    BY <1>1, <2>1, QueuedIs
  <2>3. stages' \in [Project -> 0..MaxVersion] /\ UNCHANGED file
    BY <1>1, <2>2 DEF DataTypeOK, SwitchTypeOK
  <2>4. shutdown' \in [Project -> {"-", "stop", "save"}]
    BY <1>1, <2>2 DEF DataTypeOK, SwitchTypeOK
  <2>5. QED
    BY <1>1, <1>3, <2>3, <2>4 DEF DataTypeOK, SwitchTypeOK
<1>6. RegistriesOK' BY <1>3, QueuedIs DEF RegistriesOK
<1>7. QuietOutside' BY <1>3, QueueFollows DEF QuietOutside
<1>8. FileIsUndone' BY <1>3, QueuedIs DEF FileIsUndone
<1>9. CheckpointsInOrder'
  <2>1. writes[1] \in StageQueued
    BY <1>1, <1>3, QueuedIs
  <2>2. \A q \in Project : stages'[q] = IF q = writes[1].document THEN writes[1].content ELSE stages[q]
    BY <1>1, <2>1, StagesAre, QueuedIs
  <2>3. \A q \in opened : stages'[q] <= stage[q]
    BY <1>1, <2>1, <2>2, StagesAre DEF CheckpointsInOrder
  <2>4. \A w \in StageQueued' : stages'[w.document] <= w.content
    BY <1>1, <1>3, <1>4, <2>1, <2>2, QueuedIs DEF CheckpointsInOrder
  <2>5. QED
    BY <1>1, <1>3, <2>3, <2>4 DEF CheckpointsInOrder
<1>10. ShutdownUnderWay'
  BY <1>3, StagesAre, QueuedIs DEF ShutdownUnderWay, CheckpointsInOrder
<1>11. SelectedIsOpen' /\ RequestsApart' /\ OnlySelectedWorks' /\ SwitchIsAlone' /\ EveryoneJoined'
  BY DEF SelectedIsOpen, RequestsApart, OnlySelectedWorks, SwitchIsAlone, EveryoneJoined
<1>12. QED
  BY <1>5, <1>6, <1>7, <1>8, <1>9, <1>10, <1>11

LEMMA StageNotWrittenKeeps ==
  ASSUME SwitchIInv, 1 \in NextWrite, StageNotWritten(1)
  PROVE  SwitchIInv'
<1>1. DataTypeOK /\ RegistriesOK /\ CheckpointsInOrder /\ FileIsUndone
  BY DEF SwitchIInv
<1>2. 1 \in DOMAIN writes /\ writes' = RemoveAt(writes, 1)
  BY DEF StageNotWritten, NotWritten, NextWrite
<1>3. Shrinks /\ QueueInOrder' /\ (Len(writes) = 1 => writes' = <<>>)
  BY <1>1, <1>2, QueueShortens, OrderShortens
<1>4. writes[1].document # "registry" =>
       \A w \in StageQueued' : w.document = writes[1].document => writes[1].content <= w.content
  BY <1>1, <1>2, OrderShortens
<1> USE SwitchAssumption
        DEF SwitchIInv, Serving, memory, work, registryVars, StageNotWritten, NotWritten, Shrinks
<1>5. DataTypeOK' BY <1>3 DEF DataTypeOK, SwitchTypeOK
<1>6. RegistriesOK' BY <1>3 DEF RegistriesOK
<1>7. QuietOutside' BY <1>3, QueueFollows DEF QuietOutside
<1>8. FileIsUndone' BY <1>3, QueuedIs DEF FileIsUndone
<1>9. CheckpointsInOrder' BY <1>3 DEF CheckpointsInOrder
<1>10. ShutdownUnderWay' BY <1>3 DEF ShutdownUnderWay
<1>11. SelectedIsOpen' /\ RequestsApart' /\ OnlySelectedWorks' /\ SwitchIsAlone' /\ EveryoneJoined'
  BY DEF SelectedIsOpen, RequestsApart, OnlySelectedWorks, SwitchIsAlone, EveryoneJoined
<1>12. QED
  BY <1>5, <1>6, <1>7, <1>8, <1>9, <1>10, <1>11

LEMMA JoinKeeps ==
  ASSUME SwitchIInv, NEW s \in Session, Join(s)
  PROVE  SwitchIInv'
<1> USE SwitchAssumption
        DEF SwitchIInv, Serving, memory, work, registryVars, Join
<1>1. DataTypeOK' BY DEF DataTypeOK, SwitchTypeOK
<1>2. QuietOutside' BY DEF QuietOutside
<1>3. EveryoneJoined' BY DEF EveryoneJoined, DataTypeOK, SwitchTypeOK
<1>4. /\ SelectedIsOpen' /\ RegistriesOK' /\ RequestsApart' /\ FileIsUndone'
      /\ OnlySelectedWorks' /\ SwitchIsAlone' /\ CheckpointsInOrder' /\ ShutdownUnderWay'
  BY QueueFollows
     DEF SelectedIsOpen, RegistriesOK, RequestsApart, FileIsUndone, OnlySelectedWorks,
          SwitchIsAlone, CheckpointsInOrder, ShutdownUnderWay
<1>5. QED
  BY <1>1, <1>2, <1>3, <1>4

LEMMA ExpireKeeps ==
  ASSUME SwitchIInv, NEW s \in Session, Expire(s)
  PROVE  SwitchIInv'
<1> USE SwitchAssumption
        DEF SwitchIInv, Serving, memory, work, registryVars, Expire
<1>1. DataTypeOK' BY DEF DataTypeOK, SwitchTypeOK
<1>2. QuietOutside' BY DEF QuietOutside
<1>3. EveryoneJoined' BY DEF EveryoneJoined, DataTypeOK, SwitchTypeOK
<1>4. /\ SelectedIsOpen' /\ RegistriesOK' /\ RequestsApart' /\ FileIsUndone'
      /\ OnlySelectedWorks' /\ SwitchIsAlone' /\ CheckpointsInOrder' /\ ShutdownUnderWay'
  BY QueueFollows
     DEF SelectedIsOpen, RegistriesOK, RequestsApart, FileIsUndone, OnlySelectedWorks,
          SwitchIsAlone, CheckpointsInOrder, ShutdownUnderWay
<1>5. QED
  BY <1>1, <1>2, <1>3, <1>4

-------------------------------------------------------------------------------

\* The invariant holds before the first start.
LEMMA SwitchIInvInit == ASSUME SwitchInit PROVE SwitchIInv
<1> USE SwitchAssumption, ConstantsAre, InitialOK DEF SwitchInit
<1>1. /\ writes \in Seq(Write) /\ Queued = {} /\ RegistryQueued = {} /\ StageQueued = {}
      /\ RegistryWrites = {} /\ QueueInOrder
  <2>1. writes = <<>> /\ DOMAIN writes = {} /\ writes \in Seq(Write)
    OBVIOUS
  <2>2. QED
    BY <2>1 DEF Queued, RegistryQueued, StageQueued, RegistryWrites, QueueInOrder
<1>2. DataTypeOK
  <2>1. request \in [Request -> RequestState]
    OBVIOUS
  <2>2. /\ joined \in [Project -> SUBSET Session] /\ shutdown \in [Project -> {"-", "stop", "save"}]
        /\ stages \in [Project -> 0..MaxVersion] /\ stage \in [Project -> 0..MaxVersion]
        /\ due \in [Project -> 0..MaxVersion]
    OBVIOUS
  <2>3. QED
    BY <1>1, <2>1, <2>2 DEF DataTypeOK, SwitchTypeOK
<1>3. RegistriesOK /\ QuietOutside /\ FileIsUndone
  BY <1>1 DEF RegistriesOK, QuietOutside, FileIsUndone, Serving
<1>4. RequestsApart /\ OnlySelectedWorks /\ SwitchIsAlone
  BY DEF RequestsApart, OnlySelectedWorks, SwitchIsAlone, Administers, Idle
<1>5. SelectedIsOpen /\ EveryoneJoined
  BY DEF SelectedIsOpen, EveryoneJoined, Serving, Idle
<1>6. CheckpointsInOrder /\ ShutdownUnderWay
  BY <1>1 DEF CheckpointsInOrder, ShutdownUnderWay
<1>7. QED
  BY <1>2, <1>3, <1>4, <1>5, <1>6 DEF SwitchIInv

\* No step of the server, its visitors or its host breaks the invariant.
LEMMA SwitchIInvNext ==
  ASSUME SwitchIInv, [SwitchNext]_switchVars
  PROVE  SwitchIInv'
<1>1. ASSUME Killed \/ Boot \/ Listen \/ BeginShutdown \/ Exit
      PROVE  SwitchIInv'
  BY <1>1, CrashKeeps, FirstBootKeeps, BootKeeps, ListenKeeps, BeginShutdownKeeps, ExitKeeps
     DEF Killed
<1>2. ASSUME NEW p \in Project,
             \/ Opened(p) \/ OpenFails(p) \/ View(p) \/ TimerFires(p) \/ Stopped(p)
             \/ StageChanges(p) \/ TakeFloor(p) \/ LeaveFloor(p) \/ HookBegins(p) \/ JobEnds(p)
      PROVE  SwitchIInv'
  <2>1. CASE OpenFails(p)
    BY <2>1, OpenFailsKeeps, CrashKeeps DEF OpenFails
  <2>2. CASE TimerFires(p)
    BY <2>2, TimerFiresKeeps, CrashKeeps DEF TimerFires
  <2>3. CASE Stopped(p)
    BY <2>3, StoppedKeeps, CrashKeeps DEF Stopped
  <2>4. QED
    BY <1>2, <2>1, <2>2, <2>3, OpenedKeeps, ViewKeeps, WorkKeeps
<1>3. ASSUME NEW r \in Request, OpenDone(r) \/ BeginAction(r) \/ EndAction(r)
      PROVE  SwitchIInv'
  BY <1>3, CreateDoneKeeps, SelectActivatesKeeps, BeginActionKeeps, EndActionKeeps
<1>4. ASSUME NEW r \in Request, NEW p \in Project, SelectProject(r, p)
      PROVE  SwitchIInv'
  BY <1>4, SelectProjectKeeps
<1>5. ASSUME NEW r \in Request, NEW p \in Project, NEW n \in Name,
             CreateProject(r, p, n) \/ RenameProject(r, p, n)
      PROVE  SwitchIInv'
  BY <1>5, CreateProjectKeeps, RenameProjectKeeps
<1>6. ASSUME NEW i \in NextWrite, InitWritten(i) \/ StageWritten(i) \/ StageNotWritten(i)
      PROVE  SwitchIInv'
  <2>1. i = 1 /\ 1 \in NextWrite
    BY DEF NextWrite
  <2>2. QED
    BY <1>6, <2>1, InitWrittenKeeps, StageWrittenKeeps, StageNotWrittenKeeps
<1>7. ASSUME NEW i \in NextWrite, NEW r \in Request, RequestWritten(i, r) \/ RequestNotWritten(i, r)
      PROVE  SwitchIInv'
  <2>1. i = 1 /\ 1 \in NextWrite
    BY DEF NextWrite
  <2>2. QED
    BY <1>7, <2>1, CreateWrittenKeeps, RequestWrittenKeeps, RequestNotWrittenKeeps
<1>8. ASSUME NEW s \in Session, Join(s) \/ Expire(s)
      PROVE  SwitchIInv'
  BY <1>8, JoinKeeps, ExpireKeeps
<1>9. CASE UNCHANGED switchVars
  <2>1. UNCHANGED <<registry, file, stages, writes, up, activeId, switching, opening, opened,
                    sessions, joined, stage, timer, floor, entered, job, request, shutdown, due>>
    BY <1>9 DEF switchVars, memory, work
  <2>2. DataTypeOK' /\ RequestsApart' /\ SelectedIsOpen' /\ EveryoneJoined'
    BY <2>1 DEF SwitchIInv, DataTypeOK, SwitchTypeOK, RequestsApart, SelectedIsOpen, EveryoneJoined,
                Serving
  <2>3. RegistriesOK' /\ QuietOutside' /\ FileIsUndone'
    BY <2>1, QueueFollows DEF SwitchIInv, RegistriesOK, QuietOutside, FileIsUndone, Serving
  <2>4. OnlySelectedWorks' /\ SwitchIsAlone' /\ CheckpointsInOrder' /\ ShutdownUnderWay'
    BY <2>1, QueueFollows
       DEF SwitchIInv, OnlySelectedWorks, SwitchIsAlone, CheckpointsInOrder, ShutdownUnderWay
  <2>5. QED
    BY <2>2, <2>3, <2>4 DEF SwitchIInv
<1>10. QED
  BY <1>1, <1>2, <1>3, <1>4, <1>5, <1>6, <1>7, <1>8, <1>9 DEF SwitchNext

\* The invariant holds in every reachable state.
THEOREM SwitchIInvHolds == SwitchSpec => []SwitchIInv
<1>1. SwitchInit => SwitchIInv
  BY SwitchIInvInit
<1>2. SwitchIInv /\ [SwitchNext]_switchVars => SwitchIInv'
  BY SwitchIInvNext
<1>3. QED
  BY <1>1, <1>2, PTL DEF SwitchSpec

\* The people on every open stage are those with a session, however a project is opened
\* while they come and go.
THEOREM EveryoneJoinedHolds == SwitchSpec => []EveryoneJoined
<1>1. SwitchIInv => EveryoneJoined
  BY DEF SwitchIInv
<1>2. QED
  BY <1>1, SwitchIInvHolds, PTL

\* A switch of the project leaves no request, no floor and no participant's job behind,
\* whatever an administrator entered before it and whenever its start hook is read.
THEOREM OnlySelectedWorksHolds == SwitchSpec => []OnlySelectedWorks
<1>1. SwitchIInv => OnlySelectedWorks
  BY DEF SwitchIInv
<1>2. QED
  BY <1>1, SwitchIInvHolds, PTL

LEMMA RegistryIsSound == ASSUME SwitchIInv PROVE RegistrySound
<1>1. \A i \in RegistryWrites : writes[i] \in RegistryQueued
  BY DEF RegistryWrites, RegistryQueued, Queued
<1>2. ValidRegistry(registry) /\ (file # NoFile => ValidRegistry(file))
  BY DEF SwitchIInv, RegistriesOK, RegistryOK
<1>3. \A i \in RegistryWrites : ValidRegistry(writes[i].content)
  BY <1>1 DEF SwitchIInv, RegistriesOK, RegistryOK
<1>4. QED
  BY <1>2, <1>3 DEF RegistrySound

LEMMA FileIsFollowing == ASSUME SwitchIInv PROVE FileFollowsMemory
<1> SUFFICES ASSUME Serving, RegistryWrites = {}
             PROVE  /\ file = registry /\ activeId = registry.active
                    /\ \A i, j \in DOMAIN registry.projects :
                         registry.projects[i].name = registry.projects[j].name => i = j
  BY DEF FileFollowsMemory
<1>1. RegistryQueued = {}
  BY DEF RegistryWrites, RegistryQueued, Queued
<1>2. \A r \in Request : request[r].at # "persist"
  BY <1>1 DEF SwitchIInv, FileIsUndone
<1>3. file = registry /\ activeId = registry.active
  BY <1>2 DEF SwitchIInv, FileIsUndone
<1>4. QED
  BY <1>3 DEF SwitchIInv, RegistriesOK, RegistryOK

LEMMA ShutdownIsSaved == ASSUME SwitchIInv PROVE ShutdownSaves
<1>1. ASSUME up = "exited", NEW p \in Project
      PROVE  due[p] <= stages[p]
  BY <1>1 DEF SwitchIInv, ShutdownUnderWay
<1>2. DataTypeOK
  BY DEF SwitchIInv
<1>3. QED
  BY <1>1, <1>2, StagesAre DEF ShutdownSaves

\* Whatever fails and whenever the process dies or stops, the registry is one that the next
\* process accepts, file, memory and the server agree once nothing is being written, and a
\* process that was told to stop has saved its stages.
THEOREM DiskInvHolds == SwitchSpec => []DiskInv
<1>1. SwitchIInv => SwitchTypeOK
  BY DEF SwitchIInv, DataTypeOK
<1>2. SwitchIInv => DiskInv
  BY <1>1, RegistryIsSound, FileIsFollowing, ShutdownIsSaved DEF DiskInv
<1>3. QED
  BY <1>2, SwitchIInvHolds, PTL

\* Only a checkpoint that was written changes what is on disk.
LEMMA StageChangesWhenWritten ==
  ASSUME SwitchNext, UNCHANGED stages => FALSE
  PROVE  \E i \in NextWrite : Written(i) /\ writes[i].document # "registry"
  BY DEF SwitchNext, Killed, Crash, Boot, Listen, BeginShutdown, Exit, Opened, OpenFails, View,
         StageChanges, TakeFloor, LeaveFloor, HookBegins, JobEnds, Publishes, TimerFires, Stopped, OpenDone, BeginAction, EndAction, SelectProject,
         CreateProject, RenameProject, InitWritten, RequestWritten, RequestNotWritten,
         StageWritten, StageNotWritten, Join, Expire, Written, NotWritten, registryVars

\* A stage on disk is never replaced by an older one: what the timer and shutdown() have
\* asked for waits in the order in which the stage changed.
THEOREM CheckpointsGoForward == SwitchSpec => CheckpointsForward
<1>1. ASSUME SwitchIInv, [SwitchNext]_switchVars
      PROVE  \A p \in Project : stages'[p] >= stages[p]
  <2>1. DataTypeOK /\ CheckpointsInOrder
    BY <1>1 DEF SwitchIInv
  <2>2. CASE UNCHANGED stages
    BY <2>1, <2>2, StagesAre
  <2>3. CASE stages' # stages
    <3>1. SwitchNext
      BY <1>1, <2>3 DEF switchVars
    <3>2. 1 \in DOMAIN writes /\ Written(1) /\ writes[1].document # "registry"
      BY <2>3, <3>1, StageChangesWhenWritten DEF NextWrite
    <3>3. writes[1] \in StageQueued
      BY <3>2 DEF StageQueued, RegistryQueued, Queued
    <3>4. /\ stages' = [stages EXCEPT ![writes[1].document] = writes[1].content]
          /\ stages[writes[1].document] <= writes[1].content
      BY <2>1, <3>2, <3>3 DEF Written, CheckpointsInOrder
    <3>5. QED
      BY <2>1, <3>3, <3>4, StagesAre, QueuedIs
  <2>4. QED
    BY <2>2, <2>3
<1>2. SwitchIInv /\ [SwitchNext]_switchVars => [\A p \in Project : stages'[p] >= stages[p]]_switchVars
  BY <1>1
<1>3. QED
  BY <1>2, SwitchIInvHolds, PTL DEF SwitchSpec, CheckpointsForward

=================================================================================
