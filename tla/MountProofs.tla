----------------------------- MODULE MountProofs -----------------------------
(***************************************************************************)
(* Theorems about the life of the drives, for any number of tasks, threads *)
(* and drives, and whatever scene a behaviour takes place in: who has      *)
(* which thread, what is shown, what holds while commands come one at a    *)
(* time, and why no handle in the map is replaced.                         *)
(***************************************************************************)
EXTENDS MountLifecycle, FiniteSetTheorems, TLAPS

-----------------------------------------------------------------------------
(* Who has which thread.                                                   *)
(*                                                                         *)
(* A handle is in the map, or in the hands of one task, or one of those    *)
(* the exit has still to stop; and while it is in the map or waits to get  *)
(* there, nobody has told its thread to stop.                              *)

Mounting == {"secret", "migrate", "spawn", "waiting", "joining", "insert"}
Naming   == {"read", "delete", "key", "store", "prefix", "placed", "stopping"}
Handling == {"waiting", "joining", "insert", "stopping"}

\* What a task has noted fits the step it is at.
Fits(x) ==
    /\ x.pc \in Mounting \cup Naming => x.id \in Ids
    /\ x.pc \in Mounting => x.got \in Config /\ x.got.id = x.id
    /\ x.pc = "resetting" => x.todo \subseteq Ids
    /\ x.pc = "exiting" => x.todo \subseteq Threads

\* A task has no handle, and none to come.
Handless(x) == x.pc \notin Handling \cup {"exiting"} /\ x.at = None /\ x.todo \cap Threads = {}

\* So do the handles it has.
Shape(p) ==
    LET x == task[p]
    IN  /\ Fits(x)
        /\ x.pc \in Handling => x.at \in Threads
        /\ x.at # None => x.pc \in Handling \cup {"resetting", "exiting"}
        /\ x.pc # "exiting" => x.todo \cap Threads = {}
        /\ x.pc \in {"waiting", "joining", "insert"} => thread[x.at].cfg = x.got
        /\ x.pc \in {"waiting", "insert"} => ~thread[x.at].told
        /\ x.pc = "insert" => x.at \in Holding
        /\ x.pc = "waiting" => thread[x.at].st \in {"starting", "failed", "ready", "parked"}
        /\ x.pc \in {"joining", "stopping", "resetting", "exiting"} /\ x.at # None
             => thread[x.at].told
        /\ \A t \in x.todo \cap Threads : t \in Holding /\ ~thread[t].told

Shapes == \A p \in All : Shape(p)

\* The handles of the map.
Serving ==
    \A i \in Ids : mounts[i] # None =>
        mounts[i] \in Holding /\ ~thread[mounts[i]].told /\ thread[mounts[i]].cfg.id = i

\* No two have the same handle.
Apart ==
    /\ \A i \in Ids, p \in All : mounts[i] # None => /\ task[p].at # mounts[i]
                                                     /\ mounts[i] \notin task[p].todo
    /\ \A p, q \in All : /\ task[p].at # None => task[p].at \notin task[q].todo
                         /\ p # q /\ task[p].at # None => task[p].at # task[q].at
                         /\ p # q => task[p].todo \cap task[q].todo \cap Threads = {}

\* No thread runs without somebody to stop it.
Looked(t) ==
    \/ \E i \in Ids : mounts[i] = t
    \/ thread[t].told
    \/ \E p \in All : task[p].at = t \/ t \in task[p].todo

Threaded ==
    \A t \in Threads : /\ thread[t].st # "none" => thread[t].cfg \in Config
                       /\ t \in Running => Looked(t)

MInv == TypeOK /\ Shapes /\ Serving /\ Apart /\ Threaded

-----------------------------------------------------------------------------
(* Types *)

Pcs == {"idle", "read", "secret", "migrate", "spawn", "waiting", "joining",
        "insert", "stopping", "delete", "key", "store", "prefix", "adding",
        "placed", "next", "snapshot", "resetting", "wipe", "exiting"}

Stations == {"none", "starting", "failed", "ready", "parked", "leaving", "gone"}

Todos == SUBSET (Ids \cup Threads)

\* The number of the command begun last.
Latest == MaxDrives + begun

LEMMA ConstantTypes ==
    /\ MaxDrives \in Nat /\ OldDrives \in Nat /\ MaxCommands \in Nat
    /\ Ids \subseteq Nat \ {0} /\ Gens \subseteq Nat /\ 0 \in Gens
    /\ None \notin Threads /\ None \notin Ids /\ None \notin Gens
    /\ Threads \cap Ids = {} /\ Boot \cap Tasks = {}
BY BoundsAssumption DEF Ids, Gens

LEMMA TaskFields ==
    /\ \A x \in Task : /\ x.pc \in Pcs /\ x.id \in Ids \cup {None} /\ x.at \in Threads \cup {None}
                       /\ x.gen \in Gens /\ x.got \in Config \cup {None}
                       /\ x.todo \in Todos /\ x.rows \in SUBSET Config
    /\ \A pc \in Pcs, id \in Ids \cup {None}, at \in Threads \cup {None}, gen \in Gens,
          got \in Config \cup {None}, todo \in Todos, rows \in SUBSET Config :
            [pc |-> pc, id |-> id, at |-> at, gen |-> gen, got |-> got, todo |-> todo,
             rows |-> rows] \in Task
BY DEF Task, Pcs, Todos

LEMMA ThreadFields ==
    /\ \A x \in Thread : /\ x.st \in Stations /\ x.cfg \in Config \cup {None}
                         /\ x.told \in BOOLEAN /\ x.net \in Net
    /\ \A st \in Stations, cfg \in Config \cup {None}, told \in BOOLEAN, net \in Net :
          [st |-> st, cfg |-> cfg, told |-> told, net |-> net] \in Thread
BY DEF Thread, Stations

LEMMA ConfigFields ==
    /\ \A c \in Config : /\ c.id \in Ids /\ c.inc \in Gens /\ c.letter \in Letters /\ c.key \in Gens
                         /\ c.secret \in Gens \cup {None} /\ c.prefix \in Gens
    /\ \A r \in Row : /\ r.inc \in Gens /\ r.letter \in Letters /\ r.key \in Gens
                      /\ r.secret \in Gens \cup {None} /\ r.plain \in BOOLEAN /\ r.prefix \in Gens
    /\ \A c \in Config : c # None
    /\ \A r \in Row : r # None
BY NoneAssumption DEF Config, Row

LEMMA IdleTask ==
    /\ Idle \in Task /\ Idle.pc = "idle" /\ Idle.id = None /\ Idle.at = None /\ Idle.gen = 0
    /\ Idle.got = None /\ Idle.todo = {} /\ Idle.rows = {}
    /\ Joined \in Thread /\ Joined.st = "none" /\ Joined.cfg = None /\ Joined.told = FALSE
    /\ Joined.net = Online /\ Online \in Net
<1>1. 0 \in Gens
  BY ConstantTypes
<1>2. Idle \in Task
  BY <1>1, TaskFields DEF Idle, Pcs, Todos
<1>3. Online \in Net /\ Joined \in Thread
  <2>1. Online \in Net
    BY DEF Online, Net
  <2> QED BY <2>1, ThreadFields DEF Joined, Stations
<1> QED BY <1>2, <1>3 DEF Idle, Joined

\* A task goes on: what it is now, and that the others are as they were.
LEMMA Put ==
    ASSUME TypeOK, NEW p \in All, NEW x \in Task, task' = [task EXCEPT ![p] = x]
    PROVE  /\ task' \in [All -> Task] /\ task'[p] = x
           /\ \A q \in All \ {p} : task'[q] = task[q]
BY DEF TypeOK

LEMMA Goes ==
    ASSUME TypeOK, NEW p \in All, NEW pc \in Pcs, Goto(p, pc)
    PROVE  LET x == [task[p] EXCEPT !.pc = pc]
           IN  /\ task' = [task EXCEPT ![p] = x] /\ x \in Task
               /\ x.pc = pc /\ x.id = task[p].id /\ x.at = task[p].at /\ x.gen = task[p].gen
               /\ x.got = task[p].got /\ x.todo = task[p].todo /\ x.rows = task[p].rows
<1>1. task[p] \in Task
  BY DEF TypeOK
<1> QED BY <1>1 DEF Goto, Task, Pcs

\* The end of a command, or of a row of the start-up.
LEMMA Returned ==
    ASSUME TypeOK, NEW p \in All, Return(p)
    PROVE  \E x \in Task :
              /\ task' = [task EXCEPT ![p] = x]
              /\ x.pc = (IF p \in Boot THEN "next" ELSE "idle")
              /\ x.id = None /\ x.at = None /\ x.gen = 0 /\ x.got = None /\ x.todo = {}
              /\ x.rows \subseteq task[p].rows
<1>1. task[p] \in Task /\ task[p].rows \in SUBSET Config
  BY TaskFields DEF TypeOK
<1> DEFINE n == [Idle EXCEPT !.pc = "next", !.rows = task[p].rows]
<1>2. /\ n \in Task /\ n.pc = "next" /\ n.id = None /\ n.at = None /\ n.gen = 0 /\ n.got = None
      /\ n.todo = {} /\ n.rows = task[p].rows
  BY <1>1, IdleTask DEF Task
<1>5. CASE p \in Boot
  BY <1>2, <1>5 DEF Return
<1>6. CASE p \notin Boot
  BY <1>1, <1>6, IdleTask DEF Return
<1> QED BY <1>5, <1>6

-----------------------------------------------------------------------------
(* The invariant of the handles, step by step. *)

Statuses == {"offline", "mounting", "mounted", "online", "error"}

\* The variables a task's handles have nothing to do with.
OtherTypes ==
    /\ scene \in Scenes
    /\ row \in [Ids -> Row \cup {None}]
    /\ blocks \in [Ids -> SUBSET Gens]
    /\ shown \in [Ids -> Statuses]
    /\ begun \in 0..MaxCommands /\ reset \in BOOLEAN /\ up \in BOOLEAN

LEMMA Types ==
    TypeOK <=> /\ OtherTypes
               /\ mounts \in [Ids -> Threads \cup {None}]
               /\ thread \in [Threads -> Thread]
               /\ task \in [All -> Task]
BY DEF TypeOK, OtherTypes, Statuses

LEMMA SceneTypes ==
    ASSUME scene \in Scenes
    PROVE  /\ scene.tasks \subseteq Tasks \cup Boot /\ scene.tasks \cap Tasks # {}
           /\ scene.drives \in OldDrives..MaxDrives /\ scene.most \in 0..MaxCommands
           /\ scene.letters \subseteq Letters
           /\ scene.taken \in [1..OldDrives -> scene.letters]
           /\ \A i, j \in 1..OldDrives : scene.taken[i] = scene.taken[j] => i = j
           /\ scene.legacy \in BOOLEAN
BY BoundsAssumption DEF Letters

LEMMA InitTyped == Init => TypeOK
<1> SUFFICES ASSUME Init PROVE TypeOK
  OBVIOUS
<1>1. scene \in Scenes
  BY DEF Init
<1>2. ASSUME NEW i \in Ids PROVE row[i] \in Row \cup {None}
  <2>1. CASE i > OldDrives
    BY <2>1 DEF Init
  <2>2. CASE ~(i > OldDrives)
    <3>1. i \in 1..OldDrives /\ i \in Gens
      BY <2>2, ConstantTypes DEF Ids, Gens
    <3>2. row[i] = [inc |-> i, letter |-> scene.taken[i], key |-> 0, secret |-> 0,
                    plain |-> scene.legacy, prefix |-> 0]
      BY <2>2 DEF Init
    <3>3. scene.taken[i] \in Letters /\ scene.legacy \in BOOLEAN /\ 0 \in Gens
      BY <1>1, <3>1, SceneTypes, ConstantTypes
    <3> QED BY <3>1, <3>2, <3>3 DEF Row
  <2> QED BY <2>1, <2>2
<1>3. row \in [Ids -> Row \cup {None}]
  BY <1>2 DEF Init
<1>4. ASSUME NEW p \in All PROVE task[p] \in Task
  <2>1. task[p] = Idle \/ task[p] = [Idle EXCEPT !.pc = "snapshot"]
    BY DEF Init
  <2>2. [Idle EXCEPT !.pc = "snapshot"] \in Task
    BY IdleTask DEF Task
  <2> QED BY <2>1, <2>2, IdleTask
<1>5. task \in [All -> Task]
  BY <1>4 DEF Init
<1>6. thread \in [Threads -> Thread]
  BY IdleTask DEF Init
<1>7. blocks \in [Ids -> SUBSET Gens] /\ shown \in [Ids -> Statuses] /\ begun \in 0..MaxCommands
  BY ConstantTypes DEF Init, Statuses
<1>8. reset \in BOOLEAN /\ up \in BOOLEAN /\ mounts \in [Ids -> Threads \cup {None}]
  BY DEF Init
<1> QED BY <1>1, <1>3, <1>5, <1>6, <1>7, <1>8, Types DEF OtherTypes

LEMMA InitHandles == Init => MInv
<1> SUFFICES ASSUME Init PROVE MInv
  OBVIOUS
<1>1. TypeOK
  BY InitTyped
<1>2. ASSUME NEW p \in All
      PROVE  task[p].pc \in {"idle", "snapshot"} /\ task[p].at = None /\ task[p].todo = {}
  <2>1. task[p] = Idle \/ task[p] = [Idle EXCEPT !.pc = "snapshot"]
    BY DEF Init
  <2>2. LET x == [Idle EXCEPT !.pc = "snapshot"]
        IN  x.pc = "snapshot" /\ x.at = None /\ x.todo = {}
    BY IdleTask DEF Task
  <2> QED BY <2>1, <2>2, IdleTask
<1>3. Shapes
  BY <1>2 DEF Shapes, Shape, Fits, Mounting, Naming, Handling
<1>4. Serving /\ Apart
  BY <1>2 DEF Init, Serving, Apart
<1>5. Threaded
  BY IdleTask DEF Init, Threaded, Running
<1> QED BY <1>1, <1>3, <1>4, <1>5 DEF MInv

\* A step of a task that has no handle before or after it.
LEMMA Quietly ==
    ASSUME MInv, NEW p \in All, task' \in [All -> Task],
           \A q \in All \ {p} : task'[q] = task[q],
           UNCHANGED <<mounts, thread>>, OtherTypes',
           Handless(task[p]), Handless(task'[p]), Fits(task'[p])
    PROVE  MInv'
<1>1. TypeOK'
  BY Types DEF MInv, TypeOK, OtherTypes, Statuses
<1>2. Holding' = Holding /\ Running' = Running
  BY DEF Holding, Running
<1>3. ASSUME NEW q \in All PROVE Shape(q)'
  <2>1. CASE q = p
    <3>1. /\ task'[p].pc \notin Handling \cup {"exiting"} /\ task'[p].at = None
          /\ task'[p].todo \cap Threads = {} /\ Fits(task'[p])
      BY DEF Handless
    <3> QED BY <2>1, <3>1 DEF Shape, Handling, Fits
  <2>2. CASE q # p
    <3>1. task'[q] = task[q] /\ Shape(q)
      BY <2>2 DEF MInv, Shapes
    <3> QED BY <1>2, <3>1 DEF Shape, Fits
  <2> QED BY <2>1, <2>2
<1>4. Serving'
  BY <1>2 DEF MInv, Serving
<1>5. Apart'
  <2>1. /\ task[p].at = None /\ task[p].todo \cap Threads = {}
        /\ task'[p].at = None /\ task'[p].todo \cap Threads = {}
    BY DEF Handless
  <2>2. \A q \in All : /\ task'[q].at # None => task'[q] = task[q] /\ task'[q].at \in Threads
                       /\ task'[q] = task[q] \/ task'[q].todo \cap Threads = {}
    BY <2>1, TaskFields DEF MInv, TypeOK
  <2>3. \A i \in Ids : mounts'[i] = mounts[i] /\ mounts[i] \in Threads \cup {None}
    BY DEF MInv, TypeOK
  <2>4. \A i \in Ids, q \in All : mounts'[i] # None => /\ task'[q].at # mounts'[i]
                                                     /\ mounts'[i] \notin task'[q].todo
    BY <2>1, <2>2, <2>3 DEF MInv, Apart
  <2>5. \A q, r \in All : /\ task'[q].at # None => task'[q].at \notin task'[r].todo
                          /\ q # r /\ task'[q].at # None => task'[q].at # task'[r].at
    BY <2>1, <2>2 DEF MInv, Apart
  <2>6. \A q, r \in All : q # r => task'[q].todo \cap task'[r].todo \cap Threads = {}
    BY <2>1, <2>2 DEF MInv, Apart
  <2> QED BY <2>4, <2>5, <2>6 DEF Apart
<1>6. Threaded'
  BY <1>2 DEF MInv, Threaded, Looked, Handless
<1> QED BY <1>1, <1>3, <1>4, <1>5, <1>6 DEF MInv, Shapes

LEMMA QuietPut ==
    ASSUME MInv, NEW p \in All, NEW x \in Task, task' = [task EXCEPT ![p] = x],
           UNCHANGED <<mounts, thread>>, OtherTypes',
           Handless(task[p]), Handless(x), Fits(x)
    PROVE  MInv'
<1>1. /\ task' \in [All -> Task] /\ task'[p] = x
      /\ \A q \in All \ {p} : task'[q] = task[q]
  BY Put DEF MInv
<1> QED BY <1>1, Quietly

\* At most steps a task has no handle.
LEMMA NoHandle ==
    ASSUME MInv, NEW p \in All, task[p].pc \notin Handling \cup {"resetting", "exiting"}
    PROVE  Handless(task[p])
<1>1. Shape(p)
  BY DEF MInv, Shapes
<1> QED BY <1>1 DEF Shape, Handless

\* The task of a command that begins.
New(pc, i, t, todo) ==
    [pc |-> pc, id |-> i, at |-> t, todo |-> todo, rows |-> {}, got |-> None, gen |-> Latest + 1]

LEMMA FreeTask ==
    ASSUME scene \in Scenes
    PROVE  Free \in Tasks \cap scene.tasks
<1> DEFINE mine == Tasks \cap scene.tasks
           ok(q) == task[q].pc = "idle" \/ \A r \in mine : task[r].pc # "idle"
<1>1. Free = CHOOSE q \in mine : ok(q)
  BY DEF Free
<1>2. mine # {}
  BY SceneTypes
<1>3. \E q \in mine : ok(q)
  <2>1. CASE \E q \in mine : task[q].pc = "idle"
    BY <2>1
  <2>2. CASE \A q \in mine : task[q].pc # "idle"
    BY <1>2, <2>2
  <2> QED BY <2>1, <2>2
<1> HIDE DEF ok, mine
<1>4. Free \in mine
  BY <1>1, <1>3
<1> QED BY <1>4 DEF mine

LEMMA Begun ==
    ASSUME MInv, NEW p \in All, NEW cmd, NEW pc \in Pcs, NEW i \in Ids \cup {None},
           NEW t \in Threads \cup {None}, NEW todo \in Todos, Begin(p, cmd, pc, i, t, todo)
    PROVE  /\ New(pc, i, t, todo) \in Task /\ task' = [task EXCEPT ![p] = New(pc, i, t, todo)]
           /\ begun' = begun + 1 /\ begun \in Nat /\ begun' \in 0..MaxCommands
           /\ reset' = (cmd = "reset") /\ scene' = scene /\ up' = up
           /\ p \in scene.tasks /\ p \in Tasks
           /\ task[p].pc = "idle" /\ Handless(task[p])
<1> DEFINE x == New(pc, i, t, todo)
<1>1. /\ begun < scene.most /\ begun' = begun + 1 /\ reset' = (cmd = "reset")
      /\ UNCHANGED <<scene, up>> /\ task' = [task EXCEPT ![p] = x] /\ task[p].pc = "idle"
      /\ p = Free
  BY DEF Begin, At, New, Latest
<1>2. /\ begun \in Nat /\ scene.most \in 0..MaxCommands
      /\ scene.tasks \subseteq Tasks \cup Boot /\ scene.tasks \cap Tasks # {}
  BY SceneTypes DEF MInv, TypeOK
<1>3. begun' \in 0..MaxCommands /\ MaxDrives + begun + 1 \in Gens
  BY <1>1, <1>2, ConstantTypes DEF Gens
<1>4. x \in Task
  BY <1>3, TaskFields DEF New, Latest
<1>5. Handless(task[p])
  BY <1>1, NoHandle DEF Handling
<1>6. p \in Tasks \cap scene.tasks
  BY <1>1, FreeTask DEF MInv, TypeOK
<1> QED BY <1>1, <1>2, <1>3, <1>4, <1>5, <1>6

\* A command that begins without a handle.
LEMMA BeginsQuietly ==
    ASSUME MInv, NEW p \in All, NEW cmd,
           NEW pc \in {"read", "delete", "key", "prefix", "adding", "resetting"},
           NEW i \in Ids \cup {None}, NEW todo \in SUBSET Ids, Begin(p, cmd, pc, i, None, todo),
           pc \in Naming => i \in Ids,
           UNCHANGED <<row, mounts, thread, blocks, shown>>
    PROVE  MInv'
<1>1. todo \in Todos /\ pc \in Pcs /\ todo \cap Threads = {}
  BY ConstantTypes DEF Todos, Pcs
<1>2. None \in Threads \cup {None} /\ Begin(p, cmd, pc, i, None, todo)
  OBVIOUS
<1> DEFINE x == New(pc, i, None, todo)
<1>3. x \in Task /\ task' = [task EXCEPT ![p] = x]
  BY <1>1, <1>2, Begun DEF New, Latest
<1>4. /\ begun' \in 0..MaxCommands /\ reset' = (cmd = "reset") /\ scene' = scene /\ up' = up
      /\ Handless(task[p])
  BY <1>1, <1>2, Begun
<1>5. Handless(x) /\ Fits(x)
  BY <1>1 DEF New, Handless, Fits, Handling, Mounting, Naming
<1>6. OtherTypes'
  BY <1>4, Types DEF MInv, OtherTypes
<1> QED BY <1>3, <1>4, <1>5, <1>6, QuietPut

LEMMA CommandsQuietly ==
    ASSUME MInv, NEW p \in All,
           \/ \E i \in 1..scene.drives : \/ Mount(p, i) \/ Remove(p, i)
                                         \/ SetCredentials(p, i) \/ SetPrefix(p, i)
           \/ Add(p) \/ AddCloud(p) \/ Reset(p)
    PROVE  MInv'
<1>1. 1..scene.drives \subseteq Ids
  BY SceneTypes, ConstantTypes DEF MInv, TypeOK, Ids
<1>2. {i \in Ids : mounts[i] # None} \in SUBSET Ids /\ {} \in SUBSET Ids
  OBVIOUS
<1>3. ASSUME NEW i \in Ids, Mount(p, i) PROVE MInv'
  BY <1>2, <1>3, BeginsQuietly DEF Mount
<1>4. ASSUME NEW i \in Ids, Remove(p, i) PROVE MInv'
  BY <1>2, <1>4, BeginsQuietly DEF Remove
<1>5. ASSUME NEW i \in Ids, SetCredentials(p, i) PROVE MInv'
  BY <1>2, <1>5, BeginsQuietly DEF SetCredentials
<1>6. ASSUME NEW i \in Ids, SetPrefix(p, i) PROVE MInv'
  BY <1>2, <1>6, BeginsQuietly DEF SetPrefix
<1>7. CASE Add(p) \/ AddCloud(p)
  BY <1>2, <1>7, BeginsQuietly DEF Add, AddCloud, Naming
<1>8. CASE Reset(p)
  BY <1>2, <1>8, BeginsQuietly DEF Reset, Naming
<1> QED BY <1>1, <1>3, <1>4, <1>5, <1>6, <1>7, <1>8

\* What the steps write into a row is a row.
LEMMA RowsStay ==
    ASSUME TypeOK, NEW i \in Ids
    PROVE  /\ row[i] # None => ConfigOf(i) \in Config /\ ConfigOf(i).id = i
           /\ [row EXCEPT ![i] = None] \in [Ids -> Row \cup {None}]
           /\ \A r \in Row : [row EXCEPT ![i] = r] \in [Ids -> Row \cup {None}]
           /\ row[i] # None =>
                 /\ row[i] \in Row /\ row[i].secret \in Gens \cup {None}
                 /\ \A g \in Gens : /\ [row[i] EXCEPT !.key = g] \in Row
                                    /\ [row[i] EXCEPT !.prefix = g] \in Row
                 /\ \A s \in Gens \cup {None} :
                        [row[i] EXCEPT !.secret = s, !.plain = FALSE] \in Row
<1>1. row \in [Ids -> Row \cup {None}]
  BY DEF TypeOK
<1>2. CASE row[i] = None
  BY <1>1, <1>2
<1>3. CASE row[i] # None
  <2>1. row[i] \in Row
    BY <1>1, <1>3
  <2>2. /\ row[i].inc \in Gens /\ row[i].letter \in Letters /\ row[i].key \in Gens
        /\ row[i].secret \in Gens \cup {None} /\ row[i].prefix \in Gens
    BY <2>1, ConfigFields
  <2>3. ConfigOf(i) \in Config /\ ConfigOf(i).id = i
    BY <2>2 DEF ConfigOf, Config
  <2>4. \A g \in Gens : [row[i] EXCEPT !.key = g] \in Row /\ [row[i] EXCEPT !.prefix = g] \in Row
    BY <2>1 DEF Row
  <2>5. \A s \in Gens \cup {None} : [row[i] EXCEPT !.secret = s, !.plain = FALSE] \in Row
    BY <2>1 DEF Row
  <2> QED BY <1>1, <2>1, <2>2, <2>3, <2>4, <2>5
<1> QED BY <1>2, <1>3

LEMMA StoreKeepsRows ==
    ASSUME TypeOK, NEW i \in Ids, NEW s \in Gens \cup {None},
           NEW failed \in [Ids -> Row \cup {None}], StoreEnds(i, s, failed)
    PROVE  row' \in [Ids -> Row \cup {None}]
<1>1. Stored(i, s) \in [Ids -> Row \cup {None}]
  <2>1. CASE row[i] = None
    BY <2>1 DEF Stored, TypeOK
  <2>2. CASE row[i] # None
    <3>1. [row[i] EXCEPT !.secret = s, !.plain = FALSE] \in Row
      BY <2>2, RowsStay
    <3>2. Stored(i, s) = [row EXCEPT ![i] = [row[i] EXCEPT !.secret = s, !.plain = FALSE]]
      BY <2>2 DEF Stored, TypeOK
    <3> QED BY <3>1, <3>2, RowsStay
  <2> QED BY <2>1, <2>2
<1> QED BY <1>1 DEF StoreEnds

\* A task that has no handle works on the table.
Keeps == /\ UNCHANGED <<mounts, thread>> /\ Quiet
         /\ row' \in [Ids -> Row \cup {None}]
         /\ blocks' \in [Ids -> SUBSET Gens] /\ shown' \in [Ids -> Statuses]

LEMMA QuietStep ==
    ASSUME MInv, NEW p \in All, Keeps, Handless(task[p]),
           \/ Return(p)
           \/ \E x \in Task : task' = [task EXCEPT ![p] = x] /\ Handless(x) /\ Fits(x)
    PROVE  MInv'
<1>1. OtherTypes'
  BY Types DEF MInv, Keeps, Quiet, OtherTypes
<1>2. PICK x \in Task : task' = [task EXCEPT ![p] = x] /\ Handless(x) /\ Fits(x)
  <2>1. CASE Return(p)
    <3>1. PICK x \in Task : /\ task' = [task EXCEPT ![p] = x]
                            /\ x.pc = (IF p \in Boot THEN "next" ELSE "idle")
                            /\ x.at = None /\ x.todo = {}
      BY <2>1, Returned DEF MInv
    <3>2. Handless(x) /\ Fits(x)
      BY <3>1 DEF Handless, Fits, Handling, Mounting, Naming
    <3> QED BY <3>1, <3>2
  <2> QED BY <2>1
<1> QED BY <1>1, <1>2, QuietPut DEF Keeps

LEMMA ShapeOf ==
    ASSUME MInv, NEW p \in All
    PROVE  Shape(p) /\ Fits(task[p]) /\ task[p] \in Task
BY DEF MInv, Shapes, Shape, TypeOK

LEMMA MountsQuietly ==
    ASSUME MInv, NEW p \in All, MountRead(p) \/ Retrieve(p) \/ Migrate(p)
    PROVE  MInv'
<1> DEFINE i == task[p].id
<1>1. TypeOK /\ task[p] \in Task /\ task[p].pc \in {"read", "secret", "migrate"} /\ i \in Ids
  BY ShapeOf DEF MInv, MountRead, Retrieve, Migrate, At, Fits, Naming, Mounting
<1>2. Handless(task[p])
  BY <1>1, NoHandle DEF Handling
<1>3. task[p].pc # "read" => task[p].got \in Config /\ task[p].got.id = i
  BY <1>1, ShapeOf DEF Fits, Mounting
<1>4. UNCHANGED <<row, blocks, shown>> => row' \in [Ids -> Row \cup {None}]
        /\ blocks' \in [Ids -> SUBSET Gens] /\ shown' \in [Ids -> Statuses]
  BY <1>1 DEF TypeOK, Statuses
<1>5. CASE MountRead(p)
  <2>1. Keeps
    BY <1>4, <1>5 DEF MountRead, Keeps
  <2>2. CASE row[i] # None
    <3> DEFINE x == [task[p] EXCEPT !.pc = "secret", !.got = ConfigOf(i)]
    <3>1. ConfigOf(i) \in Config /\ ConfigOf(i).id = i
      BY <1>1, <2>2, RowsStay
    <3> HIDE DEF i
    <3>2. /\ x \in Task /\ x.pc = "secret" /\ x.got = ConfigOf(i) /\ x.id = task[p].id
          /\ x.at = task[p].at /\ x.todo = task[p].todo
      BY <1>1, <3>1 DEF Task
    <3>3. task' = [task EXCEPT ![p] = x]
      BY <1>1, <1>5, <2>2 DEF MountRead, i, Task
    <3>4. Handless(x) /\ Fits(x)
      BY <1>1, <1>2, <3>1, <3>2 DEF Handless, Fits, Handling, Mounting, Naming, i
    <3> HIDE DEF x
    <3> QED BY <1>2, <2>1, <3>2, <3>3, <3>4, QuietStep
  <2>3. CASE row[i] = None
    <3>1. Return(p)
      BY <1>5, <2>3 DEF MountRead
    <3> QED BY <1>2, <2>1, <3>1, QuietStep
  <2> QED BY <2>2, <2>3
<1>6. CASE Retrieve(p)
  <2> DEFINE found == row[i] # None /\ row[i].secret # None
  <2>0. task[p].pc = "secret"
    BY <1>6 DEF Retrieve, At
  <2>1. Keeps
    BY <1>1, <1>4, <1>6 DEF Retrieve, Keeps, Show, TypeOK, Statuses
  <2>2. CASE found
    <3> DEFINE c == [task[p].got EXCEPT !.secret = row[i].secret]
               x == [task[p] EXCEPT !.pc = IF row[i].plain THEN "migrate" ELSE "spawn", !.got = c]
    <3>1. c \in Config /\ c.id = i
      <4>1. row[i].secret \in Gens \cup {None}
        BY <1>1, <2>2, RowsStay
      <4> QED BY <1>3, <2>0, <4>1 DEF Config
    <3>2. /\ x \in Task /\ x.pc \in {"migrate", "spawn"} /\ x.got = c /\ x.id = task[p].id
          /\ x.at = task[p].at /\ x.todo = task[p].todo
      <4> HIDE DEF c, i
      <4> QED BY <1>1, <3>1 DEF Task
    <3>3. task' = [task EXCEPT ![p] = x]
      BY <1>1, <1>6, <2>2 DEF Retrieve, Task
    <3>4. Handless(x) /\ Fits(x)
      <4> HIDE DEF c, x
      <4> QED BY <1>1, <1>2, <3>1, <3>2 DEF Handless, Fits, Handling, Mounting, Naming
    <3> HIDE DEF x
    <3> QED BY <1>2, <2>1, <3>2, <3>3, <3>4, QuietStep
  <2>3. CASE ~found
    <3>1. Return(p)
      BY <1>6, <2>3 DEF Retrieve
    <3> QED BY <1>2, <2>1, <3>1, QuietStep
  <2> QED BY <2>2, <2>3
<1>7. CASE Migrate(p)
  <2>1. row' \in [Ids -> Row \cup {None}]
    <3>1. task[p].got.secret \in Gens \cup {None}
      BY <1>3, <1>7, ConfigFields DEF Migrate, At
    <3>2. row \in [Ids -> Row \cup {None}] /\ StoreEnds(i, task[p].got.secret, row)
      BY <1>1, <1>7 DEF Migrate, TypeOK
    <3> QED BY <1>1, <3>1, <3>2, StoreKeepsRows
  <2>2. Keeps
    BY <1>1, <1>7, <2>1 DEF Migrate, Keeps, TypeOK, Statuses
  <2> DEFINE x == [task[p] EXCEPT !.pc = "spawn"]
  <2>3. /\ task' = [task EXCEPT ![p] = x] /\ x \in Task /\ x.pc = "spawn"
        /\ x.got = task[p].got /\ x.id = task[p].id
        /\ x.at = task[p].at /\ x.todo = task[p].todo
    BY <1>1, <1>7 DEF Migrate, Goto, Task
  <2>4. Handless(x) /\ Fits(x)
    <3> HIDE DEF x
    <3>1. task[p].pc = "migrate"
      BY <1>7 DEF Migrate, At
    <3> QED BY <1>1, <1>2, <1>3, <2>3, <3>1 DEF Handless, Fits, Handling, Mounting, Naming
  <2> HIDE DEF x
  <2> QED BY <1>2, <2>2, <2>3, <2>4, QuietStep
<1> QED BY <1>5, <1>6, <1>7

LEMMA StartUpQuietly ==
    ASSUME MInv, NEW p \in All, Snapshot(p) \/ NextRow(p)
    PROVE  MInv'
<1>1. TypeOK /\ task[p] \in Task /\ task[p].pc \in {"snapshot", "next"}
      /\ task[p].rows \in SUBSET Config
  BY ShapeOf, TaskFields DEF MInv, Snapshot, NextRow, At
<1>2. Handless(task[p])
  BY <1>1, NoHandle DEF Handling
<1>3. Keeps
  BY <1>1 DEF Snapshot, NextRow, Keeps, TypeOK, Statuses
<1>4. CASE Snapshot(p)
  <2>0. PICK auto \in SUBSET Rows :
           task' = [task EXCEPT ![p].pc = "next", ![p].rows = {ConfigOf(i) : i \in auto}]
    BY <1>4 DEF Snapshot
  <2> DEFINE cs == {ConfigOf(i) : i \in auto}
             x  == [task[p] EXCEPT !.pc = "next", !.rows = cs]
  <2>1. cs \in SUBSET Config
    <3>1. \A i \in Rows : ConfigOf(i) \in Config
      BY <1>1, RowsStay DEF Rows
    <3> QED BY <3>1
  <2> HIDE DEF cs
  <2>2. /\ x \in Task /\ x.pc = "next" /\ x.at = task[p].at /\ x.todo = task[p].todo
    BY <1>1, <2>1 DEF Task
  <2>3. task' = [task EXCEPT ![p] = x]
    BY <1>1, <2>0 DEF Task, cs
  <2> HIDE DEF x
  <2>4. Handless(x) /\ Fits(x)
    BY <1>2, <2>2 DEF Handless, Fits, Handling, Mounting, Naming
  <2> QED BY <1>2, <1>3, <2>2, <2>3, <2>4, QuietStep
<1>5. CASE NextRow(p)
  <2>1. CASE task[p].rows = {}
    <3>1. task' = [task EXCEPT ![p] = Idle]
      BY <1>5, <2>1 DEF NextRow
    <3>2. Handless(Idle) /\ Fits(Idle)
      BY IdleTask DEF Handless, Fits, Handling, Mounting, Naming
    <3> QED BY <1>2, <1>3, <3>1, <3>2, IdleTask, QuietStep
  <2>2. CASE task[p].rows # {}
    <3>1. PICK c \in task[p].rows :
             LET rest == task[p].rows \ {c}
             IN  task' = [task EXCEPT ![p] = IF NotMounted(c.id)
                    THEN [@ EXCEPT !.pc = "secret", !.id = c.id, !.got = c, !.rows = rest]
                    ELSE [@ EXCEPT !.rows = rest]]
      BY <1>5, <2>2 DEF NextRow
    <3> DEFINE rest == task[p].rows \ {c}
               y == [task[p] EXCEPT !.pc = "secret", !.id = c.id, !.got = c, !.rows = rest]
               z == [task[p] EXCEPT !.rows = rest]
    <3>2. c \in Config /\ c.id \in Ids /\ rest \in SUBSET Config
      BY <1>1, ConfigFields
    <3> HIDE DEF rest
    <3>3. /\ y \in Task /\ y.pc = "secret" /\ y.id = c.id /\ y.got = c
          /\ y.at = task[p].at /\ y.todo = task[p].todo
      BY <1>1, <3>2 DEF Task
    <3>4. z \in Task /\ z.pc = task[p].pc /\ z.at = task[p].at /\ z.todo = task[p].todo
      BY <1>1, <3>2 DEF Task
    <3>5. task' = [task EXCEPT ![p] = y] \/ task' = [task EXCEPT ![p] = z]
      BY <1>1, <3>1 DEF rest, TypeOK
    <3> HIDE DEF y, z
    <3>6. Handless(y) /\ Fits(y)
      BY <1>2, <3>2, <3>3 DEF Handless, Fits, Handling, Mounting, Naming
    <3>7. Handless(z) /\ Fits(z)
      <4>1. task[p].pc = "next"
        BY <1>5 DEF NextRow, At
      <4> QED BY <1>2, <3>4, <4>1 DEF Handless, Fits, Handling, Mounting, Naming
    <3> QED BY <1>2, <1>3, <3>3, <3>4, <3>5, <3>6, <3>7, QuietStep
  <2> QED BY <2>1, <2>2
<1> QED BY <1>4, <1>5

LEMMA TableQuietly ==
    ASSUME MInv, NEW p \in All, RemoveRow(p) \/ SetKey(p) \/ Store(p) \/ WritePrefix(p)
    PROVE  MInv'
<1> DEFINE i == task[p].id
           g == task[p].gen
<1>1. /\ TypeOK /\ task[p] \in Task /\ task[p].pc \in {"delete", "key", "store", "prefix"}
      /\ i \in Ids /\ g \in Gens
  BY ShapeOf, TaskFields DEF MInv, RemoveRow, SetKey, Store, WritePrefix, At, Fits, Naming
<1>2. Handless(task[p])
  BY <1>1, NoHandle DEF Handling
<1>3. /\ row \in [Ids -> Row \cup {None}] /\ blocks \in [Ids -> SUBSET Gens]
      /\ shown \in [Ids -> Statuses]
  BY <1>1 DEF TypeOK, Statuses
<1>4. UNCHANGED <<mounts, thread, blocks, shown>> /\ Quiet
  BY DEF RemoveRow, SetKey, Store, WritePrefix
<1>5. row' \in [Ids -> Row \cup {None}]
  <2>1. CASE RemoveRow(p)
    BY <1>1, <2>1, RowsStay DEF RemoveRow
  <2>2. CASE SetKey(p)
    <3>1. CASE row[i] = None
      BY <1>3, <2>2, <3>1 DEF SetKey
    <3>2. CASE row[i] # None
      <4>1. row' = [row EXCEPT ![i] = [row[i] EXCEPT !.key = g]]
        BY <1>1, <1>3, <2>2, <3>2 DEF SetKey
      <4> QED BY <1>1, <3>2, <4>1, RowsStay
    <3> QED BY <3>1, <3>2
  <2>3. CASE Store(p)
    BY <1>1, <1>3, <2>3, StoreKeepsRows DEF Store
  <2>4. CASE WritePrefix(p)
    <3>1. CASE row[i] = None
      BY <1>3, <2>4, <3>1 DEF WritePrefix
    <3>2. CASE row[i] # None
      <4>1. row' = [row EXCEPT ![i] = [row[i] EXCEPT !.prefix = g]]
        BY <1>1, <1>3, <2>4, <3>2 DEF WritePrefix
      <4> QED BY <1>1, <3>2, <4>1, RowsStay
    <3> QED BY <3>1, <3>2
  <2> QED BY <2>1, <2>2, <2>3, <2>4
<1>6. Keeps
  BY <1>3, <1>4, <1>5 DEF Keeps
<1>7. CASE SetKey(p)
  <2> DEFINE x == [task[p] EXCEPT !.pc = "store"]
  <2>1. /\ task' = [task EXCEPT ![p] = x] /\ x \in Task /\ x.pc = "store"
        /\ x.id = task[p].id /\ x.at = task[p].at /\ x.todo = task[p].todo
    BY <1>1, <1>7 DEF SetKey, Goto, Task
  <2> HIDE DEF x
  <2>2. Handless(x) /\ Fits(x)
    BY <1>1, <1>2, <2>1 DEF Handless, Fits, Handling, Mounting, Naming
  <2> QED BY <1>2, <1>6, <2>1, <2>2, QuietStep
<1>8. CASE RemoveRow(p) \/ Store(p) \/ WritePrefix(p)
  <2>1. Return(p)
    BY <1>8 DEF RemoveRow, Store, WritePrefix
  <2> QED BY <1>2, <1>6, <2>1, QuietStep
<1> QED BY <1>7, <1>8

LEMMA AddsQuietly ==
    ASSUME MInv, NEW p \in All, AddRow(p) \/ AddSecret(p)
    PROVE  MInv'
<1>1. /\ TypeOK /\ task[p] \in Task /\ task[p].pc \in {"adding", "placed"} /\ task[p].gen \in Gens
  BY ShapeOf, TaskFields DEF MInv, AddRow, AddSecret, At
<1>2. Handless(task[p])
  BY <1>1, NoHandle DEF Handling
<1>3. /\ row \in [Ids -> Row \cup {None}] /\ blocks \in [Ids -> SUBSET Gens]
      /\ shown \in [Ids -> Statuses]
  BY <1>1 DEF TypeOK, Statuses
<1>4. UNCHANGED <<mounts, thread, blocks, shown>> /\ Quiet
  BY DEF AddRow, AddSecret
<1>5. CASE AddSecret(p)
  <2>1. task[p].id \in Ids
    BY <1>5, ShapeOf DEF AddSecret, At, Fits, Naming
  <2>2. row' \in [Ids -> Row \cup {None}]
    <3>1. [row EXCEPT ![task[p].id] = None] \in [Ids -> Row \cup {None}]
      BY <1>1, <2>1, RowsStay
    <3> QED BY <1>1, <1>5, <2>1, <3>1, StoreKeepsRows DEF AddSecret
  <2>3. Return(p) /\ Keeps
    BY <1>3, <1>4, <1>5, <2>2 DEF AddSecret, Keeps
  <2> QED BY <1>2, <2>3, QuietStep
<1>6. CASE AddRow(p) /\ Return(p) /\ UNCHANGED row
  BY <1>2, <1>3, <1>4, <1>6, QuietStep DEF Keeps
<1>7. CASE AddRow(p) /\ ~(Return(p) /\ UNCHANGED row)
  <2>1. PICK i \in 1..scene.drives, l \in scene.letters :
           /\ row' = [row EXCEPT ![i] =
                  [inc |-> task[p].gen, letter |-> l, key |-> task[p].gen,
                   secret |-> None, plain |-> FALSE, prefix |-> task[p].gen]]
           /\ task' = [task EXCEPT ![p].pc = "placed", ![p].id = i]
    BY <1>7 DEF AddRow
  <2>2. i \in Ids /\ l \in Letters
    BY <1>1, SceneTypes, ConstantTypes DEF TypeOK, Ids
  <2>3. row' \in [Ids -> Row \cup {None}]
    <3>1. [inc |-> task[p].gen, letter |-> l, key |-> task[p].gen,
           secret |-> None, plain |-> FALSE, prefix |-> task[p].gen] \in Row
      BY <1>1, <2>2 DEF Row
    <3> QED BY <1>1, <2>1, <2>2, <3>1, RowsStay
  <2> DEFINE x == [task[p] EXCEPT !.pc = "placed", !.id = i]
  <2>4. /\ task' = [task EXCEPT ![p] = x] /\ x \in Task /\ x.pc = "placed" /\ x.id = i
        /\ x.at = task[p].at /\ x.todo = task[p].todo
    BY <1>1, <2>1, <2>2 DEF Task
  <2> HIDE DEF x
  <2>5. Handless(x) /\ Fits(x)
    BY <1>2, <2>2, <2>4 DEF Handless, Fits, Handling, Mounting, Naming
  <2>6. Keeps
    BY <1>3, <1>4, <2>3 DEF Keeps
  <2> QED BY <1>2, <2>4, <2>5, <2>6, QuietStep
<1> QED BY <1>5, <1>6, <1>7

LEMMA WipesQuietly ==
    ASSUME MInv, NEW p \in All, Wipe(p)
    PROVE  MInv'
<1>1. Handless(task[p])
  BY DEF Wipe, At, Handless, Handling
<1>2. Keeps /\ Return(p)
  BY DEF Wipe, Keeps, MInv, TypeOK, Statuses
<1> QED BY <1>1, <1>2, QuietStep

LEMMA FailsQuietly ==
    ASSUME MInv, NEW p \in All, WipeFails(p)
    PROVE  MInv'
<1>1. Handless(task[p])
  BY DEF WipeFails, At, Handless, Handling
<1>2. /\ Return(p) /\ UNCHANGED <<scene, mounts, thread, blocks, shown, begun, up>>
      /\ row' \in {row, [i \in Ids |-> None]} /\ reset' = FALSE
  BY DEF WipeFails
<1>3. OtherTypes'
  BY <1>2, Types DEF OtherTypes, MInv
<1>4. PICK x \in Task : /\ task' = [task EXCEPT ![p] = x]
                        /\ x.pc = (IF p \in Boot THEN "next" ELSE "idle")
                        /\ x.at = None /\ x.todo = {}
  BY <1>2, Returned DEF MInv
<1>5. Handless(x) /\ Fits(x)
  BY <1>4 DEF Handless, Fits, Handling, Mounting, Naming
<1> QED BY <1>1, <1>2, <1>3, <1>4, <1>5, QuietPut

\* A thread gets further: it leaves a drive it serves only when it was told.
Serves == {"ready", "parked"}
Onward(t, s) ==
    /\ thread' = [thread EXCEPT ![t].st = s]
    /\ thread[t].st # "none"
    /\ ~thread[t].told /\ thread[t].st \in Serves => s \in Serves
    /\ ~thread[t].told /\ thread[t].st \in {"starting", "failed"} \cup Serves
         => s \in {"starting", "failed"} \cup Serves
    /\ s \in {"starting", "leaving"} \cup Serves => t \in Running

LEMMA ThreadGoesOn ==
    ASSUME MInv, NEW t \in Threads, NEW s \in Stations, Onward(t, s),
           UNCHANGED <<mounts, task>>, OtherTypes'
    PROVE  MInv'
<1>1. TypeOK /\ thread \in [Threads -> Thread] /\ thread[t] \in Thread
  BY DEF MInv, TypeOK
<1>2. /\ \A u \in Threads : thread'[u].cfg = thread[u].cfg /\ thread'[u].told = thread[u].told
      /\ \A u \in Threads \ {t} : thread'[u] = thread[u]
      /\ thread'[t].st = s
      /\ thread' \in [Threads -> Thread]
  BY <1>1 DEF Onward, Thread, Stations
<1>3. /\ \A u \in Holding : ~thread[u].told => u \in Holding'
      /\ Running' \subseteq Running
  BY <1>2 DEF Onward, Holding, Running, Serves
<1>4. TypeOK'
  BY <1>1, <1>2 DEF TypeOK, OtherTypes, Statuses
<1>5. ASSUME NEW p \in All PROVE Shape(p)'
  <2>1. Shape(p) /\ task'[p] = task[p] /\ task[p] \in Task
    BY ShapeOf
  <2>2. task[p].at \in Threads \cup {None}
    BY <2>1, TaskFields
  <2>3. task[p].pc \in {"waiting", "joining", "insert"}
          => task[p].at \in Threads /\ thread'[task[p].at].cfg = task[p].got
    BY <1>2, <2>1 DEF Shape, Handling
  <2>4. task[p].pc \in {"waiting", "insert"} => ~thread'[task[p].at].told
    BY <1>2, <2>1 DEF Shape, Handling
  <2>5. task[p].pc = "insert" => task[p].at \in Holding'
    BY <1>3, <2>1 DEF Shape, Handling
  <2>6. task[p].pc = "waiting" => thread'[task[p].at].st \in {"starting", "failed", "ready", "parked"}
    BY <1>2, <2>1 DEF Shape, Handling, Onward, Serves
  <2>7. task[p].pc \in {"joining", "stopping", "resetting", "exiting"} /\ task[p].at # None
          => thread'[task[p].at].told
    BY <1>2, <2>1, <2>2 DEF Shape
  <2>8. \A u \in task[p].todo \cap Threads : u \in Holding' /\ ~thread'[u].told
    BY <1>2, <1>3, <2>1 DEF Shape
  <2>9. Fits(task[p])' /\ (task[p].pc \in Handling => task[p].at \in Threads)
    BY <2>1 DEF Shape, Fits
  <2> QED BY <2>1, <2>3, <2>4, <2>5, <2>6, <2>7, <2>8, <2>9 DEF Shape
<1>6. Serving'
  BY <1>1, <1>2, <1>3 DEF MInv, TypeOK, Serving
<1>7. Apart'
  BY DEF MInv, Apart
<1>8. Threaded'
  BY <1>2, <1>3 DEF MInv, Threaded, Looked, Onward
<1> QED BY <1>4, <1>5, <1>6, <1>7, <1>8 DEF MInv, Shapes

LEMMA ThreadsServe ==
    ASSUME MInv, NEW t \in Threads, ThreadStep(t)
    PROVE  MInv'
<1>1. OtherTypes /\ thread \in [Threads -> Thread] /\ thread[t] \in Thread
  BY Types DEF MInv, TypeOK
<1>2. thread[t].st # "none" => thread[t].cfg.id \in Ids
  BY ConfigFields DEF MInv, Threaded
<1>3. CASE InitFails(t)
  BY <1>1, <1>3, ThreadGoesOn DEF InitFails, Onward, OtherTypes, Quiet, Stations, Serves
<1>4. CASE HostMounts(t)
  <2>1. Onward(t, "ready")
    BY <1>4 DEF HostMounts, Onward, Running, Serves
  <2> QED BY <1>1, <1>4, <2>1, ThreadGoesOn DEF HostMounts, OtherTypes, Quiet, Stations
<1>5. CASE Announce(t)
  <2>1. Onward(t, "parked")
    BY <1>5 DEF Announce, Onward, Running, Serves
  <2> QED BY <1>1, <1>2, <1>5, <2>1, ThreadGoesOn
          DEF Announce, OtherTypes, Quiet, Stations, Show, Statuses
<1>6. CASE Unmounts(t)
  <2>1. Onward(t, "leaving")
    BY <1>6 DEF Unmounts, Onward, Running, Serves
  <2> QED BY <1>1, <1>6, <2>1, ThreadGoesOn DEF Unmounts, OtherTypes, Quiet, Stations
<1>7. CASE Farewell(t)
  <2>1. Onward(t, "gone")
    BY <1>7 DEF Farewell, Onward, Serves
  <2> QED BY <1>1, <1>2, <1>7, <2>1, ThreadGoesOn
          DEF Farewell, OtherTypes, Quiet, Stations, Show, Statuses
<1> QED BY <1>3, <1>4, <1>5, <1>6, <1>7 DEF ThreadStep

\* The store of a drive comes or goes: nobody's handle notices.
Noticed ==
    /\ thread' \in [Threads -> Thread]
    /\ \A u \in Threads : /\ thread'[u].st = thread[u].st /\ thread'[u].cfg = thread[u].cfg
                          /\ thread'[u].told = thread[u].told

LEMMA NetNoticed ==
    ASSUME MInv, NEW t \in Threads, Turns(t) \/ Says(t)
    PROVE  /\ Noticed /\ OtherTypes' /\ UNCHANGED <<row, mounts, task, blocks, scene, reset, begun>>
           /\ t \in Running /\ thread[t].cfg.id \in Ids /\ thread[t].net \in Net
           /\ \A u \in Threads \ {t} : thread'[u] = thread[u]
           /\ Turns(t) =>
                 /\ UNCHANGED shown
                 /\ thread'[t].net =
                       [online |-> ~thread[t].net.online,
                        due |-> thread[t].net.due \cup {~thread[t].net.online},
                        calm |-> thread[t].net.calm /\ thread[t].net.due = {}
                                   /\ thread[t].st = "parked"]
           /\ Says(t) => \E b \in thread[t].net.due :
                 /\ shown' = [shown EXCEPT ![thread[t].cfg.id] = Word(b)]
                 /\ thread'[t].net = [thread[t].net EXCEPT !.due = @ \ {b}]
<1>1. /\ thread \in [Threads -> Thread] /\ thread[t] \in Thread /\ thread[t].net \in Net
      /\ OtherTypes /\ TypeOK
  BY ThreadFields, Types DEF MInv
<1>2. t \in Running /\ UNCHANGED <<row, mounts, task, blocks, scene, reset, begun, up>>
  BY DEF Turns, Says, Quiet, Holding, Running
<1>3. thread[t].cfg.id \in Ids
  BY <1>2, ConfigFields DEF MInv, Threaded, Running
<1>4. ASSUME NEW n \in Net, thread' = [thread EXCEPT ![t].net = n]
      PROVE  Noticed /\ thread'[t].net = n /\ \A u \in Threads \ {t} : thread'[u] = thread[u]
  <2>1. [thread[t] EXCEPT !.net = n] \in Thread
    BY <1>1, <1>4 DEF Thread
  <2> QED BY <1>1, <1>4, <2>1 DEF Noticed, Thread
<1>5. CASE Turns(t)
  <2> DEFINE n == [online |-> ~thread[t].net.online,
                   due |-> thread[t].net.due \cup {~thread[t].net.online},
                   calm |-> thread[t].net.calm /\ thread[t].net.due = {}
                              /\ thread[t].st = "parked"]
  <2>1. thread' = [thread EXCEPT ![t].net = n] /\ UNCHANGED shown
    BY <1>5 DEF Turns
  <2>2. n \in Net
    BY <1>1 DEF Net
  <2> HIDE DEF n
  <2>3. Noticed /\ thread'[t].net = n /\ \A u \in Threads \ {t} : thread'[u] = thread[u]
    BY <1>4, <2>1, <2>2
  <2>4. OtherTypes'
    BY <1>1, <1>2, <2>1 DEF OtherTypes
  <2>5. ASSUME Says(t)
        PROVE  \E b \in thread[t].net.due :
                 /\ shown' = [shown EXCEPT ![thread[t].cfg.id] = Word(b)]
                 /\ thread'[t].net = [thread[t].net EXCEPT !.due = @ \ {b}]
    <3>1. PICK b \in thread[t].net.due :
             /\ thread' = [thread EXCEPT ![t].net.due = @ \ {b}]
             /\ Show(thread[t].cfg.id, Word(b))
      BY <2>5 DEF Says
    <3>2. thread'[t].net = [thread[t].net EXCEPT !.due = @ \ {b}]
      BY <1>1, <3>1 DEF Thread
    <3> QED BY <3>1, <3>2 DEF Show
  <2> QED BY <1>1, <1>2, <1>3, <2>1, <2>3, <2>4, <2>5 DEF n
<1>6. CASE ~Turns(t)
  <2>1. PICK b \in thread[t].net.due :
           /\ thread' = [thread EXCEPT ![t].net.due = @ \ {b}]
           /\ Show(thread[t].cfg.id, Word(b))
    BY <1>6 DEF Says
  <2> DEFINE n == [thread[t].net EXCEPT !.due = @ \ {b}]
  <2>2. thread' = [thread EXCEPT ![t].net = n]
    BY <1>1, <2>1 DEF Thread
  <2>3. n \in Net
    BY <1>1 DEF Net
  <2> HIDE DEF n
  <2>4. Noticed /\ thread'[t].net = n /\ \A u \in Threads \ {t} : thread'[u] = thread[u]
    BY <1>4, <2>2, <2>3
  <2>5. OtherTypes'
    BY <1>1, <1>2, <1>3, <2>1 DEF OtherTypes, Show, Word, Statuses
  <2> QED BY <1>1, <1>2, <1>3, <1>6, <2>1, <2>4, <2>5 DEF n, Show
<1> QED BY <1>5, <1>6

LEMMA NetStays ==
    ASSUME MInv, NEW t \in Threads, Turns(t) \/ Says(t)
    PROVE  MInv'
<1>1. Noticed /\ OtherTypes' /\ UNCHANGED <<mounts, task>> /\ TypeOK
  BY NetNoticed DEF MInv
<1>2. Holding' = Holding /\ Running' = Running
  BY <1>1 DEF Noticed, Holding, Running
<1>3. TypeOK'
  BY <1>1 DEF TypeOK, OtherTypes, Statuses, Noticed
<1>4. ASSUME NEW p \in All PROVE Shape(p)'
  <2>1. Shape(p) /\ task[p].at \in Threads \cup {None}
    BY ShapeOf, TaskFields
  <2>2. task'[p] = task[p] /\ Fits(task[p])'
    BY <1>1, <2>1 DEF Shape, Fits
  <2>3. task[p].at # None =>
          /\ thread'[task[p].at].cfg = thread[task[p].at].cfg
          /\ thread'[task[p].at].st = thread[task[p].at].st
          /\ thread'[task[p].at].told = thread[task[p].at].told
    BY <1>1, <2>1 DEF Noticed
  <2>4. \A u \in task[p].todo \cap Threads : u \in Holding' /\ ~thread'[u].told
    BY <1>1, <1>2, <2>1 DEF Shape, Noticed
  <2>5. task[p].pc \in Handling => task[p].at \in Threads /\ task[p].at # None
    BY <2>1, ConstantTypes DEF Shape
  <2> QED BY <1>2, <2>1, <2>2, <2>3, <2>4, <2>5 DEF Shape, Handling
<1>5. Serving'
  BY <1>1, <1>2 DEF MInv, Serving, TypeOK, Noticed
<1>6. Apart'
  BY <1>1 DEF MInv, Apart
<1>7. Threaded'
  BY <1>1, <1>2 DEF MInv, Threaded, Looked, Noticed
<1> QED BY <1>3, <1>4, <1>5, <1>6, <1>7 DEF MInv, Shapes

\* A task whose handles are left alone.
LEMMA OthersKeep ==
    ASSUME MInv, NEW q \in All, task'[q] = task[q],
           \A t \in Threads : t = task[q].at \/ t \in task[q].todo => thread'[t] = thread[t]
    PROVE  Shape(q)'
<1>1. Shape(q) /\ task[q].at \in Threads \cup {None}
  BY ShapeOf, TaskFields
<1>2. task[q].at # None => /\ thread'[task[q].at] = thread[task[q].at]
                           /\ task[q].at \in Holding => task[q].at \in Holding'
  BY <1>1 DEF Holding
<1>3. \A t \in task[q].todo \cap Threads : t \in Holding' /\ ~thread'[t].told
  BY <1>1 DEF Shape, Holding
<1>4. None \notin Threads
  BY ConstantTypes
<1>5. task[q].pc \in Handling => task[q].at \in Threads
  BY <1>1 DEF Shape
<1>6. /\ task[q].pc \in {"waiting", "joining", "insert"} => thread'[task[q].at].cfg = task[q].got
      /\ task[q].pc \in {"waiting", "insert"} => ~thread'[task[q].at].told
      /\ task[q].pc = "insert" => task[q].at \in Holding'
      /\ task[q].pc = "waiting" => thread'[task[q].at].st \in {"starting", "failed", "ready", "parked"}
  BY <1>1, <1>2, <1>4, <1>5 DEF Shape, Handling
<1>7. Fits(task[q])'
  BY <1>1 DEF Shape, Fits
<1> QED BY <1>1, <1>2, <1>3, <1>5, <1>6, <1>7 DEF Shape

\* A handle that a task has is its own.
LEMMA Own ==
    ASSUME MInv, NEW p \in All, NEW t \in Threads, t = task[p].at \/ t \in task[p].todo
    PROVE  /\ \A i \in Ids : mounts[i] # t
           /\ \A q \in All \ {p} : task[q].at # t /\ t \notin task[q].todo
           /\ t = task[p].at => t \notin task[p].todo
<1>1. None # t
  BY ConstantTypes
<1>2. \A i \in Ids : mounts[i] # t
  BY <1>1 DEF MInv, Apart
<1>3. ASSUME NEW q \in All \ {p} PROVE task[q].at # t /\ t \notin task[q].todo
  <2>1. CASE t = task[p].at
    BY <1>1, <2>1 DEF MInv, Apart
  <2>2. CASE t \in task[p].todo
    <3>1. t \notin task[q].todo
      BY <2>2 DEF MInv, Apart
    <3>2. task[q].at # t
      BY <1>1, <2>2 DEF MInv, Apart
    <3> QED BY <3>1, <3>2
  <2> QED BY <2>1, <2>2
<1>4. t = task[p].at => t \notin task[p].todo
  BY <1>1 DEF MInv, Apart
<1> QED BY <1>2, <1>3, <1>4

LEMMA Spawns ==
    ASSUME MInv, NEW p \in All, Spawn(p)
    PROVE  MInv'
<1>1. TypeOK /\ Shape(p) /\ Fits(task[p]) /\ task[p] \in Task /\ task[p].pc = "spawn"
  BY ShapeOf DEF MInv, Spawn, At
<1>2. PICK t \in Slots :
         /\ thread' = [thread EXCEPT ![t] =
               [st |-> "starting", cfg |-> task[p].got, told |-> FALSE, net |-> Online]]
         /\ task' = [task EXCEPT ![p].pc = "waiting", ![p].at = t]
  BY DEF Spawn
<1>3. /\ t \in Threads /\ t \notin Running /\ t \notin Holding /\ t # None
      /\ \A i \in Ids : mounts[i] # t
      /\ \A q \in All : task[q].at # t
  BY ConstantTypes DEF Slots, Running, Holding
<1>4. \A q \in All : t \notin task[q].todo
  BY <1>3 DEF MInv, Shapes, Shape
<1>5. /\ task[p].id \in Ids /\ task[p].got \in Config /\ task[p].got.id = task[p].id
      /\ task[p].at = None /\ task[p].todo \cap Threads = {}
  <2>1. Handless(task[p])
    BY <1>1, NoHandle DEF Handling
  <2> QED BY <1>1, <2>1 DEF Fits, Mounting, Handless
<1> DEFINE x == [task[p] EXCEPT !.pc = "waiting", !.at = t]
           n == [st |-> "starting", cfg |-> task[p].got, told |-> FALSE, net |-> Online]
<1>6. /\ task' = [task EXCEPT ![p] = x] /\ x \in Task /\ x.pc = "waiting" /\ x.at = t
      /\ x.id = task[p].id /\ x.got = task[p].got /\ x.todo = task[p].todo
  BY <1>1, <1>2, <1>3 DEF Task
<1>7. n \in Thread /\ n.st = "starting" /\ n.cfg = task[p].got /\ n.told = FALSE
  BY <1>5, IdleTask DEF Thread
<1>8. thread' = [thread EXCEPT ![t] = n]
  BY <1>2
<1> HIDE DEF x, n
<1>9. /\ task' \in [All -> Task] /\ task'[p] = x /\ \A q \in All \ {p} : task'[q] = task[q]
  BY <1>1, <1>6, Put
<1>10. /\ thread' \in [Threads -> Thread] /\ thread'[t] = n
       /\ \A u \in Threads \ {t} : thread'[u] = thread[u]
  BY <1>1, <1>3, <1>7, <1>8 DEF TypeOK
<1>11. UNCHANGED <<row, mounts, blocks>> /\ Quiet /\ Show(task[p].id, "mounting")
  BY DEF Spawn
<1>12. TypeOK'
  BY <1>1, <1>5, <1>9, <1>10, <1>11 DEF TypeOK, Quiet, Show
<1>13. Shapes'
  <2>1. Shape(p)'
    <3>1. Fits(task[p])'
      BY <1>5, <1>6, <1>9 DEF Fits, Mounting, Naming
    <3>2. /\ thread'[t].cfg = x.got /\ ~thread'[t].told /\ thread'[t].st = "starting"
          /\ x.todo \cap Threads = {}
      BY <1>5, <1>6, <1>7, <1>10
    <3> QED BY <1>3, <1>6, <1>9, <3>1, <3>2 DEF Shape, Handling
  <2>2. ASSUME NEW q \in All \ {p} PROVE Shape(q)'
    BY <1>3, <1>4, <1>9, <1>10, OthersKeep
  <2> QED BY <2>1, <2>2 DEF Shapes
<1>14. Serving'
  BY <1>1, <1>3, <1>10, <1>11 DEF MInv, Serving, Holding, TypeOK
<1>15. Apart'
  BY <1>3, <1>4, <1>5, <1>6, <1>9, <1>11 DEF MInv, Apart
<1>16. Threaded'
  <2>1. ASSUME NEW u \in Threads \ {t}, u \in Running' PROVE Looked(u)'
    <3>1. u \in Running /\ Looked(u)
      BY <1>10, <2>1 DEF Running, MInv, Threaded
    <3>2. u # task[p].at /\ u \notin task[p].todo /\ thread'[u] = thread[u] /\ mounts' = mounts
      BY <1>5, <1>10, <1>11, ConstantTypes
    <3> QED BY <1>9, <3>1, <3>2 DEF Looked
  <2>2. Looked(t)'
    BY <1>6, <1>9 DEF Looked
  <2>3. \A u \in Threads : thread'[u].st # "none" => thread'[u].cfg \in Config
    BY <1>5, <1>7, <1>10 DEF MInv, Threaded
  <2> QED BY <2>1, <2>2, <2>3 DEF Threaded
<1> QED BY <1>12, <1>13, <1>14, <1>15, <1>16 DEF MInv

\* A thread that has ended is joined, and its handle is gone.
LEMMA Joins ==
    ASSUME MInv, NEW p \in All, NEW x \in Task, task' = [task EXCEPT ![p] = x],
           Handless(x), Fits(x), task[p].at \in Threads \ Running, task[p].pc # "exiting",
           Join(p), UNCHANGED mounts, OtherTypes'
    PROVE  MInv'
<1> DEFINE t == task[p].at
<1>1. TypeOK /\ Shape(p) /\ t \in Threads /\ t \notin Running /\ t \notin Holding
  BY ShapeOf DEF MInv, Running, Holding
<1>2. /\ \A i \in Ids : mounts[i] # t
      /\ \A q \in All : t \notin task[q].todo
      /\ \A q \in All \ {p} : task[q].at # t
  BY <1>1, Own
<1>3. /\ task' \in [All -> Task] /\ task'[p] = x /\ \A q \in All \ {p} : task'[q] = task[q]
  BY <1>1, Put
<1>4. /\ thread' \in [Threads -> Thread] /\ thread'[t] = Joined
      /\ \A u \in Threads \ {t} : thread'[u] = thread[u]
  BY <1>1, IdleTask DEF TypeOK, Join
<1> HIDE DEF t
<1>5. TypeOK'
  BY <1>1, <1>3, <1>4 DEF TypeOK, OtherTypes, Statuses
<1>6. Shapes'
  <2>1. Shape(p)'
    <3>1. /\ x.pc \notin Handling \cup {"exiting"} /\ x.at = None /\ x.todo \cap Threads = {}
          /\ Fits(x)'
      BY DEF Handless, Fits
    <3> QED BY <1>3, <3>1 DEF Shape, Handling
  <2>2. ASSUME NEW q \in All \ {p} PROVE Shape(q)'
    BY <1>1, <1>2, <1>3, <1>4, OthersKeep
  <2> QED BY <2>1, <2>2 DEF Shapes
<1>7. Serving'
  BY <1>1, <1>2, <1>4 DEF MInv, Serving, Holding, TypeOK
<1>8. Apart'
  <2>1. x.at = None /\ x.todo \cap Threads = {}
    BY DEF Handless
  <2>2. \A i \in Ids : mounts'[i] = mounts[i] /\ mounts[i] \in Threads \cup {None}
    BY <1>1 DEF TypeOK
  <2>3. \A q \in All : task[q].at \in Threads \cup {None}
    BY <1>1, TaskFields DEF TypeOK
  <2>4. \A i \in Ids, q \in All : mounts'[i] # None => /\ task'[q].at # mounts'[i]
                                                     /\ mounts'[i] \notin task'[q].todo
    BY <1>3, <2>1, <2>2 DEF MInv, Apart
  <2>5. \A q, r \in All : /\ task'[q].at # None => task'[q].at \notin task'[r].todo
                          /\ q # r /\ task'[q].at # None => task'[q].at # task'[r].at
    BY <1>3, <2>1, <2>3 DEF MInv, Apart
  <2>6. \A q, r \in All : q # r => task'[q].todo \cap task'[r].todo \cap Threads = {}
    BY <1>3, <2>1 DEF MInv, Apart
  <2> QED BY <2>4, <2>5, <2>6 DEF Apart
<1>9. Threaded'
  <2>1. ASSUME NEW u \in Threads, u \in Running' PROVE Looked(u)'
    <3>1. u # t
      BY <1>4, <2>1, IdleTask DEF Running
    <3>2. u \in Running /\ Looked(u)
      BY <1>4, <2>1, <3>1 DEF Running, MInv, Threaded
    <3>3. u # task[p].at /\ u \notin task[p].todo
      BY <1>1, <3>1 DEF Shape, t
    <3> QED BY <1>3, <1>4, <3>1, <3>2, <3>3 DEF Looked
  <2>2. \A u \in Threads : thread'[u].st # "none" => thread'[u].cfg \in Config
    BY <1>4, IdleTask DEF MInv, Threaded
  <2> QED BY <2>1, <2>2 DEF Threaded
<1> QED BY <1>5, <1>6, <1>7, <1>8, <1>9 DEF MInv

LEMMA JoinsThenReturns ==
    ASSUME MInv, NEW p \in All, task[p].at \in Threads \ Running, task[p].pc # "exiting",
           Join(p), Return(p), UNCHANGED mounts, OtherTypes'
    PROVE  MInv'
<1>1. PICK x \in Task : /\ task' = [task EXCEPT ![p] = x]
                        /\ x.pc = (IF p \in Boot THEN "next" ELSE "idle")
                        /\ x.at = None /\ x.todo = {}
  BY Returned DEF MInv
<1>2. Handless(x) /\ Fits(x)
  BY <1>1 DEF Handless, Fits, Handling, Mounting, Naming
<1> QED BY <1>1, <1>2, Joins

LEMMA EndsJoin ==
    ASSUME MInv, NEW p \in All,
           \/ SpawnReturns(p) /\ thread[task[p].at].st = "failed"
           \/ SpawnJoined(p) \/ Stopped(p) \/ ResetStopped(p)
    PROVE  MInv'
<1>1. OtherTypes /\ Shape(p) /\ task[p] \in Task
  BY ShapeOf, Types DEF MInv
<1>2. /\ task[p].pc \in {"waiting", "joining", "stopping", "resetting"}
      /\ task[p].at \in Threads \ Running /\ UNCHANGED mounts /\ Join(p)
  BY <1>1 DEF SpawnReturns, SpawnJoined, Stopped, ResetStopped, At, Shape, Handling, Failed, Running
<1>3. task[p].pc # "resetting" => task[p].id \in Ids
  BY <1>1, <1>2 DEF Shape, Fits, Mounting, Naming
<1>4. CASE ~ResetStopped(p)
  <2>1. OtherTypes' /\ Return(p)
    BY <1>1, <1>3, <1>4 DEF SpawnReturns, SpawnJoined, Stopped, Failed, OtherTypes, Quiet,
                            Show, Statuses, At
  <2> QED BY <1>2, <2>1, JoinsThenReturns
<1>5. CASE ResetStopped(p)
  <2> DEFINE x == [task[p] EXCEPT !.at = None]
  <2>1. task' = [task EXCEPT ![p] = x] /\ x \in Task /\ x.pc = "resetting" /\ x.at = None
        /\ x.todo = task[p].todo /\ x.id = task[p].id
    BY <1>1, <1>5 DEF ResetStopped, At, Task
  <2> HIDE DEF x
  <2>2. task[p].pc = "resetting"
    BY <1>5 DEF ResetStopped, At
  <2>3. Handless(x) /\ Fits(x)
    BY <1>1, <2>1, <2>2 DEF Shape, Handless, Fits, Handling, Mounting, Naming
  <2>4. OtherTypes'
    <3>1. UNCHANGED <<row, blocks>> /\ Quiet /\ Show(task[p].id, "offline")
      BY <1>5 DEF ResetStopped
    <3> QED BY <1>1, <3>1 DEF OtherTypes, Quiet, Show, Statuses
  <2> QED BY <1>2, <2>1, <2>2, <2>3, <2>4, Joins
<1> QED BY <1>4, <1>5

\* The handles stay where they are.
LEMMA ApartStays ==
    ASSUME MInv, UNCHANGED mounts,
           \A q \in All : task'[q].at = task[q].at /\ task'[q].todo = task[q].todo
    PROVE  Apart'
BY DEF MInv, Apart

\* A thread is told.
LEMMA Tells ==
    ASSUME TypeOK, NEW t \in Threads, thread' = [thread EXCEPT ![t].told = TRUE]
    PROVE  /\ thread' \in [Threads -> Thread]
           /\ \A u \in Threads : u # t => thread'[u] = thread[u]
           /\ \A u \in Threads : /\ thread'[u].st = thread[u].st /\ thread'[u].cfg = thread[u].cfg
                                 /\ thread'[u].net = thread[u].net
           /\ \A u \in Threads : thread[u].told \/ u = t => thread'[u].told
<1>1. thread \in [Threads -> Thread]
  BY DEF TypeOK
<1>2. thread' \in [Threads -> Thread] /\ \A u \in Threads : u # t => thread'[u] = thread[u]
  BY <1>1 DEF Thread
<1>3. /\ thread'[t].st = thread[t].st /\ thread'[t].cfg = thread[t].cfg /\ thread'[t].told
      /\ thread'[t].net = thread[t].net
  BY <1>1 DEF Thread
<1> QED BY <1>2, <1>3

LEMMA WaitEnds ==
    ASSUME MInv, NEW p \in All,
           \/ SpawnReturns(p) /\ thread[task[p].at].st # "failed"
           \/ SpawnTimesOut(p)
    PROVE  MInv'
<1> DEFINE t == task[p].at
<1>1. TypeOK /\ Shape(p) /\ task[p] \in Task /\ task[p].pc = "waiting" /\ t \in Threads
  BY ShapeOf DEF MInv, SpawnReturns, SpawnTimesOut, At, Shape, Handling
<1>2. /\ \A i \in Ids : mounts[i] # t
      /\ \A q \in All : t \notin task[q].todo
      /\ \A q \in All \ {p} : task[q].at # t
  BY <1>1, Own
<1>3. UNCHANGED <<row, mounts, blocks, shown>> /\ Quiet
  BY DEF SpawnReturns, SpawnTimesOut
<1>4. PICK pc \in {"insert", "joining"} :
         /\ Goto(p, pc)
         /\ pc = "insert" => UNCHANGED thread /\ thread[t].st \notin {"starting", "failed"}
         /\ pc = "joining" => thread' = [thread EXCEPT ![t].told = TRUE]
  BY DEF SpawnReturns, SpawnTimesOut
<1>12. PICK x \in Task :
          /\ task' = [task EXCEPT ![p] = x] /\ x.pc = pc
          /\ x.id = task[p].id /\ x.at = t /\ x.got = task[p].got /\ x.todo = task[p].todo
  <2>1. pc \in Pcs
    BY DEF Pcs
  <2> DEFINE y == [task[p] EXCEPT !.pc = pc]
  <2>2. /\ task' = [task EXCEPT ![p] = y] /\ y \in Task /\ y.pc = pc
        /\ y.id = task[p].id /\ y.at = t /\ y.got = task[p].got /\ y.todo = task[p].todo
    BY <1>1, <1>4, <2>1, Goes
  <2> HIDE DEF y
  <2> QED BY <2>2
<1>5. /\ task' \in [All -> Task] /\ task'[p] = x /\ \A q \in All \ {p} : task'[q] = task[q]
  BY <1>1, <1>12, Put
<1>6. /\ thread' \in [Threads -> Thread]
      /\ \A u \in Threads \ {t} : thread'[u] = thread[u]
      /\ thread'[t].st = thread[t].st /\ thread'[t].cfg = thread[t].cfg
      /\ pc = "joining" => thread'[t].told
      /\ pc = "insert" => thread'[t] = thread[t] /\ thread[t].st \notin {"starting", "failed"}
      /\ thread[t].told => thread'[t].told
  <2>1. thread \in [Threads -> Thread]
    BY <1>1 DEF TypeOK
  <2>2. CASE pc = "insert"
    BY <1>1, <1>4, <2>1, <2>2
  <2>3. CASE pc = "joining"
    BY <1>1, <1>4, <2>1, <2>3 DEF Thread
  <2> QED BY <1>4, <2>2, <2>3
<1> HIDE DEF t
<1>7. TypeOK'
  BY <1>1, <1>3, <1>5, <1>6 DEF TypeOK, Quiet
<1>8. Shapes'
  <2>1. Shape(p)'
    <3>1. /\ Fits(x)' /\ x.todo \cap Threads = {} /\ thread[t].cfg = x.got /\ ~thread[t].told
          /\ thread[t].st \in {"starting", "failed", "ready", "parked"}
      BY <1>1, <1>12 DEF Shape, Fits, Mounting, Naming, t
    <3>2. pc = "insert" => t \in Holding'
      BY <1>1, <1>6, <3>1 DEF Holding
    <3>3. t # None
      BY <1>1, ConstantTypes
    <3> QED BY <1>1, <1>12, <1>5, <1>6, <3>1, <3>2, <3>3 DEF Shape, Handling
  <2>2. ASSUME NEW q \in All \ {p} PROVE Shape(q)'
    BY <1>1, <1>2, <1>5, <1>6, OthersKeep
  <2> QED BY <2>1, <2>2 DEF Shapes
<1>9. Serving'
  BY <1>1, <1>2, <1>3, <1>6 DEF MInv, Serving, Holding, TypeOK
<1>10. Apart'
  <2>1. \A q \in All : task'[q].at = task[q].at /\ task'[q].todo = task[q].todo
    BY <1>5, <1>12 DEF t
  <2> QED BY <1>3, <2>1, ApartStays
<1>11. Threaded'
  <2>1. \A q \in All : task'[q].at = task[q].at /\ task'[q].todo = task[q].todo
    BY <1>5, <1>12 DEF t
  <2>2. Running' = Running
    BY <1>1, <1>6 DEF Running
  <2> QED BY <1>3, <1>6, <2>1, <2>2 DEF MInv, Threaded, Looked
<1> QED BY <1>7, <1>8, <1>9, <1>10, <1>11 DEF MInv

LEMMA Inserts ==
    ASSUME MInv, NEW p \in All, Insert(p)
    PROVE  MInv'
<1> DEFINE t == task[p].at
           i == task[p].id
<1>1. /\ TypeOK /\ Shape(p) /\ task[p] \in Task /\ task[p].pc = "insert"
      /\ t \in Threads /\ i \in Ids /\ t \in Holding /\ ~thread[t].told /\ thread[t].cfg.id = i
      /\ task[p].todo \cap Threads = {}
  <2>1. Shape(p) /\ Fits(task[p]) /\ task[p].pc = "insert"
    BY ShapeOf DEF Insert, At
  <2>2. t \in Threads /\ i \in Ids /\ thread[t].cfg = task[p].got /\ task[p].got.id = i
    BY <2>1 DEF Shape, Fits, Handling, Mounting
  <2> QED BY <2>1, <2>2, ShapeOf DEF MInv, Shape
<1>2. /\ \A j \in Ids : mounts[j] # t
      /\ \A q \in All : t \notin task[q].todo
      /\ \A q \in All \ {p} : task[q].at # t
  BY <1>1, Own
<1>3. UNCHANGED <<row, blocks, shown>> /\ Quiet
  BY DEF Insert
<1>4. PICK x \in Task : /\ task' = [task EXCEPT ![p] = x] /\ Handless(x) /\ Fits(x)
  <2>1. PICK x \in Task : /\ task' = [task EXCEPT ![p] = x]
                          /\ x.pc = (IF p \in Boot THEN "next" ELSE "idle")
                          /\ x.at = None /\ x.todo = {}
    BY <1>1, Returned DEF Insert
  <2>2. Handless(x) /\ Fits(x)
    BY <2>1 DEF Handless, Fits, Handling, Mounting, Naming
  <2> QED BY <2>1, <2>2
<1>5. /\ task' \in [All -> Task] /\ task'[p] = x /\ \A q \in All \ {p} : task'[q] = task[q]
  BY <1>1, <1>4, Put
<1>6. /\ mounts \in [Ids -> Threads \cup {None}]
      /\ mounts' \in [Ids -> Threads \cup {None}] /\ mounts'[i] = t
      /\ \A j \in Ids \ {i} : mounts'[j] = mounts[j]
  BY <1>1 DEF Insert, TypeOK
<1>7. /\ \A j \in Ids \ {i} : mounts[j] # None => mounts[j] # mounts[i]
      /\ t # mounts[i] /\ t # None
  BY <1>1, <1>2, ConstantTypes DEF MInv, Serving
<1>8. /\ thread' \in [Threads -> Thread]
      /\ \A u \in Threads : u # mounts[i] => thread'[u] = thread[u]
      /\ \A u \in Threads : thread'[u].st = thread[u].st /\ thread'[u].cfg = thread[u].cfg
                            /\ (thread[u].told \/ u = mounts[i] => thread'[u].told)
  <2>1. thread \in [Threads -> Thread] /\ thread' = Dropped(i)
    BY <1>1 DEF Insert, TypeOK
  <2>2. CASE mounts[i] = None
    BY <2>1, <2>2, ConstantTypes DEF Dropped
  <2>3. CASE mounts[i] # None
    <3>1. mounts[i] \in Threads
      BY <1>1, <1>6, <2>3
    <3>2. thread' = [thread EXCEPT ![mounts[i]].told = TRUE]
      BY <2>1, <2>3 DEF Dropped
    <3> QED BY <1>1, <3>1, <3>2, Tells
  <2> QED BY <2>2, <2>3
<1> HIDE DEF t, i
<1>9. TypeOK'
  BY <1>1, <1>3, <1>5, <1>6, <1>8 DEF TypeOK, Quiet
<1>10. \A q \in All : mounts[i] # None => mounts[i] # task[q].at /\ mounts[i] \notin task[q].todo
  BY <1>1 DEF MInv, Apart
<1>11. Shapes'
  <2>1. Shape(p)'
    <3>1. /\ x.pc \notin Handling \cup {"exiting"} /\ x.at = None /\ x.todo \cap Threads = {}
          /\ Fits(x)'
      BY <1>4 DEF Handless, Fits
    <3> QED BY <1>5, <3>1 DEF Shape, Handling
  <2>2. ASSUME NEW q \in All \ {p} PROVE Shape(q)'
    <3>1. \A u \in Threads : u = task[q].at \/ u \in task[q].todo => u # mounts[i]
      BY <1>10, ConstantTypes
    <3> QED BY <1>5, <1>8, <3>1, OthersKeep
  <2> QED BY <2>1, <2>2 DEF Shapes
<1>12. Serving'
  <2>1. ASSUME NEW j \in Ids, mounts'[j] # None
        PROVE  mounts'[j] \in Holding' /\ ~thread'[mounts'[j]].told /\ thread'[mounts'[j]].cfg.id = j
    <3>1. CASE j = i
      BY <1>1, <1>6, <1>7, <1>8, <3>1 DEF Holding
    <3>2. CASE j # i
      <4>1. mounts'[j] = mounts[j] /\ mounts[j] # mounts[i] /\ mounts[j] \in Threads
        BY <1>6, <1>7, <2>1, <3>2
      <4>2. mounts[j] \in Holding /\ ~thread[mounts[j]].told /\ thread[mounts[j]].cfg.id = j
        BY <2>1, <4>1 DEF MInv, Serving
      <4> QED BY <1>8, <4>1, <4>2 DEF Holding
    <3> QED BY <3>1, <3>2
  <2> QED BY <2>1 DEF Serving
<1>13. Apart'
  <2>1. x.at = None /\ x.todo \cap Threads = {}
    BY <1>4 DEF Handless
  <2>2. \A q \in All : task[q].at \in Threads \cup {None}
    BY <1>1, TaskFields DEF TypeOK
  <2>3. ASSUME NEW j \in Ids, NEW q \in All, mounts'[j] # None
        PROVE  task'[q].at # mounts'[j] /\ mounts'[j] \notin task'[q].todo
    <3>1. mounts'[j] \in Threads
      BY <1>6, <2>3
    <3>2. CASE q = p
      BY <1>5, <2>1, <2>3, <3>1, <3>2
    <3>3. CASE q # p
      BY <1>2, <1>5, <1>6, <2>3, <3>3 DEF MInv, Apart
    <3> QED BY <3>2, <3>3
  <2>4. \A q, r \in All : /\ task'[q].at # None => task'[q].at \notin task'[r].todo
                          /\ q # r /\ task'[q].at # None => task'[q].at # task'[r].at
    BY <1>5, <2>1, <2>2 DEF MInv, Apart
  <2>5. \A q, r \in All : q # r => task'[q].todo \cap task'[r].todo \cap Threads = {}
    BY <1>5, <2>1 DEF MInv, Apart
  <2> QED BY <2>3, <2>4, <2>5 DEF Apart
<1>14. Threaded'
  <2>1. ASSUME NEW u \in Threads, u \in Running' PROVE Looked(u)'
    <3>1. u \in Running /\ Looked(u)
      BY <1>8, <2>1 DEF Running, MInv, Threaded
    <3>2. CASE u = mounts[i] \/ thread[u].told
      BY <1>8, <3>2 DEF Looked
    <3>3. CASE u = t
      BY <1>1, <1>6, <3>3 DEF Looked
    <3>4. CASE u # t /\ u # mounts[i] /\ ~thread[u].told
      <4>1. u # task[p].at /\ u \notin task[p].todo
        BY <1>1, <3>4 DEF t
      <4> QED BY <1>5, <1>6, <3>1, <3>4, <4>1 DEF Looked
    <3> QED BY <3>2, <3>3, <3>4
  <2>2. \A u \in Threads : thread'[u].st # "none" => thread'[u].cfg \in Config
    BY <1>8 DEF MInv, Threaded
  <2> QED BY <2>1, <2>2 DEF Threaded
<1> QED BY <1>9, <1>11, <1>12, <1>13, <1>14 DEF MInv

\* Threads are told, and are otherwise as they were.
Telling(ts) ==
    /\ thread' \in [Threads -> Thread]
    /\ \A u \in Threads \ ts : thread'[u] = thread[u]
    /\ \A u \in Threads : /\ thread'[u].st = thread[u].st /\ thread'[u].cfg = thread[u].cfg
                          /\ thread'[u].net = thread[u].net
    /\ \A u \in ts : thread'[u].told

LEMMA ToldTells ==
    ASSUME TypeOK, NEW ts \in SUBSET Threads
    PROVE  /\ thread' = Told(ts) => Telling(ts)
           /\ thread' = thread => Telling({})
<1>1. thread \in [Threads -> Thread]
  BY DEF TypeOK
<1>2. ASSUME thread' = Told(ts) PROVE Telling(ts)
  <2>1. \A u \in Threads \ ts : thread'[u] = thread[u]
    BY <1>2 DEF Told
  <2>2. ASSUME NEW u \in ts
        PROVE  /\ thread'[u] \in Thread /\ thread'[u].told
               /\ thread'[u].st = thread[u].st /\ thread'[u].cfg = thread[u].cfg
               /\ thread'[u].net = thread[u].net
    <3>1. thread'[u] = [thread[u] EXCEPT !.told = TRUE]
      BY <1>2 DEF Told
    <3> QED BY <1>1, <3>1 DEF Thread
  <2>3. thread' = [u \in Threads |-> thread'[u]]
    BY <1>2 DEF Told
  <2>4. \A u \in Threads : thread'[u] \in Thread
    BY <1>1, <2>1, <2>2
  <2>5. thread' \in [Threads -> Thread]
    BY <2>3, <2>4
  <2> QED BY <2>1, <2>2, <2>5 DEF Telling
<1>3. ASSUME thread' = thread PROVE Telling({})
  BY <1>1, <1>3 DEF Telling
<1> QED BY <1>2, <1>3

\* Handles are p's or of the map.
Has(p, t) == t = task[p].at \/ t \in task[p].todo
InMap(t) == \E i \in Ids : mounts[i] = t

\* Handles go from the map to a task, some of which it tells.
LEMMA HandsOver ==
    ASSUME MInv, NEW p \in All, NEW x \in Task, task' = [task EXCEPT ![p] = x],
           NEW ts \in SUBSET Threads, Telling(ts),
           mounts' \in [Ids -> Threads \cup {None}],
           \A i \in Ids : mounts'[i] \in {mounts[i], None}, OtherTypes', Shape(p)',
           \A t \in Threads : t = x.at \/ t \in x.todo =>
              (Has(p, t) \/ InMap(t)) /\ \A i \in Ids : mounts'[i] # t,
           x.at # None => x.at \notin x.todo,
           \A t \in ts : (Has(p, t) \/ InMap(t)) /\ \A i \in Ids : mounts'[i] # t,
           \A t \in Running : Has(p, t) \/ InMap(t)
              => thread'[t].told \/ t = x.at \/ t \in x.todo \/ \E i \in Ids : mounts'[i] = t
    PROVE  MInv'
<1>1. TypeOK /\ None \notin Threads
  BY ConstantTypes DEF MInv
<1>2. /\ task' \in [All -> Task] /\ task'[p] = x /\ \A q \in All \ {p} : task'[q] = task[q]
  BY <1>1, Put
<1>3. \A t \in Threads : Has(p, t) \/ InMap(t) => \A q \in All \ {p} : ~Has(q, t)
  <2>1. ASSUME NEW t \in Threads, Has(p, t), NEW q \in All \ {p} PROVE ~Has(q, t)
    BY <2>1, Own DEF Has
  <2>2. ASSUME NEW t \in Threads, InMap(t), NEW q \in All PROVE ~Has(q, t)
    BY <2>2, Own DEF Has, InMap
  <2> QED BY <2>1, <2>2
<1>4. TypeOK'
  BY <1>2 DEF TypeOK, OtherTypes, Statuses, Telling
<1>5. Shapes'
  <2>1. ASSUME NEW q \in All \ {p} PROVE Shape(q)'
    <3>1. ASSUME NEW t \in Threads, t = task[q].at \/ t \in task[q].todo PROVE thread'[t] = thread[t]
      <4>1. t \notin ts
        BY <1>3, <3>1 DEF Has
      <4> QED BY <4>1 DEF Telling
    <3> QED BY <1>2, <3>1, OthersKeep
  <2> QED BY <2>1 DEF Shapes
<1>6. Serving'
  <2>1. ASSUME NEW i \in Ids, mounts'[i] # None
        PROVE  mounts'[i] \in Holding' /\ ~thread'[mounts'[i]].told /\ thread'[mounts'[i]].cfg.id = i
    <3>1. mounts'[i] = mounts[i] /\ mounts[i] \in Threads
      BY <1>1, <2>1 DEF TypeOK
    <3>2. mounts[i] \in Holding /\ ~thread[mounts[i]].told /\ thread[mounts[i]].cfg.id = i
      BY <2>1, <3>1 DEF MInv, Serving
    <3>3. mounts[i] \notin ts
      BY <3>1
    <3> QED BY <3>1, <3>2, <3>3 DEF Telling, Holding
  <2> QED BY <2>1 DEF Serving
<1>7. Apart'
  <2>1. x.at \in Threads \cup {None}
    BY TaskFields
  <2>2. ASSUME NEW i \in Ids, NEW q \in All, mounts'[i] # None
        PROVE  task'[q].at # mounts'[i] /\ mounts'[i] \notin task'[q].todo
    <3>1. mounts'[i] = mounts[i] /\ mounts[i] \in Threads
      BY <1>1, <2>2 DEF TypeOK
    <3>2. CASE q = p
      BY <1>2, <3>1, <3>2
    <3>3. CASE q # p
      BY <1>2, <3>1, <3>3, <1>1 DEF MInv, Apart
    <3> QED BY <3>2, <3>3
  <2>3. ASSUME NEW t \in Threads, t = x.at \/ t \in x.todo, NEW q \in All \ {p}
        PROVE  task[q].at # t /\ t \notin task[q].todo
    BY <1>3, <2>3 DEF Has
  <2>4. \A q \in All : task[q].at \in Threads \cup {None}
    BY <1>1, TaskFields DEF TypeOK
  <2>5. ASSUME NEW q \in All, NEW r \in All, task'[q].at # None
        PROVE  task'[q].at \notin task'[r].todo /\ (q # r => task'[q].at # task'[r].at)
    <3>1. CASE q = p /\ r = p
      BY <1>2, <2>5, <3>1
    <3>2. CASE q = p /\ r # p
      BY <1>2, <2>1, <2>3, <2>5, <3>2
    <3>3. CASE q # p /\ r = p
      BY <1>2, <2>3, <2>4, <2>5, <3>3
    <3>4. CASE q # p /\ r # p
      BY <1>2, <2>5, <3>4 DEF MInv, Apart
    <3> QED BY <3>1, <3>2, <3>3, <3>4
  <2>6. ASSUME NEW q \in All, NEW r \in All, q # r
        PROVE  task'[q].todo \cap task'[r].todo \cap Threads = {}
    <3>1. CASE q = p \/ r = p
      BY <1>2, <2>3, <2>6, <3>1
    <3>2. CASE q # p /\ r # p
      BY <1>2, <2>6, <3>2 DEF MInv, Apart
    <3> QED BY <3>1, <3>2
  <2> QED BY <2>2, <2>5, <2>6 DEF Apart
<1>8. Threaded'
  <2>1. ASSUME NEW t \in Threads, t \in Running' PROVE Looked(t)'
    <3>1. t \in Running /\ Looked(t)
      BY <2>1 DEF Telling, Running, MInv, Threaded
    <3>2. CASE Has(p, t) \/ InMap(t)
      BY <1>2, <3>1, <3>2 DEF Looked
    <3>3. CASE thread[t].told
      <4>1. thread'[t].told
        BY <3>3 DEF Telling
      <4> QED BY <4>1 DEF Looked
    <3>4. CASE ~(Has(p, t) \/ InMap(t)) /\ ~thread[t].told
      BY <1>2, <3>1, <3>4 DEF Looked, Has, InMap
    <3> QED BY <3>2, <3>3, <3>4
  <2>2. \A u \in Threads : thread'[u].st # "none" => thread'[u].cfg \in Config
    BY DEF MInv, Threaded, Telling
  <2> QED BY <2>1, <2>2 DEF Threaded
<1> QED BY <1>4, <1>5, <1>6, <1>7, <1>8 DEF MInv

LEMMA UnmountTakes ==
    ASSUME MInv, NEW p \in All, NEW i \in Ids, Unmount(p, i)
    PROVE  MInv'
<1>0. PICK t \in Threads : t = mounts[i]
  BY DEF MInv, TypeOK, Unmount
<1> DEFINE x == New("stopping", i, t, {})
<1>1. TypeOK /\ t \in Threads /\ i \in Ids \cup {None} /\ t \in Threads \cup {None}
      /\ "stopping" \in Pcs /\ {} \in Todos /\ Begin(p, "unmount", "stopping", i, t, {})
  BY <1>0 DEF MInv, TypeOK, Unmount, Pcs, Todos
<1>2. x \in Task /\ task' = [task EXCEPT ![p] = x]
  <2>1. /\ Begin(p, "unmount", "stopping", i, t, {}) /\ "stopping" \in Pcs /\ i \in Ids \cup {None}
        /\ t \in Threads \cup {None} /\ {} \in Todos
    BY <1>1
  <2>2. New("stopping", i, t, {}) \in Task
    BY <2>1, Begun DEF New, Latest
  <2>3. task' = [task EXCEPT ![p] = x]
    BY <2>1 DEF Begin, New, Latest
  <2> QED BY <2>2, <2>3
<1>12. /\ begun' \in 0..MaxCommands
       /\ reset' = ("unmount" = "reset") /\ scene' = scene /\ up' = up /\ Handless(task[p])
  <2> QED BY <1>1, Begun
<1>3. x.pc = "stopping" /\ x.id = i /\ x.at = t /\ x.todo = {}
  BY DEF New
<1>4. UNCHANGED <<row, blocks, shown>>
  BY DEF Unmount
<1>5. OtherTypes'
  BY <1>1, <1>12, <1>4, Types DEF OtherTypes
<1>6. {t} \in SUBSET Threads /\ Telling({t}) /\ thread'[t].told
  <2>1. thread' = Told({t}) /\ {t} \in SUBSET Threads
    BY <1>0, <1>1 DEF Unmount
  <2>2. Telling({t})
    BY <1>1, <2>1, ToldTells
  <2> QED BY <2>1, <2>2 DEF Telling
<1>7. /\ mounts' \in [Ids -> Threads \cup {None}] /\ mounts'[i] = None
      /\ \A j \in Ids \ {i} : mounts'[j] = mounts[j] /\ mounts[j] # t
  BY <1>0, <1>1 DEF Unmount, TypeOK, MInv, Serving
<1>8. InMap(t) /\ \A j \in Ids : mounts'[j] # t
  BY <1>0, <1>1, <1>7, ConstantTypes DEF InMap
<1>9. Shape(p)'
  <2>1. task'[p] = x
    BY <1>1, <1>2, Put
  <2> HIDE DEF x
  <2> QED BY <1>1, <1>3, <1>6, <2>1 DEF Shape, Fits, Handling, Mounting, Naming
<1>10. \A u \in Running : Has(p, u) \/ InMap(u) =>
          thread'[u].told \/ u = x.at \/ \E j \in Ids : mounts'[j] = u
  <2>1. \A u \in Running : ~Has(p, u)
    BY <1>12, ConstantTypes DEF Handless, Has, Running
  <2> QED BY <1>0, <1>3, <1>7, <2>1 DEF InMap
<1> HIDE DEF x
<1>11. \A u \in Threads : u = x.at \/ u \in x.todo =>
          (Has(p, u) \/ InMap(u)) /\ \A j \in Ids : mounts'[j] # u
  BY <1>3, <1>8
<1> QED BY <1>2, <1>3, <1>5, <1>6, <1>7, <1>8, <1>9, <1>10, <1>11, HandsOver

LEMMA ResetTakesOne ==
    ASSUME MInv, NEW p \in All, ResetTakes(p)
    PROVE  MInv'
<1>1. /\ TypeOK /\ Shape(p) /\ Fits(task[p]) /\ task[p] \in Task /\ task[p].pc = "resetting"
      /\ task[p].at = None /\ task[p].todo \subseteq Ids
  BY ShapeOf DEF MInv, ResetTakes, At, Fits
<1>2. PICK i \in task[p].todo :
        /\ task' = [task EXCEPT ![p].id = i, ![p].at = mounts[i], ![p].todo = @ \ {i}]
        /\ mounts' = [mounts EXCEPT ![i] = None]
        /\ thread' = Told({mounts[i]} \cap Threads)
  BY DEF ResetTakes
<1>0. PICK t : t = mounts[i]
  OBVIOUS
<1>3. i \in Ids /\ t \in Threads \cup {None}
  BY <1>0, <1>1 DEF TypeOK
<1>4. PICK x \in Task :
         /\ task' = [task EXCEPT ![p] = x] /\ x.pc = "resetting" /\ x.id = i /\ x.at = t
         /\ x.todo = task[p].todo \ {i} /\ x.todo \subseteq Ids
  <2> DEFINE y == [task[p] EXCEPT !.id = i, !.at = t, !.todo = task[p].todo \ {i}]
  <2>1. task' = [task EXCEPT ![p] = y]
    BY <1>0, <1>1, <1>2 DEF TypeOK, Task
  <2>2. /\ y \in Task /\ y.pc = "resetting" /\ y.id = i /\ y.at = t
        /\ y.todo = task[p].todo \ {i} /\ y.todo \subseteq Ids
    BY <1>1, <1>3 DEF Task
  <2> HIDE DEF y
  <2> QED BY <2>1, <2>2
<1>5. UNCHANGED <<row, blocks, shown>> /\ Quiet
  BY DEF ResetTakes
<1>6. OtherTypes'
  BY <1>1, <1>5, Types DEF OtherTypes, Quiet
<1>7. PICK ts \in SUBSET Threads :
         ts = {t} \cap Threads /\ Telling(ts) /\ (t # None => thread'[t].told)
  <2> DEFINE us == {t} \cap Threads
  <2>1. thread' = Told(us) /\ us \in SUBSET Threads /\ (t # None => t \in us)
    BY <1>0, <1>2, <1>3
  <2> HIDE DEF us
  <2>2. Telling(us)
    BY <1>1, <2>1, ToldTells
  <2> QED BY <2>1, <2>2 DEF Telling, us
<1>8. /\ mounts' \in [Ids -> Threads \cup {None}] /\ mounts'[i] = None
      /\ \A j \in Ids \ {i} : mounts'[j] = mounts[j] /\ (t # None => mounts[j] # t)
  BY <1>0, <1>1, <1>2, <1>3 DEF TypeOK, MInv, Serving
<1>9. t # None => InMap(t) /\ \A j \in Ids : mounts'[j] # t
  BY <1>0, <1>3, <1>8 DEF InMap
<1>10. Shape(p)'
  <2>1. task'[p] = x
    BY <1>1, <1>4, Put
  <2>2. x.todo \cap Threads = {}
    BY <1>4, ConstantTypes
  <2> QED BY <1>3, <1>4, <1>7, <2>1, <2>2 DEF Shape, Fits, Handling, Mounting, Naming
<1>11. \A u \in Running : Has(p, u) \/ InMap(u) =>
          thread'[u].told \/ u = x.at \/ u \in x.todo \/ \E j \in Ids : mounts'[j] = u
  <2>1. \A u \in Running : ~Has(p, u)
    BY <1>1, ConstantTypes DEF Has, Running
  <2> QED BY <1>0, <1>4, <1>8, <2>1 DEF InMap
<1>12. \A u \in Threads : u = x.at \/ u \in x.todo =>
          (Has(p, u) \/ InMap(u)) /\ \A j \in Ids : mounts'[j] # u
  BY <1>4, <1>9, ConstantTypes
<1>13. x.at # None => x.at \notin x.todo
  BY <1>3, <1>4, ConstantTypes
<1>14. \A u \in ts : (Has(p, u) \/ InMap(u)) /\ \A j \in Ids : mounts'[j] # u
  BY <1>7, <1>9, ConstantTypes
<1>15. \A j \in Ids : mounts'[j] \in {mounts[j], None}
  BY <1>8
<1>16. mounts' \in [Ids -> Threads \cup {None}] /\ Telling(ts) /\ task' = [task EXCEPT ![p] = x]
  BY <1>4, <1>7, <1>8
<1> QED BY <1>6, <1>16, <1>10, <1>11, <1>12, <1>13, <1>14, <1>15, HandsOver

LEMMA ExitTakes ==
    ASSUME MInv, NEW p \in All, Exit(p)
    PROVE  MInv'
<1> DEFINE ms == {mounts[i] : i \in Ids} \cap Threads
           x  == New("exiting", None, None, ms)
<1>1. /\ TypeOK /\ None \in Ids \cup {None} /\ None \in Threads \cup {None} /\ "exiting" \in Pcs
      /\ ms \in Todos /\ Begin(p, "exit", "exiting", None, None, ms)
  BY DEF MInv, Exit, Pcs, Todos
<1>2. x \in Task /\ task' = [task EXCEPT ![p] = x]
  <2> HIDE DEF ms
  <2> QED BY <1>1, Begun DEF New, Latest
<1>15. /\ begun' \in 0..MaxCommands
       /\ reset' = ("exit" = "reset") /\ scene' = scene /\ up' = up /\ Handless(task[p])
  <2> HIDE DEF ms
  <2> QED BY <1>1, Begun
<1>3. x.pc = "exiting" /\ x.id = None /\ x.at = None /\ x.todo = ms
  BY DEF New
<1>4. UNCHANGED <<row, thread, blocks, shown>> /\ mounts' = [i \in Ids |-> None]
  BY DEF Exit
<1>5. OtherTypes'
  BY <1>1, <1>15, <1>4, Types DEF OtherTypes
<1>6. Telling({}) /\ {} \in SUBSET Threads
  BY <1>1, <1>4, ToldTells
<1>7. Shape(p)'
  <2>1. task'[p] = x
    BY <1>1, <1>2, Put
  <2>2. \A t \in ms : t \in Holding /\ ~thread[t].told
    BY ConstantTypes DEF MInv, Serving
  <2>3. Holding' = Holding /\ thread' = thread
    BY <1>4 DEF Holding
  <2>4. ms \subseteq Threads
    OBVIOUS
  <2> HIDE DEF x, ms
  <2> QED BY <1>3, <2>1, <2>2, <2>3, <2>4 DEF Shape, Fits, Handling, Mounting, Naming
<1>8. \A t \in ms : InMap(t)
  BY DEF InMap
<1>9. \A t \in Threads : InMap(t) => t \in ms
  BY DEF InMap
<1>10. \A t \in Threads : ~Has(p, t)
  BY <1>15, ConstantTypes DEF Handless, Has
<1>11. \A i \in Ids : mounts'[i] = None
  BY <1>4
<1>12. mounts' \in [Ids -> Threads \cup {None}]
  BY <1>4
<1> HIDE DEF x, ms
<1>13. \A t \in Threads : t = x.at \/ t \in x.todo =>
          (Has(p, t) \/ InMap(t)) /\ \A i \in Ids : mounts'[i] # t
  BY <1>3, <1>8, <1>11, ConstantTypes
<1>14. \A t \in Running : Has(p, t) \/ InMap(t) => t \in x.todo
  BY <1>3, <1>9, <1>10 DEF Running
<1> QED BY <1>2, <1>3, <1>5, <1>6, <1>7, <1>11, <1>12, <1>13, <1>14, HandsOver

LEMMA ExitTellsOne ==
    ASSUME MInv, NEW p \in All, ExitTells(p)
    PROVE  MInv'
<1>1. /\ TypeOK /\ Shape(p) /\ Fits(task[p]) /\ task[p] \in Task /\ task[p].pc = "exiting"
      /\ task[p].at \notin Running /\ task[p].todo \subseteq Threads
  BY ShapeOf DEF MInv, ExitTells, At, Fits
<1>2. PICK t \in task[p].todo :
        /\ thread' = Told({t})
        /\ task' = [task EXCEPT ![p].at = t, ![p].todo = @ \ {t}]
  BY DEF ExitTells
<1>3. t \in Threads /\ t # None
  BY <1>1, ConstantTypes
<1>4. PICK x \in Task :
         /\ task' = [task EXCEPT ![p] = x] /\ x.pc = "exiting" /\ x.at = t
         /\ x.todo = task[p].todo \ {t}
  <2> DEFINE y == [task[p] EXCEPT !.at = t, !.todo = task[p].todo \ {t}]
  <2>1. task' = [task EXCEPT ![p] = y]
    BY <1>1, <1>2 DEF TypeOK, Task
  <2>2. y \in Task /\ y.pc = "exiting" /\ y.at = t /\ y.todo = task[p].todo \ {t}
    BY <1>1, <1>3 DEF Task
  <2> HIDE DEF y
  <2> QED BY <2>1, <2>2
<1>5. UNCHANGED <<row, mounts, blocks, shown>> /\ Quiet
  BY DEF ExitTells
<1>6. OtherTypes'
  BY <1>1, <1>5, Types DEF OtherTypes, Quiet
<1>7. {t} \in SUBSET Threads /\ Telling({t}) /\ thread'[t].told
  BY <1>1, <1>2, <1>3, ToldTells DEF Telling
<1>8. Shape(p)'
  <2>1. task'[p] = x
    BY <1>1, <1>4, Put
  <2>2. \A u \in x.todo : u \in Holding' /\ ~thread'[u].told
    BY <1>1, <1>4, <1>7 DEF Shape, Telling, Holding
  <2> QED BY <1>1, <1>3, <1>4, <1>7, <2>1, <2>2 DEF Shape, Fits, Handling, Mounting, Naming
<1>9. \A u \in Threads : u = x.at \/ u \in x.todo => Has(p, u)
  BY <1>4 DEF Has
<1>10. \A u \in Threads : Has(p, u) => \A i \in Ids : mounts'[i] # u
  BY <1>5, Own DEF Has
<1>11. \A u \in Running : Has(p, u) \/ InMap(u) =>
          u = x.at \/ u \in x.todo \/ \E i \in Ids : mounts'[i] = u
  BY <1>1, <1>4, <1>5 DEF Has, InMap
<1>12. mounts' \in [Ids -> Threads \cup {None}] /\ \A i \in Ids : mounts'[i] \in {mounts[i], None}
  BY <1>1, <1>5 DEF TypeOK
<1>13. Has(p, t)
  BY DEF Has
<1>14. \A u \in {t} : (Has(p, u) \/ InMap(u)) /\ \A j \in Ids : mounts'[j] # u
  BY <1>3, <1>10, <1>13
<1> QED BY <1>4, <1>6, <1>7, <1>8, <1>9, <1>10, <1>11, <1>12, <1>14, HandsOver

\* A step that has nothing to do with handles.
LEMMA SameHandles ==
    ASSUME MInv, UNCHANGED <<scene, row, mounts, thread, task, shown, begun>>,
           blocks' \in [Ids -> SUBSET Gens], reset' \in BOOLEAN, up' \in BOOLEAN
    PROVE  MInv'
<1>1. TypeOK'
  BY DEF MInv, TypeOK
<1>2. Shapes' /\ Serving'
  BY DEF MInv, Shapes, Shape, Fits, Serving, Holding
<1>3. Apart' /\ Threaded'
  BY DEF MInv, Apart, Threaded, Looked, Running
<1> QED BY <1>1, <1>2, <1>3 DEF MInv

LEMMA HandlesStay == MInv /\ [Next]_vars => MInv'
<1> SUFFICES ASSUME MInv, [Next]_vars PROVE MInv'
  OBVIOUS
<1>1. ASSUME NEW p \in All, Command(p) PROVE MInv'
  <2>1. 1..scene.drives \subseteq Ids
    BY SceneTypes, ConstantTypes DEF MInv, TypeOK, Ids
  <2>2. ASSUME NEW i \in 1..scene.drives, Unmount(p, i) PROVE MInv'
    BY <2>1, <2>2, UnmountTakes
  <2>3. CASE Exit(p)
    BY <2>3, ExitTakes
  <2>4. CASE ~Exit(p) /\ ~\E i \in 1..scene.drives : Unmount(p, i)
    BY <1>1, <2>4, CommandsQuietly DEF Command
  <2> QED BY <2>2, <2>3, <2>4
<1>2. ASSUME NEW p \in All, TaskStep(p) PROVE MInv'
  <2>1. CASE MountRead(p) \/ Retrieve(p) \/ Migrate(p)
    BY <2>1, MountsQuietly
  <2>2. CASE Spawn(p)
    BY <2>2, Spawns
  <2>3. CASE SpawnReturns(p) \/ SpawnTimesOut(p)
    BY <2>3, EndsJoin, WaitEnds
  <2>4. CASE SpawnJoined(p) \/ Stopped(p) \/ ResetStopped(p)
    BY <2>4, EndsJoin
  <2>5. CASE Insert(p)
    BY <2>5, Inserts
  <2>6. CASE Snapshot(p) \/ NextRow(p)
    BY <2>6, StartUpQuietly
  <2>7. CASE RemoveRow(p) \/ SetKey(p) \/ Store(p) \/ WritePrefix(p)
    BY <2>7, TableQuietly
  <2>8. CASE AddRow(p) \/ AddSecret(p)
    BY <2>8, AddsQuietly
  <2>9. CASE ResetTakes(p)
    BY <2>9, ResetTakesOne
  <2>10. CASE Wipe(p)
    BY <2>10, WipesQuietly
  <2>11. CASE ExitTells(p)
    BY <2>11, ExitTellsOne
  <2>12. CASE Exited(p)
    BY <2>12, SameHandles DEF Exited, MInv, TypeOK
  <2>13. CASE WipeFails(p)
    BY <2>13, FailsQuietly
  <2> QED BY <1>2, <2>1, <2>2, <2>3, <2>4, <2>5, <2>6, <2>7, <2>8, <2>9, <2>10, <2>11, <2>12, <2>13
          DEF TaskStep
<1>3. ASSUME NEW t \in Threads, Reads(t) PROVE MInv'
  <2> DEFINE c == thread[t].cfg
  <2>1. t \in Threads /\ c.id \in Ids /\ c.inc \in Gens
    BY <1>3, ConfigFields DEF Reads, Holding, MInv, Threaded
  <2>2. blocks' \in [Ids -> SUBSET Gens]
    BY <1>3, <2>1 DEF Reads, MInv, TypeOK
  <2> QED BY <1>3, <2>2, SameHandles DEF Reads, Quiet, MInv, TypeOK
<1>4. ASSUME NEW t \in Threads, ThreadStep(t) PROVE MInv'
  BY <1>4, ThreadsServe
<1>5. CASE Rest \/ UNCHANGED vars
  <2>1. UNCHANGED vars
    BY <1>5 DEF Rest
  <2> QED BY <2>1, SameHandles DEF vars, MInv, TypeOK
<1>6. ASSUME NEW t \in Threads, Turns(t) \/ Says(t) PROVE MInv'
  BY <1>6, NetStays
<1> QED BY <1>1, <1>2, <1>3, <1>4, <1>5, <1>6 DEF Next

LEMMA HandlesAlways == Spec => []MInv
BY InitHandles, HandlesStay, PTL DEF Spec

\* The map of mounts and the threads agree in every run: a handle in
\* AppState.mounts is of a thread that serves that drive and that nobody has
\* told to stop, and every thread that runs is in the map, in the hands of a
\* command, or told (mounts.rs spawn_mount and MountHandle, drives.rs).
THEOREM MapAgrees == Spec => []RegistryServes
<1>1. MInv => RegistryServes
  BY DEF MInv, RegistryServes, Serving, Threaded, Looked, Running
<1> QED BY <1>1, HandlesAlways, PTL

-----------------------------------------------------------------------------
(* What is shown.                                                          *)
(*                                                                         *)
(* A drive that is shown as mounted or online has a thread that serves it  *)
(* and has not yet taken its leave.                                        *)

Alive == {"mounted", "online"}

Said(t) == thread[t].st \in {"ready", "parked", "leaving"}

\* The flag of a thread, and the events that are due of it.
Steady(x) ==
    /\ x.st = "starting" => x.net = Online
    /\ x.net.calm => IF x.st = "ready" THEN x.net.online /\ x.net.due = {}
                                      ELSE x.net.due \subseteq {x.net.online}

Steadies == \A t \in Threads : Steady(thread[t])

Seen == \A i \in Ids : shown[i] \in Alive => \E t \in Threads : Said(t) /\ thread[t].cfg.id = i

\* What a step does that says nothing: threads that have spoken stay, and no
\* drive becomes shown as alive.
Silent ==
    /\ \A t \in Threads : Said(t) => Said(t)' /\ thread'[t].cfg = thread[t].cfg
    /\ \A i \in Ids : shown'[i] \in Alive => shown[i] \in Alive
    /\ \A t \in Threads : Steady(thread[t]) => Steady(thread'[t])

LEMMA SilentKeepsSeen ==
    ASSUME Seen, Silent
    PROVE  Seen'
<1> SUFFICES ASSUME NEW i \in Ids, shown'[i] \in Alive
             PROVE  \E t \in Threads : Said(t)' /\ thread'[t].cfg.id = i
  BY DEF Seen
<1>1. PICK t \in Threads : Said(t) /\ thread[t].cfg.id = i
  BY DEF Seen, Silent
<1> QED BY <1>1 DEF Silent

LEMMA ShowsOther ==
    ASSUME TypeOK, NEW i \in Ids, NEW s, s \notin Alive, Show(i, s)
    PROVE  \A j \in Ids : shown'[j] \in Alive => shown[j] \in Alive /\ j # i
BY DEF TypeOK, Show

LEMMA ThreadsSeen ==
    ASSUME MInv, Seen, NEW t \in Threads, ThreadStep(t)
    PROVE  Seen'
<1>1. TypeOK /\ thread \in [Threads -> Thread] /\ thread[t] \in Thread
  BY DEF MInv, TypeOK
<1>2. thread[t].st # "none" => thread[t].cfg.id \in Ids
  BY ConfigFields DEF MInv, Threaded
<1>3. CASE InitFails(t) \/ HostMounts(t)
  <2>1. \A u \in Threads : Said(u) => Said(u)' /\ thread'[u].cfg = thread[u].cfg
    BY <1>1, <1>3 DEF InitFails, HostMounts, Said, Thread
  <2> QED BY <1>3, <2>1 DEF InitFails, HostMounts, Seen
<1>4. CASE Announce(t)
  <2>1. thread'[t].st = "parked" /\ thread'[t].cfg = thread[t].cfg
        /\ \A u \in Threads \ {t} : thread'[u] = thread[u]
    BY <1>1, <1>4 DEF Announce, Thread
  <2>2. shown' = [shown EXCEPT ![thread[t].cfg.id] = "mounted"]
    BY <1>4 DEF Announce, Show
  <2>3. ASSUME NEW i \in Ids, shown'[i] \in Alive
        PROVE  \E u \in Threads : Said(u)' /\ thread'[u].cfg.id = i
    <3>1. CASE i = thread[t].cfg.id
      BY <2>1, <3>1 DEF Said
    <3>2. CASE i # thread[t].cfg.id
      <4>1. shown[i] \in Alive
        BY <1>1, <2>2, <2>3, <3>2 DEF TypeOK
      <4>2. PICK u \in Threads : Said(u) /\ thread[u].cfg.id = i
        BY <4>1 DEF Seen
      <4> QED BY <2>1, <2>2, <4>2 DEF Said
    <3> QED BY <3>1, <3>2
  <2> QED BY <2>3 DEF Seen
<1>5. CASE Unmounts(t)
  <2>1. \A u \in Threads : Said(u) => Said(u)' /\ thread'[u].cfg = thread[u].cfg
    BY <1>1, <1>5 DEF Unmounts, Said, Thread
  <2> QED BY <1>5, <2>1 DEF Unmounts, Seen
<1>6. CASE Farewell(t)
  <2>1. thread'[t].cfg = thread[t].cfg /\ \A u \in Threads \ {t} : thread'[u] = thread[u]
    BY <1>1, <1>6 DEF Farewell, Thread
  <2>2. Show(thread[t].cfg.id, "offline") /\ thread[t].cfg.id \in Ids
    BY <1>2, <1>6 DEF Farewell
  <2>3. ASSUME NEW i \in Ids, shown'[i] \in Alive
        PROVE  \E u \in Threads : Said(u)' /\ thread'[u].cfg.id = i
    <3>1. shown[i] \in Alive /\ i # thread[t].cfg.id
      BY <1>1, <2>2, <2>3, ShowsOther DEF Alive
    <3>2. PICK u \in Threads : Said(u) /\ thread[u].cfg.id = i
      BY <3>1 DEF Seen
    <3> QED BY <2>1, <3>1, <3>2 DEF Said
  <2> QED BY <2>3 DEF Seen
<1> QED BY <1>3, <1>4, <1>5, <1>6 DEF ThreadStep

LEMMA ThreadsSteady ==
    ASSUME MInv, Steadies, NEW t \in Threads, ThreadStep(t)
    PROVE  Steadies'
<1>1. thread[t] \in Thread /\ thread \in [Threads -> Thread] /\ Steady(thread[t])
  BY DEF MInv, TypeOK, Steadies
<1>2. thread'[t].net = thread[t].net /\ \A u \in Threads \ {t} : thread'[u] = thread[u]
  BY <1>1 DEF ThreadStep, InitFails, HostMounts, Announce, Unmounts, Farewell, Thread
<1>3. /\ thread'[t].st # "starting"
      /\ thread'[t].st = "ready" => thread[t].st = "starting"
  BY <1>1 DEF ThreadStep, InitFails, HostMounts, Announce, Unmounts, Farewell, Thread
<1>4. Steady(thread'[t])
  BY <1>1, <1>2, <1>3 DEF Steady, Online
<1> QED BY <1>2, <1>4 DEF Steadies

LEMMA NetSteady ==
    ASSUME MInv, Steadies, NEW t \in Threads, Turns(t) \/ Says(t)
    PROVE  Steadies'
<1>1. /\ thread[t].net \in Net /\ Steady(thread[t]) /\ thread'[t].st = thread[t].st
      /\ \A u \in Threads \ {t} : thread'[u] = thread[u]
  BY NetNoticed DEF Steadies, Noticed
<1>2. CASE Turns(t)
  <2> DEFINE n == thread[t].net
             o == ~n.online
             d == n.due \cup {~n.online}
             c == n.calm /\ n.due = {} /\ thread[t].st = "parked"
  <2>1. thread'[t].net = [online |-> o, due |-> d, calm |-> c] /\ thread[t].st # "starting"
    BY <1>2, NetNoticed DEF Turns, Holding
  <2>2. c => thread[t].st = "parked" /\ n.due = {}
    OBVIOUS
  <2>3. n.due = {} => d = {o}
    OBVIOUS
  <2> HIDE DEF o, d, c, n
  <2>4. thread'[t].net.online = o /\ thread'[t].net.due = d /\ thread'[t].net.calm = c
    BY <2>1
  <2>5. Steady(thread'[t])
    <3> SUFFICES ASSUME thread'[t].net.calm PROVE thread[t].st = "parked" /\ d = {o}
      BY <1>1, <2>1, <2>4 DEF Steady
    <3> QED BY <2>2, <2>3, <2>4
  <2> QED BY <1>1, <2>5 DEF Steadies
<1>3. CASE Says(t)
  <2>1. PICK b \in thread[t].net.due :
             thread'[t].net = [thread[t].net EXCEPT !.due = @ \ {b}]
    BY <1>3, NetNoticed
  <2>2. /\ thread'[t].net.online = thread[t].net.online
        /\ thread'[t].net.calm = thread[t].net.calm
        /\ thread'[t].net.due = thread[t].net.due \ {b}
    BY <1>1, <2>1 DEF Net
  <2>3. thread[t].st # "starting"
    BY <1>1 DEF Steady, Online
  <2> QED BY <1>1, <2>2, <2>3 DEF Steady, Steadies
<1> QED BY <1>2, <1>3

\* No step of a task ends a thread that has spoken.
LEMMA TasksSilent ==
    ASSUME MInv, NEW p \in All, Command(p) \/ TaskStep(p)
    PROVE  Silent
<1>1. TypeOK /\ thread \in [Threads -> Thread] /\ Shape(p) /\ Fits(task[p]) /\ task[p] \in Task
  BY ShapeOf DEF MInv, TypeOK
<1>2. CASE UNCHANGED <<thread, shown>>
  BY <1>2 DEF Silent, Said
<1>3. ASSUME NEW ts \in SUBSET Threads, thread' = Told(ts), UNCHANGED shown PROVE Silent
  <2>1. Telling(ts)
    BY <1>1, <1>3, ToldTells
  <2> QED BY <1>3, <2>1 DEF Telling, Silent, Said, Steady
<1>4. CASE Command(p) /\ ~UNCHANGED <<thread, shown>>
  <2>1. 1..scene.drives \subseteq Ids
    BY SceneTypes, ConstantTypes DEF MInv, TypeOK, Ids
  <2>2. PICK i \in Ids : Unmount(p, i)
    BY <1>4, <2>1 DEF Command, Add, AddCloud, Reset, Exit, Mount, Remove, SetCredentials, SetPrefix
  <2>3. {mounts[i]} \in SUBSET Threads /\ thread' = Told({mounts[i]}) /\ UNCHANGED shown
    BY <1>1, <2>2 DEF Unmount, TypeOK
  <2> QED BY <1>3, <2>3
<1>5. ASSUME NEW t \in Threads \ Running, \A u \in Threads \ {t} : thread'[u] = thread[u],
             \A j \in Ids : shown'[j] \in Alive => shown[j] \in Alive,
             Steady(thread'[t])
      PROVE  Silent
  BY <1>5 DEF Silent, Said, Running
<1>6. CASE Spawn(p)
  <2>1. task[p].id \in Ids
    BY <1>1, <1>6 DEF Spawn, At, Fits, Mounting
  <2>2. \A j \in Ids : shown'[j] \in Alive => shown[j] \in Alive
    BY <1>1, <1>6, <2>1, ShowsOther DEF Spawn, Alive
  <2>3. PICK t \in Slots : thread' = [thread EXCEPT ![t] =
                [st |-> "starting", cfg |-> task[p].got, told |-> FALSE, net |-> Online]]
    BY <1>6 DEF Spawn
  <2>4. t \in Threads \ Running /\ \A u \in Threads \ {t} : thread'[u] = thread[u]
    BY <1>1, <2>3 DEF Slots
  <2>5. Steady(thread'[t])
    BY <1>1, <2>3, <2>4 DEF Steady, Online
  <2> QED BY <1>5, <2>2, <2>4, <2>5
<1>7. CASE \/ SpawnReturns(p) /\ thread[task[p].at].st = "failed"
           \/ SpawnJoined(p) \/ Stopped(p) \/ ResetStopped(p)
  <2>1. task[p].at \in Threads \ Running /\ Join(p)
    BY <1>1, <1>7 DEF SpawnReturns, SpawnJoined, Stopped, ResetStopped, At, Shape, Handling,
                      Failed, Running
  <2>2. \A u \in Threads \ {task[p].at} : thread'[u] = thread[u]
    BY <1>1, <2>1 DEF Join
  <2>3. \A j \in Ids : shown'[j] \in Alive => shown[j] \in Alive
    BY <1>1, <1>7 DEF SpawnReturns, SpawnJoined, Stopped, ResetStopped, Failed, Show, TypeOK, Alive
  <2>4. Steady(thread'[task[p].at])
    BY <1>1, <2>1 DEF Join, Joined, Steady, Online
  <2> QED BY <1>5, <2>1, <2>2, <2>3, <2>4
<1>8. CASE SpawnTimesOut(p)
  <2>1. task[p].at \in Threads
    BY <1>1, <1>8 DEF SpawnTimesOut, At, Shape, Handling
  <2> QED BY <1>1, <1>8, <2>1, Tells DEF SpawnTimesOut, Silent, Said, Steady
<1>9. CASE Insert(p)
  <2>1. UNCHANGED shown /\ thread' = Dropped(task[p].id) /\ task[p].id \in Ids
    BY <1>1, <1>9 DEF Insert, At, Fits, Mounting
  <2>2. CASE mounts[task[p].id] = None
    BY <1>2, <2>1, <2>2 DEF Dropped
  <2>3. CASE mounts[task[p].id] # None
    <3>1. mounts[task[p].id] \in Threads
      BY <1>1, <2>1, <2>3 DEF TypeOK
    <3> QED BY <1>1, <2>1, <2>3, <3>1, Tells DEF Dropped, Silent, Said, Steady
  <2> QED BY <2>2, <2>3
<1>10. CASE ResetTakes(p)
  <2>1. PICK ts : ts \in SUBSET Threads /\ thread' = Told(ts) /\ UNCHANGED shown
    BY <1>10 DEF ResetTakes
  <2> QED BY <1>3, <2>1
<1>11. CASE ExitTells(p)
  <2>1. PICK t \in Threads : thread' = Told({t}) /\ UNCHANGED shown
    BY <1>1, <1>11 DEF ExitTells, At, Fits
  <2> QED BY <1>3, <2>1
<1>12. CASE Retrieve(p)
  <2>1. thread' = thread /\ (UNCHANGED shown \/ Show(task[p].id, "error")) /\ task[p].id \in Ids
    BY <1>1, <1>12 DEF Retrieve, At, Fits, Mounting
  <2>2. \A j \in Ids : shown'[j] \in Alive => shown[j] \in Alive
    BY <1>1, <2>1, ShowsOther DEF Alive
  <2> QED BY <2>1, <2>2 DEF Silent, Said
<1>13. CASE \/ MountRead(p) \/ Migrate(p) \/ Snapshot(p) \/ NextRow(p) \/ RemoveRow(p) \/ SetKey(p)
            \/ Store(p) \/ WritePrefix(p) \/ AddRow(p) \/ AddSecret(p) \/ Wipe(p) \/ Exited(p)
            \/ (SpawnReturns(p) /\ thread[task[p].at].st # "failed") \/ WipeFails(p)
  <2>1. UNCHANGED <<thread, shown>>
    BY <1>13 DEF MountRead, Migrate, Snapshot, NextRow, RemoveRow, SetKey, Store, WritePrefix, AddRow,
                 AddSecret, Wipe, WipeFails, Exited, SpawnReturns
  <2> QED BY <1>2, <2>1
<1>14. CASE TaskStep(p)
  BY <1>6, <1>7, <1>8, <1>9, <1>10, <1>11, <1>12, <1>13, <1>14 DEF TaskStep
<1> QED BY <1>2, <1>4, <1>14

\* A drive is said to be online by a thread that serves it.
LEMMA NetSeen ==
    ASSUME MInv, Steadies, Seen, NEW t \in Threads, Turns(t) \/ Says(t)
    PROVE  Seen'
<1>1. /\ Noticed /\ thread[t].cfg.id \in Ids /\ t \in Running
      /\ \A i \in Ids : i # thread[t].cfg.id => shown'[i] = shown[i]
      /\ Says(t) \/ UNCHANGED shown
  <2>1. shown \in [Ids -> Statuses]
    BY DEF MInv, TypeOK, Statuses
  <2> QED BY <2>1, NetNoticed
<1>2. \A u \in Threads : Said(u)' = Said(u) /\ thread'[u].cfg = thread[u].cfg
  BY <1>1 DEF Noticed, Said
<1>3. Says(t) => Said(t)
  <2>1. thread[t].st = "starting" => thread[t].net.due = {}
    BY DEF Steadies, Steady, Online
  <2> QED BY <1>1, <2>1 DEF Says, Said, Running
<1>4. ASSUME NEW i \in Ids, shown'[i] \in Alive
      PROVE  \E u \in Threads : Said(u)' /\ thread'[u].cfg.id = i
  <2>1. CASE shown[i] \in Alive
    BY <1>2, <2>1 DEF Seen
  <2>2. CASE shown[i] \notin Alive
    BY <1>1, <1>2, <1>3, <1>4, <2>2
  <2> QED BY <2>1, <2>2
<1> QED BY <1>4 DEF Seen

LEMMA SeenStays == MInv /\ Seen /\ Steadies /\ [Next]_vars => Seen' /\ Steadies'
<1> SUFFICES ASSUME MInv, Seen, Steadies, [Next]_vars PROVE Seen' /\ Steadies'
  OBVIOUS
<1>1. ASSUME NEW p \in All, Command(p) \/ TaskStep(p) PROVE Seen' /\ Steadies'
  <2>1. Silent
    BY <1>1, TasksSilent
  <2> QED BY <2>1, SilentKeepsSeen DEF Silent, Steadies
<1>2. ASSUME NEW t \in Threads, ThreadStep(t) PROVE Seen' /\ Steadies'
  BY <1>2, ThreadsSeen, ThreadsSteady
<1>3. CASE (\E t \in Threads : Reads(t)) \/ Rest \/ UNCHANGED vars
  <2>1. UNCHANGED <<thread, shown>>
    BY <1>3 DEF Reads, Rest, vars
  <2> QED BY <2>1 DEF Seen, Said, Steadies
<1>4. ASSUME NEW t \in Threads, Turns(t) \/ Says(t) PROVE Seen' /\ Steadies'
  BY <1>4, NetSeen, NetSteady
<1> QED BY <1>1, <1>2, <1>3, <1>4 DEF Next

LEMMA SeenAlways == Spec => [](Seen /\ Steadies)
<1>1. Init => Seen /\ Steadies
  BY DEF Init, Seen, Steadies, Steady, Joined, Online, Alive
<1> QED BY <1>1, SeenStays, HandlesAlways, PTL DEF Spec

-----------------------------------------------------------------------------
(* One command at a time.                                                  *)
(*                                                                         *)
(* Where the scene has one task only, that task alone works, and what the  *)
(* drives that are mounted run with, what is shown of them and what a      *)
(* reset leaves can be said of it and of nothing else.                     *)

Active == \A p \in All : task[p].pc # "idle" => p \in scene.tasks

\* A configuration has the settings of the row.
AsRow(c, i) ==
    row[i] # None /\ c.key = row[i].key /\ c.secret = row[i].secret /\ c.prefix = row[i].prefix

\* Every thread that runs is in the map of its drive or in the task's hands.
Traced(p) == \A t \in Running : mounts[thread[t].cfg.id] = t \/ Has(p, t)

\* A drive that is mounted has the settings of its row, and is shown as it is.
Fresh == \A i \in Ids : mounts[i] # None => AsRow(thread[mounts[i]].cfg, i)

\* What is shown of a thread that has announced itself.
Reports(x, s) == x.st = "parked" =>
    /\ s \in {"mounted", "online", "offline"}
    /\ x.net.calm /\ x.net.due = {} => (s = "offline" <=> ~x.net.online)

Shown == \A i \in Ids : mounts[i] # None => Reports(thread[mounts[i]], shown[i])

\* What the task has read is still so, and the drive it works on is not mounted.
Working(p) ==
    LET x == task[p]
    IN  /\ x.pc \notin {"snapshot", "next"}
        /\ x.pc \in Mounting \cup Naming => mounts[x.id] = None
        /\ x.pc = "secret" => /\ row[x.id] # None /\ x.got.key = row[x.id].key
                              /\ x.got.prefix = row[x.id].prefix
        /\ x.pc \in {"migrate", "spawn", "waiting", "insert"} => AsRow(x.got, x.id)
        /\ x.pc \in {"waiting", "insert"} => Reports(thread[x.at], shown[x.id])
        /\ x.pc = "resetting" /\ x.at # None => x.id \in Ids /\ mounts[x.id] = None
        /\ x.pc \in {"stopping", "resetting"} /\ x.at # None => thread[x.at].cfg.id = x.id
        /\ x.pc = "exiting" => \A i \in Ids : mounts[i] = None
        /\ x.pc = "resetting" => \A i \in Ids : mounts[i] # None => i \in x.todo

\* A reset is at work, or has left nothing.
Cleared(p) ==
    reset => IF task[p].pc = "idle"
             THEN Rows = {} /\ Running = {} /\ \A i \in Ids : blocks[i] = {}
             ELSE task[p].pc = "resetting"

Solo(p) == Traced(p) /\ Fresh /\ Shown /\ Working(p) /\ Cleared(p)

Alone == Active /\ (OneByOne => \A p \in scene.tasks : Solo(p))

LEMMA SoloQuiet ==
    ASSUME MInv, NEW p \in All, Solo(p), NEW x \in Task, task' = [task EXCEPT ![p] = x],
           Handless(task[p]), Handless(x), UNCHANGED <<mounts, thread, shown>>,
           \A i \in Ids : mounts[i] # None => row'[i] = row[i],
           x.pc \notin {"snapshot", "next"},
           x.pc \in Mounting \cup Naming => mounts[x.id] = None,
           x.pc = "secret" => /\ row'[x.id] # None /\ x.got.key = row'[x.id].key
                              /\ x.got.prefix = row'[x.id].prefix,
           x.pc \in {"migrate", "spawn"} => AsRow(x.got, x.id)',
           x.pc = "resetting" => \A i \in Ids : mounts[i] # None => i \in x.todo,
           Cleared(p)'
    PROVE  Solo(p)'
<1>1. task'[p] = x /\ None \notin Threads
  BY Put, ConstantTypes DEF MInv
<1>2. \A t \in Threads : ~Has(p, t)
  BY <1>1 DEF Handless, Has
<1>3. Traced(p)'
  BY <1>2 DEF Solo, Traced, Running
<1>4. Fresh'
  BY DEF Solo, Fresh, AsRow
<1>5. Shown'
  BY DEF Solo, Shown
<1>6. Working(p)'
  BY <1>1 DEF Handless, Handling, Working
<1> QED BY <1>3, <1>4, <1>5, <1>6 DEF Solo

LEMMA SoloReturn ==
    ASSUME MInv, NEW p \in All, p \notin Boot, Return(p)
    PROVE  task' = [task EXCEPT ![p] = Idle] /\ task'[p] = Idle
BY DEF Return, MInv, TypeOK

LEMMA SoloReturnsQuietly ==
    ASSUME MInv, NEW p \in All, p \notin Boot, Solo(p), Return(p), Handless(task[p]),
           UNCHANGED <<mounts, thread, shown>>,
           \A i \in Ids : mounts[i] # None => row'[i] = row[i], Cleared(p)'
    PROVE  Solo(p)'
<1>1. task' = [task EXCEPT ![p] = Idle]
  BY SoloReturn
<1>2. Handless(Idle) /\ Idle \in Task /\ Idle.pc = "idle"
  BY IdleTask DEF Handless, Handling
<1>3. Idle.pc \notin Mounting \cup Naming
  BY <1>2 DEF Mounting, Naming
<1> QED BY <1>1, <1>2, <1>3, SoloQuiet

LEMMA SoloMounts ==
    ASSUME MInv, NEW p \in All, p \notin Boot, Solo(p), MountRead(p) \/ Retrieve(p) \/ Migrate(p)
    PROVE  Solo(p)'
<1> DEFINE i == task[p].id
<1>1. TypeOK /\ task[p] \in Task /\ task[p].pc \in {"read", "secret", "migrate"} /\ i \in Ids
  BY ShapeOf DEF MInv, MountRead, Retrieve, Migrate, At, Fits, Naming, Mounting
<1>2. Handless(task[p])
  BY <1>1, NoHandle DEF Handling
<1>3. /\ mounts[i] = None /\ ~reset
      /\ task[p].pc = "secret" => /\ row[i] # None /\ task[p].got.key = row[i].key
                                  /\ task[p].got.prefix = row[i].prefix
      /\ task[p].pc = "migrate" => AsRow(task[p].got, i)
      /\ task[p].pc # "read" => task[p].got \in Config
  BY <1>1, ShapeOf DEF Solo, Working, Cleared, Mounting, Naming, Fits
<1>4. UNCHANGED <<mounts, thread>> /\ reset' = reset /\ UNCHANGED shown
  BY DEF MountRead, Retrieve, Migrate, Quiet
<1>5. Cleared(p)'
  BY <1>3, <1>4 DEF Cleared
<1>6. row \in [Ids -> Row \cup {None}]
  BY <1>1 DEF TypeOK
<1>7. CASE MountRead(p)
  <2>1. row' = row
    BY <1>7 DEF MountRead
  <2>2. CASE row[i] # None
    <3> DEFINE y == [task[p] EXCEPT !.pc = "secret", !.got = ConfigOf(i)]
    <3>1. /\ ConfigOf(i) \in Config /\ ConfigOf(i).key = row[i].key
          /\ ConfigOf(i).prefix = row[i].prefix
      BY <1>1, <2>2, RowsStay DEF ConfigOf
    <3> HIDE DEF i
    <3>2. /\ y \in Task /\ y.pc = "secret" /\ y.got = ConfigOf(i) /\ y.id = task[p].id
          /\ y.at = task[p].at /\ y.todo = task[p].todo
      BY <1>1, <3>1 DEF Task
    <3>3. task' = [task EXCEPT ![p] = y]
      BY <1>1, <1>7, <2>2 DEF MountRead, i, Task
    <3> HIDE DEF y
    <3>4. PICK x \in Task : /\ task' = [task EXCEPT ![p] = x] /\ x.pc = "secret" /\ x.id = i
                            /\ x.at = task[p].at /\ x.todo = task[p].todo
                            /\ x.got.key = row'[i].key /\ x.got.prefix = row'[i].prefix
      BY <2>1, <3>1, <3>2, <3>3 DEF i
    <3>5. Handless(x)
      BY <1>2, <3>4 DEF Handless, Handling
    <3> QED BY <1>2, <1>3, <1>4, <1>5, <2>1, <2>2, <3>4, <3>5, SoloQuiet
  <2>3. CASE row[i] = None
    <3>1. Return(p)
      BY <1>7, <2>3 DEF MountRead
    <3> QED BY <1>2, <1>4, <1>5, <2>1, <3>1, SoloReturnsQuietly
  <2> QED BY <2>2, <2>3
<1>8. CASE Retrieve(p)
  <2>0. task[p].pc = "secret" /\ row' = row
    BY <1>8 DEF Retrieve, At
  <2>2. CASE row[i] # None /\ row[i].secret # None
    <3> DEFINE c == [task[p].got EXCEPT !.secret = row[i].secret]
               y == [task[p] EXCEPT !.pc = IF row[i].plain THEN "migrate" ELSE "spawn", !.got = c]
    <3>1. c \in Config /\ AsRow(c, i)
      <4>1. row[i].secret \in Gens \cup {None}
        BY <1>1, <2>2, RowsStay
      <4> QED BY <1>3, <2>0, <2>2, <4>1 DEF Config, AsRow
    <3>2. /\ y \in Task /\ y.pc \in {"migrate", "spawn"} /\ y.got = c /\ y.id = i
          /\ y.at = task[p].at /\ y.todo = task[p].todo
      <4> HIDE DEF c
      <4> QED BY <1>1, <3>1 DEF Task
    <3>3. task' = [task EXCEPT ![p] = y]
      BY <1>1, <1>8, <2>2 DEF Retrieve, Task
    <3> HIDE DEF y, c, i
    <3>4. PICK x \in Task : /\ task' = [task EXCEPT ![p] = x] /\ x.pc \in {"migrate", "spawn"}
                            /\ x.id = i /\ x.at = task[p].at /\ x.todo = task[p].todo
                            /\ AsRow(x.got, i)
      BY <3>1, <3>2, <3>3
    <3>5. Handless(x)
      BY <1>2, <3>4 DEF Handless, Handling
    <3>6. AsRow(x.got, x.id)'
      BY <2>0, <3>4 DEF AsRow
    <3> QED BY <1>2, <1>3, <1>4, <1>5, <2>0, <2>2, <3>4, <3>5, <3>6, SoloQuiet
  <2>3. CASE ~(row[i] # None /\ row[i].secret # None)
    <3>1. Return(p)
      BY <1>8, <2>3 DEF Retrieve
    <3> QED BY <1>2, <1>4, <1>5, <2>0, <3>1, SoloReturnsQuietly
  <2> QED BY <2>2, <2>3
<1>9. CASE Migrate(p)
  <2>0. /\ task[p].pc = "migrate" /\ StoreEnds(i, task[p].got.secret, row)
        /\ AsRow(task[p].got, i)
    BY <1>3, <1>9 DEF Migrate, At
  <2>1. PICK c, k : c = task[p].got /\ k = i
    OBVIOUS
  <2>2. (\A j \in Ids : mounts[j] # None => row'[j] = row[j]) /\ AsRow(c, k)'
    <3>1. CASE row' = row
      BY <2>0, <2>1, <3>1 DEF AsRow
    <3>2. CASE row' = Stored(i, task[p].got.secret)
      <4>1. k \in Ids /\ row[k] # None /\ row[k] \in Row /\ c.secret = row[k].secret
        BY <1>1, <1>6, <2>0, <2>1 DEF AsRow
      <4>2. PICK r : r = [row[k] EXCEPT !.secret = row[k].secret, !.plain = FALSE]
        OBVIOUS
      <4>3. row' = [row EXCEPT ![k] = r]
        BY <1>6, <2>1, <3>2, <4>1, <4>2 DEF Stored
      <4>4. /\ r # None /\ r.key = row[k].key /\ r.secret = row[k].secret
            /\ r.prefix = row[k].prefix
        <5>1. r \in Row
          BY <1>1, <4>1, <4>2, RowsStay
        <5> QED BY <4>1, <4>2, <5>1, ConfigFields DEF Row
      <4>5. row'[k] = r /\ \A j \in Ids \ {k} : row'[j] = row[j]
        BY <1>6, <4>1, <4>3
      <4> QED BY <1>3, <2>0, <2>1, <4>4, <4>5 DEF AsRow
    <3> QED BY <2>0, <3>1, <3>2 DEF StoreEnds
  <2> DEFINE y == [task[p] EXCEPT !.pc = "spawn"]
  <2>3. /\ task' = [task EXCEPT ![p] = y] /\ y \in Task /\ y.pc = "spawn"
        /\ y.got = task[p].got /\ y.id = task[p].id
        /\ y.at = task[p].at /\ y.todo = task[p].todo
    BY <1>1, <1>9 DEF Migrate, Goto, Task
  <2> HIDE DEF y
  <2>4. PICK x \in Task : /\ task' = [task EXCEPT ![p] = x] /\ x.pc = "spawn" /\ x.id = k
                          /\ x.at = task[p].at /\ x.todo = task[p].todo /\ x.got = c
    BY <2>1, <2>3
  <2>5. Handless(x) /\ mounts[x.id] = None
    BY <1>2, <1>3, <2>1, <2>4 DEF Handless, Handling
  <2>6. AsRow(x.got, x.id)'
    BY <2>2, <2>4 DEF AsRow
  <2> QED BY <1>2, <1>4, <1>5, <2>2, <2>4, <2>5, <2>6, SoloQuiet
<1> QED BY <1>7, <1>8, <1>9

LEMMA StoreTouchesOne ==
    ASSUME TypeOK, NEW i \in Ids, NEW s,
           StoreEnds(i, s, row) \/ StoreEnds(i, s, [row EXCEPT ![i] = None])
    PROVE  \A j \in Ids : j # i => row'[j] = row[j]
<1>1. row \in [Ids -> Row \cup {None}]
  BY DEF TypeOK
<1>2. \A j \in Ids : j # i => Stored(i, s)[j] = row[j]
  BY <1>1 DEF Stored
<1> QED BY <1>1, <1>2 DEF StoreEnds

LEMMA SoloTable ==
    ASSUME MInv, NEW p \in All, p \notin Boot, Solo(p),
           RemoveRow(p) \/ SetKey(p) \/ Store(p) \/ WritePrefix(p) \/ AddSecret(p)
    PROVE  Solo(p)'
<1> DEFINE i == task[p].id
<1>1. /\ TypeOK /\ task[p] \in Task /\ i \in Ids
      /\ task[p].pc \in {"delete", "key", "store", "prefix", "placed"}
  BY ShapeOf DEF MInv, RemoveRow, SetKey, Store, WritePrefix, AddSecret, At, Fits, Naming
<1>2. Handless(task[p])
  BY <1>1, NoHandle DEF Handling
<1>3. mounts[i] = None /\ ~reset
  BY <1>1 DEF Solo, Working, Cleared, Naming
<1>4. UNCHANGED <<mounts, thread, shown>> /\ reset' = reset
  BY DEF RemoveRow, SetKey, Store, WritePrefix, AddSecret, Quiet
<1>5. Cleared(p)'
  BY <1>3, <1>4 DEF Cleared
<1>6. \A j \in Ids : j # i => row'[j] = row[j]
  <2>1. row \in [Ids -> Row \cup {None}]
    BY <1>1 DEF TypeOK
  <2>2. CASE Store(p) \/ AddSecret(p)
    BY <1>1, <2>2, StoreTouchesOne DEF Store, AddSecret
  <2>3. CASE RemoveRow(p) \/ SetKey(p) \/ WritePrefix(p)
    BY <1>1, <2>1, <2>3 DEF RemoveRow, SetKey, WritePrefix
  <2> QED BY <2>2, <2>3
<1>7. \A j \in Ids : mounts[j] # None => row'[j] = row[j]
  BY <1>3, <1>6
<1>8. CASE SetKey(p)
  <2> DEFINE y == [task[p] EXCEPT !.pc = "store"]
  <2>1. /\ task' = [task EXCEPT ![p] = y] /\ y \in Task /\ y.pc = "store"
        /\ y.id = i /\ y.at = task[p].at /\ y.todo = task[p].todo
    BY <1>1, <1>8 DEF SetKey, Goto, Task
  <2> HIDE DEF y
  <2>2. PICK x \in Task : /\ task' = [task EXCEPT ![p] = x] /\ x.pc = "store" /\ x.id = i
                          /\ x.at = task[p].at /\ x.todo = task[p].todo
    BY <2>1
  <2>3. Handless(x)
    BY <1>2, <2>2 DEF Handless, Handling
  <2> QED BY <1>2, <1>3, <1>4, <1>5, <1>7, <2>2, <2>3, SoloQuiet
<1>9. CASE ~SetKey(p)
  <2>1. Return(p)
    BY <1>9 DEF RemoveRow, Store, WritePrefix, AddSecret
  <2> QED BY <1>2, <1>4, <1>5, <1>7, <2>1, SoloReturnsQuietly
<1> QED BY <1>8, <1>9

LEMMA SoloAdds ==
    ASSUME MInv, NEW p \in All, p \notin Boot, Solo(p), AddRow(p)
    PROVE  Solo(p)'
<1>1. TypeOK /\ task[p] \in Task /\ task[p].pc = "adding"
  BY ShapeOf DEF MInv, AddRow, At
<1>2. Handless(task[p])
  BY <1>1, NoHandle DEF Handling
<1>3. ~reset
  BY <1>1 DEF Solo, Cleared
<1>4. UNCHANGED <<mounts, thread, shown>> /\ reset' = reset
  BY DEF AddRow, Quiet
<1>5. Cleared(p)'
  BY <1>3, <1>4 DEF Cleared
<1>6. CASE Return(p) /\ UNCHANGED row
  BY <1>2, <1>4, <1>5, <1>6, SoloReturnsQuietly
<1>7. CASE ~(Return(p) /\ UNCHANGED row)
  <2>1. PICK i \in 1..scene.drives, l \in scene.letters :
           /\ NextId(i)
           /\ row' = [row EXCEPT ![i] =
                  [inc |-> task[p].gen, letter |-> l, key |-> task[p].gen,
                   secret |-> None, plain |-> FALSE, prefix |-> task[p].gen]]
           /\ task' = [task EXCEPT ![p].pc = "placed", ![p].id = i]
    BY <1>7 DEF AddRow
  <2>2. i \in Ids
    BY <1>1, SceneTypes, ConstantTypes DEF TypeOK, Ids
  <2>3. row[i] = None
    <3>1. CASE row[i] # None
      <4>1. i \in Rows
        BY <2>2, <3>1 DEF Rows
      <4>2. i < i
        BY <2>1, <4>1 DEF NextId
      <4> QED BY <2>2, <4>2, ConstantTypes
    <3> QED BY <3>1
  <2>4. mounts[i] = None
    BY <2>2, <2>3 DEF Solo, Fresh, AsRow
  <2>5. \A j \in Ids : mounts[j] # None => row'[j] = row[j]
    BY <1>1, <2>1, <2>4 DEF TypeOK
  <2> DEFINE y == [task[p] EXCEPT !.pc = "placed", !.id = i]
  <2>6. /\ task' = [task EXCEPT ![p] = y] /\ y \in Task /\ y.pc = "placed" /\ y.id = i
        /\ y.at = task[p].at /\ y.todo = task[p].todo
    BY <1>1, <2>1, <2>2 DEF Task
  <2> HIDE DEF y
  <2>7. PICK x \in Task : /\ task' = [task EXCEPT ![p] = x] /\ x.pc = "placed" /\ x.id = i
                          /\ x.at = task[p].at /\ x.todo = task[p].todo
    BY <2>6
  <2>8. Handless(x)
    BY <1>2, <2>7 DEF Handless, Handling
  <2> QED BY <1>2, <1>4, <1>5, <2>4, <2>5, <2>7, <2>8, SoloQuiet
<1> QED BY <1>6, <1>7

LEMMA SoloWipes ==
    ASSUME MInv, NEW p \in All, p \notin Boot, Solo(p), Wipe(p)
    PROVE  Solo(p)'
<1>1. Handless(task[p]) /\ task[p].pc = "resetting" /\ task[p].todo = {} /\ task[p].at = None
  BY DEF Wipe, At, Handless, Handling
<1>2. \A i \in Ids : mounts[i] = None
  BY <1>1 DEF Solo, Working
<1>3. Running = {}
  <2>1. ASSUME NEW t \in Running PROVE FALSE
    <3>1. t \in Threads /\ thread[t].cfg.id \in Ids
      BY <2>1, ConfigFields DEF Running, MInv, Threaded
    <3>2. ~Has(p, t) /\ mounts[thread[t].cfg.id] # t
      BY <1>1, <1>2, <3>1, ConstantTypes DEF Has
    <3> QED BY <2>1, <3>2 DEF Solo, Traced
  <2> QED BY <2>1
<1>4. /\ UNCHANGED <<mounts, thread, shown>> /\ Return(p)
      /\ row' = [i \in Ids |-> None] /\ blocks' = [i \in Ids |-> {}]
  BY DEF Wipe
<1>5. Cleared(p)'
  <2>1. task'[p].pc = "idle"
    BY <1>4, SoloReturn, IdleTask
  <2>2. Running' = {}
    BY <1>3, <1>4 DEF Running
  <2>3. Rows' = {} /\ \A i \in Ids : blocks'[i] = {}
    BY <1>4 DEF Rows
  <2> QED BY <2>1, <2>2, <2>3 DEF Cleared
<1> QED BY <1>1, <1>2, <1>4, <1>5, SoloReturnsQuietly

LEMMA SoloFails ==
    ASSUME MInv, NEW p \in All, p \notin Boot, Solo(p), WipeFails(p)
    PROVE  Solo(p)'
<1>1. Handless(task[p]) /\ task[p].pc = "resetting" /\ task[p].todo = {} /\ task[p].at = None
  BY DEF WipeFails, At, Handless, Handling
<1>2. \A i \in Ids : mounts[i] = None
  BY <1>1 DEF Solo, Working
<1>3. UNCHANGED <<mounts, thread, shown>> /\ Return(p) /\ ~reset'
  BY DEF WipeFails
<1>4. Cleared(p)'
  BY <1>3 DEF Cleared
<1> QED BY <1>1, <1>2, <1>3, <1>4, SoloReturnsQuietly

LEMMA SoloBegins ==
    ASSUME MInv, NEW p \in All, Solo(p), NEW cmd,
           NEW pc \in {"read", "delete", "key", "prefix", "adding", "resetting"},
           NEW i \in Ids \cup {None}, NEW todo \in SUBSET Ids, Begin(p, cmd, pc, i, None, todo),
           pc \in Naming => mounts[i] = None,
           cmd = "reset" => pc = "resetting",
           pc = "resetting" => \A j \in Ids : mounts[j] # None => j \in todo,
           UNCHANGED <<row, mounts, thread, blocks, shown>>
    PROVE  Solo(p)'
<1>1. todo \in Todos /\ pc \in Pcs /\ todo \cap Threads = {}
  BY ConstantTypes DEF Todos, Pcs
<1>2. None \in Threads \cup {None} /\ Begin(p, cmd, pc, i, None, todo)
  OBVIOUS
<1> DEFINE y == New(pc, i, None, todo)
<1>3. y \in Task /\ task' = [task EXCEPT ![p] = y]
  <2>1. task' = [task EXCEPT ![p] = y]
    BY DEF Begin, New, Latest
  <2>2. New(pc, i, None, todo) \in Task
    BY <1>1, <1>2, Begun DEF New, Latest
  <2> QED BY <2>1, <2>2
<1>4. y.pc = pc /\ y.id = i /\ y.at = None /\ y.todo = todo
  BY DEF New
<1>5. Handless(task[p]) /\ reset' = (cmd = "reset")
  BY <1>1, <1>2, Begun
<1> HIDE DEF y
<1>6. PICK x \in Task : /\ task' = [task EXCEPT ![p] = x]
                        /\ x.pc = pc /\ x.id = i /\ x.at = None /\ x.todo = todo
  BY <1>3, <1>4
<1>7. Handless(x)
  BY <1>1, <1>6 DEF Handless, Handling
<1>8. Cleared(p)'
  <2>1. task'[p] = x
    BY <1>6, Put DEF MInv
  <2> QED BY <1>5, <1>6, <2>1 DEF Cleared
<1>9. x.pc \notin Mounting \cup {"snapshot", "next"}
  BY <1>6 DEF Mounting
<1>10. x.pc \in Mounting \cup Naming => mounts[x.id] = None
  BY <1>6, <1>9
<1>11. x.pc \notin {"secret", "migrate", "spawn"}
  BY <1>6
<1> QED BY <1>5, <1>6, <1>7, <1>8, <1>9, <1>10, <1>11, SoloQuiet

LEMMA SoloCommands ==
    ASSUME MInv, NEW p \in All, Solo(p),
           \/ \E i \in 1..scene.drives : \/ Mount(p, i) \/ Remove(p, i)
                                         \/ SetCredentials(p, i) \/ SetPrefix(p, i)
           \/ Add(p) \/ AddCloud(p) \/ Reset(p)
    PROVE  Solo(p)'
<1>1. 1..scene.drives \subseteq Ids
  BY SceneTypes, ConstantTypes DEF MInv, TypeOK, Ids
<1>2. {i \in Ids : mounts[i] # None} \in SUBSET Ids /\ {} \in SUBSET Ids
  OBVIOUS
<1>3. ASSUME NEW i \in Ids, Mount(p, i) PROVE Solo(p)'
  BY <1>2, <1>3, SoloBegins DEF Mount, NotMounted
<1>4. ASSUME NEW i \in Ids, Remove(p, i) PROVE Solo(p)'
  BY <1>2, <1>4, SoloBegins DEF Remove, NotMounted
<1>5. ASSUME NEW i \in Ids, SetCredentials(p, i) PROVE Solo(p)'
  BY <1>2, <1>5, SoloBegins DEF SetCredentials, NotMounted
<1>6. ASSUME NEW i \in Ids, SetPrefix(p, i) PROVE Solo(p)'
  BY <1>2, <1>6, SoloBegins DEF SetPrefix, NotMounted
<1>7. CASE Add(p) \/ AddCloud(p)
  BY <1>2, <1>7, SoloBegins DEF Add, AddCloud, Naming
<1>8. CASE Reset(p)
  BY <1>2, <1>8, SoloBegins DEF Reset, Naming
<1> QED BY <1>1, <1>3, <1>4, <1>5, <1>6, <1>7, <1>8

\* Drives that stay mounted stay as they were.
LEMMA FreshStays ==
    ASSUME Fresh, Shown, UNCHANGED row,
           \A i \in Ids : mounts'[i] # None =>
              /\ mounts'[i] = mounts[i]
              /\ thread'[mounts[i]].cfg = thread[mounts[i]].cfg
              /\ thread'[mounts[i]].st = thread[mounts[i]].st
              /\ thread'[mounts[i]].net = thread[mounts[i]].net
              /\ shown'[i] = shown[i]
    PROVE  Fresh' /\ Shown'
<1>1. Fresh'
  BY DEF Fresh, AsRow
<1>2. Shown'
  BY DEF Shown, Reports
<1> QED BY <1>1, <1>2

LEMMA RunsForDrive ==
    ASSUME MInv, NEW t \in Running
    PROVE  t \in Threads /\ thread[t].cfg \in Config /\ thread[t].cfg.id \in Ids /\ t # None
BY ConfigFields, ConstantTypes DEF Running, MInv, Threaded

LEMMA SoloUnmounts ==
    ASSUME MInv, NEW p \in All, Solo(p), NEW i \in Ids, Unmount(p, i)
    PROVE  Solo(p)'
<1>0. PICK t \in Threads : t = mounts[i]
  BY DEF MInv, TypeOK, Unmount
<1>1. /\ TypeOK /\ Begin(p, "unmount", "stopping", i, t, {}) /\ "stopping" \in Pcs
      /\ i \in Ids \cup {None} /\ t \in Threads \cup {None} /\ {} \in Todos
  BY <1>0 DEF MInv, Unmount, Pcs, Todos
<1>2. Handless(task[p]) /\ reset' = FALSE
  <2>1. task[p].pc = "idle" /\ reset' = FALSE
    BY <1>1 DEF Begin, At
  <2> QED BY <2>1, NoHandle DEF Handling
<1>3. task'[p].pc = "stopping" /\ task'[p].id = i /\ task'[p].at = t /\ task'[p].todo = {}
  BY <1>1 DEF Begin, TypeOK
<1>4. UNCHANGED <<row, blocks, shown>>
  BY DEF Unmount
<1>5. Telling({t})
  BY <1>0, <1>1, ToldTells DEF Unmount
<1>6. /\ mounts'[i] = None
      /\ \A j \in Ids \ {i} : mounts'[j] = mounts[j]
  BY <1>1 DEF Unmount, TypeOK
<1>7. Traced(p)'
  <2>1. ASSUME NEW u \in Running' PROVE mounts'[thread'[u].cfg.id] = u \/ Has(p, u)'
    <3>1. u \in Running /\ thread'[u].cfg = thread[u].cfg
      BY <1>5 DEF Running, Telling
    <3>2. thread[u].cfg.id \in Ids /\ u \in Threads
      BY <3>1, RunsForDrive
    <3>3. mounts[thread[u].cfg.id] = u
      BY <1>2, <3>1, <3>2, ConstantTypes DEF Solo, Traced, Has, Handless
    <3> QED BY <1>0, <1>3, <1>6, <3>1, <3>2, <3>3 DEF Has
  <2> QED BY <2>1 DEF Traced
<1>8. Fresh' /\ Shown'
  <2>1. \A j \in Ids : mounts'[j] # None => mounts'[j] = mounts[j] /\ mounts[j] \in Threads
    BY <1>1, <1>6 DEF TypeOK
  <2> QED BY <1>4, <1>5, <2>1, FreshStays DEF Solo, Telling
<1>9. thread'[t].cfg.id = i
  BY <1>0, <1>5, ConstantTypes DEF MInv, Serving, Telling
<1>10. Working(p)'
  BY <1>3, <1>6, <1>9 DEF Working, Mounting, Naming
<1>11. Cleared(p)'
  BY <1>2 DEF Cleared
<1> QED BY <1>7, <1>8, <1>10, <1>11 DEF Solo

LEMMA SoloExits ==
    ASSUME MInv, NEW p \in All, Solo(p), Exit(p)
    PROVE  Solo(p)'
<1> DEFINE ms == {mounts[i] : i \in Ids} \cap Threads
<1>1. /\ TypeOK /\ Begin(p, "exit", "exiting", None, None, ms) /\ "exiting" \in Pcs
      /\ None \in Ids \cup {None} /\ None \in Threads \cup {None} /\ ms \in Todos
  BY DEF MInv, Exit, Pcs, Todos
<1>2. Handless(task[p]) /\ reset' = FALSE
  <2>1. task[p].pc = "idle" /\ reset' = FALSE
    BY <1>1 DEF Begin, At
  <2> QED BY <2>1, NoHandle DEF Handling
<1>3. task'[p].pc = "exiting" /\ task'[p].at = None /\ task'[p].todo = ms
  BY <1>1 DEF Begin, TypeOK
<1>4. UNCHANGED <<row, thread, blocks, shown>> /\ \A i \in Ids : mounts'[i] = None
  BY DEF Exit
<1>5. Traced(p)'
  <2>1. ASSUME NEW u \in Running' PROVE Has(p, u)'
    <3>1. u \in Running
      BY <1>4 DEF Running
    <3>2. thread[u].cfg.id \in Ids /\ u \in Threads
      BY <3>1, RunsForDrive
    <3>3. mounts[thread[u].cfg.id] = u
      BY <1>2, <3>1, <3>2, ConstantTypes DEF Solo, Traced, Has, Handless
    <3> QED BY <1>3, <3>2, <3>3 DEF Has
  <2> QED BY <2>1 DEF Traced
<1>6. Fresh' /\ Shown'
  BY <1>4 DEF Fresh, Shown
<1>7. Working(p)'
  BY <1>3, <1>4 DEF Working, Mounting, Naming
<1>8. Cleared(p)'
  BY <1>2 DEF Cleared
<1> QED BY <1>5, <1>6, <1>7, <1>8 DEF Solo

LEMMA SoloSpawns ==
    ASSUME MInv, NEW p \in All, Solo(p), Spawn(p)
    PROVE  Solo(p)'
<1>1. TypeOK /\ Shape(p) /\ Fits(task[p]) /\ task[p] \in Task /\ task[p].pc = "spawn"
      /\ task[p].id \in Ids /\ task[p].got.id = task[p].id
  BY ShapeOf DEF MInv, Spawn, At, Fits, Mounting
<1>2. PICK t \in Slots :
         /\ thread' = [thread EXCEPT ![t] =
               [st |-> "starting", cfg |-> task[p].got, told |-> FALSE, net |-> Online]]
         /\ task' = [task EXCEPT ![p].pc = "waiting", ![p].at = t]
  BY DEF Spawn
<1>3. /\ t \in Threads /\ t \notin Running /\ t # None
      /\ \A i \in Ids : mounts[i] # t
  BY ConstantTypes DEF Slots
<1>4. /\ task'[p].pc = "waiting" /\ task'[p].at = t /\ task'[p].id = task[p].id
      /\ task'[p].got = task[p].got /\ task'[p].todo = task[p].todo
  BY <1>1, <1>2 DEF Task, TypeOK
<1>5. /\ thread'[t].st = "starting" /\ \A u \in Threads \ {t} : thread'[u] = thread[u]
  BY <1>1, <1>2, <1>3 DEF TypeOK
<1>6. UNCHANGED <<row, mounts, blocks, reset>>
      /\ shown' = [shown EXCEPT ![task[p].id] = "mounting"]
  BY DEF Spawn, Quiet, Show
<1>7. mounts[task[p].id] = None /\ AsRow(task[p].got, task[p].id) /\ ~reset
  BY <1>1 DEF Solo, Working, Cleared, Mounting
<1>8. Handless(task[p])
  BY <1>1, NoHandle DEF Handling
<1>9. Traced(p)'
  <2>1. ASSUME NEW u \in Running', u # t PROVE mounts'[thread'[u].cfg.id] = u
    <3>1. u \in Running /\ thread'[u] = thread[u]
      BY <1>5, <2>1 DEF Running
    <3>2. u \in Threads /\ ~Has(p, u)
      BY <1>8, <3>1, RunsForDrive DEF Handless, Has
    <3> QED BY <1>6, <3>1, <3>2 DEF Solo, Traced
  <2> QED BY <1>4, <2>1 DEF Traced, Has
<1>10. Fresh' /\ Shown'
  <2>1. \A i \in Ids : mounts'[i] # None =>
           /\ mounts'[i] = mounts[i] /\ thread'[mounts[i]] = thread[mounts[i]]
           /\ shown'[i] = shown[i]
    BY <1>1, <1>3, <1>5, <1>6, <1>7 DEF TypeOK
  <2> QED BY <1>6, <2>1, FreshStays DEF Solo
<1>11. Working(p)'
  <2>1. PICK c, k : c = task[p].got /\ k = task[p].id
    OBVIOUS
  <2>2. AsRow(c, k)'
    BY <1>6, <1>7, <2>1 DEF AsRow
  <2>3. AsRow(task[p].got, task[p].id)'
    BY <1>4, <2>1, <2>2 DEF AsRow
  <2> QED BY <1>4, <1>5, <1>6, <1>7, <2>3 DEF Working, Mounting, Naming, AsRow, Reports
<1>12. Cleared(p)'
  BY <1>6, <1>7 DEF Cleared
<1> QED BY <1>9, <1>10, <1>11, <1>12 DEF Solo

\* A thread that has ended is joined.
LEMMA SoloJoins ==
    ASSUME MInv, NEW p \in All, p \notin Boot, Solo(p),
           \/ SpawnReturns(p) /\ thread[task[p].at].st = "failed"
           \/ SpawnJoined(p) \/ Stopped(p) \/ ResetStopped(p)
    PROVE  Solo(p)'
<1> DEFINE t == task[p].at
<1>1. TypeOK /\ Shape(p) /\ task[p] \in Task
  BY ShapeOf DEF MInv
<1>2. /\ task[p].pc \in {"waiting", "joining", "stopping", "resetting"}
      /\ t \in Threads \ Running /\ t # None /\ Join(p)
      /\ UNCHANGED <<row, mounts, blocks, reset>>
  BY <1>1, ConstantTypes DEF SpawnReturns, SpawnJoined, Stopped, ResetStopped, At, Shape, Handling,
                             Failed, Running, Quiet
<1>3. /\ \A u \in Threads \ {t} : thread'[u] = thread[u]
      /\ thread'[t].st = "none"
  BY <1>1, <1>2, IdleTask DEF Join, TypeOK
<1>4. \A i \in Ids : mounts[i] # t
  BY <1>1, <1>2, Own
<1>5. mounts[task[p].id] = None
  BY <1>2 DEF Solo, Working, Mounting, Naming
<1>6. UNCHANGED shown \/ Show(task[p].id, "offline")
  BY DEF SpawnReturns, SpawnJoined, Stopped, ResetStopped, Failed
<1>7. \A i \in Ids : mounts[i] # None => shown'[i] = shown[i]
  BY <1>1, <1>5, <1>6 DEF Show, TypeOK
<1>8. Fresh' /\ Shown'
  <2>1. \A i \in Ids : mounts'[i] # None =>
           /\ mounts'[i] = mounts[i] /\ thread'[mounts[i]] = thread[mounts[i]]
           /\ shown'[i] = shown[i]
    BY <1>1, <1>2, <1>3, <1>4, <1>7 DEF TypeOK
  <2> QED BY <1>2, <2>1, FreshStays DEF Solo
<1>9. /\ task'[p].at = None
      /\ \A u \in Threads : u # t => (Has(p, u) => u \in task'[p].todo)
      /\ task[p].pc = "resetting" => task'[p].pc = "resetting" /\ task'[p].todo = task[p].todo
      /\ task[p].pc # "resetting" => task'[p].pc = "idle"
  <2>1. CASE ~ResetStopped(p)
    <3>1. task'[p] = Idle /\ task[p].pc # "resetting"
      BY <1>2, <2>1, SoloReturn DEF SpawnReturns, SpawnJoined, Stopped, Failed, At
    <3>2. task[p].todo \cap Threads = {}
      BY <1>1, <1>2 DEF Shape
    <3> QED BY <3>1, <3>2, IdleTask DEF Has
  <2>2. CASE ResetStopped(p)
    <3>1. task' = [task EXCEPT ![p].at = None] /\ task[p].pc = "resetting"
      BY <2>2 DEF ResetStopped, At
    <3>2. task'[p].at = None /\ task'[p].todo = task[p].todo /\ task'[p].pc = task[p].pc
      BY <1>1, <3>1 DEF Task, TypeOK
    <3> QED BY <3>1, <3>2 DEF Has
  <2> QED BY <2>1, <2>2
<1> HIDE DEF t
<1>10. Traced(p)'
  <2>1. ASSUME NEW u \in Running' PROVE mounts'[thread'[u].cfg.id] = u \/ Has(p, u)'
    <3>1. u \in Threads /\ u # t
      BY <1>2, <1>3, <2>1 DEF Running
    <3>2. u \in Running /\ thread'[u] = thread[u]
      BY <1>3, <2>1, <3>1 DEF Running
    <3> QED BY <1>2, <1>9, <3>1, <3>2 DEF Solo, Traced, Has
  <2> QED BY <2>1 DEF Traced
<1>11. Working(p)'
  <2>1. task[p].pc = "resetting" => \A i \in Ids : mounts[i] # None => i \in task[p].todo
    BY DEF Solo, Working
  <2>2. task'[p].pc \in {"resetting", "idle"}
    BY <1>9
  <2>3. task'[p].pc = "resetting" => \A i \in Ids : mounts'[i] # None => i \in task'[p].todo
    BY <1>2, <1>9, <2>1
  <2> QED BY <1>9, <2>2, <2>3 DEF Working, Mounting, Naming
<1>12. Cleared(p)'
  <2>1. CASE task[p].pc = "resetting"
    BY <1>9, <2>1 DEF Cleared
  <2>2. CASE task[p].pc # "resetting"
    <3>1. ~reset
      BY <1>2, <2>2 DEF Solo, Cleared
    <3> QED BY <1>2, <3>1 DEF Cleared
  <2> QED BY <2>1, <2>2
<1> QED BY <1>8, <1>10, <1>11, <1>12 DEF Solo

\* A mount that is waited for comes about, or is given up.
LEMMA SoloWaits ==
    ASSUME MInv, NEW p \in All, Solo(p),
           \/ SpawnReturns(p) /\ thread[task[p].at].st # "failed"
           \/ SpawnTimesOut(p)
    PROVE  Solo(p)'
<1> DEFINE t == task[p].at
<1>1. TypeOK /\ Shape(p) /\ task[p] \in Task /\ task[p].pc = "waiting" /\ t \in Threads
  BY ShapeOf DEF MInv, SpawnReturns, SpawnTimesOut, At, Shape, Handling
<1>2. \A i \in Ids : mounts[i] # t
  BY <1>1, Own
<1>3. UNCHANGED <<row, mounts, blocks, shown, reset>>
  BY DEF SpawnReturns, SpawnTimesOut, Quiet
<1>4. PICK pc \in {"insert", "joining"} :
         Goto(p, pc) /\ (UNCHANGED thread \/ thread' = [thread EXCEPT ![t].told = TRUE])
  BY DEF SpawnReturns, SpawnTimesOut
<1>5. /\ task'[p].pc = pc /\ task'[p].id = task[p].id /\ task'[p].at = task[p].at
      /\ task'[p].got = task[p].got /\ task'[p].todo = task[p].todo
  BY <1>1, <1>4 DEF Goto, TypeOK, Task
<1>6. /\ \A u \in Threads : /\ thread'[u].st = thread[u].st
                             /\ thread'[u].cfg = thread[u].cfg
                             /\ thread'[u].net = thread[u].net
      /\ \A u \in Threads : u # t => thread'[u] = thread[u]
  BY <1>1, <1>4, Tells
<1>7. /\ mounts[task[p].id] = None /\ AsRow(task[p].got, task[p].id) /\ ~reset
      /\ Reports(thread[t], shown[task[p].id])
  BY <1>1 DEF Solo, Working, Cleared, Mounting
<1>8. Traced(p)'
  BY <1>3, <1>5, <1>6 DEF Solo, Traced, Running, Has
<1>9. Fresh' /\ Shown'
  <2>1. \A i \in Ids : mounts'[i] # None =>
           /\ mounts'[i] = mounts[i] /\ thread'[mounts[i]] = thread[mounts[i]]
           /\ shown'[i] = shown[i]
    BY <1>1, <1>2, <1>3, <1>6 DEF TypeOK
  <2> QED BY <1>3, <2>1, FreshStays DEF Solo
<1>10. Working(p)'
  <2>1. AsRow(task[p].got, task[p].id)'
    BY <1>3, <1>5, <1>7 DEF AsRow
  <2>2. Reports(thread[task[p].at], shown[task[p].id])'
    <3>1. /\ thread'[t].st = thread[t].st /\ thread'[t].net = thread[t].net
          /\ task'[p].at = t /\ shown'[task'[p].id] = shown[task[p].id]
      BY <1>1, <1>3, <1>5, <1>6
    <3> QED BY <1>7, <3>1 DEF Reports
  <2> QED BY <1>1, <1>3, <1>5, <1>6, <1>7, <2>1, <2>2 DEF Working, Mounting, Naming
<1>11. Cleared(p)'
  BY <1>3, <1>7 DEF Cleared
<1> QED BY <1>8, <1>9, <1>10, <1>11 DEF Solo

LEMMA SoloInserts ==
    ASSUME MInv, NEW p \in All, p \notin Boot, Solo(p), Insert(p)
    PROVE  Solo(p)'
<1> DEFINE t == task[p].at
           i == task[p].id
<1>1. /\ TypeOK /\ Shape(p) /\ Fits(task[p]) /\ task[p] \in Task /\ task[p].pc = "insert"
  BY ShapeOf DEF MInv, Insert, At
<1>2. /\ t \in Threads /\ i \in Ids /\ thread[t].cfg = task[p].got /\ task[p].got.id = i
      /\ task[p].todo \cap Threads = {}
  BY <1>1 DEF Shape, Fits, Handling, Mounting
<1>3. /\ mounts[i] = None /\ AsRow(task[p].got, i) /\ ~reset
      /\ Reports(thread[t], shown[i])
  BY <1>1 DEF Solo, Working, Cleared, Mounting
<1>4. UNCHANGED <<row, blocks, shown, reset, thread>> /\ task'[p] = Idle
      /\ mounts' = [mounts EXCEPT ![i] = t]
  BY <1>3, SoloReturn DEF Insert, Quiet, Dropped
<1> HIDE DEF t, i
<1>5. mounts'[i] = t /\ \A j \in Ids \ {i} : mounts'[j] = mounts[j]
  BY <1>1, <1>2, <1>4 DEF TypeOK
<1>6. Traced(p)'
  <2>1. ASSUME NEW u \in Running' PROVE mounts'[thread'[u].cfg.id] = u
    <3>1. u \in Running /\ thread' = thread
      BY <1>4, <2>1 DEF Running
    <3>2. u \in Threads /\ thread[u].cfg.id \in Ids
      BY <3>1, RunsForDrive
    <3>3. CASE u = t
      BY <1>2, <1>5, <3>1, <3>3
    <3>4. CASE u # t
      <4>1. mounts[thread[u].cfg.id] = u
        BY <1>2, <3>1, <3>2, <3>4 DEF Solo, Traced, Has, t
      <4>2. thread[u].cfg.id # i
        BY <1>3, <3>2, <4>1, ConstantTypes
      <4> QED BY <1>5, <3>1, <3>2, <4>1, <4>2
    <3> QED BY <3>3, <3>4
  <2> QED BY <2>1 DEF Traced
<1>7. Fresh' /\ Shown'
  <2>1. Fresh'
    <3>1. ASSUME NEW j \in Ids, mounts'[j] # None PROVE AsRow(thread[mounts[j]].cfg, j)'
      <4>1. CASE j = i
        BY <1>2, <1>3, <1>4, <1>5, <4>1 DEF AsRow
      <4>2. CASE j # i
        <5>1. mounts'[j] = mounts[j] /\ AsRow(thread[mounts[j]].cfg, j)
          BY <1>5, <3>1, <4>2 DEF Solo, Fresh
        <5> QED BY <1>4, <5>1 DEF AsRow
      <4> QED BY <4>1, <4>2
    <3> QED BY <3>1 DEF Fresh
  <2>2. Shown'
    BY <1>3, <1>4, <1>5 DEF Solo, Shown
  <2> QED BY <2>1, <2>2
<1>8. Working(p)'
  BY <1>4, IdleTask DEF Working, Mounting, Naming
<1>9. Cleared(p)'
  BY <1>3, <1>4 DEF Cleared
<1> QED BY <1>6, <1>7, <1>8, <1>9 DEF Solo

LEMMA SoloResets ==
    ASSUME MInv, NEW p \in All, Solo(p), ResetTakes(p)
    PROVE  Solo(p)'
<1>1. /\ TypeOK /\ Shape(p) /\ task[p] \in Task /\ task[p].pc = "resetting"
      /\ task[p].at = None /\ task[p].todo \subseteq Ids
  BY ShapeOf DEF MInv, ResetTakes, At, Fits
<1>2. PICK i \in task[p].todo :
        /\ task' = [task EXCEPT ![p].id = i, ![p].at = mounts[i], ![p].todo = @ \ {i}]
        /\ mounts' = [mounts EXCEPT ![i] = None]
        /\ thread' = Told({mounts[i]} \cap Threads)
  BY DEF ResetTakes
<1>3. PICK t, ts : t = mounts[i] /\ ts = {t} \cap Threads
  OBVIOUS
<1>4. i \in Ids /\ t \in Threads \cup {None}
  BY <1>1, <1>3 DEF TypeOK
<1>5. /\ task'[p].pc = "resetting" /\ task'[p].id = i /\ task'[p].at = t
      /\ task'[p].todo = task[p].todo \ {i}
  BY <1>1, <1>2, <1>3 DEF Task, TypeOK
<1>6. UNCHANGED <<row, blocks, shown, reset>>
  BY DEF ResetTakes, Quiet
<1>7. Telling(ts)
  <2>1. ts \in SUBSET Threads /\ thread' = Told(ts)
    BY <1>2, <1>3
  <2> QED BY <1>1, <2>1, ToldTells
<1>8. mounts'[i] = None /\ \A j \in Ids \ {i} : mounts'[j] = mounts[j]
  BY <1>1, <1>2, <1>4 DEF TypeOK
<1>9. Traced(p)'
  <2>1. ASSUME NEW u \in Running' PROVE mounts'[thread'[u].cfg.id] = u \/ Has(p, u)'
    <3>1. u \in Running /\ thread'[u].cfg = thread[u].cfg
      BY <1>7 DEF Running, Telling
    <3>2. thread[u].cfg.id \in Ids /\ u \in Threads
      BY <3>1, RunsForDrive
    <3>3. ~Has(p, u)
      BY <1>1, <3>2, ConstantTypes DEF Has
    <3>4. mounts[thread[u].cfg.id] = u
      BY <3>1, <3>3 DEF Solo, Traced
    <3> QED BY <1>3, <1>5, <1>8, <3>1, <3>2, <3>4 DEF Has
  <2> QED BY <2>1 DEF Traced
<1>10. Fresh' /\ Shown'
  <2>1. \A j \in Ids : mounts'[j] # None => mounts'[j] = mounts[j] /\ mounts[j] \in Threads
    BY <1>1, <1>8 DEF TypeOK
  <2> QED BY <1>6, <1>7, <2>1, FreshStays DEF Solo, Telling
<1>11. Working(p)'
  <2>1. t # None => thread'[t].cfg.id = i
    BY <1>3, <1>4, <1>7 DEF MInv, Serving, Telling
  <2>2. \A j \in Ids : mounts'[j] # None => j \in task[p].todo \ {i}
    BY <1>1, <1>8 DEF Solo, Working
  <2> QED BY <1>4, <1>5, <1>8, <2>1, <2>2 DEF Working, Mounting, Naming
<1>12. Cleared(p)'
  BY <1>5 DEF Cleared
<1> QED BY <1>9, <1>10, <1>11, <1>12 DEF Solo

LEMMA SoloTells ==
    ASSUME MInv, NEW p \in All, Solo(p), ExitTells(p)
    PROVE  Solo(p)'
<1>1. /\ TypeOK /\ task[p] \in Task /\ task[p].pc = "exiting"
      /\ task[p].at \notin Running /\ task[p].todo \subseteq Threads
  BY ShapeOf DEF MInv, ExitTells, At, Fits
<1>2. PICK t \in task[p].todo :
        /\ thread' = Told({t})
        /\ task' = [task EXCEPT ![p].at = t, ![p].todo = @ \ {t}]
  BY DEF ExitTells
<1>3. /\ task'[p].pc = "exiting" /\ task'[p].at = t /\ task'[p].todo = task[p].todo \ {t}
  BY <1>1, <1>2 DEF Task, TypeOK
<1>4. UNCHANGED <<row, mounts, blocks, shown, reset>>
  BY DEF ExitTells, Quiet
<1>5. Telling({t})
  BY <1>1, <1>2, ToldTells
<1>6. (\A i \in Ids : mounts[i] = None) /\ ~reset
  BY <1>1 DEF Solo, Working, Cleared
<1>7. Traced(p)'
  <2>1. ASSUME NEW u \in Running' PROVE mounts'[thread'[u].cfg.id] = u \/ Has(p, u)'
    <3>1. u \in Running /\ thread'[u].cfg = thread[u].cfg
      BY <1>5 DEF Running, Telling
    <3> QED BY <1>1, <1>3, <1>4, <3>1 DEF Solo, Traced, Has
  <2> QED BY <2>1 DEF Traced
<1>8. Fresh' /\ Shown'
  BY <1>4, <1>6 DEF Fresh, Shown
<1>9. Working(p)'
  BY <1>3, <1>4, <1>6 DEF Working, Mounting, Naming
<1>10. Cleared(p)'
  BY <1>4, <1>6 DEF Cleared
<1> QED BY <1>7, <1>8, <1>9, <1>10 DEF Solo

\* A thread is of a drive that is not mounted, or the one that mounts it.
LEMMA SoloOwn ==
    ASSUME MInv, NEW p \in All, Solo(p), NEW t \in Running
    PROVE  /\ mounts[thread[t].cfg.id] \in {t, None}
           /\ task[p].pc \in {"waiting", "insert"} /\ thread[t].cfg.id = task[p].id
                => t = task[p].at
<1>1. Shape(p) /\ Fits(task[p]) /\ t \in Threads /\ t # None /\ thread[t].cfg.id \in Ids
  BY ShapeOf, RunsForDrive
<1>2. mounts[thread[t].cfg.id] = t \/ Has(p, t)
  BY DEF Solo, Traced
<1>3. CASE t \in task[p].todo
  <2>1. task[p].pc = "exiting"
    BY <1>1, <1>3 DEF Shape
  <2> QED BY <1>1, <2>1 DEF Solo, Working
<1>4. CASE t = task[p].at
  <2>1. task[p].pc \in {"waiting", "joining", "insert", "stopping", "resetting", "exiting"}
    BY <1>1, <1>4 DEF Shape, Handling
  <2>2. CASE task[p].pc \in {"waiting", "joining", "insert"}
    <3>1. thread[t].cfg = task[p].got /\ task[p].got.id = task[p].id
      BY <1>1, <1>4, <2>2 DEF Shape, Fits, Mounting
    <3>2. mounts[task[p].id] = None
      BY <2>2 DEF Solo, Working, Mounting
    <3> QED BY <1>4, <3>1, <3>2
  <2>3. CASE task[p].pc \in {"stopping", "resetting"}
    <3>1. thread[t].cfg.id = task[p].id /\ mounts[task[p].id] = None
      BY <1>1, <1>4, <2>3 DEF Solo, Working, Naming
    <3> QED BY <1>4, <3>1
  <2>4. CASE task[p].pc = "exiting"
    BY <1>1, <2>4 DEF Solo, Working
  <2> QED BY <2>1, <2>2, <2>3, <2>4
<1>5. CASE mounts[thread[t].cfg.id] = t
  <2>1. task[p].pc \in {"waiting", "insert"} => mounts[task[p].id] = None
    BY DEF Solo, Working, Mounting
  <2> QED BY <1>1, <1>5, <2>1
<1> QED BY <1>2, <1>3, <1>4, <1>5 DEF Has

\* A thread goes on, and what is shown of its drive with it.
LEMMA SoloMoves ==
    ASSUME MInv, NEW p \in All, Solo(p), NEW t \in Running,
           UNCHANGED <<row, mounts, task, blocks, reset>>,
           thread'[t].cfg = thread[t].cfg, Running' \subseteq Running,
           \A u \in Threads : u # t => thread'[u] = thread[u],
           \A i \in Ids : i # thread[t].cfg.id => shown'[i] = shown[i],
           Reports(thread[t], shown[thread[t].cfg.id]) => Reports(thread[t], shown[thread[t].cfg.id])'
    PROVE  Solo(p)'
<1> DEFINE d == thread[t].cfg.id
<1>1. /\ TypeOK /\ Shape(p) /\ Fits(task[p]) /\ task[p] \in Task
      /\ t \in Threads /\ t # None /\ d \in Ids
  BY ShapeOf, RunsForDrive DEF MInv
<1>2. \A i \in Ids : mounts[i] # None => mounts[i] \in Threads /\ thread[mounts[i]].cfg.id = i
                                         /\ mounts[i] \in Holding
  BY <1>1 DEF TypeOK, MInv, Serving
<1>3. \A u \in Threads : thread'[u].cfg = thread[u].cfg
  OBVIOUS
<1>4. Traced(p)'
  BY <1>3 DEF Solo, Traced, Has, Running
<1>5. Fresh' /\ Shown'
  <2>1. Fresh'
    BY <1>2, <1>3 DEF Solo, Fresh, AsRow
  <2>2. ASSUME NEW i \in Ids, mounts[i] # None
        PROVE  Reports(thread'[mounts[i]], shown'[i])
    <3>1. Reports(thread[mounts[i]], shown[i]) /\ mounts[i] \in Threads
      BY <1>2, <2>2 DEF Solo, Shown
    <3>2. CASE mounts[i] = t
      <4>1. i = d
        BY <1>2, <2>2, <3>2
      <4> QED BY <1>3, <3>1, <3>2, <4>1
    <3>3. CASE mounts[i] # t
      <4>1. i # d
        BY <2>2, <3>3, SoloOwn
      <4> QED BY <3>1, <3>3, <4>1
    <3> QED BY <3>2, <3>3
  <2> QED BY <2>1, <2>2 DEF Shown
<1>6. Working(p)'
  <2>1. ASSUME task[p].pc \in {"waiting", "insert"}
        PROVE  Reports(thread'[task[p].at], shown'[task[p].id])
    <3>1. /\ task[p].at \in Threads /\ task[p].id \in Ids
          /\ thread[task[p].at].cfg = task[p].got /\ task[p].got.id = task[p].id
          /\ Reports(thread[task[p].at], shown[task[p].id])
      BY <1>1, <2>1 DEF Shape, Fits, Handling, Mounting, Solo, Working
    <3>2. CASE task[p].at = t
      BY <1>3, <3>1, <3>2
    <3>3. CASE task[p].at # t
      <4>1. task[p].id # d
        BY <2>1, <3>3, SoloOwn
      <4> QED BY <3>1, <3>3, <4>1
    <3> QED BY <3>2, <3>3
  <2>2. task[p].at # None => task[p].at \in Threads
    BY <1>1, TaskFields
  <2>3. AsRow(task[p].got, task[p].id)' = AsRow(task[p].got, task[p].id)
    BY DEF AsRow
  <2>4. Working(p) /\ UNCHANGED <<row, mounts, task>>
    BY DEF Solo
  <2> QED BY <1>3, <2>1, <2>2, <2>3, <2>4 DEF Working
<1>7. Cleared(p)'
  <2>1. ~(reset /\ task[p].pc = "idle")
    BY DEF Solo, Cleared
  <2> QED BY <2>1 DEF Solo, Cleared
<1> QED BY <1>4, <1>5, <1>6, <1>7 DEF Solo

LEMMA SoloThreads ==
    ASSUME MInv, Steadies, NEW p \in All, Solo(p), NEW t \in Threads, ThreadStep(t)
    PROVE  Solo(p)'
<1>1. /\ thread \in [Threads -> Thread] /\ thread[t] \in Thread /\ Steady(thread[t])
      /\ shown \in [Ids -> Statuses]
  BY DEF MInv, TypeOK, Steadies, Statuses
<1>2. UNCHANGED <<row, mounts, task, blocks, reset>> /\ t \in Running
  BY DEF ThreadStep, InitFails, HostMounts, Announce, Unmounts, Farewell, Quiet, Running
<1>3. thread[t].cfg.id \in Ids
  BY <1>2, RunsForDrive
<1>4. /\ thread'[t].cfg = thread[t].cfg /\ thread'[t].net = thread[t].net
      /\ \A u \in Threads : u # t => thread'[u] = thread[u]
  BY <1>1 DEF ThreadStep, InitFails, HostMounts, Announce, Unmounts, Farewell, Thread
<1>5. thread'[t].st = "parked" => /\ thread[t].st = "ready"
                                  /\ shown' = [shown EXCEPT ![thread[t].cfg.id] = "mounted"]
  BY <1>1 DEF ThreadStep, InitFails, HostMounts, Announce, Unmounts, Farewell, Thread, Show
<1>6. \A i \in Ids : i # thread[t].cfg.id => shown'[i] = shown[i]
  BY <1>1, <1>3 DEF ThreadStep, InitFails, HostMounts, Announce, Unmounts, Farewell, Show
<1>7. Reports(thread'[t], shown'[thread[t].cfg.id])
  BY <1>1, <1>3, <1>4, <1>5 DEF Reports, Steady
<1>8. Running' \subseteq Running
  BY <1>2, <1>4 DEF Running
<1> QED BY <1>2, <1>4, <1>6, <1>7, <1>8, SoloMoves

\* The store of a drive comes or goes, or that is said.
LEMMA SoloNet ==
    ASSUME MInv, Steadies, NEW p \in All, Solo(p), NEW t \in Threads, Turns(t) \/ Says(t)
    PROVE  Solo(p)'
<1>1. /\ Noticed /\ UNCHANGED <<row, mounts, task, blocks, reset>>
      /\ t \in Running /\ thread[t].cfg.id \in Ids /\ thread[t].net \in Net
      /\ \A u \in Threads : u # t => thread'[u] = thread[u]
      /\ shown \in [Ids -> Statuses] /\ Steady(thread[t])
  BY NetNoticed DEF MInv, TypeOK, Statuses, Steadies
<1>2. /\ thread'[t].st = thread[t].st /\ thread'[t].cfg = thread[t].cfg
      /\ Running' \subseteq Running
  BY <1>1 DEF Noticed, Running
<1>3. CASE Turns(t)
  <2>1. /\ UNCHANGED shown
        /\ thread'[t].net = [online |-> ~thread[t].net.online,
                             due |-> thread[t].net.due \cup {~thread[t].net.online},
                             calm |-> thread[t].net.calm /\ thread[t].net.due = {}
                                        /\ thread[t].st = "parked"]
    BY <1>3, NetNoticed
  <2>2. thread'[t].net.due # {}
    BY <2>1
  <2>3. Reports(thread[t], shown[thread[t].cfg.id]) => Reports(thread[t], shown[thread[t].cfg.id])'
    BY <1>2, <2>1, <2>2 DEF Reports
  <2> QED BY <1>1, <1>2, <2>1, <2>3, SoloMoves
<1>4. CASE Says(t)
  <2>1. PICK b \in thread[t].net.due :
             /\ shown' = [shown EXCEPT ![thread[t].cfg.id] = Word(b)]
             /\ thread'[t].net = [thread[t].net EXCEPT !.due = @ \ {b}]
    BY <1>4, NetNoticed
  <2>2. /\ thread'[t].net.online = thread[t].net.online
        /\ thread'[t].net.calm = thread[t].net.calm
        /\ thread'[t].net.due = thread[t].net.due \ {b}
        /\ shown'[thread[t].cfg.id] = Word(b)
        /\ \A i \in Ids : i # thread[t].cfg.id => shown'[i] = shown[i]
    BY <1>1, <2>1 DEF Net
  <2>3. ASSUME thread[t].st = "parked", thread[t].net.calm
        PROVE  Word(b) = "offline" <=> ~thread[t].net.online
    <3>1. b = thread[t].net.online
      BY <1>1, <2>3 DEF Steady
    <3> QED BY <3>1 DEF Word
  <2>4. Reports(thread'[t], shown'[thread[t].cfg.id])
    BY <1>2, <2>2, <2>3 DEF Reports, Word
  <2> QED BY <1>1, <1>2, <2>2, <2>4, SoloMoves
<1> QED BY <1>3, <1>4

\* A block that is read into the cache, and the end of the process.
LEMMA SoloElse ==
    ASSUME MInv, NEW p \in All, Solo(p),
           UNCHANGED <<row, mounts, thread, task, shown, reset>>,
           (\E t \in Threads : Reads(t)) \/ UNCHANGED blocks
    PROVE  Solo(p)'
<1>1. Running' = Running /\ Rows' = Rows
  BY DEF Running, Rows
<1>2. Traced(p)' /\ Fresh' /\ Shown' /\ Working(p)'
  BY <1>1 DEF Solo, Traced, Fresh, Shown, Working, Has, AsRow
<1>3. Cleared(p)'
  <2>1. CASE UNCHANGED blocks
    BY <1>1, <2>1 DEF Solo, Cleared
  <2>2. CASE \E t \in Threads : Reads(t)
    <3>1. Running # {}
      BY <2>2 DEF Reads, Holding, Running
    <3> QED BY <3>1 DEF Solo, Cleared
  <2> QED BY <2>1, <2>2
<1> QED BY <1>2, <1>3 DEF Solo

LEMMA OneTask ==
    ASSUME scene \in Scenes, OneByOne
    PROVE  \E p \in All : p \notin Boot /\ scene.tasks = {p}
<1>1. /\ scene.tasks \subseteq Tasks \cup Boot /\ scene.tasks \cap Tasks # {}
      /\ Boot \cap Tasks = {} /\ IsFiniteSet(Tasks \cup Boot)
  BY SceneTypes, ConstantTypes, BoundsAssumption
<1>2. IsFiniteSet(scene.tasks) /\ Cardinality(scene.tasks) = 1
  BY <1>1, FS_Subset DEF OneByOne
<1>3. PICK p : scene.tasks = {p}
  BY <1>2, FS_Singleton
<1> QED BY <1>1, <1>3 DEF All

\* A task's step is its own.
LEMMA TaskMoves ==
    ASSUME MInv, NEW p \in All, TaskStep(p)
    PROVE  /\ task[p].pc # "idle" /\ scene' = scene
           /\ \A q \in All \ {p} : task'[q] = task[q]
<1>1. task \in [All -> Task]
  BY DEF MInv, TypeOK
<1>2. CASE \/ MountRead(p) \/ Retrieve(p) \/ Migrate(p) \/ Spawn(p) \/ SpawnReturns(p)
           \/ SpawnTimesOut(p) \/ SpawnJoined(p) \/ Insert(p)
  BY <1>1, <1>2 DEF MountRead, Retrieve, Migrate, Spawn, SpawnReturns, SpawnTimesOut, SpawnJoined,
                    Insert, Failed, Return, Goto, At, Quiet
<1>3. CASE \/ Snapshot(p) \/ NextRow(p) \/ Stopped(p) \/ RemoveRow(p) \/ SetKey(p) \/ Store(p)
           \/ WritePrefix(p)
  BY <1>1, <1>3 DEF Snapshot, NextRow, Stopped, RemoveRow, SetKey, Store, WritePrefix, Return, Goto,
                    At, Quiet
<1>4. CASE \/ AddRow(p) \/ AddSecret(p) \/ ResetTakes(p) \/ ResetStopped(p) \/ Wipe(p)
           \/ WipeFails(p) \/ ExitTells(p) \/ Exited(p)
  BY <1>1, <1>4 DEF AddRow, AddSecret, ResetTakes, ResetStopped, Wipe, WipeFails, ExitTells, Exited, Return,
                    At, Quiet
<1> QED BY <1>2, <1>3, <1>4 DEF TaskStep

LEMMA CommandMoves ==
    ASSUME MInv, NEW p \in All, Command(p)
    PROVE  /\ p \in scene.tasks /\ scene' = scene
           /\ \A q \in All \ {p} : task'[q] = task[q]
<1>1. task \in [All -> Task] /\ Free \in scene.tasks
  BY FreeTask DEF MInv, TypeOK
<1>2. p = Free /\ scene' = scene /\ \A q \in All \ {p} : task'[q] = task[q]
  BY <1>1 DEF Command, Add, AddCloud, Reset, Exit, Mount, Unmount, Remove, SetCredentials, SetPrefix,
              Begin
<1> QED BY <1>1, <1>2

LEMMA AloneStays == MInv /\ Steadies /\ Alone /\ [Next]_vars => Alone'
<1> SUFFICES ASSUME MInv, Steadies, Alone, [Next]_vars PROVE Alone'
  OBVIOUS
<1>1. scene' = scene
  BY TaskMoves, CommandMoves, NetNoticed
     DEF Next, ThreadStep, InitFails, HostMounts, Announce, Unmounts, Farewell, Reads, Quiet, Rest, vars
<1>2. Active'
  <2>1. ASSUME NEW p \in All, Command(p) \/ TaskStep(p) PROVE Active'
    BY <1>1, <2>1, TaskMoves, CommandMoves DEF Alone, Active
  <2>2. ASSUME UNCHANGED task PROVE Active'
    BY <1>1, <2>2 DEF Alone, Active
  <2> QED BY <2>1, <2>2, NetNoticed
          DEF Next, ThreadStep, InitFails, HostMounts, Announce, Unmounts, Farewell, Reads, Rest, vars
<1>3. ASSUME OneByOne PROVE \A p \in scene.tasks : Solo(p)'
  <2>1. PICK p \in All : p \notin Boot /\ scene.tasks = {p}
    BY <1>3, OneTask DEF MInv, TypeOK
  <2>2. Solo(p) /\ \A q \in All : q # p => task[q].pc = "idle"
    BY <1>3, <2>1 DEF Alone, Active
  <2>3. ASSUME NEW q \in All, Command(q) PROVE Solo(p)'
    <3>1. q = p
      BY <2>1, <2>3, CommandMoves
    <3>2. Command(p)
      BY <2>3, <3>1
    <3>3. 1..scene.drives \subseteq Ids
      BY SceneTypes, ConstantTypes DEF MInv, TypeOK, Ids
    <3>4. CASE Exit(p)
      BY <2>2, <3>4, SoloExits
    <3>5. ASSUME NEW i \in 1..scene.drives, Unmount(p, i) PROVE Solo(p)'
      BY <2>2, <3>3, <3>5, SoloUnmounts
    <3>6. CASE ~Exit(p) /\ ~\E i \in 1..scene.drives : Unmount(p, i)
      BY <2>2, <3>2, <3>6, SoloCommands DEF Command
    <3> QED BY <3>4, <3>5, <3>6
  <2>4. ASSUME NEW q \in All, TaskStep(q) PROVE Solo(p)'
    <3>1. q = p
      BY <2>2, <2>4, TaskMoves
    <3>2. TaskStep(p)
      BY <2>4, <3>1
    <3>3. CASE MountRead(p) \/ Retrieve(p) \/ Migrate(p)
      BY <2>1, <2>2, <3>3, SoloMounts
    <3>4. CASE Spawn(p)
      BY <2>2, <3>4, SoloSpawns
    <3>5. CASE SpawnReturns(p) \/ SpawnTimesOut(p)
      BY <2>1, <2>2, <3>5, SoloJoins, SoloWaits
    <3>6. CASE SpawnJoined(p) \/ Stopped(p) \/ ResetStopped(p)
      BY <2>1, <2>2, <3>6, SoloJoins
    <3>7. CASE Insert(p)
      BY <2>1, <2>2, <3>7, SoloInserts
    <3>8. CASE Snapshot(p) \/ NextRow(p)
      BY <2>1, <2>2, <3>8 DEF Solo, Working, Snapshot, NextRow, At
    <3>9. CASE RemoveRow(p) \/ SetKey(p) \/ Store(p) \/ WritePrefix(p) \/ AddSecret(p)
      BY <2>1, <2>2, <3>9, SoloTable
    <3>10. CASE AddRow(p)
      BY <2>1, <2>2, <3>10, SoloAdds
    <3>11. CASE ResetTakes(p)
      BY <2>2, <3>11, SoloResets
    <3>12. CASE Wipe(p)
      BY <2>1, <2>2, <3>12, SoloWipes
    <3>13. CASE ExitTells(p)
      BY <2>2, <3>13, SoloTells
    <3>14. CASE Exited(p)
      BY <2>2, <3>14, SoloElse DEF Exited
    <3>15. CASE WipeFails(p)
      BY <2>1, <2>2, <3>15, SoloFails
    <3> QED BY <3>2, <3>3, <3>4, <3>5, <3>6, <3>7, <3>8, <3>9, <3>10, <3>11, <3>12, <3>13, <3>14, <3>15
            DEF TaskStep
  <2>5. ASSUME NEW t \in Threads, ThreadStep(t) PROVE Solo(p)'
    BY <2>2, <2>5, SoloThreads
  <2>6. ASSUME NEW t \in Threads, Reads(t) PROVE Solo(p)'
    BY <2>2, <2>6, SoloElse DEF Reads, Quiet
  <2>7. ASSUME Rest \/ UNCHANGED vars PROVE Solo(p)'
    <3>1. UNCHANGED <<row, mounts, thread, task, shown, reset>> /\ UNCHANGED blocks
      BY <2>7 DEF Rest, vars
    <3>2. (\E t \in Threads : Reads(t)) \/ UNCHANGED blocks
      BY <3>1
    <3> QED BY <2>2, <3>1, <3>2, SoloElse
  <2>9. ASSUME NEW t \in Threads, Turns(t) \/ Says(t) PROVE Solo(p)'
    BY <2>2, <2>9, SoloNet
  <2>8. Solo(p)'
    <3>1. CASE \E q \in All : Command(q) \/ TaskStep(q)
      BY <2>3, <2>4, <3>1
    <3>2. CASE \E t \in Threads : ThreadStep(t) \/ Turns(t) \/ Says(t) \/ Reads(t)
      BY <2>5, <2>6, <2>9, <3>2
    <3>3. Next \/ UNCHANGED vars
      OBVIOUS
    <3> QED BY <2>7, <3>1, <3>2, <3>3 DEF Next
  <2> QED BY <2>1, <2>8
<1> QED BY <1>1, <1>2, <1>3 DEF Alone, OneByOne

LEMMA AloneAlways == Spec => []Alone
<1>1. Init => Alone
  <2> SUFFICES ASSUME Init PROVE Alone
    OBVIOUS
  <2>1. TypeOK
    BY InitTyped
  <2>2. ASSUME NEW p \in All
        PROVE  task[p].pc = "idle" \/ p \in Boot \cap scene.tasks
    BY IdleTask DEF Init
  <2>3. Active
    BY <2>2 DEF Active
  <2>4. ASSUME OneByOne, NEW p \in scene.tasks PROVE Solo(p)
    <3>1. p \in All /\ p \notin Boot
      BY <2>1, <2>4, OneTask DEF TypeOK
    <3>2. task[p].pc = "idle"
      BY <2>2, <3>1
    <3>3. Running = {} /\ reset = FALSE /\ \A i \in Ids : mounts[i] = None
      BY IdleTask DEF Init, Running
    <3> QED BY <3>2, <3>3 DEF Solo, Traced, Fresh, Shown, Working, Cleared, Mounting, Naming
  <2> QED BY <2>3, <2>4 DEF Alone
<1> QED BY <1>1, AloneStays, HandlesAlways, SeenAlways, PTL DEF Spec

LEMMA AloneSolo ==
    ASSUME MInv, Alone, OneByOne
    PROVE  \E p \in All : p \in scene.tasks /\ Solo(p)
BY OneTask DEF MInv, TypeOK, Alone

-----------------------------------------------------------------------------
(* What the user may rely on.                                              *)

(***************************************************************************)
(* Once nothing is in progress on a drive, its last drive_status_changed   *)
(* tells the truth: what is shown as mounted or online has a thread that   *)
(* serves it, and where commands do not overlap what is mounted is shown   *)
(* so, or as offline just if its store was out of reach when last asked    *)
(* and no two of its events raced (mounts.rs spawn_mount, drives.rs        *)
(* unmount_drive, lib.rs auto_mount_drives, winfsp_vfs.rs                  *)
(* record_connectivity).                                                   *)
(***************************************************************************)
THEOREM EventsAreTrue == Spec => []ShownIsTrue
<1>1. MInv /\ Seen /\ Alone => ShownIsTrue
  <2> SUFFICES ASSUME MInv, Seen, Alone, NEW i \in Ids, Settled(i)
               PROVE  /\ shown[i] \in Alive => \E t \in Holding : thread[t].cfg.id = i
                      /\ OneByOne /\ mounts[i] # None =>
                            LET n == thread[mounts[i]].net
                            IN  /\ shown[i] \in {"mounted", "online", "offline"}
                                /\ n.calm /\ n.due = {} => (shown[i] = "offline" <=> ~n.online)
    BY DEF ShownIsTrue, Alive
  <2>1. ASSUME shown[i] \in Alive PROVE \E t \in Holding : thread[t].cfg.id = i
    <3>1. PICK t \in Threads : Said(t) /\ thread[t].cfg.id = i
      BY <2>1 DEF Seen
    <3>2. t \in Holding
      BY <3>1 DEF Settled, Said, Holding
    <3> QED BY <3>1, <3>2
  <2>2. ASSUME OneByOne, mounts[i] # None PROVE Reports(thread[mounts[i]], shown[i])
    BY <2>2, AloneSolo DEF Solo, Shown
  <2>3. ASSUME mounts[i] # None PROVE thread[mounts[i]].st = "parked"
    <3>1. PICK t \in Threads : t = mounts[i] /\ t \in Holding /\ thread[t].cfg.id = i
      BY <2>3 DEF MInv, Serving, Holding
    <3> QED BY <3>1 DEF Settled, Holding
  <2> QED BY <2>1, <2>2, <2>3 DEF Reports
<1> QED BY <1>1, HandlesAlways, SeenAlways, AloneAlways, PTL

(***************************************************************************)
(* A mounted drive runs with the access key, the secret and the prefix of  *)
(* its row wherever commands do not overlap (drives.rs mount_drive,        *)
(* set_drive_credentials, set_drive_prefix).                               *)
(***************************************************************************)
THEOREM MountedAsSet == Spec => []SettingsKept
<1>1. MInv /\ Alone => SettingsKept
  <2> SUFFICES ASSUME MInv, Alone, OneByOne, NEW i \in Rows, mounts[i] # None
               PROVE  LET c == thread[mounts[i]].cfg
                      IN  <<c.key, c.secret, c.prefix>>
                            = <<row[i].key, row[i].secret, row[i].prefix>>
    BY DEF SettingsKept
  <2>1. AsRow(thread[mounts[i]].cfg, i)
    BY AloneSolo DEF Solo, Fresh, Rows
  <2> QED BY <2>1 DEF AsRow
<1> QED BY <1>1, HandlesAlways, AloneAlways, PTL

(***************************************************************************)
(* A factory reset that overlapped with nothing and whose batch did not    *)
(* fail leaves no row, no thread and no block (system.rs factory_reset).   *)
(***************************************************************************)
THEOREM ResetLeavesNothing == Spec => []ResetIsClean
<1>1. MInv /\ Alone => ResetIsClean
  BY AloneSolo DEF ResetIsClean, Solo, Cleared
<1> QED BY <1>1, HandlesAlways, AloneAlways, PTL

-----------------------------------------------------------------------------
(* Letters.                                                                *)
(*                                                                         *)
(* Every row and every configuration taken from one carries the number of  *)
(* the command that added the drive.  The number settles the letter, and   *)
(* WinFsp gives a letter once; so two threads that serve were made for     *)
(* different drives.                                                       *)

Same(c, d) == c.inc = d.inc /\ c.letter = d.letter

Named == ({row[i] : i \in Ids} \cup {task[p].got : p \in All} \cup (UNION {task[p].rows : p \in All})
            \cup {thread[t].cfg : t \in Threads}) \ {None}

Settling == /\ \A c, d \in Named : c.inc = d.inc => c.letter = d.letter
            /\ \A c \in Named : c.inc <= Latest

\* The number of a row that is still to be added is nobody's.
Awaited == \A p \in All :
    /\ task[p].gen <= Latest
    /\ task[p].pc = "adding" =>
          /\ \A c \in Named : c.inc # task[p].gen
          /\ \A q \in All : q # p /\ task[q].pc = "adding" => task[q].gen # task[p].gen

OneLetter == \A t, u \in Holding : t # u => thread[t].cfg.letter # thread[u].cfg.letter

Letter == Settling /\ Awaited /\ OneLetter

\* Where the drives that are named after a step come from.
RowsFrom    == \A i \in Ids : row'[i] # None => row[i] # None /\ Same(row[i], row'[i])
TaskFrom(x) == /\ x.got # None => \E c \in Named : Same(c, x.got)
               /\ \A d \in x.rows : \E c \in Named : Same(c, d)
ThreadsFrom == \A t \in Threads : /\ thread'[t].cfg \in Named \cup {None}
                                  /\ t \in Holding' => t \in Holding /\ thread'[t].cfg = thread[t].cfg

LEMMA NamedOnes ==
    ASSUME TypeOK
    PROVE  /\ \A i \in Ids : row[i] # None => row[i] \in Named
           /\ \A p \in All : /\ task[p].got # None => task[p].got \in Named
                             /\ \A d \in task[p].rows : d \in Named
           /\ \A t \in Threads : thread[t].cfg # None => thread[t].cfg \in Named
           /\ \A p \in All : TaskFrom(task[p])
           /\ \A c \in Named : c.inc \in Nat
<1>1. \A p \in All : task[p].got \in Config \cup {None} /\ task[p].rows \in SUBSET Config
  BY TaskFields DEF TypeOK
<1>2. \A p \in All : \A d \in task[p].rows : d \in Config /\ d # None
  BY <1>1, ConfigFields
<1>3. \A p \in All : /\ task[p].got # None => task[p].got \in Named
                     /\ \A d \in task[p].rows : d \in Named
  BY <1>2 DEF Named
<1>4. \A t \in Threads : thread[t].cfg \in Config \cup {None}
  BY ThreadFields DEF TypeOK
<1>5. \A i \in Ids : row[i] \in Row \cup {None}
  BY DEF TypeOK
<1>6. ASSUME NEW c \in Named PROVE c \in Row \cup Config
  <2>1. c # None
    BY DEF Named
  <2>2. CASE c \in {row[i] : i \in Ids}
    BY <1>5, <2>1, <2>2
  <2>3. CASE c \in {task[p].got : p \in All}
    BY <1>1, <2>1, <2>3
  <2>4. CASE c \in UNION {task[p].rows : p \in All}
    BY <1>2, <2>4
  <2>5. CASE c \in {thread[t].cfg : t \in Threads}
    BY <1>4, <2>1, <2>5
  <2> QED BY <2>2, <2>3, <2>4, <2>5 DEF Named
<1>7. \A c \in Named : c.inc \in Nat
  BY <1>6, ConfigFields, ConstantTypes
<1>8. \A p \in All : TaskFrom(task[p])
  BY <1>3 DEF TaskFrom, Same
<1>9. /\ \A i \in Ids : row[i] # None => row[i] \in Named
      /\ \A t \in Threads : thread[t].cfg # None => thread[t].cfg \in Named
  BY DEF Named
<1> QED BY <1>3, <1>7, <1>8, <1>9

\* No drive is new: what is settled stays so.
LEMMA NothingNew ==
    ASSUME TypeOK, RowsFrom, \A p \in All : TaskFrom(task'[p]), ThreadsFrom
    PROVE  \A d \in Named' : \E c \in Named : Same(c, d)
<1> SUFFICES ASSUME NEW d \in Named' PROVE \E c \in Named : Same(c, d)
  OBVIOUS
<1>1. d # None
  BY DEF Named
<1>2. CASE d \in {row'[i] : i \in Ids}
  BY <1>1, <1>2, NamedOnes DEF RowsFrom
<1>3. CASE d \in {task'[p].got : p \in All} \cup UNION {task'[p].rows : p \in All}
  BY <1>1, <1>3 DEF TaskFrom
<1>4. CASE d \in {thread'[t].cfg : t \in Threads}
  BY <1>1, <1>4 DEF ThreadsFrom, Same
<1> QED BY <1>2, <1>3, <1>4 DEF Named

LEMMA Carried ==
    ASSUME Letter, TypeOK, Latest' \in Nat, Latest' >= Latest,
           \A d \in Named' : \E c \in Named : Same(c, d)
    PROVE  /\ Settling'
           /\ \A g \in Nat : (\A c \in Named : c.inc # g) => \A d \in Named' : d.inc # g
<1>0. Latest \in Nat
  BY ConstantTypes DEF Latest, TypeOK
<1>1. ASSUME NEW c \in Named', NEW d \in Named', c.inc = d.inc PROVE c.letter = d.letter
  BY <1>1 DEF Letter, Settling, Same
<1>2. ASSUME NEW d \in Named' PROVE d.inc <= Latest'
  BY <1>0, <1>2, NamedOnes DEF Letter, Settling, Same
<1>3. ASSUME NEW g \in Nat, \A c \in Named : c.inc # g, NEW d \in Named' PROVE d.inc # g
  BY <1>3 DEF Same
<1> QED BY <1>1, <1>2, <1>3 DEF Settling

LEMMA HoldersCarried == Letter /\ ThreadsFrom => OneLetter'
BY DEF Letter, OneLetter, ThreadsFrom, Holding

\* A task goes on with what is known.
LEMMA LetterKept ==
    ASSUME MInv, Letter, begun' = begun, RowsFrom, ThreadsFrom, NEW p \in All,
           TaskFrom(task'[p]), task'[p].gen \in {task[p].gen, 0},
           task'[p].pc # "adding" \/ task'[p] = task[p],
           \A q \in All \ {p} : task'[q] = task[q]
    PROVE  Letter'
<1>0. TypeOK /\ Latest' = Latest /\ Latest \in Nat
  BY ConstantTypes DEF Latest, MInv, TypeOK
<1>1. TypeOK /\ Latest' = Latest /\ Latest \in Nat /\ \A q \in All : task[q].gen \in Nat
  <2>1. \A q \in All : task[q].gen \in Gens
    BY <1>0, TaskFields DEF TypeOK
  <2> QED BY <1>0, <2>1, ConstantTypes
<1>2. \A q \in All : TaskFrom(task'[q])
  BY <1>1, NamedOnes
<1>3. \A d \in Named' : \E c \in Named : Same(c, d)
  BY <1>1, <1>2, NothingNew
<1>4. Settling' /\ \A g \in Nat : (\A c \in Named : c.inc # g) => \A d \in Named' : d.inc # g
  BY <1>1, <1>3, Carried
<1>5. ASSUME NEW q \in All
      PROVE  /\ task'[q].gen <= Latest'
             /\ task'[q].pc = "adding" => task[q].pc = "adding" /\ task'[q].gen = task[q].gen
  BY <1>1 DEF Letter, Awaited
<1>6. Awaited'
  BY <1>1, <1>4, <1>5 DEF Letter, Awaited
<1> QED BY <1>4, <1>6, HoldersCarried DEF Letter

\* Rows keep their number and letter; only add_drive makes one.
LEMMA RowsCome ==
    ASSUME MInv, NEW p \in All, TaskStep(p), ~AddRow(p)
    PROVE  RowsFrom
<1>1. TypeOK /\ row \in [Ids -> Row \cup {None}]
  BY DEF MInv, TypeOK
<1>2. CASE UNCHANGED row
  BY <1>2 DEF RowsFrom, Same
<1>3. ASSUME NEW i, row' = [row EXCEPT ![i] = None] PROVE RowsFrom
  BY <1>1, <1>3 DEF RowsFrom, Same
<1>4. ASSUME NEW i, NEW s, row' = Stored(i, s) PROVE RowsFrom
  <2>1. CASE row[i] = None
    BY <1>2, <1>4, <2>1 DEF Stored
  <2>2. CASE row[i] # None
    BY <1>1, <1>4, <2>2 DEF Stored, RowsFrom, Same, Row
  <2> QED BY <2>1, <2>2
<1>5. CASE Migrate(p) \/ Store(p) \/ AddSecret(p)
  BY <1>2, <1>3, <1>4, <1>5 DEF Migrate, Store, AddSecret, StoreEnds
<1>6. CASE RemoveRow(p)
  BY <1>3, <1>6 DEF RemoveRow
<1>7. CASE SetKey(p) \/ WritePrefix(p)
  BY <1>1, <1>7 DEF SetKey, WritePrefix, RowsFrom, Same, Row
<1>8. CASE Wipe(p) \/ WipeFails(p)
  BY <1>2, <1>8 DEF Wipe, WipeFails, RowsFrom
<1>9. CASE ~(\/ Migrate(p) \/ Store(p) \/ AddSecret(p) \/ RemoveRow(p) \/ SetKey(p)
             \/ WritePrefix(p) \/ Wipe(p) \/ WipeFails(p))
  BY <1>2, <1>9 DEF TaskStep, MountRead, Retrieve, Spawn, SpawnReturns, SpawnTimesOut, SpawnJoined,
                    Insert, Snapshot, NextRow, Stopped, ResetTakes, ResetStopped, ExitTells, Exited
<1> QED BY <1>5, <1>6, <1>7, <1>8, <1>9

LEMMA ConfigsCome ==
    ASSUME MInv, NEW i \in Ids, row[i] # None
    PROVE  \E c \in Named : Same(c, ConfigOf(i))
BY NamedOnes DEF MInv, Same, ConfigOf

\* A task goes on with the drives it has noted, or takes note of rows.
LEMMA TaskComes ==
    ASSUME MInv, NEW p \in All, TaskStep(p)
    PROVE  /\ TaskFrom(task'[p]) /\ task'[p].gen \in {task[p].gen, 0}
           /\ task'[p].pc # "adding" \/ task'[p] = task[p]
<1>1. TypeOK /\ task \in [All -> Task] /\ task[p] \in Task /\ TaskFrom(task[p]) /\ Fits(task[p])
  BY NamedOnes, ShapeOf DEF MInv, TypeOK
<1>2. ASSUME Return(p) PROVE /\ TaskFrom(task'[p]) /\ task'[p].gen = 0 /\ task'[p].pc # "adding"
  BY <1>1, <1>2, Returned, Put DEF TaskFrom
<1>3. ASSUME NEW pc \in Pcs \ {"adding"}, Goto(p, pc)
      PROVE  /\ TaskFrom(task'[p]) /\ task'[p].gen = task[p].gen /\ task'[p].pc # "adding"
  <2>1. /\ task'[p].pc = pc /\ task'[p].got = task[p].got
        /\ task'[p].rows = task[p].rows /\ task'[p].gen = task[p].gen
    BY <1>1, <1>3 DEF Goto, Task
  <2> QED BY <1>1, <2>1 DEF TaskFrom
<1>4. CASE MountRead(p)
  <2>1. CASE row[task[p].id] = None
    BY <1>2, <1>4, <2>1 DEF MountRead
  <2>2. CASE row[task[p].id] # None
    <3>1. task[p].id \in Ids
      BY <1>1, <1>4 DEF MountRead, At, Fits, Naming
    <3>2. task' = [task EXCEPT ![p].pc = "secret", ![p].got = ConfigOf(task[p].id)]
      BY <1>4, <2>2 DEF MountRead
    <3>3. /\ task'[p].pc = "secret" /\ task'[p].got = ConfigOf(task[p].id)
          /\ task'[p].rows = task[p].rows /\ task'[p].gen = task[p].gen
      BY <1>1, <3>2 DEF Task
    <3> QED BY <1>1, <2>2, <3>1, <3>3, ConfigsCome DEF TaskFrom
  <2> QED BY <2>1, <2>2
<1>5. CASE Retrieve(p)
  <2>1. CASE row[task[p].id] = None \/ row[task[p].id].secret = None
    BY <1>2, <1>5, <2>1 DEF Retrieve
  <2>2. CASE row[task[p].id] # None /\ row[task[p].id].secret # None
    <3>1. task[p].got \in Config
      BY <1>1, <1>5 DEF Retrieve, At, Fits, Mounting
    <3>2. PICK pc \in {"migrate", "spawn"} :
             task' = [task EXCEPT ![p].pc = pc, ![p].got.secret = row[task[p].id].secret]
      BY <1>5, <2>2 DEF Retrieve
    <3>3. /\ task'[p].pc = pc /\ task'[p].rows = task[p].rows /\ task'[p].gen = task[p].gen
          /\ task'[p].got = [task[p].got EXCEPT !.secret = row[task[p].id].secret]
      BY <1>1, <3>2 DEF Task
    <3>4. task'[p].got.inc = task[p].got.inc /\ task'[p].got.letter = task[p].got.letter
      BY <3>1, <3>3 DEF Config
    <3>5. task[p].got \in Named
      BY <1>1, <3>1, NamedOnes, ConfigFields
    <3> QED BY <1>1, <3>3, <3>4, <3>5 DEF TaskFrom, Same
  <2> QED BY <2>1, <2>2
<1>6. CASE Snapshot(p)
  <2>1. PICK auto \in SUBSET Rows :
            task' = [task EXCEPT ![p].pc = "next", ![p].rows = {ConfigOf(i) : i \in auto}]
    BY <1>6 DEF Snapshot
  <2>2. /\ task'[p].pc = "next" /\ task'[p].rows = {ConfigOf(i) : i \in auto}
        /\ task'[p].got = task[p].got /\ task'[p].gen = task[p].gen
    BY <1>1, <2>1 DEF Task
  <2> QED BY <1>1, <2>2, ConfigsCome DEF TaskFrom, Rows
<1>7. CASE NextRow(p)
  <2>1. CASE task[p].rows = {}
    BY <1>1, <1>7, <2>1, IdleTask DEF NextRow, TaskFrom
  <2>2. CASE task[p].rows # {}
    <3>1. PICK c \in task[p].rows : task' = [task EXCEPT ![p] = IF NotMounted(c.id)
                    THEN [@ EXCEPT !.pc = "secret", !.id = c.id, !.got = c, !.rows = task[p].rows \ {c}]
                    ELSE [@ EXCEPT !.rows = task[p].rows \ {c}]]
      BY <1>7, <2>2 DEF NextRow
    <3>2. task[p].pc = "next"
      BY <1>7 DEF NextRow, At
    <3>3. /\ task'[p].pc # "adding" /\ task'[p].got \in {c, task[p].got}
          /\ task'[p].rows \subseteq task[p].rows /\ task'[p].gen = task[p].gen
      BY <1>1, <3>1, <3>2 DEF Task
    <3> QED BY <1>1, <3>3 DEF TaskFrom
  <2> QED BY <2>1, <2>2
<1>8. CASE \/ Migrate(p) \/ SpawnReturns(p) \/ SpawnTimesOut(p) \/ SpawnJoined(p) \/ Insert(p)
           \/ Stopped(p) \/ RemoveRow(p) \/ SetKey(p) \/ Store(p) \/ WritePrefix(p) \/ AddSecret(p)
           \/ Wipe(p) \/ WipeFails(p)
  BY <1>2, <1>3, <1>8 DEF Migrate, SpawnReturns, SpawnTimesOut, SpawnJoined, Insert, Stopped, RemoveRow,
                          SetKey, Store, WritePrefix, AddSecret, Wipe, WipeFails, Failed, Pcs
<1>9. CASE Spawn(p) \/ ResetStopped(p)
  <2>1. /\ task'[p].pc # "adding" /\ task'[p].got = task[p].got
        /\ task'[p].rows = task[p].rows /\ task'[p].gen = task[p].gen
    BY <1>1, <1>9 DEF Spawn, ResetStopped, At, Task
  <2> QED BY <1>1, <2>1 DEF TaskFrom
<1>10. CASE ResetTakes(p) \/ ExitTells(p)
  <2>1. /\ task'[p].pc # "adding" /\ task'[p].got = task[p].got
        /\ task'[p].rows = task[p].rows /\ task'[p].gen = task[p].gen
    <3>1. CASE ResetTakes(p)
      <4>1. PICK i \in task[p].todo :
              task' = [task EXCEPT ![p].id = i, ![p].at = mounts[i], ![p].todo = @ \ {i}]
        BY <3>1 DEF ResetTakes
      <4> QED BY <1>1, <3>1, <4>1 DEF ResetTakes, At, Task
    <3>2. CASE ExitTells(p)
      <4>1. PICK t \in task[p].todo : task' = [task EXCEPT ![p].at = t, ![p].todo = @ \ {t}]
        BY <3>2 DEF ExitTells
      <4> QED BY <1>1, <3>2, <4>1 DEF ExitTells, At, Task
    <3> QED BY <1>10, <3>1, <3>2
  <2> QED BY <1>1, <2>1 DEF TaskFrom
<1>11. CASE AddRow(p)
  <2>1. CASE Return(p)
    BY <1>2, <2>1
  <2>2. CASE ~Return(p)
    <3>1. /\ task'[p].pc = "placed" /\ task'[p].got = task[p].got
          /\ task'[p].rows = task[p].rows /\ task'[p].gen = task[p].gen
      BY <1>1, <1>11, <2>2 DEF AddRow, Task
    <3> QED BY <1>1, <3>1 DEF TaskFrom
  <2> QED BY <2>1, <2>2
<1>12. CASE Exited(p)
  BY <1>1, <1>12 DEF Exited
<1> QED BY <1>4, <1>5, <1>6, <1>7, <1>8, <1>9, <1>10, <1>11, <1>12 DEF TaskStep

\* A task starts a thread for a drive it knows, and ends those that serve none.
LEMMA ThreadsCome ==
    ASSUME MInv, NEW p \in All, TaskStep(p)
    PROVE  ThreadsFrom
<1>1. TypeOK /\ thread \in [Threads -> Thread] /\ Shape(p) /\ Fits(task[p]) /\ task[p] \in Task
  BY ShapeOf DEF MInv, TypeOK
<1>2. \A t \in Threads : thread[t].cfg \in Named \cup {None}
  BY <1>1, NamedOnes
<1>3. CASE UNCHANGED thread
  BY <1>2, <1>3 DEF ThreadsFrom, Holding
<1>4. ASSUME NEW ts \in SUBSET Threads, Telling(ts) PROVE ThreadsFrom
  BY <1>2, <1>4 DEF Telling, ThreadsFrom, Holding
<1>5. ASSUME NEW t \in Threads \ Running, \A u \in Threads \ {t} : thread'[u] = thread[u],
             thread'[t].st \in {"none", "starting"}, thread'[t].cfg \in Named \cup {None}
      PROVE  ThreadsFrom
  BY <1>2, <1>5 DEF ThreadsFrom, Holding
<1>6. CASE Spawn(p)
  <2>1. PICK t \in Slots : thread' = [thread EXCEPT ![t] =
                [st |-> "starting", cfg |-> task[p].got, told |-> FALSE, net |-> Online]]
    BY <1>6 DEF Spawn
  <2>2. t \in Threads \ Running /\ thread'[t].st = "starting" /\ thread'[t].cfg = task[p].got
        /\ \A u \in Threads \ {t} : thread'[u] = thread[u]
    BY <1>1, <2>1 DEF Slots
  <2> QED BY <1>1, <1>5, <2>2, NamedOnes
<1>7. CASE \/ SpawnReturns(p) /\ thread[task[p].at].st = "failed"
           \/ SpawnJoined(p) \/ Stopped(p) \/ ResetStopped(p)
  <2>1. task[p].at \in Threads \ Running /\ Join(p)
    BY <1>1, <1>7 DEF SpawnReturns, SpawnJoined, Stopped, ResetStopped, At, Shape, Handling,
                      Failed, Running
  <2>2. thread'[task[p].at] = Joined /\ \A u \in Threads \ {task[p].at} : thread'[u] = thread[u]
    BY <1>1, <2>1 DEF Join
  <2> QED BY <1>5, <2>1, <2>2, IdleTask
<1>8. CASE SpawnTimesOut(p)
  <2>1. task[p].at \in Threads
    BY <1>1, <1>8 DEF SpawnTimesOut, At, Shape, Handling
  <2> QED BY <1>1, <1>2, <1>8, <2>1, Tells DEF SpawnTimesOut, ThreadsFrom, Holding
<1>9. CASE Insert(p)
  <2>1. thread' = Dropped(task[p].id) /\ task[p].id \in Ids
    BY <1>1, <1>9 DEF Insert, At, Fits, Mounting
  <2>2. CASE mounts[task[p].id] = None
    BY <1>3, <2>1, <2>2 DEF Dropped
  <2>3. CASE mounts[task[p].id] # None
    <3>1. mounts[task[p].id] \in Threads
      BY <1>1, <2>1, <2>3 DEF TypeOK
    <3> QED BY <1>1, <1>2, <2>1, <2>3, <3>1, Tells DEF Dropped, ThreadsFrom, Holding
  <2> QED BY <2>2, <2>3
<1>10. CASE ResetTakes(p)
  <2>1. PICK ts : ts \in SUBSET Threads /\ thread' = Told(ts)
    BY <1>10 DEF ResetTakes
  <2> QED BY <1>1, <1>4, <2>1, ToldTells
<1>11. CASE ExitTells(p)
  <2>1. PICK t \in Threads : thread' = Told({t})
    BY <1>1, <1>11 DEF ExitTells, At, Fits
  <2> QED BY <1>1, <1>4, <2>1, ToldTells
<1>12. CASE \/ MountRead(p) \/ Retrieve(p) \/ Migrate(p) \/ Snapshot(p) \/ NextRow(p) \/ RemoveRow(p)
            \/ SetKey(p) \/ Store(p) \/ WritePrefix(p) \/ AddRow(p) \/ AddSecret(p) \/ Wipe(p)
            \/ WipeFails(p) \/ Exited(p)
            \/ SpawnReturns(p) /\ thread[task[p].at].st # "failed"
  <2>1. UNCHANGED thread
    BY <1>12 DEF MountRead, Retrieve, Migrate, Snapshot, NextRow, RemoveRow, SetKey, Store, WritePrefix,
                 AddRow, AddSecret, Wipe, WipeFails, Exited, SpawnReturns
  <2> QED BY <1>3, <2>1
<1> QED BY <1>6, <1>7, <1>8, <1>9, <1>10, <1>11, <1>12 DEF TaskStep

\* add_drive writes a row with the number of its command, which nobody had.
LEMMA LetterAdds ==
    ASSUME MInv, Letter, NEW p \in All, AddRow(p)
    PROVE  Letter'
<1>1. TypeOK /\ task \in [All -> Task] /\ task[p] \in Task /\ row \in [Ids -> Row \cup {None}]
  BY DEF MInv, TypeOK
<1>2. /\ begun' = begun /\ ThreadsFrom /\ TaskFrom(task'[p]) /\ task'[p].gen \in {task[p].gen, 0}
      /\ task'[p].pc # "adding" /\ \A q \in All \ {p} : task'[q] = task[q]
  <2>1. TaskStep(p)
    BY DEF TaskStep
  <2>2. task[p].pc = "adding" /\ begun' = begun /\ task'[p] # task[p]
    <3>1. task[p].pc = "adding" /\ begun' = begun
      BY DEF AddRow, At, Quiet
    <3>2. CASE Return(p)
      BY <1>1, <3>1, <3>2, Returned, Put
    <3>3. CASE ~Return(p)
      BY <1>1, <3>1, <3>3 DEF AddRow, Task
    <3> QED BY <3>1, <3>2, <3>3
  <2> QED BY <2>1, <2>2, TaskMoves, TaskComes, ThreadsCome
<1>3. CASE UNCHANGED row
  <2>1. RowsFrom
    BY <1>3 DEF RowsFrom, Same
  <2> QED BY <1>2, <2>1, LetterKept
<1>4. CASE ~UNCHANGED row
  <2>1. PICK i \in Ids, l \in scene.letters : row' = [row EXCEPT ![i] =
            [inc |-> task[p].gen, letter |-> l, key |-> task[p].gen,
             secret |-> None, plain |-> FALSE, prefix |-> task[p].gen]]
    <3>1. 1..scene.drives \subseteq Ids
      BY <1>1, SceneTypes, ConstantTypes DEF TypeOK, Ids
    <3> QED BY <1>4, <3>1 DEF AddRow
  <2> DEFINE old == [row EXCEPT ![i] = None]
  <2>2. row'[i].inc = task[p].gen /\ \A j \in Ids \ {i} : row'[j] = row[j]
    BY <1>1, <2>1
  <2>3. \A q \in All : TaskFrom(task'[q])
    BY <1>1, <1>2, NamedOnes
  \* Whatever is named is what was, or the new row.
  <2>4. ASSUME NEW d \in Named' PROVE d = row'[i] \/ \E c \in Named : Same(c, d)
    <3>1. d # None
      BY DEF Named
    <3>2. CASE d \in {row'[j] : j \in Ids}
      BY <1>1, <2>2, <3>1, <3>2, NamedOnes DEF Same
    <3>3. CASE d \in {task'[q].got : q \in All} \cup UNION {task'[q].rows : q \in All}
      BY <2>3, <3>1, <3>3 DEF TaskFrom
    <3>4. CASE d \in {thread'[t].cfg : t \in Threads}
      BY <1>2, <3>1, <3>4 DEF ThreadsFrom, Same
    <3> QED BY <3>2, <3>3, <3>4 DEF Named
  <2>5. /\ task[p].pc = "adding" /\ task[p].gen <= Latest
        /\ \A c \in Named : c.inc # task[p].gen /\ c.inc <= Latest
        /\ Latest' = Latest
    BY <1>2 DEF AddRow, At, Letter, Awaited, Settling, Latest
  <2>6. Settling'
    <3>1. ASSUME NEW c \in Named', NEW d \in Named', c.inc = d.inc PROVE c.letter = d.letter
      BY <2>2, <2>4, <2>5, <3>1 DEF Letter, Settling, Same
    <3>2. ASSUME NEW d \in Named' PROVE d.inc <= Latest'
      BY <2>2, <2>4, <2>5, <3>2 DEF Same
    <3> QED BY <3>1, <3>2 DEF Settling
  <2>7. Awaited'
    <3>1. Latest \in Nat /\ \A q \in All : task[q].gen \in Gens
      BY <1>1, ConstantTypes, TaskFields DEF Latest, TypeOK
    <3>2. ASSUME NEW q \in All PROVE task'[q].gen <= Latest'
      BY <1>2, <2>5, <3>1, <3>2 DEF Letter, Awaited
    <3>3. ASSUME NEW q \in All, task'[q].pc = "adding"
          PROVE  q # p /\ task'[q] = task[q] /\ task[q].pc = "adding" /\ task[q].gen # task[p].gen
      BY <1>2, <2>5, <3>3 DEF Letter, Awaited
    <3>4. ASSUME NEW q \in All, task'[q].pc = "adding", NEW d \in Named' PROVE d.inc # task'[q].gen
      BY <2>2, <2>4, <3>3, <3>4 DEF Letter, Awaited, Same
    <3>5. ASSUME NEW q \in All, task'[q].pc = "adding", NEW r \in All, r # q, task'[r].pc = "adding"
          PROVE  task'[r].gen # task'[q].gen
      BY <3>3, <3>5 DEF Letter, Awaited
    <3> QED BY <3>2, <3>4, <3>5 DEF Awaited
  <2> QED BY <1>2, <2>6, <2>7, HoldersCarried DEF Letter
<1> QED BY <1>3, <1>4

\* A command has the next number.
LEMMA LetterBegins ==
    ASSUME MInv, Letter, NEW p \in All, NEW cmd, NEW pc, NEW i, NEW at, NEW todo,
           Begin(p, cmd, pc, i, at, todo), UNCHANGED row, ThreadsFrom
    PROVE  Letter'
<1>1. TypeOK /\ task \in [All -> Task] /\ Latest \in Nat /\ \A q \in All : task[q].gen \in Nat
  <2>1. TypeOK /\ task \in [All -> Task] /\ Latest \in Nat
    BY ConstantTypes DEF MInv, TypeOK, Latest
  <2>2. \A q \in All : task[q].gen \in Gens
    BY <2>1, TaskFields
  <2> QED BY <2>1, <2>2, ConstantTypes
<1>2. /\ task'[p].got = None /\ task'[p].rows = {} /\ task'[p].gen = Latest + 1
      /\ \A q \in All \ {p} : task'[q] = task[q]
  BY <1>1 DEF Begin, Latest
<1>3. Latest' = Latest + 1
  <2>1. begun' = begun + 1 /\ begun \in Nat /\ MaxDrives \in Nat
    BY ConstantTypes DEF Begin, MInv, TypeOK
  <2> QED BY <2>1 DEF Latest
<1>4. \A q \in All : TaskFrom(task'[q])
  BY <1>1, <1>2, NamedOnes DEF TaskFrom
<1>5. RowsFrom
  BY DEF RowsFrom, Same
<1>6. \A d \in Named' : \E c \in Named : Same(c, d)
  BY <1>1, <1>4, <1>5, NothingNew
<1>7. Settling' /\ \A g \in Nat : (\A c \in Named : c.inc # g) => \A d \in Named' : d.inc # g
  BY <1>1, <1>3, <1>6, Carried
<1>8. \A c \in Named : c.inc # Latest + 1
  <2>1. \A c \in Named : c.inc \in Nat /\ c.inc <= Latest
    BY <1>1, NamedOnes DEF Letter, Settling
  <2> QED BY <1>1, <2>1
<1>9. Awaited'
  <2>1. ASSUME NEW q \in All PROVE task'[q].gen \in Nat /\ task'[q].gen <= Latest'
    BY <1>1, <1>2, <1>3, <2>1 DEF Letter, Awaited
  <2>2. ASSUME NEW q \in All, task'[q].pc = "adding", NEW d \in Named' PROVE d.inc # task'[q].gen
    <3>1. CASE q = p
      BY <1>1, <1>2, <1>7, <1>8, <3>1
    <3>2. CASE q # p
      BY <1>1, <1>2, <1>7, <2>2, <3>2 DEF Letter, Awaited
    <3> QED BY <3>1, <3>2
  <2>3. ASSUME NEW q \in All, task'[q].pc = "adding", NEW r \in All, r # q, task'[r].pc = "adding"
        PROVE  task'[r].gen # task'[q].gen
    <3>1. CASE q # p /\ r # p
      BY <1>2, <2>3, <3>1 DEF Letter, Awaited
    <3>2. CASE q = p \/ r = p
      <4>1. \A s \in All : task[s].gen # Latest + 1
        BY <1>1 DEF Letter, Awaited
      <4> QED BY <1>2, <2>3, <3>2, <4>1
    <3> QED BY <3>1, <3>2
  <2> QED BY <2>1, <2>2, <2>3 DEF Awaited
<1> QED BY <1>7, <1>9, HoldersCarried DEF Letter

LEMMA LetterCommands ==
    ASSUME MInv, Letter, NEW p \in All, Command(p)
    PROVE  Letter'
<1>1. TypeOK /\ 1..scene.drives \subseteq Ids
  BY SceneTypes, ConstantTypes DEF MInv, TypeOK, Ids
<1>2. \A t \in Threads : thread[t].cfg \in Named \cup {None}
  BY <1>1, NamedOnes
<1>3. UNCHANGED thread => ThreadsFrom
  BY <1>2 DEF ThreadsFrom, Holding
<1>4. CASE Add(p) \/ AddCloud(p) \/ Reset(p) \/ Exit(p)
  BY <1>3, <1>4, LetterBegins DEF Add, AddCloud, Reset, Exit
<1>5. ASSUME NEW i \in Ids, Mount(p, i) \/ Remove(p, i) \/ SetCredentials(p, i) \/ SetPrefix(p, i)
      PROVE  Letter'
  BY <1>3, <1>5, LetterBegins DEF Mount, Remove, SetCredentials, SetPrefix
<1>6. ASSUME NEW i \in Ids, Unmount(p, i) PROVE Letter'
  <2>1. {mounts[i]} \in SUBSET Threads /\ thread' = Told({mounts[i]})
    BY <1>1, <1>6 DEF Unmount, TypeOK
  <2>2. ThreadsFrom
    BY <1>1, <1>2, <2>1, ToldTells DEF Telling, ThreadsFrom, Holding
  <2> QED BY <1>6, <2>2, LetterBegins DEF Unmount
<1> QED BY <1>1, <1>4, <1>5, <1>6 DEF Command

\* WinFsp gives a thread its letter if no other has it.
LEMMA LetterThreads ==
    ASSUME MInv, Letter, NEW t \in Threads, ThreadStep(t)
    PROVE  Letter'
<1>1. TypeOK /\ thread \in [Threads -> Thread] /\ thread[t] \in Thread
  BY DEF MInv, TypeOK
<1>2. /\ UNCHANGED <<row, task, begun>>
      /\ \A u \in Threads : thread'[u].cfg = thread[u].cfg
      /\ \A u \in Threads \ {t} : thread'[u] = thread[u]
      /\ t \in Holding' => t \in Holding \/ LetterFree(t)
  BY <1>1 DEF ThreadStep, InitFails, HostMounts, Announce, Unmounts, Farewell, Quiet, Thread, Holding
<1>3. Named' = Named
  BY <1>2 DEF Named
<1>4. Settling' /\ Awaited'
  BY <1>2, <1>3 DEF Letter, Settling, Awaited, Latest
<1>5. ASSUME NEW u \in Holding', NEW v \in Holding', u # v
      PROVE  thread'[u].cfg.letter # thread'[v].cfg.letter
  <2>1. u \in Threads /\ v \in Threads
    BY DEF Holding
  <2>2. CASE u \in Holding /\ v \in Holding
    BY <1>2, <1>5, <2>1, <2>2 DEF Letter, OneLetter
  <2>3. CASE u \notin Holding \/ v \notin Holding
    <3>1. /\ u = t \/ v = t
          /\ t \in Holding' /\ t \notin Holding /\ LetterFree(t)
      BY <1>2, <1>5, <2>1, <2>3 DEF Holding
    <3>2. \A w \in Threads \ {t} : w \in Holding' => w \in Holding
      BY <1>2 DEF Holding
    <3> QED BY <1>2, <1>5, <2>1, <3>1, <3>2 DEF LetterFree
  <2> QED BY <2>2, <2>3
<1>6. OneLetter'
  BY <1>5 DEF OneLetter
<1> QED BY <1>4, <1>6 DEF Letter

\* Whether its store answers changes nothing about a thread's drive.
LEMMA LetterNet ==
    ASSUME MInv, Letter, NEW t \in Threads, Turns(t) \/ Says(t)
    PROVE  Letter'
<1>1. /\ UNCHANGED <<row, task, begun>>
      /\ \A u \in Threads : thread'[u].cfg = thread[u].cfg /\ thread'[u].st = thread[u].st
  BY NetNoticed DEF Noticed
<1>2. Named' = Named /\ Holding' = Holding
  BY <1>1 DEF Named, Holding
<1>3. OneLetter'
  BY <1>1, <1>2 DEF Letter, OneLetter, Holding
<1> QED BY <1>1, <1>2, <1>3 DEF Letter, Settling, Awaited, Latest

LEMMA LetterStays == MInv /\ Letter /\ [Next]_vars => Letter'
<1> SUFFICES ASSUME MInv, Letter, [Next]_vars PROVE Letter'
  OBVIOUS
<1>1. ASSUME NEW p \in All, Command(p) PROVE Letter'
  BY <1>1, LetterCommands
<1>2. ASSUME NEW p \in All, TaskStep(p) PROVE Letter'
  <2>1. CASE AddRow(p)
    BY <2>1, LetterAdds
  <2>2. CASE Exited(p)
    BY <2>2 DEF Exited, Letter, Settling, Awaited, OneLetter, Named, Latest, Holding
  <2>3. CASE ~AddRow(p) /\ ~Exited(p)
    <3>1. begun' = begun
      BY <1>2, <2>3 DEF TaskStep, MountRead, Retrieve, Migrate, Spawn, SpawnReturns, SpawnTimesOut,
            SpawnJoined, Insert, Snapshot, NextRow, Stopped, RemoveRow, SetKey, Store, WritePrefix,
            AddSecret, ResetTakes, ResetStopped, Wipe, WipeFails, ExitTells, Quiet
    <3> QED BY <1>2, <2>3, <3>1, RowsCome, TaskComes, ThreadsCome, TaskMoves, LetterKept
  <2> QED BY <2>1, <2>2, <2>3
<1>3. ASSUME NEW t \in Threads, ThreadStep(t) PROVE Letter'
  BY <1>3, LetterThreads
<1>4. CASE (\E t \in Threads : Reads(t)) \/ Rest \/ UNCHANGED vars
  <2>1. UNCHANGED <<row, task, thread, begun>>
    BY <1>4 DEF Reads, Rest, vars, Quiet
  <2> QED BY <2>1 DEF Letter, Settling, Awaited, OneLetter, Named, Latest, Holding
<1>5. ASSUME NEW t \in Threads, Turns(t) \/ Says(t) PROVE Letter'
  BY <1>5, LetterNet
<1> QED BY <1>1, <1>2, <1>3, <1>4, <1>5 DEF Next

LEMMA LetterAlways == Spec => []Letter
<1>1. Init => Letter
  <2> SUFFICES ASSUME Init PROVE Letter
    OBVIOUS
  <2>1. TypeOK /\ Latest = MaxDrives /\ scene \in Scenes
    BY InitTyped, ConstantTypes DEF Latest, Init
  <2>2. ASSUME NEW p \in All
        PROVE  task[p].got = None /\ task[p].rows = {} /\ task[p].gen = 0 /\ task[p].pc # "adding"
    BY IdleTask DEF Init, Idle
  <2>3. \A t \in Threads : thread[t].cfg = None /\ thread[t].st = "none"
    BY IdleTask DEF Init
  <2>4. ASSUME NEW i \in Ids, row[i] # None
        PROVE  /\ i \in 1..OldDrives
               /\ row[i].inc = i /\ row[i].inc <= MaxDrives /\ row[i].letter = scene.taken[i]
    BY <2>4, ConstantTypes DEF Init, Ids
  <2>5. ASSUME NEW c \in Named PROVE \E i \in Ids : row[i] # None /\ c = row[i]
    <3>1. c # None
      BY DEF Named
    <3>2. c \notin {task[p].got : p \in All} \cup UNION {task[p].rows : p \in All}
      BY <2>2, <3>1
    <3>3. c \notin {thread[t].cfg : t \in Threads}
      BY <2>3, <3>1
    <3> QED BY <3>1, <3>2, <3>3 DEF Named
  <2>6. Settling
    BY <2>1, <2>4, <2>5 DEF Settling
  <2>7. Awaited
    BY <2>1, <2>2, ConstantTypes DEF Awaited
  <2>8. OneLetter
    BY <2>3 DEF OneLetter, Holding
  <2> QED BY <2>6, <2>7, <2>8 DEF Letter
<1> QED BY <1>1, LetterStays, HandlesAlways, PTL DEF Spec

\* Only the end of a mount puts a handle into the map.
LEMMA HandlesCome ==
    ASSUME MInv, [Next]_vars, NEW i \in Ids, mounts'[i] \notin {mounts[i], None}
    PROVE  \E p \in All : Insert(p) /\ task[p].id = i
<1>1. mounts \in [Ids -> Threads \cup {None}] /\ mounts' # mounts
  BY DEF MInv, TypeOK
<1>2. ASSUME NEW p \in All, Command(p) PROVE FALSE
  BY <1>1, <1>2 DEF Command, Add, AddCloud, Reset, Exit, Mount, Unmount, Remove, SetCredentials,
                    SetPrefix
<1>3. ASSUME NEW p \in All, TaskStep(p) PROVE Insert(p) /\ task[p].id = i
  <2>1. CASE Insert(p)
    BY <1>1, <2>1 DEF Insert
  <2>2. CASE ResetTakes(p)
    BY <1>1, <2>2 DEF ResetTakes
  <2>3. CASE ~Insert(p) /\ ~ResetTakes(p)
    BY <1>1, <1>3, <2>3 DEF TaskStep, MountRead, Retrieve, Migrate, Spawn, SpawnReturns, SpawnTimesOut,
          SpawnJoined, Snapshot, NextRow, Stopped, RemoveRow, SetKey, Store, WritePrefix, AddRow,
          AddSecret, ResetStopped, Wipe, WipeFails, ExitTells, Exited
  <2> QED BY <2>1, <2>2, <2>3
<1>4. ASSUME NEW t \in Threads, ThreadStep(t) \/ Reads(t) \/ Turns(t) \/ Says(t) PROVE FALSE
  BY <1>1, <1>4 DEF ThreadStep, InitFails, HostMounts, Announce, Unmounts, Farewell, Reads,
                    Turns, Says
<1>5. ~Rest /\ ~UNCHANGED vars
  BY <1>1 DEF Rest, vars
<1> QED BY <1>2, <1>3, <1>4, <1>5 DEF Next

(***************************************************************************)
(* A handle in the map is never replaced by another of the same drive: of  *)
(* two mounts that both found the drive unmounted, WinFsp refuses one the  *)
(* letter (drives.rs mount_drive, lib.rs auto_mount_drives, mounts.rs      *)
(* spawn_mount).                                                           *)
(***************************************************************************)
THEOREM HandlesAreKept == Spec => HandleKept
<1>1. MInv /\ Letter /\ [Next]_vars =>
        [\A i \in Ids : mounts[i] # None =>
            \/ mounts'[i] \in {mounts[i], None}
            \/ thread'[mounts'[i]].cfg.inc # thread[mounts[i]].cfg.inc]_vars
  <2> SUFFICES ASSUME MInv, Letter, [Next]_vars, NEW i \in Ids, mounts[i] # None,
                      mounts'[i] \notin {mounts[i], None}
               PROVE  thread'[mounts'[i]].cfg.inc # thread[mounts[i]].cfg.inc
    OBVIOUS
  <2>1. PICK p \in All : Insert(p) /\ task[p].id = i
    BY HandlesCome
  <2>2. TypeOK /\ Shape(p)
    BY <2>1 DEF MInv, Shapes
  <2>3. PICK t \in Threads : t = mounts[i] /\ t \in Holding
    BY DEF MInv, Serving, Holding
  <2>4. PICK u \in Threads : u = task[p].at /\ u \in Holding
    BY <2>1, <2>2 DEF Insert, At, Shape, Handling
  <2>5. u # t
    <3>1. Apart
      BY DEF MInv
    <3> QED BY <2>3, <2>4, <3>1 DEF Apart
  <2>6. mounts'[i] = u
    BY <2>1, <2>2, <2>4 DEF Insert, TypeOK
  <2>7. thread'[u] = thread[u]
    <3>1. thread' = [thread EXCEPT ![t].told = TRUE]
      BY <2>1, <2>3 DEF Insert, Dropped
    <3> QED BY <2>2, <2>5, <3>1 DEF TypeOK
  <2>8. thread[t].cfg \in Named /\ thread[u].cfg \in Named
    <3>1. thread[t].cfg \in Config /\ thread[u].cfg \in Config
      BY <2>3, <2>4 DEF MInv, Threaded, Holding
    <3> QED BY <2>2, <3>1, ConfigFields, NamedOnes
  <2>9. thread[u].cfg.inc # thread[t].cfg.inc
    BY <2>3, <2>4, <2>5, <2>8 DEF Letter, Settling, OneLetter
  <2> QED BY <2>3, <2>6, <2>7, <2>9
<1> QED BY <1>1, HandlesAlways, LetterAlways, PTL DEF Spec, HandleKept
=============================================================================
