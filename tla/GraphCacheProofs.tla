-------------------------- MODULE GraphCacheProofs --------------------------
(***************************************************************************)
(* Proofs about GraphCache for any number of threads, processes and roots. *)
(***************************************************************************)
EXTENDS GraphCache, TLAPS

-----------------------------------------------------------------------------
(* Type correctness.                                                       *)

\* A thread has a lock, and a shelf open, between the steps that say so.
Holding ==
  \A t \in Thread :
    /\ lock[t] # NoFile <=> pc[t] \in {"open", "look", "build", "close"}
    /\ shelf[t] # NoFile <=> pc[t] \in {"look", "build", "close"}

TypeInv == TypeOK /\ Holding

LEMMA InitTypeInv == Init => TypeInv
<1>. SUFFICES ASSUME Init PROVE TypeInv
  OBVIOUS
<1>1. \A n \in LeftFiles : n \in Name /\ <<n, 0>> \in Inode
  BY CacheAssumption DEF LeftFiles, Name, Inode
<1>2. old \subseteq Inode
  BY CacheAssumption DEF Init, Name, Inode
<1>3. file \in [Name -> Inode \cup {NoFile}]
  BY <1>1 DEF Init
<1>4. call \in [Thread -> Root]
  <2>. DEFINE r == CHOOSE r \in Root : TRUE
  <2>1. r \in Root
    BY RootAssumption
  <2>2. QED
    BY <2>1 DEF Init
<1>5. TypeOK
  BY <1>2, <1>3, <1>4, CacheAssumption DEF Init, TypeOK, Labels
<1>6. Holding
  BY DEF Init, Holding
<1>7. QED
  BY <1>5, <1>6 DEF TypeInv

LEMMA MineVersion == \A t \in Thread : Mine(t) \in Version /\ ProcessOf[t] \in Process
BY CacheAssumption DEF Mine

LEMMA AskType == ASSUME TypeInv, NEW t \in Thread, Ask(t) PROVE TypeInv'
BY MineVersion, CacheAssumption DEF TypeInv, TypeOK, Holding, Ask, Goto, Labels, disk, globals, locals

LEMMA ListFilesType == ASSUME TypeInv, NEW t \in Thread, ListFiles(t) PROVE TypeInv'
<1>1. {n \in Name : file[n] # NoFile /\ n[1] # Mine(t)} \in SUBSET Name
  OBVIOUS
<1>2. todo' \in [Thread -> SUBSET Name] /\ pc' \in [Thread -> Labels]
  BY <1>1 DEF TypeInv, TypeOK, ListFiles, Goto, Labels
<1>3. UNCHANGED <<file, next, old, stored, cleaned, name, memo, call, calls, use, lock, shelf>>
  BY DEF ListFiles, disk, globals
<1>4. Holding'
  BY <1>3 DEF TypeInv, TypeOK, Holding, ListFiles, Goto
<1>5. QED
  BY <1>2, <1>3, <1>4 DEF TypeInv, TypeOK

LEMMA RemoveFileType == ASSUME TypeInv, NEW t \in Thread, RemoveFile(t) PROVE TypeInv'
BY MineVersion, CacheAssumption DEF TypeInv, TypeOK, Holding, RemoveFile, Goto, Labels, disk, globals, locals

LEMMA StatLockType == ASSUME TypeInv, NEW t \in Thread, StatLock(t) PROVE TypeInv'
BY MineVersion, CacheAssumption DEF TypeInv, TypeOK, Holding, StatLock, Goto, Labels, disk, globals, locals

LEMMA UnlinkLockType == ASSUME TypeInv, NEW t \in Thread, UnlinkLock(t) PROVE TypeInv'
BY MineVersion, CacheAssumption DEF TypeInv, TypeOK, Holding, UnlinkLock, Goto, Labels, disk, globals, locals

LEMMA MarkCleanedType == ASSUME TypeInv, NEW t \in Thread, MarkCleaned(t) PROVE TypeInv'
BY MineVersion, CacheAssumption DEF TypeInv, TypeOK, Holding, MarkCleaned, Goto, Labels, disk, globals, locals

LEMMA SetNameType == ASSUME TypeInv, NEW t \in Thread, SetName(t) PROVE TypeInv'
BY MineVersion, CacheAssumption DEF TypeInv, TypeOK, Holding, SetName, Goto, Labels, disk, globals, locals

LEMMA ReturnNameType == ASSUME TypeInv, NEW t \in Thread, ReturnName(t) PROVE TypeInv'
BY MineVersion, CacheAssumption DEF TypeInv, TypeOK, Holding, ReturnName, Goto, Labels, disk, globals, locals

LEMMA AcquireType == ASSUME TypeInv, NEW t \in Thread, Acquire(t) PROVE TypeInv'
<1>. DEFINE n == <<use[t], "lock">>
<1>1. n \in Name /\ <<n, next>> \in Inode /\ next + 1 \in Nat
  BY DEF TypeInv, TypeOK, Name, Inode
<1>2. CASE file[n] = NoFile
  <2>1. /\ file' = [file EXCEPT ![n] = <<n, next>>] /\ next' = next + 1
        /\ lock' = [lock EXCEPT ![t] = <<n, next>>] /\ old' = old
    BY <1>2 DEF Acquire
  <2>2. file' \in [Name -> Inode \cup {NoFile}] /\ lock' \in [Thread -> Inode \cup {NoFile}]
    BY <1>1, <2>1 DEF TypeInv, TypeOK
  <2>3. Holding'
    BY <1>1, <2>1, NoFileAssumption DEF TypeInv, TypeOK, Holding, Acquire, Goto
  <2>4. QED
    BY <1>1, <2>1, <2>2, <2>3 DEF TypeInv, TypeOK, Acquire, Goto, Labels, globals
<1>3. CASE file[n] # NoFile
  <2>1. /\ UNCHANGED <<file, next>> /\ lock' = [lock EXCEPT ![t] = file[n]]
        /\ old' = old \ {file[n]}
    BY <1>3 DEF Acquire
  <2>2. lock' \in [Thread -> Inode \cup {NoFile}] /\ old' \subseteq Inode
    BY <1>1, <2>1 DEF TypeInv, TypeOK
  <2>3. Holding'
    BY <1>3, <2>1 DEF TypeInv, TypeOK, Holding, Acquire, Goto
  <2>4. QED
    BY <1>1, <2>1, <2>2, <2>3 DEF TypeInv, TypeOK, Acquire, Goto, Labels, globals
<1>4. QED
  BY <1>2, <1>3

LEMMA OpenShelfType == ASSUME TypeInv, NEW t \in Thread, OpenShelf(t) PROVE TypeInv'
<1>. DEFINE n == <<use[t], "shelf">>
<1>1. n \in Name /\ <<n, next>> \in Inode /\ next + 1 \in Nat
  BY DEF TypeInv, TypeOK, Name, Inode
<1>2. UNCHANGED <<old, stored, cleaned, name, memo, call, calls, todo, use>>
  BY DEF OpenShelf, globals
<1>3. CASE Goto(t, "look") /\ UNCHANGED lock /\ file[n] = NoFile
           /\ file' = [file EXCEPT ![n] = <<n, next>>] /\ next' = next + 1
           /\ shelf' = [shelf EXCEPT ![t] = <<n, next>>]
  <2>1. file' \in [Name -> Inode \cup {NoFile}] /\ shelf' \in [Thread -> Inode \cup {NoFile}]
    BY <1>1, <1>3 DEF TypeInv, TypeOK
  <2>2. Holding'
    BY <1>1, <1>3, NoFileAssumption DEF TypeInv, TypeOK, Holding, OpenShelf, Goto
  <2>3. QED
    BY <1>1, <1>2, <1>3, <2>1, <2>2 DEF TypeInv, TypeOK, Goto, Labels
<1>4. CASE Goto(t, "look") /\ UNCHANGED <<lock, file, next>> /\ file[n] # NoFile
           /\ shelf' = [shelf EXCEPT ![t] = file[n]]
  <2>1. shelf' \in [Thread -> Inode \cup {NoFile}]
    BY <1>1, <1>4 DEF TypeInv, TypeOK
  <2>2. Holding'
    BY <1>1, <1>4 DEF TypeInv, TypeOK, Holding, OpenShelf, Goto
  <2>3. QED
    BY <1>2, <1>4, <2>1, <2>2 DEF TypeInv, TypeOK, Goto, Labels
<1>5. CASE Goto(t, "raised") /\ UNCHANGED <<file, next, shelf>>
           /\ lock' = [lock EXCEPT ![t] = NoFile]
  <2>1. Holding'
    BY <1>5 DEF TypeInv, TypeOK, Holding, OpenShelf, Goto
  <2>2. QED
    BY <1>2, <1>5, <2>1 DEF TypeInv, TypeOK, Goto, Labels
<1>6. QED
  BY <1>3, <1>4, <1>5 DEF OpenShelf

LEMMA LookUpType == ASSUME TypeInv, NEW t \in Thread, LookUp(t) PROVE TypeInv'
BY MineVersion, CacheAssumption DEF TypeInv, TypeOK, Holding, LookUp, Goto, Labels, disk, globals, locals

LEMMA BuildGraphType == ASSUME TypeInv, NEW t \in Thread, BuildGraph(t) PROVE TypeInv'
<1>1. <<shelf[t], call[t]>> \in Inode \X Root
  BY DEF TypeInv, TypeOK, Holding, BuildGraph
<1>2. QED
  BY <1>1 DEF TypeInv, TypeOK, Holding, BuildGraph, Goto, Labels, globals, locals

LEMMA CloseType == ASSUME TypeInv, NEW t \in Thread, Close(t) PROVE TypeInv'
BY MineVersion, CacheAssumption DEF TypeInv, TypeOK, Holding, Close, Goto, Labels, disk, globals, locals

LEMMA KillType == ASSUME TypeInv, NEW p \in Process, Kill(p) PROVE TypeInv'
BY DEF TypeInv, TypeOK, Holding, Kill, Labels, disk, globals

LEMMA StepType == TypeInv /\ [Next]_vars => TypeInv'
<1>1. ASSUME TypeInv, NEW t \in Thread, Step(t) PROVE TypeInv'
  BY <1>1, AskType, ListFilesType, RemoveFileType, StatLockType, UnlinkLockType,
     MarkCleanedType, SetNameType, ReturnNameType, AcquireType, OpenShelfType,
     LookUpType, BuildGraphType, CloseType DEF Step
<1>2. ASSUME TypeInv, UNCHANGED vars PROVE TypeInv'
  BY <1>2 DEF TypeInv, TypeOK, Holding, vars
<1>3. QED
  BY <1>1, <1>2, KillType DEF Next

\* The state of the cache and of every caller keeps its shape, whatever
\* versions run together and whoever is killed: in particular a graph is only
\* ever put into a shelf that is open.
THEOREM CacheTypeCorrect == Spec => []TypeOK
<1>1. TypeInv => TypeOK
  BY DEF TypeInv
<1>2. QED
  BY <1>1, InitTypeInv, StepType, PTL DEF Spec

-----------------------------------------------------------------------------
(* The lock and the shelf, when every process runs the same version and no *)
(* lock file is older than an hour.                                        *)

OneVersion == \A p, q \in Process : VersionOf[p] = VersionOf[q]

\* Inodes are made under the name they are found by, with a new number.
FilesFresh ==
  \A n \in Name : file[n] # NoFile => file[n][1] = n /\ file[n][2] < next

\* A lock and a shelf are those of the name the call works with.
OpenByName ==
  \A t \in Thread :
    /\ lock[t] # NoFile => lock[t][1] = <<use[t], "lock">> /\ lock[t][2] < next
    /\ shelf[t] # NoFile => shelf[t][1] = <<use[t], "shelf">>

\* Nothing is stale, and the only name of a shelf is that of the version.
NothingStale ==
  /\ old = {}
  /\ \A t \in Thread :
     /\ pc[t] # "unlink"
     /\ use[t] \in {NoName, Mine(t)}
     /\ \A n \in todo[t] : n[1] # Mine(t)
  /\ \A p \in Process : name[p] \in {NoName, VersionOf[p]}

LocksDiffer == \A t, u \in Thread : lock[t] # NoFile /\ lock[t] = lock[u] => t = u

\* A lock that is held is the one the next to come will find, while no lock
\* file is an hour old: nobody removes one.
HeldLocksStay ==
  \A t \in Thread : lock[t] # NoFile /\ use[t] # NoName => file[<<use[t], "lock">>] = lock[t]

\* A graph that is being built is not in the shelf.
NotYetStored ==
  \A t \in Thread :
    pc[t] = "build" /\ use[t] # NoName => <<shelf[t], call[t]>> \notin stored

LockInv ==
  /\ TypeInv /\ FilesFresh /\ OpenByName /\ NothingStale
  /\ LocksDiffer /\ HeldLocksStay /\ NotYetStored

LEMMA InitLockInv == ~OldLock /\ Init => LockInv
<1>. SUFFICES ASSUME ~OldLock, Init PROVE LockInv
  OBVIOUS
<1>1. FilesFresh
  BY DEF Init, FilesFresh
<1>2. OpenByName /\ NothingStale /\ LocksDiffer /\ HeldLocksStay /\ NotYetStored
  BY DEF Init, OpenByName, NothingStale, LocksDiffer, HeldLocksStay, NotYetStored
<1>3. QED
  BY <1>1, <1>2, InitTypeInv DEF LockInv

\* A step that leaves the files, the locks and the shelves alone.
LEMMA NothingOpened ==
  ASSUME LockInv, UNCHANGED <<file, next, lock, shelf>>,
         \A u \in Thread : lock[u] # NoFile => use'[u] = use[u]
  PROVE  FilesFresh' /\ OpenByName' /\ LocksDiffer' /\ HeldLocksStay'
<1>1. \A u \in Thread : shelf[u] # NoFile => lock[u] # NoFile
  BY DEF LockInv, TypeInv, Holding
<1>2. QED
  BY <1>1 DEF LockInv, FilesFresh, OpenByName, LocksDiffer, HeldLocksStay

LEMMA AskLock == ASSUME LockInv, NEW t \in Thread, Ask(t) PROVE LockInv'
<1>1. lock[t] = NoFile /\ pc[t] = "idle"
  BY DEF LockInv, TypeInv, Holding, Ask
<1>2. UNCHANGED <<file, next, old, stored, cleaned, name, memo, todo, lock, shelf>>
  BY DEF Ask, disk, globals
<1>3. /\ use' \in [Thread -> Version \cup {NoName}]
      /\ \A u \in Thread \ {t} : use'[u] = use[u] /\ call'[u] = call[u] /\ pc'[u] = pc[u]
      /\ use'[t] \in {use[t], name[ProcessOf[t]]} /\ pc'[t] \in {"idle", "clean", "lock"}
  BY AskType DEF LockInv, TypeInv, TypeOK, Ask, Goto
<1>4. FilesFresh' /\ OpenByName' /\ LocksDiffer' /\ HeldLocksStay'
  BY <1>1, <1>2, <1>3, NothingOpened
<1>5. NothingStale'
  BY <1>2, <1>3, MineVersion DEF LockInv, NothingStale, Mine
<1>6. NotYetStored'
  BY <1>2, <1>3 DEF LockInv, NotYetStored
<1>7. QED
  BY <1>4, <1>5, <1>6, AskType DEF LockInv

LEMMA ListFilesLock == ASSUME LockInv, NEW t \in Thread, ListFiles(t) PROVE LockInv'
<1>1. UNCHANGED <<file, next, old, stored, cleaned, name, memo, call, use, lock, shelf>>
  BY DEF ListFiles, disk, globals
<1>2. /\ \A u \in Thread \ {t} : todo'[u] = todo[u] /\ pc'[u] = pc[u]
      /\ pc'[t] \in {"return", "remove"}
      /\ \A n \in todo'[t] : n[1] # Mine(t)
  BY DEF LockInv, TypeInv, TypeOK, NothingStale, ListFiles, Goto
<1>3. FilesFresh' /\ OpenByName' /\ LocksDiffer' /\ HeldLocksStay'
  BY <1>1, NothingOpened
<1>4. NothingStale'
  BY <1>1, <1>2 DEF LockInv, NothingStale, Mine
<1>5. NotYetStored'
  BY <1>1, <1>2 DEF LockInv, NotYetStored
<1>6. QED
  BY <1>3, <1>4, <1>5, ListFilesType DEF LockInv

\* What a process removes is of another version: nobody has it locked.
LEMMA RemoveFileLock == ASSUME OneVersion, LockInv, NEW t \in Thread, RemoveFile(t) PROVE LockInv'
<1>1. UNCHANGED <<next, old, stored, cleaned, name, memo, call, use, lock, shelf>>
  BY DEF RemoveFile, globals
<1>2. PICK n \in todo[t] : /\ todo' = [todo EXCEPT ![t] = @ \ {n}]
                           /\ file' = [file EXCEPT ![n] = NoFile]
                           /\ IF file[n] = NoFile THEN Goto(t, "raised") ELSE UNCHANGED pc
  BY DEF RemoveFile
<1>3. /\ \A u \in Thread \ {t} : pc'[u] = pc[u]
      /\ pc'[t] \in {"raised", "remove"}
      /\ \A u \in Thread : todo'[u] \subseteq todo[u]
  BY <1>2 DEF LockInv, TypeInv, TypeOK, RemoveFile, Goto
<1>4. n \in Name /\ n[1] # Mine(t)
  BY DEF LockInv, TypeInv, TypeOK, NothingStale
<1>5. \A m \in Name : file'[m] = IF m = n THEN NoFile ELSE file[m]
  BY <1>2 DEF LockInv, TypeInv, TypeOK
<1>6. FilesFresh'
  BY <1>1, <1>5 DEF LockInv, FilesFresh
<1>7. HeldLocksStay'
  <2>. SUFFICES ASSUME NEW u \in Thread, lock[u] # NoFile, use[u] # NoName
                PROVE  file'[<<use[u], "lock">>] = lock[u]
    BY <1>1 DEF HeldLocksStay
  <2>1. use[u] = Mine(t)
    BY MineVersion DEF LockInv, NothingStale, OneVersion, Mine
  <2>2. <<use[u], "lock">> \in Name /\ <<use[u], "lock">> # n
    BY <1>4, <2>1, MineVersion DEF Name
  <2>3. QED
    BY <1>5, <2>2 DEF LockInv, HeldLocksStay
<1>8. OpenByName' /\ LocksDiffer'
  BY <1>1 DEF LockInv, OpenByName, LocksDiffer
<1>9. NothingStale'
  BY <1>1, <1>3 DEF LockInv, NothingStale, Mine
<1>10. NotYetStored'
  BY <1>1, <1>3 DEF LockInv, NotYetStored
<1>11. QED
  BY <1>6, <1>7, <1>8, <1>9, <1>10, RemoveFileType DEF LockInv

\* No lock file is old, so none is removed.
LEMMA StatLockLock == ASSUME LockInv, NEW t \in Thread, StatLock(t) PROVE LockInv'
<1>1. UNCHANGED <<file, next, old, stored, cleaned, name, memo, call, todo, use, lock, shelf>>
  BY DEF StatLock, disk, globals, locals
<1>2. old = {}
  BY DEF LockInv, NothingStale
<1>3. pc' = [pc EXCEPT ![t] = "mark"]
  BY <1>2 DEF StatLock, Goto
<1>4. FilesFresh' /\ OpenByName' /\ LocksDiffer' /\ HeldLocksStay'
  BY <1>1, NothingOpened
<1>5. NothingStale' /\ NotYetStored'
  BY <1>1, <1>3 DEF LockInv, TypeInv, TypeOK, NothingStale, NotYetStored, Mine
<1>6. QED
  BY <1>4, <1>5, StatLockType DEF LockInv

LEMMA MarkCleanedLock == ASSUME LockInv, NEW t \in Thread, MarkCleaned(t) PROVE LockInv'
<1>1. UNCHANGED <<file, next, old, stored, name, memo, call, todo, use, lock, shelf>>
  BY DEF MarkCleaned, disk, locals
<1>2. FilesFresh' /\ OpenByName' /\ LocksDiffer' /\ HeldLocksStay'
  BY <1>1, NothingOpened
<1>3. NothingStale' /\ NotYetStored'
  BY <1>1 DEF LockInv, TypeInv, TypeOK, NothingStale, NotYetStored, MarkCleaned, Goto, Mine
<1>4. QED
  BY <1>2, <1>3, MarkCleanedType DEF LockInv

LEMMA SetNameLock == ASSUME LockInv, NEW t \in Thread, SetName(t) PROVE LockInv'
<1>1. UNCHANGED <<file, next, old, stored, cleaned, memo, call, todo, use, lock, shelf>>
  BY DEF SetName, disk, locals
<1>2. FilesFresh' /\ OpenByName' /\ LocksDiffer' /\ HeldLocksStay'
  BY <1>1, NothingOpened
<1>3. NothingStale' /\ NotYetStored'
  BY <1>1, MineVersion DEF LockInv, TypeInv, TypeOK, NothingStale, NotYetStored, SetName, Goto, Mine
<1>4. QED
  BY <1>2, <1>3, SetNameType DEF LockInv

LEMMA ReturnNameLock == ASSUME LockInv, NEW t \in Thread, ReturnName(t) PROVE LockInv'
<1>1. UNCHANGED <<file, next, old, stored, cleaned, name, memo, call, todo, lock, shelf>>
  BY DEF ReturnName, disk, globals
<1>2. lock[t] = NoFile
  BY DEF LockInv, TypeInv, Holding, ReturnName
<1>3. /\ use' = [use EXCEPT ![t] = name[ProcessOf[t]]] /\ pc' = [pc EXCEPT ![t] = "lock"]
  BY DEF ReturnName, Goto
<1>4. FilesFresh' /\ OpenByName' /\ LocksDiffer' /\ HeldLocksStay'
  BY <1>1, <1>2, <1>3, NothingOpened DEF LockInv, TypeInv, TypeOK
<1>5. NothingStale' /\ NotYetStored'
  BY <1>1, <1>3, MineVersion DEF LockInv, TypeInv, TypeOK, NothingStale, NotYetStored, Mine
<1>6. QED
  BY <1>4, <1>5, ReturnNameType DEF LockInv

\* The lock taken is the file that has the name, and nobody else's: either it
\* is a new one, or the guard says so.
LEMMA AcquireLock == ASSUME LockInv, NEW t \in Thread, Acquire(t) PROVE LockInv'
<1>. DEFINE n == <<use[t], "lock">>
<1>1. /\ UNCHANGED <<stored, cleaned, name, memo, call, todo, use, shelf>>
      /\ pc' = [pc EXCEPT ![t] = "open"] /\ lock[t] = NoFile
  BY DEF LockInv, TypeInv, Holding, Acquire, globals, Goto
<1>2. n \in Name /\ next \in Nat
  BY DEF LockInv, TypeInv, TypeOK, Name
<1>3. /\ \A u \in Thread \ {t} : lock'[u] = lock[u]
      /\ lock'[t] = file'[n] /\ lock'[t] # NoFile
      /\ \A m \in Name \ {n} : file'[m] = file[m]
      /\ lock'[t][1] = n /\ lock'[t][2] < next' /\ next <= next'
      /\ old' \subseteq old
      /\ \A u \in Thread : lock[u] # lock'[t]
      /\ file[n] = NoFile \/ file'[n] = file[n]
  <2>1. CASE file[n] = NoFile
    <3>1. /\ file' = [file EXCEPT ![n] = <<n, next>>] /\ next' = next + 1
          /\ lock' = [lock EXCEPT ![t] = <<n, next>>] /\ old' = old
      BY <2>1 DEF Acquire
    <3>2. <<n, next>> # NoFile
      BY <1>2, NoFileAssumption DEF Inode
    <3>3. file'[n] = <<n, next>> /\ lock'[t] = <<n, next>>
      BY <1>2, <3>1 DEF LockInv, TypeInv, TypeOK
    <3>4. \A u \in Thread : lock[u] # <<n, next>>
      BY <1>2, <3>2 DEF LockInv, OpenByName
    <3>5. QED
      BY <1>2, <2>1, <3>1, <3>2, <3>3, <3>4 DEF LockInv, TypeInv, TypeOK
  <2>2. CASE file[n] # NoFile
    <3>1. /\ UNCHANGED <<file, next>> /\ lock' = [lock EXCEPT ![t] = file[n]]
          /\ old' = old \ {file[n]} /\ \A u \in Thread : lock[u] # file[n]
      BY <2>2 DEF Acquire
    <3>2. file[n][1] = n /\ file[n][2] < next
      BY <1>2, <2>2 DEF LockInv, FilesFresh
    <3>3. QED
      BY <1>2, <2>2, <3>1, <3>2 DEF LockInv, TypeInv, TypeOK
  <2>3. QED
    BY <2>1, <2>2
<1>4. FilesFresh'
  <2>. SUFFICES ASSUME NEW m \in Name, file'[m] # NoFile
                PROVE  file'[m][1] = m /\ file'[m][2] < next'
    BY DEF FilesFresh
  <2>1. CASE m = n
    BY <1>3, <2>1
  <2>2. CASE m # n
    <3>1. file[m] \in Inode /\ file[m][1] = m /\ file[m][2] < next
      BY <1>3, <2>2 DEF LockInv, TypeInv, TypeOK, FilesFresh
    <3>2. file[m][2] \in Nat /\ next' \in Nat
      BY <3>1, AcquireType DEF Inode, LockInv, TypeInv, TypeOK
    <3>3. QED
      BY <1>2, <1>3, <2>2, <3>1, <3>2
  <2>3. QED
    BY <2>1, <2>2
<1>5. OpenByName'
  <2>. SUFFICES ASSUME NEW u \in Thread, u # t, lock[u] # NoFile
                PROVE  lock[u][2] < next'
    BY <1>1, <1>3 DEF LockInv, OpenByName
  <2>1. lock[u][2] \in Nat /\ lock[u][2] < next /\ next' \in Nat
    BY AcquireType DEF LockInv, OpenByName, TypeInv, TypeOK, Inode
  <2>2. QED
    BY <1>2, <1>3, <2>1
<1>6. LocksDiffer'
  BY <1>3 DEF LockInv, LocksDiffer
<1>7. HeldLocksStay'
  <2>. SUFFICES ASSUME NEW u \in Thread, u # t, lock[u] # NoFile, use[u] # NoName
                PROVE  file'[<<use[u], "lock">>] = lock[u]
    BY <1>1, <1>3 DEF HeldLocksStay
  <2>1. <<use[u], "lock">> \in Name /\ file[<<use[u], "lock">>] = lock[u]
    BY DEF LockInv, HeldLocksStay, TypeInv, TypeOK, Name
  <2>2. QED
    BY <1>3, <2>1
<1>8. NothingStale' /\ NotYetStored'
  BY <1>1, <1>3 DEF LockInv, TypeInv, TypeOK, NothingStale, NotYetStored, Mine
<1>9. QED
  BY <1>4, <1>5, <1>6, <1>7, <1>8, AcquireType DEF LockInv

LEMMA OpenShelfLock == ASSUME LockInv, NEW t \in Thread, OpenShelf(t) PROVE LockInv'
<1>. DEFINE n == <<use[t], "shelf">>
<1>1. /\ UNCHANGED <<old, stored, cleaned, name, memo, call, todo, use>>
      /\ \A u \in Thread \ {t} : pc'[u] = pc[u] /\ lock'[u] = lock[u] /\ shelf'[u] = shelf[u]
      /\ pc'[t] \in {"look", "raised"} /\ lock'[t] \in {lock[t], NoFile}
  BY DEF LockInv, TypeInv, TypeOK, OpenShelf, globals, Goto
<1>2. n \in Name /\ next \in Nat /\ next' \in Nat
  BY OpenShelfType DEF LockInv, TypeInv, TypeOK, Name
<1>3. /\ \A m \in Name \ {n} : file'[m] = file[m]
      /\ next <= next'
      /\ file'[n] # NoFile => file'[n][1] = n /\ file'[n][2] < next'
      /\ shelf'[t] # NoFile => shelf'[t][1] = n
  <2>0. shelf[t] = NoFile /\ (file[n] # NoFile => file[n][1] = n /\ file[n][2] < next)
    BY <1>2 DEF LockInv, TypeInv, Holding, FilesFresh, OpenShelf
  <2>1. CASE file[n] = NoFile /\ next' = next + 1 /\ file' = [file EXCEPT ![n] = <<n, next>>]
             /\ shelf' = [shelf EXCEPT ![t] = <<n, next>>]
    BY <1>2, <2>1 DEF LockInv, TypeInv, TypeOK
  <2>2. CASE file[n] # NoFile /\ shelf' = [shelf EXCEPT ![t] = file[n]] /\ UNCHANGED <<file, next>>
    BY <1>2, <2>0, <2>2 DEF LockInv, TypeInv, TypeOK
  <2>3. CASE UNCHANGED <<file, next, shelf>>
    BY <1>2, <2>0, <2>3
  <2>4. QED
    BY <2>1, <2>2, <2>3 DEF OpenShelf
<1>4. FilesFresh'
  <2>. SUFFICES ASSUME NEW m \in Name, m # n, file[m] # NoFile
                PROVE  file[m][1] = m /\ file[m][2] < next'
    BY <1>3 DEF FilesFresh
  <2>1. file[m][2] \in Nat /\ file[m][1] = m /\ file[m][2] < next
    BY DEF LockInv, FilesFresh, TypeInv, TypeOK, Inode
  <2>2. QED
    BY <1>2, <1>3, <2>1
<1>5. OpenByName'
  <2>. SUFFICES ASSUME NEW u \in Thread, lock[u] # NoFile
                PROVE  lock[u][1] = <<use[u], "lock">> /\ lock[u][2] < next'
    BY <1>1, <1>3 DEF LockInv, OpenByName
  <2>1. lock[u][2] \in Nat /\ lock[u][1] = <<use[u], "lock">> /\ lock[u][2] < next
    BY DEF LockInv, OpenByName, TypeInv, TypeOK, Inode
  <2>2. QED
    BY <1>2, <1>3, <2>1
<1>6. LocksDiffer'
  BY <1>1 DEF LockInv, LocksDiffer
<1>7. HeldLocksStay'
  <2>. SUFFICES ASSUME NEW u \in Thread, lock[u] # NoFile, use[u] # NoName
                PROVE  file'[<<use[u], "lock">>] = lock[u]
    BY <1>1 DEF HeldLocksStay
  <2>1. <<use[u], "lock">> \in Name \ {n}
    BY DEF LockInv, TypeInv, TypeOK, Name
  <2>2. QED
    BY <1>3, <2>1 DEF LockInv, HeldLocksStay
<1>8. NothingStale' /\ NotYetStored'
  BY <1>1 DEF LockInv, NothingStale, NotYetStored, Mine
<1>9. QED
  BY <1>4, <1>5, <1>6, <1>7, <1>8, OpenShelfType DEF LockInv

LEMMA LookUpLock == ASSUME LockInv, NEW t \in Thread, LookUp(t) PROVE LockInv'
<1>1. UNCHANGED <<file, next, old, stored, cleaned, name, memo, call, todo, use, lock, shelf>>
  BY DEF LookUp, disk, globals, locals
<1>2. FilesFresh' /\ OpenByName' /\ LocksDiffer' /\ HeldLocksStay'
  BY <1>1, NothingOpened
<1>3. NothingStale' /\ NotYetStored'
  BY <1>1 DEF LockInv, TypeInv, TypeOK, NothingStale, NotYetStored, LookUp, Goto, Mine
<1>4. QED
  BY <1>2, <1>3, LookUpType DEF LockInv

\* Whoever has the shelf open has the lock.
LEMMA ShelfByLock ==
  ASSUME LockInv PROVE OneAtATime
<1>. SUFFICES ASSUME NEW t \in Thread, NEW u \in Thread,
                     shelf[t] # NoFile, shelf[t] = shelf[u], use[t] # NoName
              PROVE  t = u
  BY DEF OneAtATime
<1>1. use[u] = use[t]
  BY DEF LockInv, OpenByName
<1>2. lock[t] # NoFile /\ lock[u] # NoFile
  BY DEF LockInv, TypeInv, Holding
<1>3. lock[t] = lock[u]
  BY <1>1, <1>2 DEF LockInv, HeldLocksStay
<1>4. QED
  BY <1>2, <1>3 DEF LockInv, LocksDiffer

LEMMA BuildGraphLock == ASSUME LockInv, NEW t \in Thread, BuildGraph(t) PROVE LockInv'
<1>1. UNCHANGED <<file, next, old, cleaned, name, memo, call, todo, use, lock, shelf>>
  BY DEF BuildGraph, globals, locals
<1>2. pc' = [pc EXCEPT ![t] = "close"] /\ stored' = stored \cup {<<shelf[t], call[t]>>}
  BY DEF BuildGraph, Goto
<1>3. FilesFresh' /\ OpenByName' /\ LocksDiffer' /\ HeldLocksStay'
  BY <1>1, NothingOpened
<1>4. NothingStale'
  BY <1>1, <1>2 DEF LockInv, TypeInv, TypeOK, NothingStale, Mine
<1>5. NotYetStored'
  <2>. SUFFICES ASSUME NEW u \in Thread, u # t, pc[u] = "build", use[u] # NoName
                PROVE  <<shelf[u], call[u]>> \notin stored'
    BY <1>1, <1>2 DEF LockInv, TypeInv, TypeOK, NotYetStored
  <2>1. shelf[u] # shelf[t]
    BY ShelfByLock DEF OneAtATime, LockInv, TypeInv, Holding
  <2>2. QED
    BY <1>2, <2>1 DEF LockInv, NotYetStored
<1>6. QED
  BY <1>3, <1>4, <1>5, BuildGraphType DEF LockInv

LEMMA CloseLock == ASSUME LockInv, NEW t \in Thread, Close(t) PROVE LockInv'
<1>1. UNCHANGED <<file, next, old, stored, cleaned, name, call, todo, use>>
  BY DEF Close, disk
<1>2. /\ \A u \in Thread \ {t} : lock'[u] = lock[u] /\ shelf'[u] = shelf[u] /\ pc'[u] = pc[u]
      /\ lock'[t] = NoFile /\ shelf'[t] = NoFile /\ pc'[t] = "idle"
  BY DEF LockInv, TypeInv, TypeOK, Close, Goto
<1>3. FilesFresh' /\ OpenByName' /\ LocksDiffer' /\ HeldLocksStay'
  BY <1>1, <1>2 DEF LockInv, FilesFresh, OpenByName, LocksDiffer, HeldLocksStay
<1>4. NothingStale' /\ NotYetStored'
  BY <1>1, <1>2 DEF LockInv, NothingStale, NotYetStored, Mine
<1>5. QED
  BY <1>3, <1>4, CloseType DEF LockInv

LEMMA KillLock == ASSUME LockInv, NEW p \in Process, Kill(p) PROVE LockInv'
<1>1. UNCHANGED <<file, next, old, stored, cleaned, name, call, todo, use>>
  BY DEF Kill, disk, globals
<1>2. \A u \in Thread :
        \/ lock'[u] = lock[u] /\ shelf'[u] = shelf[u] /\ pc'[u] = pc[u]
        \/ lock'[u] = NoFile /\ shelf'[u] = NoFile /\ pc'[u] = "killed"
  BY DEF Kill
<1>3. FilesFresh' /\ OpenByName' /\ LocksDiffer' /\ HeldLocksStay'
  BY <1>1, <1>2 DEF LockInv, FilesFresh, OpenByName, LocksDiffer, HeldLocksStay
<1>4. NothingStale' /\ NotYetStored'
  BY <1>1, <1>2 DEF LockInv, NothingStale, NotYetStored, Mine
<1>5. QED
  BY <1>3, <1>4, KillType DEF LockInv

LEMMA StepLock == OneVersion /\ LockInv /\ [Next]_vars => LockInv'
<1>1. ASSUME OneVersion, LockInv, NEW t \in Thread, Step(t) PROVE LockInv'
  <2>1. ~UnlinkLock(t)
    BY <1>1 DEF LockInv, NothingStale, UnlinkLock
  <2>2. QED
    BY <1>1, <2>1, AskLock, ListFilesLock, RemoveFileLock, StatLockLock,
       MarkCleanedLock, SetNameLock, ReturnNameLock, AcquireLock, OpenShelfLock,
       LookUpLock, BuildGraphLock, CloseLock DEF Step
<1>2. ASSUME LockInv, UNCHANGED vars PROVE LockInv'
  <2>1. TypeInv'
    BY <1>2, StepType DEF LockInv
  <2>2. FilesFresh' /\ OpenByName' /\ LocksDiffer' /\ HeldLocksStay'
    BY <1>2, NothingOpened DEF vars
  <2>3. NothingStale' /\ NotYetStored'
    BY <1>2 DEF vars, LockInv, NothingStale, NotYetStored, Mine
  <2>4. QED
    BY <2>1, <2>2, <2>3 DEF LockInv
<1>3. QED
  BY <1>1, <1>2, KillLock DEF Next

\* No shelf is open twice, in however many processes and threads, whoever is
\* killed, unless a lock file of more than an hour ago was there: two clean-ups
\* that find one may remove a lock that is held.
THEOREM ShelfIsExclusive == OneVersion /\ ~OldLock => (Spec => []OneAtATime)
<1>. SUFFICES ASSUME OneVersion, ~OldLock PROVE Spec => []OneAtATime
  OBVIOUS
<1>1. Init => LockInv
  BY InitLockInv
<1>2. LockInv /\ [Next]_vars => LockInv'
  BY StepLock
<1>3. LockInv => OneAtATime
  BY ShelfByLock
<1>4. QED
  BY <1>1, <1>2, <1>3, PTL DEF Spec

\* A graph goes into a shelf once, whatever the processes that want it, on the
\* same condition.
THEOREM GraphsAreBuiltOnce == OneVersion /\ ~OldLock => (Spec => BuiltOnce)
<1>. DEFINE Once == \A t \in Thread : pc[t] = "build" /\ pc'[t] = "close" /\ use[t] # NoName
                                        => <<shelf[t], call[t]>> \notin stored
<1>. SUFFICES ASSUME OneVersion, ~OldLock PROVE Spec => [][Once]_vars
  BY DEF BuiltOnce
<1>1. Init => LockInv
  BY InitLockInv
<1>2. LockInv /\ [Next]_vars => LockInv'
  BY StepLock
<1>3. LockInv /\ [Next]_vars => [Once]_vars
  BY DEF LockInv, NotYetStored
<1>. HIDE DEF Once
<1>4. QED
  BY <1>1, <1>2, <1>3, PTL DEF Spec

-----------------------------------------------------------------------------
(* The clean-up, when every process runs the same version.                 *)

\* No file of another version is left.
Official(p) == \A n \in Name : n[1] \notin {VersionOf[p], NoName} => file[n] = NoFile

Cleaned == {"unlink", "mark", "name", "return", "lock", "open", "look", "build", "close"}

\* Until it is done, what is left of other versions is on the list; and a
\* process that has a name for its shelf has cleaned up.
CleanInv ==
  /\ TypeInv
  /\ \A p \in Process : cleaned[p] \/ name[p] # NoName => Official(p)
  /\ \A t \in Thread :
     /\ use[t] \in {NoName, Mine(t)}
     /\ pc[t] \in Cleaned => Official(ProcessOf[t])
     /\ pc[t] = "remove" =>
          \A n \in Name : n[1] \notin {Mine(t), NoName} /\ file[n] # NoFile => n \in todo[t]
  /\ \A p \in Process : name[p] \in {NoName, VersionOf[p]}

LEMMA InitCleanInv == Init => CleanInv
BY InitTypeInv DEF Init, CleanInv, Cleaned

\* A step that brings no file of another version, of which a thread passes
\* from one cleaned-up place to another, or out of the call.
LEMMA StaysClean ==
  ASSUME OneVersion, CleanInv, TypeInv', NEW t \in Thread,
         \A n \in Name : n[1] \notin {Mine(t), NoName} => file'[n] \in {file[n], NoFile},
         \A u \in Thread \ {t} : pc'[u] = pc[u] /\ use'[u] = use[u] /\ todo'[u] = todo[u],
         UNCHANGED cleaned, UNCHANGED name,
         pc'[t] \in Cleaned => pc[t] \in Cleaned \/ Official(ProcessOf[t]),
         pc'[t] # "remove",
         use'[t] \in {use[t], name[ProcessOf[t]]}
  PROVE  CleanInv'
<1>1. \A u \in Thread : Mine(u) = Mine(t) /\ ProcessOf[u] \in Process
  BY MineVersion DEF OneVersion, Mine
<1>2. \A p \in Process : VersionOf[p] = Mine(t)
  BY MineVersion DEF OneVersion, Mine
<1>3. \A p \in Process : Official(p) => Official(p)'
  BY <1>2 DEF Official
<1>4. \A u \in Thread : use'[u] \in {NoName, Mine(u)}
  BY <1>1 DEF CleanInv, Mine
<1>5. \A u \in Thread : pc'[u] \in Cleaned => Official(ProcessOf[u])'
  BY <1>1, <1>3 DEF CleanInv
<1>6. \A u \in Thread : pc'[u] = "remove" =>
        \A n \in Name : n[1] \notin {Mine(u), NoName} /\ file'[n] # NoFile => n \in todo'[u]
  BY <1>1 DEF CleanInv
<1>7. \A p \in Process : cleaned'[p] \/ name'[p] # NoName => Official(p)'
  BY <1>3 DEF CleanInv
<1>8. QED
  BY <1>4, <1>5, <1>6, <1>7 DEF CleanInv, Mine

LEMMA AskClean == ASSUME OneVersion, CleanInv, NEW t \in Thread, Ask(t) PROVE CleanInv'
<1>1. UNCHANGED <<file, cleaned, name, todo>>
  BY DEF Ask, disk, globals
<1>2. /\ \A u \in Thread \ {t} : use'[u] = use[u] /\ pc'[u] = pc[u]
      /\ use'[t] \in {use[t], name[ProcessOf[t]]}
      /\ pc'[t] \in {"idle", "clean", "lock"}
      /\ pc'[t] = "lock" => name[ProcessOf[t]] # NoName
  BY DEF CleanInv, TypeInv, TypeOK, Ask, Goto
<1>3. pc'[t] \in Cleaned => Official(ProcessOf[t])
  BY <1>2, MineVersion DEF CleanInv, Cleaned
<1>4. QED
  BY <1>1, <1>2, <1>3, AskType, StaysClean DEF CleanInv

LEMMA ListFilesClean == ASSUME OneVersion, CleanInv, NEW t \in Thread, ListFiles(t) PROVE CleanInv'
<1>1. UNCHANGED <<file, cleaned, name, use>>
  BY DEF ListFiles, disk, globals
<1>2. TypeInv'
  BY ListFilesType DEF CleanInv
<1>3. CASE cleaned[ProcessOf[t]]
  <2>1. pc' = [pc EXCEPT ![t] = "return"] /\ todo' = todo
    BY <1>3 DEF ListFiles, Goto
  <2>2. Official(ProcessOf[t])
    BY <1>3, MineVersion DEF CleanInv
  <2>3. QED
    BY <1>1, <1>2, <2>1, <2>2, StaysClean DEF CleanInv, TypeInv, TypeOK
<1>4. CASE ~cleaned[ProcessOf[t]]
  <2>1. /\ pc' = [pc EXCEPT ![t] = "remove"]
        /\ todo' = [todo EXCEPT ![t] = {n \in Name : file[n] # NoFile /\ n[1] # Mine(t)}]
    BY <1>4 DEF ListFiles, Goto
  <2>2. \A u \in Thread : pc'[u] \in Cleaned => pc[u] \in Cleaned
    BY <2>1 DEF CleanInv, TypeInv, TypeOK, Cleaned
  <2>3. \A u \in Thread : pc'[u] = "remove" =>
          \A n \in Name : n[1] \notin {Mine(u), NoName} /\ file[n] # NoFile => n \in todo'[u]
    BY <2>1 DEF CleanInv, TypeInv, TypeOK
  <2>4. QED
    BY <1>1, <1>2, <2>2, <2>3 DEF CleanInv, Mine, Official
<1>5. QED
  BY <1>3, <1>4

\* A file that is off the list is gone, also when another process took it.
LEMMA RemoveFileClean == ASSUME OneVersion, CleanInv, NEW t \in Thread, RemoveFile(t) PROVE CleanInv'
<1>1. UNCHANGED <<cleaned, name, use>>
  BY DEF RemoveFile, globals
<1>2. PICK n \in todo[t] : /\ todo' = [todo EXCEPT ![t] = @ \ {n}]
                           /\ file' = [file EXCEPT ![n] = NoFile]
                           /\ IF file[n] = NoFile THEN Goto(t, "raised") ELSE UNCHANGED pc
  BY DEF RemoveFile
<1>3. TypeInv'
  BY RemoveFileType DEF CleanInv
<1>4. n \in Name /\ \A m \in Name : file'[m] = IF m = n THEN NoFile ELSE file[m]
  BY <1>2 DEF CleanInv, TypeInv, TypeOK
<1>5. \A u \in Thread : pc'[u] \in {pc[u], "raised"}
  BY <1>2 DEF CleanInv, TypeInv, TypeOK, Goto
<1>6. \A p \in Process : Official(p) => Official(p)'
  BY <1>4 DEF Official
<1>7. \A u \in Thread : pc'[u] = "remove" =>
        \A m \in Name : m[1] \notin {Mine(u), NoName} /\ file'[m] # NoFile => m \in todo'[u]
  BY <1>2, <1>4, <1>5 DEF CleanInv, TypeInv, TypeOK
<1>8. QED
  BY <1>1, <1>3, <1>5, <1>6, <1>7, MineVersion DEF CleanInv, Cleaned, Mine

LEMMA StatLockClean == ASSUME OneVersion, CleanInv, NEW t \in Thread, StatLock(t) PROVE CleanInv'
<1>1. UNCHANGED <<file, cleaned, name, todo, use>>
  BY DEF StatLock, disk, globals, locals
<1>2. /\ \A u \in Thread \ {t} : pc'[u] = pc[u]
      /\ pc'[t] \in {"unlink", "mark"}
  BY DEF CleanInv, TypeInv, TypeOK, StatLock, Goto
<1>3. Official(ProcessOf[t])
  BY DEF CleanInv, StatLock, Official, Mine
<1>4. QED
  BY <1>1, <1>2, <1>3, StatLockType, StaysClean DEF CleanInv

LEMMA UnlinkLockClean == ASSUME OneVersion, CleanInv, NEW t \in Thread, UnlinkLock(t) PROVE CleanInv'
<1>1. UNCHANGED <<cleaned, name, todo, use>>
  BY DEF UnlinkLock, globals, locals
<1>2. /\ \A u \in Thread \ {t} : pc'[u] = pc[u]
      /\ pc'[t] = "mark" /\ pc[t] = "unlink"
      /\ \A n \in Name : file'[n] \in {file[n], NoFile}
  BY DEF CleanInv, TypeInv, TypeOK, UnlinkLock, Goto
<1>3. QED
  BY <1>1, <1>2, UnlinkLockType, StaysClean DEF CleanInv, Cleaned

LEMMA MarkCleanedClean == ASSUME OneVersion, CleanInv, NEW t \in Thread, MarkCleaned(t) PROVE CleanInv'
<1>1. UNCHANGED <<file, name, todo, use>>
  BY DEF MarkCleaned, disk, locals
<1>2. \A u \in Thread : pc'[u] = pc[u] \/ (u = t /\ pc'[u] = "name" /\ pc[u] = "mark")
  BY DEF CleanInv, TypeInv, TypeOK, MarkCleaned, Goto
<1>3. \A p \in Process : cleaned'[p] => cleaned[p] \/ p = ProcessOf[t]
  BY DEF CleanInv, TypeInv, TypeOK, MarkCleaned
<1>4. Official(ProcessOf[t])
  BY DEF CleanInv, MarkCleaned, Cleaned
<1>5. QED
  BY <1>1, <1>2, <1>3, <1>4, MarkCleanedType DEF CleanInv, Cleaned, Mine, Official

LEMMA SetNameClean == ASSUME OneVersion, CleanInv, NEW t \in Thread, SetName(t) PROVE CleanInv'
<1>1. UNCHANGED <<file, cleaned, todo, use>>
  BY DEF SetName, disk, locals
<1>2. \A u \in Thread : pc'[u] = pc[u] \/ (u = t /\ pc'[u] = "return" /\ pc[u] = "name")
  BY DEF CleanInv, TypeInv, TypeOK, SetName, Goto
<1>3. \A p \in Process : name'[p] = IF p = ProcessOf[t] THEN VersionOf[p] ELSE name[p]
  BY DEF CleanInv, TypeInv, TypeOK, SetName, Mine
<1>4. Official(ProcessOf[t])
  BY DEF CleanInv, SetName, Cleaned
<1>5. QED
  BY <1>1, <1>2, <1>3, <1>4, SetNameType DEF CleanInv, Cleaned, Mine, Official

LEMMA ReturnNameClean == ASSUME OneVersion, CleanInv, NEW t \in Thread, ReturnName(t) PROVE CleanInv'
<1>1. UNCHANGED <<file, cleaned, name, todo>>
  BY DEF ReturnName, disk, globals
<1>2. /\ \A u \in Thread \ {t} : pc'[u] = pc[u] /\ use'[u] = use[u]
      /\ pc'[t] = "lock" /\ pc[t] = "return" /\ use'[t] = name[ProcessOf[t]]
  BY DEF CleanInv, TypeInv, TypeOK, ReturnName, Goto
<1>3. QED
  BY <1>1, <1>2, ReturnNameType, StaysClean DEF CleanInv, Cleaned

\* The files that a call makes have the name it works with.
LEMMA AcquireClean == ASSUME OneVersion, CleanInv, NEW t \in Thread, Acquire(t) PROVE CleanInv'
<1>1. UNCHANGED <<cleaned, name, todo, use>>
  BY DEF Acquire, globals
<1>2. /\ \A u \in Thread \ {t} : pc'[u] = pc[u]
      /\ pc'[t] = "open" /\ pc[t] = "lock"
  BY DEF CleanInv, TypeInv, TypeOK, Acquire, Goto
<1>3. \A n \in Name : n[1] \notin {Mine(t), NoName} => file'[n] = file[n]
  BY DEF CleanInv, TypeInv, TypeOK, Acquire
<1>4. QED
  BY <1>1, <1>2, <1>3, AcquireType, StaysClean DEF CleanInv, Cleaned

LEMMA OpenShelfClean == ASSUME OneVersion, CleanInv, NEW t \in Thread, OpenShelf(t) PROVE CleanInv'
<1>1. UNCHANGED <<cleaned, name, todo, use>>
  BY DEF OpenShelf, globals
<1>2. /\ \A u \in Thread \ {t} : pc'[u] = pc[u]
      /\ pc'[t] \in {"look", "raised"} /\ pc[t] = "open"
  BY DEF CleanInv, TypeInv, TypeOK, OpenShelf, Goto
<1>3. \A n \in Name : n[1] \notin {Mine(t), NoName} => file'[n] = file[n]
  BY DEF CleanInv, TypeInv, TypeOK, OpenShelf
<1>4. QED
  BY <1>1, <1>2, <1>3, OpenShelfType, StaysClean DEF CleanInv, Cleaned

LEMMA ShelfStepClean ==
  ASSUME OneVersion, CleanInv, NEW t \in Thread, LookUp(t) \/ BuildGraph(t) \/ Close(t)
  PROVE  CleanInv'
<1>1. UNCHANGED <<file, cleaned, name, todo, use>>
  BY DEF LookUp, BuildGraph, Close, disk, globals, locals
<1>2. /\ \A u \in Thread \ {t} : pc'[u] = pc[u]
      /\ pc'[t] \in {"build", "close", "idle"} /\ pc[t] \in {"look", "build", "close"}
  BY DEF CleanInv, TypeInv, TypeOK, LookUp, BuildGraph, Close, Goto
<1>3. TypeInv'
  BY LookUpType, BuildGraphType, CloseType DEF CleanInv
<1>4. QED
  BY <1>1, <1>2, <1>3, StaysClean DEF CleanInv, Cleaned

LEMMA KillClean == ASSUME CleanInv, NEW p \in Process, Kill(p) PROVE CleanInv'
<1>1. UNCHANGED <<file, cleaned, name, todo, use>>
  BY DEF Kill, disk, globals
<1>2. \A u \in Thread : pc'[u] \in {pc[u], "killed"}
  BY DEF Kill
<1>3. QED
  BY <1>1, <1>2, KillType DEF CleanInv, Cleaned, Official, Mine

LEMMA StepClean == OneVersion /\ CleanInv /\ [Next]_vars => CleanInv'
<1>1. ASSUME OneVersion, CleanInv, NEW t \in Thread, Step(t) PROVE CleanInv'
  BY <1>1, AskClean, ListFilesClean, RemoveFileClean, StatLockClean, UnlinkLockClean,
     MarkCleanedClean, SetNameClean, ReturnNameClean, AcquireClean, OpenShelfClean,
     ShelfStepClean DEF Step
<1>2. ASSUME CleanInv, UNCHANGED vars PROVE CleanInv'
  <2>1. TypeInv'
    BY <1>2, StepType DEF CleanInv
  <2>2. QED
    BY <1>2, <2>1 DEF vars, CleanInv, Official, Mine
<1>3. QED
  BY <1>1, <1>2, KillClean DEF Next

\* "only keep official version cache": a call that goes on to use a shelf finds
\* no file of another version, also when other processes clean up at the same
\* time and some are killed half-way.
THEOREM CleanUpIsComplete == OneVersion => (Spec => []OnlyOfficialCache)
<1>. SUFFICES ASSUME OneVersion PROVE Spec => []OnlyOfficialCache
  OBVIOUS
<1>1. CleanInv /\ [Next]_vars => CleanInv'
  BY StepClean
<1>2. CleanInv => OnlyOfficialCache
  BY DEF CleanInv, OnlyOfficialCache, Cleaned, Official, Mine
<1>3. QED
  BY <1>1, <1>2, InitCleanInv, PTL DEF Spec
=============================================================================
