----------------------------- MODULE GraphCache -----------------------------
(***************************************************************************)
(* get_model_dependency_graph: the dependency graphs of the root models,   *)
(* kept in a shelf on disk that every process of a user shares.            *)
(*                                                                         *)
(* The name of the shelf has a hash of the package's own files in it.  The *)
(* first call of a process removes what other versions left in the cache   *)
(* directory, without a lock; the shelf itself is used under a file lock.  *)
(* A file is named <<version, kind>> and is an inode, so that a removed    *)
(* file can still be open or locked.  An inode is identified by the name   *)
(* it was made under and a number.                                         *)
(***************************************************************************)
EXTENDS Integers

CONSTANTS
  Thread, Process,
  ProcessOf,      \* the process a thread runs in
  Version,        \* versions of the package
  VersionOf,      \* the version a process runs
  Root,           \* root models
  Wanted,         \* the roots a thread asks for
  Leftover,       \* versions that left files behind before anything ran
  OldLock,        \* is a lock file left behind older than an hour?
  NoName, NoFile  \* the empty string, and no inode

ASSUME CacheAssumption ==
  /\ ProcessOf \in [Thread -> Process] /\ VersionOf \in [Process -> Version]
  /\ Wanted \in [Thread -> SUBSET Root]
  /\ Leftover \subseteq Version /\ OldLock \in BOOLEAN
  /\ NoName \notin Version

Name  == (Version \cup {NoName}) \X {"lock", "shelf"}
Inode == Name \X Nat

ASSUME RootAssumption == Root # {}

ASSUME NoFileAssumption == NoFile \notin Inode

VARIABLES
  file,     \* the cache directory: the inode of each name
  next,     \* the number of the next inode
  old,      \* lock files last touched more than an hour ago
  stored,   \* <<shelf, root>>: the graphs in the shelves
  cleaned,  \* _cache_cleaned of each process
  name,     \* _cache_name of each process
  memo,     \* _graph_cache of each process
  pc,       \* where each thread is
  call,     \* the root it asks for
  calls,    \* the roots it has still to ask for
  todo,     \* the files it found and still has to remove
  use,      \* the name cleanup_old_caches returned to it
  lock,     \* the lock file it holds
  shelf     \* the shelf it has open

disk    == <<file, next, old, stored>>
globals == <<cleaned, name, memo>>
locals  == <<call, calls, todo, use, lock, shelf>>
vars    == <<file, next, old, stored, cleaned, name, memo, pc, call, calls,
             todo, use, lock, shelf>>

Mine(t)   == VersionOf[ProcessOf[t]]
Goto(t, label) == pc' = [pc EXCEPT ![t] = label]

-----------------------------------------------------------------------------
(* get_model_dependency_graph up to the lock.                              *)

\* The graph may be in the process already, and so may the name of the shelf.
Ask(t) ==
  /\ pc[t] = "idle"
  /\ \E r \in calls[t] :
     IF r \in memo[ProcessOf[t]]
       THEN /\ calls' = [calls EXCEPT ![t] = @ \ {r}]
            /\ UNCHANGED <<pc, call, use>>
       ELSE /\ call' = [call EXCEPT ![t] = r]
            /\ use' = [use EXCEPT ![t] = name[ProcessOf[t]]]
            /\ Goto(t, IF name[ProcessOf[t]] = NoName THEN "clean" ELSE "lock")
            /\ UNCHANGED calls
  /\ UNCHANGED <<disk, globals, todo, lock, shelf>>

\* Unless this process has cleaned up, list what other versions left behind.
ListFiles(t) ==
  /\ pc[t] = "clean"
  /\ IF cleaned[ProcessOf[t]]
       THEN Goto(t, "return") /\ UNCHANGED todo
       ELSE /\ todo' = [todo EXCEPT ![t] =
                          {n \in Name : file[n] # NoFile /\ n[1] # Mine(t)}]
            /\ Goto(t, "remove")
  /\ UNCHANGED <<disk, globals, call, calls, use, lock, shelf>>

\* Mutant: a file that is gone already ends the clean-up, quietly.
RemoveGivesUp(t) ==
  /\ pc[t] = "remove"
  /\ \E n \in todo[t] :
     /\ todo' = [todo EXCEPT ![t] = IF file[n] = NoFile THEN {} ELSE @ \ {n}]
     /\ file' = [file EXCEPT ![n] = NoFile]
  /\ UNCHANGED <<next, old, stored, globals, pc, call, calls, use, lock, shelf>>

\* delete_unwanted_cache_files: a file that is gone already makes remove raise.
RemoveFile(t) ==
  /\ pc[t] = "remove"
  /\ \E n \in todo[t] :
     /\ todo' = [todo EXCEPT ![t] = @ \ {n}]
     /\ file' = [file EXCEPT ![n] = NoFile]
     /\ IF file[n] = NoFile THEN Goto(t, "raised") ELSE UNCHANGED pc
  /\ UNCHANGED <<next, old, stored, globals, call, calls, use, lock, shelf>>

StatLock(t) ==
  /\ pc[t] = "remove" /\ todo[t] = {}
  /\ Goto(t, IF file[<<Mine(t), "lock">>] \in old THEN "unlink" ELSE "mark")
  /\ UNCHANGED <<disk, globals, locals>>

\* Whatever the name stands for by now.
UnlinkLock(t) ==
  /\ pc[t] = "unlink"
  /\ file' = [file EXCEPT ![<<Mine(t), "lock">>] = NoFile]
  /\ Goto(t, "mark")
  /\ UNCHANGED <<next, old, stored, globals, locals>>

MarkCleaned(t) ==
  /\ pc[t] = "mark"
  /\ cleaned' = [cleaned EXCEPT ![ProcessOf[t]] = TRUE]
  /\ Goto(t, "name")
  /\ UNCHANGED <<disk, name, memo, locals>>

SetName(t) ==
  /\ pc[t] = "name"
  /\ name' = [name EXCEPT ![ProcessOf[t]] = Mine(t)]
  /\ Goto(t, "return")
  /\ UNCHANGED <<disk, cleaned, memo, locals>>

\* return shelv_location, _cache_name
ReturnName(t) ==
  /\ pc[t] = "return"
  /\ use' = [use EXCEPT ![t] = name[ProcessOf[t]]]
  /\ Goto(t, "lock")
  /\ UNCHANGED <<disk, globals, call, calls, todo, lock, shelf>>

-----------------------------------------------------------------------------
(* Under the lock.                                                         *)

\* Mutant: a lock nobody waits for.
AcquireAnyway(t) ==
  LET n == <<use[t], "lock">> IN
  /\ pc[t] = "lock"
  /\ IF file[n] = NoFile
       THEN /\ file' = [file EXCEPT ![n] = <<n, next>>]
            /\ next' = next + 1
            /\ lock' = [lock EXCEPT ![t] = <<n, next>>]
            /\ UNCHANGED old
       ELSE /\ lock' = [lock EXCEPT ![t] = file[n]]
            /\ old' = old \ {file[n]}
            /\ UNCHANGED <<file, next>>
  /\ Goto(t, "open")
  /\ UNCHANGED <<stored, globals, call, calls, todo, use, shelf>>

\* FileLock opens the file that has the name now (and makes its time the
\* current one), creating it if need be, and gets it when nobody holds it.
Acquire(t) ==
  LET n == <<use[t], "lock">> IN
  /\ pc[t] = "lock"
  /\ IF file[n] = NoFile
       THEN /\ file' = [file EXCEPT ![n] = <<n, next>>]
            /\ next' = next + 1
            /\ lock' = [lock EXCEPT ![t] = <<n, next>>]
            /\ UNCHANGED old
       ELSE /\ \A u \in Thread : lock[u] # file[n]
            /\ lock' = [lock EXCEPT ![t] = file[n]]
            /\ old' = old \ {file[n]}
            /\ UNCHANGED <<file, next>>
  /\ Goto(t, "open")
  /\ UNCHANGED <<stored, globals, call, calls, todo, use, shelf>>

\* Mutant: opens an existing shelf only.
OpenExisting(t) ==
  /\ pc[t] = "open"
  /\ shelf' = [shelf EXCEPT ![t] = file[<<use[t], "shelf">>]]
  /\ Goto(t, "look")
  /\ UNCHANGED <<disk, globals, call, calls, todo, use, lock>>

\* shelve.open.  Without a name it is asked to open the directory, which
\* depending on the kind of shelf raises or makes a file without a name.
OpenShelf(t) ==
  LET n == <<use[t], "shelf">> IN
  /\ pc[t] = "open"
  /\ \/ /\ IF file[n] = NoFile
             THEN /\ file' = [file EXCEPT ![n] = <<n, next>>]
                  /\ next' = next + 1
                  /\ shelf' = [shelf EXCEPT ![t] = <<n, next>>]
             ELSE /\ shelf' = [shelf EXCEPT ![t] = file[n]]
                  /\ UNCHANGED <<file, next>>
        /\ Goto(t, "look")
        /\ UNCHANGED lock
     \/ /\ use[t] = NoName
        /\ lock' = [lock EXCEPT ![t] = NoFile]
        /\ Goto(t, "raised")
        /\ UNCHANGED <<file, next, shelf>>
  /\ UNCHANGED <<old, stored, globals, call, calls, todo, use>>

\* Mutant: builds the graph without looking.
LookNever(t) ==
  /\ pc[t] = "look"
  /\ Goto(t, "build")
  /\ UNCHANGED <<disk, globals, locals>>

LookUp(t) ==
  /\ pc[t] = "look"
  /\ Goto(t, IF <<shelf[t], call[t]>> \in stored THEN "close" ELSE "build")
  /\ UNCHANGED <<disk, globals, locals>>

BuildGraph(t) ==
  /\ pc[t] = "build"
  /\ stored' = stored \cup {<<shelf[t], call[t]>>}
  /\ Goto(t, "close")
  /\ UNCHANGED <<file, next, old, globals, locals>>

\* Mutant: keeps the lock.
CloseOnly(t) ==
  /\ pc[t] = "close"
  /\ shelf' = [shelf EXCEPT ![t] = NoFile]
  /\ memo' = [memo EXCEPT ![ProcessOf[t]] = @ \cup {call[t]}]
  /\ calls' = [calls EXCEPT ![t] = @ \ {call[t]}]
  /\ Goto(t, "idle")
  /\ UNCHANGED <<disk, cleaned, name, call, todo, use, lock>>

\* Close the shelf, release the lock and keep the graph.
Close(t) ==
  /\ pc[t] = "close"
  /\ shelf' = [shelf EXCEPT ![t] = NoFile]
  /\ lock' = [lock EXCEPT ![t] = NoFile]
  /\ memo' = [memo EXCEPT ![ProcessOf[t]] = @ \cup {call[t]}]
  /\ calls' = [calls EXCEPT ![t] = @ \ {call[t]}]
  /\ Goto(t, "idle")
  /\ UNCHANGED <<disk, cleaned, name, call, todo, use>>

\* A process is killed.  The system closes its files and drops its locks.
Kill(p) ==
  LET Its(t) == ProcessOf[t] = p IN
  /\ pc' = [t \in Thread |-> IF Its(t) THEN "killed" ELSE pc[t]]
  /\ lock' = [t \in Thread |-> IF Its(t) THEN NoFile ELSE lock[t]]
  /\ shelf' = [t \in Thread |-> IF Its(t) THEN NoFile ELSE shelf[t]]
  /\ UNCHANGED <<disk, globals, call, calls, todo, use>>

-----------------------------------------------------------------------------

\* What the other versions left: a lock file and a shelf, with no holder.
LeftFiles == Leftover \X {"lock", "shelf"}

Init ==
  /\ file = [n \in Name |-> IF n \in LeftFiles THEN <<n, 0>> ELSE NoFile]
  /\ next = 1
  /\ old = IF OldLock THEN {<<n, 0>> : n \in Leftover \X {"lock"}} ELSE {}
  /\ stored = {}
  /\ cleaned = [p \in Process |-> FALSE]
  /\ name = [p \in Process |-> NoName]
  /\ memo = [p \in Process |-> {}]
  /\ pc = [t \in Thread |-> "idle"]
  /\ call = [t \in Thread |-> CHOOSE r \in Root : TRUE]
  /\ calls = Wanted
  /\ todo = [t \in Thread |-> {}]
  /\ use = [t \in Thread |-> NoName]
  /\ lock = [t \in Thread |-> NoFile]
  /\ shelf = [t \in Thread |-> NoFile]

Step(t) ==
  \/ Ask(t) \/ ListFiles(t) \/ RemoveFile(t) \/ StatLock(t) \/ UnlinkLock(t)
  \/ MarkCleaned(t) \/ SetName(t) \/ ReturnName(t) \/ Acquire(t)
  \/ OpenShelf(t) \/ LookUp(t) \/ BuildGraph(t) \/ Close(t)

Next == (\E t \in Thread : Step(t)) \/ (\E p \in Process : Kill(p))

\* Threads keep running; a lock that is free is found free by some poll.
Spec == Init /\ [][Next]_vars /\ \A t \in Thread : WF_vars(Step(t))

-----------------------------------------------------------------------------
(* Properties.                                                             *)

Labels == {"idle", "clean", "remove", "unlink", "mark", "name", "return", "lock",
           "open", "look", "build", "close", "raised", "killed"}

TypeOK ==
  /\ file \in [Name -> Inode \cup {NoFile}] /\ next \in Nat
  /\ old \subseteq Inode /\ stored \subseteq Inode \X Root
  /\ cleaned \in [Process -> BOOLEAN]
  /\ name \in [Process -> Version \cup {NoName}]
  /\ memo \in [Process -> SUBSET Root]
  /\ pc \in [Thread -> Labels]
  /\ call \in [Thread -> Root] /\ calls \in [Thread -> SUBSET Root]
  /\ todo \in [Thread -> SUBSET Name]
  /\ use \in [Thread -> Version \cup {NoName}]
  /\ lock \in [Thread -> Inode \cup {NoFile}]
  /\ shelf \in [Thread -> Inode \cup {NoFile}]

\* The file lock does its work: no shelf that has a name is open twice, in
\* whatever processes.
OneAtATime ==
  \A t, u \in Thread :
    shelf[t] # NoFile /\ shelf[t] = shelf[u] /\ use[t] # NoName => t = u

\* The graph of a root is put into a shelf by one process only: the others
\* read it from there.
BuiltOnce ==
  [][\A t \in Thread : pc[t] = "build" /\ pc'[t] = "close" /\ use[t] # NoName
                         => <<shelf[t], call[t]>> \notin stored]_vars

\* "only keep official version cache": after the clean-up of a process no file
\* of another version is left, also when several processes clean up at once
\* and some are killed half-way.
OnlyOfficialCache ==
  \A t \in Thread : pc[t] \in {"lock", "open", "look", "build", "close"} =>
    \A n \in Name : n[1] \notin {Mine(t), NoName} => file[n] = NoFile

\* Every thread has all its graphs in the end, unless it fails or is killed.
CallsEnd == \A t \in Thread : <>(calls[t] = {} \/ pc[t] \in {"raised", "killed"})

\* A call of get_model_dependency_graph returns the graph.
NeverRaises == \A t \in Thread : pc[t] # "raised"
=============================================================================
