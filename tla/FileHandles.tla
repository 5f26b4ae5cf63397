------------------------------ MODULE FileHandles ------------------------------
(***************************************************************************)
(* Open files and who keeps them open: mounted filesystems, the handle     *)
(* tables of processes, files mapped into memory, and the two reference    *)
(* counts that decide when a file is closed and when a filesystem is       *)
(* deleted (fs/vfs.cpp, fs/filesystem.cpp, fs/handletable.h, the system    *)
(* calls on files, mmap, pipe, mount and unmount, ProcessManager::spawn    *)
(* and exit as far as they handle files).                                  *)
(*                                                                         *)
(* System calls, spawn and exit do not yield.  The two that run through    *)
(* lists, spawn and exit, take a step per element while `busy` keeps       *)
(* everybody else out.                                                     *)
(***************************************************************************)
EXTENDS Integers, FiniteSets, Sequences

CONSTANTS
    Process,        \* places for process_t
    First,          \* the process that is there at the start
    Object,         \* places in memory for files and directories
    Volume,         \* volumes, and the filesystem mounted from each
    PipeManager,    \* the filesystem of pipes, which is never mounted
    RootFilesystem, \* gVFSFilesystem, the same for the directory "/"
    Path,           \* mount points
    BootVolume, BootPath,
    NumFds,         \* handles of a process: 64
    NumTTY,         \* of them forwarded to the terminal: 3
    NumRegions,     \* bound: mapped files of a process
    MaxRefs,        \* bound on a reference count (saturates at UINT32_MAX)
    MaxFileops,     \* bound: file operations of a spawn
    MaxMounts,      \* bound: mounts at a time
    None

Filesystem == Volume \cup {PipeManager, RootFilesystem}
Fd == 0..(NumFds - 1)
Region == 1..NumRegions

\* The calls that take several steps.
LongCall == [call : {"spawn", "exit"}, process : Process, child : Process \cup {None},
             left : 0..MaxFileops]

ASSUME FileHandlesAssumption ==
    /\ IsFiniteSet(Process) /\ IsFiniteSet(Object)
    /\ First \in Process /\ BootVolume \in Volume /\ BootPath \in Path
    /\ NumFds \in Nat /\ NumTTY \in Nat /\ NumTTY <= NumFds
    /\ NumRegions \in Nat /\ MaxRefs \in Nat /\ MaxFileops \in Nat /\ MaxMounts \in Nat
    /\ None \notin Process \cup Object \cup Filesystem \cup LongCall
    /\ Process \cap Object = {}
    /\ PipeManager \notin Volume /\ RootFilesystem \notin Volume
    /\ PipeManager # RootFilesystem

VARIABLES
    status,         \* of a process: "free", "alive" or "zombie"
    fds,            \* process_t::fds: the handle behind each number
    regions,        \* the file behind each mapped region of a process
    refcount,       \* FilesystemObject::mRefcount
    home,           \* the filesystem of an open object, None when it is closed
    mounts,         \* VFS::mMounts
    fsRefs,         \* Filesystem::mRefcount, 0 when deleted
    openObjects,    \* Filesystem::mOpenObjcts
    busy,           \* the spawn or exit that is under way, or None
    corrupt,        \* a deleted object was used, or "VFS state corrupt"
    lost,           \* references that nobody holds any more (history)
    tainted         \* objects that got a reference nobody counted (history)

objectVars == <<refcount, home, openObjects, corrupt>>
mountVars == <<mounts, fsRefs>>
fileVars == <<status, fds, regions, objectVars, mountVars, busy, lost, tainted>>

\* A handle without a filesystem is one of a terminal: its object is the ttyfile
\* inside of a process_t.
NoHandle == [object |-> None, mapped |-> FALSE]
Terminal(p) == [object |-> p, mapped |-> FALSE]
Handle == [object : Object \cup Process, mapped : BOOLEAN] \cup {NoHandle}

\* filehandle_t::operator bool
IsFile(h) == h.object \in Object

NewTable(p) == [i \in Fd |-> IF i < NumTTY THEN Terminal(p) ELSE NoHandle]

FileInit ==
    /\ status = [p \in Process |-> IF p = First THEN "alive" ELSE "free"]
    /\ fds = [p \in Process |-> IF p = First THEN NewTable(p) ELSE [i \in Fd |-> NoHandle]]
    /\ regions = [p \in Process |-> [r \in Region |-> None]]
    /\ refcount = [o \in Object |-> 0]
    /\ home = [o \in Object |-> None]
    /\ mounts = <<[path |-> BootPath, fs |-> BootVolume]>>
    /\ fsRefs = [f \in Filesystem |-> IF f \in Volume \ {BootVolume} THEN 0 ELSE 1]
    /\ openObjects = [f \in Filesystem |-> 0]
    /\ busy = None
    /\ corrupt = FALSE
    /\ lost = [o \in Object |-> 0]
    /\ tainted = {}

Running(p) == busy = None /\ ~corrupt /\ status[p] = "alive"

\* Handletable::set: the first free number from idx0, going around.
FreeFrom(table, idx0) ==
    LET distance == {d \in Fd : table[(d + idx0) % NumFds] = NoHandle}
    IN {(d + idx0) % NumFds : d \in {d \in distance : \A e \in distance : d <= e}}

Set(p, i, h) == fds' = [fds EXCEPT ![p][i] = h]

(***************************************************************************)
(* Objects.                                                                *)
(***************************************************************************)
\* Filesystem::open and opendir, and pipe(): an object with one reference.
OpenObject(o, f) ==
    /\ home[o] = None
    /\ refcount' = [refcount EXCEPT ![o] = 1]
    /\ home' = [home EXCEPT ![o] = f]
    /\ openObjects' = [openObjects EXCEPT ![f] = @ + 1]
    /\ UNCHANGED corrupt

\* To use an object that was deleted is undefined; the model stops there.
UseDeleted(o) ==
    /\ home[o] = None
    /\ corrupt' = TRUE
    /\ UNCHANGED <<refcount, home, openObjects>>

\* FilesystemObject::incref
IncRef(o) ==
    \/ UseDeleted(o)
    \/ /\ home[o] # None
       /\ refcount[o] < MaxRefs
       /\ refcount' = [refcount EXCEPT ![o] = @ + 1]
       /\ UNCHANGED <<home, openObjects, corrupt>>

\* Filesystem::close: the last reference deletes the object.  The mutant deletes
\* an object with one reference left.
LastReferenceEarly(o) == refcount[o] <= 2
LastReference(o) == refcount[o] = 1

CloseObject(o) ==
    \/ UseDeleted(o)
    \/ /\ home[o] # None
       /\ ~LastReference(o)
       /\ refcount' = [refcount EXCEPT ![o] = @ - 1]
       /\ UNCHANGED <<home, openObjects, corrupt>>
    \/ /\ home[o] # None
       /\ LastReference(o)
       /\ refcount' = [refcount EXCEPT ![o] = 0]
       /\ home' = [home EXCEPT ![o] = None]
       /\ openObjects' = [openObjects EXCEPT ![home[o]] = @ - 1]
       /\ corrupt' = (openObjects[home[o]] = 0)

\* A reference is taken and then not stored (nothing is known of a tainted object).
Lose(o) == lost' = IF o \in tainted THEN lost ELSE [lost EXCEPT ![o] = @ + 1]

(***************************************************************************)
(* System calls on files.                                                  *)
(***************************************************************************)
\* VFS::getfs: the first mount of the path.
MountsOf(path) == {k \in DOMAIN mounts : mounts[k].path = path}
FirstMount(path) == {k \in MountsOf(path) : \A j \in MountsOf(path) : k <= j}

\* fopen and fopendir: without a free number the open object is forgotten.
OpenIn(p, o, f) ==
    /\ Running(p)
    /\ OpenObject(o, f)
    /\ \/ \E i \in FreeFrom(fds[p], 0) :
             /\ Set(p, i, [object |-> o, mapped |-> FALSE])
             /\ lost' = [lost EXCEPT ![o] = 0]
       \/ /\ FreeFrom(fds[p], 0) = {}
          /\ lost' = [lost EXCEPT ![o] = 1]
          /\ UNCHANGED fds
    /\ UNCHANGED <<status, regions, mountVars, busy, tainted>>

Open(p, path, o) == \E k \in FirstMount(path) : OpenIn(p, o, mounts[k].fs)

OpenRoot(p, o) == OpenIn(p, o, RootFilesystem)

\* fclose: a terminal stays.  The mutant forgets to clear the number.
ClearedNot(p, i) == fds
Cleared(p, i) == [fds EXCEPT ![p][i] = NoHandle]

Close(p, i) ==
    /\ Running(p)
    /\ IsFile(fds[p][i])
    /\ CloseObject(fds[p][i].object)
    /\ fds' = Cleared(p, i)
    /\ UNCHANGED <<status, regions, mountVars, busy, lost, tainted>>

\* fdup: the reference is taken before a number is found.  The references of a
\* ttyfile decide nothing and are left out.
Dup(p, i, min) ==
    /\ Running(p)
    /\ fds[p][i] # NoHandle
    /\ IF IsFile(fds[p][i]) THEN IncRef(fds[p][i].object) ELSE UNCHANGED objectVars
    /\ \/ \E j \in FreeFrom(fds[p], min) : Set(p, j, fds[p][i]) /\ UNCHANGED lost
       \/ /\ FreeFrom(fds[p], min) = {}
          /\ IF IsFile(fds[p][i]) THEN Lose(fds[p][i].object) ELSE UNCHANGED lost
          /\ UNCHANGED fds
    /\ UNCHANGED <<status, regions, mountVars, busy, tainted>>

\* mmap: one region per handle, and files only.  The mutant takes no reference
\* for the region.
RegionReferenceNone(o) == UNCHANGED objectVars
RegionReference(o) == IncRef(o)

Mmap(p, i) ==
    LET free == {r \in Region : regions[p][r] = None} IN
    /\ Running(p)
    /\ IsFile(fds[p][i]) /\ ~fds[p][i].mapped
    /\ home[fds[p][i].object] # RootFilesystem
    /\ \E r \in free :
          /\ \A s \in free : r <= s
          /\ regions' = [regions EXCEPT ![p][r] = fds[p][i].object]
    /\ RegionReference(fds[p][i].object)
    /\ Set(p, i, [fds[p][i] EXCEPT !.mapped = TRUE])
    /\ UNCHANGED <<status, mountVars, busy, lost, tainted>>

\* unmapregion: MemoryManager::removeRegion.
Unmap(p, r) ==
    /\ Running(p)
    /\ regions[p][r] # None
    /\ CloseObject(regions[p][r])
    /\ regions' = [regions EXCEPT ![p][r] = None]
    /\ UNCHANGED <<status, fds, mountVars, busy, lost, tainted>>

\* pipe(): both ends get a number, or both are closed again, in which case the
\* number the read end got keeps a handle of a closed file.
Pipe(p, read, write) ==
    /\ Running(p)
    /\ read # write /\ home[read] = None /\ home[write] = None
    /\ \E i \in FreeFrom(fds[p], 0) :
          LET table == [fds[p] EXCEPT ![i] = [object |-> read, mapped |-> FALSE]] IN
          \/ \E j \in FreeFrom(table, 0) :
                /\ fds' = [fds EXCEPT ![p] = [table EXCEPT
                               ![j] = [object |-> write, mapped |-> FALSE]]]
                /\ refcount' = [refcount EXCEPT ![read] = 1, ![write] = 1]
                /\ home' = [home EXCEPT ![read] = PipeManager, ![write] = PipeManager]
                /\ openObjects' = [openObjects EXCEPT ![PipeManager] = @ + 2]
                /\ lost' = [lost EXCEPT ![read] = 0, ![write] = 0]
                /\ UNCHANGED tainted
          \/ /\ FreeFrom(table, 0) = {}
             /\ fds' = [fds EXCEPT ![p] = table]
             /\ tainted' = tainted \cup {read}
             /\ UNCHANGED <<refcount, home, openObjects, lost>>
    /\ UNCHANGED <<status, regions, mountVars, busy, corrupt>>

(***************************************************************************)
(* Mounts.                                                                 *)
(***************************************************************************)
\* VFS::mount(Volume*): a volume that is mounted gets an alias.  The mutant takes
\* no reference for it.
AliasRefsNone(v) == fsRefs
AliasRefs(v) == [fsRefs EXCEPT ![v] = @ + 1]

Mount(p, v, path) ==
    /\ Running(p)
    /\ Len(mounts) < MaxMounts
    /\ mounts' = Append(mounts, [path |-> path, fs |-> v])
    /\ \/ \E k \in DOMAIN mounts : mounts[k].fs = v /\ fsRefs' = AliasRefs(v)
       \/ (\A k \in DOMAIN mounts : mounts[k].fs # v) /\ fsRefs' = [fsRefs EXCEPT ![v] = 1]
    /\ UNCHANGED <<status, fds, regions, objectVars, busy, lost, tainted>>

\* VFS::unmount: the last mount goes only when nothing is open.  The mutant does
\* not look.
UnmountableAlways(f) == TRUE
Unmountable(f) == fsRefs[f] > 1 \/ (fsRefs[f] = 1 /\ openObjects[f] = 0)

\* The list without its k-th mount.
Erased(list, k) == [j \in 1..(Len(list) - 1) |-> IF j < k THEN list[j] ELSE list[j + 1]]

Unmount(p, path) ==
    /\ Running(p)
    /\ \E k \in FirstMount(path) :
          /\ Unmountable(mounts[k].fs)
          /\ fsRefs' = [fsRefs EXCEPT ![mounts[k].fs] = @ - 1]
          /\ mounts' = Erased(mounts, k)
    /\ UNCHANGED <<status, fds, regions, objectVars, busy, lost, tainted>>

(***************************************************************************)
(* Processes.                                                              *)
(***************************************************************************)
Spawning(p, c, left) == [call |-> "spawn", process |-> p, child |-> c, left |-> left]
Exiting(p) == [call |-> "exit", process |-> p, child |-> None, left |-> 0]

\* spawn: the child gets a table with its terminal, and if it is a clone the
\* regions of its parent, whose files are not referenced once more
\* (MemoryManager::clone).
Spawn(p, c, clone) ==
    /\ Running(p)
    /\ status[c] = "free"
    /\ status' = [status EXCEPT ![c] = "alive"]
    /\ fds' = [fds EXCEPT ![c] = NewTable(c)]
    /\ regions' = [regions EXCEPT ![c] = IF clone THEN regions[p] ELSE [r \in Region |-> None]]
    /\ tainted' = IF clone THEN tainted \cup ({regions[p][r] : r \in Region} \ {None}) ELSE tainted
    /\ busy' = Spawning(p, c, MaxFileops)
    /\ UNCHANGED <<objectVars, mountVars, lost>>

InSpawn == busy # None /\ busy.call = "spawn" /\ ~corrupt
InExit == busy # None /\ busy.call = "exit" /\ ~corrupt
OneLess == [busy EXCEPT !.left = @ - 1]

\* execFileops: CLOSE_CHILD_FD closes files and clears terminals too.
CloseChildFd(i) ==
    /\ InSpawn /\ busy.left > 0
    /\ fds[busy.child][i] # NoHandle
    /\ IF IsFile(fds[busy.child][i]) THEN CloseObject(fds[busy.child][i].object)
                                     ELSE UNCHANGED objectVars
    /\ fds' = Cleared(busy.child, i)
    /\ busy' = OneLess
    /\ UNCHANGED <<status, regions, mountVars, lost, tainted>>

\* execFileops: DUP_PARENT_FD takes the reference first, like fdup.
DupParentFd(i) ==
    LET h == fds[busy.process][i] IN
    /\ InSpawn /\ busy.left > 0
    /\ h # NoHandle
    /\ IF IsFile(h) THEN IncRef(h.object) ELSE UNCHANGED objectVars
    /\ \/ \E j \in FreeFrom(fds[busy.child], 0) : Set(busy.child, j, h) /\ UNCHANGED lost
       \/ /\ FreeFrom(fds[busy.child], 0) = {}
          /\ IF IsFile(h) THEN Lose(h.object) ELSE UNCHANGED lost
          /\ UNCHANGED fds
    /\ busy' = OneLess
    /\ UNCHANGED <<status, regions, mountVars, tainted>>

EndOfList ==
    /\ InSpawn
    /\ busy' = None
    /\ UNCHANGED <<status, fds, regions, objectVars, mountVars, lost, tainted>>

\* exit: the regions are removed first, then the handles are closed.
Exit(p) ==
    /\ Running(p)
    /\ p # First
    /\ busy' = Exiting(p)
    /\ UNCHANGED <<status, fds, regions, objectVars, mountVars, lost, tainted>>

CleanupRegion(r) ==
    /\ InExit
    /\ regions[busy.process][r] # None
    /\ \A s \in Region : s < r => regions[busy.process][s] = None
    /\ CloseObject(regions[busy.process][r])
    /\ regions' = [regions EXCEPT ![busy.process][r] = None]
    /\ UNCHANGED <<status, fds, mountVars, busy, lost, tainted>>

\* The table itself is not cleared, but nobody looks at it any more.
CloseAtExit(i) ==
    /\ InExit
    /\ \A r \in Region : regions[busy.process][r] = None
    /\ fds[busy.process][i] # NoHandle
    /\ \A j \in Fd : j < i => fds[busy.process][j] = NoHandle
    /\ IF IsFile(fds[busy.process][i]) THEN CloseObject(fds[busy.process][i].object)
                                       ELSE UNCHANGED objectVars
    /\ fds' = [fds EXCEPT ![busy.process][i] = NoHandle]
    /\ UNCHANGED <<status, regions, mountVars, busy, lost, tainted>>

\* The files are done with when the table is empty.  The mutant leaves the
\* regions out.
NothingHeldButRegions(p) == \A i \in Fd : fds[p][i] = NoHandle
NothingHeld(p) ==
    /\ \A r \in Region : regions[p][r] = None
    /\ \A i \in Fd : fds[p][i] = NoHandle

Exited ==
    /\ InExit
    /\ NothingHeld(busy.process)
    /\ status' = [status EXCEPT ![busy.process] = "zombie"]
    /\ busy' = None
    /\ UNCHANGED <<fds, regions, objectVars, mountVars, lost, tainted>>

\* Collected and deleted, its ttyfile with it.
Delete(p) ==
    /\ busy = None /\ ~corrupt
    /\ status[p] = "zombie"
    /\ status' = [status EXCEPT ![p] = "free"]
    /\ UNCHANGED <<fds, regions, objectVars, mountVars, busy, lost, tainted>>

FileNext ==
    \/ \E p \in Process :
          \/ \E o \in Object : OpenRoot(p, o) \/ \E path \in Path : Open(p, path, o)
          \/ \E i \in Fd : Close(p, i) \/ Mmap(p, i) \/ \E min \in Fd : Dup(p, i, min)
          \/ \E r \in Region : Unmap(p, r)
          \/ \E o1, o2 \in Object : Pipe(p, o1, o2)
          \/ \E path \in Path : Unmount(p, path) \/ \E v \in Volume : Mount(p, v, path)
          \/ \E c \in Process, clone \in BOOLEAN : Spawn(p, c, clone)
          \/ Exit(p) \/ Delete(p)
    \/ \E i \in Fd : CloseChildFd(i) \/ DupParentFd(i) \/ CloseAtExit(i)
    \/ \E r \in Region : CleanupRegion(r)
    \/ EndOfList \/ Exited

FileSpec == FileInit /\ [][FileNext]_fileVars

(***************************************************************************)
(* Properties.                                                             *)
(***************************************************************************)
\* The handles and the regions that hold a reference of an object.
HandlesOf(o) == {h \in Process \X Fd : fds[h[1]][h[2]].object = o}
RegionsOf(o) == {h \in Process \X Region : regions[h[1]][h[2]] = o}

\* Open, dup, mmap, inheritance, close, unmapping and exit keep the reference
\* count of a file equal to the handles and regions that use it and the
\* references that failed calls lost, and the file is open exactly while that is
\* not zero, so that no handle of a living process dangles; and the kernel never
\* closes a file twice.  Both unless a clone of a process with mapped files, or a
\* pipe() that found one free number, gave out a reference for nothing.
ReferencesCounted ==
    /\ corrupt => tainted # {}
    /\ ~corrupt =>
        \A o \in Object \ tainted :
            /\ refcount[o] = Cardinality(HandlesOf(o)) + Cardinality(RegionsOf(o)) + lost[o]
            /\ home[o] = None <=> refcount[o] = 0

\* A filesystem has one reference per mount and knows how many objects are open
\* in it, so that it is never deleted under an open file, however mounts, aliases
\* and unmounts interleave with opens and closes.
FilesystemsCounted ==
    ~corrupt =>
        /\ \A v \in Volume : fsRefs[v] = Cardinality({k \in DOMAIN mounts : mounts[k].fs = v})
        /\ \A f \in Filesystem : openObjects[f] = Cardinality({o \in Object : home[o] = f})
        /\ \A o \in Object : home[o] # None => fsRefs[home[o]] > 0

\* "the memory map will keep the underlying handle alive" (memmgr.cpp, mmap): the
\* file behind a mapped region of a living process is open.
MappingKeepsFile ==
    ~corrupt => \A p \in Process, r \in Region :
        status[p] = "alive" /\ regions[p][r] # None => home[regions[p][r]] # None
================================================================================
