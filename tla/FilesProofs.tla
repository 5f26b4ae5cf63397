------------------------------ MODULE FilesProofs ------------------------------
(***************************************************************************)
(* Proofs about open files, for any finite number of processes and files,  *)
(* and any sets of volumes, paths, handle numbers and regions: the count   *)
(* of a file is the number of handles and mapped regions that use it and   *)
(* of the references failed calls lost; a filesystem knows its mounts and  *)
(* its open files.                                                         *)
(*                                                                         *)
(* Neither is inductive alone: a close finds the file open only because    *)
(* the counts are right, an unmount leaves a filesystem under its open     *)
(* files only because openObjects counts them, and spawn and exit keep the *)
(* counts because processes that are not alive hold nothing.               *)
(***************************************************************************)
EXTENDS FileHandles, FiniteSetTheorems, TLAPS

(***************************************************************************)
(* Open files.                                                             *)
(***************************************************************************)
In(x, S) == IF x \in S THEN 1 ELSE 0
Same(x, y) == IF x = y THEN 1 ELSE 0

\* Two sets that agree but for one element.
LEMMA OneDiffers ==
  ASSUME NEW S, NEW T, NEW x, IsFiniteSet(S), S \ {x} = T \ {x}
  PROVE  /\ IsFiniteSet(T)
         /\ Cardinality(S) \in Nat /\ Cardinality(T) \in Nat
         /\ Cardinality(T) = Cardinality(S) - In(x, S) + In(x, T)
  <1> DEFINE R == S \ {x}
  <1>1. /\ IsFiniteSet(R) /\ Cardinality(S) \in Nat /\ Cardinality(R) \in Nat
        /\ Cardinality(R) = Cardinality(S) - In(x, S)
    <2>1. IsFiniteSet(R) /\ Cardinality(R) = IF x \in S THEN Cardinality(S) - 1 ELSE Cardinality(S)
      BY FS_RemoveElement, Zenon
    <2>2. Cardinality(S) \in Nat /\ Cardinality(R) \in Nat
      BY <2>1, FS_CardinalityType, Zenon
    <2> HIDE DEF R
    <2>3. QED BY <2>1, <2>2 DEF In, Same
  <1>2. T = R \cup {x} \/ T = R
    BY Zenon
  <1>3. x \notin R
    BY Zenon
  <1> HIDE DEF R
  <1>4. CASE x \in T
    <2>1. T = R \cup {x}
      BY <1>2, <1>3, <1>4, Zenon
    <2>2. IsFiniteSet(T) /\ Cardinality(T) = Cardinality(R) + 1
      BY <1>1, <1>3, <2>1, FS_AddElement, Zenon
    <2>3. In(x, T) = 1
      BY <1>4, Zenon DEF In, Same
    <2>4. QED BY <1>1, <2>2, <2>3 DEF In, Same
  <1>5. CASE x \notin T
    <2>1. T = R
      BY <1>2, <1>5, Zenon
    <2>2. In(x, T) = 0
      BY <1>5, Zenon DEF In, Same
    <2>3. QED BY <1>1, <2>1, <2>2 DEF In, Same
  <1>6. QED BY <1>4, <1>5, Zenon

\* The numbers in tables F, and the regions in G, that hold o.
HandlesIn(F, o) == {h \in Process \X Fd : F[h[1]][h[2]].object = o}
RegionsIn(G, o) == {h \in Process \X Region : G[h[1]][h[2]] = o}

LEMMA PlacesFinite ==
  ASSUME NEW F, NEW o
  PROVE  /\ IsFiniteSet(HandlesIn(F, o)) /\ IsFiniteSet(RegionsIn(F, o))
         /\ Cardinality(HandlesIn(F, o)) \in Nat /\ Cardinality(RegionsIn(F, o)) \in Nat
  <1>1. IsFiniteSet(Fd) /\ IsFiniteSet(Region)
    BY FileHandlesAssumption, FS_Interval DEF Fd, Region
  <1>2. IsFiniteSet(Process \X Fd) /\ IsFiniteSet(Process \X Region)
    BY <1>1, FileHandlesAssumption, FS_Product, Zenon
  <1>3. IsFiniteSet(HandlesIn(F, o)) /\ IsFiniteSet(RegionsIn(F, o))
    BY <1>2, FS_Subset, Zenon DEF HandlesIn, RegionsIn
  <1>4. QED BY <1>3, FS_CardinalityType, Zenon

\* The tables G are those of F but for one number, or one region.
HandleSet(F, p, i, h, G) ==
    \A q \in Process, j \in Fd : G[q][j] = IF q = p /\ j = i THEN h ELSE F[q][j]
RegionSet(F, p, i, h, G) ==
    \A q \in Process, j \in Region : G[q][j] = IF q = p /\ j = i THEN h ELSE F[q][j]

\* A number of a table gets another handle.
LEMMA HandlesMove ==
  ASSUME NEW F, NEW p \in Process, NEW i \in Fd, NEW h, NEW o, NEW G,
         HandleSet(F, p, i, h, G)
  PROVE  Cardinality(HandlesIn(G, o))
           = Cardinality(HandlesIn(F, o)) - Same(F[p][i].object, o) + Same(h.object, o)
  <1>1. \A q \in Process, j \in Fd : G[q][j] = IF q = p /\ j = i THEN h ELSE F[q][j]
    BY Zenon DEF HandleSet
  <1>2. /\ <<p, i>> \in HandlesIn(F, o) <=> F[p][i].object = o
        /\ <<p, i>> \in HandlesIn(G, o) <=> h.object = o
    BY <1>1, Zenon DEF HandlesIn
  <1>3. HandlesIn(F, o) \ {<<p, i>>} = HandlesIn(G, o) \ {<<p, i>>}
    <2>1. ASSUME NEW x \in Process \X Fd, x # <<p, i>>
          PROVE  G[x[1]][x[2]] = F[x[1]][x[2]]
      <3>1. x[1] \in Process /\ x[2] \in Fd /\ ~(x[1] = p /\ x[2] = i)
        BY <2>1
      <3>2. QED BY <1>1, <3>1, Zenon
    <2>2. QED BY <2>1, Zenon DEF HandlesIn
  <1>4. Cardinality(HandlesIn(G, o)) = Cardinality(HandlesIn(F, o))
           - In(<<p, i>>, HandlesIn(F, o)) + In(<<p, i>>, HandlesIn(G, o))
    BY <1>3, PlacesFinite, OneDiffers, Zenon
  <1>5. QED BY <1>2, <1>4, Zenon DEF In, Same

\* A region gets another file.
LEMMA RegionsMove ==
  ASSUME NEW F, NEW p \in Process, NEW i \in Region, NEW h, NEW o, NEW G,
         RegionSet(F, p, i, h, G)
  PROVE  Cardinality(RegionsIn(G, o))
           = Cardinality(RegionsIn(F, o)) - Same(F[p][i], o) + Same(h, o)
  <1>1. \A q \in Process, j \in Region : G[q][j] = IF q = p /\ j = i THEN h ELSE F[q][j]
    BY Zenon DEF RegionSet
  <1>2. /\ <<p, i>> \in RegionsIn(F, o) <=> F[p][i] = o
        /\ <<p, i>> \in RegionsIn(G, o) <=> h = o
    BY <1>1, Zenon DEF RegionsIn
  <1>3. RegionsIn(F, o) \ {<<p, i>>} = RegionsIn(G, o) \ {<<p, i>>}
    <2>1. ASSUME NEW x \in Process \X Region, x # <<p, i>>
          PROVE  G[x[1]][x[2]] = F[x[1]][x[2]]
      <3>1. x[1] \in Process /\ x[2] \in Region /\ ~(x[1] = p /\ x[2] = i)
        BY <2>1
      <3>2. QED BY <1>1, <3>1, Zenon
    <2>2. QED BY <2>1, Zenon DEF RegionsIn
  <1>4. Cardinality(RegionsIn(G, o)) = Cardinality(RegionsIn(F, o))
           - In(<<p, i>>, RegionsIn(F, o)) + In(<<p, i>>, RegionsIn(G, o))
    BY <1>3, PlacesFinite, OneDiffers, Zenon
  <1>5. QED BY <1>2, <1>4, Zenon DEF In, Same

\* The objects that are open in f when H says where each one is.
OpenedIn(H, f) == {o \in Object : H[o] = f}

\* What the kernel knows of open objects.
ObjectInv ==
    /\ refcount \in [Object -> Nat]
    /\ home \in [Object -> Filesystem \cup {None}]
    /\ openObjects \in [Filesystem -> Nat]
    /\ corrupt \in BOOLEAN
    /\ \A o \in Object : home[o] = None <=> refcount[o] = 0
    /\ \A f \in Filesystem : openObjects[f] = Cardinality(OpenedIn(home, f))
    /\ \A o \in Object : home[o] # None => fsRefs[home[o]] > 0

\* G is H but for the place of one object.
Moved(H, o, g, G) == \A x \in Object : G[x] = IF x = o THEN g ELSE H[x]

\* One object moves to another filesystem, or is opened or closed.
LEMMA HomesMove ==
  ASSUME NEW H, NEW o \in Object, NEW g, NEW f, NEW G, Moved(H, o, g, G)
  PROVE  /\ Cardinality(OpenedIn(G, f))
              = Cardinality(OpenedIn(H, f)) - Same(H[o], f) + Same(g, f)
         /\ Cardinality(OpenedIn(H, f)) \in Nat
         /\ H[o] = f => Cardinality(OpenedIn(H, f)) > 0
  <1> DEFINE S == OpenedIn(H, f)
             T == OpenedIn(G, f)
  <1>1. \A x \in Object : G[x] = IF x = o THEN g ELSE H[x]
    BY Zenon DEF Moved
  <1>2. (o \in S <=> H[o] = f) /\ (o \in T <=> g = f)
    BY <1>1, Zenon DEF OpenedIn
  <1>3. S \ {o} = T \ {o}
    BY <1>1, Zenon DEF OpenedIn
  <1>4. IsFiniteSet(S)
    BY FileHandlesAssumption, FS_Subset, Zenon DEF OpenedIn
  <1> HIDE DEF S, T
  <1>5. Cardinality(S) \in Nat /\ Cardinality(T) = Cardinality(S) - In(o, S) + In(o, T)
    BY <1>3, <1>4, OneDiffers, Zenon
  <1>6. o \in S => Cardinality(S) > 0
    BY <1>4, <1>5, FS_EmptySet
  <1>7. In(o, S) = Same(H[o], f) /\ In(o, T) = Same(g, f)
    BY <1>2, Zenon DEF In, Same
  <1>8. QED BY <1>2, <1>5, <1>6, <1>7, Zenon DEF S, T

\* Filesystem::open: one more object, in a filesystem that is there.
LEMMA OpenObjectKeeps ==
  ASSUME ObjectInv, NEW o \in Object, NEW f \in Filesystem, fsRefs[f] > 0,
         OpenObject(o, f), UNCHANGED mountVars
  PROVE  ObjectInv'
  <1>1. /\ home[o] = None /\ f # None
        /\ refcount' = [refcount EXCEPT ![o] = 1] /\ home' = [home EXCEPT ![o] = f]
        /\ openObjects' = [openObjects EXCEPT ![f] = @ + 1]
        /\ UNCHANGED <<corrupt, fsRefs>>
    BY FileHandlesAssumption, Zenon DEF OpenObject, mountVars
  <1>2. /\ refcount' \in [Object -> Nat] /\ home' \in [Object -> Filesystem \cup {None}]
        /\ openObjects' \in [Filesystem -> Nat]
    BY <1>1 DEF ObjectInv
  <1>3. \A x \in Object : home'[x] = None <=> refcount'[x] = 0
    BY <1>1 DEF ObjectInv
  <1>4. \A x \in Object : home'[x] # None => fsRefs'[home'[x]] > 0
    BY <1>1, Zenon DEF ObjectInv
  <1>5. ASSUME NEW g \in Filesystem
        PROVE  openObjects'[g] = Cardinality(OpenedIn(home', g))
    <2>1. g # None
      BY FileHandlesAssumption, Zenon
    <2>2. /\ Cardinality(OpenedIn(home', g))
               = Cardinality(OpenedIn(home, g)) - Same(home[o], g) + Same(f, g)
          /\ Cardinality(OpenedIn(home, g)) \in Nat
      <3>1. Moved(home, o, f, home')
        BY <1>1, Zenon DEF ObjectInv, Moved
      <3>2. QED BY <3>1, HomesMove
    <2>3. openObjects[g] = Cardinality(OpenedIn(home, g)) /\ openObjects[g] \in Nat
      BY Zenon DEF ObjectInv
    <2>4. Same(home[o], g) = 0
      BY <1>1, <2>1, Zenon DEF In, Same
    <2>5. openObjects'[g] = openObjects[g] + Same(f, g)
      <3>1. openObjects'[g] = IF f = g THEN openObjects[g] + 1 ELSE openObjects[g]
        BY <1>1, Zenon DEF ObjectInv
      <3>2. QED BY <2>3, <3>1 DEF In, Same
    <2>6. Same(f, g) \in Nat
      BY Zenon DEF In, Same
    <2>7. QED BY <2>2, <2>3, <2>4, <2>5, <2>6
  <1>6. QED BY <1>1, <1>2, <1>3, <1>4, <1>5, Zenon DEF ObjectInv

\* Filesystem::close takes a reference from an object that is open, and closes it
\* with the last; VFS state is never found corrupt.
LEMMA CloseObjectKeeps ==
  ASSUME ObjectInv, ~corrupt, NEW o \in Object, CloseObject(o), UNCHANGED mountVars
  PROVE  /\ ObjectInv'
         /\ corrupt' => home[o] = None
         /\ ~corrupt' => home[o] # None /\ refcount' = [refcount EXCEPT ![o] = @ - 1]
                         /\ refcount[o] > 0
  <1>1. UNCHANGED fsRefs
    BY Zenon DEF mountVars
  <1>2. CASE UseDeleted(o)
    BY <1>1, <1>2, Zenon DEF UseDeleted, ObjectInv
  <1>3. CASE /\ home[o] # None /\ ~LastReference(o)
             /\ refcount' = [refcount EXCEPT ![o] = @ - 1]
             /\ UNCHANGED <<home, openObjects, corrupt>>
    <2>1. refcount[o] \in Nat /\ refcount[o] > 1
      BY <1>3 DEF LastReference, ObjectInv
    <2>2. refcount' \in [Object -> Nat] /\ refcount'[o] > 0 /\ \A x \in Object \ {o} : refcount'[x] = refcount[x]
      BY <1>3, <2>1 DEF ObjectInv
    <2>3. \A x \in Object : home[x] = None <=> refcount'[x] = 0
      BY <1>3, <2>2 DEF ObjectInv
    <2>4. QED BY <1>1, <1>3, <2>1, <2>2, <2>3 DEF ObjectInv
  <1>4. CASE /\ home[o] # None /\ LastReference(o)
             /\ refcount' = [refcount EXCEPT ![o] = 0]
             /\ home' = [home EXCEPT ![o] = None]
             /\ openObjects' = [openObjects EXCEPT ![home[o]] = @ - 1]
             /\ corrupt' = (openObjects[home[o]] = 0)
    <2>1. home[o] \in Filesystem /\ refcount[o] = 1 /\ None \notin Filesystem
      BY <1>4, FileHandlesAssumption, Zenon DEF ObjectInv, LastReference
    <2>2. ASSUME NEW g \in Filesystem
          PROVE  /\ Cardinality(OpenedIn(home', g)) = openObjects[g] - Same(home[o], g)
                 /\ home[o] = g => openObjects[g] > 0
                 /\ openObjects[g] \in Nat
      <3>1. /\ Cardinality(OpenedIn(home', g))
                 = Cardinality(OpenedIn(home, g)) - Same(home[o], g) + Same(None, g)
            /\ Cardinality(OpenedIn(home, g)) \in Nat
            /\ home[o] = g => Cardinality(OpenedIn(home, g)) > 0
        <4>1. Moved(home, o, None, home')
          BY <1>4, Zenon DEF ObjectInv, Moved
        <4>2. QED BY <4>1, HomesMove, Zenon
      <3>2. openObjects[g] = Cardinality(OpenedIn(home, g))
        BY Zenon DEF ObjectInv
      <3>3. Same(None, g) = 0 /\ Same(home[o], g) \in Nat
        BY <2>1, Zenon DEF In, Same
      <3>4. QED BY <3>1, <3>2, <3>3
    <2>3. openObjects[home[o]] > 0 /\ openObjects[home[o]] \in Nat
      BY <2>1, <2>2, Zenon
    <2>4. ~corrupt' /\ corrupt' \in BOOLEAN
      <3>1. ~(openObjects[home[o]] = 0)
        BY <2>3
      <3>2. QED BY <1>4, <3>1, Zenon
    <2>5. /\ refcount' \in [Object -> Nat] /\ home' \in [Object -> Filesystem \cup {None}]
          /\ openObjects' \in [Filesystem -> Nat]
      BY <1>4, <2>1, <2>3 DEF ObjectInv
    <2>6. \A x \in Object : home'[x] = None <=> refcount'[x] = 0
      BY <1>4, Zenon DEF ObjectInv
    <2>7. \A x \in Object : home'[x] # None => fsRefs'[home'[x]] > 0
      BY <1>1, <1>4, Zenon DEF ObjectInv
    <2>8. ASSUME NEW g \in Filesystem
          PROVE  openObjects'[g] = Cardinality(OpenedIn(home', g))
      <3>1. openObjects'[g] = openObjects[g] - Same(home[o], g)
        BY <1>4, <2>1, <2>2 DEF ObjectInv, In, Same
      <3>2. QED BY <2>2, <3>1, Zenon
    <2>9. refcount' = [refcount EXCEPT ![o] = @ - 1]
      BY <1>4, <2>1
    <2>10. ObjectInv'
      BY <2>4, <2>5, <2>6, <2>7, <2>8, Zenon DEF ObjectInv
    <2>11. QED BY <2>1, <2>4, <2>9, <2>10
  <1>5. QED BY <1>2, <1>3, <1>4, Zenon DEF CloseObject

\* FilesystemObject::incref adds a reference to an object that is open.
LEMMA IncRefKeeps ==
  ASSUME ObjectInv, ~corrupt, NEW o \in Object, IncRef(o), UNCHANGED mountVars
  PROVE  /\ ObjectInv'
         /\ corrupt' => home[o] = None
         /\ ~corrupt' => home[o] # None /\ refcount' = [refcount EXCEPT ![o] = @ + 1]
  <1>1. UNCHANGED fsRefs
    BY Zenon DEF mountVars
  <1>2. CASE UseDeleted(o)
    BY <1>1, <1>2, Zenon DEF UseDeleted, ObjectInv
  <1>3. CASE home[o] # None /\ refcount' = [refcount EXCEPT ![o] = @ + 1]
             /\ UNCHANGED <<home, openObjects, corrupt>>
    <2>1. refcount' \in [Object -> Nat] /\ refcount'[o] > 0 /\ \A x \in Object \ {o} : refcount'[x] = refcount[x]
      BY <1>3 DEF ObjectInv
    <2>2. \A x \in Object : home[x] = None <=> refcount'[x] = 0
      BY <1>3, <2>1 DEF ObjectInv
    <2>3. QED BY <1>1, <1>3, <2>1, <2>2, Zenon DEF ObjectInv
  <1>4. QED BY <1>2, <1>3, Zenon DEF IncRef

\* What the tables of processes hold.
TableInv ==
    /\ fds \in [Process -> [Fd -> Handle]]
    /\ regions \in [Process -> [Region -> Object \cup {None}]]
    /\ lost \in [Object -> Nat] /\ tainted \subseteq Object

\* The first half of ReferencesCounted.
CountInv ==
    /\ corrupt => tainted # {}
    /\ ~corrupt => \A o \in Object \ tainted :
          refcount[o] = Cardinality(HandlesIn(fds, o)) + Cardinality(RegionsIn(regions, o)) + lost[o]

\* A file with a handle or a region is open.
LEMMA HeldIsOpen ==
  ASSUME ObjectInv, TableInv, CountInv, ~corrupt, NEW o \in Object \ tainted,
         HandlesIn(fds, o) # {} \/ RegionsIn(regions, o) # {}
  PROVE  home[o] # None
  <1>1. /\ Cardinality(HandlesIn(fds, o)) \in Nat /\ IsFiniteSet(HandlesIn(fds, o))
        /\ Cardinality(RegionsIn(regions, o)) \in Nat /\ IsFiniteSet(RegionsIn(regions, o))
    BY PlacesFinite, Zenon
  <1>2. Cardinality(HandlesIn(fds, o)) > 0 \/ Cardinality(RegionsIn(regions, o)) > 0
    BY <1>1, FS_EmptySet
  <1>3. refcount[o] = Cardinality(HandlesIn(fds, o)) + Cardinality(RegionsIn(regions, o)) + lost[o]
    BY Zenon DEF CountInv
  <1>4. lost[o] \in Nat
    BY Zenon DEF TableInv
  <1>5. refcount[o] # 0
    <2>1. \A a, b, c \in Nat : a > 0 \/ b > 0 => a + b + c # 0
      OBVIOUS
    <2>2. QED BY <1>1, <1>2, <1>3, <1>4, <2>1, Zenon
  <1>6. QED BY <1>5, Zenon DEF ObjectInv

\* A handle is closed and its number cleared.
CloseFrame(q, i) ==
    /\ IF IsFile(fds[q][i]) THEN CloseObject(fds[q][i].object) ELSE UNCHANGED objectVars
    /\ fds' = [fds EXCEPT ![q][i] = NoHandle]
    /\ UNCHANGED <<regions, mountVars, lost, tainted>>

\* NoHandle is no object, and every handle without one belongs to no object.
LEMMA HandleObjects ==
  /\ NoHandle \in Handle /\ NoHandle.object \notin Object
  /\ \A h \in Handle : ~IsFile(h) => h.object \notin Object
  /\ \A h \in Handle : IsFile(h) => h.object \in Object
  BY FileHandlesAssumption, Zenon DEF NoHandle, Handle, IsFile

\* Closing a handle takes away the reference it held (fclose, exit, CLOSE_CHILD_FD).
LEMMA CloseFrameKeeps ==
  ASSUME ObjectInv, TableInv, CountInv, ~corrupt, NEW q \in Process, NEW i \in Fd,
         CloseFrame(q, i)
  PROVE  ObjectInv' /\ TableInv' /\ CountInv'
  <1> DEFINE h == fds[q][i]
  <1>1. h \in Handle /\ UNCHANGED <<regions, lost, tainted>> /\ UNCHANGED mountVars
    BY Zenon DEF TableInv, CloseFrame
  <1>2. fds' \in [Process -> [Fd -> Handle]] /\ HandleSet(fds, q, i, NoHandle, fds')
    BY HandleObjects, Zenon DEF TableInv, CloseFrame, HandleSet
  <1>3. TableInv'
    BY <1>1, <1>2, Zenon DEF TableInv
  <1>4. ASSUME NEW o \in Object
        PROVE  /\ Cardinality(HandlesIn(fds', o)) = Cardinality(HandlesIn(fds, o)) - Same(h.object, o)
               /\ Cardinality(HandlesIn(fds, o)) \in Nat /\ Cardinality(RegionsIn(regions, o)) \in Nat
               /\ lost[o] \in Nat
    <2>1. Cardinality(HandlesIn(fds', o))
            = Cardinality(HandlesIn(fds, o)) - Same(h.object, o) + Same(NoHandle.object, o)
      BY <1>2, HandlesMove
    <2>2. Same(NoHandle.object, o) = 0 /\ Same(h.object, o) \in Nat
      BY HandleObjects, Zenon DEF Same
    <2>3. Cardinality(HandlesIn(fds, o)) \in Nat /\ Cardinality(RegionsIn(regions, o)) \in Nat
      BY PlacesFinite, Zenon
    <2>4. lost[o] \in Nat
      BY Zenon DEF TableInv
    <2>5. QED BY <2>1, <2>2, <2>3, <2>4
  <1>5. CASE ~IsFile(h)
    <2>1. UNCHANGED <<refcount, home, openObjects, corrupt, fsRefs>>
      BY <1>1, <1>5, Zenon DEF CloseFrame, objectVars, mountVars
    <2>2. ObjectInv'
      BY <2>1, Zenon DEF ObjectInv
    <2>3. ASSUME NEW o \in Object PROVE Cardinality(HandlesIn(fds', o)) = Cardinality(HandlesIn(fds, o))
      <3>1. Same(h.object, o) = 0
        BY <1>1, <1>5, HandleObjects, Zenon DEF Same
      <3>2. QED BY <1>4, <3>1
    <2>4. CountInv'
      BY <1>1, <2>1, <2>3, Zenon DEF CountInv
    <2>5. QED BY <1>3, <2>2, <2>4, Zenon
  <1>6. CASE IsFile(h)
    <2>1. h.object \in Object /\ CloseObject(h.object)
      BY <1>1, <1>6, HandleObjects, Zenon DEF CloseFrame
    <2>2. /\ ObjectInv'
          /\ corrupt' => home[h.object] = None
          /\ ~corrupt' => refcount' = [refcount EXCEPT ![h.object] = @ - 1]
      BY <1>1, <2>1, CloseObjectKeeps, Zenon
    <2>3. ASSUME corrupt' PROVE tainted' # {}
      <3>1. home[h.object] = None
        BY <2>2, <2>3, Zenon
      <3>2. <<q, i>> \in HandlesIn(fds, h.object)
        BY Zenon DEF HandlesIn
      <3>3. h.object \in tainted
        BY <2>1, <3>1, <3>2, HeldIsOpen, Zenon
      <3>4. QED BY <1>1, <3>3, Zenon
    <2>4. ASSUME ~corrupt', NEW o \in Object \ tainted'
          PROVE  refcount'[o] = Cardinality(HandlesIn(fds', o)) + Cardinality(RegionsIn(regions', o)) + lost'[o]
      <3>1. o \in Object \ tainted
        BY <1>1, Zenon
      <3>2. refcount[o] = Cardinality(HandlesIn(fds, o)) + Cardinality(RegionsIn(regions, o)) + lost[o]
        BY <3>1, Zenon DEF CountInv
      <3>3. refcount'[o] = refcount[o] - Same(h.object, o)
        BY <2>1, <2>2, <2>4 DEF ObjectInv, Same
      <3>4. Same(h.object, o) \in Nat
        BY Zenon DEF Same
      <3>5. QED BY <1>1, <1>4, <3>2, <3>3, <3>4
    <2>5. CountInv'
      BY <2>3, <2>4, Zenon DEF CountInv
    <2>6. QED BY <1>3, <2>2, <2>5, Zenon
  <1>7. QED BY <1>5, <1>6, Zenon

\* A file is unmapped and its region removed.
UnmapFrame(q, r) ==
    /\ CloseObject(regions[q][r])
    /\ regions' = [regions EXCEPT ![q][r] = None]
    /\ UNCHANGED <<fds, mountVars, lost, tainted>>

\* Removing a region takes away the reference it held (MemoryManager::removeRegion).
LEMMA UnmapFrameKeeps ==
  ASSUME ObjectInv, TableInv, CountInv, ~corrupt, NEW q \in Process, NEW r \in Region,
         regions[q][r] # None, UnmapFrame(q, r)
  PROVE  ObjectInv' /\ TableInv' /\ CountInv'
  <1> DEFINE f == regions[q][r]
  <1>1. f \in Object /\ None \notin Object /\ UNCHANGED <<fds, lost, tainted>> /\ UNCHANGED mountVars
    BY FileHandlesAssumption DEF TableInv, UnmapFrame
  <1>2. regions' \in [Process -> [Region -> Object \cup {None}]] /\ RegionSet(regions, q, r, None, regions')
    BY Zenon DEF TableInv, UnmapFrame, RegionSet
  <1>3. TableInv'
    BY <1>1, <1>2, Zenon DEF TableInv
  <1>4. /\ ObjectInv'
        /\ corrupt' => home[f] = None
        /\ ~corrupt' => refcount' = [refcount EXCEPT ![f] = @ - 1]
    BY <1>1, CloseObjectKeeps, Zenon DEF UnmapFrame
  <1>5. ASSUME corrupt' PROVE tainted' # {}
    <2>1. home[f] = None
      BY <1>4, <1>5, Zenon
    <2>2. <<q, r>> \in RegionsIn(regions, f)
      BY Zenon DEF RegionsIn
    <2>3. f \in tainted
      BY <1>1, <2>1, <2>2, HeldIsOpen, Zenon
    <2>4. QED BY <1>1, <2>3, Zenon
  <1>6. ASSUME ~corrupt', NEW o \in Object \ tainted'
        PROVE  refcount'[o] = Cardinality(HandlesIn(fds', o)) + Cardinality(RegionsIn(regions', o)) + lost'[o]
    <2>1. o \in Object \ tainted
      BY <1>1, Zenon
    <2>2. refcount[o] = Cardinality(HandlesIn(fds, o)) + Cardinality(RegionsIn(regions, o)) + lost[o]
      BY <2>1, Zenon DEF CountInv
    <2>3. refcount'[o] = refcount[o] - Same(f, o)
      BY <1>1, <1>4, <1>6 DEF ObjectInv, Same
    <2>4. Cardinality(RegionsIn(regions', o)) = Cardinality(RegionsIn(regions, o)) - Same(f, o) + Same(None, o)
      BY <1>2, RegionsMove
    <2>5. Same(f, o) \in Nat /\ Same(None, o) = 0
      BY <1>1, <2>1, Zenon DEF Same
    <2>6. /\ Cardinality(HandlesIn(fds, o)) \in Nat /\ Cardinality(RegionsIn(regions, o)) \in Nat
          /\ lost[o] \in Nat
      BY PlacesFinite, Zenon DEF TableInv
    <2>7. QED BY <1>1, <2>2, <2>3, <2>4, <2>5, <2>6
  <1>7. CountInv'
    BY <1>5, <1>6, Zenon DEF CountInv
  <1>8. QED BY <1>3, <1>4, <1>7, Zenon

\* A number that Handletable::set finds is free.
LEMMA FreeFromIsFree ==
  ASSUME NEW table, NEW min \in Fd, NEW j \in FreeFrom(table, min)
  PROVE  j \in Fd /\ table[j] = NoHandle
  <1>1. PICK d \in Fd : j = (d + min) % NumFds /\ table[j] = NoHandle
    BY Zenon DEF FreeFrom
  <1>2. NumFds \in Nat /\ NumFds > 0 /\ d + min \in Nat
    BY FileHandlesAssumption DEF Fd
  <1>3. (d + min) % NumFds \in 0..(NumFds - 1)
    BY <1>2
  <1>4. QED BY <1>1, <1>3, Zenon DEF Fd

\* A handle is copied to a free number, or its reference lost.
DupFrame(c, h, min) ==
    /\ IF IsFile(h) THEN IncRef(h.object) ELSE UNCHANGED objectVars
    /\ \/ \E j \in FreeFrom(fds[c], min) : Set(c, j, h) /\ UNCHANGED lost
       \/ /\ FreeFrom(fds[c], min) = {}
          /\ IF IsFile(h) THEN Lose(h.object) ELSE UNCHANGED lost
          /\ UNCHANGED fds
    /\ UNCHANGED <<regions, mountVars, tainted>>

\* The tables after a copy: the handles and lost references of each object.
LEMMA DupFrameTables ==
  ASSUME TableInv, NEW c \in Process, NEW h \in Handle, NEW min \in Fd, DupFrame(c, h, min)
  PROVE  /\ TableInv'
         /\ \A o \in Object \ tainted :
               Cardinality(HandlesIn(fds', o)) + lost'[o]
                 = Cardinality(HandlesIn(fds, o)) + lost[o] + Same(h.object, o)
  <1>1. UNCHANGED <<regions, tainted>> /\ tainted \subseteq Object
    BY Zenon DEF DupFrame, TableInv
  <1>2. \A o \in Object : lost[o] \in Nat /\ Cardinality(HandlesIn(fds, o)) \in Nat /\ Same(h.object, o) \in Nat
    BY PlacesFinite, Zenon DEF TableInv, Same
  <1>3. ASSUME NEW j \in FreeFrom(fds[c], min), Set(c, j, h), UNCHANGED lost
        PROVE  /\ TableInv'
               /\ \A o \in Object \ tainted :
                     Cardinality(HandlesIn(fds', o)) + lost'[o]
                       = Cardinality(HandlesIn(fds, o)) + lost[o] + Same(h.object, o)
    <2>1. j \in Fd /\ fds[c][j] = NoHandle
      BY FreeFromIsFree, Zenon
    <2>2. fds' \in [Process -> [Fd -> Handle]] /\ HandleSet(fds, c, j, h, fds')
      BY <1>3, <2>1, Zenon DEF Set, TableInv, HandleSet
    <2>3. TableInv'
      BY <1>1, <1>3, <2>2, Zenon DEF TableInv
    <2>4. ASSUME NEW o \in Object
          PROVE  Cardinality(HandlesIn(fds', o)) = Cardinality(HandlesIn(fds, o)) + Same(h.object, o)
      <3>1. Cardinality(HandlesIn(fds', o))
              = Cardinality(HandlesIn(fds, o)) - Same(fds[c][j].object, o) + Same(h.object, o)
        BY <2>1, <2>2, HandlesMove
      <3>2. Same(fds[c][j].object, o) = 0
        BY <2>1, HandleObjects, Zenon DEF Same
      <3>3. QED BY <1>2, <3>1, <3>2
    <2>5. QED BY <1>2, <1>3, <2>3, <2>4
  <1>4. ASSUME UNCHANGED fds, IF IsFile(h) THEN Lose(h.object) ELSE UNCHANGED lost
        PROVE  /\ TableInv'
               /\ \A o \in Object \ tainted :
                     Cardinality(HandlesIn(fds', o)) + lost'[o]
                       = Cardinality(HandlesIn(fds, o)) + lost[o] + Same(h.object, o)
    <2>1. CASE ~IsFile(h)
      <3>1. UNCHANGED lost
        BY <1>4, <2>1, Zenon
      <3>2. TableInv'
        BY <1>1, <1>4, <3>1, Zenon DEF TableInv
      <3>3. \A o \in Object : Same(h.object, o) = 0
        BY <2>1, HandleObjects, Zenon DEF Same
      <3>4. QED BY <1>2, <1>4, <3>1, <3>2, <3>3
    <2>2. CASE IsFile(h)
      <3>1. h.object \in Object /\ Lose(h.object)
        BY <1>4, <2>2, HandleObjects, Zenon
      <3>2. /\ lost' \in [Object -> Nat]
            /\ \A o \in Object \ tainted : lost'[o] = lost[o] + Same(h.object, o)
        BY <3>1 DEF Lose, TableInv, Same
      <3>3. TableInv'
        BY <1>1, <1>4, <3>2, Zenon DEF TableInv
      <3>4. QED BY <1>2, <1>4, <3>2, <3>3
    <2>3. QED BY <2>1, <2>2, Zenon
  <1>5. QED BY <1>3, <1>4, Zenon DEF DupFrame

\* A copy of a handle brings a reference of its own (fdup, DUP_PARENT_FD).
LEMMA DupFrameKeeps ==
  ASSUME ObjectInv, TableInv, CountInv, ~corrupt,
         NEW p \in Process, NEW i \in Fd, NEW c \in Process, NEW min \in Fd,
         DupFrame(c, fds[p][i], min)
  PROVE  ObjectInv' /\ TableInv' /\ CountInv'
  <1> DEFINE h == fds[p][i]
  <1>1. h \in Handle /\ UNCHANGED <<regions, tainted>> /\ UNCHANGED mountVars
    BY Zenon DEF TableInv, DupFrame
  <1>2. /\ TableInv'
        /\ \A o \in Object \ tainted :
              Cardinality(HandlesIn(fds', o)) + lost'[o]
                = Cardinality(HandlesIn(fds, o)) + lost[o] + Same(h.object, o)
    BY <1>1, DupFrameTables, Zenon
  <1>3. ASSUME NEW o \in Object \ tainted
        PROVE  /\ refcount[o] = Cardinality(HandlesIn(fds, o)) + Cardinality(RegionsIn(regions, o)) + lost[o]
               /\ Cardinality(HandlesIn(fds, o)) \in Nat /\ Cardinality(HandlesIn(fds', o)) \in Nat
               /\ Cardinality(RegionsIn(regions, o)) \in Nat
               /\ lost[o] \in Nat /\ lost'[o] \in Nat /\ Same(h.object, o) \in Nat
    BY <1>2, PlacesFinite, Zenon DEF CountInv, TableInv, Same
  <1>4. CASE ~IsFile(h)
    <2>1. UNCHANGED <<refcount, home, openObjects, corrupt, fsRefs>>
      BY <1>1, <1>4, Zenon DEF DupFrame, objectVars, mountVars
    <2>2. ObjectInv'
      BY <2>1, Zenon DEF ObjectInv
    <2>3. ASSUME NEW o \in Object \ tainted'
          PROVE  refcount'[o] = Cardinality(HandlesIn(fds', o)) + Cardinality(RegionsIn(regions', o)) + lost'[o]
      <3>1. Same(h.object, o) = 0 /\ o \in Object \ tainted
        BY <1>1, <1>4, HandleObjects, Zenon DEF Same
      <3>2. Cardinality(HandlesIn(fds', o)) + lost'[o] = Cardinality(HandlesIn(fds, o)) + lost[o] + Same(h.object, o)
        BY <1>2, <3>1, Zenon
      <3>3. QED BY <1>1, <1>3, <2>1, <3>1, <3>2
    <2>4. CountInv'
      BY <1>1, <2>1, <2>3, Zenon DEF CountInv
    <2>5. QED BY <1>2, <2>2, <2>4, Zenon
  <1>5. CASE IsFile(h)
    <2>1. h.object \in Object /\ IncRef(h.object)
      BY <1>1, <1>5, HandleObjects, Zenon DEF DupFrame
    <2>2. /\ ObjectInv'
          /\ corrupt' => home[h.object] = None
          /\ ~corrupt' => refcount' = [refcount EXCEPT ![h.object] = @ + 1]
      BY <1>1, <2>1, IncRefKeeps, Zenon
    <2>3. ASSUME corrupt' PROVE tainted' # {}
      <3>1. home[h.object] = None
        BY <2>2, <2>3, Zenon
      <3>2. <<p, i>> \in HandlesIn(fds, h.object)
        BY Zenon DEF HandlesIn
      <3>3. h.object \in tainted
        BY <2>1, <3>1, <3>2, HeldIsOpen, Zenon
      <3>4. QED BY <1>1, <3>3, Zenon
    <2>4. ASSUME ~corrupt', NEW o \in Object \ tainted'
          PROVE  refcount'[o] = Cardinality(HandlesIn(fds', o)) + Cardinality(RegionsIn(regions', o)) + lost'[o]
      <3>1. o \in Object \ tainted
        BY <1>1, Zenon
      <3>2. Cardinality(HandlesIn(fds', o)) + lost'[o] = Cardinality(HandlesIn(fds, o)) + lost[o] + Same(h.object, o)
        BY <1>2, <3>1, Zenon
      <3>3. refcount'[o] = refcount[o] + Same(h.object, o)
        <4>1. refcount'[o] = IF h.object = o THEN refcount[o] + 1 ELSE refcount[o]
          BY <2>1, <2>2, <2>4, Zenon DEF ObjectInv
        <4>2. refcount[o] \in Nat
          BY Zenon DEF ObjectInv
        <4>3. QED BY <4>1, <4>2 DEF Same
      <3>4. QED BY <1>1, <1>3, <3>1, <3>2, <3>3
    <2>5. CountInv'
      BY <2>3, <2>4, Zenon DEF CountInv
    <2>6. QED BY <1>2, <2>2, <2>5, Zenon
  <1>6. QED BY <1>4, <1>5, Zenon

\* The mounts of a volume in a list.
MountsIn(M, v) == {k \in DOMAIN M : M[k].fs = v}

\* What the kernel knows of filesystems.
MountInv ==
    /\ mounts \in Seq([path : Path, fs : Volume])
    /\ fsRefs \in [Filesystem -> Nat]
    /\ fsRefs[PipeManager] > 0 /\ fsRefs[RootFilesystem] > 0
    /\ \A v \in Volume : fsRefs[v] = Cardinality(MountsIn(mounts, v))

LEMMA MountIn ==
  ASSUME NEW S, NEW M \in Seq(S), NEW k \in DOMAIN M
  PROVE  M[k] \in S
  <1>1. DOMAIN M = 1..Len(M) /\ Len(M) \in Nat
    OBVIOUS
  <1>2. QED BY <1>1

LEMMA MountsFinite ==
  ASSUME NEW S, NEW M \in Seq(S), NEW v
  PROVE  IsFiniteSet(MountsIn(M, v)) /\ Cardinality(MountsIn(M, v)) \in Nat
  <1>1. DOMAIN M = 1..Len(M) /\ Len(M) \in Nat
    OBVIOUS
  <1>2. IsFiniteSet(1..Len(M))
    BY <1>1, FS_Interval
  <1>3. IsFiniteSet(MountsIn(M, v))
    BY <1>1, <1>2, FS_Subset, Zenon DEF MountsIn
  <1>4. QED BY <1>3, FS_CardinalityType, Zenon

\* A mount more counts for its volume only.
LEMMA AppendMount ==
  ASSUME NEW S, NEW M \in Seq(S), NEW m \in S, NEW v
  PROVE  Cardinality(MountsIn(Append(M, m), v)) = Cardinality(MountsIn(M, v)) + Same(m.fs, v)
  <1> DEFINE N == Append(M, m)
             n == Len(M) + 1
  <1>1. /\ DOMAIN M = 1..Len(M) /\ DOMAIN N = 1..n /\ Len(M) \in Nat
        /\ N[n] = m /\ \A k \in 1..Len(M) : N[k] = M[k]
    OBVIOUS
  <1> HIDE DEF N
  <1>2. MountsIn(M, v) \ {n} = MountsIn(N, v) \ {n}
    BY <1>1 DEF MountsIn
  <1>3. n \notin MountsIn(M, v) /\ (n \in MountsIn(N, v) <=> m.fs = v)
    BY <1>1 DEF MountsIn
  <1>4. IsFiniteSet(MountsIn(M, v)) /\ Cardinality(MountsIn(M, v)) \in Nat
    BY MountsFinite, Zenon
  <1> HIDE DEF n
  <1>5. Cardinality(MountsIn(N, v)) = Cardinality(MountsIn(M, v)) - In(n, MountsIn(M, v)) + In(n, MountsIn(N, v))
    BY <1>2, <1>4, OneDiffers, Zenon
  <1>6. In(n, MountsIn(M, v)) = 0 /\ In(n, MountsIn(N, v)) = Same(m.fs, v) /\ Same(m.fs, v) \in Nat
    BY <1>3, Zenon DEF In, Same
  <1>7. QED BY <1>4, <1>5, <1>6 DEF N

\* A mount less, wherever in the list, counts for its volume only.
LEMMA RemoveMount ==
  ASSUME NEW S, NEW M \in Seq(S), NEW k \in DOMAIN M, NEW v
  PROVE  /\ Erased(M, k) \in Seq(S)
         /\ Cardinality(MountsIn(Erased(M, k), v)) = Cardinality(MountsIn(M, v)) - Same(M[k].fs, v)
  <1> DEFINE N == Erased(M, k)
             n == Len(M)
             Place(j) == IF j < k THEN j ELSE j + 1
  <1>1. DOMAIN M = 1..n /\ n \in Nat /\ k \in 1..n
    OBVIOUS
  <1>2. N = [j \in 1..(n - 1) |-> M[Place(j)]]
    BY Zenon DEF Erased
  <1>3. /\ N \in Seq(S) /\ DOMAIN N = 1..(n - 1)
        /\ \A j \in 1..(n - 1) : N[j] = M[Place(j)]
    <2>1. n - 1 \in Nat /\ \A j \in 1..(n - 1) : Place(j) \in 1..n
      BY <1>1
    <2> HIDE DEF Place, N, n
    <2>2. \A j \in 1..n : M[j] \in S
      BY <1>1, MountIn, Zenon
    <2>3. N \in [1..(n - 1) -> S]
      BY <1>2, <2>1, <2>2, Zenon
    <2>4. N \in Seq(S)
      <3> DEFINE l == n - 1
      <3>1. l \in Nat /\ N \in [1..l -> S]
        BY <2>1, <2>3, Zenon
      <3> HIDE DEF l
      <3>2. QED BY <3>1
    <2>5. DOMAIN N = 1..(n - 1) /\ \A j \in 1..(n - 1) : N[j] = M[Place(j)]
      BY <1>2, Zenon
    <2>6. QED BY <2>4, <2>5, Zenon
  <1> HIDE DEF N
  <1>4. Cardinality(MountsIn(N, v)) = Cardinality(MountsIn(M, v) \ {k})
    <2> DEFINE A == MountsIn(N, v)
               B == MountsIn(M, v) \ {k}
               f == [j \in A |-> Place(j)]
    <2>1. \A j \in A : j \in 1..(n - 1) /\ M[Place(j)].fs = v
      BY <1>3, Zenon DEF MountsIn
    <2>2. \A j \in A : Place(j) \in B
      BY <1>1, <2>1 DEF MountsIn
    <2>3. \A x \in B : \E j \in A : Place(j) = x
      <3>1. ASSUME NEW x \in B PROVE \E j \in A : Place(j) = x
        <4>1. x \in 1..n /\ x # k /\ M[x].fs = v
          BY <1>1, Zenon DEF MountsIn
        <4> DEFINE y == IF x < k THEN x ELSE x - 1
        <4>2. y \in 1..(n - 1) /\ Place(y) = x
          BY <1>1, <4>1
        <4>3. y \in A
          <5> HIDE DEF y
          <5>1. N[y] = M[x]
            BY <1>3, <4>2, Zenon
          <5>2. QED BY <1>3, <4>1, <4>2, <5>1, Zenon DEF MountsIn
        <4>4. QED BY <4>2, <4>3, Zenon
      <3>2. QED BY <3>1, Zenon
    <2>4. \A i, j \in A : Place(i) = Place(j) => i = j
      <3>1. \A i, j \in 1..(n - 1) : Place(i) = Place(j) => i = j
        BY <1>1
      <3> HIDE DEF Place, A
      <3>2. QED BY <2>1, <3>1, Zenon
    <2> HIDE DEF Place, A, B
    <2>5. f \in Bijection(A, B)
      <3>1. f \in [A -> B] /\ \A j \in A : f[j] = Place(j)
        BY <2>2, Zenon
      <3> HIDE DEF f
      <3>2. f \in Injection(A, B)
        <4>1. DOMAIN f = A
          BY <3>1, Zenon
        <4>2. \A i, j \in DOMAIN f : f[i] = f[j] => i = j
          BY <2>4, <3>1, <4>1, Zenon
        <4>3. QED BY <3>1, <4>2, Zenon DEF Injection, IsInjective
      <3>3. f \in Surjection(A, B)
        BY <2>3, <3>1, Zenon DEF Surjection
      <3>4. QED BY <3>2, <3>3, Zenon DEF Bijection
    <2>6. ExistsBijection(A, B)
      BY <2>5, Zenon DEF ExistsBijection
    <2>7. IsFiniteSet(A)
      BY <1>3, MountsFinite, Zenon DEF A
    <2>8. QED BY <2>6, <2>7, FS_Bijection, Zenon DEF A, B
  <1>5. IsFiniteSet(MountsIn(M, v)) /\ Cardinality(MountsIn(M, v)) \in Nat
    BY MountsFinite, Zenon
  <1>6. k \in MountsIn(M, v) <=> M[k].fs = v
    BY Zenon DEF MountsIn
  <1>7. Cardinality(MountsIn(M, v) \ {k}) = IF k \in MountsIn(M, v) THEN Cardinality(MountsIn(M, v)) - 1 ELSE Cardinality(MountsIn(M, v))
    BY <1>5, FS_RemoveElement, Zenon
  <1>8. QED BY <1>3, <1>4, <1>5, <1>6, <1>7 DEF N, Same

\* What holds of processes: only a living one, or one that is about to exit, holds
\* files, and spawn and exit work on the living.
ProcessInv ==
    /\ status \in [Process -> {"free", "alive", "zombie"}]
    /\ \A p \in Process : status[p] # "alive" => NothingHeld(p)
    /\ busy \in {None} \cup LongCall
    /\ busy # None => status[busy.process] = "alive"
    /\ busy # None /\ busy.call = "spawn" =>
          busy.child \in Process /\ status[busy.child] = "alive"

FileInv == ObjectInv /\ TableInv /\ CountInv /\ MountInv /\ ProcessInv

\* The handles of one living process may change as they like.
LEMMA LivingMayHold ==
  ASSUME ProcessInv, NEW q \in Process, status[q] = "alive", UNCHANGED status,
         \A p \in Process \ {q} : fds'[p] = fds[p] /\ regions'[p] = regions[p]
  PROVE  \A p \in Process : status'[p] # "alive" => NothingHeld(p)'
  BY DEF ProcessInv, NothingHeld

\* While no process is being created or ends, the rest of what holds of processes
\* is not touched by a system call.
LEMMA CallKeepsProcesses ==
  ASSUME ProcessInv, NEW q \in Process, Running(q), UNCHANGED <<status, busy>>,
         \A p \in Process \ {q} : fds'[p] = fds[p] /\ regions'[p] = regions[p]
  PROVE  ProcessInv'
  <1>1. \A p \in Process : status'[p] # "alive" => NothingHeld(p)'
    BY LivingMayHold, Zenon DEF Running
  <1>2. QED BY <1>1, Zenon DEF ProcessInv, Running

LEMMA MountsKept == ASSUME MountInv, UNCHANGED mountVars PROVE MountInv'
  BY Zenon DEF MountInv, mountVars

\* fclose
LEMMA CloseKeeps ==
  ASSUME FileInv, NEW p \in Process, NEW i \in Fd, Close(p, i)
  PROVE  FileInv'
  <1>1. /\ Running(p) /\ ~corrupt /\ CloseFrame(p, i) /\ UNCHANGED mountVars
        /\ UNCHANGED <<status, busy, regions>> /\ fds' = [fds EXCEPT ![p][i] = NoHandle]
    BY Zenon DEF Close, Cleared, CloseFrame, Running
  <1>2. ObjectInv' /\ TableInv' /\ CountInv'
    BY <1>1, CloseFrameKeeps, Zenon DEF FileInv
  <1>3. \A q \in Process \ {p} : fds'[q] = fds[q] /\ regions'[q] = regions[q]
    BY <1>1, Zenon DEF FileInv, TableInv
  <1>4. ProcessInv'
    BY <1>1, <1>3, CallKeepsProcesses, Zenon DEF FileInv
  <1>5. QED BY <1>1, <1>2, <1>4, MountsKept, Zenon DEF FileInv

\* fdup
LEMMA DupKeeps ==
  ASSUME FileInv, NEW p \in Process, NEW i \in Fd, NEW min \in Fd, Dup(p, i, min)
  PROVE  FileInv'
  <1>1. /\ Running(p) /\ ~corrupt /\ DupFrame(p, fds[p][i], min) /\ UNCHANGED mountVars
        /\ UNCHANGED <<status, busy, regions>>
        /\ UNCHANGED fds \/ \E j \in FreeFrom(fds[p], min) : Set(p, j, fds[p][i])
    BY Zenon DEF Dup, DupFrame, Running
  <1>2. ObjectInv' /\ TableInv' /\ CountInv'
    BY <1>1, DupFrameKeeps, Zenon DEF FileInv
  <1>3. \A q \in Process \ {p} : fds'[q] = fds[q] /\ regions'[q] = regions[q]
    BY <1>1, Zenon DEF FileInv, TableInv, Set
  <1>4. ProcessInv'
    BY <1>1, <1>3, CallKeepsProcesses, Zenon DEF FileInv
  <1>5. QED BY <1>1, <1>2, <1>4, MountsKept, Zenon DEF FileInv

\* unmapregion
LEMMA UnmapKeeps ==
  ASSUME FileInv, NEW p \in Process, NEW r \in Region, Unmap(p, r)
  PROVE  FileInv'
  <1>1. /\ Running(p) /\ ~corrupt /\ regions[p][r] # None /\ UnmapFrame(p, r) /\ UNCHANGED mountVars
        /\ UNCHANGED <<status, busy, fds>> /\ regions' = [regions EXCEPT ![p][r] = None]
    BY Zenon DEF Unmap, UnmapFrame, Running
  <1>2. ObjectInv' /\ TableInv' /\ CountInv'
    BY <1>1, UnmapFrameKeeps, Zenon DEF FileInv
  <1>3. \A q \in Process \ {p} : fds'[q] = fds[q] /\ regions'[q] = regions[q]
    BY <1>1, Zenon DEF FileInv, TableInv
  <1>4. ProcessInv'
    BY <1>1, <1>3, CallKeepsProcesses, Zenon DEF FileInv
  <1>5. QED BY <1>1, <1>2, <1>4, MountsKept, Zenon DEF FileInv

\* A closed object that is not tainted is held nowhere.
LEMMA ClosedIsFree ==
  ASSUME ObjectInv, TableInv, CountInv, ~corrupt, NEW o \in Object \ tainted, home[o] = None
  PROVE  /\ Cardinality(HandlesIn(fds, o)) = 0 /\ Cardinality(RegionsIn(regions, o)) = 0
         /\ lost[o] = 0 /\ refcount[o] = 0
  <1>1. refcount[o] = 0
    BY Zenon DEF ObjectInv
  <1>2. 0 = Cardinality(HandlesIn(fds, o)) + Cardinality(RegionsIn(regions, o)) + lost[o]
    BY <1>1, Zenon DEF CountInv
  <1>3. /\ Cardinality(HandlesIn(fds, o)) \in Nat /\ Cardinality(RegionsIn(regions, o)) \in Nat
        /\ lost[o] \in Nat
    BY PlacesFinite, Zenon DEF TableInv
  <1>4. \A a, b, c \in Nat : 0 = a + b + c => a = 0 /\ b = 0 /\ c = 0
    OBVIOUS
  <1>5. QED BY <1>1, <1>2, <1>3, <1>4

\* fopen and fopendir
LEMMA OpenKeeps ==
  ASSUME FileInv, NEW p \in Process, NEW o \in Object, NEW f \in Filesystem, fsRefs[f] > 0,
         OpenIn(p, o, f)
  PROVE  FileInv'
  <1> DEFINE h == [object |-> o, mapped |-> FALSE]
             Count(x) == Cardinality(HandlesIn(fds', x)) + lost'[x]
  <1>1. /\ Running(p) /\ ~corrupt /\ OpenObject(o, f) /\ home[o] = None
        /\ refcount' = [refcount EXCEPT ![o] = 1] /\ UNCHANGED corrupt
        /\ UNCHANGED <<status, regions, busy, tainted>> /\ UNCHANGED mountVars
    BY Zenon DEF OpenIn, Running, OpenObject
  <1>2. ObjectInv'
    BY <1>1, OpenObjectKeeps, Zenon DEF FileInv
  <1>3. \A x \in Object : Cardinality(HandlesIn(fds, x)) \in Nat /\ Cardinality(RegionsIn(regions, x)) \in Nat
                          /\ lost[x] \in Nat
    BY PlacesFinite, Zenon DEF FileInv, TableInv
  <1>4. o \notin tainted => /\ Cardinality(HandlesIn(fds, o)) = 0 /\ Cardinality(RegionsIn(regions, o)) = 0
                            /\ lost[o] = 0 /\ refcount[o] = 0
    BY <1>1, ClosedIsFree, Zenon DEF FileInv
  <1>5. /\ TableInv'
        /\ \A q \in Process \ {p} : fds'[q] = fds[q]
        /\ \A x \in Object \ tainted : Count(x) = Cardinality(HandlesIn(fds, x)) + lost[x] + Same(o, x)
    <2>1. ASSUME NEW i \in FreeFrom(fds[p], 0), Set(p, i, h), lost' = [lost EXCEPT ![o] = 0]
          PROVE  /\ TableInv'
                 /\ \A q \in Process \ {p} : fds'[q] = fds[q]
                 /\ \A x \in Object \ tainted : Count(x) = Cardinality(HandlesIn(fds, x)) + lost[x] + Same(o, x)
      <3>0. 0 \in Fd \/ Fd = {}
        BY FileHandlesAssumption DEF Fd
      <3>1. i \in Fd /\ fds[p][i] = NoHandle
        <4>1. 0 \in Fd
          BY <2>1, <3>0, Zenon DEF FreeFrom
        <4>2. QED BY <4>1, FreeFromIsFree, Zenon
      <3>2. h \in Handle /\ h.object = o
        BY Zenon DEF Handle
      <3> HIDE DEF h
      <3>3. fds' \in [Process -> [Fd -> Handle]] /\ HandleSet(fds, p, i, h, fds')
        BY <2>1, <3>1, <3>2, Zenon DEF Set, FileInv, TableInv, HandleSet
      <3>4. \A q \in Process \ {p} : fds'[q] = fds[q]
        BY <2>1, Zenon DEF Set, FileInv, TableInv
      <3>5. lost' \in [Object -> Nat] /\ \A x \in Object \ tainted : lost'[x] = lost[x]
        BY <1>4, <2>1, Zenon DEF FileInv, TableInv
      <3>6. TableInv'
        BY <1>1, <3>3, <3>5, Zenon DEF FileInv, TableInv
      <3>7. ASSUME NEW x \in Object
            PROVE  Cardinality(HandlesIn(fds', x)) = Cardinality(HandlesIn(fds, x)) + Same(o, x)
        <4>1. Cardinality(HandlesIn(fds', x))
                = Cardinality(HandlesIn(fds, x)) - Same(fds[p][i].object, x) + Same(h.object, x)
          BY <3>1, <3>3, HandlesMove
        <4>2. Same(fds[p][i].object, x) = 0 /\ Same(h.object, x) = Same(o, x) /\ Same(o, x) \in Nat
          BY <3>1, <3>2, HandleObjects, Zenon DEF Same
        <4>3. QED BY <1>3, <4>1, <4>2
      <3>8. ASSUME NEW x \in Object \ tainted
            PROVE  Count(x) = Cardinality(HandlesIn(fds, x)) + lost[x] + Same(o, x)
        <4>1. Same(o, x) \in Nat
          BY Zenon DEF Same
        <4>2. QED BY <1>3, <3>5, <3>7, <4>1
      <3>9. QED BY <3>4, <3>6, <3>8, Zenon
    <2>2. ASSUME fds' = fds, lost' = [lost EXCEPT ![o] = 1]
          PROVE  /\ TableInv'
                 /\ \A q \in Process \ {p} : fds'[q] = fds[q]
                 /\ \A x \in Object \ tainted : Count(x) = Cardinality(HandlesIn(fds, x)) + lost[x] + Same(o, x)
      <3>1. lost' \in [Object -> Nat] /\ \A x \in Object \ tainted : lost'[x] = lost[x] + Same(o, x)
        BY <1>3, <1>4, <2>2 DEF FileInv, TableInv, Same
      <3>2. TableInv'
        BY <1>1, <2>2, <3>1, Zenon DEF FileInv, TableInv
      <3>3. \A x \in Object : Same(o, x) \in Nat
        BY Zenon DEF Same
      <3>4. ASSUME NEW x \in Object \ tainted
            PROVE  Count(x) = Cardinality(HandlesIn(fds, x)) + lost[x] + Same(o, x)
        <4>1. HandlesIn(fds', x) = HandlesIn(fds, x)
          BY <2>2, Zenon
        <4>2. QED BY <1>3, <3>1, <3>3, <4>1
      <3>5. QED BY <2>2, <3>2, <3>4, Zenon
    <2>3. QED BY <2>1, <2>2, Zenon DEF OpenIn
  <1>6. ASSUME NEW x \in Object \ tainted'
        PROVE  refcount'[x] = Cardinality(HandlesIn(fds', x)) + Cardinality(RegionsIn(regions', x)) + lost'[x]
    <2>1. x \in Object \ tainted /\ Same(o, x) \in Nat
      BY <1>1, Zenon DEF Same
    <2>2. refcount[x] = Cardinality(HandlesIn(fds, x)) + Cardinality(RegionsIn(regions, x)) + lost[x]
      BY <1>1, <2>1, Zenon DEF FileInv, CountInv
    <2>3. refcount'[x] = refcount[x] + Same(o, x)
      <3>1. refcount[x] \in Nat /\ refcount'[x] = IF x = o THEN 1 ELSE refcount[x]
        BY <1>1, <2>1, Zenon DEF FileInv, ObjectInv
      <3>2. QED BY <1>4, <2>1, <3>1 DEF Same
    <2>4. Count(x) = Cardinality(HandlesIn(fds, x)) + lost[x] + Same(o, x)
      BY <1>5, <2>1, Zenon
    <2>5. Cardinality(HandlesIn(fds', x)) \in Nat /\ lost'[x] \in Nat
      BY <1>5, <2>1, PlacesFinite, Zenon DEF TableInv
    <2>6. QED BY <1>1, <1>3, <2>1, <2>2, <2>3, <2>4, <2>5
  <1>7. CountInv'
    BY <1>1, <1>6, Zenon DEF CountInv
  <1>8. ProcessInv'
    BY <1>1, <1>5, CallKeepsProcesses, Zenon DEF FileInv
  <1>9. QED BY <1>1, <1>2, <1>5, <1>7, <1>8, MountsKept, Zenon DEF FileInv

\* fopen and fopendir of a path, in the filesystem mounted there.
LEMMA OpenPathKeeps ==
  ASSUME FileInv, NEW p \in Process, NEW o \in Object, NEW path \in Path, Open(p, path, o)
  PROVE  FileInv'
  <1>1. PICK k \in DOMAIN mounts : OpenIn(p, o, mounts[k].fs)
    BY Zenon DEF Open, FirstMount, MountsOf
  <1> DEFINE v == mounts[k].fs
  <1>2. v \in Volume /\ k \in MountsIn(mounts, v)
    <2>1. mounts \in Seq([path : Path, fs : Volume])
      BY Zenon DEF FileInv, MountInv
    <2>2. mounts[k] \in [path : Path, fs : Volume]
      BY <2>1, MountIn, Zenon
    <2>3. QED BY <2>2, Zenon DEF MountsIn
  <1>3. IsFiniteSet(MountsIn(mounts, v)) /\ Cardinality(MountsIn(mounts, v)) \in Nat
    BY MountsFinite, Zenon DEF FileInv, MountInv
  <1>4. Cardinality(MountsIn(mounts, v)) > 0
    BY <1>2, <1>3, FS_EmptySet
  <1>5. fsRefs[v] > 0 /\ v \in Filesystem
    BY <1>2, <1>4, Zenon DEF FileInv, MountInv, Filesystem
  <1>6. QED BY <1>1, <1>5, OpenKeeps, Zenon

\* fopendir of "/".
LEMMA OpenRootKeeps ==
  ASSUME FileInv, NEW p \in Process, NEW o \in Object, OpenRoot(p, o)
  PROVE  FileInv'
  <1>1. RootFilesystem \in Filesystem /\ fsRefs[RootFilesystem] > 0
    BY Zenon DEF FileInv, MountInv, Filesystem
  <1>2. QED BY <1>1, OpenKeeps, Zenon DEF OpenRoot

\* mmap: the region has a reference of its own.
LEMMA MmapKeeps ==
  ASSUME FileInv, NEW p \in Process, NEW i \in Fd, Mmap(p, i)
  PROVE  FileInv'
  <1> DEFINE h == fds[p][i]
             f == fds[p][i].object
             g == [fds[p][i] EXCEPT !.mapped = TRUE]
  <1>1. /\ Running(p) /\ ~corrupt /\ IsFile(h) /\ IncRef(f)
        /\ UNCHANGED <<status, busy, lost, tainted>> /\ UNCHANGED mountVars
        /\ fds' = [fds EXCEPT ![p][i] = g]
    BY Zenon DEF Mmap, RegionReference, Set, Running
  <1>2. PICK r \in Region : regions[p][r] = None /\ regions' = [regions EXCEPT ![p][r] = f]
    BY Zenon DEF Mmap
  <1>3. h \in Handle /\ f \in Object /\ None \notin Object
    BY <1>1, FileHandlesAssumption DEF FileInv, TableInv, IsFile
  <1>4. g \in Handle /\ g.object = f
    BY <1>1, <1>3, FileHandlesAssumption, Zenon DEF Handle, IsFile, NoHandle
  <1> HIDE DEF h, f, g
  <1>5. /\ fds' \in [Process -> [Fd -> Handle]] /\ HandleSet(fds, p, i, g, fds')
        /\ \A q \in Process \ {p} : fds'[q] = fds[q]
    BY <1>1, <1>4, Zenon DEF FileInv, TableInv, HandleSet
  <1>6. /\ regions' \in [Process -> [Region -> Object \cup {None}]]
        /\ RegionSet(regions, p, r, f, regions')
        /\ \A q \in Process \ {p} : regions'[q] = regions[q]
    BY <1>2, <1>3, Zenon DEF FileInv, TableInv, RegionSet
  <1>7. TableInv'
    BY <1>1, <1>5, <1>6, Zenon DEF FileInv, TableInv
  <1>8. ProcessInv'
    BY <1>1, <1>5, <1>6, CallKeepsProcesses, Zenon DEF FileInv
  <1>9. /\ ObjectInv'
        /\ corrupt' => home[f] = None
        /\ ~corrupt' => refcount' = [refcount EXCEPT ![f] = @ + 1]
    BY <1>1, <1>3, IncRefKeeps, Zenon DEF FileInv
  <1>10. ASSUME corrupt' PROVE tainted' # {}
    <2>1. home[f] = None
      BY <1>9, <1>10, Zenon
    <2>2. <<p, i>> \in HandlesIn(fds, f)
      BY Zenon DEF HandlesIn, f
    <2>3. f \in tainted
      BY <1>1, <1>3, <2>1, <2>2, HeldIsOpen, Zenon DEF FileInv
    <2>4. QED BY <1>1, <2>3, Zenon
  <1>11. ASSUME ~corrupt', NEW o \in Object \ tainted'
         PROVE  refcount'[o] = Cardinality(HandlesIn(fds', o)) + Cardinality(RegionsIn(regions', o)) + lost'[o]
    <2>1. o \in Object \ tainted
      BY <1>1, Zenon
    <2>2. refcount[o] = Cardinality(HandlesIn(fds, o)) + Cardinality(RegionsIn(regions, o)) + lost[o]
      BY <1>1, <2>1, Zenon DEF FileInv, CountInv
    <2>3. refcount'[o] = refcount[o] + Same(f, o)
      <3>1. refcount[o] \in Nat /\ refcount'[o] = IF f = o THEN refcount[o] + 1 ELSE refcount[o]
        BY <1>3, <1>9, <1>11 DEF FileInv, ObjectInv
      <3>2. QED BY <3>1 DEF Same
    <2>4. Cardinality(HandlesIn(fds', o)) = Cardinality(HandlesIn(fds, o)) - Same(f, o) + Same(f, o)
      <3>1. Cardinality(HandlesIn(fds', o))
              = Cardinality(HandlesIn(fds, o)) - Same(fds[p][i].object, o) + Same(g.object, o)
        BY <1>5, HandlesMove
      <3>2. QED BY <1>4, <3>1, Zenon DEF f
    <2>5. Cardinality(RegionsIn(regions', o)) = Cardinality(RegionsIn(regions, o)) + Same(f, o)
      <3>1. Cardinality(RegionsIn(regions', o))
              = Cardinality(RegionsIn(regions, o)) - Same(regions[p][r], o) + Same(f, o)
        BY <1>6, RegionsMove
      <3>2. Same(regions[p][r], o) = 0 /\ Same(f, o) \in Nat /\ Cardinality(RegionsIn(regions, o)) \in Nat
        BY <1>2, <1>3, <2>1, PlacesFinite, Zenon DEF Same
      <3>3. QED BY <3>1, <3>2
    <2>6. /\ Cardinality(HandlesIn(fds, o)) \in Nat /\ Cardinality(RegionsIn(regions, o)) \in Nat
          /\ lost[o] \in Nat /\ Same(f, o) \in Nat
      BY PlacesFinite, Zenon DEF FileInv, TableInv, Same
    <2>7. QED BY <1>1, <2>2, <2>3, <2>4, <2>5, <2>6
  <1>12. CountInv'
    BY <1>10, <1>11, Zenon DEF CountInv
  <1>13. QED BY <1>1, <1>7, <1>8, <1>9, <1>12, MountsKept, Zenon DEF FileInv

\* VFS::mount: a reference for the mount, which makes the first when the volume
\* was not mounted.
LEMMA MountKeeps ==
  ASSUME FileInv, NEW p \in Process, NEW v \in Volume, NEW path \in Path, Mount(p, v, path)
  PROVE  FileInv'
  <1> DEFINE m == [path |-> path, fs |-> v]
  <1>1. /\ Running(p) /\ ~corrupt /\ mounts' = Append(mounts, m)
        /\ UNCHANGED <<status, fds, regions, refcount, home, openObjects, corrupt, busy, lost, tainted>>
    BY Zenon DEF Mount, Running, objectVars
  <1>2. /\ mounts \in Seq([path : Path, fs : Volume]) /\ m \in [path : Path, fs : Volume] /\ m.fs = v
        /\ fsRefs \in [Filesystem -> Nat] /\ v \in Filesystem
    BY Zenon DEF FileInv, MountInv, Filesystem
  <1> HIDE DEF m
  <1>3. fsRefs' = [fsRefs EXCEPT ![v] = @ + 1]
    <2>1. CASE fsRefs' = AliasRefs(v)
      BY <2>1, Zenon DEF AliasRefs
    <2>2. CASE (\A k \in DOMAIN mounts : mounts[k].fs # v) /\ fsRefs' = [fsRefs EXCEPT ![v] = 1]
      <3>1. MountsIn(mounts, v) = {}
        BY <2>2, Zenon DEF MountsIn
      <3>2. fsRefs[v] = 0
        BY <3>1, FS_EmptySet, Zenon DEF FileInv, MountInv
      <3>3. fsRefs[v] + 1 = 1
        BY <3>2
      <3>4. QED BY <2>2, <3>3, Zenon
    <2>3. QED BY <2>1, <2>2, Zenon DEF Mount
  <1>4. MountInv'
    <2>1. mounts' \in Seq([path : Path, fs : Volume])
      BY <1>1, <1>2
    <2>2. /\ fsRefs' \in [Filesystem -> Nat]
          /\ \A f \in Filesystem : fsRefs'[f] = fsRefs[f] + Same(v, f) /\ fsRefs[f] \in Nat /\ Same(v, f) \in Nat
      BY <1>2, <1>3 DEF Same
    <2>3. ASSUME NEW w \in Volume PROVE fsRefs'[w] = Cardinality(MountsIn(mounts', w))
      <3>1. Cardinality(MountsIn(Append(mounts, m), w)) = Cardinality(MountsIn(mounts, w)) + Same(m.fs, w)
        BY <1>2, AppendMount, Zenon
      <3>2. fsRefs[w] = Cardinality(MountsIn(mounts, w)) /\ w \in Filesystem
        BY Zenon DEF FileInv, MountInv, Filesystem
      <3>3. QED BY <1>1, <1>2, <2>2, <3>1, <3>2, Zenon
    <2>4. fsRefs'[PipeManager] > 0 /\ fsRefs'[RootFilesystem] > 0
      <3>1. PipeManager \in Filesystem /\ RootFilesystem \in Filesystem
        BY Zenon DEF Filesystem
      <3>2. fsRefs[PipeManager] > 0 /\ fsRefs[RootFilesystem] > 0
        BY Zenon DEF FileInv, MountInv
      <3>3. QED BY <2>2, <3>1, <3>2
    <2>5. QED BY <2>1, <2>2, <2>3, <2>4, Zenon DEF MountInv
  <1>5. ObjectInv'
    <2>1. ASSUME NEW o \in Object, home[o] # None PROVE fsRefs'[home[o]] > 0
      <3>1. home[o] \in Filesystem /\ fsRefs[home[o]] > 0 /\ fsRefs[home[o]] \in Nat
        BY <1>2, <2>1, Zenon DEF FileInv, ObjectInv
      <3>2. fsRefs'[home[o]] = IF home[o] = v THEN fsRefs[home[o]] + 1 ELSE fsRefs[home[o]]
        BY <1>2, <1>3, <3>1, Zenon
      <3>3. QED BY <3>1, <3>2
    <2>2. QED BY <1>1, <2>1, Zenon DEF FileInv, ObjectInv
  <1>6. TableInv' /\ CountInv'
    BY <1>1, Zenon DEF FileInv, TableInv, CountInv
  <1>7. ProcessInv'
    BY <1>1, CallKeepsProcesses, Zenon DEF FileInv
  <1>8. QED BY <1>4, <1>5, <1>6, <1>7, Zenon DEF FileInv

\* VFS::unmount: the last mount of a volume goes only when no object is open there.
LEMMA UnmountKeeps ==
  ASSUME FileInv, NEW p \in Process, NEW path \in Path, Unmount(p, path)
  PROVE  FileInv'
  <1>1. /\ Running(p) /\ ~corrupt
        /\ UNCHANGED <<status, fds, regions, refcount, home, openObjects, corrupt, busy, lost, tainted>>
    BY Zenon DEF Unmount, Running, objectVars
  <1>2. PICK k \in DOMAIN mounts : /\ Unmountable(mounts[k].fs) /\ mounts' = Erased(mounts, k)
                                   /\ fsRefs' = [fsRefs EXCEPT ![mounts[k].fs] = @ - 1]
    BY Zenon DEF Unmount, FirstMount, MountsOf
  <1> DEFINE v == mounts[k].fs
  <1>3. mounts \in Seq([path : Path, fs : Volume]) /\ fsRefs \in [Filesystem -> Nat]
    BY Zenon DEF FileInv, MountInv
  <1>4. v \in Volume /\ v \in Filesystem
    <2>1. mounts[k] \in [path : Path, fs : Volume]
      BY <1>3, MountIn, Zenon
    <2>2. QED BY <2>1, Zenon DEF Filesystem
  <1> HIDE DEF v
  <1>5. /\ fsRefs[v] > 1 \/ (fsRefs[v] = 1 /\ openObjects[v] = 0)
        /\ fsRefs[v] \in Nat /\ fsRefs' = [fsRefs EXCEPT ![v] = @ - 1]
    BY <1>2, <1>3, <1>4, Zenon DEF Unmountable, v
  <1>6. MountInv'
    <2>1. /\ fsRefs' \in [Filesystem -> Nat]
          /\ \A f \in Filesystem : fsRefs'[f] = fsRefs[f] - Same(v, f)
      BY <1>3, <1>4, <1>5 DEF Same
    <2>2. mounts' \in Seq([path : Path, fs : Volume])
      BY <1>2, <1>3, RemoveMount, Zenon
    <2>3. ASSUME NEW w \in Volume PROVE fsRefs'[w] = Cardinality(MountsIn(mounts', w))
      <3>1. Cardinality(MountsIn(Erased(mounts, k), w)) = Cardinality(MountsIn(mounts, w)) - Same(mounts[k].fs, w)
        BY <1>3, RemoveMount
      <3>2. fsRefs[w] = Cardinality(MountsIn(mounts, w)) /\ w \in Filesystem
        BY Zenon DEF FileInv, MountInv, Filesystem
      <3>3. QED BY <1>2, <2>1, <3>1, <3>2, Zenon DEF v
    <2>4. fsRefs'[PipeManager] > 0 /\ fsRefs'[RootFilesystem] > 0
      <3>1. /\ PipeManager \in Filesystem /\ RootFilesystem \in Filesystem
            /\ PipeManager # v /\ RootFilesystem # v
        BY <1>4, FileHandlesAssumption, Zenon DEF Filesystem
      <3>2. fsRefs[PipeManager] > 0 /\ fsRefs[RootFilesystem] > 0
        BY Zenon DEF FileInv, MountInv
      <3>3. QED BY <1>3, <1>5, <3>1, <3>2, Zenon
    <2>5. QED BY <2>1, <2>2, <2>3, <2>4, Zenon DEF MountInv
  <1>7. ObjectInv'
    <2>1. ASSUME NEW o \in Object, home[o] # None PROVE fsRefs'[home[o]] > 0
      <3>1. home[o] \in Filesystem /\ fsRefs[home[o]] > 0
        BY <2>1, Zenon DEF FileInv, ObjectInv
      <3>2. CASE home[o] # v
        BY <1>3, <1>5, <3>1, <3>2, Zenon
      <3>3. CASE home[o] = v
        <4>1. Moved(home, o, home[o], home)
          BY Zenon DEF Moved
        <4>2. Cardinality(OpenedIn(home, v)) > 0
          BY <3>3, <4>1, HomesMove, Zenon
        <4>3. openObjects[v] = Cardinality(OpenedIn(home, v))
          BY <1>4, Zenon DEF FileInv, ObjectInv
        <4>4. fsRefs[v] > 1
          BY <1>5, <4>2, <4>3
        <4>5. fsRefs'[v] = fsRefs[v] - 1
          BY <1>3, <1>4, <1>5, Zenon
        <4>6. QED BY <1>5, <3>3, <4>4, <4>5
      <3>4. QED BY <3>2, <3>3, Zenon
    <2>2. QED BY <1>1, <2>1, Zenon DEF FileInv, ObjectInv
  <1>8. TableInv' /\ CountInv'
    BY <1>1, Zenon DEF FileInv, TableInv, CountInv
  <1>9. ProcessInv'
    BY <1>1, CallKeepsProcesses, Zenon DEF FileInv
  <1>10. QED BY <1>6, <1>7, <1>8, <1>9, Zenon DEF FileInv

\* A new process, or one that is deleted, changes no count of a file: the tables
\* G hold a file where F does.
SameFiles(F, G) == \A q \in Process, j \in Fd : F[q][j] = G[q][j]
                                                \/ (F[q][j].object \notin Object /\ G[q][j].object \notin Object)

LEMMA SameFilesCount ==
  ASSUME NEW F, NEW G, SameFiles(F, G), NEW o \in Object
  PROVE  HandlesIn(F, o) = HandlesIn(G, o)
  <1>1. ASSUME NEW x \in Process \X Fd PROVE F[x[1]][x[2]].object = o <=> G[x[1]][x[2]].object = o
    <2>1. x[1] \in Process /\ x[2] \in Fd
      BY Zenon
    <2>2. QED BY <2>1, Zenon DEF SameFiles
  <1>2. QED BY <1>1, Zenon DEF HandlesIn

\* spawn: the child holds its terminal, and what a clone maps without a reference
\* is tainted.
LEMMA SpawnKeeps ==
  ASSUME FileInv, NEW p \in Process, NEW c \in Process, NEW clone \in BOOLEAN, Spawn(p, c, clone)
  PROVE  FileInv'
  <1> DEFINE mapped == {regions[p][r] : r \in Region} \ {None}
             G == IF clone THEN regions[p] ELSE [r \in Region |-> None]
  <1>1. /\ Running(p) /\ ~corrupt /\ status[p] = "alive" /\ status[c] = "free"
        /\ status' = [status EXCEPT ![c] = "alive"] /\ fds' = [fds EXCEPT ![c] = NewTable(c)]
        /\ regions' = [regions EXCEPT ![c] = G]
        /\ tainted' = IF clone THEN tainted \cup mapped ELSE tainted
        /\ busy' = Spawning(p, c, MaxFileops)
        /\ UNCHANGED <<refcount, home, openObjects, corrupt, mounts, fsRefs, lost>>
    BY Zenon DEF Spawn, Running, objectVars, mountVars
  <1>2. /\ fds \in [Process -> [Fd -> Handle]] /\ regions \in [Process -> [Region -> Object \cup {None}]]
        /\ tainted \subseteq Object /\ lost \in [Object -> Nat]
    BY Zenon DEF FileInv, TableInv
  <1>3. (\A r \in Region : regions[c][r] = None) /\ (\A i \in Fd : fds[c][i] = NoHandle)
    BY <1>1, Zenon DEF FileInv, ProcessInv, NothingHeld
  <1>4. NewTable(c) \in [Fd -> Handle] /\ \A i \in Fd : NewTable(c)[i].object \notin Object
    BY FileHandlesAssumption, Zenon DEF NewTable, Terminal, NoHandle, Handle
  <1>5. fds' \in [Process -> [Fd -> Handle]]
    BY <1>1, <1>2, <1>4, Zenon
  <1>6. SameFiles(fds, fds')
    BY <1>1, <1>2, <1>3, <1>4, HandleObjects, Zenon DEF SameFiles
  <1>7. G \in [Region -> Object \cup {None}] /\ mapped \subseteq Object
        /\ \A r \in Region : G[r] = None \/ (clone /\ G[r] \in mapped)
    BY <1>2
  <1> HIDE DEF G, mapped
  <1>8. regions' \in [Process -> [Region -> Object \cup {None}]] /\ tainted' \subseteq Object
        /\ tainted \subseteq tainted'
    BY <1>1, <1>2, <1>7, Zenon
  <1>9. TableInv'
    BY <1>1, <1>2, <1>5, <1>8, Zenon DEF TableInv
  <1>10. ASSUME NEW o \in Object \ tainted' PROVE RegionsIn(regions', o) = RegionsIn(regions, o)
    <2>1. o # None
      BY FileHandlesAssumption, Zenon
    <2>2. \A r \in Region : regions'[c][r] # o /\ regions[c][r] # o
      BY <1>1, <1>2, <1>3, <1>7, <2>1, Zenon
    <2>3. ASSUME NEW x \in Process \X Region PROVE regions'[x[1]][x[2]] = o <=> regions[x[1]][x[2]] = o
      <3>1. x[1] \in Process /\ x[2] \in Region
        BY Zenon
      <3>2. x[1] # c => regions'[x[1]] = regions[x[1]]
        BY <1>1, <1>2, <3>1, Zenon
      <3>3. QED BY <2>2, <3>1, <3>2, Zenon
    <2>4. QED BY <2>3, Zenon DEF RegionsIn
  <1>11. ASSUME NEW o \in Object \ tainted'
         PROVE  refcount'[o] = Cardinality(HandlesIn(fds', o)) + Cardinality(RegionsIn(regions', o)) + lost'[o]
    <2>1. o \in Object \ tainted
      BY <1>8, Zenon
    <2>2. HandlesIn(fds, o) = HandlesIn(fds', o)
      BY <1>6, SameFilesCount, Zenon
    <2>3. refcount[o] = Cardinality(HandlesIn(fds, o)) + Cardinality(RegionsIn(regions, o)) + lost[o]
      BY <1>1, <2>1, Zenon DEF FileInv, CountInv
    <2>4. QED BY <1>1, <1>10, <2>2, <2>3, Zenon
  <1>12. CountInv'
    BY <1>1, <1>11, Zenon DEF CountInv
  <1>13. ObjectInv'
    BY <1>1, Zenon DEF FileInv, ObjectInv
  <1>14. MountInv'
    BY <1>1, Zenon DEF FileInv, MountInv
  <1>15. ProcessInv'
    <2>1. status' \in [Process -> {"free", "alive", "zombie"}] /\ status'[c] = "alive" /\ status'[p] = "alive"
      BY <1>1, Zenon DEF FileInv, ProcessInv
    <2>2. /\ busy' # None /\ busy'.call = "spawn" /\ busy'.process = p /\ busy'.child = c
          /\ busy' \in LongCall
      <3>1. MaxFileops \in 0..MaxFileops /\ None \notin LongCall
        BY FileHandlesAssumption
      <3>2. busy' \in LongCall /\ busy'.call = "spawn" /\ busy'.process = p /\ busy'.child = c
        BY <1>1, <3>1, Zenon DEF Spawning, LongCall
      <3>3. QED BY <3>1, <3>2, Zenon
    <2>3. ASSUME NEW q \in Process, status'[q] # "alive" PROVE NothingHeld(q)'
      <3>1. q # c /\ status[q] # "alive"
        BY <1>1, <2>1, <2>3, Zenon DEF FileInv, ProcessInv
      <3>2. fds'[q] = fds[q] /\ regions'[q] = regions[q]
        BY <1>1, <1>2, <3>1, Zenon
      <3>3. QED BY <3>1, <3>2 DEF FileInv, ProcessInv, NothingHeld
    <2>4. QED BY <2>1, <2>2, <2>3, Zenon DEF ProcessInv
  <1>16. QED BY <1>9, <1>12, <1>13, <1>14, <1>15, Zenon DEF FileInv

\* A step of spawn or exit leaves the rest of what holds of processes alone.
LEMMA StepKeepsProcesses ==
  ASSUME ProcessInv, busy # None, NEW q \in Process, status[q] = "alive", UNCHANGED status,
         busy' = busy \/ (busy.left > 0 /\ busy' = OneLess),
         \A p \in Process \ {q} : fds'[p] = fds[p] /\ regions'[p] = regions[p]
  PROVE  ProcessInv'
  <1>1. \A p \in Process : status'[p] # "alive" => NothingHeld(p)'
    BY LivingMayHold, Zenon
  <1>2. busy \in LongCall /\ None \notin LongCall
    BY FileHandlesAssumption, Zenon DEF ProcessInv
  <1>3. /\ busy' \in LongCall /\ busy'.call = busy.call /\ busy'.process = busy.process
        /\ busy'.child = busy.child
    <2>1. CASE busy' = busy
      BY <1>2, <2>1, Zenon
    <2>2. CASE busy.left > 0 /\ busy' = OneLess
      <3>1. busy.left - 1 \in 0..MaxFileops
        BY <1>2, <2>2, FileHandlesAssumption DEF LongCall
      <3>2. QED BY <1>2, <2>2, <3>1, Zenon DEF LongCall, OneLess
    <2>3. QED BY <2>1, <2>2, Zenon
  <1>4. QED BY <1>1, <1>2, <1>3, Zenon DEF ProcessInv

\* CLOSE_CHILD_FD
LEMMA CloseChildFdKeeps ==
  ASSUME FileInv, NEW i \in Fd, CloseChildFd(i)
  PROVE  FileInv'
  <1> DEFINE c == busy.child
  <1>1. /\ busy # None /\ busy.call = "spawn" /\ ~corrupt /\ busy.left > 0 /\ busy' = OneLess
        /\ CloseFrame(c, i) /\ UNCHANGED mountVars /\ UNCHANGED <<status, regions>>
        /\ fds' = [fds EXCEPT ![c][i] = NoHandle]
    BY Zenon DEF CloseChildFd, InSpawn, CloseFrame, Cleared
  <1>2. c \in Process /\ status[c] = "alive"
    BY <1>1, Zenon DEF FileInv, ProcessInv
  <1> HIDE DEF c
  <1>3. ObjectInv' /\ TableInv' /\ CountInv'
    BY <1>1, <1>2, CloseFrameKeeps, Zenon DEF FileInv
  <1>4. \A q \in Process \ {c} : fds'[q] = fds[q] /\ regions'[q] = regions[q]
    BY <1>1, Zenon DEF FileInv, TableInv
  <1>5. ProcessInv'
    BY <1>1, <1>2, <1>4, StepKeepsProcesses, Zenon DEF FileInv
  <1>6. QED BY <1>1, <1>3, <1>5, MountsKept, Zenon DEF FileInv

\* DUP_PARENT_FD
LEMMA DupParentFdKeeps ==
  ASSUME FileInv, NEW i \in Fd, DupParentFd(i)
  PROVE  FileInv'
  <1> DEFINE c == busy.child
             p == busy.process
  <1>1. /\ busy # None /\ busy.call = "spawn" /\ ~corrupt /\ busy.left > 0 /\ busy' = OneLess
        /\ DupFrame(c, fds[p][i], 0) /\ UNCHANGED mountVars /\ UNCHANGED <<status, regions>>
        /\ UNCHANGED fds \/ \E j \in FreeFrom(fds[c], 0) : Set(c, j, fds[p][i])
    BY Zenon DEF DupParentFd, InSpawn, DupFrame
  <1>2. c \in Process /\ status[c] = "alive" /\ p \in Process /\ 0 \in Fd
    <2>1. 0 \in Fd
      BY FileHandlesAssumption DEF Fd
    <2>2. busy \in LongCall
      BY <1>1, Zenon DEF FileInv, ProcessInv
    <2>3. p \in Process
      BY <2>2, Zenon DEF LongCall
    <2>4. QED BY <1>1, <2>1, <2>3, Zenon DEF FileInv, ProcessInv
  <1> HIDE DEF c, p
  <1>3. ObjectInv' /\ TableInv' /\ CountInv'
    BY <1>1, <1>2, DupFrameKeeps, Zenon DEF FileInv
  <1>4. \A q \in Process \ {c} : fds'[q] = fds[q] /\ regions'[q] = regions[q]
    BY <1>1, Zenon DEF FileInv, TableInv, Set
  <1>5. ProcessInv'
    BY <1>1, <1>2, <1>4, StepKeepsProcesses, Zenon DEF FileInv
  <1>6. QED BY <1>1, <1>3, <1>5, MountsKept, Zenon DEF FileInv

\* Who exits is alive until everything is closed.
LEMMA Leaving ==
  ASSUME FileInv, InExit
  PROVE  /\ busy # None /\ ~corrupt /\ busy \in LongCall
         /\ busy.process \in Process /\ status[busy.process] = "alive"
  <1>1. busy # None /\ ~corrupt
    BY Zenon DEF InExit
  <1>2. busy \in LongCall
    BY <1>1, Zenon DEF FileInv, ProcessInv
  <1>3. busy.process \in Process
    BY <1>2, Zenon DEF LongCall
  <1>4. QED BY <1>1, <1>2, <1>3, Zenon DEF FileInv, ProcessInv

\* exit removes a region.
LEMMA CleanupRegionKeeps ==
  ASSUME FileInv, NEW r \in Region, CleanupRegion(r)
  PROVE  FileInv'
  <1> DEFINE p == busy.process
  <1>1. /\ InExit /\ regions[p][r] # None /\ UnmapFrame(p, r) /\ UNCHANGED mountVars
        /\ UNCHANGED <<status, busy, fds>> /\ regions' = [regions EXCEPT ![p][r] = None]
    BY Zenon DEF CleanupRegion, UnmapFrame
  <1>2. busy # None /\ ~corrupt /\ p \in Process /\ status[p] = "alive"
    BY <1>1, Leaving, Zenon
  <1> HIDE DEF p
  <1>3. ObjectInv' /\ TableInv' /\ CountInv'
    BY <1>1, <1>2, UnmapFrameKeeps, Zenon DEF FileInv
  <1>4. \A q \in Process \ {p} : fds'[q] = fds[q] /\ regions'[q] = regions[q]
    BY <1>1, Zenon DEF FileInv, TableInv
  <1>5. ProcessInv'
    BY <1>1, <1>2, <1>4, StepKeepsProcesses, Zenon DEF FileInv
  <1>6. QED BY <1>1, <1>3, <1>5, MountsKept, Zenon DEF FileInv

\* exit closes a handle.
LEMMA CloseAtExitKeeps ==
  ASSUME FileInv, NEW i \in Fd, CloseAtExit(i)
  PROVE  FileInv'
  <1> DEFINE p == busy.process
  <1>1. /\ InExit /\ CloseFrame(p, i) /\ UNCHANGED mountVars
        /\ UNCHANGED <<status, busy, regions>> /\ fds' = [fds EXCEPT ![p][i] = NoHandle]
    BY Zenon DEF CloseAtExit, CloseFrame
  <1>2. busy # None /\ ~corrupt /\ p \in Process /\ status[p] = "alive"
    BY <1>1, Leaving, Zenon
  <1> HIDE DEF p
  <1>3. ObjectInv' /\ TableInv' /\ CountInv'
    BY <1>1, <1>2, CloseFrameKeeps, Zenon DEF FileInv
  <1>4. \A q \in Process \ {p} : fds'[q] = fds[q] /\ regions'[q] = regions[q]
    BY <1>1, Zenon DEF FileInv, TableInv
  <1>5. ProcessInv'
    BY <1>1, <1>2, <1>4, StepKeepsProcesses, Zenon DEF FileInv
  <1>6. QED BY <1>1, <1>3, <1>5, MountsKept, Zenon DEF FileInv

\* exit begins, ends, and what is left of the process is deleted; a spawn ends.
LEMMA ExitEndsKeeps ==
  ASSUME FileInv, EndOfList \/ Exited \/ \E p \in Process : Exit(p) \/ Delete(p)
  PROVE  FileInv'
  <1>1. UNCHANGED <<fds, regions, refcount, home, openObjects, corrupt, mounts, fsRefs, lost, tainted>>
    BY Zenon DEF EndOfList, Exited, Exit, Delete, objectVars, mountVars
  <1>2. ObjectInv' /\ TableInv' /\ CountInv' /\ MountInv'
    BY <1>1, Zenon DEF FileInv, ObjectInv, TableInv, CountInv, MountInv
  <1>3. \A p \in Process : NothingHeld(p)' = NothingHeld(p)
    BY <1>1, Zenon DEF NothingHeld
  <1>4. ProcessInv'
    <2>1. CASE EndOfList
      BY <1>3, <2>1, Zenon DEF EndOfList, FileInv, ProcessInv
    <2>2. CASE Exited
      <3>1. /\ busy.process \in Process /\ NothingHeld(busy.process) /\ busy' = None
            /\ status' = [status EXCEPT ![busy.process] = "zombie"]
        BY <2>2, Leaving, Zenon DEF Exited
      <3>2. QED BY <1>3, <3>1, Zenon DEF FileInv, ProcessInv
    <2>3. ASSUME NEW p \in Process, Exit(p) PROVE ProcessInv'
      <3>1. status[p] = "alive" /\ busy' = Exiting(p) /\ UNCHANGED status
        BY <2>3, Zenon DEF Exit, Running
      <3>2. busy' \in LongCall /\ busy'.call = "exit" /\ busy'.process = p
        BY <3>1, FileHandlesAssumption DEF Exiting, LongCall
      <3>3. QED BY <1>3, <3>1, <3>2, Zenon DEF FileInv, ProcessInv
    <2>4. ASSUME NEW p \in Process, Delete(p) PROVE ProcessInv'
      <3>1. busy = None /\ busy' = None /\ status[p] = "zombie" /\ status' = [status EXCEPT ![p] = "free"]
        BY <2>4, Zenon DEF Delete
      <3>2. QED BY <1>3, <3>1, Zenon DEF FileInv, ProcessInv
    <2>5. QED BY <2>1, <2>2, <2>3, <2>4, Zenon
  <1>5. QED BY <1>2, <1>4, Zenon DEF FileInv

\* pipe() with two free numbers: two objects are opened, each with a handle.
ReadEnd(p, i, read) == [fds EXCEPT ![p] = [fds[p] EXCEPT ![i] = [object |-> read, mapped |-> FALSE]]]
PipeFrame(p, i, j, read, write) ==
    /\ home[read] = None /\ home[write] = None /\ read # write
    /\ fds' = [fds EXCEPT ![p] = [ReadEnd(p, i, read)[p] EXCEPT ![j] = [object |-> write, mapped |-> FALSE]]]
    /\ refcount' = [refcount EXCEPT ![read] = 1, ![write] = 1]
    /\ home' = [home EXCEPT ![read] = PipeManager, ![write] = PipeManager]
    /\ openObjects' = [openObjects EXCEPT ![PipeManager] = @ + 2]
    /\ lost' = [lost EXCEPT ![read] = 0, ![write] = 0]
    /\ UNCHANGED <<regions, mounts, fsRefs, tainted, corrupt>>

LEMMA PipeFrameKeeps ==
  ASSUME ObjectInv, TableInv, CountInv, MountInv, ~corrupt, NEW p \in Process,
         NEW read \in Object, NEW write \in Object,
         NEW i \in Fd, NEW j \in Fd, i # j, fds[p][i] = NoHandle, fds[p][j] = NoHandle,
         PipeFrame(p, i, j, read, write)
  PROVE  /\ ObjectInv' /\ TableInv' /\ CountInv'
         /\ \A q \in Process \ {p} : fds'[q] = fds[q]
  <1> DEFINE h == [object |-> read, mapped |-> FALSE]
             g == [object |-> write, mapped |-> FALSE]
             F == ReadEnd(p, i, read)
  <1>1. PipeManager \in Filesystem /\ None \notin Filesystem /\ None \notin Object
        /\ fsRefs[PipeManager] > 0
    BY FileHandlesAssumption, Zenon DEF Filesystem, MountInv
  <1>2. ObjectInv'
    <2>1. /\ refcount' \in [Object -> Nat] /\ home' \in [Object -> Filesystem \cup {None}]
          /\ openObjects' \in [Filesystem -> Nat] /\ corrupt' \in BOOLEAN
      BY <1>1 DEF ObjectInv, PipeFrame
    <2>2. \A x \in Object : home'[x] = None <=> refcount'[x] = 0
      BY <1>1 DEF ObjectInv, PipeFrame
    <2>3. \A x \in Object : home'[x] # None => fsRefs'[home'[x]] > 0
      BY <1>1, Zenon DEF ObjectInv, PipeFrame
    <2>4. PICK K : Moved(home, read, PipeManager, K) /\ Moved(K, write, PipeManager, home') /\ K[write] = None
      <3> DEFINE Q == [home EXCEPT ![read] = PipeManager]
      <3>1. Moved(home, read, PipeManager, Q) /\ Moved(Q, write, PipeManager, home') /\ Q[write] = None
        BY Zenon DEF ObjectInv, Moved, PipeFrame
      <3>2. QED BY <3>1, Zenon
    <2>5. ASSUME NEW f \in Filesystem PROVE openObjects'[f] = Cardinality(OpenedIn(home', f))
      <3>1. /\ Cardinality(OpenedIn(K, f))
                 = Cardinality(OpenedIn(home, f)) - Same(home[read], f) + Same(PipeManager, f)
            /\ Cardinality(OpenedIn(home, f)) \in Nat
        BY <2>4, HomesMove
      <3>2. Cardinality(OpenedIn(home', f))
                 = Cardinality(OpenedIn(K, f)) - Same(K[write], f) + Same(PipeManager, f)
        BY <2>4, HomesMove
      <3>3. Same(home[read], f) = 0 /\ Same(K[write], f) = 0 /\ Same(PipeManager, f) \in Nat
        BY <1>1, <2>4, Zenon DEF Same, PipeFrame
      <3>4. openObjects[f] = Cardinality(OpenedIn(home, f))
        BY Zenon DEF ObjectInv
      <3>5. openObjects'[f] = openObjects[f] + Same(PipeManager, f) + Same(PipeManager, f)
        <4>1. openObjects[f] \in Nat /\ openObjects'[f] = IF f = PipeManager THEN openObjects[f] + 2 ELSE openObjects[f]
          BY <1>1, Zenon DEF ObjectInv, PipeFrame
        <4>2. QED BY <4>1 DEF Same
      <3>6. QED BY <2>4, <3>1, <3>2, <3>3, <3>4, <3>5
    <2>6. QED BY <2>1, <2>2, <2>3, <2>5, Zenon DEF ObjectInv
  <1>3. h \in Handle /\ g \in Handle /\ h.object = read /\ g.object = write
    BY Zenon DEF Handle
  <1> HIDE DEF h, g
  <1>4. /\ HandleSet(fds, p, i, h, F) /\ F[p][j] = NoHandle
        /\ F \in [Process -> [Fd -> Handle]]
    BY <1>3, Zenon DEF TableInv, HandleSet, ReadEnd, h
  <1>5. /\ HandleSet(F, p, j, g, fds') /\ fds' \in [Process -> [Fd -> Handle]]
        /\ \A q \in Process \ {p} : fds'[q] = fds[q]
    <2>1. fds' = [fds EXCEPT ![p] = [F[p] EXCEPT ![j] = g]]
      BY Zenon DEF PipeFrame, g
    <2>2. \A q \in Process \ {p} : F[q] = fds[q]
      BY Zenon DEF TableInv, ReadEnd
    <2> HIDE DEF F
    <2>3. QED BY <1>3, <1>4, <2>1, <2>2, Zenon DEF TableInv, HandleSet
  <1>6. TableInv'
    <2>1. lost' \in [Object -> Nat] /\ UNCHANGED <<regions, tainted>>
      BY Zenon DEF TableInv, PipeFrame
    <2>2. QED BY <1>5, <2>1, Zenon DEF TableInv
  <1> HIDE DEF F
  <1>7. ASSUME NEW x \in Object
        PROVE  /\ Cardinality(HandlesIn(fds', x)) = Cardinality(HandlesIn(fds, x)) + Same(read, x) + Same(write, x)
               /\ Cardinality(HandlesIn(fds, x)) \in Nat /\ Cardinality(RegionsIn(regions, x)) \in Nat
               /\ Same(read, x) \in Nat /\ Same(write, x) \in Nat
    <2>1. Cardinality(HandlesIn(F, x))
            = Cardinality(HandlesIn(fds, x)) - Same(fds[p][i].object, x) + Same(h.object, x)
      BY <1>4, HandlesMove
    <2>2. Cardinality(HandlesIn(fds', x))
            = Cardinality(HandlesIn(F, x)) - Same(F[p][j].object, x) + Same(g.object, x)
      BY <1>5, HandlesMove
    <2>3. Same(fds[p][i].object, x) = 0 /\ Same(F[p][j].object, x) = 0
      BY <1>4, HandleObjects, Zenon DEF Same
    <2>4. Same(read, x) \in Nat /\ Same(write, x) \in Nat
      BY Zenon DEF Same
    <2>5. Cardinality(HandlesIn(fds, x)) \in Nat /\ Cardinality(RegionsIn(regions, x)) \in Nat
      BY PlacesFinite, Zenon
    <2>6. QED BY <1>3, <2>1, <2>2, <2>3, <2>4, <2>5
  <1>8. ASSUME NEW x \in Object \ tainted'
        PROVE  refcount'[x] = Cardinality(HandlesIn(fds', x)) + Cardinality(RegionsIn(regions', x)) + lost'[x]
    <2>1. x \in Object \ tainted /\ lost[x] \in Nat /\ refcount[x] \in Nat /\ UNCHANGED regions
      BY Zenon DEF TableInv, ObjectInv, PipeFrame
    <2>2. x \in {read, write} => lost[x] = 0 /\ refcount[x] = 0
      <3>1. x \in {read, write} => home[x] = None
        BY Zenon DEF PipeFrame
      <3>2. QED BY <2>1, <3>1, ClosedIsFree, Zenon
    <2>3. refcount'[x] = refcount[x] + Same(read, x) + Same(write, x)
      <3>1. refcount'[x] = IF x \in {read, write} THEN 1 ELSE refcount[x]
        BY <2>1, Zenon DEF ObjectInv, PipeFrame
      <3>2. read # write
        BY Zenon DEF PipeFrame
      <3>3. QED BY <2>1, <2>2, <3>1, <3>2 DEF Same
    <2>4. lost'[x] = lost[x]
      BY <2>1, <2>2, Zenon DEF TableInv, PipeFrame
    <2>5. refcount[x] = Cardinality(HandlesIn(fds, x)) + Cardinality(RegionsIn(regions, x)) + lost[x]
      BY <2>1, Zenon DEF CountInv
    <2>6. QED BY <1>7, <2>1, <2>3, <2>4, <2>5
  <1>9. CountInv'
    BY <1>8, Zenon DEF CountInv, PipeFrame
  <1>10. QED BY <1>2, <1>5, <1>6, <1>9, Zenon

\* pipe() with one free number: the read end is closed and its handle stays.
LEMMA PipeHalfOpened ==
  ASSUME FileInv, ~corrupt, NEW p \in Process, NEW read \in Object, NEW i \in Fd, fds[p][i] = NoHandle,
         fds' = ReadEnd(p, i, read), tainted' = tainted \cup {read},
         UNCHANGED <<regions, refcount, home, openObjects, corrupt, mounts, fsRefs, lost>>
  PROVE  /\ ObjectInv' /\ TableInv' /\ CountInv'
         /\ \A q \in Process \ {p} : fds'[q] = fds[q]
  <1> DEFINE h == [object |-> read, mapped |-> FALSE]
  <1>1. h \in Handle /\ h.object = read
    BY Zenon DEF Handle
  <1>2. HandleSet(fds, p, i, h, fds') /\ fds' \in [Process -> [Fd -> Handle]]
        /\ \A q \in Process \ {p} : fds'[q] = fds[q]
    BY <1>1, Zenon DEF FileInv, TableInv, HandleSet, ReadEnd
  <1> HIDE DEF h
  <1>3. TableInv'
    BY <1>2, Zenon DEF FileInv, TableInv
  <1>4. ObjectInv'
    BY Zenon DEF FileInv, ObjectInv
  <1>5. ASSUME NEW x \in Object \ tainted'
        PROVE  refcount'[x] = Cardinality(HandlesIn(fds', x)) + Cardinality(RegionsIn(regions', x)) + lost'[x]
    <2>1. x \in Object \ tainted /\ x # read
      BY Zenon
    <2>2. Cardinality(HandlesIn(fds', x))
            = Cardinality(HandlesIn(fds, x)) - Same(fds[p][i].object, x) + Same(h.object, x)
      BY <1>2, HandlesMove
    <2>3. Same(fds[p][i].object, x) = 0 /\ Same(h.object, x) = 0
      BY <1>1, <2>1, HandleObjects, Zenon DEF Same
    <2>4. Cardinality(HandlesIn(fds, x)) \in Nat
      BY PlacesFinite, Zenon
    <2>5. Cardinality(HandlesIn(fds', x)) = Cardinality(HandlesIn(fds, x))
      BY <2>2, <2>3, <2>4
    <2>6. refcount[x] = Cardinality(HandlesIn(fds, x)) + Cardinality(RegionsIn(regions, x)) + lost[x]
      BY <2>1, Zenon DEF FileInv, CountInv
    <2>7. QED BY <2>5, <2>6, Zenon
  <1>6. CountInv'
    BY <1>5, Zenon DEF CountInv
  <1>7. QED BY <1>2, <1>3, <1>4, <1>6, Zenon

\* pipe()
LEMMA PipeKeeps ==
  ASSUME FileInv, NEW p \in Process, NEW read \in Object, NEW write \in Object, Pipe(p, read, write)
  PROVE  FileInv'
  <1> DEFINE h == [object |-> read, mapped |-> FALSE]
             g == [object |-> write, mapped |-> FALSE]
             Table(i) == [fds[p] EXCEPT ![i] = h]
             Both(i, j) ==
                /\ fds' = [fds EXCEPT ![p] = [Table(i) EXCEPT ![j] = g]]
                /\ refcount' = [refcount EXCEPT ![read] = 1, ![write] = 1]
                /\ home' = [home EXCEPT ![read] = PipeManager, ![write] = PipeManager]
                /\ openObjects' = [openObjects EXCEPT ![PipeManager] = @ + 2]
                /\ lost' = [lost EXCEPT ![read] = 0, ![write] = 0]
                /\ UNCHANGED tainted
             One(i) ==
                /\ fds' = [fds EXCEPT ![p] = Table(i)]
                /\ tainted' = tainted \cup {read}
                /\ UNCHANGED <<refcount, home, openObjects, lost>>
  <1>1. /\ Running(p) /\ ~corrupt /\ read # write /\ home[read] = None /\ home[write] = None
        /\ UNCHANGED <<status, regions, busy, corrupt>> /\ UNCHANGED mountVars
        /\ UNCHANGED <<mounts, fsRefs>>
    BY Zenon DEF Pipe, Running, mountVars
  <1>2. fds \in [Process -> [Fd -> Handle]]
    BY Zenon DEF FileInv, TableInv
  <1>3. PICK i \in FreeFrom(fds[p], 0) : (\E j \in FreeFrom(Table(i), 0) : Both(i, j)) \/ One(i)
    BY Zenon DEF Pipe
  <1>4. 0 \in Fd
    <2>1. 0 \in Fd \/ Fd = {}
      BY FileHandlesAssumption DEF Fd
    <2>2. QED BY <1>3, <2>1, Zenon DEF FreeFrom
  <1>5. i \in Fd /\ fds[p][i] = NoHandle
    BY <1>3, <1>4, FreeFromIsFree, Zenon
  <1>6. ReadEnd(p, i, read) = [fds EXCEPT ![p] = Table(i)] /\ ReadEnd(p, i, read)[p] = Table(i)
    BY <1>2, Zenon DEF ReadEnd
  <1>7. /\ ObjectInv' /\ TableInv' /\ CountInv'
        /\ \A q \in Process \ {p} : fds'[q] = fds[q]
    <2>1. ASSUME NEW j \in FreeFrom(Table(i), 0), Both(i, j)
          PROVE  /\ ObjectInv' /\ TableInv' /\ CountInv'
                 /\ \A q \in Process \ {p} : fds'[q] = fds[q]
      <3>1. j \in Fd /\ Table(i)[j] = NoHandle
        <4> HIDE DEF Table
        <4>1. QED BY <1>4, <2>1, FreeFromIsFree, Zenon
      <3>2. h # NoHandle
        BY FileHandlesAssumption, Zenon DEF NoHandle
      <3>3. j # i /\ fds[p][j] = NoHandle
        <4> HIDE DEF h
        <4>1. QED BY <1>2, <1>5, <3>1, <3>2, Zenon
      <3>4. PipeFrame(p, i, j, read, write)
        BY <1>1, <1>6, <2>1, Zenon DEF PipeFrame
      <3>5. QED BY <1>1, <1>5, <3>1, <3>3, <3>4, PipeFrameKeeps, Zenon DEF FileInv
    <2>2. ASSUME One(i)
          PROVE  /\ ObjectInv' /\ TableInv' /\ CountInv'
                 /\ \A q \in Process \ {p} : fds'[q] = fds[q]
      <3>1. /\ fds' = ReadEnd(p, i, read) /\ tainted' = tainted \cup {read}
            /\ UNCHANGED <<regions, refcount, home, openObjects, corrupt, mounts, fsRefs, lost>>
        BY <1>1, <1>6, <2>2, Zenon
      <3>2. QED BY <1>1, <1>5, <3>1, PipeHalfOpened, Zenon
    <2>3. QED BY <1>3, <2>1, <2>2, Zenon
  <1>8. ProcessInv'
    BY <1>1, <1>7, CallKeepsProcesses, Zenon DEF FileInv
  <1>9. QED BY <1>1, <1>7, <1>8, MountsKept, Zenon DEF FileInv

\* Nothing is open at the start, and the boot volume is mounted.
LEMMA FileStarts == FileInit => FileInv
  <1> SUFFICES ASSUME FileInit PROVE FileInv
    BY Zenon
  <1>1. NoHandle \in Handle /\ NoHandle.object \notin Object
    BY HandleObjects, Zenon
  <1>2. \A q \in Process : NewTable(q) \in [Fd -> Handle] /\ \A i \in Fd : NewTable(q)[i].object \notin Object
    BY FileHandlesAssumption, Zenon DEF NewTable, Terminal, NoHandle, Handle
  <1>3. TableInv
    BY <1>1, <1>2, Zenon DEF FileInit, TableInv
  <1>4. ASSUME NEW o \in Object PROVE Cardinality(HandlesIn(fds, o)) = 0 /\ Cardinality(RegionsIn(regions, o)) = 0
    <2>1. \A q \in Process, j \in Fd : fds[q][j].object # o
      BY <1>1, <1>2, Zenon DEF FileInit
    <2>2. \A q \in Process, j \in Region : regions[q][j] # o
      BY FileHandlesAssumption, Zenon DEF FileInit
    <2>3. HandlesIn(fds, o) = {}
      BY <2>1, Zenon DEF HandlesIn
    <2>4. RegionsIn(regions, o) = {}
      BY <2>2, Zenon DEF RegionsIn
    <2>5. QED BY <2>3, <2>4, FS_EmptySet, Zenon
  <1>5. CountInv
    BY <1>4 DEF FileInit, CountInv
  <1>6. ASSUME NEW f \in Filesystem PROVE Cardinality(OpenedIn(home, f)) = 0
    <2>1. OpenedIn(home, f) = {}
      BY FileHandlesAssumption, Zenon DEF FileInit, OpenedIn
    <2>2. QED BY <2>1, FS_EmptySet, Zenon
  <1>7. ObjectInv
    BY <1>6, Zenon DEF FileInit, ObjectInv
  <1>8. MountInv
    <2> DEFINE m == [path |-> BootPath, fs |-> BootVolume]
    <2>1. m \in [path : Path, fs : Volume] /\ m.fs = BootVolume
      BY FileHandlesAssumption, Zenon
    <2>2. mounts = Append(<<>>, m)
      BY DEF FileInit
    <2> HIDE DEF m
    <2>3. mounts \in Seq([path : Path, fs : Volume])
      BY <2>1, <2>2
    <2>4. ASSUME NEW v \in Volume PROVE fsRefs[v] = Cardinality(MountsIn(mounts, v))
      <3>1. <<>> \in Seq([path : Path, fs : Volume])
        OBVIOUS
      <3>2. Cardinality(MountsIn(Append(<<>>, m), v)) = Cardinality(MountsIn(<<>>, v)) + Same(m.fs, v)
        BY <2>1, <3>1, AppendMount, Zenon
      <3>3. MountsIn(<<>>, v) = {}
        BY DEF MountsIn
      <3>4. Cardinality(MountsIn(<<>>, v)) = 0
        BY <3>3, FS_EmptySet, Zenon
      <3>5. fsRefs[v] = Same(BootVolume, v) /\ Same(BootVolume, v) \in Nat
        BY Zenon DEF FileInit, Same, Filesystem
      <3>6. QED BY <2>1, <2>2, <3>2, <3>4, <3>5
    <2>5. fsRefs \in [Filesystem -> Nat] /\ fsRefs[PipeManager] > 0 /\ fsRefs[RootFilesystem] > 0
      BY FileHandlesAssumption DEF FileInit, Filesystem
    <2>6. QED BY <2>3, <2>4, <2>5, Zenon DEF MountInv
  <1>9. ProcessInv
    BY Zenon DEF FileInit, ProcessInv, NothingHeld
  <1>10. QED BY <1>3, <1>5, <1>7, <1>8, <1>9, Zenon DEF FileInv

\* Every step keeps the invariant.
LEMMA FileStep == FileInv /\ [FileNext]_fileVars => FileInv'
  <1> SUFFICES ASSUME FileInv, [FileNext]_fileVars PROVE FileInv'
    BY Zenon
  <1>1. CASE UNCHANGED fileVars
    <2>1. /\ UNCHANGED <<status, fds, regions, refcount, home, openObjects, corrupt, mounts, fsRefs>>
          /\ UNCHANGED <<busy, lost, tainted>>
      BY <1>1, Zenon DEF fileVars, objectVars, mountVars
    <2>2. ObjectInv' /\ TableInv' /\ CountInv' /\ MountInv'
      BY <2>1, Zenon DEF FileInv, ObjectInv, TableInv, CountInv, MountInv
    <2>3. ProcessInv'
      BY <2>1, Zenon DEF FileInv, ProcessInv, NothingHeld
    <2>4. QED BY <2>2, <2>3, Zenon DEF FileInv
  <1>2. ASSUME NEW p \in Process, NEW o \in Object, OpenRoot(p, o) PROVE FileInv'
    BY <1>2, OpenRootKeeps, Zenon
  <1>3. ASSUME NEW p \in Process, NEW o \in Object, NEW path \in Path, Open(p, path, o) PROVE FileInv'
    BY <1>3, OpenPathKeeps, Zenon
  <1>4. ASSUME NEW p \in Process, NEW i \in Fd, Close(p, i) PROVE FileInv'
    BY <1>4, CloseKeeps, Zenon
  <1>5. ASSUME NEW p \in Process, NEW i \in Fd, Mmap(p, i) PROVE FileInv'
    BY <1>5, MmapKeeps, Zenon
  <1>6. ASSUME NEW p \in Process, NEW i \in Fd, NEW min \in Fd, Dup(p, i, min) PROVE FileInv'
    BY <1>6, DupKeeps, Zenon
  <1>7. ASSUME NEW p \in Process, NEW r \in Region, Unmap(p, r) PROVE FileInv'
    BY <1>7, UnmapKeeps, Zenon
  <1>8. ASSUME NEW p \in Process, NEW o1 \in Object, NEW o2 \in Object, Pipe(p, o1, o2) PROVE FileInv'
    BY <1>8, PipeKeeps, Zenon
  <1>9. ASSUME NEW p \in Process, NEW path \in Path, Unmount(p, path) PROVE FileInv'
    BY <1>9, UnmountKeeps, Zenon
  <1>10. ASSUME NEW p \in Process, NEW path \in Path, NEW v \in Volume, Mount(p, v, path) PROVE FileInv'
    BY <1>10, MountKeeps, Zenon
  <1>11. ASSUME NEW p \in Process, NEW c \in Process, NEW clone \in BOOLEAN, Spawn(p, c, clone) PROVE FileInv'
    BY <1>11, SpawnKeeps, Zenon
  <1>12. ASSUME NEW i \in Fd, CloseChildFd(i) \/ DupParentFd(i) \/ CloseAtExit(i) PROVE FileInv'
    BY <1>12, CloseChildFdKeeps, DupParentFdKeeps, CloseAtExitKeeps, Zenon
  <1>13. ASSUME NEW r \in Region, CleanupRegion(r) PROVE FileInv'
    BY <1>13, CleanupRegionKeeps, Zenon
  <1>14. ASSUME EndOfList \/ Exited \/ \E p \in Process : Exit(p) \/ Delete(p) PROVE FileInv'
    BY <1>14, ExitEndsKeeps, Zenon
  <1>15. QED
    BY <1>1, <1>2, <1>3, <1>4, <1>5, <1>6, <1>7, <1>8, <1>9, <1>10, <1>11, <1>12, <1>13, <1>14, Zenon
       DEF FileNext

\* The counts of files and filesystems, the tables and the processes are as
\* FileInv says.
THEOREM FileInvHolds == FileSpec => []FileInv
  BY FileStarts, FileStep, PTL DEF FileSpec

\* Whatever processes open, copy, map, inherit, close and unmap, and however many
\* there are, the reference count of a file is the number of its handles, regions
\* and lost references, and it is open exactly while that is not zero.
THEOREM ReferencesAlwaysCounted == FileSpec => []ReferencesCounted
  <1>1. FileInv => ReferencesCounted
    <2> SUFFICES ASSUME FileInv PROVE ReferencesCounted
      BY Zenon
    <2>1. \A o \in Object : HandlesOf(o) = HandlesIn(fds, o) /\ RegionsOf(o) = RegionsIn(regions, o)
      BY Zenon DEF HandlesOf, RegionsOf, HandlesIn, RegionsIn
    <2>2. corrupt => tainted # {}
      BY Zenon DEF FileInv, CountInv
    <2>3. ASSUME ~corrupt, NEW o \in Object \ tainted
          PROVE  refcount[o] = Cardinality(HandlesOf(o)) + Cardinality(RegionsOf(o)) + lost[o]
      <3>1. refcount[o] = Cardinality(HandlesIn(fds, o)) + Cardinality(RegionsIn(regions, o)) + lost[o]
        BY <2>3, Zenon DEF FileInv, CountInv
      <3>2. QED BY <2>1, <3>1, Zenon
    <2>4. \A o \in Object : home[o] = None <=> refcount[o] = 0
      BY Zenon DEF FileInv, ObjectInv
    <2>5. QED BY <2>2, <2>3, <2>4, Zenon DEF ReferencesCounted
  <1>2. QED BY <1>1, FileInvHolds, PTL

\* A filesystem has one reference per mount, knows how many objects are open in
\* it, and is there while one is: unmount never deletes it under an open file.
THEOREM FilesystemsAlwaysCounted == FileSpec => []FilesystemsCounted
  <1>1. FileInv => FilesystemsCounted
    <2> SUFFICES ASSUME FileInv PROVE FilesystemsCounted
      BY Zenon
    <2>1. \A v \in Volume : MountsIn(mounts, v) = {k \in DOMAIN mounts : mounts[k].fs = v}
      BY Zenon DEF MountsIn
    <2>2. \A f \in Filesystem : OpenedIn(home, f) = {o \in Object : home[o] = f}
      BY Zenon DEF OpenedIn
    <2>3. \A v \in Volume : fsRefs[v] = Cardinality(MountsIn(mounts, v))
      BY Zenon DEF FileInv, MountInv
    <2>4. \A f \in Filesystem : openObjects[f] = Cardinality(OpenedIn(home, f))
      BY Zenon DEF FileInv, ObjectInv
    <2>5. \A o \in Object : home[o] # None => fsRefs[home[o]] > 0
      BY Zenon DEF FileInv, ObjectInv
    <2>6. QED BY <2>1, <2>2, <2>3, <2>4, <2>5, Zenon DEF FilesystemsCounted
  <1>2. QED BY <1>1, FileInvHolds, PTL
================================================================================
