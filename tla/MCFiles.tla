-------------------------------- MODULE MCFiles --------------------------------
(***************************************************************************)
(* Files, the disk cache and the terminal, each on its own: one of them    *)
(* moves in a behaviour and the others stay as they are.  Two are looked   *)
(* at twice, to keep what multiplies apart.  Files: "handles" has two      *)
(* processes over one mount, "mounts" one process and all mounts.  Keys:   *)
(* "keys" has every key and one reader that stays in the foreground,       *)
(* "foreground" the attention chord, over and over, and readers that come, *)
(* go and get killed by it.                                                *)
(***************************************************************************)
EXTENDS FileHandles, SectorCache, Keyboard, TTYFile, Screen, SequencesExt

VARIABLE part

storageVars == <<part, fileVars, diskVars, keyVars, ttyVars, screenVars>>

StorageInit ==
    /\ part \in {"handles", "mounts", "disk", "keys", "foreground", "line", "screen"}
    /\ FileInit
    /\ DiskInit
    /\ part # "disk" => \A s \in DOMAIN disk : disk[s] = CHOOSE d \in Data : TRUE
    /\ KeyInit
    /\ TTYInit
    /\ ScreenInit

\* What the two parts about files leave out.
OneMount == mounts' = mounts /\ openObjects'[RootFilesystem] = 0
OneProcess == \A p \in Process \ {First} : status'[p] = "free"

FilesNext ==
    /\ part \in {"handles", "mounts"}
    /\ FileNext
    /\ IF part = "handles" THEN OneMount ELSE OneProcess
    /\ UNCHANGED <<part, diskVars, keyVars, ttyVars, screenVars>>

DiskCacheNext ==
    /\ part = "disk"
    /\ DiskNext
    /\ UNCHANGED <<part, fileVars, keyVars, ttyVars, screenVars>>

\* What the two parts about keys leave out.
OneReader == foreground' = foreground /\ \A p \in Reader \ {InitReader} : reader'[p] = "idle"
OneChord == bytes' # bytes =>
    CASE bytes = 0 -> modifiersDown'
      [] bytes % 2 = 1 -> isBreakCode'
      [] OTHER -> arrived' # arrived /\ Last(arrived').key = "delete"

KeyboardNext ==
    /\ part \in {"keys", "foreground"}
    /\ KeyNext
    /\ IF part = "keys" THEN OneReader ELSE OneChord
    /\ UNCHANGED <<part, fileVars, diskVars, ttyVars, screenVars>>

LineNext ==
    /\ part = "line"
    /\ TTYNext
    /\ UNCHANGED <<part, fileVars, diskVars, keyVars, screenVars>>

ScreenWriteNext ==
    /\ part = "screen"
    /\ ScreenNext
    /\ UNCHANGED <<part, fileVars, diskVars, keyVars, ttyVars>>

StorageNext == FilesNext \/ DiskCacheNext \/ KeyboardNext \/ LineNext \/ ScreenWriteNext

StorageSpec == StorageInit /\ [][StorageNext]_storageVars

Objects == Permutations(Object)
================================================================================
