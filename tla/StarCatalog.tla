------------------------------ MODULE StarCatalog ------------------------------
(***************************************************************************)
(* What a StarDS dataset promises its caller, with no file layout in it:   *)
(* an open handle shows a map from keys to arrays (the view), every file   *)
(* holds a map as well, flush() and the closing of a writable handle copy  *)
(* the view to the file, and nothing else changes a file.                  *)
(* StarDataset is shown to implement this module.                          *)
(***************************************************************************)
CONSTANTS Keys,      \* the array names a caller uses
          Vals,      \* the arrays (element type, shape and elements together)
          Missing,   \* the view of a key that was never put
          Absent,    \* a file that does not exist, or a handle that is closed
          Paths,     \* the files a caller names
          ReadOnly, ReadWrite, \* FileMode::READ_ONLY, FileMode::READ_WRITE
          Crashes    \* whether the process may die

VARIABLES view,      \* the map the open handle shows, Absent when none is open
          saved,     \* the map each file holds, Absent when it does not exist
          file,      \* the file of the open handle
          mode       \* the mode of the open handle

catVars == <<view, saved, file, mode>>

NoKeys == [k \in Keys |-> Missing]
Maps == [Keys -> Vals \cup {Missing}]

\* No handle, and the files that earlier programs left.
CatInit == /\ view = Absent
           /\ saved \in [Paths -> Maps \cup {Absent}]
           /\ file \in Paths
           /\ mode = ReadOnly

Opened(m, p, md) == view' = m /\ file' = p /\ mode' = md

\* create(): an existing file is deleted, and the handle starts empty.
CatCreate(p) == /\ view = Absent
                /\ saved' = [saved EXCEPT ![p] = Absent]
                /\ Opened(NoKeys, p, ReadWrite)

\* open(): the handle shows what the file holds; a missing file can only be
\* opened for writing, and then shows nothing.
CatOpen(p, md) == /\ view = Absent
                  /\ saved[p] = Absent => md = ReadWrite
                  /\ Opened(IF saved[p] = Absent THEN NoKeys ELSE saved[p], p, md)
                  /\ UNCHANGED saved

CatPut(k, v) == /\ view # Absent
                /\ view' = [view EXCEPT ![k] = v]
                /\ UNCHANGED <<saved, file, mode>>

CatFlush == /\ view # Absent /\ mode = ReadWrite
            /\ saved' = [saved EXCEPT ![file] = view]
            /\ UNCHANGED <<view, file, mode>>

\* close() and the destructor: a writable handle saves its view.
CatClose == /\ view # Absent
            /\ saved' = IF mode = ReadWrite THEN [saved EXCEPT ![file] = view] ELSE saved
            /\ view' = Absent
            /\ UNCHANGED <<file, mode>>

\* The process ends without running any destructor.
CatCrash == Crashes /\ view # Absent /\ view' = Absent /\ UNCHANGED <<saved, file, mode>>

CatNext == \/ \E p \in Paths : CatCreate(p)
           \/ \E p \in Paths, md \in {ReadOnly, ReadWrite} : CatOpen(p, md)
           \/ \E k \in Keys, v \in Vals : CatPut(k, v)
           \/ CatFlush
           \/ CatClose
           \/ CatCrash

CatSpec == CatInit /\ [][CatNext]_catVars
================================================================================
