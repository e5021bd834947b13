------------------------------ MODULE MapReload ------------------------------
(***************************************************************************)
(* A new map: the main loop of CServer::Run, the threads that generate     *)
(* maps (ReloadMapThread) and the file they share                          *)
(* (engine/server/server.cpp, the end of mapgen.cpp, map.cpp).             *)
(*                                                                         *)
(* A request sets m_MapReload; while it is set, every turn of the main     *)
(* loop starts a thread.  The threads take turns by m_MapLock, the main    *)
(* loop does not take it: it loads the file when m_GeneratedMap says that  *)
(* there is a new one.                                                     *)
(*                                                                         *)
(* Abstractions.  A map is a number.  A file that is being written may     *)
(* have a header that can be read or not.  The reload that ticks out of    *)
(* range force (after a year) is left out, and so are threads that wait    *)
(* for the lock beyond the bound: they only generate once more.            *)
(***************************************************************************)
EXTENDS Integers

CONSTANTS
  MaxRequests,  \* bound: requests for a new map
  MaxWaiting    \* bound: threads that wait for the lock

ASSUME MapReloadAssumption == MaxRequests \in Nat /\ MaxWaiting \in Nat \ {0}

VARIABLES
  mapReload,   \* m_MapReload
  generatedMap,\* m_GeneratedMap
  requests,    \* history: how many requests there were
  running,     \* m_RunServer
  mainPc,      \* where the main loop is in its turn
  waiting,     \* how many threads wait for m_MapLock
  threadPc,    \* where the thread that holds m_MapLock is, "none" if none does
  file,        \* the map file: the number of the map, and whether it is complete
  loaded,      \* the file as m_pMap has it, whose sha256 and crc are announced
  download,    \* the file as m_pCurrentMapData has it
  played       \* the file as the game read its layers from it

reloadVars == <<mapReload, generatedMap, requests, running, mainPc, waiting,
                threadPc, file, loaded, download, played>>

\* Maps that can be told apart: those in the variables and one that is new.
MapNumbers == 0 .. 4
Files == [map : MapNumbers, complete : BOOLEAN]

ReloadTypeOK ==
  /\ mapReload \in BOOLEAN /\ generatedMap \in BOOLEAN
  /\ requests \in 0 .. MaxRequests
  /\ running \in BOOLEAN
  /\ mainPc \in {"turn", "open", "read", "clear", "notify", "thread", "pump"}
  /\ waiting \in 0 .. MaxWaiting
  /\ threadPc \in {"none", "locked", "create", "write", "done", "failed", "unlock"}
  /\ file \in Files /\ loaded \in Files /\ download \in Files /\ played \in Files

\* The first map is loaded before the main loop starts.
ReloadInit ==
  /\ mapReload = FALSE /\ generatedMap = FALSE
  /\ requests = 0 /\ running = TRUE /\ mainPc = "pump"
  /\ waiting = 0 /\ threadPc = "none"
  /\ file = [map |-> 0, complete |-> TRUE]
  /\ loaded = file /\ download = file /\ played = file

NewMap == CHOOSE n \in MapNumbers :
  n \notin {file.map, loaded.map, download.map, played.map}

-----------------------------------------------------------------------------
(* The main loop. *)

MainAt(here, there) == running /\ mainPc = here /\ mainPc' = there

\* if(m_GeneratedMap): LoadMap begins and takes back a request.
BeginTurn ==
  /\ MainAt("turn", IF generatedMap THEN "open" ELSE "thread")
  /\ mapReload' = (mapReload /\ ~generatedMap)
  /\ UNCHANGED <<generatedMap, requests, running, waiting, threadPc, file,
                 loaded, download, played>>

\* m_pMap->Load: it fails on a file without header, and LoadMap returns 0.
OpenMap ==
  /\ \/ /\ MainAt("open", "read")
        /\ loaded' = file
     \/ /\ ~file.complete
        /\ MainAt("open", "thread")
        /\ UNCHANGED loaded
  /\ UNCHANGED <<mapReload, generatedMap, requests, running, waiting, threadPc,
                 file, download, played>>

\* The file is read again into m_pCurrentMapData.
ReadMap ==
  /\ MainAt("read", "clear")
  /\ download' = file
  /\ UNCHANGED <<mapReload, generatedMap, requests, running, waiting, threadPc,
                 file, loaded, played>>

\* m_GeneratedMap = 0
ClearFlag ==
  /\ MainAt("clear", "notify")
  /\ generatedMap' = FALSE
  /\ UNCHANGED <<mapReload, requests, running, waiting, threadPc, file, loaded,
                 download, played>>

\* OnShutdown, the clients fetch the map, OnInit: the game reads its layers
\* from the file, which m_pMap holds open.
Notify ==
  /\ MainAt("notify", "thread")
  /\ played' = file
  /\ UNCHANGED <<mapReload, generatedMap, requests, running, waiting, threadPc,
                 file, loaded, download>>

\* if(m_MapReload) CreateMapThread();
StartThread ==
  /\ MainAt("thread", "pump")
  /\ waiting' = IF mapReload /\ waiting < MaxWaiting THEN waiting + 1 ELSE waiting
  /\ UNCHANGED <<mapReload, generatedMap, requests, running, threadPc, file,
                 loaded, download, played>>

\* The rest of the turn: RegenerateMap by a command, or the server is empty.
Pump ==
  /\ MainAt("pump", "turn")
  /\ \/ UNCHANGED <<mapReload, requests>>
     \/ /\ requests < MaxRequests
        /\ mapReload' = TRUE
        /\ requests' = requests + 1
  /\ UNCHANGED <<generatedMap, running, waiting, threadPc, file, loaded,
                 download, played>>

MainLoop ==
  \/ BeginTurn \/ OpenMap \/ ReadMap \/ ClearFlag \/ Notify \/ StartThread \/ Pump

-----------------------------------------------------------------------------
(* ReloadMapThread. *)

ThreadAt(here, there) == threadPc = here /\ threadPc' = there

TakeLock ==
  /\ waiting > 0
  /\ ThreadAt("none", "locked")
  /\ waiting' = waiting - 1
  /\ UNCHANGED <<mapReload, generatedMap, requests, running, mainPc, file,
                 loaded, download, played>>

\* m_MapReload = 0
TakeRequest ==
  /\ ThreadAt("locked", "create")
  /\ mapReload' = FALSE
  /\ UNCHANGED <<generatedMap, requests, running, mainPc, waiting, file, loaded,
                 download, played>>

\* CreateMap: the file is opened, which empties it, or cannot be opened.
CreateMap ==
  /\ \/ /\ ThreadAt("create", "write")
        /\ file' = [map |-> NewMap, complete |-> FALSE]
     \/ /\ ThreadAt("create", "failed")
        /\ UNCHANGED file
  /\ UNCHANGED <<mapReload, generatedMap, requests, running, mainPc, waiting,
                 loaded, download, played>>

\* m_DataFile.Finish()
WriteMap ==
  /\ ThreadAt("write", "done")
  /\ file' = [file EXCEPT !.complete = TRUE]
  /\ UNCHANGED <<mapReload, generatedMap, requests, running, mainPc, waiting,
                 loaded, download, played>>

\* m_GeneratedMap = 1
SetFlag ==
  /\ ThreadAt("done", "unlock")
  /\ generatedMap' = TRUE
  /\ UNCHANGED <<mapReload, requests, running, mainPc, waiting, file, loaded,
                 download, played>>

\* The map could not be created: the lock is freed, then "shutdown".
GiveUp ==
  /\ ThreadAt("failed", "none")
  /\ running' = FALSE
  /\ UNCHANGED <<mapReload, generatedMap, requests, mainPc, waiting, file,
                 loaded, download, played>>

\* Mutant of Unlocked: a thread ends with the lock.
StillLocked == "end"

\* lock_unlock
Unlocked == "none"

ReleaseLock ==
  /\ ThreadAt("unlock", Unlocked)
  /\ UNCHANGED <<mapReload, generatedMap, requests, running, mainPc, waiting,
                 file, loaded, download, played>>

MapThread ==
  \/ TakeLock \/ TakeRequest \/ CreateMap \/ WriteMap \/ SetFlag
  \/ GiveUp \/ ReleaseLock

ReloadNext == MainLoop \/ MapThread

\* The thread of the main loop runs on, and so does each generator.
ReloadFairness == WF_reloadVars(MainLoop) /\ WF_reloadVars(MapThread)

ReloadSpec == ReloadInit /\ [][ReloadNext]_reloadVars /\ ReloadFairness

-----------------------------------------------------------------------------
\* A request is followed by a new map, however many threads it starts and
\* however often the file cannot be loaded because one of them writes it,
\* unless the server stops (server.cpp:1824, :2005, :2030).
NewMapComes == mapReload ~> (mainPc = "notify" \/ ~running)

\* At the end of a turn, what clients download is the map that was loaded, whose
\* sha256 and crc they were told ("load complete map into memory for download",
\* server.cpp:1865).  It does not hold: the file is read a second time, and the
\* next generator may have begun to write it.
DownloadIsAnnounced == mainPc = "pump" => download = loaded
=============================================================================
