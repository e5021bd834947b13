----------------------------- MODULE HttpRequest -----------------------------
(***************************************************************************)
(* A request that a worker of the job pool makes: CHttpRequest             *)
(* (engine/shared/http.cpp, http.h).                                       *)
(*                                                                         *)
(* Run is the worker's; in the meantime another thread asks for the state  *)
(* and the result, and may ask for an abort.  libcurl does the transfer    *)
(* and calls back with the data and with the progress.                     *)
(*                                                                         *)
(* Abstractions.  One request.  A body is its length.  A response goes to  *)
(* memory or to a file, which may exist before.                            *)
(***************************************************************************)
EXTENDS Integers

CONSTANTS
  BodyLengths,  \* what a server answers
  MaxResponse,  \* m_MaxResponseSize; -1 for no limit
  MinBuffer     \* the smallest buffer (1024)

ASSUME HttpAssumption ==
  /\ BodyLengths \subseteq Nat /\ MaxResponse \in Nat \union {-1}
  /\ MinBuffer \in Nat \ {0}
  /\ \E n \in BodyLengths : \A k \in BodyLengths : k <= n

VARIABLES
  toFile,     \* m_WriteToFile
  httpBody,   \* length of the body, known to the server
  httpStage,  \* the worker: "queued", "transfer", "completion", "over"
  httpState,  \* m_State
  final,      \* FinalState
  abort,      \* m_Abort
  received,   \* m_ResponseLength
  buffer,     \* m_BufferSize
  httpFile    \* the destination: "none", "old", "part" or "whole"

httpVars == <<toFile, httpBody, httpStage, httpState, final, abort, received, buffer, httpFile>>

HttpStates == {"queued", "running", "done", "error", "aborted"}
Longest == CHOOSE n \in BodyLengths : \A k \in BodyLengths : k <= n

HttpTypeOK ==
  /\ toFile \in BOOLEAN /\ httpBody \in BodyLengths /\ abort \in BOOLEAN
  /\ httpStage \in {"queued", "transfer", "completion", "over"}
  /\ httpState \in HttpStates /\ final \in HttpStates
  /\ received \in 0 .. Longest /\ buffer \in Nat
  /\ httpFile \in {"none", "old", "part", "whole"}

HttpInit ==
  /\ toFile \in BOOLEAN /\ httpBody \in BodyLengths
  /\ httpFile \in IF toFile THEN {"none", "old"} ELSE {"none"}
  /\ httpStage = "queued" /\ httpState = "queued" /\ final = "queued"
  /\ abort = FALSE /\ received = 0 /\ buffer = 0

-----------------------------------------------------------------------------
\* Abort, by another thread.
AbortRequest ==
  /\ abort' = TRUE
  /\ UNCHANGED <<toFile, httpBody, httpStage, httpState, final, received, buffer, httpFile>>

(***************************************************************************)
(* Run, up to the transfer: BeforeInit opens the file, which empties it,   *)
(* or fails to; libcurl may have no handle to give.                        *)
(***************************************************************************)
CannotStart ==
  /\ httpStage = "queued"
  /\ httpStage' = "completion" /\ final' = "error"
  /\ httpFile' \in IF toFile THEN {httpFile, "part"} ELSE {httpFile}
  /\ UNCHANGED <<toFile, httpBody, httpState, abort, received, buffer>>

StartTransfer ==
  /\ httpStage = "queued"
  /\ httpStage' = "transfer" /\ httpState' = "running"
  /\ httpFile' = IF toFile THEN "part" ELSE httpFile
  /\ UNCHANGED <<toFile, httpBody, final, abort, received, buffer>>

EndTransfer(result) ==
  /\ httpStage = "transfer"
  /\ httpStage' = "completion" /\ final' = result
  /\ UNCHANGED <<toFile, httpBody, httpState, abort, httpFile>>

\* Mutant of GrownBuffer: doubled at most once.
GrownBufferOnce(size, need) == IF need > size THEN 2 * size ELSE size

\* The buffer is doubled until the data fits.
GrownBuffer(size, need) ==
  LET grown[k \in 0 .. need] ==
        IF k = 0 THEN size
        ELSE IF grown[k - 1] >= need THEN grown[k - 1] ELSE 2 * grown[k - 1]
  IN  grown[need]

(***************************************************************************)
(* OnData: n bytes.  A response that gets too long ends the transfer, and  *)
(* so does a write to the file that fails.                                 *)
(***************************************************************************)
Data(n) ==
  /\ httpStage = "transfer" /\ received + n <= httpBody
  /\ IF MaxResponse >= 0 /\ received + n > MaxResponse
     THEN EndTransfer("error") /\ UNCHANGED <<received, buffer>>
     ELSE /\ received' = received + n
          /\ IF toFile
             THEN /\ UNCHANGED buffer
                  /\ \/ UNCHANGED <<toFile, httpBody, httpStage, httpState, final, abort, httpFile>>
                     \/ EndTransfer("error")
             ELSE /\ buffer' = GrownBuffer(IF buffer < MinBuffer THEN MinBuffer ELSE buffer,
                                           received + n)
                  /\ UNCHANGED <<toFile, httpBody, httpStage, httpState, final, abort, httpFile>>

\* ProgressCallback: an abort that was asked for ends the transfer.
SeesAbort ==
  /\ abort
  /\ EndTransfer("aborted") /\ UNCHANGED <<received, buffer>>

\* The network fails, a timeout or a status that is an error.
TransferFails == EndTransfer("error") /\ UNCHANGED <<received, buffer>>

TransferSucceeds ==
  /\ received = httpBody
  /\ EndTransfer("done") /\ UNCHANGED <<received, buffer>>

\* io_close returns 1 whatever becomes of the file.
CloseResult == 1

\* Mutant of Removed: only an abort has the file removed.
RemovedIfAborted(result) == result = "aborted"

Removed(result) == result \in {"error", "aborted"}

(***************************************************************************)
(* OnCompletion and the end of Run: the file is closed, a close that did   *)
(* not return 0 is an error, and what was not done is removed.  The state  *)
(* is set last.                                                            *)
(***************************************************************************)
Completion ==
  LET opened == toFile /\ httpFile = "part"
      result == IF opened /\ CloseResult # 0 THEN "error" ELSE final
  IN  /\ httpStage = "completion"
      /\ httpStage' = "over" /\ httpState' = result
      /\ httpFile' = IF ~toFile THEN httpFile
                     ELSE IF Removed(result) THEN "none"
                     ELSE IF received = httpBody THEN "whole" ELSE httpFile
      /\ UNCHANGED <<toFile, httpBody, final, abort, received, buffer>>

HttpNext ==
  \/ AbortRequest \/ CannotStart \/ StartTransfer
  \/ \E n \in 1 .. Longest : Data(n)
  \/ SeesAbort \/ TransferFails \/ TransferSucceeds \/ Completion

HttpSpec == HttpInit /\ [][HttpNext]_httpVars

(***************************************************************************)
(* Result, which other threads call at any time: length of the data that   *)
(* they get, -1 for none.                                                  *)
(***************************************************************************)
Result == IF toFile \/ httpState # "done" THEN -1 ELSE received

(***************************************************************************)
(* A result that another thread gets is the whole response, within the     *)
(* limit and within its buffer, and a request that ended without success   *)
(* leaves no part of a file behind (http.cpp:293-326, :343-359, :374-384). *)
(***************************************************************************)
ResponseIsWhole ==
  /\ Result # -1 => /\ Result = httpBody /\ Result <= buffer
                    /\ MaxResponse = -1 \/ Result <= MaxResponse
  /\ ~toFile => received <= buffer
  /\ httpState \in {"error", "aborted"} => httpFile = "none"

(***************************************************************************)
(* A response that arrived and was written to the end is kept: the file is *)
(* there and the request is done (system.h:317: io_close returns 0 on      *)
(* success; http.cpp:347 takes anything else for an i/o error).  The code  *)
(* does not keep to it (README, section 4), and no run checks it.          *)
(***************************************************************************)
WholeFileIsKept ==
  httpStage = "over" /\ final = "done" /\ toFile => httpState = "done" /\ httpFile = "whole"
=============================================================================
