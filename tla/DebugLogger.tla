----------------------------- MODULE DebugLogger -----------------------------
(***************************************************************************)
(* The driver's debug log (class Debugger): a table in memory that the     *)
(* pose thread of the reference tracker and that of the headset fill row   *)
(* by row, and that is written to a file when logging is stopped from the  *)
(* overlay.  The two threads take turns by two flags that no lock guards;  *)
(* every other access to the log is locked.                                *)
(*                                                                         *)
(* A cell of the table is abstracted to the log it was filled for, and the *)
(* columns to the five groups that are filled together: the time, the      *)
(* tracker's raw motion, the reference computed from it, the headset's     *)
(* pose (as it came and compensated, with the raw velocities and           *)
(* accelerations), and its compensated velocities and accelerations.  The  *)
(* headset's part is that of applyMotionCompensation, for a headset whose  *)
(* poses go there.  One tracker at a time reports poses, so its thread is  *)
(* the only one to write Ref.                                              *)
(***************************************************************************)
EXTENDS Naturals

CONSTANTS MAX_DEBUG_ENTRIES,  \* rows of the table
          MaxLogs             \* bound of the model: logs started

ASSUME EntriesAssumption == MAX_DEBUG_ENTRIES \in Nat \ {0}
ASSUME LogsAssumption == MaxLogs \in Nat

VARIABLES compensating,     \* the driver's mode is ReferenceTracker
          buttonOn,         \* the overlay's DebugLoggerStatus is Running
          stopping,         \* the log is stopped, the file not yet written
          running, counter, wrote,  \* DebuggerRunning, DebugCounter, WroteToFile
          Ref, Hmd,         \* this row has the tracker's, the headset's part
          table, file,      \* rows in memory, and in MotionData.txt
          log,              \* history: logs started so far
          lost,             \* history: the log met a file that does not open
          ref, hmd          \* where the two pose threads are

overlayVars == <<compensating, buttonOn>>
flagVars == <<Ref, Hmd>>
vars == <<overlayVars, stopping, running, counter, wrote, flagVars, table, file,
          log, lost, ref, hmd>>

Row == 0..MAX_DEBUG_ENTRIES - 1
Column == {"time", "raw", "ref", "hmdPose", "hmdMCVel"}
NoLog == 0
Cells == [Column -> 0..MaxLogs]
EmptyRow == [c \in Column |-> NoLog]

Init ==
  /\ compensating = FALSE
  /\ buttonOn = FALSE
  /\ stopping = FALSE
  /\ running = FALSE
  /\ counter = 0
  /\ wrote = FALSE
  /\ Ref = FALSE
  /\ Hmd = FALSE
  /\ table = [i \in Row |-> EmptyRow]
  /\ file = [rows |-> 0, cells |-> table]
  /\ log = 0
  /\ lost = FALSE
  /\ ref = "idle"
  /\ hmd = "idle"

-----------------------------------------------------------------------------
(* The overlay. *)

SetMode ==
  /\ compensating' = ~compensating
  /\ UNCHANGED <<buttonOn, stopping, running, counter, wrote, flagVars, table,
                 file, log, lost, ref, hmd>>

(* Bug: the second log is taken for written. *)
StartKeepingFile ==
  /\ counter' = 0
  /\ running' = TRUE
  /\ log' = log + 1
  /\ lost' = FALSE
  /\ UNCHANGED wrote

(* The flags stay as the last log left them. *)
Start ==
  /\ counter' = 0
  /\ running' = TRUE
  /\ wrote' = FALSE
  /\ log' = log + 1
  /\ lost' = FALSE

(* setDebugMode, with StartDebugData in the driver.  A refusal is recorded
   like a start: the switch on the error never reaches its return. *)
StartLogging ==
  /\ ~buttonOn /\ ~stopping
  /\ buttonOn' = TRUE
  /\ IF compensating /\ ~running
       THEN log < MaxLogs /\ Start
       ELSE UNCHANGED <<counter, running, wrote, log, lost>>
  /\ UNCHANGED <<compensating, stopping, flagVars, table, file, ref, hmd>>

(* StopDebugData: Stop and then WriteFile. *)
StopLogging ==
  /\ buttonOn /\ ~stopping
  /\ stopping' = TRUE
  /\ running' = FALSE
  /\ UNCHANGED <<overlayVars, counter, wrote, flagVars, table, file, log,
                 lost, ref, hmd>>

(* The rows that have been counted. *)
Written ==
  [rows |-> counter,
   cells |-> [i \in Row |-> IF i < counter THEN table[i] ELSE EmptyRow]]

(* A file that does not open sets failbit only: bad() does not see it, nothing
   is written, and the log counts as written all the same. *)
WriteFile ==
  /\ stopping
  /\ stopping' = FALSE
  /\ buttonOn' = FALSE
  /\ IF ~wrote /\ counter > 0
       THEN /\ wrote' = TRUE
            /\ \/ /\ file' = Written
                  /\ UNCHANGED lost
               \/ /\ lost' = TRUE
                  /\ UNCHANGED file
       ELSE UNCHANGED <<file, wrote, lost>>
  /\ UNCHANGED <<compensating, running, counter, flagVars, table, log, ref, hmd>>

(* Nothing tells the driver. *)
OverlayRestarts ==
  /\ buttonOn /\ ~stopping
  /\ buttonOn' = FALSE
  /\ UNCHANGED <<compensating, stopping, running, counter, wrote, flagVars, table,
                 file, log, lost, ref, hmd>>

-----------------------------------------------------------------------------
(* The pose threads.  Each test of the flags reads them one after the other. *)

AddDebugData(c) ==
  table' = IF running THEN [table EXCEPT ![counter][c] = log] ELSE table

(* Bug: one row too many. *)
CountUpOver ==
  IF ~running THEN UNCHANGED <<table, counter, running, flagVars>>
  ELSE /\ AddDebugData("time")
       /\ IF counter >= MAX_DEBUG_ENTRIES
            THEN running' = FALSE /\ UNCHANGED <<counter, flagVars>>
            ELSE /\ counter' = counter + 1
                 /\ Ref' = FALSE
                 /\ Hmd' = FALSE
                 /\ UNCHANGED running

(* Bug: the headset's flag stays. *)
CountUpKeepingHmd ==
  IF ~running THEN UNCHANGED <<table, counter, running, flagVars>>
  ELSE /\ AddDebugData("time")
       /\ IF counter >= MAX_DEBUG_ENTRIES - 1
            THEN running' = FALSE /\ UNCHANGED <<counter, flagVars>>
            ELSE /\ counter' = counter + 1
                 /\ Ref' = FALSE
                 /\ UNCHANGED <<Hmd, running>>

(* The last row is timed and stays out of the file. *)
CountUp ==
  IF ~running THEN UNCHANGED <<table, counter, running, flagVars>>
  ELSE /\ AddDebugData("time")
       /\ IF counter >= MAX_DEBUG_ENTRIES - 1
            THEN running' = FALSE /\ UNCHANGED <<counter, flagVars>>
            ELSE /\ counter' = counter + 1
                 /\ Ref' = FALSE
                 /\ Hmd' = FALSE
                 /\ UNCHANGED running

(* updateRefPose: if both parts of the row are there, go to the next one and
   begin it with the tracker's raw pose ... *)
BeginRow ==
  \/ /\ ref = "idle" /\ compensating
     /\ ref' = IF running /\ Ref THEN "hasHmd" ELSE "pose"
     /\ UNCHANGED <<running, counter, flagVars, table>>
  \/ /\ ref = "hasHmd"
     /\ ref' = IF Hmd THEN "count" ELSE "pose"
     /\ UNCHANGED <<running, counter, flagVars, table>>
  \/ /\ ref = "count" /\ ref' = "raw"
     /\ CountUp
  \/ /\ ref = "raw" /\ ref' = "pose"
     /\ AddDebugData("raw")
     /\ UNCHANGED <<running, counter, flagVars>>

(* ... and at its end add the reference, if the row has none. *)
AddReference ==
  \/ /\ ref = "pose"
     /\ ref' = IF running /\ ~Ref THEN "ref" ELSE "idle"
     /\ UNCHANGED <<running, counter, flagVars, table>>
  \/ /\ ref = "ref" /\ ref' = "gotRef"
     /\ AddDebugData("ref")
     /\ UNCHANGED <<running, counter, flagVars>>
  \/ /\ ref = "gotRef" /\ ref' = "idle"
     /\ Ref' = TRUE
     /\ UNCHANGED <<running, counter, Hmd, table>>

updateRefPose ==
  /\ BeginRow \/ AddReference
  /\ UNCHANGED <<overlayVars, stopping, wrote, file, log, lost, hmd>>

(* Bug: the headset is to go first. *)
HmdTurnFirst(start, hasRef, hasHmd, yes, no) ==
  \/ hmd = start  /\ hmd' = IF running THEN hasRef ELSE no
  \/ hmd = hasRef /\ hmd' = IF ~Ref THEN hasHmd ELSE no
  \/ hmd = hasHmd /\ hmd' = IF ~Hmd THEN yes ELSE no

(* if (IsRunning() && hasRef() && !hasHmd()) *)
HmdTurn(start, hasRef, hasHmd, yes, no) ==
  \/ hmd = start  /\ hmd' = IF running THEN hasRef ELSE no
  \/ hmd = hasRef /\ hmd' = IF Ref THEN hasHmd ELSE no
  \/ hmd = hasHmd /\ hmd' = IF ~Hmd THEN yes ELSE no

(* applyMotionCompensation makes the test twice, before and after it
   compensates the pose. *)
applyMotionCompensation ==
  /\ \/ /\ hmd = "idle" => compensating
        /\ \/ HmdTurn("idle", "hasRef", "hasHmd", "add", "pose")
           \/ HmdTurn("pose", "hasRef2", "hasHmd2", "addMC", "idle")
        /\ UNCHANGED <<Hmd, table>>
     \/ /\ hmd = "add" /\ hmd' = "pose"
        /\ AddDebugData("hmdPose")
        /\ UNCHANGED Hmd
     \/ /\ hmd = "addMC" /\ hmd' = "gotHmd"
        /\ AddDebugData("hmdMCVel")
        /\ UNCHANGED Hmd
     \/ /\ hmd = "gotHmd" /\ hmd' = "idle"
        /\ Hmd' = TRUE
        /\ UNCHANGED table
  /\ UNCHANGED <<overlayVars, stopping, running, counter, wrote, Ref, file, log,
                 lost, ref>>

-----------------------------------------------------------------------------
Next ==
  \/ SetMode
  \/ StartLogging
  \/ StopLogging
  \/ WriteFile
  \/ OverlayRestarts
  \/ updateRefPose
  \/ applyMotionCompensation

Spec == Init /\ [][Next]_vars

(* Devices go on reporting poses. *)
FairSpec ==
  Spec /\ WF_vars(updateRefPose) /\ WF_vars(applyMotionCompensation)

-----------------------------------------------------------------------------
(* The counter is an index of the table in every step of every thread, also
   when logging stops and starts in the middle of a pose (CountUp). *)
TypeOK ==
  /\ compensating \in BOOLEAN /\ buttonOn \in BOOLEAN /\ stopping \in BOOLEAN
  /\ running \in BOOLEAN /\ wrote \in BOOLEAN
  /\ Ref \in BOOLEAN /\ Hmd \in BOOLEAN
  /\ counter \in Row
  /\ table \in [Row -> Cells]
  /\ file \in [rows : Row, cells : [Row -> Cells]]
  /\ log \in 0..MaxLogs
  /\ lost \in BOOLEAN
  /\ ref \in {"idle", "hasHmd", "count", "raw", "pose", "ref", "gotRef"}
  /\ hmd \in {"idle", "hasRef", "hasHmd", "add", "pose", "hasRef2", "hasHmd2",
              "addMC", "gotHmd"}

(* Every row of the file but the first has its time, the tracker's raw motion,
   the reference and the headset's compensated velocities from one log,
   although the flags by which the threads take turns are written without a
   lock and survive into the next log.  Nothing is promised of the headset's
   pose: when the tracker's thread sets Ref between the two tests of the
   headset's, the row gets the velocities only and keeps whatever pose an
   earlier log left in the table.  Of the first row only the time is sure. *)
RowsOfOneLog ==
  \A i \in 1..file.rows - 1 : \A c \in Column \ {"hmdPose"} :
    file.cells[i][c] = file.cells[0]["time"]

(* When a stop is answered, the file has the rows of the log started last,
   if there are any: also when the table was full before, when a second stop
   follows, and when the overlay was restarted meanwhile; only not when the
   file could not be opened for this log, which is never tried again. *)
StopSaves ==
  [][stopping /\ ~stopping' /\ counter > 0 /\ ~lost' =>
       file'.rows = counter /\ file'.cells[0]["time"] = log]_vars

(* While the driver compensates, the two threads never wait for each other:
   the log is filled and stops by itself, unless it is stopped before. *)
FillsUp == <>[]compensating => (running ~> ~running)
=============================================================================
