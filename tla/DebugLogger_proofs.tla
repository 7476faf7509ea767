------------------------- MODULE DebugLogger_proofs -------------------------
(***************************************************************************)
(* For a table of any size and any number of logs: the counter stays an    *)
(* index of the table, the rows of the file are of one log, and a stop     *)
(* saves the log started last unless its file could not be opened.         *)
(***************************************************************************)
EXTENDS DebugLogger, TLAPS

(* The columns that every counted row but the first has. *)
Filled == {"raw", "ref", "hmdMCVel"}

(* Every row that has been counted is timed, and all but the first are
   filled, for the present log. *)
CountedAreFilled ==
  /\ \A i \in Row : i < counter => table[i]["time"] = log
  /\ \A i \in Row : 0 < i /\ i < counter =>
       \A c \in Filled : table[i][c] = log

(* The row at hand, unless it is the first one: what the flags and the places
   of the two threads say of it. *)
RowAtHand ==
  running /\ counter > 0 =>
    /\ ref # "raw" => table[counter]["raw"] = log
    /\ Ref \/ ref = "gotRef" => table[counter]["ref"] = log
    /\ Hmd \/ hmd = "gotHmd" => table[counter]["hmdMCVel"] = log

(* The turns: the tracker's thread counts up when both parts are there, and
   the headset's thread is then not on its way to add one. *)
TakeTurns ==
  /\ ref \in {"hasHmd", "count"} => Ref
  /\ ref = "count" => Hmd
  /\ Hmd => hmd \notin {"add", "addMC", "gotHmd"}

(* What has been written is the present log, which is over: unless the file
   did not open. *)
WrittenIsLog ==
  /\ stopping => ~running
  /\ wrote => ~running
  /\ wrote /\ ~lost => file.rows = counter /\ file.cells[0]["time"] = log

Inv ==
  /\ TypeOK
  /\ CountedAreFilled
  /\ RowAtHand
  /\ TakeTurns
  /\ WrittenIsLog
  /\ RowsOfOneLog

-----------------------------------------------------------------------------
LEMMA Rows == Row \subseteq Nat /\ 0 \in Row
  BY EntriesAssumption, SMT DEF Row

(* Adding to the table changes one column of the row at hand. *)
LEMMA Added ==
  ASSUME TypeOK, NEW c \in Column, AddDebugData(c)
  PROVE  /\ table' \in [Row -> Cells]
         /\ ~running => table' = table
         /\ running => table'[counter][c] = log
         /\ \A i \in Row, b \in Column :
              i # counter \/ b # c => table'[i][b] = table[i][b]
  <1>1. /\ table \in [Row -> [Column -> 0..MaxLogs]] /\ counter \in Row
        /\ log \in 0..MaxLogs
    BY DEF TypeOK, Cells
  <1>2. CASE ~running
    BY <1>1, <1>2 DEF AddDebugData, Cells
  <1>3. CASE running
    <2>1. table' = [table EXCEPT ![counter][c] = log]
      BY <1>3 DEF AddDebugData
    <2>2. table' \in [Row -> [Column -> 0..MaxLogs]]
      BY <1>1, <2>1
    <2> QED BY <1>1, <1>3, <2>1, <2>2 DEF Cells
  <1> QED BY <1>2, <1>3

LEMMA InitInv == Init => Inv
  <1> SUFFICES ASSUME Init PROVE Inv
    OBVIOUS
  <1>1. NoLog \in 0..MaxLogs /\ 0 \in Row
    BY LogsAssumption, Rows DEF NoLog
  <1>2. EmptyRow \in Cells
    BY <1>1 DEF Cells, EmptyRow
  <1>3. table \in [Row -> Cells]
    BY <1>2 DEF Init
  <1>4. file \in [rows : Row, cells : [Row -> Cells]]
    BY <1>1, <1>3 DEF Init
  <1>5. TypeOK
    BY <1>1, <1>3, <1>4 DEF Init, TypeOK, NoLog
  <1>6. RowsOfOneLog
    BY SMT DEF Init, RowsOfOneLog
  <1> QED
    BY <1>5, <1>6, Rows DEF Init, Inv, CountedAreFilled, RowAtHand, TakeTurns,
                            WrittenIsLog

-----------------------------------------------------------------------------
(* The overlay's steps. *)

(* Starting empties the table as far as the counter is concerned. *)
LEMMA StartLoggingInv == Inv /\ StartLogging => Inv'
  <1> SUFFICES ASSUME Inv, StartLogging PROVE Inv'
    OBVIOUS
  <1>1. CASE compensating /\ ~running
    <2>1. /\ log < MaxLogs /\ counter' = 0 /\ running' = TRUE /\ wrote' = FALSE
          /\ lost' = FALSE /\ log' = log + 1 /\ buttonOn' = TRUE /\ ~stopping
      BY <1>1 DEF StartLogging, Start
    <2>2. UNCHANGED <<compensating, stopping, flagVars, table, file, ref, hmd>>
      BY DEF StartLogging
    <2>3. log' \in 0..MaxLogs
      BY <2>1, LogsAssumption DEF Inv, TypeOK
    <2>4. TypeOK'
      BY <2>1, <2>2, <2>3, Rows DEF Inv, TypeOK, flagVars
    <2>5. CountedAreFilled' /\ RowAtHand'
      BY <2>1, Rows DEF CountedAreFilled, RowAtHand
    <2>6. TakeTurns' /\ WrittenIsLog' /\ RowsOfOneLog'
      BY <2>1, <2>2 DEF Inv, TakeTurns, WrittenIsLog, RowsOfOneLog, flagVars
    <2> QED BY <2>4, <2>5, <2>6 DEF Inv
  <1>2. CASE ~(compensating /\ ~running)
    <2>1. /\ buttonOn' = TRUE
          /\ UNCHANGED <<compensating, stopping, running, counter, wrote,
                         flagVars, table, file, log, lost, ref, hmd>>
      BY <1>2 DEF StartLogging
    <2> QED
      BY <2>1 DEF Inv, TypeOK, CountedAreFilled, RowAtHand, TakeTurns,
                  WrittenIsLog, RowsOfOneLog, flagVars
  <1> QED BY <1>1, <1>2

LEMMA WriteFileInv == Inv /\ WriteFile => Inv'
  <1> SUFFICES ASSUME Inv, WriteFile PROVE Inv'
    OBVIOUS
  <1>1. /\ stopping /\ stopping' = FALSE /\ buttonOn' = FALSE /\ ~running
        /\ UNCHANGED <<compensating, running, counter, flagVars, table, log,
                       ref, hmd>>
    BY DEF WriteFile, Inv, WrittenIsLog
  <1>2. CASE /\ ~wrote /\ counter > 0
             /\ wrote' = TRUE /\ lost' = TRUE /\ UNCHANGED file
    BY <1>1, <1>2 DEF Inv, TypeOK, CountedAreFilled, RowAtHand, TakeTurns,
                      WrittenIsLog, RowsOfOneLog, flagVars
  <1>4. CASE ~wrote /\ counter > 0 /\ wrote' = TRUE /\ file' = Written /\ UNCHANGED lost
    <2>1. counter \in Nat /\ 0 \in Row /\ EmptyRow \in Cells
      BY Rows, LogsAssumption DEF Inv, TypeOK, EmptyRow, Cells, NoLog
    <2>2. /\ file'.rows = counter
          /\ \A i \in Row : i < counter => file'.cells[i] = table[i]
      BY <1>4 DEF Written
    <2>3. TypeOK'
      <3>1. file' \in [rows : Row, cells : [Row -> Cells]]
        BY <1>4, <2>1 DEF Inv, TypeOK, Written
      <3> QED BY <1>1, <1>4, <3>1 DEF Inv, TypeOK, flagVars
    <2>4. file'.cells[0]["time"] = log
      BY <1>4, <2>1, <2>2 DEF Inv, CountedAreFilled
    <2>5. ASSUME NEW i \in 1..counter - 1, NEW c \in Column \ {"hmdPose"}
          PROVE  file'.cells[i][c] = log
      <3>1. i \in Row /\ 0 < i /\ i < counter
        BY EntriesAssumption DEF Inv, TypeOK, Row
      <3>2. c \in {"time"} \cup Filled
        BY DEF Column, Filled
      <3> QED BY <2>2, <3>1, <3>2 DEF Inv, CountedAreFilled
    <2>6. RowsOfOneLog'
      BY <2>2, <2>4, <2>5 DEF RowsOfOneLog
    <2>7. CountedAreFilled' /\ RowAtHand' /\ TakeTurns' /\ WrittenIsLog'
      BY <1>1, <1>4, <2>2, <2>4 DEF Inv, CountedAreFilled, RowAtHand, TakeTurns,
                                    WrittenIsLog, flagVars
    <2> QED BY <2>3, <2>6, <2>7 DEF Inv
  <1>3. CASE ~(~wrote /\ counter > 0)
    <2>1. UNCHANGED <<file, wrote, lost>>
      BY <1>3 DEF WriteFile
    <2> QED
      BY <1>1, <2>1 DEF Inv, TypeOK, CountedAreFilled, RowAtHand, TakeTurns,
                        WrittenIsLog, RowsOfOneLog, flagVars
  <1> QED BY <1>2, <1>3, <1>4 DEF WriteFile, Written

LEMMA OtherOverlayInv ==
  Inv /\ (SetMode \/ StopLogging \/ OverlayRestarts) => Inv'
  <1> SUFFICES ASSUME Inv, SetMode \/ StopLogging \/ OverlayRestarts PROVE Inv'
    OBVIOUS
  <1>1. /\ UNCHANGED <<counter, wrote, flagVars, table, file, log, lost, ref, hmd>>
        /\ compensating' \in BOOLEAN /\ buttonOn' \in BOOLEAN
        /\ stopping' \in BOOLEAN /\ running' \in BOOLEAN
        /\ running' => running
        /\ stopping' => ~running'
    <2>1. CASE SetMode
      BY <2>1 DEF SetMode, Inv, TypeOK, WrittenIsLog
    <2>2. CASE StopLogging
      BY <2>2 DEF StopLogging, overlayVars, Inv, TypeOK
    <2>3. CASE OverlayRestarts
      BY <2>3 DEF OverlayRestarts, Inv, TypeOK, WrittenIsLog
    <2> QED BY <2>1, <2>2, <2>3
  <1>2. TypeOK'
    BY <1>1 DEF Inv, TypeOK, flagVars
  <1>3. CountedAreFilled' /\ RowAtHand'
    BY <1>1 DEF Inv, CountedAreFilled, RowAtHand, flagVars
  <1>4. TakeTurns' /\ RowsOfOneLog'
    BY <1>1 DEF Inv, TakeTurns, RowsOfOneLog, flagVars
  <1>5. WrittenIsLog'
    BY <1>1 DEF Inv, WrittenIsLog
  <1> QED BY <1>2, <1>3, <1>4, <1>5 DEF Inv

-----------------------------------------------------------------------------
(* The pose threads' steps. *)

(* Counting up begins a row that nothing is claimed of. *)
LEMMA CountUpInv ==
  ASSUME Inv, ref = "count", ref' = "raw", CountUp,
         UNCHANGED <<overlayVars, stopping, wrote, file, log, lost, hmd>>
  PROVE  Inv'
  <1>1. counter \in Row /\ counter \in Nat /\ log \in 0..MaxLogs
    BY Rows DEF Inv, TypeOK
  <1>2. CASE ~running
    <2>1. UNCHANGED <<table, counter, running, flagVars>>
      BY <1>2, Zenon DEF CountUp
    <2> QED
      BY <1>2, <2>1 DEF Inv, TypeOK, CountedAreFilled, RowAtHand, TakeTurns,
                        WrittenIsLog, RowsOfOneLog, flagVars, overlayVars
  <1>3. CASE running
    <2>1. AddDebugData("time")
      BY <1>3 DEF CountUp
    <2>2. /\ table' \in [Row -> Cells]
          /\ table'[counter]["time"] = log
          /\ \A i \in Row, b \in Column :
               i # counter \/ b # "time" => table'[i][b] = table[i][b]
      BY <1>3, <2>1, Added DEF Inv, Column
    <2>3. /\ \A i \in Row : i < counter => table'[i]["time"] = log
          /\ \A i \in Row : 0 < i /\ i < counter =>
               \A c \in Filled : table'[i][c] = log
          /\ counter > 0 => \A c \in Filled : table'[counter][c] = log
      <3>1. Ref /\ Hmd
        BY DEF Inv, TakeTurns
      <3>2. counter > 0 => \A c \in Filled : table[counter][c] = log
        BY <1>3, <3>1 DEF Inv, RowAtHand, Filled
      <3>3. {"time"} \cup Filled \subseteq Column
        BY DEF Column, Filled
      <3> QED BY <1>1, <2>2, <3>2, <3>3, Rows DEF Inv, CountedAreFilled
    <2>4. ~stopping /\ ~wrote
      BY <1>3 DEF Inv, WrittenIsLog
    <2>5. CASE counter >= MAX_DEBUG_ENTRIES - 1
      <3>1. running' = FALSE /\ UNCHANGED <<counter, flagVars>>
        BY <1>3, <2>5 DEF CountUp
      <3> QED
        BY <2>2, <2>3, <2>4, <3>1
           DEF Inv, TypeOK, CountedAreFilled, RowAtHand, TakeTurns,
               WrittenIsLog, RowsOfOneLog, flagVars, overlayVars
    <2>6. CASE ~(counter >= MAX_DEBUG_ENTRIES - 1)
      <3>1. /\ counter' = counter + 1 /\ Ref' = FALSE /\ Hmd' = FALSE
            /\ running' = running
        BY <1>3, <2>6, Zenon DEF CountUp
      <3>2. counter' \in Row
        BY <1>1, <2>6, <3>1, EntriesAssumption DEF Row
      <3>3. TypeOK'
        BY <2>2, <3>1, <3>2 DEF Inv, TypeOK, overlayVars
      <3>4. CountedAreFilled'
        <4>1. \A i \in Row : i < counter' => i < counter \/ i = counter
          BY <1>1, <3>1, Rows
        <4> QED BY <2>2, <2>3, <4>1 DEF CountedAreFilled
      <3>5. RowAtHand'
        <4>1. hmd # "gotHmd"
          BY DEF Inv, TakeTurns
        <4> QED BY <3>1, <4>1 DEF RowAtHand
      <3>6. TakeTurns' /\ WrittenIsLog' /\ RowsOfOneLog'
        BY <2>4, <3>1 DEF Inv, TakeTurns, WrittenIsLog, RowsOfOneLog
      <3> QED BY <3>3, <3>4, <3>5, <3>6 DEF Inv
    <2> QED BY <2>5, <2>6
  <1> QED BY <1>2, <1>3 DEF Inv, TypeOK

(* The tracker's thread fills the raw pose, or the reference. *)
LEMMA UpdateRefPoseInv == Inv /\ updateRefPose => Inv'
  <1> SUFFICES ASSUME Inv, updateRefPose PROVE Inv'
    OBVIOUS
  <1>1. UNCHANGED <<compensating, buttonOn, stopping, wrote, file, log, lost, hmd>>
    BY DEF updateRefPose, overlayVars
  <1>9. BeginRow \/ AddReference
    BY DEF updateRefPose
  <1>2. counter \in Row /\ counter \in Nat
    BY Rows DEF Inv, TypeOK
  <1>3. ASSUME NEW c \in {"raw", "ref"}, AddDebugData(c), ref \notin {"hasHmd", "count"},
               UNCHANGED <<running, counter, Ref, Hmd>>,
               ref = "raw" => c = "raw",
               \/ ref' = "pose"
               \/ ref' = "gotRef" /\ c = "ref"
        PROVE  Inv'
    <2>1. c \in Column /\ {"time"} \cup Filled \subseteq Column
      BY DEF Column, Filled
    <2>2. /\ table' \in [Row -> Cells]
          /\ ~running => table' = table
          /\ running => table'[counter][c] = log
          /\ \A i \in Row, b \in Column :
               i # counter \/ b # c => table'[i][b] = table[i][b]
      BY <1>3, <2>1, Added DEF Inv, Filled
    <2>3. TypeOK'
      BY <1>1, <1>3, <2>2 DEF Inv, TypeOK
    <2>4. CountedAreFilled'
      BY <1>1, <1>2, <1>3, <2>1, <2>2, Rows DEF Inv, CountedAreFilled
    <2>5. RowAtHand'
      BY <1>1, <1>2, <1>3, <2>1, <2>2 DEF Inv, RowAtHand, Filled
    <2>6. TakeTurns' /\ WrittenIsLog' /\ RowsOfOneLog'
      BY <1>1, <1>3 DEF Inv, TakeTurns, WrittenIsLog, RowsOfOneLog
    <2> QED BY <2>3, <2>4, <2>5, <2>6 DEF Inv
  <1>4. CASE \/ ref = "idle" /\ compensating
             \/ ref \in {"hasHmd", "pose"}
    <2>1. UNCHANGED <<running, counter, Ref, Hmd, table>>
      BY <1>4, <1>9 DEF BeginRow, AddReference, flagVars
    <2>2. /\ ref # "raw" /\ ref' \in {"hasHmd", "count", "pose", "ref", "idle"}
          /\ ref' \in {"hasHmd", "count"} => Ref
          /\ ref' = "count" => Hmd
      BY <1>4, <1>9 DEF BeginRow, AddReference, Inv, TakeTurns
    <2>3. TypeOK'
      BY <1>1, <2>1, <2>2 DEF Inv, TypeOK
    <2>4. CountedAreFilled' /\ RowAtHand'
      BY <1>1, <2>1, <2>2 DEF Inv, CountedAreFilled, RowAtHand
    <2>5. TakeTurns' /\ WrittenIsLog' /\ RowsOfOneLog'
      BY <1>1, <2>1, <2>2 DEF Inv, TakeTurns, WrittenIsLog, RowsOfOneLog
    <2> QED BY <2>3, <2>4, <2>5 DEF Inv
  <1>5. CASE ref = "count"
    <2>1. ref' = "raw" /\ CountUp
      BY <1>5, <1>9 DEF BeginRow, AddReference, flagVars
    <2>2. UNCHANGED <<overlayVars, stopping, wrote, file, log, lost, hmd>>
      BY DEF updateRefPose
    <2> QED BY <1>5, <2>1, <2>2, CountUpInv
  <1>6. CASE ref = "raw"
    <2>1. ref' = "pose" /\ AddDebugData("raw") /\ UNCHANGED <<running, counter, Ref, Hmd>>
      BY <1>6, <1>9 DEF BeginRow, AddReference, flagVars
    <2> QED BY <1>3, <1>6, <2>1
  <1>7. CASE ref = "ref"
    <2>1. ref' = "gotRef" /\ AddDebugData("ref") /\ UNCHANGED <<running, counter, Ref, Hmd>>
      BY <1>7, <1>9 DEF BeginRow, AddReference, flagVars
    <2> QED BY <1>3, <1>7, <2>1
  <1>8. CASE ref = "gotRef"
    <2>1. ref' = "idle" /\ Ref' = TRUE /\ UNCHANGED <<running, counter, Hmd, table>>
      BY <1>8, <1>9 DEF BeginRow, AddReference, flagVars
    <2>2. TypeOK' /\ CountedAreFilled'
      BY <1>1, <2>1 DEF Inv, TypeOK, CountedAreFilled
    <2>3. RowAtHand' /\ TakeTurns'
      BY <1>1, <1>8, <2>1 DEF Inv, RowAtHand, TakeTurns
    <2>4. WrittenIsLog' /\ RowsOfOneLog'
      BY <1>1, <2>1 DEF Inv, WrittenIsLog, RowsOfOneLog
    <2> QED BY <2>2, <2>3, <2>4 DEF Inv
  <1> QED
    BY <1>4, <1>5, <1>6, <1>7, <1>8, <1>9 DEF BeginRow, AddReference

(* The headset's thread adds to the row while the tracker's has to wait. *)
LEMMA ApplyInv == Inv /\ applyMotionCompensation => Inv'
  <1> SUFFICES ASSUME Inv, applyMotionCompensation PROVE Inv'
    OBVIOUS
  <1>1. UNCHANGED <<compensating, buttonOn, stopping, running, counter, wrote,
                    Ref, file, log, lost, ref>>
    BY DEF applyMotionCompensation, overlayVars
  <1>2. counter \in Row /\ counter \in Nat
    BY Rows DEF Inv, TypeOK
  <1>3. ASSUME NEW c \in {"hmdPose", "hmdMCVel"}, AddDebugData(c), Hmd' = Hmd, ~Hmd,
               \/ hmd' = "pose"
               \/ hmd' = "gotHmd" /\ c = "hmdMCVel"
        PROVE  Inv'
    <2>1. c \in Column /\ {"time"} \cup Filled \subseteq Column
      BY DEF Column, Filled
    <2>2. /\ table' \in [Row -> Cells]
          /\ running => table'[counter][c] = log
          /\ \A i \in Row, b \in Column :
               i # counter \/ b # c => table'[i][b] = table[i][b]
      BY <1>3, <2>1, Added DEF Inv, Filled
    <2>3. TypeOK'
      BY <1>1, <1>3, <2>2 DEF Inv, TypeOK
    <2>4. CountedAreFilled'
      <3>1. \A i \in Row : i < counter => i # counter
        BY <1>2, Rows
      <3>2. \A i \in Row, b \in Column : i < counter => table'[i][b] = table[i][b]
        BY <2>2, <3>1
      <3>3. UNCHANGED <<counter, log>>
        BY <1>1
      <3> QED BY <2>1, <3>2, <3>3 DEF Inv, CountedAreFilled
    <2>5. RowAtHand'
      BY <1>1, <1>2, <1>3, <2>1, <2>2 DEF Inv, RowAtHand, Filled
    <2>6. TakeTurns' /\ WrittenIsLog' /\ RowsOfOneLog'
      BY <1>1, <1>3 DEF Inv, TakeTurns, WrittenIsLog, RowsOfOneLog
    <2> QED BY <2>3, <2>4, <2>5, <2>6 DEF Inv
  <1>4. CASE hmd \notin {"add", "addMC", "gotHmd"}
    <2>1. UNCHANGED <<Hmd, table>>
      BY <1>4 DEF applyMotionCompensation
    <2>2. /\ hmd' \in {"hasRef", "hasHmd", "add", "pose", "hasRef2", "hasHmd2",
                       "addMC", "idle"}
          /\ Hmd => hmd' \notin {"add", "addMC"}
      BY <1>4 DEF applyMotionCompensation, HmdTurn
    <2>3. TypeOK'
      BY <1>1, <2>1, <2>2 DEF Inv, TypeOK
    <2>4. CountedAreFilled' /\ RowAtHand'
      BY <1>1, <2>1, <2>2 DEF Inv, CountedAreFilled, RowAtHand
    <2>5. TakeTurns' /\ WrittenIsLog' /\ RowsOfOneLog'
      BY <1>1, <2>1, <2>2 DEF Inv, TakeTurns, WrittenIsLog, RowsOfOneLog
    <2> QED BY <2>3, <2>4, <2>5 DEF Inv
  <1>5. CASE hmd = "add"
    <2>1. hmd' = "pose" /\ AddDebugData("hmdPose") /\ Hmd' = Hmd
      BY <1>5 DEF applyMotionCompensation, HmdTurn
    <2>2. ~Hmd
      BY <1>5 DEF Inv, TakeTurns
    <2> QED BY <1>3, <2>1, <2>2
  <1>6. CASE hmd = "addMC"
    <2>1. hmd' = "gotHmd" /\ AddDebugData("hmdMCVel") /\ Hmd' = Hmd
      BY <1>6 DEF applyMotionCompensation, HmdTurn
    <2>2. ~Hmd
      BY <1>6 DEF Inv, TakeTurns
    <2> QED BY <1>3, <2>1, <2>2
  <1>7. CASE hmd = "gotHmd"
    <2>1. hmd' = "idle" /\ Hmd' = TRUE /\ UNCHANGED table
      BY <1>7 DEF applyMotionCompensation, HmdTurn
    <2>2. TypeOK' /\ CountedAreFilled'
      BY <1>1, <2>1 DEF Inv, TypeOK, CountedAreFilled
    <2>3. RowAtHand' /\ TakeTurns'
      BY <1>1, <1>7, <2>1 DEF Inv, RowAtHand, TakeTurns
    <2>4. WrittenIsLog' /\ RowsOfOneLog'
      BY <1>1, <2>1 DEF Inv, WrittenIsLog, RowsOfOneLog
    <2> QED BY <2>2, <2>3, <2>4 DEF Inv
  <1> QED
    BY <1>4, <1>5, <1>6, <1>7 DEF applyMotionCompensation

-----------------------------------------------------------------------------
LEMMA StepInv == Inv /\ [Next]_vars => Inv'
  <1>1. Inv /\ UNCHANGED vars => Inv'
    BY DEF vars, overlayVars, flagVars, Inv, TypeOK, CountedAreFilled, RowAtHand,
           TakeTurns, WrittenIsLog, RowsOfOneLog
  <1> QED
    BY <1>1, StartLoggingInv, WriteFileInv, OtherOverlayInv, UpdateRefPoseInv,
       ApplyInv DEF Next

LEMMA Invariance == Spec => []Inv
  BY InitInv, StepInv, PTL DEF Spec

(* The counter that the two threads and the overlay share is an index of the
   table in every state, for a table of any size (CountUp in Debugger.cpp). *)
THEOREM TypeCorrect == Spec => []TypeOK
  BY Invariance, PTL DEF Inv

(* Whatever the interleaving of the two threads with starts and stops, every
   row of the file after the first has its time, the tracker's raw motion, the
   reference and the headset's compensated velocities from one log (CountUp
   and the flag tests; nothing is claimed of the headset's pose). *)
THEOREM RowsAreOfOneLog == Spec => []RowsOfOneLog
  BY Invariance, PTL DEF Inv

(* An answered stop leaves the rows of the last log in the file (WriteFile in
   Debugger.cpp), also when they are there already, unless the file did not
   open for this log. *)
THEOREM StopsSave == Spec => StopSaves
  <1> DEFINE Saves ==
        stopping /\ ~stopping' /\ counter > 0 /\ ~lost' =>
          file'.rows = counter /\ file'.cells[0]["time"] = log
  <1>1. Inv /\ [Next]_vars => [Saves]_vars
    <2> SUFFICES ASSUME Inv, Next PROVE Saves
      OBVIOUS
    <2>1. CASE WriteFile
      <3>1. CASE ~wrote
        BY <2>1, <3>1, Rows DEF WriteFile, Written, Inv, TypeOK, CountedAreFilled
      <3>2. CASE wrote
        BY <2>1, <3>2 DEF WriteFile, Inv, WrittenIsLog
      <3> QED BY <3>1, <3>2
    <2>2. CASE ~WriteFile
      <3>1. stopping' = stopping \/ stopping'
        BY <2>2 DEF Next, SetMode, StartLogging, StopLogging, OverlayRestarts,
                    updateRefPose, applyMotionCompensation
      <3> QED BY <3>1
    <2> QED BY <2>1, <2>2
  <1> QED BY <1>1, Invariance, PTL DEF Spec, StopSaves
=============================================================================
