------------------------------ MODULE LogStore ------------------------------
(***************************************************************************)
(* The logger: src/src/log/log.c and src/src/log/sqlite_about.c.           *)
(*                                                                         *)
(* The delivery thread appends log messages to one of two buffers; the     *)
(* logger thread exchanges the buffers under the lock and writes the other *)
(* one to the database, row by row, without it.  Before each exchange it   *)
(* trims a database that has grown too large.  A command of the host waits *)
(* in one slot; the upload it may ask for goes to module TcpLink.          *)
(*                                                                         *)
(* The thread waits for 30 entries or for ten seconds with at least one    *)
(* entry or a command: without time, for one entry or a command.           *)
(***************************************************************************)
EXTENDS Naturals, Sequences, FiniteSets

CONSTANTS Log,        \* log messages
          New,        \* those that reach the logger, each once
          Errors,     \* those of level LOG_ERROR
          Earlier,    \* the rows an earlier run has left in the table
          ItemCap,    \* MAX_LOG_COUNT
          MaxDb,      \* MAX_DB_SIZE
          DeleteNum,  \* DELETE_LOG_NUM
          CountMod,   \* values of uint16_t, the type of db_sql_count
          MaxFail     \* how often SQLite fails

(* 50, 16384, 512 and 65536.                                               *)
ASSUME StoreAssumption ==
  /\ New \subseteq Log /\ Errors \subseteq Log /\ Earlier \in Seq(Log)
  /\ ItemCap \in Nat \ {0} /\ DeleteNum \in Nat \ {0}
  /\ MaxDb \in Nat /\ CountMod \in Nat
  /\ MaxDb + 2 * ItemCap < CountMod /\ Len(Earlier) + ItemCap < CountMod
  /\ MaxFail \in Nat

VARIABLES
  unsent,    \* log messages still to come
  buffer,    \* Buffer_A and Buffer_B
  input,     \* which of them input_ptr points to
  cmd,       \* cmd_msg.cmd
  running,
  pc,        \* logger_process_thread
  at,        \* next row of the batch
  inserted,  \* rows inserted since BEGIN
  db,        \* the rows of table logs, in the order of their ids
  failures,
  overflow,  \* an item was written behind the end of its buffer
  accepted,  \* ghost: what the handler was given, in order
  saved,     \* ghost: what was ever inserted, in order
  dropped,   \* ghost: what SQLite did not store
  late       \* history: what the handler was given after the last save

vars == <<unsent, buffer, input, cmd, running, pc, at, inserted, db, failures,
          overflow, accepted, saved, dropped, late>>

Buffers == {"A", "B"}     \* process_ptr is the one input_ptr is not

Elems(s) == {s[i] : i \in 1 .. Len(s)}

TypeOK ==
  /\ unsent \subseteq Log
  /\ buffer \in [Buffers -> Seq(Log)]
  /\ \A b \in Buffers : Len(buffer[b]) <= ItemCap
  /\ input \in Buffers
  /\ cmd \in {"none", "UPLOAD_DB", "other"}
  /\ running \in BOOLEAN
  /\ pc \in {"loop", "wait", "save", "check", "upload", "exit", "last",
             "leaving", "done"}
  /\ at \in 1 .. ItemCap + 1 /\ inserted \in 0 .. ItemCap
  /\ db \in Seq(Log) /\ accepted \in Seq(Log) /\ saved \in Seq(Log)
  /\ failures \in 0 .. MaxFail
  /\ overflow \in BOOLEAN
  /\ dropped \subseteq Log
  /\ late \subseteq Log

(* log_init and DB_Init, which keeps the table that is there.              *)
Init ==
  /\ unsent = New
  /\ buffer = [b \in Buffers |-> <<>>]
  /\ input = "A"
  /\ cmd = "none"
  /\ running = TRUE
  /\ pc = "loop"
  /\ at = 1 /\ inserted = 0
  /\ db = Earlier
  /\ failures = 0
  /\ overflow = FALSE
  /\ accepted = <<>>
  /\ saved = <<>>
  /\ dropped = {}
  /\ late = {}

-----------------------------------------------------------------------------
(* logger_msg_handler, in the delivery thread, until log_deinit            *)

threadVars == <<pc, at, inserted, db, failures, saved, dropped>>

(* The logger holds the lock for its last save; the route is cleared after *)
(* that and after the database has been closed.                            *)
HandlerMayRun == pc \notin {"last", "done"}

(* Mutant: one more than the array holds.                                  *)
FitsOffByOne == Len(buffer[input]) <= ItemCap

(* The item at input_ptr->count is inside the array.                       *)
Fits == Len(buffer[input]) < ItemCap

(* MSG_TYPE_LOG: nobody compares count with MAX_LOG_COUNT.                 *)
HandleLog(l) ==
  /\ HandlerMayRun
  /\ l \in unsent
  /\ unsent' = unsent \ {l}
  /\ IF Fits
       THEN /\ buffer' = [buffer EXCEPT ![input] = Append(@, l)]
            /\ accepted' = Append(accepted, l)
            /\ late' = IF pc = "leaving" THEN late \cup {l} ELSE late
            /\ UNCHANGED overflow
       ELSE overflow' = TRUE /\ UNCHANGED <<buffer, accepted, late>>
  /\ UNCHANGED <<input, cmd, running, threadVars>>

(* MSG_TYPE_COMMAND: into the slot, whatever is in it.                     *)
HandleCommand(c) ==
  /\ HandlerMayRun
  /\ cmd' = c
  /\ UNCHANGED <<unsent, buffer, input, running, overflow, accepted, late,
                 threadVars>>

-----------------------------------------------------------------------------
(* logger_process_thread                                                   *)

outside == <<unsent, running, overflow, accepted, late>>
rowVars == <<inserted, db, saved, dropped>>

(* Mutant: what is still in the buffer at the end is not saved.            *)
LoopCheckNoLastSave ==
  /\ pc = "loop"
  /\ pc' = IF running THEN "wait" ELSE "leaving"
  /\ UNCHANGED <<outside, buffer, input, cmd, at, failures, rowVars>>

LoopCheck ==
  /\ pc = "loop"
  /\ pc' = IF running THEN "wait" ELSE "exit"
  /\ UNCHANGED <<outside, buffer, input, cmd, at, failures, rowVars>>

(* get_db_count, through a uint16_t                                        *)
DbCount == Len(db) % CountMod

(* level < 3 does not hold of these: the errors among the rows 1 .. n.     *)
ErrorsAmong(d, n) ==
  LET among[k \in 0 .. n] ==
        IF k = 0 THEN <<>>
        ELSE IF d[k] \in Errors THEN Append(among[k - 1], d[k])
        ELSE among[k - 1]
  IN  among[n]

(* Mutant: the statement fails each time.                                  *)
TrimmedNot(d) == d

(* delete_db_msg: of the DeleteNum oldest rows, those that are no errors.  *)
Trimmed(d) ==
  LET n == IF Len(d) < DeleteNum THEN Len(d) ELSE DeleteNum
  IN  ErrorsAmong(d, n) \o SubSeq(d, n + 1, Len(d))

Other(b) == IF b = "A" THEN "B" ELSE "A"

(* The wait ends; under the lock the database is trimmed, unless it cannot *)
(* be read or written, and the buffers are exchanged.                      *)
TrimAndSwap ==
  /\ pc = "wait"
  /\ buffer[input] # <<>> \/ cmd # "none" \/ ~running
  /\ \/ /\ db' = IF DbCount >= MaxDb THEN Trimmed(db) ELSE db
        /\ UNCHANGED failures
     \/ /\ DbCount >= MaxDb /\ failures < MaxFail
        /\ failures' = failures + 1
        /\ UNCHANGED db
  /\ input' = Other(input)
  /\ pc' = "save"
  /\ at' = 1 /\ inserted' = 0
  /\ UNCHANGED <<outside, buffer, cmd, saved, dropped>>

(* After the loop: the lock for the last save.                             *)
LockForLastSave ==
  /\ pc = "exit"
  /\ pc' = "last"
  /\ at' = 1 /\ inserted' = 0
  /\ UNCHANGED <<outside, buffer, input, cmd, failures, db, saved, dropped>>

(* db_save_batch, in the loop on process_ptr without the lock, after it on *)
(* input_ptr.                                                              *)
Saving == pc \in {"save", "last"}
Batch == IF pc = "last" THEN input ELSE Other(input)
AfterSave == IF pc = "last" THEN "leaving" ELSE "check"

(* Without a statement the batch stays in its buffer ...                   *)
SaveRefused ==
  /\ Saving
  /\ at = 1
  /\ buffer[Batch] # <<>>
  /\ failures < MaxFail
  /\ failures' = failures + 1
  /\ pc' = AfterSave
  /\ UNCHANGED <<outside, buffer, input, cmd, at, rowVars>>

(* ... a row, which is left out when it fails ...                          *)
SaveRow ==
  /\ Saving
  /\ at <= Len(buffer[Batch])
  /\ at' = at + 1
  /\ LET l == buffer[Batch][at]
     IN  \/ /\ db' = Append(db, l)
            /\ saved' = Append(saved, l)
            /\ inserted' = inserted + 1
            /\ UNCHANGED <<failures, dropped>>
         \/ /\ failures < MaxFail
            /\ failures' = failures + 1
            /\ dropped' = dropped \cup {l}
            /\ UNCHANGED <<inserted, db, saved>>
  /\ UNCHANGED <<outside, buffer, input, cmd, pc>>

(* Mutant: the count of both buffers is reset.                             *)
SaveDoneClearsBoth ==
  /\ Saving
  /\ at > Len(buffer[Batch])
  /\ pc' = AfterSave
  /\ buffer' = [b \in Buffers |-> <<>>]
  /\ UNCHANGED <<outside, input, cmd, at, failures, rowVars>>

(* A table without what has been inserted since BEGIN.                     *)
RolledBack(d) == SubSeq(d, 1, Len(d) - inserted)

(* ... COMMIT and, even if that is rolled back, count = 0.                 *)
SaveDone ==
  /\ Saving
  /\ at > Len(buffer[Batch])
  /\ pc' = AfterSave
  /\ buffer' = [buffer EXCEPT ![Batch] = <<>>]
  /\ \/ UNCHANGED <<failures, db, saved, dropped>>
     \/ /\ buffer[Batch] # <<>> /\ failures < MaxFail
        /\ failures' = failures + 1
        /\ db' = RolledBack(db)
        /\ saved' = RolledBack(saved)
        /\ dropped' = dropped \cup Elems(buffer[Batch])
  /\ UNCHANGED <<outside, input, cmd, at, inserted>>

(* Mutant: the slot is emptied whatever is in it and nothing is uploaded.  *)
CheckCommandDrops ==
  /\ pc = "check"
  /\ cmd' = "none"
  /\ pc' = "loop"
  /\ UNCHANGED <<outside, buffer, input, at, failures, rowVars>>

CheckCommand ==
  /\ pc = "check"
  /\ IF cmd = "UPLOAD_DB" THEN cmd' = "none" /\ pc' = "upload"
                          ELSE pc' = "loop" /\ UNCHANGED cmd
  /\ UNCHANGED <<outside, buffer, input, at, failures, rowVars>>

(* upload_db_to_server; it only reads the database.                        *)
Upload ==
  /\ pc = "upload"
  /\ pc' = "loop"
  /\ UNCHANGED <<outside, buffer, input, cmd, at, failures, rowVars>>

(* log_deinit: the route is cleared.                                       *)
LogDeinit ==
  /\ pc = "leaving"
  /\ pc' = "done"
  /\ UNCHANGED <<outside, buffer, input, cmd, at, failures, rowVars>>

StopHandler ==
  /\ running
  /\ running' = FALSE
  /\ UNCHANGED <<unsent, buffer, input, cmd, overflow, accepted, late,
                 threadVars>>

LoggerStep ==
  \/ LoopCheck \/ TrimAndSwap \/ LockForLastSave
  \/ SaveRefused \/ SaveRow \/ SaveDone
  \/ CheckCommand \/ Upload \/ LogDeinit

Step ==
  \/ LoggerStep
  \/ \E l \in Log : HandleLog(l)
  \/ \E c \in {"UPLOAD_DB", "other"} : HandleCommand(c)
  \/ StopHandler

(* An overflow is undefined behaviour and ends the behaviour.              *)
Next == ~overflow /\ Step

Spec == Init /\ [][Next]_vars

(* The thread is scheduled and its waits end after ten seconds.            *)
FairSpec == Spec /\ WF_vars(~overflow /\ LoggerStep)

-----------------------------------------------------------------------------
(* Properties                                                              *)

(* What is in the batch and has not been inserted yet.                     *)
ToSave(b) ==
  IF Saving /\ b = Batch THEN SubSeq(buffer[b], at, Len(buffer[b]))
                         ELSE buffer[b]

(* Every entry is inserted at most once.  As long as SQLite has not failed, *)
(* all are, in the order of the handler: the exchange of the buffers, the  *)
(* entries that arrive while a batch is written and the end of the program *)
(* lose, double and reorder nothing.  When SQLite fails, an entry is lost  *)
(* only if SQLite refused it or rolled it back: a batch it could not start *)
(* stays (logger_process_thread, db_save_batch).                           *)
SavedInOrder ==
  LET waiting == ToSave(Other(input)) \o ToSave(input)
      all     == saved \o waiting
  IN  /\ failures = 0 => all = accepted
      /\ Elems(accepted) = Elems(all) \cup dropped
      /\ Elems(all) \cap dropped = {}
      /\ Cardinality(Elems(all)) = Len(all)

(* A table without errors, trimmed each time, stays below its limit plus   *)
(* one batch, or is never longer than an earlier run has left it, and one  *)
(* batch more at the end, though it is trimmed before the batch is known.  *)
DbBounded ==
  failures = 0 /\ Elems(db) \cap Errors = {} =>
  \/ Len(db) < MaxDb + ItemCap
  \/ Len(db) <= Len(Earlier)
  \/ /\ pc \in {"last", "leaving", "done"}
     /\ Len(db) < MaxDb + 2 * ItemCap \/ Len(db) <= Len(Earlier) + ItemCap

(* An upload the host asks for is made, unless another command replaces it *)
(* in the slot or the program is stopped.                                  *)
UploadMade ==
  cmd = "UPLOAD_DB" ~>
    (pc = "upload" \/ cmd = "other" \/ ~running \/ overflow)

(* Whatever the handler takes is stored, unless SQLite fails or it came    *)
(* between the last save and the end of the route: for so long the lock is *)
(* free and nobody will write the buffer any more.                         *)
EventuallyStored ==
  \A l \in Log :
    l \in Elems(accepted) \ late ~>
      (l \in Elems(saved) \/ failures > 0 \/ overflow)
=============================================================================
