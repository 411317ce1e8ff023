------------------------------- MODULE Logging -------------------------------
(***************************************************************************)
(* src/xylose/logger.c in a program with threads that has handed it a      *)
(* mutex: several threads log while one sets the log file.  In the record  *)
(* on the bench                                                            *)
(*   holder        who holds LogFileMutex                                  *)
(*   type, file    LogFileType and LogFileP, 0 for NULL; open  the files   *)
(*   msgBuf        what stands in the static buffer, as parts              *)
(*   lines         what was written, with where to                         *)
(*   call          each thread's call of vlog                              *)
(*   set           the call of setLogFile, with the file being opened      *)
(***************************************************************************)
EXTENDS Workbench

CONSTANTS Loggers,    \* the threads that log
          Setter,     \* the thread that sets the log file
          LogLevel,   \* the verbosity, constant here
          Stamped,    \* TimestampLog
          MaxSets     \* how often the log file is set

ASSUME SetterAssumption == Setter \notin Loggers

ASSUME LevelAssumption == LogLevel \in Int

SEVERE == 0
WARNING == 1
INFO == 2

Threads == Loggers \cup {Setter}

CallAt(t, place) == On("logger") /\ bench.call[t].pc = place

Go(b, t, place) == [b EXCEPT !.call[t].pc = place]

(* logToSystemLog: the priority of a level. *)
Priority(level) ==
  CASE level = SEVERE -> "LOG_ERR" [] level = WARNING -> "LOG_NOTICE"
    [] level = INFO -> "LOG_INFO" [] OTHER -> "LOG_DEBUG"

NewLogger ==
  Free /\ PutOn([is |-> "logger", holder |-> {}, type |-> "local", file |-> 0, open |-> {},
                 opened |-> 0, msgBuf |-> <<>>, lines |-> <<>>,
                 call |-> [t \in Threads |-> [pc |-> "idle", level |-> 0, to |-> <<>>, during |-> FALSE, at |-> <<>>]],
                 set |-> [pc |-> "idle", to |-> "nowhere", file |-> 0], sets |-> 0])

(* Where messages go: a file, stderr for file 0, the system log, nowhere.  *)
Configured(b) == <<b.type, IF b.type = "local" THEN b.file ELSE 0>>

(* log_severe, log_info, log_error...: vlog with their level; Call notes   *)
(* whether a call of setLogFile is under way and what is configured.       *)
Called(b, t, level) ==
  [b EXCEPT !.call[t] = [pc |-> "check", level |-> level, to |-> <<>>, at |-> Configured(b),
                         during |-> t # Setter /\ b.set.pc # "idle"]]

Log(t) ==
  /\ CallAt(t, "idle") /\ t \in Loggers
  /\ \E level \in {LogLevel, LogLevel + 1} : bench' = Called(bench, t, level)

(* Before the mutex is taken. *)
Check(t) ==
  /\ CallAt(t, "check")
  /\ bench' = IF bench.call[t].level > LogLevel \/ bench.type = "null" THEN Go(bench, t, "dropped")
              ELSE Go(bench, t, IF Stamped THEN "stamp" ELSE "lock")

(* timestamp() takes and gives back the mutex for localtime. *)
Timestamp(t) ==
  /\ CallAt(t, "stamp") /\ bench.holder = {}
  /\ bench' = [Go(bench, t, "localtime") EXCEPT !.holder = {t}]

TimestampReturn(t) ==
  /\ CallAt(t, "localtime")
  /\ bench' = [Go(bench, t, "lock") EXCEPT !.holder = {}]

(* Bug: the mutex is not waited for. *)
MutexTryLock(t) ==
  /\ CallAt(t, "lock")
  /\ bench' = [Go(bench, t, "prefix") EXCEPT !.holder = {t}]

MutexLock(t) ==
  /\ CallAt(t, "lock") /\ bench.holder = {}
  /\ bench' = [Go(bench, t, "prefix") EXCEPT !.holder = {t}]

(* sprintf of who and when, then vsprintf of the message behind it. *)
Prefix(t) ==
  /\ CallAt(t, "prefix")
  /\ bench' = [Go(bench, t, "message") EXCEPT !.msgBuf = <<t>>]

Message(t) ==
  /\ CallAt(t, "message")
  /\ bench' = [Go(bench, t, "where") EXCEPT !.msgBuf = Append(@, t)]

(* The switch on LogFileType: no case for the null file.  LogFileP is read *)
(* after it, and only for a local file.                                    *)
Where(t) ==
  /\ CallAt(t, "where")
  /\ bench' = [Go(bench, t, IF bench.type = "local" THEN "which" ELSE "write")
                 EXCEPT !.call[t].to = <<bench.type, 0>>]

WhichFile(t) ==
  /\ CallAt(t, "which")
  /\ bench' = [Go(bench, t, "write") EXCEPT !.call[t].to = <<"local", bench.file>>]

(* A file that was closed meanwhile takes nothing (or worse).              *)
Write(t) ==
  /\ CallAt(t, "write")
  /\ LET to == bench.call[t].to
         line == [to |-> IF to[1] = "syslog" THEN <<Priority(bench.call[t].level), 0>> ELSE to,
                  by |-> t, text |-> bench.msgBuf]
         written == to[1] # "null" /\ to[2] \in {0} \cup bench.open
     IN bench' = [Go(bench, t, "unlock") EXCEPT !.lines = IF written THEN Append(@, line) ELSE @]

MutexUnlock(t) ==
  /\ CallAt(t, "unlock")
  /\ bench' = [Go(bench, t, "written") EXCEPT !.holder = {}]

LogReturn(t) == CallAt(t, "dropped") /\ bench' = Go(bench, t, "written")
-----------------------------------------------------------------------------
(* setLogFile takes no mutex.  The calls under way are marked.             *)
Setting(b, set) ==
  [b EXCEPT !.set = set, !.sets = @ + 1,
            !.call = [t \in Threads |-> [b.call[t] EXCEPT !.during = @ \/ b.call[t].pc \notin {"idle", "written"}]]]

SetLogFile ==
  /\ On("logger") /\ bench.set.pc = "idle" /\ bench.sets < MaxSets
  /\ \/ \E to \in {"null", "stderr", "syslog"} :
          bench' = Setting(bench, [pc |-> "close", to |-> to, file |-> 0])
     \/ bench' = [Setting(bench, [pc |-> "close", to |-> "file", file |-> bench.opened + 1])
                   EXCEPT !.opened = @ + 1, !.open = @ \cup {bench.opened + 1}]
     \/ /\ bench.call[Setter].pc = "idle"
        /\ bench' = Called(Setting(bench, [pc |-> "failed", to |-> "nowhere", file |-> 0]), Setter, SEVERE)

CloseOld ==
  /\ On("logger") /\ bench.set.pc = "close"
  /\ bench' = [bench EXCEPT !.set.pc = "file", !.open = @ \ {bench.file}]

SetFile ==
  /\ On("logger") /\ bench.set.pc = "file"
  /\ bench' = [bench EXCEPT !.set.pc = "type", !.file = bench.set.file]

SetType ==
  /\ On("logger") /\ bench.set.pc = "type"
  /\ bench' = [bench EXCEPT !.set = [pc |-> "idle", to |-> "nowhere", file |-> 0],
                            !.type = CASE bench.set.to = "null" -> "null"
                                       [] bench.set.to = "syslog" -> "syslog"
                                       [] OTHER -> "local"]

(* The message about a file that cannot be opened has been logged. *)
SetFailed ==
  /\ On("logger") /\ bench.set.pc = "failed" /\ bench.call[Setter].pc = "written"
  /\ bench' = [bench EXCEPT !.set = [pc |-> "idle", to |-> "nowhere", file |-> 0]]

Quiet ==
  /\ On("logger") /\ bench.set.pc = "idle"
  /\ \A t \in Loggers : bench.call[t].pc = "written"
  /\ bench' = NothingThere

LoggingNext ==
  \/ NewLogger \/ Quiet
  \/ SetLogFile \/ CloseOld \/ SetFile \/ SetType \/ SetFailed
  \/ \E t \in Threads :
       \/ Log(t) \/ Check(t) \/ Timestamp(t) \/ TimestampReturn(t) \/ MutexLock(t)
       \/ Prefix(t) \/ Message(t) \/ Where(t) \/ WhichFile(t) \/ Write(t) \/ MutexUnlock(t)
       \/ LogReturn(t)
-----------------------------------------------------------------------------
(* What is written is whole messages of one thread each, at most one for a *)
(* call; a message that is verbose enough and no call of setLogFile got in *)
(* the way of is written once, to where LogFileP and LogFileType said when *)
(* it was logged (to the system log with the priority of its level), and   *)
(* one that is too verbose never is.  A failed setLogFile says so and      *)
(* changes nothing.                                                        *)
LinesWhole ==
  On("logger") =>
    /\ \A t \in Threads :
         LET c == bench.call[t]
             mine == {k \in DOMAIN bench.lines : bench.lines[k].by = t}
             due == IF c.at[1] = "syslog" THEN <<Priority(c.level), 0>> ELSE c.at
         IN /\ Cardinality(mine) <= 1
            /\ \A k \in mine : bench.lines[k].text = <<t, t>> /\ c.level <= LogLevel
            /\ c.pc = "written" /\ c.level <= LogLevel /\ ~c.during /\ c.at[1] # "null" =>
                 \E k \in mine : bench.lines[k].to = due
            /\ c.pc \in {"localtime", "prefix", "message", "where", "which", "write", "unlock"} <=>
                 bench.holder = {t}
    /\ bench.file = 0 \/ bench.file \in bench.open \/ bench.set.pc # "idle"
    /\ bench.open \subseteq {bench.file, bench.set.file}
=============================================================================
