------------------------------ MODULE Programs ------------------------------
(***************************************************************************)
(* src/xylose/fit: ExecFunc and PExecFunc, which the tasks of the threads  *)
(* call at the same time to evaluate a function by an external program,    *)
(* over temporary files and over pipes.  The program is the environment:   *)
(* it reads its inputs, may write a value and a message, and exits with a  *)
(* status or is killed.  In the record on the bench                        *)
(*   files   contents by name of the temporary files                       *)
(*   pc, x   where each thread is and the point it evaluates               *)
(*   infile, outfile, pipe   the names and the pipe of each call           *)
(*   ran     how its program ended, f and msg   what its task is told      *)
(***************************************************************************)
EXTENDS Workbench

CONSTANTS Callers,   \* threads that evaluate
          MaxCalls   \* how many evaluations there are

ASSUME CallersAssumption == IsFiniteSet(Callers)

(* Lines of output: none, a text that is no number, a value of the point   *)
(* and a message after it; the message "none" is the empty string.         *)
Lines(x) == {<<"empty">>, <<"text">>, <<"value", x, "none">>, <<"value", x, "note">>}

Statuses == {"exit-0", "exit-1", "killed"}

(* std::system(...) >> 8: the signal that kills a program is in the bits   *)
(* that are shifted out.                                                   *)
StatusOf(end) == IF end = "exit-1" THEN 1 ELSE 0

CallerAt(t, place) == On("programs") /\ bench.pc[t] = place

NewPrograms ==
  Free /\ PutOn([is |-> "programs", files |-> <<>>, calls |-> 0,
                 pc |-> [t \in Callers |-> "idle"], x |-> [t \in Callers |-> 0],
                 infile |-> [t \in Callers |-> 0], outfile |-> [t \in Callers |-> 0],
                 pipe |-> [t \in Callers |-> <<>>], ran |-> [t \in Callers |-> <<>>],
                 f |-> [t \in Callers |-> <<>>], msg |-> [t \in Callers |-> "none"]])

(* A task of the next point starts with no value and calls its MinFunc. *)
Call(t, place) ==
  /\ CallerAt(t, "idle") /\ bench.calls < MaxCalls
  /\ bench' = [bench EXCEPT !.pc[t] = place, !.x[t] = bench.calls + 1, !.calls = @ + 1,
                            !.f[t] = <<>>, !.msg[t] = "none", !.ran[t] = <<>>]

ExecFunc(t) == Call(t, "mkstemp-in")

PExecFunc(t) == Call(t, "pipe")

(* Bug: a name is chosen without creating its file, as by tmpnam. *)
TmpNam(files) == Min(1 .. 2 * Cardinality(Callers))

(* mkstemp creates an empty file of a name that no file has: here the      *)
(* first one, so that a name that was given back is given out again soon.  *)
MkStemp(files) == Min((1 .. 2 * Cardinality(Callers)) \ DOMAIN files)

Created(files, name) == [n \in DOMAIN files \cup {name} |-> IF n = name THEN <<"empty">> ELSE files[n]]

MakeInfile(t) ==
  /\ CallerAt(t, "mkstemp-in")
  /\ LET name == MkStemp(bench.files)
     IN bench' = [bench EXCEPT !.files = Created(@, name), !.infile[t] = name,
                               !.pc[t] = "mkstemp-out"]

MakeOutfile(t) ==
  /\ CallerAt(t, "mkstemp-out")
  /\ LET name == MkStemp(bench.files)
     IN bench' = [bench EXCEPT !.files = Created(@, name), !.outfile[t] = name,
                               !.pc[t] = "write"]

WriteInputs(t) ==
  /\ CallerAt(t, "write")
  /\ bench' = [bench EXCEPT !.files[bench.infile[t]] = <<"inputs", bench.x[t]>>, !.pc[t] = "system"]

(* The program, which leaves its output only when it writes some. *)
RunProgram(t, end) ==
  /\ CallerAt(t, "system")
  /\ \E line \in Lines(bench.files[bench.infile[t]][2]) :
       bench' = [bench EXCEPT !.files[bench.outfile[t]] = line, !.ran[t] = <<end, line>>, !.pc[t] = "read"]

RunPiped(t, end) ==
  /\ CallerAt(t, "pipe")
  /\ \E line \in Lines(bench.x[t]) :
       bench' = [bench EXCEPT !.pipe[t] = line, !.ran[t] = <<end, line>>, !.pc[t] = "read-pipe"]

(* The first line of the output: <<f, msg>>. *)
Parsed(line, status, f) ==
  IF line[1] # "value" THEN <<<<>>, IF line[1] = "empty" THEN "none" ELSE "the-line">>
  ELSE IF status # 0 THEN <<f, "unknown-evaluation-failure">>
  ELSE <<<<line[2]>>, line[3]>>

(* Task::exec() never leaves the message empty. *)
ExecMsg(f, msg) ==
  IF msg # "none" THEN msg ELSE IF f # <<>> THEN "success" ELSE "unknown-error"

ReadOutput(t) ==
  /\ CallerAt(t, "read")
  /\ LET r == Parsed(bench.files[bench.outfile[t]], StatusOf(bench.ran[t][1]), bench.f[t])
     IN bench' = [bench EXCEPT !.f[t] = r[1], !.msg[t] = r[2], !.pc[t] = "unlink-in"]

UnlinkInfile(t) ==
  /\ CallerAt(t, "unlink-in")
  /\ bench' = [bench EXCEPT !.files = [n \in DOMAIN @ \ {bench.infile[t]} |-> @[n]], !.pc[t] = "unlink-out"]

UnlinkOutfile(t) ==
  /\ CallerAt(t, "unlink-out")
  /\ bench' = [bench EXCEPT !.files = [n \in DOMAIN @ \ {bench.outfile[t]} |-> @[n]], !.pc[t] = "evaluated",
                            !.msg[t] = ExecMsg(bench.f[t], @)]

ReadPipe(t) ==
  /\ CallerAt(t, "read-pipe")
  /\ LET r == Parsed(bench.pipe[t], StatusOf(bench.ran[t][1]), bench.f[t])
     IN bench' = [bench EXCEPT !.f[t] = r[1], !.msg[t] = ExecMsg(r[1], r[2]), !.pc[t] = "evaluated"]

(* The result is taken and the task freed. *)
NextTask(t) ==
  /\ CallerAt(t, "evaluated")
  /\ bench' = [bench EXCEPT !.pc[t] = "idle", !.x[t] = 0, !.f[t] = <<>>, !.msg[t] = "none", !.ran[t] = <<>>,
                            !.infile[t] = 0, !.outfile[t] = 0, !.pipe[t] = <<>>]

ProgramsNext ==
  \/ NewPrograms
  \/ On("programs") /\ bench.calls = MaxCalls /\ (\A t \in Callers : bench.pc[t] = "idle")
     /\ TakeOff("programs")
  \/ \E t \in Callers :
       \/ ExecFunc(t) \/ PExecFunc(t)
       \/ \E end \in Statuses : RunProgram(t, end) \/ RunPiped(t, end)
       \/ MakeInfile(t) \/ MakeOutfile(t) \/ WriteInputs(t)
       \/ ReadOutput(t) \/ UnlinkInfile(t) \/ UnlinkOutfile(t) \/ ReadPipe(t) \/ NextTask(t)
-----------------------------------------------------------------------------
(* However the evaluations interleave and whatever names mkstemp gives out *)
(* again, a task is told the value of its own point: exactly when its own  *)
(* program printed one and did not exit with a failure (killed by a signal *)
(* after it counts as well), never without a message, and never "success"  *)
(* without a value; and only calls under way leave files, two each.        *)
OwnAnswers ==
  On("programs") =>
    /\ \A t \in Callers : bench.pc[t] = "evaluated" =>
         LET end == bench.ran[t][1]
             line == bench.ran[t][2]
         IN /\ bench.f[t] = IF line[1] = "value" /\ end # "exit-1" THEN <<bench.x[t]>> ELSE <<>>
            /\ bench.msg[t] # "none"
            /\ bench.msg[t] = "success" => bench.f[t] # <<>>
    /\ LET having(t) ==
             CASE bench.pc[t] \in {"write", "system", "read", "unlink-in"} -> {bench.infile[t], bench.outfile[t]}
               [] bench.pc[t] = "mkstemp-out" -> {bench.infile[t]}
               [] bench.pc[t] = "unlink-out" -> {bench.outfile[t]}
               [] OTHER -> {}
       IN /\ DOMAIN bench.files = UNION {having(t) : t \in Callers}
          /\ \A t, u \in Callers : t # u => having(t) \cap having(u) = {}
=============================================================================
