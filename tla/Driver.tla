------------------------------- MODULE Driver -------------------------------
(***************************************************************************)
(* One invocation of t81-lang: check, emit-ir or emit-bytecode (build is   *)
(* emit-bytecode).  The two emitting commands run check first, then read   *)
(* the entry from disk a second time, parse and analyse it again, lower    *)
(* it, encode it and overwrite the output file.  The process can be killed *)
(* between any two steps, the user can edit the sources at any time, and   *)
(* the device of the output file can fail.                                 *)
(***************************************************************************)
EXTENDS ModuleLoader

CONSTANTS
  Lowers,     \* the contents the IR generator lowers; on others it throws
  Encodes,    \* the contents whose IR encode_program accepts
  Aborted,    \* how the process ended: std::terminate ...
  Killed      \* ... or a signal, instead of an exit code

ASSUME DriverAssumption ==
  /\ Encodes \subseteq Lowers /\ Lowers \subseteq Content
  /\ {Aborted, Killed} \cap {None, 0, 1} = {}

VARIABLES
  command,    \* "check" | "emit-ir" | "emit-bytecode"
  to_file,    \* an output path was given (always true for emit-bytecode)
  step,       \* what run_emit_* does next
  text,       \* the content of the entry as compile_entry_to_ir read it
  output,     \* what the output path holds: "old" | "partial" | "new"
  result      \* the exit code, Aborted or Killed; None while it runs

driverVars == <<command, to_file, step, text, output, result>>
allVars == <<vars, driverVars>>

DriverInit ==
  /\ Init
  /\ command \in {"check", "emit-ir", "emit-bytecode"}
  /\ to_file \in BOOLEAN
  /\ command = "emit-bytecode" => to_file
  /\ step = "check"
  /\ text = Absent
  /\ output = "old"
  /\ result = None

Running == result = None

\* run_check, one of its own steps at a time.
CheckStep ==
  /\ Running
  /\ step = "check"
  /\ Check
  /\ UNCHANGED driverVars

\* Faults for the runs to see: the exit code of check is not looked at, and the
\* output file is opened before there is anything to write to it.
CheckReturnedUnseen ==
  /\ Running
  /\ step = "check"
  /\ exit_code # None
  /\ IF command = "check" THEN result' = exit_code /\ step' = step
                          ELSE result' = result /\ step' = "compile"
  /\ UNCHANGED <<vars, command, to_file, text, output>>

CheckReturnedTruncating ==
  /\ Running
  /\ step = "check"
  /\ exit_code # None
  /\ IF command = "check" \/ exit_code # 0
       THEN result' = exit_code /\ UNCHANGED <<step, output>>
       ELSE result' = result /\ step' = "compile" /\ output' = "partial"
  /\ UNCHANGED <<vars, command, to_file, text>>

\* run_check has returned to its caller.
CheckReturned ==
  /\ Running
  /\ step = "check"
  /\ exit_code # None
  /\ IF command = "check" \/ exit_code # 0
       THEN result' = exit_code /\ step' = step
       ELSE result' = result /\ step' = "compile"
  /\ UNCHANGED <<vars, command, to_file, text, output>>

\* Faults for the runs to see: the second text is trusted because check passed,
\* and a text with errors is read again until it has none.
ReadAgainTrusting ==
  /\ Running
  /\ step = "compile"
  /\ text' = disk[Entry]
  /\ IF text' # Absent
       THEN step' = "lower" /\ result' = result
       ELSE step' = step /\ result' = 1
  /\ UNCHANGED <<vars, command, to_file, output>>

ReadAgainRetrying ==
  /\ Running
  /\ step = "compile"
  /\ text' = disk[Entry]
  /\ step' = IF text' # Absent /\ text'.parses /\ text'.sound THEN "lower" ELSE step
  /\ UNCHANGED <<vars, command, to_file, output, result>>

\* read_file, parse and analyse, from scratch: nothing of run_check is kept.
ReadAgain ==
  /\ Running
  /\ step = "compile"
  /\ text' = disk[Entry]
  /\ IF text' # Absent /\ text'.parses /\ text'.sound
       THEN step' = "lower" /\ result' = result
       ELSE step' = step /\ result' = 1
  /\ UNCHANGED <<vars, command, to_file, output>>

\* An exception of the IR generator leaves main: std::terminate.
Lower ==
  /\ Running
  /\ step = "lower"
  /\ IF text \in Lowers
       THEN /\ step' = IF command = "emit-bytecode" THEN "encode" ELSE "write"
            /\ result' = result
       ELSE step' = step /\ result' = Aborted
  /\ UNCHANGED <<vars, command, to_file, text, output>>

\* A fault for the runs to see: an exit code that the other commands never give.
EncodeMinusOne ==
  /\ Running
  /\ step = "encode"
  /\ IF text \in Encodes THEN step' = "write" /\ result' = result
                         ELSE step' = step /\ result' = -1
  /\ UNCHANGED <<vars, command, to_file, text, output>>

Encode ==
  /\ Running
  /\ step = "encode"
  /\ IF text \in Encodes THEN step' = "write" /\ result' = result
                         ELSE step' = step /\ result' = 1
  /\ UNCHANGED <<vars, command, to_file, text, output>>

PrintText ==
  /\ Running
  /\ step = "write"
  /\ ~to_file
  /\ result' = 0
  /\ UNCHANGED <<vars, command, to_file, step, text, output>>

\* Constructing the ofstream truncates the file, or fails and leaves it.
OpenOutput ==
  /\ Running
  /\ step = "write"
  /\ to_file
  /\ \/ step' = "insert" /\ output' = "partial" /\ result' = result
     \/ step' = step /\ output' = output /\ result' = 1
  /\ UNCHANGED <<vars, command, to_file, text>>

\* operator<< then good(): an error shows here only when the text is longer
\* than the stream buffer, so that part of it is written at once.
Insert ==
  /\ Running
  /\ step = "insert"
  /\ \/ step' = "close" /\ result' = result
     \/ step' = step /\ result' = 1
  /\ UNCHANGED <<vars, command, to_file, text, output>>

\* The destructor writes what is left in the buffer; write_file has already
\* computed the value it returns.
CloseOutput ==
  /\ Running
  /\ step = "close"
  /\ output' \in {"partial", "new"}
  /\ result' = 0
  /\ UNCHANGED <<vars, command, to_file, step, text>>

\* The process is killed; what the file system holds stays.
Kill ==
  /\ Running
  /\ result' = Killed
  /\ UNCHANGED <<vars, command, to_file, step, text, output>>

EditSource ==
  /\ \E f \in File, c \in Content \cup {Absent} : Edit(f, c)
  /\ UNCHANGED driverVars

Run == CheckStep \/ CheckReturned \/ ReadAgain \/ Lower \/ Encode \/ PrintText
       \/ OpenOutput \/ Insert \/ CloseOutput

DriverNext == Run \/ Kill \/ EditSource

DriverSpec == DriverInit /\ [][DriverNext]_allVars /\ WF_allVars(Run)

-----------------------------------------------------------------------------
(* Properties *)

\* What the driver's own variables hold.
DriverTypeOK ==
  /\ command \in {"check", "emit-ir", "emit-bytecode"}
  /\ to_file \in BOOLEAN
  /\ step \in {"check", "compile", "lower", "encode", "write", "insert", "close"}
  /\ text \in Content \cup {Absent}
  /\ output \in {"old", "partial", "new"}
  /\ result \in {None, 0, 1, Aborted, Killed}

\* The output path is touched only after the whole module graph was accepted
\* and the text that is being emitted was itself parsed, analysed and lowered:
\* an edit between the check and the second read cannot slip through.
OutputIsOfAcceptedProgram ==
  output # "old" =>
    /\ exit_code = 0 /\ ~graph_error /\ ~semantic_error
    /\ text \in Lowers /\ text.parses /\ text.sound
    /\ command = "emit-bytecode" => text \in Encodes

\* When nobody edits the sources, what is emitted with exit code 0 is the unit
\* that the check loaded, from files that form a well-formed program.
EmitsWhatWasChecked ==
  result = 0 /\ edits = 0 /\ command # "check" =>
    text = units[Entry] /\ Accepts(disk)

\* A failure before the output is opened leaves the previous artifact whole,
\* and an incomplete artifact is never left by a command that only checks or
\* prints.
PartialOnlyByWriting ==
  output = "partial" => to_file /\ command # "check" /\ step \in {"insert", "close"}

\* Every invocation ends, on cyclic graphs of imports too, and however the
\* files are edited: load_module does not call itself for ever.
DriverTerminates == <>(result # None)

\* scripts/check-cli-compile.sh:20-32 takes exit code 0 of emit-bytecode and
\* build to mean that the artifact is there, complete.
ExitZeroMeansWritten == result = 0 /\ command # "check" /\ to_file => output = "new"
=============================================================================
