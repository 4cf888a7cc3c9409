-------------------------------- MODULE Input --------------------------------
(***************************************************************************)
(* InputProcess and ProfilerProcess side by side.  They are processes of   *)
(* their own and share nothing but the queue between them: InputPipeline   *)
(* follows a line as far as that queue, FlowReader says what becomes of    *)
(* the lines of one input from there, in whatever order they come.         *)
(***************************************************************************)
EXTENDS InputPipeline, FlowReader

inputVars == <<vars, readerVars>>

InputInit == Init /\ ReaderInit

InputNext ==
    \/ Next /\ UNCHANGED readerVars
    \/ ReaderNext /\ UNCHANGED vars

InputSpec == InputInit /\ [][InputNext]_inputVars

(* The types of what both processes keep: files, handles, threads and the  *)
(* dictionary of inputProcess.py, and what profilerProcess.py learns from  *)
(* the lines it reads.                                                     *)
InputTypeOK == TypeOK /\ ReaderTypeOK
==============================================================================
