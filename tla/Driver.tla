------------------------------- MODULE Driver -------------------------------
(***************************************************************************)
(* main() (lib/compiler.cpp) from the input file to the exit status, with  *)
(* the two files that are written on the way (lib/codegen.cpp).  Whether a *)
(* file can be opened and written, and whether LLVM knows the target, is   *)
(* arbitrary.  The parser is left out: it always returns a tree.           *)
(***************************************************************************)
EXTENDS Frontend

VARIABLES
  ir, object,     \* Output.ll and output.o: "old", "empty", "cut" or "new"
  status          \* what main() is at, or its exit status

files    == <<ir, object>>
mainVars == <<vars, files, status>>

MainInit ==
  /\ Init
  /\ ir = "old" /\ object = "old"
  /\ status = "reading"

Goto(next) == status' = next /\ UNCHANGED vars

(* getFileOrSTDIN() *)
ReadInput ==
  /\ status = "reading"
  /\ Goto("compiling") \/ Goto("failure")
  /\ UNCHANGED files

Compile == status = "compiling" /\ Next /\ UNCHANGED <<files, status>>

(* if (!success) return 1; *)
Reject ==
  /\ status = "compiling" /\ phase = "rejected"
  /\ Goto("failure") /\ UNCHANGED files

(* An assertion of LLVM ends the process. *)
Abort ==
  /\ status = "compiling" /\ phase = "aborted"
  /\ Goto("failure") /\ UNCHANGED files

(* The end of generate(): a failure to open Output.ll is not passed on.  A stream *)
(* that could not write ends the process in its destructor.                       *)
PrintModule ==
  /\ status = "compiling" /\ phase = "generated"
  /\ \/ Goto("printed") /\ ir' \in {ir, "new"}
     \/ Goto("failure") /\ ir' = "cut"
  /\ UNCHANGED object

(* lookupTarget() and createTargetMachine() *)
FindTarget ==
  /\ status = "printed"
  /\ Goto("targeted") \/ Goto("failure")
  /\ UNCHANGED files

(* Opening truncates *)
OpenObject ==
  /\ status = "targeted"
  /\ \/ Goto("opened") /\ object' = "empty"
     \/ Goto("failure") /\ UNCHANGED object
  /\ UNCHANGED ir

(* Variant: GenerateObjectFile() returns true where no passes could be added. *)
EmitAnyway ==
  /\ status = "opened"
  /\ \/ Goto("success") /\ object' \in {object, "new"}
     \/ Goto("failure") /\ object' = "cut"
  /\ UNCHANGED ir

(* addPassesToEmitFile() may refuse; run() and the stream's destructor *)
EmitObject ==
  /\ status = "opened"
  /\ \/ Goto("success") /\ object' = "new"
     \/ Goto("failure") /\ object' \in {object, "cut"}
  /\ UNCHANGED ir

MainNext ==
  \/ ReadInput \/ Compile \/ Reject \/ Abort \/ PrintModule
  \/ FindTarget \/ OpenObject \/ EmitObject

MainSpec == MainInit /\ [][MainNext]_mainVars

-----------------------------------------------------------------------------
(* The exit status is all that a build sees of the stages, which report their *)
(* failures each in a way of its own: it is 0 exactly when a whole object was *)
(* written, and then every function was generated and every statement had a   *)
(* type.  A program that is rejected, or ends the process, leaves both files  *)
(* alone.  (Nothing is said of Output.ll: generate() does not report that it  *)
(* was not opened.)                                                           *)
ExitStatus ==
  /\ status = "success" =>
       /\ object = "new" /\ gen = Len(functions) + 1
       /\ \A q \in DOMAIN code : code[q].type # "error"
  /\ object = "new" => status = "success"
  /\ phase \in {"rejected", "aborted"} => ir = "old" /\ object = "old"
=============================================================================
