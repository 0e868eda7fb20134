-------------------------- MODULE MCNativeBoundary --------------------------
(***************************************************************************)
(* Small instances of what passes between Python and libnghttp2, for TLC:  *)
(* the arguments of a call, or the output of a drive.  The two parts share *)
(* no state; a behaviour is one of either.                                 *)
(*                                                                         *)
(* A call takes header fields and an integer.  Their conversions are       *)
(* independent, so the integers other than 0 come with plain pairs only.   *)
(***************************************************************************)
EXTENDS HeaderSnapshot, IntegerArguments, OutputBuffer

VARIABLE part \* "arguments" or "output"

\* Beyond the range of every width on both sides.
MCPythonInts == -20..20

MCInit ==
    /\ part \in {"arguments", "output"}
    /\ SnapshotInit
    /\ BufferInit
    /\ argument \in PythonInts
    /\ argument # 0 \/ part = "output" =>
          \A p \in PairObjects : kind[p] = "tuple" /\ stored[p].exact
    /\ part = "output" => argument = 0

MCNext ==
    /\ UNCHANGED <<part, argument>>
    /\ \/ part = "arguments" /\ SnapshotNext /\ UNCHANGED bufferVars
       \/ part = "output" /\ BufferNext /\ UNCHANGED snapshotVars

MCSpec == MCInit /\ [][MCNext]_<<part, argument, snapshotVars, bufferVars>>
=============================================================================
