--------------------------- MODULE RepairContract ---------------------------
(***************************************************************************)
(* What repair_files_with_messages promises its caller about the protected *)
(* files (its doc comment, and the module docs of lib.rs): a file is only  *)
(* ever replaced, whole, by its protected bytes; a cancelled call has      *)
(* replaced none; a call that reports success has replaced every target.   *)
(***************************************************************************)
CONSTANTS
  Files,   \* the protected files
  Intact   \* the protected content

VARIABLES
  todo,      \* the files the call was asked to repair
  disk,      \* the content of each file
  replaced,  \* the files replaced so far
  result     \* "running" until the call returns

vars == <<todo, disk, replaced, result>>

Init == /\ todo \subseteq Files
        /\ disk = [f \in Files |-> disk[f]]
        /\ replaced = {}
        /\ result = "running"

\* One file of the call's targets becomes whole in a single step.
Replace(f) == /\ result = "running"
              /\ f \in todo \ replaced
              /\ disk' = [disk EXCEPT ![f] = Intact]
              /\ replaced' = replaced \cup {f}
              /\ UNCHANGED <<todo, result>>

Succeed == /\ result = "running"
           /\ replaced = todo
           /\ result' = "ok"
           /\ UNCHANGED <<todo, disk, replaced>>

\* The caller is told of a cancellation only if nothing has changed.
GiveUp == /\ result = "running"
          /\ replaced = {}
          /\ result' = "cancelled"
          /\ UNCHANGED <<todo, disk, replaced>>

\* Any other end, a killed process included.
Break == /\ result = "running"
         /\ result' = "broken"
         /\ UNCHANGED <<todo, disk, replaced>>

Next == (\E f \in Files : Replace(f)) \/ Succeed \/ GiveUp \/ Break

Spec == Init /\ [][Next]_vars
=============================================================================
