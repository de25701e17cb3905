------------------------------- MODULE File ---------------------------------
(***************************************************************************)
(* What an archiving file system promises of the data of a file, wherever  *)
(* the data is: a read returns the version last written, or fails.         *)
(***************************************************************************)
EXTENDS Naturals

CONSTANTS
    Readers,    \* threads that read the file
    None        \* the result of a failed read

VARIABLES
    content,    \* the version last written
    seen        \* what each reader's last read returned

Init == content \in Nat /\ seen = [r \in Readers |-> None]

Write == content' \in Nat /\ UNCHANGED seen

Read(r) ==
    /\ \E v \in {content, None} : seen' = [seen EXCEPT ![r] = v]
    /\ UNCHANGED content

Next == Write \/ \E r \in Readers : Read(r)

Spec == Init /\ [][Next]_<<content, seen>>

=============================================================================
