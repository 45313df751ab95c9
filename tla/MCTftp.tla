------------------------------- MODULE MCTftp -------------------------------
(* Clients of Tftp for model checking.                                     *)
EXTENDS Tftp

Kernel  == [blocks |-> 3, elf |-> TRUE,  linux |-> TRUE,  octet |-> TRUE]
Text    == [blocks |-> 1, elf |-> FALSE, linux |-> FALSE, octet |-> TRUE]
Ascii   == [blocks |-> 2, elf |-> TRUE,  linux |-> FALSE, octet |-> FALSE]

\* A refused mode, a file that is no ELF image, then a kernel.
Session == <<Ascii, Text, Kernel>>
=============================================================================
