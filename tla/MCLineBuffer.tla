---------------------------- MODULE MCLineBuffer ----------------------------
(* Clients of LineBuffer for model checking.                               *)
EXTENDS LineBuffer

MCStyles == {
    \* Lines of two and three bytes, one at a time.
    [packets |-> {<<0, 1>>, <<0, 0, 1>>}, lockstep |-> TRUE, most |-> 12],
    \* A packet per key, waiting after a line: through the wrap.
    [packets |-> {<<0>>, <<1>>}, lockstep |-> TRUE, most |-> 11],
    \* A packet per key, typed ahead.
    [packets |-> {<<0>>, <<1>>}, lockstep |-> FALSE, most |-> 7],
    \* Ctrl-A in some lines, and among typed keys.
    [packets |-> {<<0, 1>>, <<0, 2, 1>>}, lockstep |-> TRUE, most |-> 9],
    [packets |-> {<<0>>, <<1>>, <<2>>}, lockstep |-> FALSE, most |-> 5]}
=============================================================================
