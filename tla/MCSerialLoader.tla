--------------------------- MODULE MCSerialLoader ---------------------------
(* What the user types in the instance that TLC checks. *)
EXTENDS SerialLoader

Lines == {<<"l", "CR">>, <<"w", " ", "1", " ", "A", "CR">>,
          <<"w", " ", "A", "1", " ", "1", "1">>, <<"r", " ", "1", "A", "b", "CR">>}
Keys  == {<<"CR">>, <<"BS">>, <<"ESC", "[", "A">>, <<"ESC", "b">>, <<"1">>}
MCPieces == Lines \cup Keys
=============================================================================
