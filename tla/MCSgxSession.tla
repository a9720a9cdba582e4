----------------------------- MODULE MCSgxSession -----------------------------
(* TLC instance of SgxSession: a file of one whole chunk and a short one,    *)
(* messages that contain "exit", begin like it, or are it.                  *)
EXTENDS SgxSession

SessionCalls == {"ecall_setup_sha256", "e_call_setup_connection"}
FileSizes    == {Absent, 0, 3}
SomeMessages == {Quit, <<"hi", "ex", "it">>, <<"ex", "hi">>}
NoLengths    == {0}
==============================================================================
