----------------------------- MODULE MCBootTest -----------------------------
EXTENDS BootTest

(* A newline, a character of two bytes, one that is cut, and a line of the *)
(* boot messages that looks like a prompt (line 75: '#').                  *)
MCChatter == {<<Newline>>, <<First, Second>>, <<First>>, Marker(2)}
=============================================================================
