--------------------------- MODULE MCSerialReader ---------------------------
(* A guest that prints two letters and newlines, and a test that waits for *)
(* one two-letter text after another.                                      *)
EXTENDS SerialReader

MCByte == {"a", "b", "nl"}
MCExpected == {<<"a", "b">>, <<"b", "a">>}
=============================================================================
