----------------------------- MODULE MCCharMux -----------------------------
(***************************************************************************)
(* The instances of CharMux: all back ends, with and without multiplexer.  *)
(***************************************************************************)
EXTENDS CharMux

MCKinds == {"telnet", "pty", "udp", "fd"}
\* Ctrl-A b and IAC BREAK both break: over telnet the second does for both.
MCLetters ==
    [k \in MCKinds |-> {"key", "IAC", "IAC_BREAK", "escape", "c"}
                       \union (IF k = "telnet" THEN {} ELSE {"b"})]
=============================================================================
