------------------------------ MODULE Console ------------------------------
(***************************************************************************)
(* What stdio over a serial port promises: the characters put come out on  *)
(* the line, each once and in order, and so do the characters of the line  *)
(* out of stdin_getchar, until the line takes a liberty.  A character is   *)
(* its number in its stream.                                               *)
(***************************************************************************)
EXTENDS Naturals, Sequences

VARIABLES
    put,    \* how many characters stdout_putchar was given
    wire,   \* the characters sent
    fed,    \* how many characters came in
    got,    \* the characters stdin_getchar returned
    taken   \* the line has taken a liberty

vars == <<put, wire, fed, got, taken>>

Init == put = 0 /\ wire = <<>> /\ fed = 0 /\ got = <<>> /\ taken = FALSE

Put  == put' = put + 1 /\ UNCHANGED <<wire, fed, got, taken>>
Emit == /\ Len(wire) < put
        /\ wire' = Append(wire, Len(wire) + 1)
        /\ UNCHANGED <<put, fed, got, taken>>
Feed == /\ fed' \in {fed, fed + 1}
        /\ taken' \in {taken, TRUE}
        /\ UNCHANGED <<put, wire, got>>
Get  == /\ Len(got) < fed
        /\ got' = Append(got, Len(got) + 1)
        /\ UNCHANGED <<put, wire, fed, taken>>
Misread == /\ taken
           /\ Len(got') = Len(got) + 1 /\ SubSeq(got', 1, Len(got)) = got
           /\ UNCHANGED <<put, wire, fed, taken>>

Next == Put \/ Emit \/ Feed \/ Get \/ Misread

Spec == Init /\ [][Next]_vars
=============================================================================
