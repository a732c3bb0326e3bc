----------------------------- MODULE MCOhciHcd -----------------------------
(* Small instances of OhciHcd.  c1, c2: ep0 of two devices; b1: a bulk pipe; *)
(* i1: an interrupt pipe.                                                    *)
EXTENDS OhciHcd, TLC

CONSTANTS c1, c2, b1, i1

McKind == [e \in Eps |-> CASE e \in {c1, c2} -> "ctrl"
                           [] e = b1 -> "bulk"
                           [] e = i1 -> "int"]

\* The requests are interchangeable.
McSymmetry == Permutations(Utrs)
=============================================================================
