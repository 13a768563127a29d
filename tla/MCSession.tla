----------------------------- MODULE MCSession -----------------------------
(* Session for TLC.  The processes are interchangeable.                    *)
EXTENDS Session, TLC

Symmetry == Permutations(Procs)

=============================================================================
