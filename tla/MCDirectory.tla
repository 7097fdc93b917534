---------------------------- MODULE MCDirectory ----------------------------
EXTENDS Directory, TLC

CONSTANTS t1, t2, a, b

MCThread == {t1, t2}
MCName == {a, b}
MCPool == {2, 3, 4}

(* Threads are interchangeable, and so are names: nothing in the code     *)
(* orders them.                                                            *)
MCSymmetry == Permutations(MCThread) \cup Permutations(MCName)
=============================================================================
