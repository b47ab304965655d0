------------------------------ MODULE MCMadTx ------------------------------
(* MadTx with two threads on a file of two blocks of two units. *)
EXTENDS MadTx

SomeCalls ==
  {<<"write", 2, 2>>, <<"write", 1, 1>>, <<"write", 1, 2>>,
   <<"read", 0, 4>>}
Alike == Permutations(Threads)

(* Nothing is claimed once a gap has opened. *)
NoGap == gaps = {}
=============================================================================
