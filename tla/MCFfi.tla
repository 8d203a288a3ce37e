------------------------------- MODULE MCFfi -------------------------------
(***************************************************************************)
(* Model-checking instance of Ffi.  Threads are model values and          *)
(* interchangeable, so they form a symmetry set.                          *)
(***************************************************************************)
EXTENDS Ffi

\* a c_char above 127 as the signed byte -63 (0xC1), and 'A'
MCCCharInputs == {-63, 65}

Symmetry == Permutations(Threads)
=============================================================================
