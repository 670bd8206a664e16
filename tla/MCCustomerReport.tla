------------------------- MODULE MCCustomerReport -------------------------
(* Instances of CustomerReport for TLC.                                    *)
EXTENDS CustomerReport

Fate(acked, lost, dup, ghost, levels, rate) ==
  [offered |-> 100, acked |-> acked, lost |-> lost, dup |-> dup, ghost |-> ghost,
   levels |-> levels, rate |-> rate]

\* Clean, clean and faster, a staircase, one lost, a loss masked by a row that
\* landed late, a doubled row, and too much refused.
MCFates == {Fate(100, 0, 0, 0, 1, 5), Fate(99, 0, 0, 1, 1, 7), Fate(100, 1, 0, 0, 1, 9),
            Fate(99, 1, 0, 1, 2, 7), Fate(100, 0, 1, 0, 1, 9), Fate(98, 0, 0, 0, 1, 9)}
MCRuns == {1, 2}
=============================================================================
