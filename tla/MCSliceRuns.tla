---------------------------- MODULE MCSliceRuns ----------------------------
(***************************************************************************)
(* Small instances of SliceRuns: two frames, a plan of each kind.           *)
(***************************************************************************)
EXTENDS SliceRuns, TLC

CONSTANTS f, g

InTurn == Stage(<<f>>, "stagger")

\* Squads side by side, one of them with a request for everything; all six.
SomePlans == {Squads(InTurn, Stage(<<g>>, "parallel"), FALSE), RunSix}

\* A chain of three; and one of two, whose first preset has lost its frames.
SomeChains == {<<Tile(f), DispatchAll, Run(<<f, g>>, "wave")>>,
               <<Run(<<>>, "wave"), Sequence(InTurn, InTurn, TRUE)>>}
=============================================================================
