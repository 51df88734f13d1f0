------------------------------ MODULE MCPaging ------------------------------
(* Pages of 2 units and tables of 3 or 6 pages: enough for two batches. *)
EXTENDS Paging

None == {}
Entry(a, l, av) == [addr |-> a, len |-> l, available |-> av]

\* RAM that starts and ends inside a frame; RAM for one batch; hardly any RAM.
Plenty == {Entry(0, 3, TRUE), Entry(3, 2, FALSE), Entry(5, 20, TRUE)}
Tight == {Entry(0, 3, FALSE), Entry(4, 13, TRUE)}
Starved == {Entry(0, 5, TRUE)}
Maps == {Plenty, Tight, Starved}
OneMap == {Plenty}

TestPage == {7}
Moves == {0, 1, 4, -2, -20}
Grow == {2}
Below == {5}
=============================================================================
