-------------------------- MODULE MCLocalOrderBook --------------------------
(* Instances of LocalOrderBook for TLC: two asks and a bid that crosses one. *)
EXTENDS LocalOrderBook

Book(levels) == [l \in Levels |-> IF l \in levels THEN 1 ELSE 0]

\* Two asks, one ask, a bid that crosses the lower ask, and a book without an
\* ask, as before a new coin is traded: then the callbacks raise.
Thin == {Book(s) : s \in {{}, {<<"ask", 2>>}, {<<"ask", 1>>, <<"ask", 2>>},
                          {<<"bid", 1>>, <<"ask", 2>>}}}
=============================================================================
