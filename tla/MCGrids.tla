------------------------------- MODULE MCGrids -------------------------------
EXTENDS Grids

CONSTANTS w1, w2

\* Directories beyond the first request, a block that comes with them, two that are adjacent
\* and one apart.
Tiff == [kind |-> "tiff", needs |-> << <<0, 1>>, <<3, 1>> >>,
         blocks |-> << <<4, 1>>, <<5, 1>>, <<6, 1>>, <<8, 1>> >>,
         full |-> 9, size |-> 9, badDirs |-> FALSE, badBlocks |-> {}]
Tin == [kind |-> "tin", needs |-> <<>>, blocks |-> <<>>,
        full |-> 2, size |-> 2, badDirs |-> FALSE, badBlocks |-> {}]

World(tiff, tin) ==
    [loader |-> <<TRUE, TRUE>>,
     readOf |-> (w1 :> 1 @@ w2 :> 2),
     clears |-> 0,
     files |-> [a |-> tiff, b |-> tin],
     keys |-> [x |-> [ok |-> TRUE, grids |-> <<"a", "a">>, blocks |-> [a |-> {1, 2, 3}, b |-> {}]],
               y |-> [ok |-> TRUE, grids |-> <<"b", "a">>, blocks |-> [a |-> {3, 4}, b |-> {}]]]]

\* An srsName that needs no grid, and one that cannot be converted.
NoGrid == [ok |-> TRUE, grids |-> <<>>, blocks |-> [a |-> {}, b |-> {}]]
Unknown == [ok |-> FALSE, grids |-> <<>>, blocks |-> [a |-> {}, b |-> {}]]

OneRead(x) == [x EXCEPT !.readOf[w2] = 1]

\* Whole files; a file cut in its directories or in its blocks; files that are no grid or have a
\* block that cannot be decoded.  For whole files also a read without a loader, and a registry
\* that is cleared.
MCWorlds ==
    LET whole == World(Tiff, Tin)
        short(n) == World([Tiff EXCEPT !.size = n], Tin)
        broken == World([Tiff EXCEPT !.badBlocks = {2}], [Tin EXCEPT !.size = 1])
    IN  {whole, short(3), short(6), broken, World([Tiff EXCEPT !.badDirs = TRUE], Tin),
         [whole EXCEPT !.loader[2] = FALSE, !.keys.y = Unknown], [whole EXCEPT !.keys.y = NoGrid],
         OneRead(short(8)), OneRead(broken), OneRead([whole EXCEPT !.clears = 1])}
=============================================================================
