---------------------------- MODULE MCSelection ----------------------------
\* Leaves 0, 1, 2 (1 and 2 are found equal); object 5 in either field, object 6
\* with the same content, object 7 with another.
EXTENDS Selection

Pair(x, y) == [a |-> x, b |-> y]
MCStates == {Pair(<<0, 0>>, <<0, 1>>), Pair(<<0, 1>>, <<0, 2>>), Pair(<<0, 1>>, <<0, 0>>),
             Pair(<<5, 1>>, <<0, 1>>), Pair(<<6, 1>>, <<0, 2>>), Pair(<<7, 0>>, <<0, 2>>),
             Pair(<<7, 0>>, <<5, 1>>)}
MCSelectors == {[test |-> <<"a">>, yes |-> <<"a">>, no |-> <<"a">>],
                [test |-> <<"b">>, yes |-> <<"b">>, no |-> <<"b">>],
                [test |-> <<"a", "c">>, yes |-> <<"a">>, no |-> <<"b">>],
                [test |-> <<"a", "c">>, yes |-> <<"b">>, no |-> <<"a", "c">>],
                [test |-> <<"a">>, yes |-> <<"b">>, no |-> <<"a">>],
                [test |-> <<"a">>, yes |-> <<"b", "c">>, no |-> <<"b">>]}
MCSimilar == {<<<<0, 1>>, <<0, 2>>>>, <<<<0, 2>>, <<0, 1>>>>,
              <<<<5, 1>>, <<6, 1>>>>, <<<<6, 1>>, <<5, 1>>>>}
=============================================================================
