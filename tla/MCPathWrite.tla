---------------------------- MODULE MCPathWrite ----------------------------
\* Objects with keys k (a leaf, an object or an array) and x, an array and a number
\* as roots; numbers and a string as leaves.
EXTENDS PathWrite

One == <<"number", 1>>
Two == <<"number", 2>>
Text == <<"string", 1>>
Obj(f) == <<"object", f>>
K(v) == Obj([key \in {"k"} |-> v])
KX(v, w) == Obj([key \in {"k", "x"} |-> IF key = "k" THEN v ELSE w])

MCValues == {Obj(Empty), KX(K(One), One), KX(<<"array", <<One>>>>, Text), <<"array", <<>>>>}
MCPartials == {[key \in {"k"} |-> Null]}
MCPathInputs == {<<<<"k">>, Two>>, <<<<"k">>, Obj(Empty)>>, <<<<"x">>, Two>>,
                 <<<<"0">>, Two>>, <<<<"k", "k">>, Two>>, <<<<"k", "0">>, Two>>}
=============================================================================
