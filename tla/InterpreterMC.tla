---------------------------- MODULE InterpreterMC ----------------------------
(* A definition in which every kind of block occurs inside another: a try    *)
(* around a parallel block whose branches are a sub-workflow with an error   *)
(* sequence and a rethrowing try whose catch may raise an end; the outer     *)
(* catch may call the run's own workflow again.                              *)
(* TreeAssumption checks that the tables describe one tree.                  *)
EXTENDS Interpreter

MCKind ==
   [top |-> "run", root |-> "seq", try1 |-> "try", body1 |-> "seq",
    par1 |-> "par", branch1 |-> "seq", sub1 |-> "sub", root2 |-> "seq",
    onError2 |-> "seq", branch2 |-> "seq", try2 |-> "try",
    body2 |-> "seq", catch2 |-> "seq", cond3 |-> "cond", then3 |-> "seq",
    skip3 |-> "seq", catch1 |-> "seq", cond4 |-> "cond", then4 |-> "seq",
    sub4 |-> "sub", root4 |-> "seq", onError4 |-> "seq", else4 |-> "seq",
    onError |-> "seq", http2 |-> "http", http5 |-> "http",
    http7 |-> "http", http9 |-> "http", set3 |-> "set", set6 |-> "set",
    end3 |-> "end", fail4 |-> "fail"]

MCKids ==
   [top |-> <<"root", "onError">>, root |-> <<"try1", "http9">>,
    try1 |-> <<"body1", "catch1">>, body1 |-> <<"par1">>,
    par1 |-> <<"branch1", "branch2">>, branch1 |-> <<"sub1">>,
    sub1 |-> <<"root2", "onError2">>, root2 |-> <<"http2">>,
    onError2 |-> <<"set3">>, branch2 |-> <<"try2">>,
    try2 |-> <<"body2", "catch2">>, body2 |-> <<"http5">>,
    catch2 |-> <<"cond3">>, cond3 |-> <<"then3", "skip3">>,
    then3 |-> <<"end3">>, skip3 |-> <<"set6">>, catch1 |-> <<"cond4">>,
    cond4 |-> <<"then4", "else4">>, then4 |-> <<"sub4">>,
    sub4 |-> <<"root4", "onError4">>, root4 |-> <<>>, onError4 |-> <<>>,
    else4 |-> <<"fail4">>, onError |-> <<"http7">>, http2 |-> <<>>,
    http5 |-> <<>>, http7 |-> <<>>, http9 |-> <<>>, set3 |-> <<>>,
    set6 |-> <<>>, end3 |-> <<>>, fail4 |-> <<>>]

MCAbove ==
   [top |-> {}, root |-> {"top"}, try1 |-> {"top", "root"},
    body1 |-> {"top", "root", "try1"},
    par1 |-> {"top", "root", "try1", "body1"},
    branch1 |-> {"top", "root", "try1", "body1", "par1"},
    sub1 |-> {"top", "root", "try1", "body1", "par1", "branch1"},
    root2 |-> {"top", "root", "try1", "body1", "par1", "branch1", "sub1"},
    onError2 |-> {"top", "root", "try1", "body1", "par1", "branch1", "sub1"},
    branch2 |-> {"top", "root", "try1", "body1", "par1"},
    try2 |-> {"top", "root", "try1", "body1", "par1", "branch2"},
    body2 |-> {"top", "root", "try1", "body1", "par1", "branch2", "try2"},
    catch2 |-> {"top", "root", "try1", "body1", "par1", "branch2", "try2"},
    cond3 |-> {"top", "root", "try1", "body1", "par1", "branch2", "try2", "catch2"},
    then3 |-> {"top", "root", "try1", "body1", "par1", "branch2", "try2", "catch2", "cond3"},
    skip3 |-> {"top", "root", "try1", "body1", "par1", "branch2", "try2", "catch2", "cond3"},
    catch1 |-> {"top", "root", "try1"},
    cond4 |-> {"top", "root", "try1", "catch1"},
    then4 |-> {"top", "root", "try1", "catch1", "cond4"},
    sub4 |-> {"top", "root", "try1", "catch1", "cond4", "then4"},
    root4 |-> {"top", "root", "try1", "catch1", "cond4", "then4", "sub4"},
    onError4 |-> {"top", "root", "try1", "catch1", "cond4", "then4", "sub4"},
    else4 |-> {"top", "root", "try1", "catch1", "cond4"},
    onError |-> {"top"},
    http2 |-> {"top", "root", "try1", "body1", "par1", "branch1", "sub1", "root2"},
    http5 |-> {"top", "root", "try1", "body1", "par1", "branch2", "try2", "body2"},
    http7 |-> {"top", "onError"}, http9 |-> {"top", "root"},
    set3 |-> {"top", "root", "try1", "body1", "par1", "branch1", "sub1", "onError2"},
    set6 |-> {"top", "root", "try1", "body1", "par1", "branch2", "try2", "catch2", "cond3", "skip3"},
    end3 |-> {"top", "root", "try1", "body1", "par1", "branch2", "try2", "catch2", "cond3", "then3"},
    fail4 |-> {"top", "root", "try1", "catch1", "cond4", "else4"}]

MCBlocks == DOMAIN MCKind
MCTarget == [top |-> "A", sub1 |-> "B", sub4 |-> "A"]
=============================================================================
