---------------------------- MODULE MCForwarding ----------------------------
EXTENDS ColibriForwarding
Child(a, ai, b, bi) == [a |-> a, ai |-> ai, b |-> b, bi |-> bi, type |-> "child"]
CoreLink(a, ai, b, bi) == [a |-> a, ai |-> ai, b |-> b, bi |-> bi, type |-> "core"]
mcASes == {"C1", "C2", "C3", "D", "E", "F"}
mcCore == {"C1", "C2", "C3"}
mcLinks == {CoreLink("C1", 1, "C2", 1), CoreLink("C1", 3, "C3", 1), CoreLink("C3", 2, "C2", 3),
            Child("C1", 2, "D", 1), Child("D", 2, "E", 1), Child("D", 3, "F", 1),
            Child("C2", 2, "F", 2)}
mcSecond == {<<"C1", 3>>, <<"C2", 2>>, <<"D", 3>>, <<"F", 2>>}
mcRouter == [x \in {y \in mcASes \X (1..3) : y[2] \in Interfaces(y[1])} |->
                IF x \in mcSecond THEN "r2" ELSE "r1"]
=============================================================================
