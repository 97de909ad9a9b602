---------------------------- MODULE MCExpiration ----------------------------
EXTENDS Expiration, TLC

\* One finished directory and one that is being written.
TwoDirs == (<< >> :> 0) @@ (<< 1 >> :> 2) @@ (<< 2 >> :> 1)

WritesSecond == [w \in Writers |-> << 2 >>]

\* The base directory and one that is in the tree.
RootAndChild == {<< >>, << 2 >>}

\* Directory <<1>> belongs to writer 1; writer 2 has not started.
OneWriter == (<< >> :> 0) @@ (<< 1 >> :> 0) @@ (<< 1, 1 >> :> 1) @@ (<< 1, 2 >> :> 1)

FirstWrites == [w \in Writers |-> IF w = 1 THEN << 1, 2 >> ELSE << >>]

\* Directories by day and hour.
OneDay == (<< >> :> 0) @@ (<< 1 >> :> 0) @@ (<< 1, 1 >> :> 1)

WritesFirstHour == [w \in Writers |-> << 1, 1 >>]
====
