---------------------------- MODULE MCLan8814Link ----------------------------
(* Instances of Lan8814Link for TLC. *)
EXTENDS Lan8814Link

All == [admin |-> TRUE, speed |-> "auto", adv |-> Speeds]
Only100 == [admin |-> TRUE, speed |-> "auto", adv |-> {"100F", "100H"}]
Forced(s) == [admin |-> TRUE, speed |-> s, adv |-> Speeds]
Down == [admin |-> FALSE, speed |-> "auto", adv |-> Speeds]

AllConfs == {All, Only100, Forced("100F"), Forced("100H"), Down}
AutoConfs == {All}

AllPartners == {Speeds, {"1G", "100F"}, {"100F"}, {"100H"}}
GigabitPartners == {{"1G", "100F"}}
==============================================================================
