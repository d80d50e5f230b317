------------------------------ MODULE MCSwitch ------------------------------
\* A small instance of the switch coordinator for TLC.
EXTENDS SwitchProperties, TLC

\* Choices are only compared with one another.
ChoiceSymmetry == Permutations(Choices)

\* What nmcli can show: nothing, the daemon's tunnel, a Proton tunnel.
FewNmReports ==
  {[match |-> "none", managed |-> "absent"],
   [match |-> "none", managed |-> "present"],
   [match |-> "one", managed |-> "absent"]}

\* The least with which both directions of a switch are possible.
TwoNmReports ==
  {[match |-> "none", managed |-> "absent"],
   [match |-> "one", managed |-> "absent"]}
=============================================================================
