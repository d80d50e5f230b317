-------------------------- MODULE MCPanelServices --------------------------
\* A small instance of the panel's services for TLC.
EXTENDS PanelServices, TLC

Symmetry == Permutations(Profiles)
=============================================================================
