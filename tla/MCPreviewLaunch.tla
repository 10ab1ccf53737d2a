--------------------------- MODULE MCPreviewLaunch ---------------------------
\* Instances of PreviewLaunch for TLC.
EXTENDS PreviewLaunch, TLC

CONSTANTS c1, c2

\* Clients run the same code.
Clients == Permutations(Client)

\* Every step of a request.
AllSteps == Step \ {"idle"}
None == {}
=============================================================================
