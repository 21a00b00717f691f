----------------------------- MODULE MCTeamMailbox -----------------------------
EXTENDS TeamMailbox

CONSTANTS m1, m2, l1, l2
MCRoute == {<<Captain, m1>>, <<m1, Captain>>, <<Captain, m2>>}
=============================================================================
