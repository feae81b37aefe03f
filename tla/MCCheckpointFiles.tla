------------------------- MODULE MCCheckpointFiles -------------------------
EXTENDS CheckpointFiles

MCRoles == <<"actor", "critic">>
KeepTwo == [RoleSet -> {0, 2, 3}]
KeepOne == {[r \in RoleSet |-> 1]}
=============================================================================
