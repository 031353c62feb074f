------------------------------ MODULE MCAccess ------------------------------
\* Access with one group, which makes editors, two signing keys and two
\* sign-ins.
EXTENDS Access

MCRoleMap == [viewer |-> {}, editor |-> {"editors"}, admin |-> {}]
=============================================================================
