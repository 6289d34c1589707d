---------------------------- MODULE MCRoleSwitch ----------------------------
EXTENDS RoleSwitch
=============================================================================
