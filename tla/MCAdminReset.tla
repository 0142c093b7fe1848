---------------------------- MODULE MCAdminReset ----------------------------
EXTENDS AdminReset
=============================================================================
