---------------------------- MODULE MCEnrollment ----------------------------
EXTENDS Enrollment
=============================================================================
