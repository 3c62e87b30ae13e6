---------------------------- MODULE MCEnrollment -----------------------------
EXTENDS Enrollment, TLC

\* Requests in flight are interchangeable, and so are machines.
EnrollmentSymmetry == Permutations(Slot) \cup Permutations(Serial)
=============================================================================
