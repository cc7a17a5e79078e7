------------------------------ MODULE MCAnnounce ------------------------------
\* Model-checking instance of Announce: two chunks, queues of two, two faults.
EXTENDS Announce
=============================================================================
