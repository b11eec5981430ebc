----------------------------- MODULE MCWindows -----------------------------
EXTENDS Windows

\* Up to three changes a run with one window opened, two with two.
Changes == <<3, 2>>
\* Two edits with one window opened, to lock its cursor and to free it again.
Edits == <<2, 1>>
=============================================================================
