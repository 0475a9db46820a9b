------------------------------- MODULE MCVidc -------------------------------
\* Small screens for TLC: one or two pages and one or two sizes, none below 320x256.
EXTENDS Vidc

CONSTANTS v1, v2, c1, c2, normal, wide

McClamp == [s \in {normal, wide} |-> s]
McClampOne == [s \in {normal} |-> s]

=============================================================================
