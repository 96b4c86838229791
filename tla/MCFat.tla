------------------------------- MODULE MCFat -------------------------------
EXTENDS Fat

CONSTANTS a, b, c, d1, d2

MCDocLen(d) == IF d = d1 THEN 1 ELSE 3

=============================================================================
