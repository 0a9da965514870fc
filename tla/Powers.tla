------------------------------- MODULE Powers -------------------------------
\* Powers as a recursive function, since the provers know nothing of b ^ n.
EXTENDS Integers

\* b to the power n.
Power(b, n) ==
  LET power[k \in 0 .. n] == IF k = 0 THEN 1 ELSE b * power[k - 1]
  IN  power[n]
=============================================================================
