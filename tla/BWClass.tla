------------------------------ MODULE BWClass -------------------------------
(***************************************************************************)
(* Bandwidth classes: class b stands for 16 * sqrt(2)^(b - 1) kbps.        *)
(* Bandwidths are whole kbps.  Both conversions truncate; the square of    *)
(* the class's bandwidth, 2^(b + 7), makes them exact without roots.       *)
(***************************************************************************)
EXTENDS Integers

CONSTANT MaxCls   \* the largest class (63 in the code)

BWClass == 0 .. MaxCls

Kbps == [b \in BWClass |->
          IF b = 0 THEN 0
          ELSE CHOOSE n \in 0 .. 2 ^ (b + 4) :
                 n * n <= 2 ^ (b + 7) /\ (n + 1) * (n + 1) > 2 ^ (b + 7)]
ToKbps(b) == Kbps[b]

BWClsFromBW(bw) ==
  CHOOSE b \in BWClass :
    /\ b > 0 => 2 ^ (b + 7) <= bw * bw
    /\ b < MaxCls => bw * bw < 2 ^ (b + 8)

MinBWCls(a, b) == IF a < b THEN a ELSE b
MaxBWCls(a, b) == IF a > b THEN a ELSE b

=============================================================================
