------------------------------- MODULE Float64 -------------------------------
(***************************************************************************)
(* Integers and quotients of integers as 64-bit floats: what "as f64" and  *)
(* the division of two f64 make of them in Rust (aggregate.rs), and what   *)
(* int / int makes of them in Python (spark.py).  All of them round to the *)
(* nearest float, ties to even.                                            *)
(***************************************************************************)
EXTENDS Integers, FiniteSetsExt

CONSTANT F64Exact   \* a float holds the integers up to this one exactly

ASSUME Float64Assumption == F64Exact \in Nat \ {0}

(* Bounds: quotients are counted in fractions of this denominator, and the *)
(* spacing of floats is at most WidestUlp of them.  Both are more than any *)
(* sum and any count checked needs.                                        *)
Fraction == 16
WidestUlp == 64

(* x divided by n, to the nearest integer, ties to even. *)
NearestInt(x, n) ==
    LET q == x \div n
        r == x % n
    IN  IF 2 * r < n \/ (2 * r = n /\ q % 2 = 0) THEN q ELSE q + 1

(* The spacing of the floats about x divided by n. *)
Ulp(x, n) ==
    Min({u \in {1, 2, 4, 8, 16, 32, WidestUlp} :
            x \in (-u * F64Exact * n)..(u * F64Exact * n) \/ u = WidestUlp})

(* The float nearest to x divided by n. *)
Nearest(x, n) == Ulp(x, n) * NearestInt(x, n * Ulp(x, n))

(* An integer as a float. *)
AsF64(n) == Nearest(n, 1)

(* The quotient of two numbers, rounded once, counted in fractions. *)
Quotient(x, n) == Nearest(Fraction * x, n)
=============================================================================
