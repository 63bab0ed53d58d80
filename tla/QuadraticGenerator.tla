------------------------- MODULE QuadraticGenerator -------------------------
(***************************************************************************)
(* mc_rbdyn::QuadraticGenerator (src/src/mc_rbdyn/polygon_utils.cpp): a    *)
(* progress profile over nrSteps_ calls of next(), accelerating up to t1,  *)
(* cruising at max_speed up to t2 and decelerating to nrSteps_, after which *)
(* it stays at the end.  percentOut = start + (end-start)*sample/nrSteps_. *)
(*                                                                         *)
(* The profile is computed in doubles; here it is exact.  Every sample is  *)
(* scaled by D = 2*(proportion-1)*nrSteps_, which makes each of the three  *)
(* pieces an integer:                                                       *)
(*   c^2/2*max_speed*proportion/nrSteps_       ->  c^2 * p^2              *)
(*   (c - t1)*max_speed                        ->  2*p*N*(c - t1)         *)
(* with max_speed = p/(p-1).  t1 and t2 are unsigned integer divisions, as *)
(* in the constructor.                                                      *)
(***************************************************************************)
EXTENDS Integers

CONSTANTS
  NrStepsIn,     \* values of the constructor's nrSteps
  ProportionIn,  \* values of the constructor's proportion
  ExtraCalls     \* calls of next() modelled after current passes nrSteps_

ASSUME /\ NrStepsIn \subseteq Nat \ {0}
       /\ ProportionIn \subseteq Nat \ {0, 1}
       /\ ExtraCalls \in Nat

VARIABLES
  nrSteps_, proportion, t1, t2,  \* the generator's members
  current,                       \* QuadraticGenerator::current
  out                            \* the last sample returned, scaled by Scale; -1 before any

vars == <<nrSteps_, proportion, t1, t2, current, out>>

Scale == 2 * (proportion - 1) * nrSteps_

-----------------------------------------------------------------------------
(* Mutant: the rounding of nrSteps up to a multiple of proportion is       *)
(* missing.                                                                 *)
RoundedStepsUnrounded(n, p) == n

(* "rounding it up to the nearest multiple": nrSteps_ += proportion -     *)
(* (nrSteps_ % proportion) when nrSteps_ is not divisible.                  *)
RoundedSteps(n, p) == IF n % p # 0 THEN n + (p - (n % p)) ELSE n

(* Mutant: t2 computed without the division by proportion.               *)
InitT2Unscaled ==
  \E n \in NrStepsIn, p \in ProportionIn :
    LET N == RoundedSteps(n, p) IN
    /\ nrSteps_ = N /\ proportion = p
    /\ t1 = N \div p
    /\ t2 = N * (p - 1)
    /\ current = 0 /\ out = -1

(* The constructor.                                                         *)
Init ==
  \E n \in NrStepsIn, p \in ProportionIn :
    LET N == RoundedSteps(n, p) IN
    /\ nrSteps_ = N /\ proportion = p
    /\ t1 = N \div p
    /\ t2 = (N \div p) * (p - 1)
    /\ current = 0 /\ out = -1

(* Mutant: the deceleration piece measured from t1 instead of t2.          *)
ScaledSampleFromT1(c) ==
  LET p == proportion
      N == nrSteps_
      s1 == t1 * t1 * p * p
      s2 == s1 + 2 * p * N * (t2 - t1)
  IN CASE c <= t1               -> c * c * p * p
       [] c > t1 /\ c <= t2     -> s1 + 2 * p * N * (c - t1)
       [] c > t2 /\ c <= N      -> s2 + 2 * p * N * (c - t1)
                                      - (c - t2) * (c - t2) * p * p
       [] OTHER                 -> N * Scale

(* The sample next() computes for current = c, times Scale.                *)
ScaledSample(c) ==
  LET p == proportion
      N == nrSteps_
      s1 == t1 * t1 * p * p
      s2 == s1 + 2 * p * N * (t2 - t1)
  IN CASE c <= t1               -> c * c * p * p
       [] c > t1 /\ c <= t2     -> s1 + 2 * p * N * (c - t1)
       [] c > t2 /\ c <= N      -> s2 + 2 * p * N * (c - t2)
                                      - (c - t2) * (c - t2) * p * p
       [] OTHER                 -> N * Scale

(* next(percentOut, speedOut): the sample at current, then current += 1.   *)
next ==
  /\ current <= nrSteps_ + ExtraCalls
  /\ out' = ScaledSample(current)
  /\ current' = current + 1
  /\ UNCHANGED <<nrSteps_, proportion, t1, t2>>

Spec == Init /\ [][next]_vars

-----------------------------------------------------------------------------
(* Properties                                                               *)

TypeOK ==
  /\ nrSteps_ \in Nat \ {0} /\ proportion \in ProportionIn
  /\ t1 \in 0..t2 /\ t2 \in 0..nrSteps_
  /\ current \in Nat /\ out \in Int

(* Successive percentOut values never go back (the profile's speed is    *)
(* never negative across the acceleration, cruise and deceleration        *)
(* pieces and their joints at t1 and t2).                                  *)
Monotone == [][out' >= out]_vars

(* Once next() has been called for current = nrSteps_, percentOut is      *)
(* exactly end.                                                             *)
ReachesEnd == current > nrSteps_ => out = nrSteps_ * Scale

=============================================================================
