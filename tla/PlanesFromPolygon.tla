-------------------------- MODULE PlanesFromPolygon --------------------------
(***************************************************************************)
(* mc_rbdyn::planes_from_polygon and mc_rbdyn::set_planes                  *)
(* (src/src/mc_rbdyn/polygon_utils.cpp).                                    *)
(*                                                                         *)
(* planes_from_polygon walks the exterior ring of a geos polygon, a closed *)
(* coordinate sequence whose last point repeats the first, and makes one   *)
(* plane per iteration from the point i and the point before it.          *)
(* set_planes resets a CoMIncPlaneConstr and adds every plane whose normal *)
(* is not zero.  Each loop iteration is a step, so the order in which the  *)
(* planes are produced is the code's.  Coordinates are small integers; a   *)
(* normal is kept unnormalised: dividing it and the offset by the norm, as *)
(* the code does, describes the same half-plane, and a zero normal stays   *)
(* zero.                                                                    *)
(***************************************************************************)
EXTENDS Integers, Sequences

CONSTANTS
  Geometries,    \* the geometries given: [isPolygon, ring] with ring a closed point sequence
  SizeTMod       \* 2^w for the w-bit size_t of seq->size() - 1 (w reduced for TLC)

ASSUME SizeTMod \in Nat \ {0, 1}

VARIABLES
  geometry,      \* the geometry given to planes_from_polygon
  ring,          \* the exterior ring's coordinate sequence once the cast is done
  i,             \* the loop index of planes_from_polygon, 0-based as in the code
  res,           \* the std::vector<Plane> being built
  constr,        \* the planes added to the CoMIncPlaneConstr, by index
  pc             \* "cast", "loop", "set", "done", or "fault": getAt read past the ring

vars == <<geometry, ring, i, res, constr, pc>>

-----------------------------------------------------------------------------
(* seq->size() - 1 in size_t: an empty ring's bound wraps to 2^w - 1.      *)
LastIdx(r) == (Len(r) - 1) % SizeTMod

(* Mutant: prev is point k - 1 also for k = 0.                             *)
ReadIdxNoWrap(r, k) == {k, k - 1}

(* The 0-based indices of the points iteration k reads, p and prev.        *)
ReadIdx(r, k) == {k, IF k = 0 THEN LastIdx(r) ELSE k - 1}

Dot(u, v) == u[1] * v[1] + u[2] * v[2]

(* Mutant: the x component of the normal with the wrong sign.              *)
PlaneAtSkewed(r, k) ==
  LET p    == r[k + 1]
      prev == IF k = 0 THEN r[Len(r)] ELSE r[k]
      n    == <<p[2] - prev[2], p[1] - prev[1]>>
  IN [normal |-> n, offset |-> -Dot(n, p)]

(* The plane of the loop's iteration i: normal (p.y - prev.y,             *)
(* prev.x - p.x), offset -(normal . p); prev is the point before p, and   *)
(* for i = 0 the ring's last point.                                         *)
PlaneAt(r, k) ==
  LET p    == r[k + 1]
      prev == IF k = 0 THEN r[Len(r)] ELSE r[k]
      n    == <<p[2] - prev[2], prev[1] - p[1]>>
  IN [normal |-> n, offset |-> -Dot(n, p)]

Init ==
  /\ geometry \in Geometries /\ ring = << >>
  /\ i = 0 /\ res = << >> /\ constr = {} /\ pc = "cast"

(* dynamic_cast<geos::geom::Polygon*>: a geometry that is not a polygon   *)
(* gives an empty result; a polygon gives its exterior ring.               *)
CastPolygon ==
  /\ pc = "cast"
  /\ pc' = IF geometry.isPolygon THEN "loop" ELSE "set"
  /\ ring' = IF geometry.isPolygon THEN geometry.ring ELSE << >>
  /\ UNCHANGED <<geometry, i, res, constr>>

(* Mutant: "++i" is missing from the loop; the bound on plane count stops it. *)
LoopStepNoIncrement ==
  /\ pc = "loop"
  /\ i < LastIdx(ring) /\ Len(res) < Len(ring)
  /\ ReadIdx(ring, i) \subseteq 0..Len(ring) - 1
  /\ res' = Append(res, PlaneAt(ring, i))
  /\ UNCHANGED <<geometry, ring, i, constr, pc>>

(* One iteration of "for(i = 0; i < seq->size() - 1; ++i)".               *)
LoopStep ==
  /\ pc = "loop"
  /\ i < LastIdx(ring)
  /\ ReadIdx(ring, i) \subseteq 0..Len(ring) - 1
  /\ res' = Append(res, PlaneAt(ring, i))
  /\ i' = i + 1
  /\ UNCHANGED <<geometry, ring, constr, pc>>

(* An iteration whose getAt reads past the coordinate sequence: undefined *)
(* behaviour (an unchecked vector index), after which nothing is modelled. *)
ReadPastRing ==
  /\ pc = "loop"
  /\ i < LastIdx(ring)
  /\ ~ ReadIdx(ring, i) \subseteq 0..Len(ring) - 1
  /\ pc' = "fault"
  /\ UNCHANGED <<geometry, ring, i, res, constr>>

LoopExit ==
  /\ pc = "loop"
  /\ i >= LastIdx(ring)
  /\ pc' = "set"
  /\ UNCHANGED <<geometry, ring, i, res, constr>>

(* set_planes(res, constr, speeds, normalsDots): constr->reset(), then    *)
(* addPlane for every plane whose normal has norm > 0.5, with the speeds  *)
(* when speeds is not empty and all three sizes agree, without otherwise;  *)
(* then updateNrPlanes.                                                     *)
set_planes(speedsSize, dotsSize) ==
  LET withSpeeds == speedsSize # 0 /\ dotsSize = speedsSize
                    /\ Len(res) = speedsSize
  IN /\ pc = "set"
     /\ constr' = {[id |-> k - 1, normal |-> res[k].normal,
                    offset |-> res[k].offset, speeds |-> withSpeeds] :
                   k \in {j \in 1..Len(res) : res[j].normal # <<0, 0>>}}
     /\ pc' = "done"
     /\ UNCHANGED <<geometry, ring, i, res>>

Next ==
  \/ CastPolygon \/ LoopStep \/ ReadPastRing \/ LoopExit
  \/ \E s, d \in {0, Len(res), Len(res) + 1} : set_planes(s, d)

Spec == Init /\ [][Next]_vars

-----------------------------------------------------------------------------
(* Properties                                                               *)

TypeOK ==
  /\ pc \in {"cast", "loop", "set", "done", "fault"}
  /\ ring \in Seq(Int \X Int)
  /\ i \in Nat /\ res \in Seq([normal : Int \X Int, offset : Int])
  /\ Len(res) = i
  /\ \A c \in constr : c.speeds \in BOOLEAN

(* The edges of a closed ring: consecutive points, the last point being   *)
(* the first one again.                                                     *)
Edges(r) == {<<r[k], r[k + 1]>> : k \in 1..Len(r) - 1}

(* The planes put in the CoM constraint are supporting lines of the       *)
(* polygon: every vertex of the ring is on the same closed side of each   *)
(* of them, so the constraint never cuts the support polygon.              *)
ConstraintPlanesSupport ==
  \A c \in constr :
     \/ \A k \in 1..Len(ring) : Dot(c.normal, ring[k]) + c.offset <= 0
     \/ \A k \in 1..Len(ring) : Dot(c.normal, ring[k]) + c.offset >= 0

(* size_t wrap of seq->size() - 1 and the i == 0 case of prev: the loop  *)
(* reads past the coordinate sequence only for a ring with no coordinates *)
(* (where the bound wraps to 2^w - 1); every closed ring of a polygon is  *)
(* read within its bounds.                                                  *)
ReadsWithinRingUnlessEmpty == pc = "fault" => ring = << >>

(* Once set_planes has run, every edge of the polygon bounds the CoM:     *)
(* for each edge there is a constraint plane through its two points.       *)
EveryEdgeConstrained ==
  pc = "done" =>
    \A e \in Edges(ring) :
       \E c \in constr : /\ Dot(c.normal, e[1]) + c.offset = 0
                         /\ Dot(c.normal, e[2]) + c.offset = 0

=============================================================================
