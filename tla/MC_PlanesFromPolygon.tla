------------------------ MODULE MC_PlanesFromPolygon ------------------------
EXTENDS PlanesFromPolygon

Grid == (0..2) \X (0..2)

Cross(o, a, b) == (a[1] - o[1]) * (b[2] - o[2]) - (a[2] - o[2]) * (b[1] - o[1])

(* Strictly convex polygons of 3 or 4 grid points, turning the same way   *)
(* at every vertex, in either orientation.                                  *)
Convex(vs) ==
  LET n == Len(vs)
      turn(k) == Cross(vs[k], vs[(k % n) + 1], vs[((k + 1) % n) + 1])
  IN \/ \A k \in 1..n : turn(k) > 0
     \/ \A k \in 1..n : turn(k) < 0

(* The closed coordinate sequence geos gives for such a polygon.           *)
Closed(vs) == Append(vs, vs[1])

MCGeometries ==
  {[isPolygon |-> TRUE, ring |-> Closed(v)] :
      v \in {v \in [1..3 -> Grid] \cup [1..4 -> Grid] : Convex(v)}}
  \cup {[isPolygon |-> FALSE, ring |-> << >>]}

(* The same, with an empty polygon (POLYGON EMPTY, whose exterior ring has *)
(* no coordinates).                                                          *)
MCGeometriesWithEmpty == MCGeometries \cup {[isPolygon |-> TRUE, ring |-> << >>]}

=============================================================================
