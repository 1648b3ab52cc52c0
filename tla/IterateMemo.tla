----------------------------- MODULE IterateMemo -----------------------------
(***************************************************************************)
(* What a store of computed quantities promises to the objective that owns *)
(* it, with no word of tiers, flags or copies.  The optimizer stands at a  *)
(* point `here`; it has an iterate `base` and perhaps a candidate `cand`.  *)
(* `known[w]` is the set of keys whose value at the point w stands for is  *)
(* held: an evaluation at `here` is answered without work exactly for the  *)
(* keys known there.  Accepting a candidate keeps what was computed for    *)
(* it; reverting gives back what was known of the iterate; a probe at a    *)
(* temporary point costs the iterate and the candidate nothing.            *)
(***************************************************************************)
CONSTANTS Key, Point, NoPoint

VARIABLES here, base, cand, at, known

vars == <<here, base, cand, at, known>>

Where == {"base", "cand", "probe"}

Init ==
  /\ here = NoPoint /\ base = NoPoint /\ cand = NoPoint
  /\ at = "base"
  /\ known = [w \in Where |-> {}]

(* A first point, or a new iterate of which nothing is known.              *)
Start(z) ==
  /\ here' = z /\ base' = z /\ cand' = NoPoint
  /\ at' = "base"
  /\ known' = [w \in Where |-> {}]

Try(z) ==
  /\ base # NoPoint
  /\ here' = z /\ cand' = z
  /\ at' = "cand"
  /\ known' = [known EXCEPT !["cand"] = {}, !["probe"] = {}]
  /\ UNCHANGED base

Take ==
  /\ cand # NoPoint
  /\ here' = cand /\ base' = cand /\ cand' = NoPoint
  /\ at' = "base"
  /\ known' = [w \in Where |-> IF w = "base" THEN known["cand"] ELSE {}]

GiveUp ==
  /\ base # NoPoint
  /\ here' = base /\ cand' = NoPoint
  /\ at' = "base"
  /\ known' = [w \in Where |-> IF w = "base" THEN known["base"] ELSE {}]
  /\ UNCHANGED base

Probe(z) ==
  /\ base # NoPoint
  /\ here' = z
  /\ at' = "probe"
  /\ known' = [known EXCEPT !["probe"] = {}]
  /\ UNCHANGED <<base, cand>>

Learn(k) ==
  /\ here # NoPoint
  /\ known' = [known EXCEPT ![at] = @ \cup {k}]
  /\ UNCHANGED <<here, base, cand, at>>

Next ==
  \/ \E z \in Point : Start(z) \/ Try(z) \/ Probe(z)
  \/ Take \/ GiveUp
  \/ \E k \in Key : Learn(k)

Spec == Init /\ [][Next]_vars
=============================================================================
