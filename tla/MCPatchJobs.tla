---------------------------- MODULE MCPatchJobs ----------------------------
(***************************************************************************)
(* Instances of PatchJobs for TLC.  One policy reaches every host and stops *)
(* at half of them failing.                                                 *)
(***************************************************************************)
EXTENDS PatchJobs, TLC

CONSTANTS h1, h2, c1, c2, p1, u1, u2, r1, r2

TwoHosts == {h1, h2}
OneHost  == {h1}

OnePolicy == {p1}

EachItsOwn == (c1 :> h1) @@ (c2 :> h2)
OneOnOne   == (c1 :> h1)

AllHosts  == [p \in Policies |-> Hosts]
HalfStops == [p \in Policies |-> 50]

Slots == {f @@ g : f \in Permutations(Users), g \in Permutations(Calls)}

(* Each host goes with its own collector, so both are swapped together. *)
Swaps ==
  {f @@ g : f \in {(h1 :> h1) @@ (h2 :> h2) @@ (c1 :> c1) @@ (c2 :> c2),
                   (h1 :> h2) @@ (h2 :> h1) @@ (c1 :> c2) @@ (c2 :> c1)},
            g \in Slots}

=============================================================================
