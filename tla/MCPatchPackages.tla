-------------------------- MODULE MCPatchPackages --------------------------
(***************************************************************************)
(* Instances of PatchPackages for TLC.                                      *)
(***************************************************************************)
EXTENDS PatchPackages, TLC

CONSTANTS a, b, c1, c2, r1, r2

TwoPackages == {a, b}
OneSecurity == {a}

Named(kind, match, names) ==
  [kind |-> kind, match |-> match, names |-> names, wellformed |-> TRUE]
Broken(kind, match) ==
  [kind |-> kind, match |-> match, names |-> {b}, wellformed |-> FALSE]

(* Everything; an include and an exclude that overlap; security updates,    *)
(* with an exclude that is no regular expression and so excludes nothing;   *)
(* an include that is no glob, reached unless the first one matched.        *)
FourPolicies ==
  {[type |-> "all", filters |-> <<>>],
   [type |-> "all", filters |-> <<Named("include", "glob", {a, b}), Named("exclude", "exact", {b})>>],
   [type |-> "security_only", filters |-> <<Broken("exclude", "regex")>>],
   [type |-> "selected", filters |-> <<Named("include", "exact", {a}), Broken("include", "glob")>>]}

Swaps == {f @@ g : f \in Permutations(Collectors), g \in Permutations(Slots)}

=============================================================================
