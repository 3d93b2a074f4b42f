-------------------------- MODULE TerminalContract --------------------------
(***************************************************************************)
(* What a user's terminal promises of each of its sessions: it connects,    *)
(* may come alive, shows output only while it is, and once it is over it    *)
(* stays over.                                                              *)
(***************************************************************************)
CONSTANT Sessions

VARIABLES
  phase,   \* what the browser knows of each session
  output   \* sessions that have shown output

vars == <<phase, output>>

Init ==
  /\ phase = [s \in Sessions |-> "none"]
  /\ output = {}

(* Sessions start and end together when they share a socket. *)
Changes(moves) ==
  /\ phase' \in [Sessions -> {"none", "connecting", "live", "over"}]
  /\ \A s \in Sessions : phase'[s] # phase[s] => <<phase[s], phase'[s]>> \in moves
  /\ UNCHANGED output

Connect == Changes({<<"none", "connecting">>})
Succeed == Changes({<<"connecting", "live">>})
End     == Changes({<<"connecting", "over">>, <<"live", "over">>})

Show ==
  /\ \E s \in Sessions : phase[s] = "live" /\ output' = output \cup {s}
  /\ UNCHANGED phase

Next == Connect \/ Succeed \/ End \/ Show

Spec == Init /\ [][Next]_vars

=============================================================================
