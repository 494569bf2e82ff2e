---------------------------- MODULE DurableStore ----------------------------
(***************************************************************************)
(* What a file of PokeDNA promises its user, whatever the card does: a     *)
(* restart brings back the image they were last told they have, or one     *)
(* they have asked to save since.  Never an older one, never a torn one,   *)
(* and never nothing once there was something.                             *)
(***************************************************************************)
CONSTANTS Images, Nothing

VARIABLES
  durable,   \* what a restart would bring back
  acked,     \* what the user was last told, or shown, to be saved
  tried      \* what they have asked to save since

vars == <<durable, acked, tried>>

Init == durable \in Images \cup {Nothing} /\ acked = durable /\ tried = {}

\* The user asks for v to be saved.
Try(v) == tried' = tried \cup {v} /\ UNCHANGED <<durable, acked>>

\* A save, a mishap or a repair moves the file among what may be there.
Move == durable' \in {acked} \cup tried /\ UNCHANGED <<acked, tried>>

\* The user is told what they have: it is what a restart would bring back.
Tell == acked' = durable' /\ tried' = {} /\ durable' \in {acked} \cup tried

Next == (\E v \in Images : Try(v)) \/ Move \/ Tell

Spec == Init /\ [][Next]_vars
=============================================================================
