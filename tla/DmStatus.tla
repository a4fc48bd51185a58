------------------------------ MODULE DmStatus ------------------------------
(***************************************************************************)
(* What the backend promises about the state of an outgoing direct message *)
(* as a reader of the database sees it, whatever the radio, the mesh, the  *)
(* user and the restarts do: a message goes along the arrows below and     *)
(* never back.  An ACK beats the failed mark, nothing beats an ACK, and a  *)
(* message whose send was cut off stays "unknown".                         *)
(***************************************************************************)
CONSTANT Msgs

VARIABLE phase  \* the phase of every message

Phases == {"absent", "sending", "sent", "unknown", "failed", "delivered", "gone"}

Arrows ==
    {<<"absent", "sending">>, <<"sending", "sent">>, <<"sending", "unknown">>,
     <<"sent", "failed">>, <<"sent", "delivered">>, <<"failed", "delivered">>}
    \cup {<<p, "gone">> : p \in Phases}

Init == phase = [m \in Msgs |-> "absent"]

\* A restart may move several messages at once.
Next ==
    /\ phase' \in [Msgs -> Phases]
    /\ \A m \in Msgs : phase'[m] = phase[m] \/ <<phase[m], phase'[m]>> \in Arrows

Spec == Init /\ [][Next]_phase
=============================================================================
