---------------------------- MODULE MCIgmpSnoop ----------------------------
(* Model checking of IGMP snooping: two hosts behind one of two ports, in   *)
(* one group; frames with and without room for the tag.                     *)
EXTENDS IgmpSnoop

CONSTANTS host1, host2, group

MCMacOf  == [m \in {host1, host2} |-> group]
MCPortOf == [m \in {host1, host2} |-> 1]

\* Room at the tail, just too little of it, room at the head only, none at all,
\* and frames that need padding at the tail and at the head.
MCRoom == {<<0, 6, 5>>, <<0, 6, 3>>, <<3, 6, 2>>, <<1, 6, 1>>, <<0, 3, 4>>, <<6, 3, 1>>}

=============================================================================
