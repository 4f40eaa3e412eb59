------------------------------ MODULE MCAvVolume ------------------------------
(***************************************************************************)
(* Instances of AvVolume for TLC.  A behaviour has a topic, which bounds   *)
(* what changes in it and the modes of its handles: the volumes, or the    *)
(* device and the volume of one type, where sink input 0 is of some other  *)
(* program.                                                                *)
(***************************************************************************)
EXTENDS AvVolume

VARIABLE topic

Lengths == [t \in Type |-> IF t = System THEN 3 ELSE 2]
Defaults == [t \in Type |-> 1]
\* What a reset is given: the volumes after boot, or one too many for each type.
Saves == {Defaults, Lengths}

Still == [volumes |-> <<device, routing>>,
          device  |-> <<volume[System]>>]

ModesOf == [volumes |-> {"out", "video", "in"},
            device  |-> {"out"}]

MCInit == Init /\ topic \in DOMAIN ModesOf

MCNext ==
  /\ Next
  /\ UNCHANGED <<topic, Still[topic]>>
  /\ \A h \in Handle : mode'[h] \in ModesOf[topic]
  /\ topic = "device" => first' \notin Handle

MCSpec == MCInit /\ [][MCNext]_<<vars, topic>>

===============================================================================
